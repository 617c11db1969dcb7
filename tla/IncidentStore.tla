---------------------------- MODULE IncidentStore ----------------------------
(***************************************************************************)
(* The incident table of one application and the handlers that write it    *)
(* (mobile_app/lib/data/repositories/incident_repository.dart).            *)
(*                                                                         *)
(* The repository starts a handler for every event and awaits none of      *)
(* them, so handlers interleave wherever they await the database.  The     *)
(* database (drift, one background connection, one lock for transactions)  *)
(* executes its operations one at a time in the order they were issued:    *)
(* ops is that queue, and an operation is executed together with the       *)
(* handler's code up to its next await, which issues the next operation.   *)
(***************************************************************************)
EXTENDS IncidentMerge, Sequences, SequencesExt

CONSTANTS
  Ids,        \* incident ids
  Data,       \* what else a report says: type, place, urgency, client
  Batches,    \* what peers send: sequences of reports (one incident_create
              \* is a batch of one, a sync_response a batch of several)
  Created,    \* incidents this user may create
  Answers,    \* rows a server may answer a push with
  NoRow,      \* no row, no polygon
  MaxOps,     \* bound on the operations in the database queue
  MaxPushes   \* bound on the pushes in flight

\* A report of an incident, which is also what a row holds; the row's reporterId,
\* which only an insertion sets, is left out.
Reports == [id : Ids, state : States, clock : Int, data : Data]

ASSUME StoreAssumption ==
  /\ Batches \subseteq Seq(Reports)
  /\ Created \subseteq Reports
  /\ Answers \subseteq Reports
  /\ NoRow \notin Reports
  /\ MaxOps \in Nat \ {0} /\ MaxPushes \in Nat

VARIABLES
  rows,       \* the incidents table: a report or NoRow for each id
  syncQueue,  \* status of the sync_queue entry of an id: "none", "queued", "sent"
  polygons,   \* PolygonCacheService: the report the polygon was made from
  ops,        \* the database queue
  pushes,     \* POST /sync/incidents in flight: sequence of sets of ids
  handled,    \* history: reports whose handler began and was not killed
  overtaken,  \* history: ids with a row that changed between a handler's select
              \* and its write, or that the server answered with its version of
  restarted   \* history: the process died

history == <<handled, overtaken, restarted>>
vars == <<rows, syncQueue, polygons, ops, pushes, history>>

\* The operations: those of the report handler carry the report and the rest
\* of its batch.
HandlerOps == [kind : {"select", "update", "insert", "refresh"}, r : Reports, rest : Seq(Reports)]
CreateOps  == [kind : {"create"}, r : Reports]
PushOps    == [kind : {"queued"}]
CommitOps  == [kind : {"commit"}, ids : SUBSET Ids, answer : [Ids -> Answers \union {NoRow}]]
Operations == HandlerOps \union CreateOps \union PushOps \union CommitOps

Init ==
  /\ rows = [i \in Ids |-> NoRow]
  /\ syncQueue = [i \in Ids |-> "none"]
  /\ polygons = [i \in Ids |-> NoRow]
  /\ ops = << >> /\ pushes = << >>
  /\ handled = {} /\ overtaken = {} /\ restarted = FALSE

----------------------------------------------------------------------------

Handler(kind, r, rest) == [kind |-> kind, r |-> r, rest |-> rest]

\* The head of the queue is executed; next is what its continuation issues.
Executed(next) == ops' = Tail(ops) \o next

\* The head has written row i with a report other than one that a handler has
\* decided to write and not yet written.
Overtaken(i) ==
  /\ rows'[i] /= rows[i]
  /\ \E o \in Range(Tail(ops)) :
       o.kind \in {"update", "insert"} /\ o.r.id = i /\ o.r /= rows'[i]

\* The history of the writes, when the server answered for the given ids.
Written(answered) ==
  /\ overtaken' = overtaken \union answered \union {i \in Ids : Overtaken(i)}
  /\ UNCHANGED <<handled, restarted>>

\* What is issued when the handler of a report is through: _handleSyncResponse
\* awaits it and starts the next report of the batch.
NextOfBatch(rest) ==
  IF rest = << >> THEN << >> ELSE << Handler("select", Head(rest), Tail(rest)) >>

\* The reports whose handler starts when NextOfBatch is issued.
Started(rest) == IF rest = << >> THEN {} ELSE {Head(rest)}

\* A batch arrives: _handleIncomingP2PIncident starts on its first report.
Arrive(b) ==
  /\ Len(ops) < MaxOps
  /\ ops' = ops \o NextOfBatch(b)
  /\ handled' = handled \union Started(b)
  /\ UNCHANGED <<rows, syncQueue, polygons, pushes, overtaken, restarted>>

\* Wrong: the last report wins.
DecideLast(r, rest) ==
  << Handler(IF rows[r.id] = NoRow THEN "insert" ELSE "update", r, rest) >>

\* Wrong: the clock alone decides.
DecideByClock(r, rest) ==
  IF rows[r.id] = NoRow THEN << Handler("insert", r, rest) >>
  ELSE IF r.clock > rows[r.id].clock THEN << Handler("update", r, rest) >>
  ELSE NextOfBatch(rest)

\* Wrong: an incident that peers have reported before is taken to be stored.
DecideFirst(r, rest) ==
  IF \E h \in handled : h.id = r.id /\ h /= r THEN NextOfBatch(rest)
  ELSE << Handler("insert", r, rest) >>

\* The select, and the decision taken on the row it read.
Decide(r, rest) ==
  IF rows[r.id] = NoRow THEN << Handler("insert", r, rest) >>
  ELSE IF Wins(r, rows[r.id]) THEN << Handler("update", r, rest) >>
  ELSE NextOfBatch(rest)

ExecSelect ==
  LET o == Head(ops) IN
  /\ o.kind = "select"
  /\ Executed(Decide(o.r, o.rest))
  /\ handled' = IF rows[o.r.id] /= NoRow /\ ~Wins(o.r, rows[o.r.id])
                  THEN handled \union Started(o.rest) ELSE handled
  /\ UNCHANGED <<rows, syncQueue, polygons, pushes, overtaken, restarted>>

\* The update writes whatever the row is by now.
ExecUpdate ==
  LET o == Head(ops) IN
  /\ o.kind = "update"
  /\ rows' = [rows EXCEPT ![o.r.id] = o.r]
  /\ Executed(<< Handler("refresh", o.r, o.rest) >>)
  /\ Written({})
  /\ UNCHANGED <<syncQueue, polygons, pushes>>

\* The insert throws if the primary key is there by now; the exception ends
\* the handler and, in a sync_response, the whole batch.
ExecInsert ==
  LET o == Head(ops) IN
  /\ o.kind = "insert"
  /\ IF rows[o.r.id] = NoRow
       THEN /\ rows' = [rows EXCEPT ![o.r.id] = o.r]
            /\ Executed(<< Handler("refresh", o.r, o.rest) >>)
       ELSE /\ Executed(<< >>)
            /\ UNCHANGED rows
  /\ Written({})
  /\ UNCHANGED <<syncQueue, polygons, pushes>>

\* Wrong: a polygon that is cached is not made again.
PolygonOnce(r) == IF polygons[r.id] = NoRow THEN rows[r.id] ELSE polygons[r.id]

\* The polygon made after the report r was stored: from the row as it is by now.
PolygonAfter(r) == rows[r.id]

\* getIncident, updateSingleIncident and the end of the handler.
ExecRefresh ==
  LET o == Head(ops) IN
  /\ o.kind = "refresh"
  /\ polygons' = [polygons EXCEPT ![o.r.id] = PolygonAfter(o.r)]
  /\ Executed(NextOfBatch(o.rest))
  /\ handled' = handled \union Started(o.rest)
  /\ UNCHANGED <<rows, syncQueue, pushes, overtaken, restarted>>

\* createIncident: the broadcast and the polygon come before the transaction.
Create(r) ==
  /\ Len(ops) < MaxOps
  /\ syncQueue[r.id] = "none"
  /\ polygons' = [polygons EXCEPT ![r.id] = r]
  /\ ops' = Append(ops, [kind |-> "create", r |-> r])
  /\ UNCHANGED <<rows, syncQueue, pushes, history>>

\* Both inserts of the transaction, or none when the id exists.
ExecCreate ==
  LET o == Head(ops) IN
  /\ o.kind = "create"
  /\ IF rows[o.r.id] = NoRow
       THEN /\ rows' = [rows EXCEPT ![o.r.id] = o.r]
            /\ syncQueue' = [syncQueue EXCEPT ![o.r.id] = "queued"]
       ELSE UNCHANGED <<rows, syncQueue>>
  /\ Executed(<< >>)
  /\ Written({})
  /\ UNCHANGED <<polygons, pushes>>

----------------------------------------------------------------------------

\* pushLocalChanges issues its select.
Push ==
  /\ Len(ops) < MaxOps
  /\ Len(pushes) < MaxPushes
  /\ ops' = Append(ops, [kind |-> "queued"])
  /\ UNCHANGED <<rows, syncQueue, polygons, pushes, history>>

\* The queued entries are read and posted, if there are any.
ExecQueued ==
  LET queued == {i \in Ids : syncQueue[i] = "queued"} IN
  /\ Head(ops).kind = "queued"
  /\ Executed(<< >>)
  /\ pushes' = IF queued = {} THEN pushes ELSE Append(pushes, queued)
  /\ UNCHANGED <<rows, syncQueue, polygons, history>>

\* The server answers with its version of some of the pushed incidents.
PushAnswered ==
  /\ Len(ops) < MaxOps
  /\ \E k \in DOMAIN pushes :
       /\ \E answer \in [Ids -> Answers \union {NoRow}] :
            /\ \A i \in Ids : answer[i] /= NoRow => i \in pushes[k] /\ answer[i].id = i
            /\ ops' = Append(ops, [kind |-> "commit", ids |-> pushes[k], answer |-> answer])
       /\ pushes' = RemoveAt(pushes, k)
  /\ UNCHANGED <<rows, syncQueue, polygons, history>>

\* The post fails: the entries stay queued.
PushFailed ==
  /\ \E k \in DOMAIN pushes : pushes' = RemoveAt(pushes, k)
  /\ UNCHANGED <<rows, syncQueue, polygons, ops, history>>

\* The transaction of the answer: entries become "sent" and the server's
\* version overwrites the row without a merge and without a new polygon.
ExecCommit ==
  LET o == Head(ops) IN
  /\ o.kind = "commit"
  /\ syncQueue' = [i \in Ids |-> IF i \in o.ids THEN "sent" ELSE syncQueue[i]]
  /\ rows' = [i \in Ids |-> IF o.answer[i] /= NoRow THEN o.answer[i] ELSE rows[i]]
  /\ Executed(<< >>)
  /\ Written({i \in Ids : o.answer[i] /= NoRow})
  /\ UNCHANGED <<polygons, pushes>>

\* The application is killed and started again: only the database survives.
Restart ==
  /\ ops /= << >> \/ pushes /= << >> \/ \E i \in Ids : polygons[i] /= NoRow
  /\ polygons' = [i \in Ids |-> NoRow]
  /\ ops' = << >> /\ pushes' = << >>
  /\ handled' = {r \in handled : ~\E o \in Range(ops) :
                    o.kind \in {"select", "insert", "update"} /\ o.r = r}
  /\ restarted' = TRUE
  /\ UNCHANGED <<rows, syncQueue, overtaken>>

Exec ==
  /\ ops /= << >>
  /\ \/ ExecSelect \/ ExecUpdate \/ ExecInsert \/ ExecRefresh
     \/ ExecCreate \/ ExecQueued \/ ExecCommit

Peers == \E b \in Batches : Arrive(b)

User == Push \/ \E r \in Created : Create(r)

Server == PushAnswered \/ PushFailed

Next == Peers \/ User \/ Server \/ Exec \/ Restart

\* The database executes what is queued.
Spec == Init /\ [][Next]_vars /\ WF_vars(Exec)

----------------------------------------------------------------------------

Idle == ops = << >>

\* Types of the store's variables.
TypeOK ==
  /\ rows \in [Ids -> Reports \union {NoRow}]
  /\ syncQueue \in [Ids -> {"none", "queued", "sent"}]
  /\ polygons \in [Ids -> Reports \union {NoRow}]
  /\ ops \in Seq(Operations)
  /\ pushes \in Seq(SUBSET Ids)
  /\ handled \subseteq Reports /\ overtaken \subseteq Ids /\ restarted \in BOOLEAN

\* No handled report leaves its incident without a row, whichever handlers
\* raced to insert it and lost (DB-level dedup, :162).
HandledIsStored ==
  \A r \in handled :
    rows[r.id] /= NoRow
    \/ \E o \in Range(ops) : o.kind \in {"select", "insert"} /\ o.r = r

\* When nothing is in flight, the row is a maximum of the reports handled,
\* whatever the order they came in, unless a decision on it was overtaken or the
\* server answered for it.
RowIsMaximal ==
  Idle => \A r \in handled :
            r.id \in overtaken \/ (rows[r.id] /= NoRow /\ ~Wins(r, rows[r.id]))

\* A row goes back to a report it beats, or to one of its rank, only where a
\* decision was overtaken or the server answered: the part of the next claim
\* that the merge rule (:170-206) does keep.
OnlyOvertakenRollBack ==
  [][\A i \in Ids : rows[i] /= NoRow /\ rows'[i] /= rows[i] =>
       Wins(rows'[i], rows[i]) \/ i \in overtaken']_vars

\* "Prevented state rollback under concurrent and out-of-order updates"
\* (PROJECT_TIMELINE.md:1100): a row is only replaced by one that beats it.
NoRollback ==
  [][\A i \in Ids : rows[i] /= NoRow /\ rows'[i] /= rows[i] => Wins(rows'[i], rows[i])]_vars

\* When nothing is in flight every row has the polygon of its own data ("every
\* device derives identical polygons from the same incident data",
\* polygon_cache_service.dart:8), unless it is the server's version of it or the
\* process died and has not written the row since.
PolygonFollowsRow ==
  Idle => \A i \in Ids :
            rows[i] \in Answers \/ polygons[i] = rows[i] \/ (restarted /\ polygons[i] = NoRow)
=============================================================================
