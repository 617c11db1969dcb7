---------------------------- MODULE Coordination ----------------------------
(***************************************************************************)
(* Incidents on the backend: creation with automatic assignment, updates   *)
(* and batch uploads (app/api/routes/incidents.py, app/api/routes/sync.py, *)
(* app/services/assignment.py).  What becomes of the events put into the   *)
(* notification queue is the subject of EventFanout.                       *)
(*                                                                         *)
(* Any number of server processes may share the database: a step is a      *)
(* database statement with the code up to the next one.  A process runs    *)
(* one of these handlers at a time: none of them suspends.  What an edit   *)
(* says is its time by the clock of the client that made it, and clients'  *)
(* clocks are right.                                                       *)
(***************************************************************************)
EXTENDS Integers, FiniteSets, SequencesExt

CONSTANTS
  Server,      \* server processes
  Key,         \* identifiers of incidents, unique in the table
  Responder,   \* available responders with a known position
  Distance,    \* Distance[k][r] in kilometres
  Weight,      \* WORKLOAD_WEIGHT
  Client, NoClient, None,
  Batch,       \* shapes of uploads: sequences of [key, client, remote]
  MaxClock,    \* bound on the clock
  MaxRequests, \* bound on the handlers run
  MaxFaults    \* bound on crashes

\* The remote_id of an item: none, the id of the stored record, or one no record has.
RemoteId == {"none", "stored", "unknown"}

ASSUME CoordinationAssumption ==
  /\ Distance \in [Key -> [Responder -> Nat]] /\ Weight \in Nat
  /\ Batch \subseteq Seq([key : Key, client : Client \union {NoClient}, remote : RemoteId])
  /\ NoClient \notin Client /\ None \notin Responder \union Server
  /\ MaxClock \in Nat \ {0} /\ MaxRequests \in Nat /\ MaxFaults \in Nat

Status == {"Pending", "Assigned", "Resolved"}

VARIABLES
  row,        \* committed incidents; Absent before there is one
  workload,   \* current_workload of each responder
  lock,       \* lock[r]: the process that holds the row of r, or None
  turn,       \* turn[p]: the handler p is in
  announced,  \* incidents of which an incident_created was enqueued
  clock,
  auto,       \* history: the responder each incident was assigned to
  answered,   \* history: uploads answered with 200
  overlapped, \* history: have handlers of two processes overlapped?
  requests, faults

dbVars == <<row, workload, lock>>
vars == <<dbVars, turn, announced, clock, auto, answered, overlapped,
          requests, faults>>

Absent == [status |-> "Absent", responder |-> None, client |-> NoClient,
           content |-> 0, updated |-> 0]

\* do: the next statement; new: rows flushed, changed: rows merged, not yet
\* committed; now: the time of the request; again: had the upload been answered
\* before?
NoTurn == [do |-> "idle", key |-> None, best |-> None, load |-> 0, left |-> << >>,
           batch |-> << >>, again |-> FALSE, new |-> {}, changed |-> {}, pend |-> [k \in Key |-> Absent],
           now |-> 0, patch |-> [status |-> None, responder |-> None]]

Init ==
  /\ row = [k \in Key |-> Absent]
  /\ workload = [r \in Responder |-> 0] /\ lock = [r \in Responder |-> None]
  /\ turn = [p \in Server |-> NoTurn] /\ announced = {}
  /\ clock = 1 /\ auto = [k \in Key |-> None] /\ answered = {} /\ overlapped = FALSE
  /\ requests = 0 /\ faults = 0

Stored(k) == row[k] /= Absent

\* Rows of k that p sees: the committed ones and those of its own session.
Sees(p, k) == IF k \in turn[p].new \union turn[p].changed THEN turn[p].pend[k] ELSE row[k]

\* A unique index entry another session has flushed.
HeldByOther(p, k) == \E q \in Server \ {p} : k \in turn[q].new

\* A handler starts.
Begin(p) ==
  /\ turn[p] = NoTurn /\ requests < MaxRequests
  /\ requests' = requests + 1
  /\ overlapped' = (overlapped \/ \E q \in Server : turn[q] /= NoTurn)

----------------------------------------------------------------------------
(* POST /incidents *)

\* The first commit.  A taken identifier is refused with nothing written.  The
\* report may come without a position.
Create(p, k) ==
  /\ Begin(p) /\ ~HeldByOther(p, k) /\ ~Stored(k)
  /\ row' = [row EXCEPT ![k] = [Absent EXCEPT !.status = "Pending",
                                  !.content = clock, !.updated = clock]]
  /\ \E do \in {"assign", "unplaced"} : turn' = [turn EXCEPT ![p].do = do, ![p].key = k]
  /\ UNCHANGED <<workload, lock, announced, clock, auto, answered, faults>>

\* The score of a candidate, the smaller the better.
Score(k, r) == Distance[k][r] + Weight * workload[r]

\* Wrong: plain reads, no FOR UPDATE.
CandidatesUnlocked(p) == Responder

\* FOR UPDATE SKIP LOCKED: the rows no other transaction holds.
Candidates(p) == {r \in Responder : lock[r] = None}

\* assign_nearest_responder reads and locks the candidates and picks the best.
Lock(p) ==
  LET C == Candidates(p)
      k == turn[p].key
  IN  /\ turn[p].do = "assign" /\ C /= {}
      /\ lock' = [r \in Responder |-> IF r \in C THEN p ELSE lock[r]]
      /\ \E best \in C :
           /\ \A r \in C : Score(k, best) <= Score(k, r)
           /\ turn' = [turn EXCEPT ![p].do = "assigned", ![p].best = best,
                                   ![p].load = workload[best]]
      /\ UNCHANGED <<row, workload, announced, clock, auto, answered, overlapped,
                     requests, faults>>

Announce(k) == announced' = announced \union {k}

\* Nobody can be assigned: the incident has no position, or every responder's row
\* is held.
Unassignable(p) ==
  turn[p].do = "unplaced" \/ (turn[p].do = "assign" /\ Candidates(p) = {})

\* Wrong: without a responder the handler leaves early.
AssignNoneSilent(p) ==
  /\ Unassignable(p)
  /\ turn' = [turn EXCEPT ![p] = NoTurn]
  /\ UNCHANGED <<dbVars, announced, clock, auto, answered, overlapped, requests, faults>>

\* The incident stays pending.
AssignNone(p) ==
  /\ Unassignable(p)
  /\ turn' = [turn EXCEPT ![p] = NoTurn]
  /\ Announce(turn[p].key)
  /\ UNCHANGED <<dbVars, clock, auto, answered, overlapped, requests, faults>>

\* The second commit: the incident's status and responder, whatever they have
\* become meanwhile, and the workload computed from the value read.  The column
\* updated_at has an onupdate that sets it too.
Assign(p) ==
  LET k == turn[p].key
      r == turn[p].best
  IN  /\ turn[p].do = "assigned"
      /\ row' = [row EXCEPT ![k].status = "Assigned", ![k].responder = r,
                              ![k].updated = clock]
      /\ workload' = [workload EXCEPT ![r] = turn[p].load + 1]
      /\ auto' = [auto EXCEPT ![k] = r]
      /\ lock' = [q \in Responder |-> IF lock[q] = p THEN None ELSE lock[q]]
      /\ turn' = [turn EXCEPT ![p] = NoTurn]
      /\ Announce(k)
      /\ UNCHANGED <<clock, answered, overlapped, requests, faults>>

----------------------------------------------------------------------------
(* PATCH /incidents/{id} *)

\* A value to write, or None if it is the one that was read.
Change(new, old) == IF new = old THEN None ELSE new

\* The row is read; a new responder makes a pending incident an assigned one.
ReadForPatch(p, k) ==
  /\ Begin(p) /\ Stored(k)
  /\ \E s \in Status, r \in Responder \union {None} :
       LET status == IF r /= None /\ s = "Pending" THEN "Assigned" ELSE s
       IN  turn' = [turn EXCEPT ![p].do = "patch", ![p].key = k, ![p].now = clock,
                      ![p].patch = [status |-> Change(status, row[k].status),
                                    responder |-> Change(r, row[k].responder)]]
  /\ UNCHANGED <<dbVars, announced, clock, auto, answered, faults>>

\* The commit writes the columns that changed.  No workload changes.
Patch(p) ==
  LET k == turn[p].key
      c == turn[p].patch
  IN  /\ turn[p].do = "patch"
      /\ row' = [row EXCEPT
                  ![k].status = IF c.status /= None THEN c.status ELSE @,
                  ![k].responder = IF c.responder /= None THEN c.responder ELSE @,
                  ![k].content = turn[p].now, ![k].updated = turn[p].now]
      /\ turn' = [turn EXCEPT ![p] = NoTurn]
      /\ UNCHANGED <<workload, lock, announced, clock, auto, answered, overlapped,
                     requests, faults>>

----------------------------------------------------------------------------
(* POST /sync/incidents *)

\* An item with the time of its last edit
Edit(i, ts) == [key |-> i.key, client |-> i.client, remote |-> i.remote, ts |-> ts]

\* A client uploads a batch, each item with the time it was last edited.  It knows
\* the id of a record only once that is committed: the server chooses it.
StartSync(p, b) ==
  /\ Begin(p) /\ \A i \in DOMAIN b : b[i].remote = "stored" => Stored(b[i].key)
  /\ \E ts \in 1 .. clock :
       LET items == [i \in DOMAIN b |-> Edit(b[i], ts)]
       IN  turn' = [turn EXCEPT ![p].do = "sync", ![p].left = items,
                                ![p].batch = items, ![p].now = clock,
                                ![p].again = items \in answered]
  /\ UNCHANGED <<dbVars, announced, clock, auto, answered, faults>>

\* Wrong: only the server's id finds a record.
MatchesRemote(p, i) == Sees(p, i.key) /= Absent /\ i.remote = "stored"

\* The record is found by the server's id, or by the client's id and identifier.
Matches(p, i) ==
  /\ Sees(p, i.key) /= Absent
  /\ i.remote = "stored" \/ (i.client /= NoClient /\ Sees(p, i.key).client = i.client)

\* Wrong: whatever a client sends replaces what is stored.
NotOlderEver(i, old) == TRUE

\* client_ts >= server_ts
NotOlder(i, old) == i.ts >= old.updated

\* A match: merged with the time of the request, or skipped.
Merge(p) ==
  LET t == turn[p]
      i == Head(t.left)
      old == Sees(p, i.key)
  IN  /\ t.do = "sync" /\ t.left /= << >> /\ Matches(p, i)
      /\ turn' = IF NotOlder(i, old)
                   THEN [turn EXCEPT ![p].left = Tail(@),
                           ![p].changed = @ \union ({i.key} \ t.new),
                           ![p].pend[i.key] = [old EXCEPT !.content = i.ts, !.updated = t.now]]
                   ELSE [turn EXCEPT ![p].left = Tail(@)]
      /\ UNCHANGED <<dbVars, announced, clock, auto, answered, overlapped, requests, faults>>

\* The queries find nothing.
Miss(p) ==
  LET t == turn[p]
  IN  /\ t.do = "sync" /\ t.left /= << >> /\ ~Matches(p, Head(t.left))
      /\ turn' = [turn EXCEPT ![p].do = "flush"]
      /\ UNCHANGED <<dbVars, announced, clock, auto, answered, overlapped, requests, faults>>

\* The identifier is free: the row is flushed, with an id of its own whatever the
\* item's remote_id, and its event enqueued.
Insert(p) ==
  LET t == turn[p]
      i == Head(t.left)
  IN  /\ t.do = "flush" /\ Sees(p, i.key) = Absent /\ ~HeldByOther(p, i.key)
      /\ turn' = [turn EXCEPT ![p].do = "sync", ![p].left = Tail(@), ![p].new = @ \union {i.key},
                    ![p].pend[i.key] = [Absent EXCEPT !.status = "Pending", !.client = i.client,
                                          !.content = i.ts, !.updated = i.ts]]
      /\ Announce(i.key)
      /\ UNCHANGED <<dbVars, clock, auto, answered, overlapped, requests, faults>>

\* p and another process wait for an identifier the other has flushed: the
\* database makes one of them fail.
Deadlocked(p) ==
  \E q \in Server \ {p} :
    /\ turn[q].do = "flush"
    /\ Head(turn[p].left).key \in turn[q].new
    /\ Head(turn[q].left).key \in turn[p].new

\* The identifier is taken by a record that did not match: the flush fails, the
\* request is answered with 500 and the batch rolled back, but not its events.
Clash(p) ==
  /\ turn[p].do = "flush"
  /\ Sees(p, Head(turn[p].left).key) /= Absent \/ Deadlocked(p)
  /\ turn' = [turn EXCEPT ![p] = NoTurn]
  /\ UNCHANGED <<dbVars, announced, clock, auto, answered, overlapped, requests, faults>>

\* The one commit of a batch.
EndSync(p) ==
  LET t == turn[p]
  IN  /\ t.do = "sync" /\ t.left = << >>
      /\ row' = [k \in Key |->
                  IF k \in t.new THEN t.pend[k]
                  ELSE IF k \in t.changed
                    THEN [row[k] EXCEPT !.content = t.pend[k].content, !.updated = t.pend[k].updated]
                  ELSE row[k]]
      /\ answered' = answered \union {t.batch}
      /\ turn' = [turn EXCEPT ![p] = NoTurn]
      /\ UNCHANGED <<workload, lock, announced, clock, auto, overlapped, requests, faults>>

----------------------------------------------------------------------------

\* The process dies and starts again: its transaction is rolled back and its
\* locks are released.
Crash(p) ==
  /\ turn[p] /= NoTurn /\ faults < MaxFaults
  /\ faults' = faults + 1
  /\ lock' = [r \in Responder |-> IF lock[r] = p THEN None ELSE lock[r]]
  /\ turn' = [turn EXCEPT ![p] = NoTurn]
  /\ UNCHANGED <<row, workload, announced, clock, auto, answered, overlapped, requests>>

Tick ==
  /\ clock < MaxClock
  /\ clock' = clock + 1
  /\ UNCHANGED <<dbVars, turn, announced, auto, answered, overlapped, requests, faults>>

Continue(p) ==
  \/ Lock(p) \/ AssignNone(p) \/ Assign(p) \/ Patch(p)
  \/ Merge(p) \/ Miss(p) \/ Insert(p) \/ Clash(p) \/ EndSync(p)

Next ==
  \/ \E p \in Server :
       \/ \E k \in Key : Create(p, k) \/ ReadForPatch(p, k)
       \/ \E b \in Batch : StartSync(p, b)
       \/ Continue(p) \/ Crash(p)
  \/ Tick

Spec == Init /\ [][Next]_vars

----------------------------------------------------------------------------

\* A responder's workload is the number of incidents that were assigned to it
\* automatically, however the processes interleave and wherever one dies.
WorkloadCounts ==
  \A r \in Responder : workload[r] = Cardinality({k \in Key : auto[k] = r})

\* What is stored of an incident never gives way to an older edit, as long as no
\* two processes are in a handler at once.
NeverOlder ==
  [][~overlapped => \A k \in Key : row'[k].content >= row[k].content]_vars

\* An upload that was answered can be repeated: it is not refused, provided each
\* item carries the id of its client or of the stored record.  A remote_id that no
\* record has finds none the second time either, for the row got an id of its own.
RepeatSucceeds ==
  [][\A p \in Server :
       turn[p].again /\ Clash(p)
         => \E i \in DOMAIN turn[p].batch :
              turn[p].batch[i].client = NoClient /\ turn[p].batch[i].remote /= "stored"]_vars

\* Every incident that is stored has been announced, unless a process died, by
\* the time the handler that stored it is through.
StoredIsAnnounced ==
  faults = 0 =>
    \A k \in Key :
      Stored(k) => k \in announced \/ \E p \in Server : turn[p].do /= "idle" /\ turn[p].key = k
=============================================================================
