---------------------------- MODULE MessageRelay ----------------------------
(***************************************************************************)
(* The message relay of the backend: the registry of WebSockets            *)
(* (app/services/peer_manager.py), the handler of a connection             *)
(* (app/api/routes/peer_ws.py), the batch upload                           *)
(* (app/api/routes/sync_messages.py) and the redelivery worker             *)
(* (app/services/message_worker.py), on the table of messages.             *)
(*                                                                         *)
(* One process, one event loop: a task runs alone from one suspension to   *)
(* the next.  The registry's lock is never held across an await, and the   *)
(* bus has no subscriber for message events, so a task suspends only when  *)
(* it writes to sockets; MidTurn keeps the others out until it     *)
(* does.  Calls to the database do not suspend: a call that has to wait    *)
(* for a row stops the whole loop.                                         *)
(***************************************************************************)
EXTENDS Naturals, FiniteSets, SequencesExt

CONSTANTS
  Users,       \* rows of the table of users
  Ids,         \* user ids of connections: users and ids made from pair tokens
  Sockets,
  Requests,    \* batch uploads that may be under way at once
  Worker, Nobody, Everyone,
  Messages,
  Addressings, \* who the messages may be for: functions from Messages to a user,
               \* an id no user has, or Everyone
  Batches,     \* batches clients upload, sequences of messages
  BatchSize,   \* BATCH_SIZE of the worker, 50
  MaxTries,    \* bound on submissions and uploads
  MaxFaults    \* bound on vanishing clients, failed commits and restarts

Task == Sockets \union Requests \union {Worker}

ASSUME RelayAssumption ==
  /\ Users \subseteq Ids /\ Nobody \notin Ids /\ Everyone \notin Ids
  /\ Worker \notin Sockets \union Requests /\ Sockets \intersect Requests = {}
  /\ \A f \in Addressings : DOMAIN f = Messages /\ Nobody \notin Range(f)
  /\ IsFiniteSet(Messages) /\ Batches \subseteq Seq(Messages)
  /\ BatchSize \in Nat \ {0} /\ MaxTries \in Nat /\ MaxFaults \in Nat

VARIABLES
  recipient,  \* recipient_id of each message
  table,      \* the rows: "none", "queued" or "delivered"
  born,       \* created_at of each row, 0 before there is one
  line,       \* line[s]: "up"; "gone", the client left, unnoticed; "down"
  user,       \* _ws_user: the id a socket is registered under, or Nobody
  task,       \* what each task is doing
  handed,     \* messages written to a connection of their recipient
  receipts,   \* receipts clients got, <<message, status>>
  answers,    \* answers to uploads, <<batch, messages created or duplicate>>
  frozen,     \* the loop waits in the database
  tries, faults

dbVars == <<table, born>>
netVars == <<line, user>>
clientVars == <<receipts, answers>>
vars == <<recipient, dbVars, netVars, task, handed, clientVars, frozen, tries, faults>>

\* todo: messages or items still to see to; cur, to: the message being written
\* and the sockets it goes to; new, marked: rows inserted and rows marked as
\* delivered in the task's session but not committed; batch, stamp: the upload
\* and its time.
Idle == [doing |-> "nothing", todo |-> << >>, cur |-> Nobody, to |-> {},
         new |-> {}, marked |-> {}, batch |-> << >>, stamp |-> 0]

Init ==
  /\ recipient \in Addressings
  /\ table = [m \in Messages |-> "none"] /\ born = [m \in Messages |-> 0]
  /\ line = [s \in Sockets |-> "down"] /\ user = [s \in Sockets |-> Nobody]
  /\ task = [p \in Task |-> Idle]
  /\ handed = {} /\ receipts = {} /\ answers = {} /\ frozen = FALSE
  /\ tries = 0 /\ faults = 0

Targeted(m) == recipient[m] /= Everyone

\* The foreign key of recipient_id holds.
Known(m) == recipient[m] \in Users \union {Everyone}

\* _connections
ConnectionsOf(u) == {s \in Sockets : user[s] = u}
Registered == {s \in Sockets : user[s] /= Nobody}

\* is_user_connected
Connected(m) == ConnectionsOf(recipient[m]) /= {}

\* Wrong: the last socket of a user takes the user's other sockets with it.
UnregisteredAll(S) ==
  [s \in Sockets |-> IF \E d \in S : user[d] = user[s] THEN Nobody ELSE user[s]]

\* PeerManager.disconnect of each of S
Unregistered(S) == [s \in Sockets |-> IF s \in S THEN Nobody ELSE user[s]]

Undelivered == {m \in Messages : table[m] = "queued" /\ Targeted(m)}

\* Rows a session holds locked: inserted, not committed.
Locked == UNION {task[p].new : p \in Task}

\* A task between two suspensions: it is not waiting for a write.
MidTurn(p) == task[p].doing \in {"backlog", "sweep", "upload"} /\ task[p].cur = Nobody

\* The loop can give p the turn.
Running(p) == ~frozen /\ \A r \in Task \ {p} : ~MidTurn(r)

----------------------------------------------------------------------------
(* A message goes out. *)

\* The next message of todo whose recipient is connected when its turn comes;
\* those before it are passed over.
NextConnected(todo) == SelectInSeq(todo, Connected)

\* A task over a list of messages (the backlog of a new connection, the sweep of
\* the worker) starts writing the next one.
SendNext(p) ==
  LET t == task[p]
      i == NextConnected(t.todo)
  IN  /\ Running(p) /\ t.doing \in {"backlog", "sweep"} /\ t.cur = Nobody
      /\ i /= 0
      /\ task' = [task EXCEPT ![p].todo = SubSeq(t.todo, i + 1, Len(t.todo)),
                              ![p].cur = t.todo[i],
                              ![p].to = ConnectionsOf(recipient[t.todo[i]])]
      /\ UNCHANGED <<recipient, dbVars, netVars, handed, clientVars, frozen, tries, faults>>

\* Wrong: a message counts as sent although every write failed.
DeliveredAnyhow(m, sent) == Targeted(m)

\* The return value of send_to_user; a broadcast is never marked.
Delivered(m, sent) == Targeted(m) /\ sent /= {}

\* What the sockets of a send may answer: a write to a client that left
\* unnoticed may go either way.
Outcomes(S) == {R \in SUBSET S : \A s \in S : /\ line[s] = "up" => s \in R
                                              /\ line[s] = "down" => s \notin R}

Told(s, m, status) ==
  receipts' = IF line[s] = "up" THEN receipts \union {<<m, status>>} ELSE receipts

\* The writes of backlog, sweep or upload are over: the sockets that failed are
\* dropped, the row is marked in the session.
EndSend(p) ==
  LET t == task[p]
  IN  /\ Running(p) /\ t.doing \in {"backlog", "sweep", "upload"} /\ t.cur /= Nobody
      /\ \E sent \in Outcomes(t.to) :
           /\ user' = Unregistered(t.to \ sent)
           /\ handed' = IF sent /= {} THEN handed \union {t.cur} ELSE handed
           /\ task' = [task EXCEPT ![p].cur = Nobody, ![p].to = {},
                         ![p].marked = IF Delivered(t.cur, sent) THEN @ \union {t.cur} ELSE @]
      /\ UNCHANGED <<recipient, dbVars, line, clientVars, frozen, tries, faults>>

\* Wrong: as in the worker, nothing is committed unless something was delivered.
CommittedMarked(t) ==
  [m \in Messages |-> IF m \in t.marked THEN "delivered" ELSE table[m]]

\* What a session writes when it commits.
Committed(t) ==
  [m \in Messages |-> IF m \in t.marked /\ (m \in t.new \/ table[m] /= "none") THEN "delivered"
                      ELSE IF m \in t.new THEN "queued" ELSE table[m]]

\* No message is left: one commit for the whole list, which may fail and leave
\* the rows as they were.
EndList(p) ==
  LET t == task[p]
  IN  /\ Running(p) /\ t.doing \in {"backlog", "sweep"} /\ t.cur = Nobody
      /\ NextConnected(t.todo) = 0
      /\ task' = [task EXCEPT ![p] = Idle]
      /\ \/ table' = Committed(t) /\ UNCHANGED faults
         \/ t.marked /= {} /\ faults < MaxFaults /\ faults' = faults + 1 /\ UNCHANGED table
      /\ UNCHANGED <<recipient, born, netVars, handed, clientVars, frozen, tries>>

----------------------------------------------------------------------------
(* A connection. *)

\* PeerManager.connect
Register(s, u) == user' = [user EXCEPT ![s] = u]

\* The query of deliver_queued_messages, which orders the rows by the Lamport
\* numbers their senders chose: any order.
Backlogs(u) == SetToSeqs({m \in Undelivered : recipient[m] = u})

\* ws_peer once the client is authenticated: the socket is registered and its
\* backlog read in one turn.
Connect(s, u) ==
  /\ Running(s) /\ line[s] = "down" /\ task[s] = Idle /\ user[s] = Nobody
  /\ \A p \in Task : s \notin task[p].to    \* a socket not used before
  /\ line' = [line EXCEPT ![s] = "up"]
  /\ Register(s, u)
  /\ \E order \in Backlogs(u) :
       task' = [task EXCEPT ![s].doing = "backlog", ![s].todo = order]
  /\ UNCHANGED <<recipient, dbVars, handed, clientVars, frozen, tries, faults>>

\* The client of a listening handler sends m.
Submit(s, m) ==
  /\ Running(s) /\ line[s] = "up" /\ task[s] = Idle /\ tries < MaxTries
  /\ tries' = tries + 1

\* The insert succeeds; the message is written to its recipient, or to every
\* connection if it has none.  With nobody to write to the receipt follows in
\* the same turn.
Relay(s, m) ==
  LET to == IF Targeted(m) THEN ConnectionsOf(recipient[m]) ELSE Registered
  IN  /\ Submit(s, m) /\ table[m] = "none" /\ m \notin Locked /\ Known(m)
      /\ table' = [table EXCEPT ![m] = "queued"]
      /\ born' = [born EXCEPT ![m] = tries']
      /\ IF to = {}
           THEN UNCHANGED task /\ Told(s, m, IF Targeted(m) THEN "queued" ELSE "broadcast")
           ELSE /\ task' = [task EXCEPT ![s].doing = "relay", ![s].cur = m, ![s].to = to]
                /\ UNCHANGED receipts
      /\ UNCHANGED <<recipient, netVars, handed, answers, frozen, faults>>

\* IntegrityError, taken for a duplicate: the id is stored already, or the
\* recipient is not a user.
RelayDuplicate(s, m) ==
  /\ Submit(s, m) /\ m \notin Locked
  /\ table[m] /= "none" \/ ~Known(m)
  /\ Told(s, m, IF table[m] = "delivered" THEN "delivered" ELSE "queued")
  /\ UNCHANGED <<recipient, dbVars, netVars, task, handed, answers, frozen, faults>>

\* An upload holds the index entry of this id: the insert waits for its commit,
\* on the loop that would have to run it.
RelayBlocked(s, m) ==
  /\ Submit(s, m) /\ m \in Locked
  /\ frozen' = TRUE
  /\ UNCHANGED <<recipient, dbVars, netVars, task, handed, clientVars, faults>>

\* Wrong: the receipt is decided before the second commit.
StatusOfSend(m, sent, committed) ==
  IF ~Targeted(m) THEN "broadcast" ELSE IF sent /= {} THEN "delivered" ELSE "queued"

\* delivery_status: after a failed commit the client gets an error instead.
Status(m, sent, committed) ==
  IF ~Targeted(m) THEN "broadcast"
  ELSE IF sent = {} THEN "queued" ELSE IF committed THEN "delivered" ELSE "error"

\* The writes of a relayed message are over: mark, commit, receipt.
EndRelay(s) ==
  LET t == task[s]
  IN  /\ Running(s) /\ t.doing = "relay"
      /\ \E sent \in Outcomes(t.to), committed \in BOOLEAN :
           /\ committed \/ (Delivered(t.cur, sent) /\ faults < MaxFaults)
           /\ faults' = IF committed THEN faults ELSE faults + 1
           /\ user' = Unregistered(t.to \ sent)
           /\ handed' = IF sent /= {} THEN handed \union {t.cur} ELSE handed
           /\ table' = IF Delivered(t.cur, sent) /\ committed
                         THEN [table EXCEPT ![t.cur] = "delivered"] ELSE table
           /\ Told(s, t.cur, Status(t.cur, sent, committed))
      /\ task' = [task EXCEPT ![s] = Idle]
      /\ UNCHANGED <<recipient, born, line, answers, frozen, tries>>

\* The client leaves; the server does not know yet.
Vanish(s) ==
  /\ line[s] = "up" /\ faults < MaxFaults
  /\ line' = [line EXCEPT ![s] = "gone"]
  /\ faults' = faults + 1
  /\ UNCHANGED <<recipient, dbVars, user, task, handed, clientVars, frozen, tries>>

\* WebSocketDisconnect in a listening handler.
Notice(s) ==
  /\ Running(s) /\ line[s] = "gone" /\ task[s] = Idle
  /\ line' = [line EXCEPT ![s] = "down"]
  /\ user' = Unregistered({s})
  /\ UNCHANGED <<recipient, dbVars, task, handed, clientVars, frozen, tries, faults>>

----------------------------------------------------------------------------
(* Uploads of messages collected offline. *)

StartUpload(q, b) ==
  /\ Running(q) /\ task[q] = Idle /\ tries < MaxTries
  /\ tries' = tries + 1
  /\ task' = [task EXCEPT ![q].doing = "upload", ![q].todo = b, ![q].batch = b,
                          ![q].stamp = tries']
  /\ UNCHANGED <<recipient, dbVars, netVars, handed, clientVars, frozen, faults>>

\* An item is a step; the items up to the next write are one turn.
Item(q) ==
  /\ Running(q) /\ task[q].doing = "upload" /\ task[q].cur = Nobody
  /\ task[q].todo /= << >>

\* The query finds the row, committed or of this session.
ItemKnown(q) ==
  /\ Item(q)
  /\ LET m == Head(task[q].todo)
     IN  table[m] /= "none" \/ m \in task[q].new
  /\ task' = [task EXCEPT ![q].todo = Tail(@)]
  /\ UNCHANGED <<recipient, dbVars, netVars, handed, clientVars, frozen, tries, faults>>

\* flush inserts the row; a connected recipient is written to at once.
ItemCreated(q) ==
  LET m == Head(task[q].todo)
  IN  /\ Item(q) /\ table[m] = "none" /\ m \notin Locked /\ Known(m)
      /\ task' = [task EXCEPT
                   ![q].todo = Tail(@), ![q].new = @ \union {m},
                   ![q].cur = IF Targeted(m) /\ Connected(m) THEN m ELSE Nobody,
                   ![q].to = IF Targeted(m) THEN ConnectionsOf(recipient[m]) ELSE {}]
      /\ UNCHANGED <<recipient, dbVars, netVars, handed, clientVars, frozen, tries, faults>>

\* IntegrityError in flush: the rollback takes the items before it along.
ItemRefused(q) ==
  LET m == Head(task[q].todo)
  IN  /\ Item(q) /\ table[m] = "none" /\ m \notin Locked /\ ~Known(m)
      /\ task' = [task EXCEPT ![q].todo = Tail(@), ![q].new = {}, ![q].marked = {}]
      /\ UNCHANGED <<recipient, dbVars, netVars, handed, clientVars, frozen, tries, faults>>

\* flush waits for the session of another upload.
ItemBlocked(q) ==
  LET m == Head(task[q].todo)
  IN  /\ Item(q) /\ table[m] = "none" /\ m \in Locked \ task[q].new
      /\ frozen' = TRUE
      /\ UNCHANGED <<recipient, dbVars, netVars, task, handed, clientVars, tries, faults>>

\* The one commit at the end, and the answer that lists every item.
EndUpload(q) ==
  LET t == task[q]
  IN  /\ Running(q) /\ t.doing = "upload" /\ t.cur = Nobody /\ t.todo = << >>
      /\ table' = Committed(t)
      /\ born' = [m \in Messages |-> IF m \in t.new THEN t.stamp ELSE born[m]]
      /\ answers' = answers \union {t.batch}
      /\ task' = [task EXCEPT ![q] = Idle]
      /\ UNCHANGED <<recipient, netVars, handed, receipts, frozen, tries, faults>>

----------------------------------------------------------------------------
(* The worker, and the process. *)

Older(m, n) == born[m] < born[n]

\* Wrong: the newest rows come first.
SelectionsNewest(S) ==
  {o \in SetToSeqs(S) : \A i, j \in DOMAIN o : i < j => ~Older(o[i], o[j])}

\* The rows of a cycle's query: the oldest BatchSize, ties in any order.
Selections(S) ==
  {o \in SetToSeqs(S) : \A i, j \in DOMAIN o : i < j => ~Older(o[j], o[i])}

\* _redeliver_cycle wakes up; with nothing pending it only goes back to sleep.
Wake ==
  /\ Running(Worker) /\ task[Worker] = Idle
  /\ Undelivered /= {}
  /\ \E order \in Selections(Undelivered) :
       task' = [task EXCEPT ![Worker].doing = "sweep",
                  ![Worker].todo = SubSeq(order, 1, IF BatchSize < Len(order) THEN BatchSize
                                                    ELSE Len(order))]
  /\ UNCHANGED <<recipient, dbVars, netVars, handed, clientVars, frozen, tries, faults>>

\* The process dies and is started again: connections, tasks and open sessions
\* are gone, the committed rows are not.
Restart ==
  /\ faults < MaxFaults
  /\ faults' = faults + 1
  /\ line' = [s \in Sockets |-> "down"]
  /\ user' = [s \in Sockets |-> Nobody]
  /\ task' = [p \in Task |-> Idle]
  /\ frozen' = FALSE
  /\ UNCHANGED <<recipient, dbVars, handed, clientVars, tries>>

Continue(p) ==
  \/ SendNext(p) \/ EndSend(p) \/ EndList(p)
  \/ ItemKnown(p) \/ ItemCreated(p) \/ ItemRefused(p) \/ ItemBlocked(p) \/ EndUpload(p)

Next ==
  \/ \E p \in Task : Continue(p)
  \/ \E s \in Sockets :
       \/ \E u \in Ids : Connect(s, u)
       \/ \E m \in Messages : Relay(s, m) \/ RelayDuplicate(s, m) \/ RelayBlocked(s, m)
       \/ EndRelay(s) \/ Vanish(s) \/ Notice(s)
  \/ \E q \in Requests, b \in Batches : StartUpload(q, b)
  \/ Wake \/ Restart

\* A turn comes to its end, the worker's timer fires and its writes end; no more
\* is needed.
Fairness ==
  /\ WF_vars(\E p \in Task : MidTurn(p) /\ Continue(p))
  /\ WF_vars(Wake) /\ WF_vars(EndSend(Worker))

Spec == Init /\ [][Next]_vars
LiveSpec == Spec /\ Fairness

----------------------------------------------------------------------------
(* What the relay is for. *)

\* A client that is connected and served is in the registry: dropping one
\* connection of a user, or a dead one found by a sender, loses no other.
LiveIsRegistered ==
  \A s \in Sockets : line[s] = "up" => user[s] /= Nobody

\* A receipt is true, now and after every later step: what it calls queued is
\* stored, what it calls delivered is marked so in the table.  Messages for an
\* id that is no user's are the exception: their insert fails like a
\* duplicate's and they are called queued.
ReceiptsAreTrue ==
  \A r \in receipts :
    /\ r[2] \in {"queued", "broadcast"} /\ Known(r[1]) => table[r[1]] /= "none"
    /\ r[2] = "delivered" => table[r[1]] = "delivered"

\* Once an upload is answered each of its messages is stored, whoever sent it
\* first, if all of them are for users: a single one that is not takes the
\* others along in its rollback.
AnsweredIsStored ==
  \A b \in answers :
    (\A m \in Range(b) : Known(m)) => \A m \in Range(b) : table[m] /= "none"

\* The relay is a store-and-forward relay.
Abstract == INSTANCE StoreForward
ImplementsStoreForward == Abstract!SSpec

\* Messages older than m that cannot be delivered and fill the worker's cycle.
Crowded(m) ==
  Cardinality({n \in Undelivered \ {m} : ~Older(m, n)}) >= BatchSize

\* A message does not stay queued while its recipient is connected, unless
\* BatchSize older ones crowd it out of every cycle or the loop is frozen.
QueuedIsDelivered ==
  \A m \in Messages :
    (table[m] = "queued" /\ Targeted(m))
      ~> \/ table[m] = "delivered" \/ frozen \/ Crowded(m)
         \/ ~\E s \in ConnectionsOf(recipient[m]) : line[s] = "up"
=============================================================================
