------------------------- MODULE MessageRelayProofs -------------------------
(***************************************************************************)
(* Proofs about MessageRelay for any number of users, sockets, uploads and *)
(* messages, any batch size and any bounds.                                *)
(*                                                                         *)
(* The inductive invariant adds to the properties what the sessions hold   *)
(* between two suspensions: rows a session inserted are in no other        *)
(* session and not in the table, rows it marked were handed over, a        *)
(* message being relayed is in the table, and an upload has lost no        *)
(* message of its batch.                                                   *)
(***************************************************************************)
EXTENDS MessageRelay, SequenceTheorems, FiniteSetTheorems, TLAPS

Statuses == {"none", "queued", "delivered"}

Works == [doing : {"nothing", "backlog", "sweep", "upload", "relay"},
          todo : Seq(Messages), cur : Messages \union {Nobody}, to : SUBSET Sockets,
          new : SUBSET Messages, marked : SUBSET Messages,
          batch : Seq(Messages), stamp : Nat]

\* Types of the relay's variables.
TypeOK ==
  /\ recipient \in Addressings
  /\ table \in [Messages -> Statuses]
  /\ born \in [Messages -> Nat]
  /\ line \in [Sockets -> {"up", "gone", "down"}]
  /\ user \in [Sockets -> Ids \union {Nobody}]
  /\ task \in [Task -> Works]
  /\ handed \subseteq Messages
  /\ receipts \subseteq Messages \X {"queued", "delivered", "broadcast", "error"}
  /\ answers \subseteq Seq(Messages)
  /\ frozen \in BOOLEAN /\ tries \in Nat /\ faults \in Nat

\* What a session has marked was handed over; what it has inserted is nowhere
\* else, in the table or in another session.
SessionOf(p) ==
  /\ task[p].marked \subseteq handed
  /\ \A m \in task[p].new :
       table[m] = "none" /\ \A r \in Task \ {p} : m \notin task[r].new

\* A message is relayed from its row.
RelayOf(p) ==
  task[p].doing = "relay" => task[p].cur \in Messages /\ table[task[p].cur] /= "none"

\* An upload of messages for users has each of them still to do, in its session,
\* or in the table.
UploadOf(p) ==
  task[p].doing = "upload" =>
    /\ Range(task[p].todo) \subseteq Range(task[p].batch)
    /\ (\A m \in Range(task[p].batch) : Known(m)) =>
         \A m \in Range(task[p].batch) :
           m \in Range(task[p].todo) \/ m \in task[p].new \/ table[m] /= "none"

\* The table tells the truth about deliveries.
DeliveredWasHanded == \A m \in Messages : table[m] = "delivered" => m \in handed

IInv ==
  /\ TypeOK
  /\ \A p \in Task : SessionOf(p) /\ RelayOf(p) /\ UploadOf(p)
  /\ LiveIsRegistered
  /\ ReceiptsAreTrue
  /\ AnsweredIsStored
  /\ DeliveredWasHanded

----------------------------------------------------------------------------
(* The operators of the relay. *)

\* A set of numbers that is not empty has a least element.
LEMMA LeastOf ==
  ASSUME NEW S \in SUBSET Nat, S /= {}
  PROVE  Min(S) \in S
<1> DEFINE T == {0 .. x : x \in S}
<1>1. \A x \in S : 0 .. x \in FiniteSubsetsOf(Nat)
  BY FS_Interval DEF FiniteSubsetsOf
<1>2. PICK t \in T : \A u \in T : ~(<<u, t>> \in StrictSubsetOrdering(Nat))
  <2>1. T \subseteq FiniteSubsetsOf(Nat) /\ T /= {}
    BY <1>1
  <2> QED BY <2>1, FS_StrictSubsetOrderingWellFounded, WFMin
<1>3. PICK x \in S : t = 0 .. x
  BY <1>2
<1>4. \A y \in S : x =< y
  <2> SUFFICES ASSUME NEW y \in S, y < x PROVE FALSE
    OBVIOUS
  <2>1. (0 .. y) \subseteq (0 .. x) /\ (0 .. y) /= (0 .. x) /\ 0 .. y \in SUBSET Nat /\ 0 .. x \in SUBSET Nat
    <3>1. x \in 0 .. x /\ x \notin 0 .. y
      OBVIOUS
    <3> QED BY <3>1
  <2>2. <<0 .. y, 0 .. x>> \in StrictSubsetOrdering(Nat)
    BY <2>1 DEF StrictSubsetOrdering
  <2> QED BY <1>2, <1>3, <2>2
<1> QED BY <1>4 DEF Min

\* The message to send next is one of the list.
LEMMA NextConnectedIn ==
  ASSUME NEW todo \in Seq(Messages), NextConnected(todo) /= 0
  PROVE  NextConnected(todo) \in 1 .. Len(todo)
<1> DEFINE I == {i \in 1 .. Len(todo) : Connected(todo[i])}
<1>1. NextConnected(todo) = IF I /= {} THEN Min(I) ELSE 0
  BY DEF NextConnected, SelectInSeq
<1>2. I \in SUBSET Nat
  OBVIOUS
<1> QED BY <1>1, <1>2, LeastOf

\* The rest of a list from some place on.
LEMMA RestOfList ==
  ASSUME NEW todo \in Seq(Messages), NEW i \in 1 .. Len(todo)
  PROVE  SubSeq(todo, i + 1, Len(todo)) \in Seq(Messages) /\ todo[i] \in Messages
<1>1. Len(todo) \in Nat /\ \A j \in 1 .. Len(todo) : todo[j] \in Messages
  BY LenProperties, ElementOfSeq
<1>2. i + 1 \in Int /\ Len(todo) \in Int /\ \A j \in (i + 1) .. Len(todo) : todo[j] \in Messages
  BY <1>1
<1> QED BY <1>1, <1>2, SubSeqProperties

\* Orders of a set of messages are lists of messages.
LEMMA OrdersAreLists ==
  ASSUME NEW S \in SUBSET Messages, NEW o \in SetToSeqs(S)
  PROVE  o \in Seq(Messages)
<1>1. Cardinality(S) \in Nat
  BY RelayAssumption, FS_Subset, FS_CardinalityType
<1>2. o \in [1 .. Cardinality(S) -> Messages]
  BY DEF SetToSeqs
<1> QED BY <1>1, <1>2, SeqDef

\* A commit stores what the session inserted and loses nothing.
LEMMA CommittedKeeps ==
  ASSUME TypeOK, NEW p \in Task, SessionOf(p)
  PROVE  /\ Committed(task[p]) \in [Messages -> Statuses]
         /\ \A m \in Messages :
              /\ table[m] /= "none" => Committed(task[p])[m] /= "none"
              /\ table[m] = "delivered" => Committed(task[p])[m] = "delivered"
              /\ m \in task[p].new => Committed(task[p])[m] /= "none"
              /\ Committed(task[p])[m] /= table[m] =>
                   \/ Committed(task[p])[m] = "delivered" /\ m \in handed
                   \/ Committed(task[p])[m] = "queued" /\ table[m] = "none" /\ m \in task[p].new
              /\ table[m] = "none" /\ Committed(task[p])[m] /= "none" => m \in task[p].new
  BY DEF Committed, TypeOK, SessionOf, Works, Statuses

----------------------------------------------------------------------------
(* What every step does to the table. *)

\* The table only advances, and what p inserts no other session has.
Advances(p) ==
  /\ recipient' = recipient
  /\ table' \in [Messages -> Statuses]
  /\ handed \subseteq handed' /\ handed' \subseteq Messages
  /\ \A m \in Messages :
       /\ table[m] /= "none" => table'[m] /= "none"
       /\ table[m] = "delivered" => table'[m] = "delivered"
       /\ table'[m] /= table[m] => \/ table'[m] = "delivered" /\ m \in handed'
                                   \/ table[m] = "none" /\ table'[m] = "queued"
       /\ table[m] = "none" /\ table'[m] /= "none" =>
            \A r \in Task \ {p} : m \notin task[r].new

\* Task p becomes w and no other task changes.
Becomes(p, w) ==
  task' \in [Task -> Works] /\ task'[p] = w /\ \A r \in Task \ {p} : task'[r] = task[r]

\* What the session of p has inserted when p becomes w is p's alone.
OwnSession(p, w) ==
  /\ w.marked \subseteq handed'
  /\ \A m \in w.new : table'[m] = "none" /\ \A r \in Task \ {p} : m \notin task[r].new

\* An upload of messages for users has lost none.
NoneLost(w) ==
  w.doing = "upload" =>
    /\ Range(w.todo) \subseteq Range(w.batch)
    /\ (\A m \in Range(w.batch) : Known(m)) =>
         \A m \in Range(w.batch) :
           m \in Range(w.todo) \/ m \in w.new \/ table'[m] /= "none"

\* When the table advances and one task changes the sessions stay in order.
LEMMA TasksKeep ==
  ASSUME IInv, NEW p \in Task, NEW w \in Works, Advances(p), Becomes(p, w),
         OwnSession(p, w), NoneLost(w),
         w.doing = "relay" => w.cur \in Messages /\ table'[w.cur] /= "none"
  PROVE  \A q \in Task : SessionOf(q)' /\ RelayOf(q)' /\ UploadOf(q)'
<1> SUFFICES ASSUME NEW q \in Task PROVE SessionOf(q)' /\ RelayOf(q)' /\ UploadOf(q)'
  OBVIOUS
<1> USE DEF IInv
<1>1. \A m : Known(m)' = Known(m)
  BY DEF Advances, Known
<1>2. CASE q = p
  <2>1. SessionOf(q)'
    BY <1>2 DEF SessionOf, OwnSession, Becomes
  <2>2. RelayOf(q)'
    BY <1>2 DEF RelayOf, Becomes
  <2>3. UploadOf(q)'
    BY <1>1, <1>2 DEF UploadOf, NoneLost, Becomes
  <2> QED BY <2>1, <2>2, <2>3
<1>3. CASE q /= p
  <2>1. task'[q] = task[q] /\ task[q] \in Works
    BY <1>3 DEF Becomes, TypeOK
  <2>2. SessionOf(q)'
    <3>1. task[q].marked \subseteq handed'
      BY DEF SessionOf, Advances
    <3>2. ASSUME NEW m \in task[q].new PROVE table'[m] = "none"
      <4>1. m \in Messages /\ table[m] = "none"
        BY <2>1 DEF SessionOf, Works
      <4> QED BY <1>3, <4>1 DEF Advances
    <3>3. ASSUME NEW m \in task[q].new, NEW r \in Task \ {q} PROVE m \notin task'[r].new
      <4>1. CASE r = p
        BY <1>3, <4>1 DEF Becomes, OwnSession
      <4>2. CASE r /= p
        BY <4>2 DEF Becomes, SessionOf
      <4> QED BY <4>1, <4>2
    <3> QED BY <2>1, <3>1, <3>2, <3>3 DEF SessionOf
  <2>3. RelayOf(q)'
    BY <2>1 DEF RelayOf, Advances
  <2>4. UploadOf(q)'
    <3>1. task[q].doing = "upload" => \A m \in Range(task[q].batch) : table[m] /= "none" => table'[m] /= "none"
      <4>1. \A m \in Range(task[q].batch) : m \in Messages
        BY <2>1, ElementOfSeq, LenProperties DEF Works, Range
      <4> QED BY <4>1 DEF Advances
    <3> QED BY <1>1, <2>1, <3>1 DEF UploadOf
  <2> QED BY <2>2, <2>3, <2>4
<1> QED BY <1>2, <1>3

\* When the table advances what was true of it stays true.
LEMMA TruthsKeep ==
  ASSUME IInv, NEW p \in Task, Advances(p)
  PROVE  /\ DeliveredWasHanded'
         /\ answers' = answers => AnsweredIsStored'
         /\ receipts' = receipts => ReceiptsAreTrue'
<1> USE DEF IInv
<1>1. \A m : Known(m)' = Known(m)
  BY DEF Advances, Known
<1>2. DeliveredWasHanded'
  BY DEF DeliveredWasHanded, Advances
<1>3. ASSUME answers' = answers PROVE AnsweredIsStored'
  <2>1. \A b \in answers : \A m \in Range(b) : m \in Messages
    BY ElementOfSeq, LenProperties DEF TypeOK, Range
  <2> QED BY <1>1, <1>3, <2>1 DEF AnsweredIsStored, Advances
<1>4. ASSUME receipts' = receipts PROVE ReceiptsAreTrue'
  <2>1. \A r \in receipts : r[1] \in Messages
    BY DEF TypeOK
  <2> QED BY <1>1, <1>4, <2>1 DEF ReceiptsAreTrue, Advances
<1> QED BY <1>2, <1>3, <1>4

\* A step that leaves the table and what was handed over alone advances it.
LEMMA StandsStill ==
  ASSUME IInv, NEW p \in Task, UNCHANGED <<recipient, table, handed>>
  PROVE  Advances(p)
  BY DEF IInv, TypeOK, Advances

----------------------------------------------------------------------------
(* The steps, one by one. *)

\* Writes that fail only unregister sockets whose client is not there.
LEMMA DroppedAreDead ==
  ASSUME IInv, NEW S \in SUBSET Sockets, NEW sent \in Outcomes(S),
         user' = Unregistered(S \ sent), line' = line
  PROVE  user' \in [Sockets -> Ids \union {Nobody}] /\ LiveIsRegistered'
  BY DEF IInv, TypeOK, LiveIsRegistered, Outcomes, Unregistered

\* A receipt is only added with its truth.
LEMMA TrueReceipt ==
  ASSUME IInv, NEW p \in Task, Advances(p), NEW s \in Sockets, NEW m \in Messages,
         NEW status \in {"queued", "delivered", "broadcast", "error"}, Told(s, m, status),
         status \in {"queued", "broadcast"} /\ Known(m) => table'[m] /= "none",
         status = "delivered" => table'[m] = "delivered"
  PROVE  /\ receipts' \subseteq Messages \X {"queued", "delivered", "broadcast", "error"}
         /\ ReceiptsAreTrue'
<1> USE DEF IInv
<1>1. \A n : Known(n)' = Known(n)
  BY DEF Advances, Known
<1>2. receipts' \subseteq receipts \union {<<m, status>>}
  BY DEF Told
<1>3. \A r \in receipts : r[1] \in Messages
  BY DEF TypeOK
<1>4. ASSUME NEW r \in receipts'
      PROVE  /\ r[2] \in {"queued", "broadcast"} /\ Known(r[1]) => table'[r[1]] /= "none"
             /\ r[2] = "delivered" => table'[r[1]] = "delivered"
  <2>1. CASE r \in receipts
    BY <1>3, <2>1 DEF ReceiptsAreTrue, Advances
  <2>2. CASE r = <<m, status>>
    BY <2>2
  <2> QED BY <1>2, <2>1, <2>2
<1> QED BY <1>1, <1>2, <1>4 DEF ReceiptsAreTrue, TypeOK

LEMMA SendNextStep ==
  ASSUME IInv, NEW p \in Task, SendNext(p)
  PROVE  IInv' /\ Advances(p)
<1> DEFINE t == task[p]
           i == NextConnected(t.todo)
           w == [t EXCEPT !.todo = SubSeq(t.todo, i + 1, Len(t.todo)), !.cur = t.todo[i],
                          !.to = ConnectionsOf(recipient[t.todo[i]])]
<1> USE DEF IInv
<1>1. /\ t.doing \in {"backlog", "sweep"} /\ i /= 0
      /\ UNCHANGED <<recipient, dbVars, netVars, handed, clientVars, frozen, tries, faults>>
  BY DEF SendNext
<1>2. t \in Works /\ task \in [Task -> Works]
  BY DEF TypeOK
<1>3. i \in 1 .. Len(t.todo)
  BY <1>1, <1>2, NextConnectedIn DEF Works
<1>4. w \in Works
  <2>1. SubSeq(t.todo, i + 1, Len(t.todo)) \in Seq(Messages) /\ t.todo[i] \in Messages
    BY <1>2, <1>3, RestOfList DEF Works
  <2>2. ConnectionsOf(recipient[t.todo[i]]) \in SUBSET Sockets
    BY DEF ConnectionsOf
  <2> QED BY <1>2, <2>1, <2>2 DEF Works
<1>5. w.doing = t.doing /\ w.new = t.new /\ w.marked = t.marked
  BY <1>2 DEF Works
<1>6. Becomes(p, w)
  BY <1>2, <1>4 DEF SendNext, Becomes
<1>7. Advances(p)
  BY <1>1, StandsStill DEF dbVars
<1>8. OwnSession(p, w) /\ NoneLost(w) /\ w.doing /= "relay"
  BY <1>1, <1>5 DEF OwnSession, NoneLost, SessionOf, dbVars
<1>9. \A q \in Task : SessionOf(q)' /\ RelayOf(q)' /\ UploadOf(q)'
  BY <1>4, <1>6, <1>7, <1>8, TasksKeep
<1>10. TypeOK' /\ LiveIsRegistered'
  BY <1>1, <1>6 DEF TypeOK, LiveIsRegistered, Becomes, dbVars, netVars, clientVars
<1> QED BY <1>1, <1>7, <1>9, <1>10, TruthsKeep DEF clientVars

LEMMA EndSendStep ==
  ASSUME IInv, NEW p \in Task, EndSend(p)
  PROVE  IInv' /\ Advances(p)
<1> DEFINE t == task[p]
<1> USE DEF IInv
<1>1. /\ t.doing \in {"backlog", "sweep", "upload"} /\ t.cur /= Nobody
      /\ UNCHANGED <<recipient, dbVars, line, clientVars, frozen, tries, faults>>
  BY DEF EndSend
<1>2. t \in Works /\ task \in [Task -> Works] /\ t.cur \in Messages
  BY <1>1 DEF TypeOK, Works
<1>3. PICK sent \in Outcomes(t.to) :
        /\ user' = Unregistered(t.to \ sent)
        /\ handed' = IF sent /= {} THEN handed \union {t.cur} ELSE handed
        /\ task' = [task EXCEPT ![p].cur = Nobody, ![p].to = {},
                      ![p].marked = IF Delivered(t.cur, sent) THEN @ \union {t.cur} ELSE @]
  BY DEF EndSend
<1> DEFINE marked == IF Delivered(t.cur, sent) THEN t.marked \union {t.cur} ELSE t.marked
           w == [t EXCEPT !.cur = Nobody, !.to = {}, !.marked = marked]
<1>4. marked \subseteq handed' /\ handed \subseteq handed' /\ handed' \subseteq Messages
  BY <1>2, <1>3 DEF Delivered, SessionOf, TypeOK
<1>5. w \in Works
  BY <1>2 DEF Works
<1>6. /\ w.doing = t.doing /\ w.new = t.new /\ w.marked = marked
      /\ w.todo = t.todo /\ w.batch = t.batch
  BY <1>2 DEF Works
<1>7. Becomes(p, w)
  BY <1>2, <1>3, <1>5 DEF Becomes
<1>8. Advances(p)
  BY <1>1, <1>4 DEF Advances, TypeOK, dbVars
<1>9. OwnSession(p, w)
  BY <1>1, <1>4, <1>6 DEF OwnSession, SessionOf, dbVars
<1>10. NoneLost(w) /\ w.doing /= "relay"
  BY <1>1, <1>6 DEF NoneLost, UploadOf, dbVars
<1>11. \A q \in Task : SessionOf(q)' /\ RelayOf(q)' /\ UploadOf(q)'
  BY <1>5, <1>7, <1>8, <1>9, <1>10, TasksKeep
<1>12. user' \in [Sockets -> Ids \union {Nobody}] /\ LiveIsRegistered'
  BY <1>1, <1>2, <1>3, DroppedAreDead DEF Works
<1>13. TypeOK'
  BY <1>1, <1>4, <1>7, <1>12 DEF TypeOK, Becomes, dbVars, clientVars
<1> QED BY <1>1, <1>8, <1>11, <1>12, <1>13, TruthsKeep DEF clientVars

LEMMA IdleIsWork == Idle \in Works /\ Range(<< >>) = {}
  BY DEF Idle, Works, Range

\* A commit advances the table.
LEMMA CommitAdvances ==
  ASSUME IInv, NEW p \in Task, table' = Committed(task[p]), UNCHANGED <<recipient, handed>>
  PROVE  Advances(p)
<1> USE DEF IInv
<1>1. SessionOf(p) /\ TypeOK
  OBVIOUS
<1>2. table' \in [Messages -> Statuses] /\ handed' \subseteq Messages /\ handed \subseteq handed'
  BY <1>1, CommittedKeeps DEF TypeOK
<1>3. ASSUME NEW m \in Messages, table[m] = "none", table'[m] /= "none", NEW r \in Task \ {p}
      PROVE  m \notin task[r].new
  BY <1>1, <1>3, CommittedKeeps DEF SessionOf
<1> QED BY <1>1, <1>2, <1>3, CommittedKeeps DEF Advances

LEMMA EndListStep ==
  ASSUME IInv, NEW p \in Task, EndList(p)
  PROVE  IInv' /\ Advances(p)
<1> USE DEF IInv
<1>1. /\ task' = [task EXCEPT ![p] = Idle]
      /\ table' = Committed(task[p]) \/ UNCHANGED table
      /\ faults' \in {faults, faults + 1}
      /\ UNCHANGED <<recipient, born, netVars, handed, clientVars, frozen, tries>>
  BY DEF EndList
<1>2. Advances(p)
  BY <1>1, StandsStill, CommitAdvances
<1>3. Becomes(p, Idle)
  BY <1>1, IdleIsWork DEF TypeOK, Becomes
<1>4. OwnSession(p, Idle) /\ NoneLost(Idle) /\ Idle.doing /= "relay"
  BY DEF Idle, OwnSession, NoneLost
<1>5. \A q \in Task : SessionOf(q)' /\ RelayOf(q)' /\ UploadOf(q)'
  BY <1>2, <1>3, <1>4, IdleIsWork, TasksKeep
<1>6. TypeOK' /\ LiveIsRegistered'
  BY <1>1, <1>2, <1>3 DEF TypeOK, LiveIsRegistered, Becomes, Advances, netVars, clientVars
<1> QED BY <1>1, <1>2, <1>5, <1>6, TruthsKeep DEF clientVars

LEMMA ConnectStep ==
  ASSUME IInv, NEW s \in Sockets, NEW u \in Ids, Connect(s, u)
  PROVE  IInv' /\ Advances(s)
<1> USE DEF IInv
<1>0. s \in Task
  BY DEF Task
<1>1. /\ task[s] = Idle /\ line' = [line EXCEPT ![s] = "up"] /\ Register(s, u)
      /\ UNCHANGED <<recipient, dbVars, handed, clientVars, frozen, tries, faults>>
  BY DEF Connect
<1>2. PICK order \in Backlogs(u) :
        task' = [task EXCEPT ![s].doing = "backlog", ![s].todo = order]
  BY DEF Connect
<1> DEFINE w == [Idle EXCEPT !.doing = "backlog", !.todo = order]
<1>3. w \in Works /\ w.doing = "backlog" /\ w.new = {} /\ w.marked = {}
  <2>1. order \in Seq(Messages)
    BY OrdersAreLists DEF Backlogs, Undelivered
  <2> QED BY <2>1, IdleIsWork DEF Works, Idle
<1>4. Becomes(s, w)
  BY <1>0, <1>1, <1>2, <1>3 DEF Becomes, TypeOK
<1>5. Advances(s)
  BY <1>0, <1>1, StandsStill DEF dbVars
<1>6. OwnSession(s, w) /\ NoneLost(w) /\ w.doing /= "relay"
  BY <1>3 DEF OwnSession, NoneLost
<1>7. \A q \in Task : SessionOf(q)' /\ RelayOf(q)' /\ UploadOf(q)'
  BY <1>0, <1>3, <1>4, <1>5, <1>6, TasksKeep
<1>8. LiveIsRegistered'
  BY <1>1, RelayAssumption DEF Register, LiveIsRegistered, TypeOK
<1>9. TypeOK'
  BY <1>1, <1>4 DEF TypeOK, Becomes, Register, dbVars, clientVars
<1> QED BY <1>0, <1>1, <1>5, <1>7, <1>8, <1>9, TruthsKeep DEF clientVars

LEMMA RelayStep ==
  ASSUME IInv, NEW s \in Sockets, NEW m \in Messages, Relay(s, m)
  PROVE  IInv' /\ Advances(s)
<1> DEFINE to == IF Targeted(m) THEN ConnectionsOf(recipient[m]) ELSE Registered
           w == [Idle EXCEPT !.doing = "relay", !.cur = m, !.to = to]
<1> USE DEF IInv
<1>0. s \in Task
  BY DEF Task
<1>1. /\ task[s] = Idle /\ tries' = tries + 1
      /\ table[m] = "none" /\ m \notin Locked
      /\ table' = [table EXCEPT ![m] = "queued"] /\ born' = [born EXCEPT ![m] = tries']
      /\ UNCHANGED <<recipient, netVars, handed, answers, frozen, faults>>
  BY DEF Relay, Submit
<1>2. table'[m] = "queued" /\ table' \in [Messages -> Statuses]
      /\ \A n \in Messages \ {m} : table'[n] = table[n]
  BY <1>1 DEF TypeOK, Statuses
<1>3. Advances(s)
  BY <1>1, <1>2 DEF Advances, TypeOK, Locked
<1>4. TypeOK' /\ LiveIsRegistered' <=>
        task' \in [Task -> Works] /\ receipts' \subseteq Messages \X {"queued", "delivered", "broadcast", "error"}
  BY <1>1, <1>2 DEF TypeOK, LiveIsRegistered, netVars
<1>5. CASE to = {}
  <2>1. task' = task /\ Told(s, m, IF Targeted(m) THEN "queued" ELSE "broadcast")
    BY <1>5 DEF Relay
  <2>2. Becomes(s, Idle)
    BY <1>0, <1>1, <2>1 DEF Becomes, TypeOK
  <2>3. OwnSession(s, Idle) /\ NoneLost(Idle) /\ Idle.doing /= "relay"
    BY DEF Idle, OwnSession, NoneLost
  <2>4. \A q \in Task : SessionOf(q)' /\ RelayOf(q)' /\ UploadOf(q)'
    BY <1>0, <1>3, <2>2, <2>3, IdleIsWork, TasksKeep
  <2>5. /\ receipts' \subseteq Messages \X {"queued", "delivered", "broadcast", "error"}
        /\ ReceiptsAreTrue'
    BY <1>0, <1>2, <1>3, <2>1, TrueReceipt
  <2> QED BY <1>0, <1>1, <1>3, <1>4, <2>2, <2>4, <2>5, TruthsKeep DEF Becomes
<1>6. CASE to /= {}
  <2>1. /\ task' = [task EXCEPT ![s].doing = "relay", ![s].cur = m, ![s].to = to]
        /\ UNCHANGED receipts
    BY <1>6 DEF Relay
  <2>2. w \in Works /\ w.doing = "relay" /\ w.cur = m /\ w.new = {} /\ w.marked = {}
    BY IdleIsWork DEF Works, Idle, ConnectionsOf, Registered
  <2>3. Becomes(s, w)
    BY <1>0, <1>1, <2>1, <2>2 DEF Becomes, TypeOK
  <2>4. OwnSession(s, w) /\ NoneLost(w)
    BY <2>2 DEF OwnSession, NoneLost
  <2>5. \A q \in Task : SessionOf(q)' /\ RelayOf(q)' /\ UploadOf(q)'
    BY <1>0, <1>2, <1>3, <2>2, <2>3, <2>4, TasksKeep
  <2>6. receipts' \subseteq Messages \X {"queued", "delivered", "broadcast", "error"}
    BY <2>1 DEF TypeOK
  <2> QED BY <1>0, <1>1, <1>3, <1>4, <2>1, <2>3, <2>5, <2>6, TruthsKeep DEF Becomes
<1> QED BY <1>5, <1>6

\* A step in which no task changes and the table stands still.
LEMMA TasksStand ==
  ASSUME IInv, NEW p \in Task, UNCHANGED <<recipient, table, handed, task>>
  PROVE  Advances(p) /\ \A q \in Task : SessionOf(q)' /\ RelayOf(q)' /\ UploadOf(q)'
  BY StandsStill DEF IInv, SessionOf, RelayOf, UploadOf, Known

LEMMA RelayDuplicateStep ==
  ASSUME IInv, NEW s \in Sockets, NEW m \in Messages, RelayDuplicate(s, m)
  PROVE  IInv' /\ Advances(s)
<1> DEFINE status == IF table[m] = "delivered" THEN "delivered" ELSE "queued"
<1> USE DEF IInv
<1>0. s \in Task
  BY DEF Task
<1>1. /\ tries' = tries + 1 /\ (table[m] /= "none" \/ ~Known(m)) /\ Told(s, m, status)
      /\ UNCHANGED <<recipient, dbVars, netVars, task, handed, answers, frozen, faults>>
  BY DEF RelayDuplicate, Submit
<1>2. Advances(s) /\ \A q \in Task : SessionOf(q)' /\ RelayOf(q)' /\ UploadOf(q)'
  BY <1>0, <1>1, TasksStand DEF dbVars
<1>3. /\ receipts' \subseteq Messages \X {"queued", "delivered", "broadcast", "error"}
      /\ ReceiptsAreTrue'
  BY <1>0, <1>1, <1>2, TrueReceipt DEF dbVars
<1>4. TypeOK' /\ LiveIsRegistered'
  BY <1>1, <1>3 DEF TypeOK, LiveIsRegistered, dbVars, netVars
<1> QED BY <1>0, <1>1, <1>2, <1>3, <1>4, TruthsKeep

LEMMA RelayBlockedStep ==
  ASSUME IInv, NEW s \in Sockets, NEW m \in Messages, RelayBlocked(s, m)
  PROVE  IInv' /\ Advances(s)
<1> USE DEF IInv
<1>0. s \in Task
  BY DEF Task
<1>1. /\ tries' = tries + 1 /\ frozen' = TRUE
      /\ UNCHANGED <<recipient, dbVars, netVars, task, handed, clientVars, faults>>
  BY DEF RelayBlocked, Submit
<1>2. Advances(s) /\ \A q \in Task : SessionOf(q)' /\ RelayOf(q)' /\ UploadOf(q)'
  BY <1>0, <1>1, TasksStand DEF dbVars
<1>3. TypeOK' /\ LiveIsRegistered'
  BY <1>1 DEF TypeOK, LiveIsRegistered, dbVars, netVars, clientVars
<1> QED BY <1>0, <1>1, <1>2, <1>3, TruthsKeep DEF clientVars

LEMMA EndRelayStep ==
  ASSUME IInv, NEW s \in Sockets, EndRelay(s)
  PROVE  IInv' /\ Advances(s)
<1> DEFINE m == task[s].cur
<1> USE DEF IInv
<1>0. s \in Task
  BY DEF Task
<1>1. /\ task[s].doing = "relay" /\ task' = [task EXCEPT ![s] = Idle]
      /\ UNCHANGED <<recipient, born, line, answers, frozen, tries>>
  BY DEF EndRelay
<1>2. m \in Messages /\ table[m] /= "none" /\ task[s].to \in SUBSET Sockets
  BY <1>0, <1>1 DEF RelayOf, TypeOK, Works
<1>3. PICK sent \in Outcomes(task[s].to), committed \in BOOLEAN :
        /\ faults' = IF committed THEN faults ELSE faults + 1
        /\ user' = Unregistered(task[s].to \ sent)
        /\ handed' = IF sent /= {} THEN handed \union {m} ELSE handed
        /\ table' = IF Delivered(m, sent) /\ committed
                      THEN [table EXCEPT ![m] = "delivered"] ELSE table
        /\ Told(s, m, Status(m, sent, committed))
  BY DEF EndRelay
<1>4. Advances(s)
  BY <1>1, <1>2, <1>3 DEF Advances, TypeOK, Statuses, Delivered
<1>5. Becomes(s, Idle)
  BY <1>0, <1>1, IdleIsWork DEF Becomes, TypeOK
<1>6. OwnSession(s, Idle) /\ NoneLost(Idle) /\ Idle.doing /= "relay"
  BY DEF Idle, OwnSession, NoneLost
<1>7. \A q \in Task : SessionOf(q)' /\ RelayOf(q)' /\ UploadOf(q)'
  BY <1>0, <1>4, <1>5, <1>6, IdleIsWork, TasksKeep
<1>8. user' \in [Sockets -> Ids \union {Nobody}] /\ LiveIsRegistered'
  BY <1>1, <1>2, <1>3, DroppedAreDead
<1>9. /\ receipts' \subseteq Messages \X {"queued", "delivered", "broadcast", "error"}
      /\ ReceiptsAreTrue'
  <2> DEFINE status == Status(m, sent, committed)
  <2>1. status \in {"queued", "delivered", "broadcast", "error"}
    BY DEF Status
  <2>2. table'[m] /= "none"
    BY <1>2, <1>4 DEF Advances
  <2>3. status = "delivered" => table'[m] = "delivered"
    BY <1>2, <1>3 DEF Status, Delivered, TypeOK
  <2> QED BY <1>0, <1>2, <1>3, <1>4, <2>1, <2>2, <2>3, TrueReceipt
<1>10. TypeOK'
  <2>1. faults' \in Nat
    BY <1>3 DEF TypeOK
  <2>2. /\ recipient' \in Addressings /\ table' \in [Messages -> Statuses]
        /\ handed' \subseteq Messages /\ task' \in [Task -> Works]
    BY <1>1, <1>4, <1>5 DEF TypeOK, Advances, Becomes
  <2> QED BY <1>1, <1>8, <1>9, <2>1, <2>2 DEF TypeOK
<1> QED BY <1>0, <1>1, <1>4, <1>7, <1>8, <1>9, <1>10, TruthsKeep

LEMMA VanishStep ==
  ASSUME IInv, NEW s \in Sockets, Vanish(s)
  PROVE  IInv' /\ Advances(s)
<1> USE DEF IInv
<1>0. s \in Task
  BY DEF Task
<1>1. /\ line' = [line EXCEPT ![s] = "gone"] /\ faults' = faults + 1
      /\ UNCHANGED <<recipient, dbVars, user, task, handed, clientVars, frozen, tries>>
  BY DEF Vanish
<1>2. Advances(s) /\ \A q \in Task : SessionOf(q)' /\ RelayOf(q)' /\ UploadOf(q)'
  BY <1>0, <1>1, TasksStand DEF dbVars
<1>3. TypeOK' /\ LiveIsRegistered'
  BY <1>1 DEF TypeOK, LiveIsRegistered, dbVars, clientVars
<1> QED BY <1>0, <1>1, <1>2, <1>3, TruthsKeep DEF clientVars

LEMMA NoticeStep ==
  ASSUME IInv, NEW s \in Sockets, Notice(s)
  PROVE  IInv' /\ Advances(s)
<1> USE DEF IInv
<1>0. s \in Task
  BY DEF Task
<1>1. /\ line' = [line EXCEPT ![s] = "down"] /\ user' = Unregistered({s})
      /\ UNCHANGED <<recipient, dbVars, task, handed, clientVars, frozen, tries, faults>>
  BY DEF Notice
<1>2. Advances(s) /\ \A q \in Task : SessionOf(q)' /\ RelayOf(q)' /\ UploadOf(q)'
  BY <1>0, <1>1, TasksStand DEF dbVars
<1>3. TypeOK' /\ LiveIsRegistered'
  BY <1>1 DEF TypeOK, LiveIsRegistered, Unregistered, dbVars, clientVars
<1> QED BY <1>0, <1>1, <1>2, <1>3, TruthsKeep DEF clientVars

LEMMA StartUploadStep ==
  ASSUME IInv, NEW q \in Requests, NEW b \in Batches, StartUpload(q, b)
  PROVE  IInv' /\ Advances(q)
<1> DEFINE w == [Idle EXCEPT !.doing = "upload", !.todo = b, !.batch = b, !.stamp = tries']
<1> USE DEF IInv
<1>0. q \in Task
  BY DEF Task
<1>1. /\ task[q] = Idle /\ tries' = tries + 1
      /\ task' = [task EXCEPT ![q].doing = "upload", ![q].todo = b, ![q].batch = b,
                              ![q].stamp = tries']
      /\ UNCHANGED <<recipient, dbVars, netVars, handed, clientVars, frozen, faults>>
  BY DEF StartUpload
<1>2. /\ w \in Works /\ w.doing = "upload" /\ w.todo = b /\ w.batch = b
      /\ w.new = {} /\ w.marked = {}
  <2>1. b \in Seq(Messages) /\ tries' \in Nat
    BY <1>1, RelayAssumption DEF TypeOK
  <2> QED BY <2>1, IdleIsWork DEF Works, Idle
<1>3. Becomes(q, w)
  BY <1>0, <1>1, <1>2 DEF Becomes, TypeOK
<1>4. Advances(q)
  BY <1>0, <1>1, StandsStill DEF dbVars
<1>5. OwnSession(q, w) /\ NoneLost(w) /\ w.doing /= "relay"
  BY <1>2 DEF OwnSession, NoneLost
<1>6. \A r \in Task : SessionOf(r)' /\ RelayOf(r)' /\ UploadOf(r)'
  BY <1>0, <1>2, <1>3, <1>4, <1>5, TasksKeep
<1>7. TypeOK' /\ LiveIsRegistered'
  BY <1>1, <1>3 DEF TypeOK, LiveIsRegistered, Becomes, dbVars, netVars, clientVars
<1> QED BY <1>0, <1>1, <1>4, <1>6, <1>7, TruthsKeep DEF clientVars

\* The items of an upload are its first and those after it.
LEMMA HeadAndTail ==
  ASSUME NEW todo \in Seq(Messages), todo /= << >>
  PROVE  /\ Head(todo) \in Messages /\ Tail(todo) \in Seq(Messages)
         /\ Range(todo) = {Head(todo)} \union Range(Tail(todo))
<1>1. /\ Head(todo) \in Messages /\ Tail(todo) \in Seq(Messages)
      /\ Len(todo) \in Nat \ {0} /\ Len(Tail(todo)) = Len(todo) - 1
      /\ \A i \in 1 .. Len(Tail(todo)) : Tail(todo)[i] = todo[i + 1]
      /\ Head(todo) = todo[1]
  BY HeadTailProperties, EmptySeq
<1>2. DOMAIN todo = 1 .. Len(todo) /\ DOMAIN Tail(todo) = 1 .. (Len(todo) - 1)
  BY <1>1, LenProperties
<1>3. ASSUME NEW i \in DOMAIN todo PROVE todo[i] \in {Head(todo)} \union Range(Tail(todo))
  <2>1. CASE i = 1
    BY <1>1, <2>1
  <2>2. CASE i /= 1
    <3>1. i - 1 \in DOMAIN Tail(todo) /\ Tail(todo)[i - 1] = todo[i]
      BY <1>1, <1>2, <2>2
    <3> QED BY <3>1 DEF Range
  <2> QED BY <2>1, <2>2
<1>4. ASSUME NEW i \in DOMAIN Tail(todo) PROVE Tail(todo)[i] \in Range(todo)
  <2>1. i + 1 \in DOMAIN todo /\ Tail(todo)[i] = todo[i + 1]
    BY <1>1, <1>2
  <2> QED BY <2>1 DEF Range
<1>5. 1 \in DOMAIN todo
  BY <1>1, <1>2
<1> QED BY <1>1, <1>3, <1>4, <1>5, ZenonT(40) DEF Range

\* An item leaves the list of an upload that becomes w and holds the rows new.
LEMMA ItemStep ==
  ASSUME IInv, NEW q \in Task, Item(q), NEW w \in Works,
         task' = [task EXCEPT ![q] = w], w.doing = "upload",
         w.todo = Tail(task[q].todo), w.batch = task[q].batch, w.marked \subseteq handed,
         \A m \in w.new : table[m] = "none" /\ \A r \in Task \ {q} : m \notin task[r].new,
         Known(Head(task[q].todo)) =>
           /\ task[q].new \subseteq w.new
           /\ table[Head(task[q].todo)] /= "none" \/ Head(task[q].todo) \in w.new,
         UNCHANGED <<recipient, dbVars, netVars, handed, clientVars, frozen, tries, faults>>
  PROVE  IInv' /\ Advances(q)
<1> DEFINE t == task[q]
           m == Head(t.todo)
<1> USE DEF IInv
<1>1. t \in Works /\ t.doing = "upload" /\ t.todo /= << >> /\ t.todo \in Seq(Messages)
  BY DEF Item, TypeOK, Works
<1>2. Range(t.todo) = {m} \union Range(w.todo)
  BY <1>1, HeadAndTail
<1>3. Becomes(q, w)
  BY DEF Becomes, TypeOK
<1>4. Advances(q)
  BY StandsStill DEF dbVars
<1>5. OwnSession(q, w)
  BY DEF OwnSession, dbVars
<1>6. NoneLost(w)
  <2>1. Range(w.todo) \subseteq Range(w.batch)
    BY <1>1, <1>2 DEF UploadOf
  <2>2. ASSUME \A n \in Range(t.batch) : Known(n), NEW n \in Range(t.batch)
        PROVE  n \in Range(w.todo) \/ n \in w.new \/ table'[n] /= "none"
    <3>1. Known(m)
      BY <1>1, <1>2, <2>2 DEF UploadOf
    <3>2. n = m \/ n \in Range(w.todo) \/ n \in t.new \/ table[n] /= "none"
      BY <1>1, <1>2, <2>2 DEF UploadOf
    <3> QED BY <3>1, <3>2 DEF dbVars
  <2> QED BY <2>1, <2>2 DEF NoneLost
<1>7. \A r \in Task : SessionOf(r)' /\ RelayOf(r)' /\ UploadOf(r)'
  BY <1>3, <1>4, <1>5, <1>6, TasksKeep
<1>8. TypeOK' /\ LiveIsRegistered'
  BY <1>3 DEF TypeOK, LiveIsRegistered, Becomes, dbVars, netVars, clientVars
<1> QED BY <1>4, <1>7, <1>8, TruthsKeep DEF clientVars

LEMMA ItemKnownStep ==
  ASSUME IInv, NEW q \in Task, ItemKnown(q)
  PROVE  IInv' /\ Advances(q)
<1> DEFINE t == task[q]
           w == [t EXCEPT !.todo = Tail(t.todo)]
<1> USE DEF IInv
<1>1. /\ Item(q) /\ (table[Head(t.todo)] /= "none" \/ Head(t.todo) \in t.new)
      /\ task' = [task EXCEPT ![q].todo = Tail(@)]
      /\ UNCHANGED <<recipient, dbVars, netVars, handed, clientVars, frozen, tries, faults>>
  BY DEF ItemKnown
<1>2. t \in Works /\ t.doing = "upload" /\ Tail(t.todo) \in Seq(Messages)
  BY <1>1, HeadAndTail DEF Item, TypeOK, Works
<1>3. /\ w \in Works /\ w.doing = "upload" /\ w.todo = Tail(t.todo) /\ w.batch = t.batch
      /\ w.marked = t.marked /\ w.new = t.new
  BY <1>2 DEF Works
<1>4. task' = [task EXCEPT ![q] = w]
  BY <1>1
<1>5. /\ w.marked \subseteq handed
      /\ \A m \in w.new : table[m] = "none" /\ \A r \in Task \ {q} : m \notin task[r].new
  BY <1>3 DEF SessionOf
<1>6. task[q].new \subseteq w.new
      /\ (table[Head(task[q].todo)] /= "none" \/ Head(task[q].todo) \in w.new)
  BY <1>1, <1>3
<1> HIDE DEF w
<1> QED BY <1>1, <1>3, <1>4, <1>5, <1>6, ItemStep

LEMMA ItemCreatedStep ==
  ASSUME IInv, NEW q \in Task, ItemCreated(q)
  PROVE  IInv' /\ Advances(q)
<1> DEFINE t == task[q]
           m == Head(t.todo)
           cur == IF Targeted(m) /\ Connected(m) THEN m ELSE Nobody
           to == IF Targeted(m) THEN ConnectionsOf(recipient[m]) ELSE {}
           w == [t EXCEPT !.todo = Tail(t.todo), !.new = t.new \union {m}, !.cur = cur, !.to = to]
<1> USE DEF IInv
<1>1. /\ Item(q) /\ table[m] = "none" /\ m \notin Locked
      /\ task' = [task EXCEPT ![q].todo = Tail(@), ![q].new = @ \union {m},
                              ![q].cur = cur, ![q].to = to]
      /\ UNCHANGED <<recipient, dbVars, netVars, handed, clientVars, frozen, tries, faults>>
  BY DEF ItemCreated
<1>2. t \in Works /\ t.doing = "upload" /\ m \in Messages /\ Tail(t.todo) \in Seq(Messages)
  BY <1>1, HeadAndTail DEF Item, TypeOK, Works
<1>3. /\ w \in Works /\ w.doing = "upload" /\ w.todo = Tail(t.todo) /\ w.batch = t.batch
      /\ w.marked = t.marked /\ w.new = t.new \union {m}
  <2>1. cur \in Messages \union {Nobody} /\ to \in SUBSET Sockets
    BY <1>2 DEF ConnectionsOf
  <2> HIDE DEF cur, to
  <2> QED BY <1>2, <2>1 DEF Works
<1>4. task' = [task EXCEPT ![q] = w]
  BY <1>1
<1>5. /\ w.marked \subseteq handed
      /\ \A n \in w.new : table[n] = "none" /\ \A r \in Task \ {q} : n \notin task[r].new
  BY <1>1, <1>3 DEF SessionOf, Locked
<1>6. task[q].new \subseteq w.new /\ Head(task[q].todo) \in w.new
  BY <1>3
<1> HIDE DEF w
<1> QED BY <1>1, <1>3, <1>4, <1>5, <1>6, ItemStep

LEMMA ItemRefusedStep ==
  ASSUME IInv, NEW q \in Task, ItemRefused(q)
  PROVE  IInv' /\ Advances(q)
<1> DEFINE t == task[q]
           w == [t EXCEPT !.todo = Tail(t.todo), !.new = {}, !.marked = {}]
<1> USE DEF IInv
<1>1. /\ Item(q) /\ ~Known(Head(t.todo))
      /\ task' = [task EXCEPT ![q].todo = Tail(@), ![q].new = {}, ![q].marked = {}]
      /\ UNCHANGED <<recipient, dbVars, netVars, handed, clientVars, frozen, tries, faults>>
  BY DEF ItemRefused
<1>2. t \in Works /\ t.doing = "upload" /\ Tail(t.todo) \in Seq(Messages)
  BY <1>1, HeadAndTail DEF Item, TypeOK, Works
<1>3. /\ w \in Works /\ w.doing = "upload" /\ w.todo = Tail(t.todo) /\ w.batch = t.batch
      /\ w.marked = {} /\ w.new = {}
  BY <1>2 DEF Works
<1>4. task' = [task EXCEPT ![q] = w]
  BY <1>1
<1> HIDE DEF w
<1> QED BY <1>1, <1>3, <1>4, ItemStep

LEMMA ItemBlockedStep ==
  ASSUME IInv, NEW q \in Task, ItemBlocked(q)
  PROVE  IInv' /\ Advances(q)
<1> USE DEF IInv
<1>1. /\ frozen' = TRUE
      /\ UNCHANGED <<recipient, dbVars, netVars, task, handed, clientVars, tries, faults>>
  BY DEF ItemBlocked
<1>2. Advances(q) /\ \A r \in Task : SessionOf(r)' /\ RelayOf(r)' /\ UploadOf(r)'
  BY <1>1, TasksStand DEF dbVars
<1>3. TypeOK' /\ LiveIsRegistered'
  BY <1>1 DEF TypeOK, LiveIsRegistered, dbVars, netVars, clientVars
<1> QED BY <1>1, <1>2, <1>3, TruthsKeep DEF clientVars

LEMMA EndUploadStep ==
  ASSUME IInv, NEW q \in Task, EndUpload(q)
  PROVE  IInv' /\ Advances(q)
<1> DEFINE t == task[q]
<1> USE DEF IInv
<1>1. /\ t.doing = "upload" /\ t.todo = << >> /\ table' = Committed(t)
      /\ born' = [m \in Messages |-> IF m \in t.new THEN t.stamp ELSE born[m]]
      /\ answers' = answers \union {t.batch} /\ task' = [task EXCEPT ![q] = Idle]
      /\ UNCHANGED <<recipient, netVars, handed, receipts, frozen, tries, faults>>
  BY DEF EndUpload
<1>2. t.batch \in Seq(Messages) /\ t.stamp \in Nat
  BY DEF TypeOK, Works
<1>3. Advances(q)
  BY <1>1, CommitAdvances
<1>4. Becomes(q, Idle)
  BY <1>1, IdleIsWork DEF TypeOK, Becomes
<1>5. OwnSession(q, Idle) /\ NoneLost(Idle) /\ Idle.doing /= "relay"
  BY DEF Idle, OwnSession, NoneLost
<1>6. \A r \in Task : SessionOf(r)' /\ RelayOf(r)' /\ UploadOf(r)'
  BY <1>3, <1>4, <1>5, IdleIsWork, TasksKeep
<1>7. AnsweredIsStored'
  <2>1. \A m : Known(m)' = Known(m)
    BY <1>1 DEF Known
  <2>2. ASSUME NEW b \in answers, \A m \in Range(b) : Known(m), NEW m \in Range(b)
        PROVE  table'[m] /= "none"
    <3>1. m \in Messages
      BY ElementOfSeq, LenProperties DEF TypeOK, Range
    <3> QED BY <1>3, <2>2, <3>1 DEF AnsweredIsStored, Advances
  <2>3. ASSUME \A m \in Range(t.batch) : Known(m), NEW m \in Range(t.batch)
        PROVE  table'[m] /= "none"
    <3>1. m \in Messages
      BY <1>2, ElementOfSeq, LenProperties DEF Range
    <3>2. m \in t.new \/ table[m] /= "none"
      BY <1>1, <2>3, IdleIsWork DEF UploadOf
    <3> QED BY <1>1, <3>1, <3>2, CommittedKeeps
  <2> QED BY <1>1, <2>1, <2>2, <2>3 DEF AnsweredIsStored
<1>8. TypeOK' /\ LiveIsRegistered'
  BY <1>1, <1>2, <1>3, <1>4 DEF TypeOK, LiveIsRegistered, Becomes, Advances, netVars
<1> QED BY <1>1, <1>3, <1>6, <1>7, <1>8, TruthsKeep

LEMMA WakeStep ==
  ASSUME IInv, Wake
  PROVE  IInv' /\ Advances(Worker)
<1> USE DEF IInv
<1>0. Worker \in Task
  BY DEF Task
<1>1. /\ task[Worker] = Idle
      /\ UNCHANGED <<recipient, dbVars, netVars, handed, clientVars, frozen, tries, faults>>
  BY DEF Wake
<1>2. PICK order \in Selections(Undelivered) :
        task' = [task EXCEPT ![Worker].doing = "sweep",
                   ![Worker].todo = SubSeq(order, 1, IF BatchSize < Len(order) THEN BatchSize
                                                     ELSE Len(order))]
  BY DEF Wake
<1> DEFINE n == IF BatchSize < Len(order) THEN BatchSize ELSE Len(order)
           w == [Idle EXCEPT !.doing = "sweep", !.todo = SubSeq(order, 1, n)]
<1>3. w \in Works /\ w.doing = "sweep" /\ w.new = {} /\ w.marked = {}
  <2>1. order \in Seq(Messages)
    BY OrdersAreLists DEF Selections, Undelivered
  <2>2. n \in Nat /\ n <= Len(order)
    BY <2>1, RelayAssumption, LenProperties
  <2>3. \A i \in 1 .. n : order[i] \in Messages
    BY <2>1, <2>2, ElementOfSeq, LenProperties
  <2>4. SubSeq(order, 1, n) \in Seq(Messages)
    BY <2>2, <2>3, SubSeqProperties
  <2> HIDE DEF n
  <2> QED BY <2>4, IdleIsWork DEF Works, Idle
<1>4. Becomes(Worker, w)
  BY <1>0, <1>1, <1>2, <1>3 DEF Becomes, TypeOK
<1>5. Advances(Worker)
  BY <1>0, <1>1, StandsStill DEF dbVars
<1>6. OwnSession(Worker, w) /\ NoneLost(w) /\ w.doing /= "relay"
  BY <1>3 DEF OwnSession, NoneLost
<1>7. \A q \in Task : SessionOf(q)' /\ RelayOf(q)' /\ UploadOf(q)'
  BY <1>0, <1>3, <1>4, <1>5, <1>6, TasksKeep
<1>8. TypeOK' /\ LiveIsRegistered'
  BY <1>1, <1>4 DEF TypeOK, LiveIsRegistered, Becomes, dbVars, netVars, clientVars
<1> QED BY <1>0, <1>1, <1>5, <1>7, <1>8, TruthsKeep DEF clientVars

LEMMA RestartStep ==
  ASSUME IInv, Restart
  PROVE  IInv' /\ Advances(Worker)
<1> USE DEF IInv
<1>0. Worker \in Task
  BY DEF Task
<1>1. /\ faults' = faults + 1 /\ frozen' = FALSE
      /\ line' = [s \in Sockets |-> "down"] /\ user' = [s \in Sockets |-> Nobody]
      /\ task' = [p \in Task |-> Idle]
      /\ UNCHANGED <<recipient, dbVars, handed, clientVars, tries>>
  BY DEF Restart
<1>2. Advances(Worker)
  BY <1>0, <1>1, StandsStill DEF dbVars
<1>3. \A q \in Task : SessionOf(q)' /\ RelayOf(q)' /\ UploadOf(q)'
  BY <1>1 DEF Idle, SessionOf, RelayOf, UploadOf
<1>4. TypeOK' /\ LiveIsRegistered'
  <2>1. task' \in [Task -> Works]
    BY <1>1, IdleIsWork
  <2>2. /\ line' \in [Sockets -> {"up", "gone", "down"}]
        /\ user' \in [Sockets -> Ids \union {Nobody}]
    BY <1>1
  <2>3. faults' \in Nat
    BY <1>1 DEF TypeOK
  <2>4. frozen' \in BOOLEAN
    BY <1>1, Zenon
  <2>5. LiveIsRegistered'
    BY <1>1 DEF LiveIsRegistered
  <2> QED BY <1>1, <2>1, <2>2, <2>3, <2>4, <2>5 DEF TypeOK, dbVars, clientVars
<1> QED BY <1>0, <1>1, <1>2, <1>3, <1>4, TruthsKeep DEF clientVars

LEMMA InitIInv == Init => IInv
<1> SUFFICES ASSUME Init PROVE IInv
  OBVIOUS
<1>1. TypeOK
  BY IdleIsWork DEF Init, TypeOK, Statuses
<1>2. \A p \in Task : SessionOf(p) /\ RelayOf(p) /\ UploadOf(p)
  BY DEF Init, Idle, SessionOf, RelayOf, UploadOf
<1> QED
  BY <1>1, <1>2
  DEF Init, IInv, LiveIsRegistered, ReceiptsAreTrue, AnsweredIsStored, DeliveredWasHanded

\* Every step keeps the invariant, and the table only advances.
LEMMA NextIInv ==
  ASSUME IInv, Next
  PROVE  IInv' /\ \E p \in Task : Advances(p)
<1>1. Sockets \subseteq Task /\ Requests \subseteq Task /\ Worker \in Task
  BY DEF Task
<1>2. CASE \E p \in Task : Continue(p)
  BY <1>2, SendNextStep, EndSendStep, EndListStep, ItemKnownStep, ItemCreatedStep,
     ItemRefusedStep, ItemBlockedStep, EndUploadStep DEF Continue
<1>3. ASSUME NEW s \in Sockets,
             \/ \E u \in Ids : Connect(s, u)
             \/ \E m \in Messages : Relay(s, m) \/ RelayDuplicate(s, m) \/ RelayBlocked(s, m)
             \/ EndRelay(s) \/ Vanish(s) \/ Notice(s)
      PROVE  IInv' /\ Advances(s)
  BY <1>3, ConnectStep, RelayStep, RelayDuplicateStep, RelayBlockedStep, EndRelayStep,
     VanishStep, NoticeStep
<1>4. CASE \E q \in Requests, b \in Batches : StartUpload(q, b)
  BY <1>1, <1>4, StartUploadStep
<1>5. CASE Wake \/ Restart
  BY <1>1, <1>5, WakeStep, RestartStep
<1> QED BY <1>1, <1>2, <1>3, <1>4, <1>5 DEF Next

LEMMA StutterIInv ==
  ASSUME IInv, UNCHANGED vars
  PROVE  IInv'
<1> USE DEF IInv
<1>1. UNCHANGED <<recipient, table, born, line, user, task, handed, receipts, answers,
                  frozen, tries, faults>>
  BY DEF vars, dbVars, netVars, clientVars
<1>2. Worker \in Task
  BY DEF Task
<1>3. Advances(Worker) /\ \A q \in Task : SessionOf(q)' /\ RelayOf(q)' /\ UploadOf(q)'
  BY <1>1, <1>2, TasksStand
<1>4. TypeOK' /\ LiveIsRegistered'
  BY <1>1 DEF TypeOK, LiveIsRegistered
<1> QED BY <1>1, <1>2, <1>3, <1>4, TruthsKeep

----------------------------------------------------------------------------
(* The theorems. *)

\* The inductive invariant holds in every reachable state.
THEOREM Invariance == Spec => []IInv
<1>1. IInv /\ [Next]_vars => IInv'
  BY NextIInv, StutterIInv
<1> QED BY <1>1, InitIInv, PTL DEF Spec

\* The variables of the relay keep their types.
THEOREM TypeCorrect == Spec => []TypeOK
<1>1. IInv => TypeOK
  BY DEF IInv
<1> QED BY <1>1, Invariance, PTL

\* No client that is being served is ever missing from the registry, whichever
\* sockets of its user are dropped (peer_manager.py, disconnect).
THEOREM ServedClientsAreRegistered == Spec => []LiveIsRegistered
<1>1. IInv => LiveIsRegistered
  BY DEF IInv
<1> QED BY <1>1, Invariance, PTL

\* Every receipt a client got is true and stays true (peer_ws.py, the
\* message_status replies).
THEOREM ReceiptsStayTrue == Spec => []ReceiptsAreTrue
<1>1. IInv => ReceiptsAreTrue
  BY DEF IInv
<1> QED BY <1>1, Invariance, PTL

\* An answered upload is stored, however it raced with other uploads, live
\* submissions and rollbacks of single items (sync_messages.py).
THEOREM AnsweredUploadsAreStored == Spec => []AnsweredIsStored
<1>1. IInv => AnsweredIsStored
  BY DEF IInv
<1> QED BY <1>1, Invariance, PTL

\* A row marked as delivered was written to a connection of its recipient.
THEOREM DeliveredMeansHanded == Spec => []DeliveredWasHanded
<1>1. IInv => DeliveredWasHanded
  BY DEF IInv
<1> QED BY <1>1, Invariance, PTL

\* The relay implements StoreForward: a step maps to an advance of some rows or
\* to a stutter.
THEOREM RelayStoresAndForwards == Spec => ImplementsStoreForward
<1>1. Init => Abstract!SInit
  BY DEF Init, Abstract!SInit
<1>2. IInv /\ [Next]_vars => [Abstract!SNext]_(Abstract!svars)
  <2>1. ASSUME IInv, Next PROVE Abstract!SNext
    <3>1. PICK p \in Task : Advances(p)
      BY <2>1, NextIInv
    <3>2. \A m \in Messages : Abstract!Advance(m)
      BY <2>1, <3>1 DEF Advances, Abstract!Advance
    <3> QED BY <3>1, <3>2 DEF Advances, Statuses, Abstract!SNext
  <2>2. ASSUME UNCHANGED vars PROVE UNCHANGED Abstract!svars
    BY <2>2 DEF vars, dbVars, Abstract!svars
  <2> QED BY <2>1, <2>2
<1> QED
  BY <1>1, <1>2, Invariance, PTL DEF Spec, ImplementsStoreForward, Abstract!SSpec
=============================================================================
