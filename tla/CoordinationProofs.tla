------------------------- MODULE CoordinationProofs -------------------------
(***************************************************************************)
(* Proofs about Coordination for any number of server processes, incidents *)
(* and responders, any distances, uploads and bounds.                      *)
(*                                                                         *)
(* The inductive invariant says what each handler may rely on between two  *)
(* of its statements, whatever the other processes do: an incident being   *)
(* assigned is its own, the responder it chose is locked, the rows it      *)
(* flushed are in no table and in no other session, and each item of an    *)
(* upload is still to do or settled.                                       *)
(*                                                                         *)
(* The events these handlers enqueue go the way of EventFanout; the        *)
(* theorems about it, for any clients and bounds, are at the end.          *)
(***************************************************************************)
EXTENDS Coordination, EventFanout, SequenceTheorems, FiniteSetTheorems, TLAPS

Rows == [status : Status \union {"Absent"}, responder : Responder \union {None},
         client : Client \union {NoClient}, content : Nat, updated : Nat]

Items == [key : Key, client : Client \union {NoClient}, remote : RemoteId, ts : Nat]

Patches == [status : Status \union {None}, responder : Responder \union {None}]

Steps == {"idle", "assign", "unplaced", "assigned", "patch", "sync", "flush"}

Turns == [do : Steps, key : Key \union {None}, best : Responder \union {None}, load : Nat,
          left : Seq(Items), batch : Seq(Items), again : BOOLEAN, new : SUBSET Key,
          changed : SUBSET Key, pend : [Key -> Rows], now : Nat, patch : Patches]

\* Types of the variables.
TypeOK ==
  /\ row \in [Key -> Rows]
  /\ workload \in [Responder -> Nat]
  /\ lock \in [Responder -> Server \union {None}]
  /\ turn \in [Server -> Turns]
  /\ announced \subseteq Key
  /\ clock \in Nat \ {0}
  /\ auto \in [Key -> Responder \union {None}]
  /\ answered \subseteq Seq(Items)
  /\ overlapped \in BOOLEAN
  /\ requests \in Nat /\ faults \in Nat

\* A row is absent or has a status of an incident, and says nothing of the
\* future.
RowOK(r) ==
  /\ r = Absent \/ r.status /= "Absent"
  /\ r.content <= r.updated

Assigning(p) == turn[p].do \in {"assign", "unplaced", "assigned"}

\* An incident being assigned was created in this turn and is nobody else's; a
\* chosen responder is locked and its workload the one that was read.
AssignOK(p) ==
  /\ Assigning(p) =>
       /\ turn[p].key \in Key /\ Stored(turn[p].key) /\ auto[turn[p].key] = None
       /\ \A q \in Server \ {p} : Assigning(q) => turn[q].key /= turn[p].key
  /\ turn[p].do = "assigned" =>
       /\ turn[p].best \in Responder /\ lock[turn[p].best] = p
       /\ turn[p].load = workload[turn[p].best]
  /\ turn[p].do = "patch" => turn[p].key \in Key /\ Stored(turn[p].key)

\* Rows a session has flushed are announced and nowhere else; rows it has merged
\* are in the table.
PendingOK(p) ==
  /\ \A k \in turn[p].new :
       /\ row[k] = Absent /\ k \in announced
       /\ \A q \in Server \ {p} : k \notin turn[q].new
  /\ \A k \in turn[p].changed : Stored(k) /\ turn[p].pend[k].client = row[k].client
  /\ \A k \in turn[p].new \union turn[p].changed :
       /\ turn[p].pend[k].status /= "Absent"
       /\ turn[p].pend[k].content <= turn[p].pend[k].updated
       /\ turn[p].pend[k].updated <= turn[p].now

\* An item has found or made its record.
Found(i, r) ==
  /\ r /= Absent
  /\ i.remote /= "stored" /\ i.client /= NoClient => r.client = i.client

\* The items of an upload are still to do or settled.  A repeated upload is only
\* stopped by an item that cannot be recognised.
UploadOK(p) ==
  /\ Range(turn[p].left) \subseteq Range(turn[p].batch)
  /\ \A i \in Range(turn[p].batch) : i \in Range(turn[p].left) \/ Found(i, Sees(p, i.key))
  /\ \A i \in Range(turn[p].batch) : i.ts <= turn[p].now
  /\ turn[p].again => turn[p].batch \in answered
  /\ turn[p].do = "flush" => turn[p].left /= << >>
  /\ turn[p].do = "flush" /\ turn[p].again =>
       Head(turn[p].left).client = NoClient /\ Head(turn[p].left).remote /= "stored"

\* As long as no two handlers have overlapped, the one that runs knows the newest
\* edits.
AloneOK(p) ==
  ~overlapped =>
    /\ \A q \in Server \ {p} : turn[p] = NoTurn \/ turn[q] = NoTurn
    /\ turn[p].do = "patch" => \A k \in Key : row[k].content <= turn[p].now
    /\ \A k \in turn[p].new \union turn[p].changed : row[k].content <= turn[p].pend[k].content

\* What an answered upload has settled stays so.
AnsweredOK == \A b \in answered : \A i \in Range(b) : Found(i, row[i.key])

\* An incident is announced by the handler that creates it.
AnnouncedOK ==
  faults = 0 => \A k \in Key :
    Stored(k) => k \in announced \/ \E p \in Server : Assigning(p) /\ turn[p].key = k

AssignedTo(r) == {k \in Key : auto[k] = r}

IInv ==
  /\ TypeOK
  /\ \A k \in Key : RowOK(row[k]) /\ row[k].updated <= clock /\ (~Stored(k) => auto[k] = None)
  /\ \A p \in Server : /\ AssignOK(p) /\ PendingOK(p) /\ UploadOK(p) /\ AloneOK(p)
                       /\ turn[p].now <= clock
  /\ AnsweredOK /\ AnnouncedOK
  /\ \A r \in Responder : IsFiniteSet(AssignedTo(r)) /\ workload[r] = Cardinality(AssignedTo(r))

----------------------------------------------------------------------------
(* What a step of one process leaves to the others. *)

\* No step takes a row away or changes whose it is.
RowsKept ==
  \A k \in Key : Stored(k) => row'[k] /= Absent /\ row'[k].client = row[k].client

\* The step of p touches nothing that another handler relies on.
Discreet(p) ==
  /\ \A q \in Server \ {p} : turn'[q] = turn[q]
  /\ RowsKept
  /\ \A k \in Key : row[k] = Absent /\ row'[k] /= Absent =>
                      \A q \in Server \ {p} : k \notin turn[q].new
  /\ \A k \in turn'[p].new \ turn[p].new : \A q \in Server \ {p} : k \notin turn[q].new
  /\ announced \subseteq announced' /\ answered \subseteq answered' /\ clock <= clock'
  /\ \A k \in Key : auto'[k] /= auto[k] => Assigning(p) /\ turn[p].key = k
  /\ Assigning(p)' => \A q \in Server \ {p} : Assigning(q) => turn[q].key /= turn'[p].key
  /\ \A r \in Responder : workload'[r] /= workload[r] => lock[r] = p
  /\ \A r \in Responder, q \in Server \ {p} : lock[r] = q => lock'[r] = q
  /\ ~overlapped' => ~overlapped /\ \A q \in Server \ {p} : turn[q] = NoTurn

\* The invariant of one handler.
HandlerOK(p) ==
  AssignOK(p) /\ PendingOK(p) /\ UploadOK(p) /\ AloneOK(p) /\ turn[p].now <= clock

\* The constant turns and rows.
LEMMA NoTurnType ==
  /\ NoTurn \in Turns /\ Absent \in Rows
  /\ NoTurn.do = "idle" /\ NoTurn.new = {} /\ NoTurn.changed = {} /\ NoTurn.left = << >>
  /\ NoTurn.batch = << >> /\ NoTurn.again = FALSE /\ NoTurn.now = 0 /\ Range(<< >>) = {}
  /\ Absent.status = "Absent" /\ Absent.content = 0 /\ Absent.updated = 0
  BY DEF NoTurn, Turns, Rows, Absent, Steps, Patches, Range

\* A process without a handler has nothing to keep.
LEMMA IdleOK ==
  ASSUME NEW p \in Server, turn'[p] = NoTurn, clock' \in Nat
  PROVE  HandlerOK(p)'
<1> USE NoTurnType
<1>1. AssignOK(p)' /\ PendingOK(p)'
  BY DEF AssignOK, PendingOK, Assigning
<1>2. UploadOK(p)'
  BY DEF UploadOK
<1>3. AloneOK(p)' /\ turn'[p].now <= clock'
  BY DEF AloneOK
<1> QED BY <1>1, <1>2, <1>3 DEF HandlerOK

\* The items of an upload.
LEMMA ItemType ==
  ASSUME NEW s \in Seq(Items), NEW i \in Range(s)
  PROVE  i \in Items /\ i.key \in Key /\ i.ts \in Nat
<1>1. i \in Items
  BY ElementOfSeq, LenProperties DEF Range
<1> QED BY <1>1 DEF Items

\* What an item has found stays found.
LEMMA FoundStays ==
  ASSUME RowsKept, NEW k \in Key, NEW i, Found(i, row[k])
  PROVE  Found(i, row'[k])
  BY DEF RowsKept, Found, Stored

\* A discreet step of p keeps the invariant of every other handler.
LEMMA OthersKeep ==
  ASSUME IInv, TypeOK', NEW p \in Server, Discreet(p), NEW q \in Server \ {p}
  PROVE  HandlerOK(q)'
<1> USE DEF IInv
<1>1. turn'[q] = turn[q] /\ turn[q] \in Turns
  BY DEF Discreet, TypeOK
<1>2. AssignOK(q)'
  <2>1. ASSUME Assigning(q)
        PROVE  /\ turn[q].key \in Key /\ row'[turn[q].key] /= Absent
               /\ auto'[turn[q].key] = None
               /\ \A r \in Server \ {q} : Assigning(r)' => turn'[r].key /= turn[q].key
    <3>1. turn[q].key \in Key /\ row'[turn[q].key] /= Absent
      BY <2>1 DEF AssignOK, Discreet, RowsKept
    <3>2. auto'[turn[q].key] = None
      BY <2>1, <3>1 DEF AssignOK, Discreet
    <3>3. ASSUME NEW r \in Server \ {q}, Assigning(r)' PROVE turn'[r].key /= turn[q].key
      <4>1. CASE r = p
        BY <2>1, <3>3, <4>1 DEF Discreet
      <4>2. CASE r /= p
        BY <2>1, <3>3, <4>2 DEF AssignOK, Discreet, Assigning
      <4> QED BY <4>1, <4>2
    <3> QED BY <3>1, <3>2, <3>3
  <2>2. ASSUME turn[q].do = "assigned"
        PROVE  /\ turn[q].best \in Responder /\ lock'[turn[q].best] = q
               /\ turn[q].load = workload'[turn[q].best]
    BY <2>2 DEF AssignOK, Discreet
  <2>3. ASSUME turn[q].do = "patch" PROVE turn[q].key \in Key /\ row'[turn[q].key] /= Absent
    BY <2>3 DEF AssignOK, Discreet, RowsKept
  <2> QED BY <1>1, <2>1, <2>2, <2>3 DEF AssignOK, Assigning, Stored
<1>3. PendingOK(q)'
  <2>1. ASSUME NEW k \in turn[q].new
        PROVE  /\ row'[k] = Absent /\ k \in announced'
               /\ \A r \in Server \ {q} : k \notin turn'[r].new
    <3>1. k \in Key /\ row[k] = Absent /\ k \in announced
      BY <1>1 DEF PendingOK, Turns
    <3>2. row'[k] = Absent /\ k \in announced'
      BY <3>1 DEF Discreet
    <3>3. ASSUME NEW r \in Server \ {q} PROVE k \notin turn'[r].new
      <4>1. CASE r = p
        BY <4>1 DEF Discreet, PendingOK
      <4>2. CASE r /= p
        BY <4>2 DEF Discreet, PendingOK
      <4> QED BY <4>1, <4>2
    <3> QED BY <3>2, <3>3
  <2>2. ASSUME NEW k \in turn[q].changed
        PROVE  row'[k] /= Absent /\ turn[q].pend[k].client = row'[k].client
    BY <1>1 DEF PendingOK, Discreet, RowsKept, Turns
  <2> QED BY <1>1, <2>1, <2>2 DEF PendingOK, Stored
<1>4. UploadOK(q)'
  <2>1. ASSUME NEW i \in Range(turn[q].batch), Found(i, Sees(q, i.key))
        PROVE  Found(i, Sees(q, i.key)')
    <3>1. i.key \in Key
      <4>1. turn[q].batch \in Seq(Items)
        BY <1>1 DEF Turns
      <4> QED BY <4>1, <2>1, ItemType
    <3>2. CASE i.key \in turn[q].new \union turn[q].changed
      BY <1>1, <2>1, <3>2 DEF Sees
    <3>3. CASE i.key \notin turn[q].new \union turn[q].changed
      BY <1>1, <2>1, <3>1, <3>3, FoundStays DEF Sees, Discreet
    <3> QED BY <3>2, <3>3
  <2> QED BY <1>1, <2>1 DEF UploadOK, Discreet
<1>5. AloneOK(q)'
  BY <1>1, NoTurnType DEF AloneOK, Discreet
<1>6. turn'[q].now <= clock'
  <2>1. turn[q].now \in Nat
    BY <1>1 DEF Turns
  <2>2. turn[q].now <= clock
    OBVIOUS
  <2>3. clock \in Nat /\ clock' \in Nat /\ clock <= clock'
    BY DEF Discreet, TypeOK
  <2> QED BY <1>1, <2>1, <2>2, <2>3, SMTT(30)
<1> QED BY <1>2, <1>3, <1>4, <1>5, <1>6 DEF HandlerOK

----------------------------------------------------------------------------
(* The parts of the invariant that are not of one handler. *)

RowsOK ==
  \A k \in Key : RowOK(row[k]) /\ row[k].updated <= clock /\ (~Stored(k) => auto[k] = None)

WorkloadOK ==
  \A r \in Responder : IsFiniteSet(AssignedTo(r)) /\ workload[r] = Cardinality(AssignedTo(r))

\* A row no step may replace by an older edit.
NoneOlder == \A k \in Key : row'[k].content >= row[k].content

\* Answered uploads stay settled.
LEMMA AnsweredKeep ==
  ASSUME TypeOK, AnsweredOK, RowsKept, answered' = answered
  PROVE  AnsweredOK'
<1> SUFFICES ASSUME NEW b \in answered, NEW i \in Range(b) PROVE Found(i, row'[i.key])
  BY DEF AnsweredOK
<1>1. b \in Seq(Items)
  BY DEF TypeOK
<1>2. i.key \in Key
  BY <1>1, ItemType
<1> QED BY <1>2, FoundStays DEF AnsweredOK

\* Steps that leave the table and the workloads alone.
LEMMA TableStands ==
  ASSUME TypeOK, RowsOK, AnsweredOK, WorkloadOK, UNCHANGED <<row, workload, auto, answered>>,
         clock' \in Nat, clock <= clock'
  PROVE  RowsKept /\ RowsOK' /\ AnsweredOK' /\ WorkloadOK' /\ NoneOlder
<1>1. UNCHANGED <<row, workload>>
  OBVIOUS
<1>2. RowsKept /\ NoneOlder
  BY <1>1 DEF RowsKept, Stored, NoneOlder, TypeOK, Rows
<1>3. RowsOK'
  BY <1>1 DEF RowsOK, RowOK, Stored, TypeOK, Rows
<1>4. WorkloadOK'
  BY <1>1 DEF WorkloadOK, AssignedTo
<1> QED BY <1>2, <1>3, <1>4, AnsweredKeep

\* Announcements stay made; a handler that stops assigning has announced.
LEMMA AnnouncedKeep ==
  ASSUME IInv, NEW p \in Server, \A q \in Server \ {p} : turn'[q] = turn[q],
         announced \subseteq announced', faults' = faults,
         \A k \in Key : row[k] = Absent /\ row'[k] /= Absent =>
                          k \in announced' \/ (Assigning(p)' /\ turn'[p].key = k),
         Assigning(p) => turn[p].key \in announced' \/ (Assigning(p)' /\ turn'[p].key = turn[p].key)
  PROVE  AnnouncedOK'
<1> SUFFICES ASSUME faults = 0, NEW k \in Key, row'[k] /= Absent, k \notin announced'
             PROVE  \E q \in Server : Assigning(q)' /\ turn'[q].key = k
  BY DEF AnnouncedOK, Stored
<1>1. CASE row[k] = Absent
  BY <1>1
<1>2. CASE row[k] /= Absent
  <2>1. PICK q \in Server : Assigning(q) /\ turn[q].key = k
    BY <1>2 DEF IInv, AnnouncedOK, Stored
  <2>2. CASE q = p
    BY <2>1, <2>2
  <2>3. CASE q /= p
    BY <2>1, <2>3 DEF Assigning
  <2> QED BY <2>2, <2>3
<1> QED BY <1>1, <1>2

\* The invariant is the discretion of a step and what it leaves true.
LEMMA Assemble ==
  ASSUME IInv, TypeOK', NEW p \in Server, Discreet(p), HandlerOK(p)',
         RowsOK', AnsweredOK', AnnouncedOK', WorkloadOK'
  PROVE  IInv'
<1>1. \A q \in Server : HandlerOK(q)'
  BY OthersKeep
<1> QED BY <1>1 DEF IInv, HandlerOK, RowsOK, WorkloadOK

\* The turn of p becomes w.
Becomes(p, w) == turn' = [turn EXCEPT ![p] = w]

LEMMA TurnSet ==
  ASSUME TypeOK, NEW p \in Server, NEW w \in Turns, Becomes(p, w)
  PROVE  /\ turn' \in [Server -> Turns] /\ turn'[p] = w
         /\ \A q \in Server \ {p} : turn'[q] = turn[q]
  BY DEF TypeOK, Becomes

\* A handler that holds nothing yet has nothing to keep of a session.
LEMMA NoSession ==
  ASSUME NEW p \in Server, turn'[p].new = {}, turn'[p].changed = {}, turn'[p].left = << >>,
         turn'[p].batch = << >>, turn'[p].again = FALSE, turn'[p].do /= "flush"
  PROVE  PendingOK(p)' /\ UploadOK(p)'
  BY NoTurnType DEF PendingOK, UploadOK

----------------------------------------------------------------------------
(* Each action. *)

\* A handler ends without writing anything.
LEMMA Finishes ==
  ASSUME IInv, NEW p \in Server, turn[p] /= NoTurn, Becomes(p, NoTurn),
         announced' \in SUBSET Key, announced \subseteq announced',
         Assigning(p) => turn[p].key \in announced',
         UNCHANGED <<row, workload, lock, clock, auto, answered, overlapped, requests, faults>>
  PROVE  IInv' /\ NoneOlder
<1> USE DEF IInv
<1>1. turn' \in [Server -> Turns] /\ turn'[p] = NoTurn /\ \A q \in Server \ {p} : turn'[q] = turn[q]
  BY TurnSet, NoTurnType
<1>2. TypeOK'
  BY <1>1 DEF TypeOK
<1>3. HandlerOK(p)'
  BY <1>1, <1>2, IdleOK DEF TypeOK
<1>4. RowsKept /\ RowsOK' /\ AnsweredOK' /\ WorkloadOK' /\ NoneOlder
  BY TableStands DEF TypeOK, RowsOK, WorkloadOK
<1>5. AnnouncedOK'
  BY <1>1, AnnouncedKeep
<1>6. Discreet(p)
  BY <1>1, <1>4, NoTurnType DEF Discreet, Assigning, AloneOK, TypeOK
<1> QED BY <1>2, <1>3, <1>4, <1>5, <1>6, Assemble

\* The start of a handler.
LEMMA Begins ==
  ASSUME TypeOK, NEW p \in Server, Begin(p)
  PROVE  /\ requests' \in Nat /\ overlapped' \in BOOLEAN
         /\ ~overlapped' => ~overlapped /\ \A q \in Server \ {p} : turn[q] = NoTurn
<1>1. requests' \in Nat
  BY DEF Begin, TypeOK
<1>2. overlapped' \in BOOLEAN
  BY DEF Begin, TypeOK
<1>3. ~overlapped' => ~overlapped /\ \A q \in Server \ {p} : turn[q] = NoTurn
  BY DEF Begin
<1> QED BY <1>1, <1>2, <1>3

LEMMA CreateKeeps ==
  ASSUME IInv, NEW p \in Server, NEW k \in Key, Create(p, k)
  PROVE  IInv' /\ NoneOlder
<1> USE DEF IInv
<1>1. PICK do \in {"assign", "unplaced"} : turn' = [turn EXCEPT ![p].do = do, ![p].key = k]
  BY DEF Create
<1> DEFINE w == [NoTurn EXCEPT !.do = do, !.key = k]
           r == [Absent EXCEPT !.status = "Pending", !.content = clock, !.updated = clock]
<1>2. turn[p] = NoTurn /\ Becomes(p, w)
  BY <1>1 DEF Create, Begin, Becomes, TypeOK
<1>3. w \in Turns /\ w.do = do /\ w.key = k /\ w.new = {} /\ w.changed = {} /\ w.left = << >>
      /\ w.batch = << >> /\ w.again = FALSE /\ w.now = 0
  BY NoTurnType DEF Turns, Steps
<1>4. turn' \in [Server -> Turns] /\ turn'[p] = w /\ \A q \in Server \ {p} : turn'[q] = turn[q]
  <2> HIDE DEF w
  <2> QED BY <1>2, <1>3, TurnSet
<1>5. r \in Rows /\ r.status = "Pending" /\ r.content = clock /\ r.updated = clock /\ r /= Absent
  BY DEF Rows, Absent, Status, TypeOK
<1>6. row' = [row EXCEPT ![k] = r] /\ row[k] = Absent
  BY DEF Create, Stored
<1> HIDE DEF w, r
<1>7. TypeOK'
  <2>1. overlapped' \in BOOLEAN /\ requests' \in Nat
    BY Begins DEF Create
  <2>2. row' \in [Key -> Rows]
    BY <1>5, <1>6 DEF TypeOK
  <2> QED BY <1>4, <2>1, <2>2 DEF Create, TypeOK
<1>8. RowsKept
  BY <1>6 DEF RowsKept, Stored, TypeOK
<1>9. auto[k] = None
  BY <1>6 DEF Stored
<1>10. Discreet(p)
  <2>1. ASSUME NEW q \in Server \ {p}, Assigning(q) PROVE turn[q].key /= k
    BY <2>1, <1>6 DEF AssignOK, Stored
  <2>2. ~overlapped' => ~overlapped /\ \A q \in Server \ {p} : turn[q] = NoTurn
    BY Begins DEF Create
  <2>3. \A j \in Key : row[j] = Absent /\ row'[j] /= Absent =>
                         \A q \in Server \ {p} : j \notin turn[q].new
    BY <1>6 DEF Create, HeldByOther, TypeOK
  <2> QED BY <1>3, <1>4, <1>8, <2>1, <2>2, <2>3 DEF Discreet, Create, TypeOK
<1>11. AssignOK(p)'
  BY <1>3, <1>4, <1>5, <1>6, <1>9, <1>10 DEF AssignOK, Assigning, Discreet, Stored, TypeOK, Create
<1>12. AloneOK(p)'
  BY <1>3, <1>4, <1>10 DEF AloneOK, Discreet, NoTurn
<1>13. HandlerOK(p)'
  <2>1. PendingOK(p)' /\ UploadOK(p)'
    BY <1>3, <1>4, NoSession
  <2>2. turn'[p].now <= clock'
    BY <1>3, <1>4, <1>7 DEF TypeOK
  <2> QED BY <1>11, <1>12, <2>1, <2>2 DEF HandlerOK
<1>14. RowsOK'
  BY <1>5, <1>6 DEF RowsOK, RowOK, Stored, TypeOK, Create
<1>15. AnsweredOK' /\ WorkloadOK'
  <2>1. WorkloadOK'
    BY DEF WorkloadOK, AssignedTo, Create
  <2> QED BY <1>8, <2>1, AnsweredKeep DEF Create
<1>16. AnnouncedOK'
  <2>1. ~Assigning(p)
    BY <1>2, NoTurnType DEF Assigning
  <2>2. \A j \in Key : row[j] = Absent /\ row'[j] /= Absent => Assigning(p)' /\ turn'[p].key = j
    BY <1>3, <1>4, <1>6 DEF Assigning, TypeOK
  <2> QED BY <1>4, <2>1, <2>2, AnnouncedKeep DEF Create
<1>17. NoneOlder
  BY <1>5, <1>6 DEF NoneOlder, TypeOK, Rows, Absent
<1> QED BY <1>7, <1>10, <1>13, <1>14, <1>15, <1>16, <1>17, Assemble

LEMMA AssignNoneKeeps ==
  ASSUME IInv, NEW p \in Server, AssignNone(p)
  PROVE  IInv' /\ NoneOlder
<1>1. turn[p] /= NoTurn /\ Assigning(p)
  BY NoTurnType DEF AssignNone, Unassignable, Assigning
<1>2. turn[p].key \in Key
  BY <1>1 DEF IInv, AssignOK
<1>3. /\ announced' \in SUBSET Key /\ announced \subseteq announced'
      /\ turn[p].key \in announced'
  BY <1>2 DEF AssignNone, Announce, IInv, TypeOK
<1> QED BY <1>1, <1>3, Finishes DEF AssignNone, Becomes, dbVars

LEMMA ClashKeeps ==
  ASSUME IInv, NEW p \in Server, Clash(p)
  PROVE  IInv' /\ NoneOlder
<1>1. turn[p] /= NoTurn /\ ~Assigning(p)
  BY NoTurnType DEF Clash, Assigning
<1> QED BY <1>1, Finishes DEF Clash, Becomes, dbVars, IInv, TypeOK

\* The responder chosen is locked by this process and its workload the one read.
LEMMA LockKeeps ==
  ASSUME IInv, NEW p \in Server, Lock(p)
  PROVE  IInv' /\ NoneOlder
<1> USE DEF IInv
<1>1. PICK best \in Candidates(p) :
        turn' = [turn EXCEPT ![p].do = "assigned", ![p].best = best, ![p].load = workload[best]]
  BY DEF Lock
<1> DEFINE w == [turn[p] EXCEPT !.do = "assigned", !.best = best, !.load = workload[best]]
<1>2. best \in Responder /\ lock[best] = None /\ workload[best] \in Nat
  BY DEF Candidates, TypeOK
<1>3. Becomes(p, w)
  BY <1>1 DEF Becomes, TypeOK
<1>4. /\ w \in Turns /\ w.do = "assigned" /\ w.best = best /\ w.load = workload[best]
      /\ w.key = turn[p].key /\ w.left = turn[p].left /\ w.batch = turn[p].batch
      /\ w.again = turn[p].again /\ w.new = turn[p].new /\ w.changed = turn[p].changed
      /\ w.pend = turn[p].pend /\ w.now = turn[p].now
  <2>1. turn[p] \in Turns
    BY DEF TypeOK
  <2> QED BY <1>2, <2>1 DEF Turns, Steps
<1> HIDE DEF w
<1>5. turn' \in [Server -> Turns] /\ turn'[p] = w /\ \A q \in Server \ {p} : turn'[q] = turn[q]
  BY <1>3, <1>4, TurnSet
<1>6. /\ turn[p].do = "assign" /\ Assigning(p)
      /\ lock' = [r \in Responder |-> IF r \in Candidates(p) THEN p ELSE lock[r]]
      /\ UNCHANGED <<row, workload, announced, clock, auto, answered, overlapped, requests, faults>>
  BY DEF Lock, Assigning
<1>7. TypeOK'
  BY <1>5, <1>6 DEF TypeOK
<1>8. RowsKept /\ RowsOK' /\ AnsweredOK' /\ WorkloadOK' /\ NoneOlder
  BY <1>6, TableStands DEF TypeOK, RowsOK, WorkloadOK
<1>9. Discreet(p)
  <2>1. turn[p] /= NoTurn
    BY <1>6, NoTurnType
  <2>2. \A r \in Responder, q \in Server \ {p} : lock[r] = q => lock'[r] = q
    BY <1>6, CoordinationAssumption DEF Candidates
  <2>3. Assigning(p)' => \A q \in Server \ {p} : Assigning(q) => turn[q].key /= turn'[p].key
    BY <1>4, <1>5, <1>6 DEF AssignOK
  <2>4. ~overlapped' => ~overlapped /\ \A q \in Server \ {p} : turn[q] = NoTurn
    BY <1>6, <2>1 DEF AloneOK
  <2> QED BY <1>4, <1>5, <1>6, <1>8, <2>2, <2>3, <2>4 DEF Discreet, TypeOK
<1>10. HandlerOK(p)'
  <2>1. AssignOK(p)'
    <3>1. turn[p].key \in Key /\ Stored(turn[p].key) /\ auto[turn[p].key] = None
      BY <1>6 DEF AssignOK
    <3>2. lock'[best] = p
      BY <1>2, <1>6
    <3>3. \A q \in Server \ {p} : Assigning(q)' => turn'[q].key /= turn'[p].key
      BY <1>4, <1>5, <1>6 DEF AssignOK, Assigning
    <3> QED BY <1>2, <1>4, <1>5, <1>6, <3>1, <3>2, <3>3 DEF AssignOK, Stored
  <2>2. PendingOK(p)'
    BY <1>4, <1>5, <1>6 DEF PendingOK, Stored
  <2>3. UploadOK(p)'
    BY <1>4, <1>5, <1>6 DEF UploadOK, Sees
  <2>4. AloneOK(p)'
    <3>1. ~overlapped' => \A q \in Server \ {p} : turn'[q] = NoTurn
      BY <1>5, <1>9 DEF Discreet
    <3> QED BY <1>4, <1>5, <1>6, <3>1 DEF AloneOK
  <2>5. turn'[p].now <= clock'
    BY <1>4, <1>5, <1>6
  <2> QED BY <2>1, <2>2, <2>3, <2>4, <2>5 DEF HandlerOK
<1>11. AnnouncedOK'
  <2>1. Assigning(p)' /\ turn'[p].key = turn[p].key
    BY <1>4, <1>5 DEF Assigning
  <2> QED BY <1>5, <1>6, <2>1, AnnouncedKeep
<1> QED BY <1>7, <1>8, <1>9, <1>10, <1>11, Assemble

\* A responder's incidents are one more, and its workload is the one read plus one.
LEMMA AssignKeeps ==
  ASSUME IInv, NEW p \in Server, Assign(p)
  PROVE  IInv' /\ NoneOlder
<1> USE DEF IInv
<1> DEFINE k == turn[p].key
           r == turn[p].best
           new == [row[k] EXCEPT !.status = "Assigned", !.responder = r, !.updated = clock]
<1>1. /\ turn[p].do = "assigned" /\ Assigning(p) /\ turn[p] /= NoTurn
      /\ k \in Key /\ row[k] /= Absent /\ auto[k] = None
      /\ r \in Responder /\ lock[r] = p /\ turn[p].load = workload[r]
  BY NoTurnType DEF Assign, Assigning, AssignOK, Stored
<1>2. row' = [row EXCEPT ![k] = new]
  BY DEF Assign
<1>3. /\ new \in Rows /\ new /= Absent /\ new.status = "Assigned" /\ new.client = row[k].client
      /\ new.content = row[k].content /\ new.updated = clock
  <2>1. row[k] \in Rows /\ clock \in Nat
    BY <1>1 DEF TypeOK
  <2> HIDE DEF k, r
  <2> QED BY <1>1, <2>1, NoTurnType DEF Rows, Status
<1>4. /\ workload' = [workload EXCEPT ![r] = workload[r] + 1] /\ auto' = [auto EXCEPT ![k] = r]
      /\ lock' = [q \in Responder |-> IF lock[q] = p THEN None ELSE lock[q]]
      /\ announced' = announced \union {k}
      /\ UNCHANGED <<clock, answered, overlapped, requests, faults>>
  BY <1>1 DEF Assign, Announce
<1>5. Becomes(p, NoTurn)
  BY DEF Assign, Becomes
<1> HIDE DEF k, r, new
<1>6. turn' \in [Server -> Turns] /\ turn'[p] = NoTurn /\ \A q \in Server \ {p} : turn'[q] = turn[q]
  BY <1>5, TurnSet, NoTurnType
<1>7. TypeOK'
  <2>1. row' \in [Key -> Rows]
    BY <1>1, <1>2, <1>3 DEF TypeOK
  <2>2. workload' \in [Responder -> Nat] /\ auto' \in [Key -> Responder \union {None}]
    BY <1>1, <1>4 DEF TypeOK
  <2>3. lock' \in [Responder -> Server \union {None}]
    BY <1>4 DEF TypeOK
  <2> QED BY <1>1, <1>4, <1>6, <2>1, <2>2, <2>3 DEF TypeOK
<1>8. RowsKept
  BY <1>1, <1>2, <1>3 DEF RowsKept, Stored, TypeOK
<1>9. Discreet(p)
  <2>1. ~overlapped' => ~overlapped /\ \A q \in Server \ {p} : turn[q] = NoTurn
    BY <1>1, <1>4 DEF AloneOK
  <2>2. \A j \in Key : row[j] = Absent => row'[j] = Absent
    BY <1>1, <1>2 DEF TypeOK
  <2>3. \A j \in Key : auto'[j] /= auto[j] => Assigning(p) /\ turn[p].key = j
    BY <1>1, <1>4 DEF TypeOK, k
  <2>4. \A j \in Responder : workload'[j] /= workload[j] => lock[j] = p
    BY <1>1, <1>4 DEF TypeOK
  <2>5. \A j \in Responder, q \in Server \ {p} : lock[j] = q => lock'[j] = q
    BY <1>4
  <2> QED BY <1>4, <1>6, <1>8, <2>1, <2>2, <2>3, <2>4, <2>5, NoTurnType
          DEF Discreet, Assigning, TypeOK
<1>10. HandlerOK(p)'
  BY <1>6, <1>7, IdleOK DEF TypeOK
<1>11. RowsOK'
  BY <1>1, <1>2, <1>3, <1>4 DEF RowsOK, RowOK, Stored, TypeOK, Rows
<1>12. WorkloadOK'
  <2>1. ASSUME NEW q \in Responder
        PROVE  IsFiniteSet(AssignedTo(q)') /\ workload'[q] = Cardinality(AssignedTo(q)')
    <3>1. CASE q = r
      <4>1. k \notin AssignedTo(q) /\ AssignedTo(q)' = AssignedTo(q) \union {k}
        BY <1>1, <1>4, <3>1, CoordinationAssumption DEF AssignedTo, TypeOK
      <4>2. /\ IsFiniteSet(AssignedTo(q)')
            /\ Cardinality(AssignedTo(q)') = Cardinality(AssignedTo(q)) + 1
        BY <4>1, FS_AddElement
      <4> QED BY <1>1, <1>4, <3>1, <4>2 DEF TypeOK
    <3>2. CASE q /= r
      <4>1. AssignedTo(q)' = AssignedTo(q)
        BY <1>1, <1>4, <3>2, CoordinationAssumption DEF AssignedTo, TypeOK
      <4> QED BY <1>1, <1>4, <3>2, <4>1 DEF TypeOK
    <3> QED BY <3>1, <3>2
  <2> QED BY <2>1 DEF WorkloadOK
<1>13. AnsweredOK'
  BY <1>4, <1>8, AnsweredKeep
<1>14. AnnouncedOK'
  <2>1. \A j \in Key : row[j] = Absent => row'[j] = Absent
    BY <1>1, <1>2 DEF TypeOK
  <2> QED BY <1>4, <1>6, <2>1, AnnouncedKeep DEF k
<1>15. NoneOlder
  BY <1>1, <1>2, <1>3 DEF NoneOlder, TypeOK, Rows
<1> QED BY <1>7, <1>9, <1>10, <1>11, <1>12, <1>13, <1>14, <1>15, Assemble

LEMMA ReadForPatchKeeps ==
  ASSUME IInv, NEW p \in Server, NEW k \in Key, ReadForPatch(p, k)
  PROVE  IInv' /\ NoneOlder
<1> USE DEF IInv
<1>1. PICK s \in Status, r \in Responder \union {None} :
        LET status == IF r /= None /\ s = "Pending" THEN "Assigned" ELSE s
        IN  turn' = [turn EXCEPT ![p].do = "patch", ![p].key = k, ![p].now = clock,
                       ![p].patch = [status |-> Change(status, row[k].status),
                                     responder |-> Change(r, row[k].responder)]]
  BY DEF ReadForPatch
<1> DEFINE status == IF r /= None /\ s = "Pending" THEN "Assigned" ELSE s
           c == [status |-> Change(status, row[k].status),
                 responder |-> Change(r, row[k].responder)]
           w == [NoTurn EXCEPT !.do = "patch", !.key = k, !.now = clock, !.patch = c]
<1>2. turn[p] = NoTurn /\ Becomes(p, w)
  BY <1>1 DEF ReadForPatch, Begin, Becomes, TypeOK
<1>3. c \in Patches
  BY DEF Patches, Change, Status
<1> HIDE DEF c
<1>4. /\ w \in Turns /\ w.do = "patch" /\ w.key = k /\ w.new = {} /\ w.changed = {}
      /\ w.left = << >> /\ w.batch = << >> /\ w.again = FALSE /\ w.now = clock
  <2>1. clock \in Nat
    BY DEF TypeOK
  <2> QED BY <1>3, <2>1, NoTurnType DEF Turns, Steps
<1> HIDE DEF w
<1>5. turn' \in [Server -> Turns] /\ turn'[p] = w /\ \A q \in Server \ {p} : turn'[q] = turn[q]
  BY <1>2, <1>4, TurnSet
<1>6. /\ Stored(k) /\ requests' \in Nat /\ overlapped' \in BOOLEAN
      /\ UNCHANGED <<row, workload, lock, announced, clock, auto, answered, faults>>
      /\ ~overlapped' => ~overlapped /\ \A q \in Server \ {p} : turn[q] = NoTurn
  BY Begins DEF ReadForPatch, dbVars
<1>7. TypeOK'
  BY <1>5, <1>6 DEF TypeOK
<1>8. RowsKept /\ RowsOK' /\ AnsweredOK' /\ WorkloadOK' /\ NoneOlder
  BY <1>6, TableStands DEF TypeOK, RowsOK, WorkloadOK
<1>9. Discreet(p)
  BY <1>4, <1>5, <1>6, <1>8 DEF Discreet, Assigning, TypeOK
<1>10. HandlerOK(p)'
  <2>1. AssignOK(p)'
    BY <1>4, <1>5, <1>6 DEF AssignOK, Assigning, Stored
  <2>2. PendingOK(p)' /\ UploadOK(p)'
    BY <1>4, <1>5, NoSession
  <2>3. \A j \in Key : row'[j].content <= clock
    BY <1>6 DEF RowOK, TypeOK, Rows
  <2>4. AloneOK(p)'
    BY <1>4, <1>5, <1>6, <2>3, NoTurnType DEF AloneOK
  <2>5. turn'[p].now <= clock'
    BY <1>4, <1>5, <1>6 DEF TypeOK
  <2> QED BY <2>1, <2>2, <2>4, <2>5 DEF HandlerOK
<1>11. AnnouncedOK'
  <2>1. ~Assigning(p)
    BY <1>2, NoTurnType DEF Assigning
  <2> QED BY <1>5, <1>6, <2>1, AnnouncedKeep
<1> QED BY <1>7, <1>8, <1>9, <1>10, <1>11, Assemble

\* The update carries the time the row was read at: only another handler can have
\* stored a newer edit since.
LEMMA PatchKeeps ==
  ASSUME IInv, NEW p \in Server, Patch(p)
  PROVE  IInv' /\ (~overlapped => NoneOlder)
<1> USE DEF IInv
<1> DEFINE k == turn[p].key
           c == turn[p].patch
           now == turn[p].now
           new == [row[k] EXCEPT
                    !.status = IF c.status /= None THEN c.status ELSE @,
                    !.responder = IF c.responder /= None THEN c.responder ELSE @,
                    !.content = now, !.updated = now]
<1>1. turn[p].do = "patch" /\ turn[p] /= NoTurn /\ ~Assigning(p) /\ k \in Key /\ row[k] /= Absent
  BY NoTurnType, Zenon DEF Patch, AssignOK, Assigning, Stored
<1>2. c \in Patches /\ now \in Nat /\ now <= clock
  <2>1. turn[p] \in Turns
    BY DEF TypeOK
  <2> QED BY <2>1 DEF Turns
<1>3. row' = [row EXCEPT ![k] = new]
  BY <1>1 DEF Patch, TypeOK
<1>4. /\ new \in Rows /\ new /= Absent /\ new.status /= "Absent" /\ new.client = row[k].client
      /\ new.content = now /\ new.updated = now
  <2>1. row[k] \in Rows /\ row[k].status /= "Absent"
    BY <1>1 DEF TypeOK, RowOK
  <2> HIDE DEF k, c, now
  <2>2. /\ new \in Rows /\ new.status /= "Absent" /\ new.client = row[k].client
        /\ new.content = now /\ new.updated = now
    BY <1>2, <2>1, ZenonT(40) DEF Rows, Status, Patches
  <2> QED BY <2>2, NoTurnType
<1>5. Becomes(p, NoTurn)
      /\ UNCHANGED <<workload, lock, announced, clock, auto, answered, overlapped, requests, faults>>
  BY DEF Patch, Becomes
<1>6. ~overlapped => \A j \in Key : row[j].content <= now
  BY <1>1 DEF AloneOK
<1> HIDE DEF k, c, now, new
<1>7. turn' \in [Server -> Turns] /\ turn'[p] = NoTurn /\ \A q \in Server \ {p} : turn'[q] = turn[q]
  BY <1>5, TurnSet, NoTurnType
<1>8. TypeOK'
  <2>1. row' \in [Key -> Rows]
    BY <1>1, <1>3, <1>4 DEF TypeOK
  <2> QED BY <1>5, <1>7, <2>1 DEF TypeOK
<1>9. RowsKept /\ \A j \in Key : row[j] = Absent => row'[j] = Absent
  BY <1>1, <1>3, <1>4 DEF RowsKept, Stored, TypeOK
<1>10. Discreet(p)
  <2>1. ~overlapped' => ~overlapped /\ \A q \in Server \ {p} : turn[q] = NoTurn
    BY <1>1, <1>5 DEF AloneOK
  <2> QED BY <1>5, <1>7, <1>9, <2>1, NoTurnType DEF Discreet, Assigning, TypeOK
<1>11. HandlerOK(p)'
  BY <1>7, <1>8, IdleOK DEF TypeOK
<1>12. RowsOK'
  BY <1>1, <1>2, <1>3, <1>4, <1>5 DEF RowsOK, RowOK, Stored, TypeOK, Rows
<1>13. AnsweredOK' /\ WorkloadOK'
  <2>1. WorkloadOK'
    BY <1>5 DEF WorkloadOK, AssignedTo
  <2> QED BY <1>5, <1>9, <2>1, AnsweredKeep
<1>14. AnnouncedOK'
  BY <1>1, <1>5, <1>7, <1>9, AnnouncedKeep
<1>15. ~overlapped => NoneOlder
  BY <1>1, <1>3, <1>4, <1>6 DEF NoneOlder, TypeOK, Rows
<1> HIDE DEF IInv
<1> QED BY <1>8, <1>10, <1>11, <1>12, <1>13, <1>14, <1>15, Assemble

\* An upload as a client sends it: each item with the time of its last edit.
LEMMA UploadType ==
  ASSUME NEW b \in Batch, NEW ts \in Nat
  PROVE  /\ [i \in DOMAIN b |-> Edit(b[i], ts)] \in Seq(Items)
         /\ \A i \in Range([j \in DOMAIN b |-> Edit(b[j], ts)]) : i.ts = ts
<1> DEFINE S == [key : Key, client : Client \union {NoClient}, remote : RemoteId]
           s == [i \in DOMAIN b |-> Edit(b[i], ts)]
<1>1. b \in Seq(S)
  BY CoordinationAssumption
<1>2. Len(b) \in Nat /\ DOMAIN b = 1 .. Len(b) /\ \A i \in DOMAIN b : b[i] \in S
  BY <1>1, LenProperties, ElementOfSeq
<1>3. \A i \in DOMAIN b : Edit(b[i], ts) \in Items /\ Edit(b[i], ts).ts = ts
  BY <1>2 DEF Edit, Items
<1>4. s \in [1 .. Len(b) -> Items]
  BY <1>2, <1>3
<1>5. s \in Seq(Items)
  BY <1>2, <1>4, SeqDef
<1> QED BY <1>3, <1>5 DEF Range

LEMMA StartSyncKeeps ==
  ASSUME IInv, NEW p \in Server, NEW b \in Batch, StartSync(p, b)
  PROVE  IInv' /\ NoneOlder
<1> USE DEF IInv
<1>1. PICK ts \in 1 .. clock :
        LET items == [i \in DOMAIN b |-> Edit(b[i], ts)]
        IN  turn' = [turn EXCEPT ![p].do = "sync", ![p].left = items, ![p].batch = items,
                       ![p].now = clock, ![p].again = items \in answered]
  BY ZenonT(40) DEF StartSync
<1> DEFINE items == [i \in DOMAIN b |-> Edit(b[i], ts)]
           again == items \in answered
           w == [NoTurn EXCEPT !.do = "sync", !.left = items, !.batch = items,
                   !.now = clock, !.again = again]
<1>2. turn[p] = NoTurn /\ Becomes(p, w)
  BY <1>1, ZenonT(40) DEF StartSync, Begin, Becomes, TypeOK
<1>3. ts \in Nat /\ ts <= clock /\ clock \in Nat
  BY DEF TypeOK
<1>4. items \in Seq(Items) /\ \A i \in Range(items) : i.ts = ts
  BY <1>3, UploadType
<1>5. again \in BOOLEAN
  OBVIOUS
<1> HIDE DEF items, again
<1>6. /\ w \in Turns /\ w.do = "sync" /\ w.new = {} /\ w.changed = {}
      /\ w.left = items /\ w.batch = items /\ w.again = again /\ w.now = clock
  BY <1>3, <1>4, <1>5, NoTurnType DEF Turns, Steps
<1> HIDE DEF w
<1>7. turn' \in [Server -> Turns] /\ turn'[p] = w /\ \A q \in Server \ {p} : turn'[q] = turn[q]
  BY <1>2, <1>6, TurnSet
<1>8. /\ requests' \in Nat /\ overlapped' \in BOOLEAN
      /\ UNCHANGED <<row, workload, lock, announced, clock, auto, answered, faults>>
      /\ ~overlapped' => ~overlapped /\ \A q \in Server \ {p} : turn[q] = NoTurn
  BY Begins DEF StartSync, dbVars
<1>9. TypeOK'
  BY <1>7, <1>8 DEF TypeOK
<1>10. RowsKept /\ RowsOK' /\ AnsweredOK' /\ WorkloadOK' /\ NoneOlder
  BY <1>8, TableStands DEF TypeOK, RowsOK, WorkloadOK
<1>11. Discreet(p)
  BY <1>6, <1>7, <1>8, <1>10 DEF Discreet, Assigning, TypeOK
<1>12. HandlerOK(p)'
  <2>1. AssignOK(p)' /\ PendingOK(p)'
    BY <1>6, <1>7 DEF AssignOK, PendingOK, Assigning
  <2>2. UploadOK(p)'
    <3>1. turn'[p].again => turn'[p].batch \in answered'
      BY <1>6, <1>7, <1>8 DEF again
    <3>2. \A i \in Range(turn'[p].batch) : i.ts <= turn'[p].now
      BY <1>3, <1>4, <1>6, <1>7
    <3> QED BY <1>6, <1>7, <3>1, <3>2 DEF UploadOK
  <2>3. AloneOK(p)'
    BY <1>6, <1>7, <1>8 DEF AloneOK
  <2>4. turn'[p].now <= clock'
    BY <1>3, <1>6, <1>7, <1>8
  <2> QED BY <2>1, <2>2, <2>3, <2>4 DEF HandlerOK
<1>13. AnnouncedOK'
  <2>1. ~Assigning(p)
    BY <1>2, NoTurnType DEF Assigning
  <2> QED BY <1>7, <1>8, <2>1, AnnouncedKeep
<1> QED BY <1>9, <1>10, <1>11, <1>12, <1>13, Assemble

\* The head of an upload is one of its items, and its tail the others.
LEMMA HeadTail ==
  ASSUME NEW s \in Seq(Items), s /= << >>
  PROVE  /\ Head(s) \in Items /\ Head(s) \in Range(s) /\ Tail(s) \in Seq(Items)
         /\ Range(Tail(s)) \subseteq Range(s)
         /\ \A i \in Range(s) : i = Head(s) \/ i \in Range(Tail(s))
<1>1. Len(s) \in Nat \ {0} /\ DOMAIN s = 1 .. Len(s)
  BY LenProperties, EmptySeq
<1>2. Head(s) = s[1] /\ Head(s) \in Items /\ Tail(s) \in Seq(Items)
  BY HeadTailProperties, <1>1, ElementOfSeq
<1>3. Len(Tail(s)) = Len(s) - 1 /\ DOMAIN Tail(s) = 1 .. Len(s) - 1
      /\ \A j \in 1 .. Len(s) - 1 : Tail(s)[j] = s[j + 1]
  BY HeadTailProperties, <1>1, <1>2, LenProperties
<1>4. Head(s) \in Range(s)
  BY <1>1, <1>2 DEF Range
<1>5. Range(Tail(s)) \subseteq Range(s)
  <2>1. ASSUME NEW j \in 1 .. Len(s) - 1 PROVE Tail(s)[j] = s[j + 1] /\ j + 1 \in 1 .. Len(s)
    BY <1>1, <1>3
  <2> QED BY <1>1, <1>3, <2>1 DEF Range
<1>6. ASSUME NEW j \in 1 .. Len(s) PROVE s[j] = Head(s) \/ s[j] \in Range(Tail(s))
  <2>1. CASE j = 1
    BY <1>2, <2>1
  <2>2. CASE j /= 1
    <3>1. j - 1 \in 1 .. Len(s) - 1 /\ Tail(s)[j - 1] = s[j]
      BY <1>1, <1>3, <2>2
    <3> QED BY <1>3, <3>1 DEF Range
  <2> QED BY <2>1, <2>2
<1> QED BY <1>1, <1>2, <1>4, <1>5, <1>6 DEF Range

\* A handler goes on with its upload without writing to the table.
LEMMA GoesOn ==
  ASSUME IInv, NEW p \in Server, NEW w \in Turns, Becomes(p, w),
         turn[p].do \in {"sync", "flush"}, w.do \in {"sync", "flush"},
         \A k \in w.new \ turn[p].new : \A q \in Server \ {p} : k \notin turn[q].new,
         announced' \in SUBSET Key, announced \subseteq announced',
         UNCHANGED <<row, workload, lock, clock, auto, answered, overlapped, requests, faults>>,
         PendingOK(p)', UploadOK(p)', w.now = turn[p].now,
         ~overlapped => \A k \in w.new \union w.changed : row[k].content <= w.pend[k].content
  PROVE  IInv' /\ NoneOlder
<1> USE DEF IInv
<1>1. turn' \in [Server -> Turns] /\ turn'[p] = w /\ \A q \in Server \ {p} : turn'[q] = turn[q]
  BY TurnSet
<1>2. TypeOK'
  BY <1>1 DEF TypeOK
<1>3. RowsKept /\ RowsOK' /\ AnsweredOK' /\ WorkloadOK' /\ NoneOlder
  BY TableStands DEF TypeOK, RowsOK, WorkloadOK
<1>4. ~Assigning(p) /\ ~Assigning(p)' /\ turn[p] /= NoTurn
  BY <1>1, NoTurnType DEF Assigning
<1>5. ~overlapped => \A q \in Server \ {p} : turn[q] = NoTurn
  BY <1>4 DEF AloneOK
<1>6. Discreet(p)
  BY <1>1, <1>3, <1>4, <1>5 DEF Discreet, TypeOK
<1>7. HandlerOK(p)'
  <2>1. AssignOK(p)'
    BY <1>1, <1>4 DEF AssignOK
  <2>2. AloneOK(p)'
    BY <1>1, <1>5 DEF AloneOK
  <2>3. turn'[p].now <= clock'
    BY <1>1
  <2> QED BY <2>1, <2>2, <2>3 DEF HandlerOK
<1>8. AnnouncedOK'
  BY <1>1, <1>4, AnnouncedKeep
<1> QED BY <1>2, <1>3, <1>6, <1>7, <1>8, Assemble

\* What a session sees of an incident that is there.
LEMMA SeenRow ==
  ASSUME IInv, NEW p \in Server, NEW k \in Key, Sees(p, k) /= Absent
  PROVE  /\ Sees(p, k) \in Rows /\ Sees(p, k).status /= "Absent"
         /\ Sees(p, k).content <= Sees(p, k).updated
         /\ k \notin turn[p].new => Stored(k) /\ Sees(p, k).client = row[k].client
         /\ ~overlapped => row[k].content <= Sees(p, k).content
<1> USE DEF IInv
<1>1. turn[p] \in Turns /\ row[k] \in Rows
  BY DEF TypeOK
<1>2. CASE k \in turn[p].new \union turn[p].changed
  <2>1. Sees(p, k) = turn[p].pend[k] /\ turn[p].pend[k] \in Rows
    BY <1>1, <1>2 DEF Sees, Turns
  <2> QED BY <1>1, <1>2, <2>1 DEF PendingOK, AloneOK
<1>3. CASE k \notin turn[p].new \union turn[p].changed
  BY <1>1, <1>3 DEF Sees, RowOK, Stored, Rows
<1> QED BY <1>2, <1>3

\* The next item of an upload is done when it has found its record and the others
\* keep theirs.
LEMMA ItemDone ==
  ASSUME IInv, NEW p \in Server, NEW w \in Turns, turn'[p] = w, UNCHANGED <<row, answered>>,
         turn[p].left /= << >>, w.left = Tail(turn[p].left), w.do = "sync",
         w.batch = turn[p].batch, w.again = turn[p].again, w.now = turn[p].now,
         NEW i, i = Head(turn[p].left), Found(i, Sees(p, i.key)'),
         \A k \in Key, j \in Items : Found(j, Sees(p, k)) => Found(j, Sees(p, k)')
  PROVE  UploadOK(p)'
<1> USE DEF IInv
<1>1. turn[p].left \in Seq(Items) /\ turn[p].batch \in Seq(Items)
  BY DEF TypeOK, Turns
<1>2. /\ Range(Tail(turn[p].left)) \subseteq Range(turn[p].left)
      /\ \A j \in Range(turn[p].left) : j = i \/ j \in Range(Tail(turn[p].left))
  BY <1>1, HeadTail
<1>3. ASSUME NEW j \in Range(turn[p].batch), j \notin Range(Tail(turn[p].left))
      PROVE  Found(j, Sees(p, j.key)')
  <2>1. j \in Items /\ j.key \in Key
    BY <1>1, ItemType
  <2>2. CASE j \in Range(turn[p].left)
    BY <1>2, <1>3, <2>2
  <2>3. CASE j \notin Range(turn[p].left)
    BY <2>1, <2>3 DEF UploadOK
  <2> QED BY <2>2, <2>3
<1> QED BY <1>2, <1>3 DEF UploadOK

\* A match is merged or skipped; the record keeps its owner either way.
LEMMA MergeKeeps ==
  ASSUME IInv, NEW p \in Server, Merge(p)
  PROVE  IInv' /\ NoneOlder
<1> USE DEF IInv
<1> DEFINE t == turn[p]
<1>1. t \in Turns /\ t.do = "sync" /\ t.left \in Seq(Items) /\ t.left /= << >>
  BY DEF Merge, TypeOK, Turns
<1>i. PICK i : i = Head(t.left)
  OBVIOUS
<1>o. PICK old : old = Sees(p, i.key)
  OBVIOUS
<1> DEFINE new == [old EXCEPT !.content = i.ts, !.updated = t.now]
           merged == [t EXCEPT !.left = Tail(@), !.changed = @ \union ({i.key} \ t.new),
                               !.pend[i.key] = new]
           skipped == [t EXCEPT !.left = Tail(@)]
<1>2. IF NotOlder(i, old) THEN Becomes(p, merged) ELSE Becomes(p, skipped)
  <2> HIDE DEF IInv
  <2>1. turn \in [Server -> Turns]
    BY Zenon DEF IInv, TypeOK
  <2>4. turn[p] \in Turns
    BY <2>1
  <2>2. CASE NotOlder(i, old)
    <3> DEFINE c == {i.key} \ t.new
    <3>1. turn' = [turn EXCEPT ![p].left = Tail(@), ![p].changed = @ \union c,
                     ![p].pend[i.key] = new]
      BY <1>i, <1>o, <2>2 DEF Merge
    <3> HIDE DEF new, c
    <3>2. [turn EXCEPT ![p].left = Tail(@), ![p].changed = @ \union c, ![p].pend[i.key] = new]
            = [turn EXCEPT ![p] = [turn[p] EXCEPT !.left = Tail(@), !.changed = @ \union c,
                                     !.pend[i.key] = new]]
      BY <2>1, <2>4 DEF Turns
    <3>3. turn' = [turn EXCEPT ![p] = [turn[p] EXCEPT !.left = Tail(@), !.changed = @ \union c,
                                         !.pend[i.key] = new]]
      BY <3>1, <3>2, Zenon
    <3>4. Becomes(p, merged)
      BY <3>3, Zenon DEF Becomes, c
    <3> QED BY <2>2, <3>4, Zenon
  <2>3. CASE ~NotOlder(i, old)
    <3>1. turn' = [turn EXCEPT ![p].left = Tail(@)]
      BY <1>i, <1>o, <2>3 DEF Merge
    <3>2. Becomes(p, skipped)
      BY <2>1, <2>4, <3>1 DEF Becomes
    <3> QED BY <2>3, <3>2, Zenon
  <2> QED BY <2>2, <2>3, Zenon
<1>3. i \in Items /\ i \in Range(t.left) /\ Tail(t.left) \in Seq(Items)
  BY <1>1, <1>i, HeadTail
<1>4. i.key \in Key /\ i.ts \in Nat /\ i.ts <= t.now /\ t.now \in Nat
  BY <1>1, <1>3, ItemType DEF UploadOK, Turns
<1>5. /\ old \in Rows /\ old /= Absent /\ old.status /= "Absent" /\ old.content <= old.updated
      /\ i.key \notin t.new => Stored(i.key) /\ old.client = row[i.key].client
      /\ ~overlapped => row[i.key].content <= old.content
  BY <1>4, <1>i, <1>o, SeenRow, SMTT(30) DEF Merge, Matches
<1>6. Found(i, old)
  BY <1>i, <1>o DEF Merge, Matches, Found
<1>7. UNCHANGED <<row, workload, lock, announced, clock, auto, answered, overlapped, requests, faults>>
  BY DEF Merge, dbVars
<1>8. CASE ~NotOlder(i, old)
  <2>1. /\ skipped \in Turns /\ skipped.do = "sync" /\ skipped.new = t.new
        /\ skipped.changed = t.changed /\ skipped.pend = t.pend /\ skipped.left = Tail(t.left)
        /\ skipped.batch = t.batch /\ skipped.again = t.again /\ skipped.now = t.now
    <3> HIDE DEF t
    <3> QED BY <1>1, <1>3 DEF Turns
  <2> HIDE DEF skipped
  <2>2. turn'[p] = skipped /\ \A q \in Server \ {p} : turn'[q] = turn[q]
    BY <1>2, <1>8, <2>1, TurnSet
  <2>3. PendingOK(p)'
    BY <1>7, <2>1, <2>2 DEF PendingOK, Stored
  <2>4. \A k \in Key : Sees(p, k)' = Sees(p, k)
    BY <1>7, <2>1, <2>2 DEF Sees
  <2>5. UploadOK(p)'
    <3>1. Found(i, Sees(p, i.key)')
      BY <1>4, <1>6, <1>o, <2>4
    <3>2. \A k \in Key, j \in Items : Found(j, Sees(p, k)) => Found(j, Sees(p, k)')
      BY <2>4
    <3> QED BY <1>1, <1>7, <1>i, <2>1, <2>2, <3>1, <3>2, ItemDone
  <2>6. ~overlapped => \A k \in t.new \union t.changed : row[k].content <= t.pend[k].content
    BY DEF AloneOK
  <2>7. \A k \in skipped.new \ turn[p].new : \A q \in Server \ {p} : k \notin turn[q].new
    BY <2>1
  <2> QED BY <1>1, <1>2, <1>7, <1>8, <2>1, <2>3, <2>5, <2>6, <2>7, GoesOn DEF TypeOK
<1>9. CASE NotOlder(i, old)
  <2>1. new \in Rows /\ new.status = old.status /\ new.client = old.client
        /\ new.content = i.ts /\ new.updated = t.now /\ new /= Absent
    <3> HIDE DEF t
    <3>1. new \in Rows /\ new.status = old.status /\ new.client = old.client
          /\ new.content = i.ts /\ new.updated = t.now
      BY <1>4, <1>5 DEF Rows
    <3> QED BY <1>5, <3>1, NoTurnType
  <2> HIDE DEF new
  <2>2. /\ merged \in Turns /\ merged.do = "sync" /\ merged.new = t.new
        /\ merged.changed = t.changed \union ({i.key} \ t.new)
        /\ merged.pend = [t.pend EXCEPT ![i.key] = new] /\ merged.left = Tail(t.left)
        /\ merged.batch = t.batch /\ merged.again = t.again /\ merged.now = t.now
    <3> HIDE DEF t
    <3> QED BY <1>1, <1>3, <1>4, <2>1 DEF Turns
  <2> HIDE DEF merged
  <2>3. turn'[p] = merged /\ \A q \in Server \ {p} : turn'[q] = turn[q]
    BY <1>2, <1>9, <2>2, TurnSet
  <2>4. t.pend \in [Key -> Rows] /\ t.new \subseteq Key /\ t.changed \subseteq Key
    BY <1>1 DEF Turns
  <2>5. PendingOK(p)'
    <3>1. ASSUME NEW k \in t.new
          PROVE  row[k] = Absent /\ k \in announced /\ \A q \in Server \ {p} : k \notin turn[q].new
      BY DEF PendingOK
    <3>2. ASSUME NEW k \in merged.changed
          PROVE  Stored(k) /\ merged.pend[k].client = row[k].client
      <4>1. CASE k = i.key
        <5>1. merged.pend[k] = new
          BY <2>2, <2>4, <4>1, <1>4
        <5>2. CASE k \in t.new
          BY <2>2, <3>2, <4>1, <5>2 DEF PendingOK, Stored
        <5>3. CASE k \notin t.new
          BY <1>5, <2>1, <4>1, <5>1, <5>3
        <5> QED BY <5>2, <5>3
      <4>2. CASE k /= i.key
        BY <2>2, <2>4, <3>2, <4>2 DEF PendingOK
      <4> QED BY <4>1, <4>2
    <3>3. ASSUME NEW k \in merged.new \union merged.changed
          PROVE  /\ merged.pend[k].status /= "Absent"
                 /\ merged.pend[k].content <= merged.pend[k].updated
                 /\ merged.pend[k].updated <= t.now
      <4>1. CASE k = i.key
        BY <1>4, <1>5, <2>1, <2>2, <2>4, <4>1
      <4>2. CASE k /= i.key
        BY <2>2, <2>4, <3>3, <4>2 DEF PendingOK
      <4> QED BY <4>1, <4>2
    <3> QED BY <1>7, <2>2, <2>3, <3>1, <3>2, <3>3 DEF PendingOK, Stored
  <2>6. Sees(p, i.key)' = new /\ \A k \in Key \ {i.key} : Sees(p, k)' = Sees(p, k)
    BY <1>4, <1>7, <2>2, <2>3, <2>4 DEF Sees
  <2>7. \A k \in Key, j \in Items : Found(j, Sees(p, k)) => Found(j, Sees(p, k)')
    BY <1>o, <2>1, <2>6 DEF Found
  <2>8. UploadOK(p)'
    <3>1. Found(i, Sees(p, i.key)')
      BY <1>6, <2>1, <2>6 DEF Found
    <3> QED BY <1>1, <1>7, <1>i, <2>2, <2>3, <2>7, <3>1, ItemDone
  <2>9. ASSUME ~overlapped, NEW k \in merged.new \union merged.changed
        PROVE  row[k].content <= merged.pend[k].content
    <3>1. CASE k = i.key
      <4>1. row[k] \in Rows /\ old.updated <= i.ts
        BY <1>4, <1>9, <3>1 DEF NotOlder, TypeOK
      <4> QED BY <1>4, <1>5, <2>1, <2>2, <2>4, <2>9, <3>1, <4>1 DEF Rows
    <3>2. CASE k /= i.key
      BY <2>2, <2>4, <2>9, <3>2 DEF AloneOK
    <3> QED BY <3>1, <3>2
  <2>10. \A k \in merged.new \ turn[p].new : \A q \in Server \ {p} : k \notin turn[q].new
    BY <2>2
  <2> QED BY <1>1, <1>2, <1>7, <1>9, <2>2, <2>5, <2>8, <2>9, <2>10, GoesOn DEF TypeOK
<1> QED BY <1>8, <1>9

\* The items of a repeated upload find what the answered one left.
LEMMA MissKeeps ==
  ASSUME IInv, NEW p \in Server, Miss(p)
  PROVE  IInv' /\ NoneOlder
<1> USE DEF IInv
<1> DEFINE t == turn[p]
           w == [t EXCEPT !.do = "flush"]
<1>1. t \in Turns /\ t.do = "sync" /\ t.left \in Seq(Items) /\ t.batch \in Seq(Items) /\ t.left /= << >>
  BY DEF Miss, TypeOK, Turns
<1>2. PICK i : i = Head(t.left)
  OBVIOUS
<1>3. Becomes(p, w)
  BY DEF Miss, Becomes, TypeOK
<1>4. UNCHANGED <<row, workload, lock, announced, clock, auto, answered, overlapped, requests, faults>>
  BY DEF Miss, dbVars
<1>5. i \in Items /\ i \in Range(t.left) /\ i.key \in Key
  BY <1>1, <1>2, HeadTail, ItemType
<1>6. ASSUME t.again PROVE i.client = NoClient /\ i.remote /= "stored"
  <2>1. Found(i, row[i.key])
    BY <1>5, <1>6 DEF UploadOK, AnsweredOK
  <2>2. Sees(p, i.key) /= Absent /\ Sees(p, i.key).client = row[i.key].client
    <3>1. CASE i.key \in t.new \union t.changed
      <4>1. i.key \in t.changed
        BY <2>1, <3>1 DEF Found, PendingOK
      <4>2. t.pend[i.key].status /= "Absent" /\ t.pend[i.key].client = row[i.key].client
        BY <4>1 DEF PendingOK
      <4> QED BY <3>1, <4>2, NoTurnType DEF Sees
    <3>2. CASE i.key \notin t.new \union t.changed
      BY <2>1, <3>2 DEF Sees, Found
    <3> QED BY <3>1, <3>2
  <2>3. i.remote /= "stored" /\ ~(i.client /= NoClient /\ Sees(p, i.key).client = i.client)
    BY <1>2, <2>2 DEF Miss, Matches
  <2> QED BY <2>1, <2>2, <2>3 DEF Found
<1>7. /\ w \in Turns /\ w.do = "flush" /\ w.new = t.new /\ w.changed = t.changed
      /\ w.pend = t.pend /\ w.left = t.left /\ w.batch = t.batch /\ w.again = t.again
      /\ w.now = t.now
  <2> HIDE DEF t
  <2> QED BY <1>1 DEF Turns, Steps
<1> HIDE DEF w
<1>8. turn'[p] = w /\ \A q \in Server \ {p} : turn'[q] = turn[q]
  BY <1>3, <1>7, TurnSet
<1>9. PendingOK(p)'
  BY <1>4, <1>7, <1>8 DEF PendingOK, Stored
<1>10. UploadOK(p)'
  <2>1. \A j \in Range(t.batch) : j \in Range(t.left) \/ Found(j, Sees(p, j.key)')
    BY <1>4, <1>7, <1>8 DEF UploadOK, Sees
  <2>2. t.again => Head(t.left).client = NoClient /\ Head(t.left).remote /= "stored"
    BY <1>2, <1>6
  <2> QED BY <1>1, <1>4, <1>7, <1>8, <2>1, <2>2 DEF UploadOK
<1>11. /\ ~overlapped => \A k \in w.new \union w.changed : row[k].content <= w.pend[k].content
       /\ \A k \in w.new \ t.new : \A q \in Server \ {p} : k \notin turn[q].new
  BY <1>7 DEF AloneOK
<1> QED BY <1>1, <1>3, <1>4, <1>7, <1>9, <1>10, <1>11, GoesOn DEF TypeOK

\* The identifier is free in the table and in every session.
LEMMA InsertKeeps ==
  ASSUME IInv, NEW p \in Server, Insert(p)
  PROVE  IInv' /\ NoneOlder
<1> USE DEF IInv
<1> DEFINE t == turn[p]
<1>1. t \in Turns /\ t.do = "flush" /\ t.left \in Seq(Items) /\ t.left /= << >>
  <2>1. t \in Turns
    BY DEF TypeOK
  <2>2. t.do = "flush" /\ t.left /= << >>
    BY DEF Insert, UploadOK
  <2> HIDE DEF IInv
  <2> QED BY <2>1, <2>2 DEF Turns
<1>2. PICK i : i = Head(t.left)
  OBVIOUS
<1> DEFINE new == [Absent EXCEPT !.status = "Pending", !.client = i.client,
                     !.content = i.ts, !.updated = i.ts]
           w == [t EXCEPT !.do = "sync", !.left = Tail(@), !.new = @ \union {i.key},
                          !.pend[i.key] = new]
<1>3. Becomes(p, w)
  <2> HIDE DEF IInv
  <2>1. turn \in [Server -> Turns]
    BY Zenon DEF IInv, TypeOK
  <2>2. turn' = [turn EXCEPT ![p].do = "sync", ![p].left = Tail(@), ![p].new = @ \union {i.key},
                   ![p].pend[i.key] = new]
    BY <1>2 DEF Insert
  <2> HIDE DEF new
  <2>3. [turn EXCEPT ![p].do = "sync", ![p].left = Tail(@), ![p].new = @ \union {i.key},
           ![p].pend[i.key] = new]
          = [turn EXCEPT ![p] = [turn[p] EXCEPT !.do = "sync", !.left = Tail(@),
                                   !.new = @ \union {i.key}, !.pend[i.key] = new]]
    BY <1>1, <2>1 DEF Turns
  <2>4. turn' = [turn EXCEPT ![p] = [turn[p] EXCEPT !.do = "sync", !.left = Tail(@),
                                       !.new = @ \union {i.key}, !.pend[i.key] = new]]
    BY <2>2, <2>3, Zenon
  <2> QED BY <2>4, Zenon DEF Becomes
<1>4. /\ Sees(p, i.key) = Absent /\ ~HeldByOther(p, i.key)
      /\ announced' = announced \union {i.key}
      /\ UNCHANGED <<row, workload, lock, clock, auto, answered, overlapped, requests, faults>>
  BY <1>2 DEF Insert, Announce, dbVars
<1>5. i \in Items /\ i \in Range(t.left) /\ Tail(t.left) \in Seq(Items)
  BY <1>1, <1>2, HeadTail
<1>6. i.key \in Key /\ i.ts \in Nat /\ i.ts <= t.now
  BY <1>1, <1>5, ItemType DEF UploadOK
<1>7. row[i.key] = Absent /\ i.key \notin t.new \union t.changed
  <2>1. i.key \notin t.new \union t.changed
    BY <1>4, NoTurnType DEF Sees, PendingOK
  <2> QED BY <1>4, <2>1 DEF Sees
<1>8. /\ new \in Rows /\ new.status = "Pending" /\ new.client = i.client
      /\ new.content = i.ts /\ new.updated = i.ts /\ new /= Absent
  <2>1. /\ new \in Rows /\ new.status = "Pending" /\ new.client = i.client
        /\ new.content = i.ts /\ new.updated = i.ts
    BY <1>5, <1>6, NoTurnType DEF Items, Rows, Status
  <2> QED BY <2>1, NoTurnType
<1> HIDE DEF new
<1>9. /\ w \in Turns /\ w.do = "sync" /\ w.new = t.new \union {i.key} /\ w.changed = t.changed
      /\ w.pend = [t.pend EXCEPT ![i.key] = new] /\ w.left = Tail(t.left)
      /\ w.batch = t.batch /\ w.again = t.again /\ w.now = t.now
  <2> HIDE DEF t
  <2> QED BY <1>1, <1>5, <1>6, <1>8 DEF Turns, Steps
<1> HIDE DEF w
<1>10. turn'[p] = w /\ \A q \in Server \ {p} : turn'[q] = turn[q]
  BY <1>3, <1>9, TurnSet
<1>11. t.pend \in [Key -> Rows] /\ t.new \subseteq Key /\ t.changed \subseteq Key
  BY <1>1 DEF Turns
<1>12. PendingOK(p)'
  <2>1. ASSUME NEW k \in w.new
        PROVE  row[k] = Absent /\ k \in announced' /\ \A q \in Server \ {p} : k \notin turn[q].new
    <3>1. CASE k = i.key
      BY <1>4, <1>7, <3>1 DEF HeldByOther
    <3>2. CASE k /= i.key
      BY <1>4, <1>9, <2>1, <3>2 DEF PendingOK
    <3> QED BY <3>1, <3>2
  <2>2. ASSUME NEW k \in t.changed PROVE Stored(k) /\ w.pend[k].client = row[k].client
    BY <1>7, <1>9, <1>11 DEF PendingOK
  <2>3. ASSUME NEW k \in w.new \union w.changed
        PROVE  /\ w.pend[k].status /= "Absent" /\ w.pend[k].content <= w.pend[k].updated
               /\ w.pend[k].updated <= t.now
    <3>1. CASE k = i.key
      BY <1>6, <1>8, <1>9, <1>11, <3>1
    <3>2. CASE k /= i.key
      BY <1>9, <1>11, <2>3, <3>2 DEF PendingOK
    <3> QED BY <3>1, <3>2
  <2> QED BY <1>4, <1>9, <1>10, <2>1, <2>2, <2>3, ZenonT(40) DEF PendingOK, Stored
<1>13. Sees(p, i.key)' = new /\ \A k \in Key \ {i.key} : Sees(p, k)' = Sees(p, k)
  BY <1>4, <1>6, <1>9, <1>10, <1>11 DEF Sees
<1>14. UploadOK(p)'
  <2>1. Found(i, Sees(p, i.key)')
    BY <1>8, <1>13 DEF Found
  <2>2. \A k \in Key, j \in Items : Found(j, Sees(p, k)) => Found(j, Sees(p, k)')
    BY <1>4, <1>13 DEF Found
  <2> QED BY <1>1, <1>2, <1>4, <1>9, <1>10, <2>1, <2>2, ItemDone
<1>15. ASSUME ~overlapped, NEW k \in w.new \union w.changed
       PROVE  row[k].content <= w.pend[k].content
  <2>1. CASE k = i.key
    BY <1>6, <1>7, <1>8, <1>9, <1>11, <2>1, NoTurnType
  <2>2. CASE k /= i.key
    BY <1>9, <1>11, <1>15, <2>2 DEF AloneOK
  <2> QED BY <2>1, <2>2
<1>16. \A k \in w.new \ t.new : \A q \in Server \ {p} : k \notin turn[q].new
  BY <1>4, <1>9 DEF HeldByOther
<1>17. announced' \in SUBSET Key /\ announced \subseteq announced'
  BY <1>4, <1>6 DEF TypeOK
<1> QED BY <1>1, <1>3, <1>4, <1>9, <1>12, <1>14, <1>15, <1>16, <1>17, GoesOn

\* The commit of a batch: what it flushed is new, what it merged keeps its owner, and
\* all its items have found their records.
LEMMA EndSyncKeeps ==
  ASSUME IInv, NEW p \in Server, EndSync(p)
  PROVE  IInv' /\ (~overlapped => NoneOlder)
<1> USE DEF IInv
<1> DEFINE t == turn[p]
<1>1. /\ t \in Turns /\ t.do = "sync" /\ t.left = << >> /\ t /= NoTurn /\ ~Assigning(p)
      /\ t.batch \in Seq(Items) /\ t.pend \in [Key -> Rows] /\ t.now <= clock
      /\ t.now \in Nat
  BY NoTurnType DEF EndSync, TypeOK, Turns, Assigning
<1>2. /\ row' = [k \in Key |->
                   IF k \in t.new THEN t.pend[k]
                   ELSE IF k \in t.changed
                     THEN [row[k] EXCEPT !.content = t.pend[k].content, !.updated = t.pend[k].updated]
                   ELSE row[k]]
      /\ answered' = answered \union {t.batch} /\ Becomes(p, NoTurn)
      /\ UNCHANGED <<workload, lock, announced, clock, auto, overlapped, requests, faults>>
  BY DEF EndSync, Becomes
<1>3. ASSUME NEW k \in Key
      PROVE  \/ /\ k \in t.new /\ row[k] = Absent /\ row'[k] = t.pend[k] /\ row'[k] = Sees(p, k)
                /\ row'[k] /= Absent
             \/ /\ k \notin t.new /\ k \in t.changed /\ row[k] /= Absent /\ row'[k] /= Absent
                /\ row'[k].status = row[k].status
                /\ row'[k].client = row[k].client /\ Sees(p, k).client = row[k].client
                /\ row'[k].content = t.pend[k].content /\ row'[k].updated = t.pend[k].updated
             \/ /\ k \notin t.new /\ k \notin t.changed /\ row'[k] = row[k] /\ Sees(p, k) = row[k]
  <2>1. CASE k \in t.new
    <3>1. row'[k] = t.pend[k] /\ Sees(p, k) = t.pend[k]
      BY <1>2, <2>1 DEF Sees
    <3>2. row[k] = Absent /\ t.pend[k].status /= "Absent"
      BY <2>1 DEF PendingOK
    <3> QED BY <2>1, <3>1, <3>2, NoTurnType
  <2>2. CASE k \notin t.new /\ k \in t.changed
    <3>1. row[k] \in Rows /\ row[k] /= Absent /\ row[k].status /= "Absent"
      BY <2>2 DEF PendingOK, Stored, TypeOK, RowOK
    <3>2. row'[k] = [row[k] EXCEPT !.content = t.pend[k].content, !.updated = t.pend[k].updated]
      BY <1>2, <2>2
    <3>3. /\ row'[k].status = row[k].status /\ row'[k].client = row[k].client
          /\ row'[k].content = t.pend[k].content /\ row'[k].updated = t.pend[k].updated
      BY <3>1, <3>2 DEF Rows
    <3>4. Sees(p, k).client = row[k].client
      BY <2>2 DEF Sees, PendingOK
    <3> QED BY <2>2, <3>1, <3>3, <3>4, NoTurnType
  <2>3. CASE k \notin t.new /\ k \notin t.changed
    BY <1>2, <2>3 DEF Sees
  <2> QED BY <2>1, <2>2, <2>3
<1>4. turn' \in [Server -> Turns] /\ turn'[p] = NoTurn /\ \A q \in Server \ {p} : turn'[q] = turn[q]
  BY <1>2, TurnSet, NoTurnType
<1>5. TypeOK'
  <2>1. row' \in [Key -> Rows]
    <3>1. ASSUME NEW k \in Key
          PROVE  [row[k] EXCEPT !.content = t.pend[k].content, !.updated = t.pend[k].updated] \in Rows
      <4>1. row[k] \in Rows /\ t.pend[k] \in Rows
        BY <1>1 DEF TypeOK
      <4> QED BY <4>1 DEF Rows
    <3>2. row \in [Key -> Rows]
      BY DEF TypeOK
    <3> QED BY <1>1, <1>2, <3>1, <3>2
  <2>2. answered' \subseteq Seq(Items)
    BY <1>1, <1>2 DEF TypeOK
  <2> QED BY <1>2, <1>4, <2>1, <2>2, ZenonT(40) DEF TypeOK
<1>6. RowsKept
  BY <1>3 DEF RowsKept, Stored
<1>7. ASSUME NEW k \in Key, row[k] = Absent, row'[k] /= Absent PROVE k \in t.new
  BY <1>3, <1>7, Zenon
<1>8. Discreet(p)
  <2>1. ~overlapped' => ~overlapped /\ \A q \in Server \ {p} : turn[q] = NoTurn
    BY <1>1, <1>2 DEF AloneOK
  <2>2. \A k \in Key : row[k] = Absent /\ row'[k] /= Absent =>
                         \A q \in Server \ {p} : k \notin turn[q].new
    BY <1>7 DEF PendingOK
  <2>3. ~Assigning(p)' /\ turn'[p].new = {}
    BY <1>4, NoTurnType DEF Assigning
  <2>4. answered \subseteq answered'
    BY <1>2
  <2>5. clock <= clock'
    <3>1. clock' = clock
      BY <1>2
    <3>2. clock \in Nat
      BY Zenon DEF TypeOK
    <3> QED BY <3>1, <3>2
  <2> QED BY <1>2, <1>4, <1>6, <2>1, <2>2, <2>3, <2>4, <2>5, ZenonT(30) DEF Discreet
<1>9. HandlerOK(p)'
  BY <1>4, <1>5, IdleOK DEF TypeOK
<1>10. RowsOK'
  <2>1. ASSUME NEW k \in Key
        PROVE  RowOK(row'[k]) /\ row'[k].updated <= clock /\ (row'[k] = Absent => auto[k] = None)
    <3>1. row'[k] \in Rows /\ t.pend[k] \in Rows /\ clock \in Nat
      BY <1>1, <1>5 DEF TypeOK
    <3>2. CASE k \in t.new \union t.changed
      <4>1. /\ t.pend[k].status /= "Absent" /\ t.pend[k].content <= t.pend[k].updated
            /\ t.pend[k].updated <= t.now
        BY <3>2 DEF PendingOK
      <4>2. row'[k].content = t.pend[k].content /\ row'[k].updated = t.pend[k].updated
        BY <1>3, <3>2
      <4>3. row'[k] /= Absent /\ row'[k].status /= "Absent"
        BY <1>3, <3>2, <4>1 DEF RowOK
      <4>4. row'[k].updated <= clock
        <5>1. t.pend[k].updated \in Nat
          BY <3>1 DEF Rows
        <5> QED BY <1>1, <3>1, <4>1, <4>2, <5>1
      <4> QED BY <4>1, <4>2, <4>3, <4>4 DEF RowOK
    <3>3. CASE k \notin t.new \union t.changed
      BY <1>3, <3>3 DEF Stored
    <3> QED BY <3>2, <3>3
  <2> QED BY <1>2, <2>1, Zenon DEF RowsOK, Stored
<1>11. AnsweredOK'
  <2> SUFFICES ASSUME NEW b \in answered', NEW i \in Range(b) PROVE Found(i, row'[i.key])
    BY DEF AnsweredOK
  <2>1. i.key \in Key
    BY <1>5, ItemType DEF TypeOK
  <2>2. CASE b \in answered
    BY <1>6, <2>1, <2>2, FoundStays DEF AnsweredOK
  <2>3. CASE b = t.batch
    <3>1. Found(i, Sees(p, i.key))
      BY <1>1, <2>3, NoTurnType DEF UploadOK
    <3> QED BY <1>3, <2>1, <3>1 DEF Found
  <2> QED BY <1>2, <2>2, <2>3
<1>12. WorkloadOK'
  <2>1. \A r \in Responder : AssignedTo(r)' = AssignedTo(r)
    BY <1>2 DEF AssignedTo
  <2> QED BY <1>2, <2>1 DEF WorkloadOK
<1>13. AnnouncedOK'
  <2>1. \A k \in t.new : k \in announced
    BY DEF PendingOK
  <2> QED BY <1>1, <1>2, <1>4, <1>7, <2>1, AnnouncedKeep, Zenon
<1>14. ~overlapped => NoneOlder
  <2>1. ASSUME ~overlapped, NEW k \in Key PROVE row'[k].content >= row[k].content
    <3>1. row[k] \in Rows /\ row'[k] \in Rows
      BY <1>5 DEF TypeOK
    <3>2. k \in t.new \union t.changed => row[k].content <= t.pend[k].content
      BY <2>1 DEF AloneOK
    <3> QED BY <1>3, <3>1, <3>2 DEF Rows
  <2> QED BY <2>1 DEF NoneOlder
<1> QED BY <1>5, <1>8, <1>9, <1>10, <1>11, <1>12, <1>13, <1>14, Assemble

\* What a process that dies has written is committed; the rest is forgotten.
LEMMA CrashKeeps ==
  ASSUME IInv, NEW p \in Server, Crash(p)
  PROVE  IInv' /\ NoneOlder
<1> USE DEF IInv
<1>1. /\ turn[p] /= NoTurn /\ Becomes(p, NoTurn) /\ faults' = faults + 1
      /\ lock' = [r \in Responder |-> IF lock[r] = p THEN None ELSE lock[r]]
      /\ UNCHANGED <<row, workload, announced, clock, auto, answered, overlapped, requests>>
  BY DEF Crash, Becomes
<1>2. turn' \in [Server -> Turns] /\ turn'[p] = NoTurn /\ \A q \in Server \ {p} : turn'[q] = turn[q]
  BY <1>1, TurnSet, NoTurnType
<1>3. TypeOK'
  <2>1. lock' \in [Responder -> Server \union {None}] /\ faults' \in Nat
    BY <1>1 DEF TypeOK
  <2> QED BY <1>1, <1>2, <2>1 DEF TypeOK
<1>4. RowsKept /\ RowsOK' /\ AnsweredOK' /\ WorkloadOK' /\ NoneOlder
  BY <1>1, TableStands DEF TypeOK, RowsOK, WorkloadOK
<1>5. Discreet(p)
  <2>1. ~overlapped' => ~overlapped /\ \A q \in Server \ {p} : turn[q] = NoTurn
    BY <1>1 DEF AloneOK
  <2>2. \A r \in Responder, q \in Server \ {p} : lock[r] = q => lock'[r] = q
    BY <1>1
  <2> QED BY <1>1, <1>2, <1>4, <2>1, <2>2, NoTurnType DEF Discreet, Assigning, TypeOK
<1>6. HandlerOK(p)'
  BY <1>2, <1>3, IdleOK DEF TypeOK
<1>7. AnnouncedOK'
  BY <1>1 DEF AnnouncedOK, TypeOK
<1> QED BY <1>3, <1>4, <1>5, <1>6, <1>7, Assemble

\* Time passes, or nothing happens.
LEMMA TimeKeeps ==
  ASSUME IInv, clock' \in Nat, clock <= clock',
         UNCHANGED <<row, workload, lock, turn, announced, auto, answered, overlapped,
                     requests, faults>>
  PROVE  IInv' /\ NoneOlder
<1> USE DEF IInv
<1>1. TypeOK'
  BY DEF TypeOK
<1>2. RowsOK' /\ AnsweredOK' /\ WorkloadOK' /\ NoneOlder
  BY TableStands DEF TypeOK, RowsOK, WorkloadOK
<1>3. ASSUME NEW p \in Server PROVE HandlerOK(p)'
  <2>1. AssignOK(p)' /\ PendingOK(p)' /\ AloneOK(p)'
    BY DEF AssignOK, PendingOK, AloneOK, Assigning, Stored
  <2>2. UploadOK(p)'
    BY DEF UploadOK, Sees
  <2>3. turn'[p].now <= clock'
    <3>1. turn[p].now \in Nat /\ turn[p].now <= clock /\ clock \in Nat
      BY DEF TypeOK, Turns
    <3> QED BY <3>1
  <2> QED BY <2>1, <2>2, <2>3 DEF HandlerOK
<1>4. AnnouncedOK'
  BY DEF AnnouncedOK, Assigning, Stored
<1> QED BY <1>1, <1>2, <1>3, <1>4 DEF HandlerOK, RowsOK, WorkloadOK

----------------------------------------------------------------------------
(* The theorems. *)

LEMMA InitOK == Init => IInv
<1> SUFFICES ASSUME Init PROVE IInv
  OBVIOUS
<1> USE NoTurnType, CoordinationAssumption DEF Init
<1>1. TypeOK
  <2>1. row \in [Key -> Rows] /\ turn \in [Server -> Turns]
    OBVIOUS
  <2>2. workload \in [Responder -> Nat] /\ lock \in [Responder -> Server \union {None}]
    OBVIOUS
  <2>3. auto \in [Key -> Responder \union {None}] /\ announced \subseteq Key
    OBVIOUS
  <2>4. overlapped \in BOOLEAN /\ answered \subseteq Seq(Items)
    OBVIOUS
  <2>5. clock \in Nat \ {0} /\ requests \in Nat /\ faults \in Nat
    OBVIOUS
  <2> QED BY <2>1, <2>2, <2>3, <2>4, <2>5 DEF TypeOK
<1>2. \A k \in Key : RowOK(row[k]) /\ row[k].updated <= clock /\ auto[k] = None
  BY DEF RowOK
<1>3. ASSUME NEW p \in Server
      PROVE  AssignOK(p) /\ PendingOK(p) /\ UploadOK(p) /\ AloneOK(p) /\ turn[p].now <= clock
  BY DEF AssignOK, PendingOK, UploadOK, AloneOK, Assigning
<1>4. AnsweredOK /\ AnnouncedOK
  BY DEF AnsweredOK, AnnouncedOK, Stored
<1>5. ASSUME NEW r \in Responder
      PROVE  IsFiniteSet(AssignedTo(r)) /\ workload[r] = Cardinality(AssignedTo(r))
  <2>1. AssignedTo(r) = {}
    BY DEF AssignedTo
  <2> QED BY <2>1, FS_EmptySet
<1> QED BY <1>1, <1>2, <1>3, <1>4, <1>5 DEF IInv

\* Every step keeps the invariant, and a step of a process that is alone replaces no
\* edit by an older one.
LEMMA NextOK == IInv /\ [Next]_vars => IInv' /\ (~overlapped => NoneOlder)
<1> SUFFICES ASSUME IInv, [Next]_vars PROVE IInv' /\ (~overlapped => NoneOlder)
  OBVIOUS
<1>1. ASSUME NEW p \in Server, NEW k \in Key, Create(p, k) \/ ReadForPatch(p, k)
      PROVE  IInv' /\ NoneOlder
  BY <1>1, CreateKeeps, ReadForPatchKeeps
<1>2. ASSUME NEW p \in Server, NEW b \in Batch, StartSync(p, b)
      PROVE  IInv' /\ NoneOlder
  BY <1>2, StartSyncKeeps
<1>3. ASSUME NEW p \in Server, Continue(p) PROVE IInv' /\ (~overlapped => NoneOlder)
  BY <1>3, LockKeeps, AssignNoneKeeps, AssignKeeps, PatchKeeps, MergeKeeps, MissKeeps,
     InsertKeeps, ClashKeeps, EndSyncKeeps DEF Continue
<1>4. ASSUME NEW p \in Server, Crash(p) PROVE IInv' /\ NoneOlder
  BY <1>4, CrashKeeps
<1>5. CASE Tick
  BY <1>5, TimeKeeps DEF Tick, dbVars, IInv, TypeOK
<1>6. CASE UNCHANGED vars
  BY <1>6, TimeKeeps DEF vars, dbVars, IInv, TypeOK
<1> QED BY <1>1, <1>2, <1>3, <1>4, <1>5, <1>6 DEF Next

\* The invariant holds in every state the backend reaches.
THEOREM Invariance == Spec => []IInv
  BY InitOK, NextOK, PTL DEF Spec

\* The variables keep their types.
THEOREM TypeCorrect == Spec => []TypeOK
<1>1. IInv => TypeOK
  BY DEF IInv
<1> QED BY <1>1, Invariance, PTL

\* The workload of a responder is the number of incidents assigned to it, whatever
\* handlers run at once and wherever one dies: the row is locked from the reading of
\* the workload to its writing.
THEOREM WorkloadsCount == Spec => []WorkloadCounts
<1>1. IInv => WorkloadCounts
  BY DEF IInv, WorkloadCounts, AssignedTo
<1> QED BY <1>1, Invariance, PTL

\* An incident that is stored has been announced or its handler is about to, unless a
\* process died in between.
THEOREM StoredMeansAnnounced == Spec => []StoredIsAnnounced
<1>1. IInv => StoredIsAnnounced
  BY DEF IInv, AnnouncedOK, StoredIsAnnounced, Assigning
<1> QED BY <1>1, Invariance, PTL

\* As long as handlers do not overlap no edit gives way to an older one.
THEOREM EditsAreNeverOlder == Spec => NeverOlder
<1>1. IInv /\ [Next]_vars
        => [~overlapped => \A k \in Key : row'[k].content >= row[k].content]_vars
  BY NextOK DEF NoneOlder
<1> QED BY <1>1, Invariance, PTL DEF Spec, NeverOlder

\* An upload that was answered with 200 is not refused when it comes again, unless
\* one of its items carries neither its client's id nor the id of the stored record: an
\* unknown remote_id finds nothing the second time either.
THEOREM RepeatedUploadsSucceed == Spec => RepeatSucceeds
<1> DEFINE A == \A p \in Server :
                  turn[p].again /\ Clash(p)
                    => \E i \in DOMAIN turn[p].batch :
                         turn[p].batch[i].client = NoClient /\ turn[p].batch[i].remote /= "stored"
<1>1. IInv => A
  <2> SUFFICES ASSUME IInv, NEW p \in Server, turn[p].again, Clash(p)
               PROVE  \E i \in DOMAIN turn[p].batch :
                        turn[p].batch[i].client = NoClient /\ turn[p].batch[i].remote /= "stored"
    OBVIOUS
  <2>1. turn[p].left \in Seq(Items) /\ turn[p].do = "flush"
    BY DEF Clash, IInv, TypeOK, Turns
  <2>2. /\ Head(turn[p].left).client = NoClient /\ Head(turn[p].left).remote /= "stored"
        /\ turn[p].left /= << >> /\ Range(turn[p].left) \subseteq Range(turn[p].batch)
    BY <2>1 DEF IInv, UploadOK
  <2>3. Head(turn[p].left) \in Range(turn[p].batch)
    BY <2>1, <2>2, HeadTail
  <2> QED BY <2>2, <2>3 DEF Range
<1>2. IInv => [A]_vars
  BY <1>1
<1> QED BY <1>2, Invariance, PTL DEF RepeatSucceeds

----------------------------------------------------------------------------
(* What becomes of the events: EventFanout.                                *)

\* Types of the variables.
FanoutTypeOK ==
  /\ enqueued \in Nat /\ queue \in Seq(Nat)
  /\ event \in Nat /\ current \in Watcher \union {"none"}
  /\ visited \subseteq Watcher /\ stale \subseteq Watcher /\ changed \in BOOLEAN
  /\ connections \subseteq Watcher /\ open \subseteq Watcher
  /\ since \in [Watcher -> Nat] /\ seen \in [Watcher -> Seq(Nat)]
  /\ missed \in [Watcher -> SUBSET Nat] /\ connects \in Nat

\* An event is written to a client its loop has come to.
WritingOK == current /= "none" => event /= 0 /\ current \in visited

\* What waits in the queue is newer than what is being published, and in order.
QueueOK ==
  /\ event <= enqueued
  /\ \A i \in DOMAIN queue : event < queue[i] /\ queue[i] <= enqueued
  /\ \A i, j \in DOMAIN queue : i < j => queue[i] < queue[j]

\* A client has seen nothing that still waits, nor the event being published unless
\* the loop has been to it and the write has ended.
SeenOK ==
  \A w \in Watcher : \A i \in DOMAIN seen[w] :
    /\ seen[w][i] <= enqueued
    /\ \A j \in DOMAIN queue : seen[w][i] < queue[j]
    /\ event /= 0 => seen[w][i] <= event
    /\ event /= 0 /\ (w \notin visited \/ current = w) => seen[w][i] < event

FanoutInv == FanoutTypeOK /\ WritingOK /\ QueueOK /\ SeenOK /\ SeenInOrder

----------------------------------------------------------------------------

\* Appending puts the new event behind all others.
LEMMA AppendEvent ==
  ASSUME NEW s \in Seq(Nat), NEW e \in Nat
  PROVE  /\ Append(s, e) \in Seq(Nat)
         /\ DOMAIN s = 1 .. Len(s) /\ Len(s) \in Nat
         /\ DOMAIN Append(s, e) = DOMAIN s \union {Len(s) + 1}
         /\ \A i \in DOMAIN s : Append(s, e)[i] = s[i]
         /\ Append(s, e)[Len(s) + 1] = e
<1>1. Append(s, e) \in Seq(Nat) /\ Len(Append(s, e)) = Len(s) + 1 /\ Len(s) \in Nat
  OBVIOUS
<1>2. DOMAIN s = 1 .. Len(s) /\ DOMAIN Append(s, e) = 1 .. (Len(s) + 1)
  BY <1>1
<1>3. (\A i \in 1 .. Len(s) : Append(s, e)[i] = s[i]) /\ Append(s, e)[Len(s) + 1] = e
  OBVIOUS
<1> QED BY <1>1, <1>2, <1>3

LEMMA TailEvents ==
  ASSUME NEW s \in Seq(Nat), s /= << >>
  PROVE  /\ Head(s) \in Nat /\ Tail(s) \in Seq(Nat)
         /\ 1 \in DOMAIN s /\ Head(s) = s[1]
         /\ DOMAIN s \subseteq Nat
         /\ \A i \in DOMAIN Tail(s) : i \in Nat \ {0} /\ i + 1 \in DOMAIN s /\ Tail(s)[i] = s[i + 1]
<1>1. Len(s) \in Nat \ {0} /\ DOMAIN s = 1 .. Len(s)
  OBVIOUS
<1>2. Head(s) \in Nat /\ Tail(s) \in Seq(Nat) /\ Head(s) = s[1]
  OBVIOUS
<1>3. Len(Tail(s)) = Len(s) - 1
  OBVIOUS
<1>4. DOMAIN Tail(s) = 1 .. (Len(s) - 1)
  BY <1>1, <1>2, <1>3
<1>5. \A i \in 1 .. (Len(s) - 1) : Tail(s)[i] = s[i + 1]
  BY <1>1
<1> QED BY <1>1, <1>2, <1>4, <1>5

LEMMA FanoutInitInv == FanoutInit => FanoutInv
<1> SUFFICES ASSUME FanoutInit PROVE FanoutInv
  OBVIOUS
<1>1. FanoutTypeOK
  <2>1. << >> \in Seq(Nat)
    OBVIOUS
  <2>2. since \in [Watcher -> Nat] /\ seen \in [Watcher -> Seq(Nat)] /\ missed \in [Watcher -> SUBSET Nat]
    BY <2>1 DEF FanoutInit
  <2> QED BY <2>1, <2>2 DEF FanoutInit, FanoutTypeOK
<1>2. WritingOK /\ QueueOK /\ SeenOK /\ SeenInOrder
  BY DEF FanoutInit, WritingOK, QueueOK, SeenOK, SeenInOrder
<1> QED BY <1>1, <1>2 DEF FanoutInv

LEMMA EnqueueInv ==
  ASSUME FanoutInv, Enqueue
  PROVE  FanoutInv'
<1> USE DEF FanoutInv
<1>1. /\ enqueued' = enqueued + 1 /\ enqueued \in Nat /\ queue' = Append(queue, enqueued + 1)
      /\ UNCHANGED <<event, current, visited, stale, changed, connections, open, since, seen, missed, connects>>
  BY DEF Enqueue, consumerVars, clientVars, FanoutTypeOK
<1>2. /\ queue' \in Seq(Nat) /\ DOMAIN queue' = DOMAIN queue \union {Len(queue) + 1}
      /\ DOMAIN queue = 1 .. Len(queue) /\ Len(queue) \in Nat
      /\ \A i \in DOMAIN queue : queue'[i] = queue[i] /\ queue[i] \in Nat
      /\ queue'[Len(queue) + 1] = enqueued + 1
  BY <1>1, AppendEvent DEF FanoutTypeOK
<1>3. FanoutTypeOK' /\ WritingOK' /\ SeenInOrder'
  BY <1>1, <1>2 DEF FanoutTypeOK, WritingOK, SeenInOrder
<1>4. QueueOK'
  <2>1. \A i \in DOMAIN queue' : event < queue'[i] /\ queue'[i] <= enqueued'
    BY <1>1, <1>2 DEF QueueOK, FanoutTypeOK
  <2>2. \A i, j \in DOMAIN queue' : i < j => queue'[i] < queue'[j]
    <3> SUFFICES ASSUME NEW i \in DOMAIN queue', NEW j \in DOMAIN queue', i < j PROVE queue'[i] < queue'[j]
      OBVIOUS
    <3>1. i \in DOMAIN queue
      BY <1>2
    <3>2. CASE j \in DOMAIN queue
      BY <1>2, <3>1, <3>2 DEF QueueOK
    <3>3. CASE j = Len(queue) + 1
      BY <1>1, <1>2, <3>1, <3>3 DEF QueueOK
    <3> QED BY <1>2, <3>2, <3>3
  <2> QED BY <1>1, <2>1, <2>2 DEF QueueOK, FanoutTypeOK
<1>5. SeenOK'
  <2> SUFFICES ASSUME NEW w \in Watcher, NEW i \in DOMAIN seen[w]
               PROVE  /\ seen[w][i] <= enqueued + 1
                      /\ \A j \in DOMAIN queue' : seen[w][i] < queue'[j]
    BY <1>1 DEF SeenOK
  <2>1. seen[w][i] \in Nat /\ seen[w][i] <= enqueued
    BY DEF FanoutTypeOK, SeenOK
  <2>2. \A j \in DOMAIN queue : seen[w][i] < queue[j]
    BY DEF SeenOK
  <2> QED BY <1>1, <1>2, <2>1, <2>2
<1> QED BY <1>3, <1>4, <1>5

LEMMA PublishInv ==
  ASSUME FanoutInv, Publish
  PROVE  FanoutInv'
<1> USE DEF FanoutInv
<1>1. /\ event = 0 /\ queue /= << >> /\ event' = Head(queue) /\ queue' = Tail(queue)
      /\ visited' = {} /\ stale' = {} /\ changed' = FALSE
      /\ UNCHANGED <<enqueued, current, connections, open, since, seen, missed, connects>>
  BY DEF Publish, clientVars
<1>2. /\ event' \in Nat /\ queue' \in Seq(Nat) /\ 1 \in DOMAIN queue /\ event' = queue[1]
      /\ \A i \in DOMAIN queue' : i \in Nat \ {0} /\ i + 1 \in DOMAIN queue /\ queue'[i] = queue[i + 1]
  BY <1>1, TailEvents DEF FanoutTypeOK
<1>3. FanoutTypeOK'
  BY <1>1, <1>2 DEF FanoutTypeOK
<1>4. current = "none"
  BY <1>1 DEF WritingOK
<1>5. WritingOK' /\ SeenInOrder'
  BY <1>1, <1>4 DEF WritingOK, SeenInOrder
<1>6. QueueOK'
  <2>1. event' <= enqueued' /\ \A i \in DOMAIN queue' : event' < queue'[i] /\ queue'[i] <= enqueued'
    BY <1>1, <1>2 DEF QueueOK
  <2>2. \A i, j \in DOMAIN queue' : i < j => queue'[i] < queue'[j]
    BY <1>2 DEF QueueOK
  <2> QED BY <2>1, <2>2 DEF QueueOK
<1>7. SeenOK'
  <2> SUFFICES ASSUME NEW w \in Watcher, NEW i \in DOMAIN seen[w]
               PROVE  /\ seen[w][i] <= enqueued
                      /\ \A j \in DOMAIN queue' : seen[w][i] < queue'[j]
                      /\ seen[w][i] < event' /\ seen[w][i] <= event'
    BY <1>1 DEF SeenOK
  <2>1. seen[w][i] \in Nat /\ seen[w][i] <= enqueued /\ \A j \in DOMAIN queue : seen[w][i] < queue[j]
    BY DEF FanoutTypeOK, SeenOK
  <2> QED BY <1>2, <2>1
<1> QED BY <1>3, <1>5, <1>6, <1>7

LEMMA WriteInv ==
  ASSUME FanoutInv, NEW w \in Watcher, WriteNext(w)
  PROVE  FanoutInv'
<1> USE DEF FanoutInv
<1>1. /\ event /= 0 /\ w \notin visited /\ current' = w /\ visited' = visited \union {w}
      /\ UNCHANGED <<enqueued, queue, event, stale, changed, connections, open, since, seen, missed, connects>>
  BY DEF WriteNext, clientVars
<1>2. FanoutTypeOK' /\ WritingOK' /\ QueueOK' /\ SeenInOrder'
  BY <1>1 DEF FanoutTypeOK, WritingOK, QueueOK, SeenInOrder
<1>3. \A v \in Watcher : v \notin visited' \/ current' = v => v \notin visited
  BY <1>1
<1>4. SeenOK'
  BY <1>1, <1>3 DEF SeenOK
<1> QED BY <1>2, <1>4

LEMMA EndWriteInv ==
  ASSUME FanoutInv, EndWrite
  PROVE  FanoutInv'
<1> USE DEF FanoutInv
<1>1. /\ current \in Watcher /\ current \in visited /\ event /= 0 /\ event \in Nat /\ current' = "none"
      /\ UNCHANGED <<enqueued, queue, event, visited, changed, connections, open, since, missed, connects>>
      /\ \/ seen' = [seen EXCEPT ![current] = Append(seen[current], event)] /\ UNCHANGED stale
         \/ stale' = stale \union {current} /\ UNCHANGED seen
  BY DEF EndWrite, WritingOK, FanoutTypeOK
<1>2. WritingOK' /\ QueueOK'
  BY <1>1 DEF WritingOK, QueueOK
<1>3. CASE UNCHANGED seen
  <2>1. FanoutTypeOK' /\ SeenInOrder'
    BY <1>1, <1>3 DEF FanoutTypeOK, SeenInOrder
  <2>2. \A v \in Watcher : v \notin visited' \/ current' = v => v \notin visited
    BY <1>1, FanoutAssumption
  <2> QED BY <1>1, <1>2, <1>3, <2>1, <2>2 DEF SeenOK
<1>4. CASE seen' = [seen EXCEPT ![current] = Append(seen[current], event)] /\ UNCHANGED stale
  <2> DEFINE s == seen[current]
             n == Len(s)
  <2>1. s \in Seq(Nat)
    BY <1>1 DEF FanoutTypeOK
  <2>2. /\ Append(s, event) \in Seq(Nat) /\ DOMAIN s = 1 .. n /\ n \in Nat
        /\ DOMAIN Append(s, event) = DOMAIN s \union {n + 1}
        /\ \A i \in DOMAIN s : Append(s, event)[i] = s[i]
        /\ Append(s, event)[n + 1] = event
    BY <1>1, <2>1, AppendEvent
  <2>3. seen'[current] = Append(s, event) /\ \A v \in Watcher \ {current} : seen'[v] = seen[v]
    BY <1>1, <1>4 DEF FanoutTypeOK
  <2>4. FanoutTypeOK'
    <3>1. seen' \in [Watcher -> Seq(Nat)]
      BY <1>1, <1>4, <2>2 DEF FanoutTypeOK
    <3> QED BY <1>1, <1>4, <3>1 DEF FanoutTypeOK
  <2>5. \A i \in DOMAIN s : s[i] < event /\ s[i] \in Nat
    BY <1>1, <2>1 DEF SeenOK
  <2> HIDE DEF s, n
  <2>6. SeenInOrder'
    <3> SUFFICES ASSUME NEW i \in DOMAIN seen'[current], NEW j \in DOMAIN seen'[current], i < j
                 PROVE  seen'[current][i] < seen'[current][j]
      BY <2>3 DEF SeenInOrder
    <3>1. i \in DOMAIN s
      BY <2>2, <2>3
    <3>2. CASE j \in DOMAIN s
      BY <1>1, <2>2, <2>3, <3>1, <3>2 DEF SeenInOrder, s
    <3>3. CASE j = n + 1
      BY <2>2, <2>3, <2>5, <3>1, <3>3
    <3> QED BY <2>2, <2>3, <3>2, <3>3
  <2>7. ASSUME NEW v \in Watcher, NEW i \in DOMAIN seen'[v]
        PROVE  /\ seen'[v][i] <= enqueued
               /\ \A j \in DOMAIN queue : seen'[v][i] < queue[j]
               /\ seen'[v][i] <= event
               /\ v \notin visited => seen'[v][i] < event
    <3>1. CASE v /= current
      BY <1>1, <2>3, <2>7, <3>1 DEF SeenOK
    <3>2. CASE v = current
      <4>1. seen'[v][i] \in Nat /\ seen'[v][i] <= event
        BY <1>1, <2>2, <2>3, <2>5, <2>7, <3>2, SMTT(30)
      <4>2. /\ v \in visited /\ event \in Nat /\ enqueued \in Nat /\ event <= enqueued
            /\ \A j \in DOMAIN queue : queue[j] \in Nat /\ event < queue[j]
        BY <1>1, <3>2 DEF QueueOK, FanoutTypeOK
      <4> QED BY <4>1, <4>2
    <3> QED BY <3>1, <3>2
  <2>8. SeenOK'
    BY <1>1, <2>7, FanoutAssumption DEF SeenOK
  <2> QED BY <1>2, <2>4, <2>6, <2>8
<1> QED BY <1>1, <1>3, <1>4

LEMMA EndPublishInv ==
  ASSUME FanoutInv, EndPublish
  PROVE  FanoutInv'
<1> USE DEF FanoutInv
<1>1. /\ current = "none" /\ event' = 0 /\ event \in Nat
      /\ connections' = connections \ stale \/ connections' = connections
      /\ missed' = [w \in Watcher |-> IF changed /\ w \in connections \ visited
                                        THEN missed[w] \union {event} ELSE missed[w]]
      /\ UNCHANGED <<enqueued, queue, current, visited, stale, changed, open, since, seen, connects>>
  BY DEF EndPublish, FanoutTypeOK
<1>2. missed' \in [Watcher -> SUBSET Nat]
  BY <1>1 DEF FanoutTypeOK
<1>3. FanoutTypeOK'
  BY <1>1, <1>2 DEF FanoutTypeOK
<1>4. \A i \in DOMAIN queue : 0 < queue[i]
  BY <1>1 DEF QueueOK, FanoutTypeOK
<1>5. WritingOK' /\ QueueOK' /\ SeenInOrder'
  BY <1>1, <1>4 DEF WritingOK, QueueOK, SeenInOrder, FanoutTypeOK
<1>6. SeenOK'
  BY <1>1 DEF SeenOK
<1> QED BY <1>3, <1>5, <1>6

LEMMA ClientInv ==
  ASSUME FanoutInv, NEW w \in Watcher, Connect(w) \/ Leave(w) \/ Disconnect(w)
  PROVE  FanoutInv'
<1> USE DEF FanoutInv
<1>1. CASE Leave(w) \/ Disconnect(w)
  <2>1. /\ UNCHANGED <<enqueued, queue, event, current, visited, stale, since, seen, missed, connects>>
        /\ changed' \in BOOLEAN /\ connections' \subseteq connections /\ open' \subseteq open
    BY <1>1 DEF Leave, Disconnect, consumerVars, FanoutTypeOK
  <2>2. FanoutTypeOK' /\ WritingOK' /\ QueueOK' /\ SeenInOrder'
    BY <2>1 DEF FanoutTypeOK, WritingOK, QueueOK, SeenInOrder
  <2>3. SeenOK'
    BY <2>1 DEF SeenOK
  <2> QED BY <2>2, <2>3
<1>2. CASE Connect(w)
  <2>1. /\ current /= w /\ visited' = visited \ {w} /\ seen' = [seen EXCEPT ![w] = << >>]
        /\ UNCHANGED <<enqueued, queue, event, current>>
    BY <1>2 DEF Connect
  <2>2. /\ DOMAIN seen'[w] = {} /\ \A v \in Watcher \ {w} : seen'[v] = seen[v]
        /\ seen' \in [Watcher -> Seq(Nat)]
    BY <2>1 DEF FanoutTypeOK
  <2>3. FanoutTypeOK'
    BY <1>2, <2>1, <2>2 DEF Connect, FanoutTypeOK
  <2>4. WritingOK' /\ QueueOK' /\ SeenInOrder'
    BY <2>1, <2>2 DEF WritingOK, QueueOK, SeenInOrder
  <2>5. SeenOK'
    BY <2>1, <2>2 DEF SeenOK
  <2> QED BY <2>3, <2>4, <2>5
<1> QED BY <1>1, <1>2

LEMMA FanoutNextInv == FanoutInv /\ [FanoutNext]_fanoutVars => FanoutInv'
<1> SUFFICES ASSUME FanoutInv, [FanoutNext]_fanoutVars PROVE FanoutInv'
  OBVIOUS
<1>1. CASE UNCHANGED fanoutVars
  BY <1>1 DEF fanoutVars, consumerVars, clientVars, FanoutInv, FanoutTypeOK, WritingOK,
              QueueOK, SeenOK, SeenInOrder
<1> QED BY <1>1, EnqueueInv, PublishInv, WriteInv, EndWriteInv, EndPublishInv, ClientInv
    DEF FanoutNext, Consume

LEMMA FanoutInvariance == FanoutSpec => []FanoutInv
  BY FanoutInitInv, FanoutNextInv, PTL DEF FanoutSpec

\* Queue, loop and connections keep their types.
THEOREM FanoutTypeCorrect == FanoutSpec => []FanoutTypeOK
<1>1. FanoutInv => FanoutTypeOK
  BY DEF FanoutInv
<1> QED BY <1>1, FanoutInvariance, PTL

\* Over one connection a client is told of the events in the order of their enqueue and
\* of none twice, however the dictionary of connections changes under a broadcast.
THEOREM EventsInOrder == FanoutSpec => []SeenInOrder
<1>1. FanoutInv => SeenInOrder
  BY DEF FanoutInv
<1> QED BY <1>1, FanoutInvariance, PTL
=============================================================================
