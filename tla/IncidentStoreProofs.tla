------------------------- MODULE IncidentStoreProofs -------------------------
(***************************************************************************)
(* Proofs about the merge rule and the incident table, for every set of    *)
(* ids, reports and batches.                                               *)
(*                                                                         *)
(* The merge rule is a strict weak order, so that reports of different     *)
(* rank may come in any order.  The handlers keep that promise for every   *)
(* incident whose row never changed between a handler's select and its     *)
(* write and that no server answered for, however handlers of other        *)
(* incidents interleave: such a row is never rolled back and ends as a     *)
(* maximum of the reports handled.  Neither exception can be dropped: an   *)
(* overtaken handler refutes NoRollback, and a server's answer replaces    *)
(* the row without a merge.  Every handled report has a row all the same,  *)
(* and until the process dies every row gets the polygon of its own data.  *)
(***************************************************************************)
EXTENDS IncidentStore, SequenceTheorems, TLAPS

----------------------------------------------------------------------------
(* The merge rule *)

LEMMA PriorityIsInt == \A state : StatePriority(state) \in Int
  BY DEF StatePriority

\* A report that beats a second one that beats a third beats the third.
LEMMA WinsTransitive ==
  ASSUME NEW a \in Reports, NEW b \in Reports, NEW c \in Reports,
         Wins(a, b), Wins(b, c)
  PROVE  Wins(a, c)
  BY PriorityIsInt DEF Wins, Reports

\* What does not beat a row does not beat what replaces it.
LEMMA LoserStaysLoser ==
  ASSUME NEW a \in Reports, NEW b \in Reports, NEW c \in Reports,
         ~Wins(a, b), Wins(c, b)
  PROVE  ~Wins(a, c)
  BY PriorityIsInt DEF Wins, Reports

\* Merging a report twice is merging it once: redelivery is harmless.
THEOREM MergeIdempotent ==
  ASSUME NEW r \in Reports, NEW u \in Reports
  PROVE  Merge(Merge(r, u), u) = Merge(r, u)
  BY PriorityIsInt DEF Merge, Wins, Reports

\* Two reports of different state or clock may be merged in either order;
\* of two tied reports the first to come stays.
THEOREM MergeCommutes ==
  ASSUME NEW r \in Reports, NEW u \in Reports, NEW v \in Reports, ~Tied(u, v)
  PROVE  Merge(Merge(r, u), v) = Merge(Merge(r, v), u)
  BY PriorityIsInt DEF Merge, Tied, Wins, Reports

----------------------------------------------------------------------------
(* The queue of operations *)

\* Executing the head leaves the rest of the queue and adds what is issued.
LEMMA QueueStep ==
  ASSUME NEW S, NEW s \in Seq(S), s /= << >>, NEW n \in Seq(S)
  PROVE  /\ Head(s) \in S
         /\ Tail(s) \o n \in Seq(S)
         /\ Range(s) = {Head(s)} \union Range(Tail(s))
         /\ Range(Tail(s) \o n) = Range(Tail(s)) \union Range(n)
<1>1. /\ Head(s) \in S /\ Tail(s) \in Seq(S) /\ Len(Tail(s)) = Len(s) - 1
      /\ \A i \in 1 .. Len(Tail(s)) : Tail(s)[i] = s[i + 1]
  BY HeadTailProperties
<1>2. Len(s) \in Nat \ {0} /\ Head(s) = s[1] /\ DOMAIN s = 1 .. Len(s)
  BY EmptySeq
<1>3. Range(Tail(s)) = {Tail(s)[i] : i \in 1 .. Len(Tail(s))}
  BY <1>1, RangeEquality
<1>4. Range(s) = {s[i] : i \in 1 .. Len(s)}
  BY RangeEquality
<1>5. Range(s) = {Head(s)} \union Range(Tail(s))
  <2>1. ASSUME NEW i \in 1 .. Len(s) PROVE s[i] \in {Head(s)} \union Range(Tail(s))
    <3>1. CASE i = 1
      BY <3>1, <1>2
    <3>2. CASE i /= 1
      <4>1. i - 1 \in 1 .. Len(Tail(s)) /\ s[i] = Tail(s)[i - 1]
        BY <3>2, <1>1, <1>2
      <4> QED BY <4>1, <1>3
    <3> QED BY <3>1, <3>2
  <2>2. ASSUME NEW i \in 1 .. Len(Tail(s)) PROVE Tail(s)[i] \in Range(s)
    <3>1. i + 1 \in 1 .. Len(s)
      BY <1>1, <1>2
    <3> QED BY <3>1, <1>1, <1>4
  <2>3. Head(s) \in Range(s)
    BY <1>2, <1>4
  <2> QED BY <2>1, <2>2, <2>3, <1>3, <1>4
<1>6. Tail(s) \o n \in Seq(S)
  BY <1>1, ConcatProperties
<1>7. Range(Tail(s) \o n) = Range(Tail(s)) \union Range(n)
  <2> DEFINE v == Tail(s)
  <2>1. v \in Seq(S)
    BY <1>1
  <2> HIDE DEF v
  <2>2. Range(v \o n) = Range(v) \union Range(n)
    BY <2>1, RangeConcatenation, ZenonT(30)
  <2> QED BY <2>2 DEF v
<1> QED BY <1>1, <1>5, <1>6, <1>7

\* Issuing operations puts them behind those that wait.
LEMMA QueueIssue ==
  ASSUME NEW S, NEW s \in Seq(S), NEW n \in Seq(S)
  PROVE  s \o n \in Seq(S) /\ Range(s \o n) = Range(s) \union Range(n)
  BY ConcatProperties, RangeConcatenation

\* Sequences of one operation.
LEMMA RangeOfOne ==
  /\ \A x : Range(<< x >>) = {x}
  /\ Range(<< >>) = {}
  BY DEF Range

LEMMA AppendOne ==
  ASSUME NEW S, NEW s \in Seq(S), NEW x \in S
  PROVE  Append(s, x) \in Seq(S) /\ Range(Append(s, x)) = Range(s) \union {x}
<1>1. Append(s, x) = s \o << x >>
  BY AppendIsConcat
<1>2. << x >> \in Seq(S)
  OBVIOUS
<1>3. s \o << x >> \in Seq(S) /\ Range(s \o << x >>) = Range(s) \union Range(<< x >>)
  <2> DEFINE v == << x >>
  <2>1. v \in Seq(S)
    BY <1>2
  <2> HIDE DEF v
  <2>2. s \o v \in Seq(S) /\ Range(s \o v) = Range(s) \union Range(v)
    BY <2>1, QueueIssue, ZenonT(30)
  <2> QED BY <2>2 DEF v
<1> QED BY <1>1, <1>3, RangeOfOne

\* What NextOfBatch issues starts the handler of one report of the batch.
LEMMA NextOfBatchType ==
  ASSUME NEW rest \in Seq(Reports)
  PROVE  /\ NextOfBatch(rest) \in Seq(Operations)
         /\ Started(rest) \subseteq Reports
         /\ \A r \in Started(rest) :
              \E o \in Range(NextOfBatch(rest)) : o.kind = "select" /\ o.r = r
<1>1. CASE rest = << >>
  BY <1>1 DEF NextOfBatch, Started
<1>2. CASE rest /= << >>
  <2> DEFINE o == Handler("select", Head(rest), Tail(rest))
  <2>1. Head(rest) \in Reports /\ Tail(rest) \in Seq(Reports)
    BY <1>2, HeadTailProperties
  <2>2. o \in Operations /\ o.kind = "select" /\ o.r = Head(rest)
    BY <2>1 DEF Handler, HandlerOps, Operations
  <2>3. NextOfBatch(rest) = << o >> /\ Started(rest) = {Head(rest)}
    BY <1>2 DEF NextOfBatch, Started
  <2>4. << o >> \in Seq(Operations) /\ o \in Range(<< o >>)
    BY <2>2, RangeOfOne
  <2> QED BY <2>1, <2>2, <2>3, <2>4
<1> QED BY <1>1, <1>2

\* The operations the next handler of a batch starts with.
LEMMA NextOfBatchKind ==
  ASSUME NEW rest \in Seq(Reports), NEW o \in Range(NextOfBatch(rest))
  PROVE  o.kind = "select"
<1>1. CASE rest = << >>
  BY <1>1, RangeOfOne DEF NextOfBatch
<1>2. CASE rest /= << >>
  <2>1. o = Handler("select", Head(rest), Tail(rest))
    BY <1>2, RangeOfOne DEF NextOfBatch
  <2> QED BY <2>1 DEF Handler
<1> QED BY <1>1, <1>2

----------------------------------------------------------------------------
(* Every interleaving of handlers *)

Inv == TypeOK /\ HandledIsStored

\* Types alone: what the decision on a report issues.
LEMMA DecideType ==
  ASSUME TypeOK, NEW r \in Reports, NEW rest \in Seq(Reports)
  PROVE  Decide(r, rest) \in Seq(Operations)
<1>1. \A kind \in {"insert", "update"} :
        << Handler(kind, r, rest) >> \in Seq(Operations)
  <2> TAKE kind \in {"insert", "update"}
  <2>1. Handler(kind, r, rest) \in Operations
    BY DEF Handler, HandlerOps, Operations
  <2> QED BY <2>1
<1> QED BY <1>1, NextOfBatchType DEF Decide

\* The head of the queue: a handler's operation has a report and a rest.
LEMMA HeadType ==
  ASSUME TypeOK, ops /= << >>
  PROVE  /\ Head(ops) \in Operations
         /\ Head(ops).kind \in {"select", "update", "insert", "refresh"} =>
              /\ Head(ops).r \in Reports /\ Head(ops).r.id \in Ids
              /\ Head(ops).rest \in Seq(Reports)
         /\ Head(ops).kind = "create" => Head(ops).r \in Reports /\ Head(ops).r.id \in Ids
         /\ Head(ops).kind = "commit" =>
              /\ Head(ops).ids \in SUBSET Ids
              /\ Head(ops).answer \in [Ids -> Answers \union {NoRow}]
<1>1. Head(ops) \in Operations
  BY HeadTailProperties DEF TypeOK
<1> QED
  BY <1>1 DEF Operations, HandlerOps, CreateOps, PushOps, CommitOps, Reports

\* Rows that are there stay there, and a report that waits for its insert
\* either waits on or finds a row.
LEMMA StoredStep ==
  ASSUME TypeOK, HandledIsStored, ops /= << >>,
         NEW n \in Seq(Operations), Executed(n),
         handled' \subseteq Reports,
         \A r \in handled' : r \in handled \/ \E o \in Range(n) : o.kind = "select" /\ o.r = r,
         \A i \in Ids : rows[i] /= NoRow => rows'[i] /= NoRow,
         Head(ops).kind \in {"select", "insert"} =>
            \/ rows'[Head(ops).r.id] /= NoRow
            \/ \E o \in Range(n) : o.kind \in {"select", "insert"} /\ o.r = Head(ops).r
  PROVE  HandledIsStored' /\ ops' \in Seq(Operations)
<1>1. /\ ops' = Tail(ops) \o n /\ ops' \in Seq(Operations)
      /\ Range(ops) = {Head(ops)} \union Range(Tail(ops))
      /\ Range(ops') = Range(Tail(ops)) \union Range(n)
  BY QueueStep DEF TypeOK, Executed
<1>2. ASSUME NEW r \in handled'
      PROVE  rows'[r.id] /= NoRow
             \/ \E o \in Range(ops') : o.kind \in {"select", "insert"} /\ o.r = r
  <2>1. CASE \E o \in Range(n) : o.kind = "select" /\ o.r = r
    BY <2>1, <1>1
  <2>2. CASE r \in handled /\ rows[r.id] /= NoRow
    BY <2>2 DEF TypeOK, Reports
  <2>3. CASE r \in handled /\ \E o \in Range(ops) : o.kind \in {"select", "insert"} /\ o.r = r
    <3>1. PICK o \in Range(ops) : o.kind \in {"select", "insert"} /\ o.r = r
      BY <2>3
    <3>2. CASE o = Head(ops)
      BY <3>1, <3>2, <1>1
    <3>3. CASE o \in Range(Tail(ops))
      BY <3>1, <3>3, <1>1
    <3> QED BY <3>1, <3>2, <3>3, <1>1
  <2> QED BY <1>2, <2>1, <2>2, <2>3 DEF HandledIsStored
<1> QED BY <1>1, <1>2 DEF HandledIsStored

LEMMA InitInv == Init => Inv
<1> SUFFICES ASSUME Init PROVE Inv
  OBVIOUS
<1>1. << >> \in Seq(Operations) /\ << >> \in Seq(SUBSET Ids)
  OBVIOUS
<1> QED BY <1>1 DEF Init, Inv, TypeOK, HandledIsStored

\* The ids that were overtaken are ids.
LEMMA HistoryType ==
  ASSUME TypeOK, [Next]_vars
  PROVE  overtaken' \subseteq Ids /\ restarted' \in BOOLEAN
<1>1. ASSUME NEW answered \in SUBSET Ids, Written(answered) PROVE overtaken' \subseteq Ids
  BY <1>1 DEF Written, TypeOK
<1>2. ASSUME Exec PROVE overtaken' \subseteq Ids /\ restarted' \in BOOLEAN
  <2>1. CASE ExecUpdate \/ ExecInsert \/ ExecCreate
    BY <1>1, <2>1 DEF ExecUpdate, ExecInsert, ExecCreate, Written, TypeOK
  <2>2. CASE ExecCommit
    <3>1. Written({i \in Ids : Head(ops).answer[i] /= NoRow})
      BY <2>2 DEF ExecCommit
    <3> QED BY <1>1, <3>1 DEF Written, TypeOK
  <2>3. CASE ExecSelect \/ ExecRefresh \/ ExecQueued
    BY <2>3 DEF ExecSelect, ExecRefresh, ExecQueued, history, TypeOK
  <2> QED BY <1>2, <2>1, <2>2, <2>3 DEF Exec
<1>3. ASSUME Peers \/ User \/ Server \/ UNCHANGED vars
      PROVE  overtaken' \subseteq Ids /\ restarted' \in BOOLEAN
  BY <1>3 DEF Peers, Arrive, User, Push, Create, Server, PushAnswered, PushFailed,
              vars, history, TypeOK
<1>4. ASSUME Restart PROVE overtaken' \subseteq Ids /\ restarted' \in BOOLEAN
  BY <1>4 DEF Restart, TypeOK
<1> QED BY <1>2, <1>3, <1>4 DEF Next

LEMMA NextInv == Inv /\ [Next]_vars => Inv'
<1> SUFFICES ASSUME Inv, [Next]_vars PROVE Inv'
  OBVIOUS
<1> USE DEF Inv
<1>0. overtaken' \subseteq Ids /\ restarted' \in BOOLEAN
  BY HistoryType
<1>1. ASSUME NEW b \in Batches, Arrive(b) PROVE Inv'
  <2>1. b \in Seq(Reports)
    BY StoreAssumption
  <2>2. /\ ops' = ops \o NextOfBatch(b) /\ handled' = handled \union Started(b)
        /\ UNCHANGED <<rows, syncQueue, polygons, pushes>>
    BY <1>1 DEF Arrive
  <2>3. ops' \in Seq(Operations) /\ Range(ops') = Range(ops) \union Range(NextOfBatch(b))
    BY <2>1, <2>2, NextOfBatchType, QueueIssue DEF TypeOK
  <2>4. TypeOK'
    BY <1>0, <2>1, <2>2, <2>3, NextOfBatchType DEF TypeOK
  <2>5. HandledIsStored'
    BY <2>1, <2>2, <2>3, NextOfBatchType DEF HandledIsStored
  <2> QED BY <2>4, <2>5
<1>2. ASSUME ops /= << >>, ExecSelect PROVE Inv'
  <2> DEFINE o == Head(ops)
             fresh == IF rows[o.r.id] /= NoRow /\ ~Wins(o.r, rows[o.r.id])
                        THEN Started(o.rest) ELSE {}
  <2>1. o.kind = "select" /\ Executed(Decide(o.r, o.rest))
        /\ handled' = handled \union fresh
        /\ UNCHANGED <<rows, syncQueue, polygons, pushes>>
    BY <1>2 DEF ExecSelect
  <2>2. o.r \in Reports /\ o.rest \in Seq(Reports)
    BY <1>2, <2>1, HeadType
  <2>3. Decide(o.r, o.rest) \in Seq(Operations)
    BY <2>2, DecideType
  <2>4. fresh \subseteq Reports
        /\ \A r \in fresh : \E d \in Range(Decide(o.r, o.rest)) : d.kind = "select" /\ d.r = r
    BY <2>2, NextOfBatchType DEF Decide
  <2>5. rows[o.r.id] /= NoRow
        \/ \E d \in Range(Decide(o.r, o.rest)) : d.kind \in {"select", "insert"} /\ d.r = o.r
    <3>1. CASE rows[o.r.id] = NoRow
      <4>1. Decide(o.r, o.rest) = << Handler("insert", o.r, o.rest) >>
        BY <3>1 DEF Decide
      <4>2. Handler("insert", o.r, o.rest) \in Range(Decide(o.r, o.rest))
        BY <4>1, RangeOfOne
      <4>3. Handler("insert", o.r, o.rest).kind = "insert"
            /\ Handler("insert", o.r, o.rest).r = o.r
        BY DEF Handler
      <4> QED BY <4>2, <4>3
    <3> QED BY <3>1
  <2> HIDE DEF fresh, o
  <2>6. handled' \subseteq Reports
        /\ \A r \in handled' : r \in handled
             \/ \E d \in Range(Decide(o.r, o.rest)) : d.kind = "select" /\ d.r = r
    BY <2>1, <2>4 DEF TypeOK
  <2>7. HandledIsStored' /\ ops' \in Seq(Operations)
    BY <1>2, <2>1, <2>3, <2>5, <2>6, StoredStep DEF o
  <2> QED BY <1>0, <2>1, <2>6, <2>7 DEF TypeOK
<1>3. ASSUME ops /= << >>, ExecUpdate PROVE Inv'
  <2> DEFINE n == << Handler("refresh", Head(ops).r, Head(ops).rest) >>
  <2>1. Head(ops).kind = "update" /\ Executed(n) /\ handled' = handled
        /\ rows' = [rows EXCEPT ![Head(ops).r.id] = Head(ops).r]
        /\ UNCHANGED <<syncQueue, polygons, pushes>>
    BY <1>3 DEF ExecUpdate, Written
  <2>2. /\ Head(ops).r \in Reports /\ Head(ops).r.id \in Ids
        /\ Head(ops).rest \in Seq(Reports)
    BY <1>3, <2>1, HeadType
  <2>3. n \in Seq(Operations)
    <3>1. Handler("refresh", Head(ops).r, Head(ops).rest) \in Operations
      BY <2>2 DEF Handler, HandlerOps, Operations
    <3> QED BY <3>1
  <2>4. rows' \in [Ids -> Reports \union {NoRow}]
        /\ \A i \in Ids : rows[i] /= NoRow => rows'[i] /= NoRow
    BY <2>1, <2>2, StoreAssumption DEF TypeOK
  <2> HIDE DEF n
  <2>5. HandledIsStored' /\ ops' \in Seq(Operations)
    BY <1>3, <2>1, <2>3, <2>4, StoredStep DEF TypeOK
  <2> QED BY <1>0, <2>1, <2>4, <2>5 DEF TypeOK
<1>4. ASSUME ops /= << >>, ExecInsert PROVE Inv'
  <2> DEFINE n == IF rows[Head(ops).r.id] = NoRow
                    THEN << Handler("refresh", Head(ops).r, Head(ops).rest) >> ELSE << >>
  <2>1. Head(ops).kind = "insert" /\ Executed(n) /\ handled' = handled
        /\ rows' = (IF rows[Head(ops).r.id] = NoRow
                      THEN [rows EXCEPT ![Head(ops).r.id] = Head(ops).r] ELSE rows)
        /\ UNCHANGED <<syncQueue, polygons, pushes>>
    BY <1>4 DEF ExecInsert, Written
  <2>2. /\ Head(ops).r \in Reports /\ Head(ops).r.id \in Ids
        /\ Head(ops).rest \in Seq(Reports)
    BY <1>4, <2>1, HeadType
  <2>3. n \in Seq(Operations)
    <3>1. Handler("refresh", Head(ops).r, Head(ops).rest) \in Operations
      BY <2>2 DEF Handler, HandlerOps, Operations
    <3> QED BY <3>1
  <2>4. rows' \in [Ids -> Reports \union {NoRow}]
        /\ \A i \in Ids : rows[i] /= NoRow => rows'[i] /= NoRow
    BY <2>1, <2>2, StoreAssumption DEF TypeOK
  <2>5. rows'[Head(ops).r.id] /= NoRow
    BY <2>1, <2>2, StoreAssumption DEF TypeOK
  <2> HIDE DEF n
  <2>6. HandledIsStored' /\ ops' \in Seq(Operations)
    BY <1>4, <2>1, <2>3, <2>4, <2>5, StoredStep DEF TypeOK
  <2> QED BY <1>0, <2>1, <2>4, <2>6 DEF TypeOK
<1>5. ASSUME ops /= << >>, ExecRefresh PROVE Inv'
  <2> DEFINE n == NextOfBatch(Head(ops).rest)
             fresh == Started(Head(ops).rest)
  <2>1. Head(ops).kind = "refresh" /\ Executed(n) /\ handled' = handled \union fresh
        /\ polygons' = [polygons EXCEPT ![Head(ops).r.id] = rows[Head(ops).r.id]]
        /\ UNCHANGED <<rows, syncQueue, pushes>>
    BY <1>5 DEF ExecRefresh, PolygonAfter
  <2>2. /\ Head(ops).r \in Reports /\ Head(ops).r.id \in Ids
        /\ Head(ops).rest \in Seq(Reports)
    BY <1>5, <2>1, HeadType
  <2>3. /\ n \in Seq(Operations) /\ fresh \subseteq Reports
        /\ \A r \in fresh : \E d \in Range(n) : d.kind = "select" /\ d.r = r
    BY <2>2, NextOfBatchType
  <2>4. polygons' \in [Ids -> Reports \union {NoRow}]
    BY <2>1, <2>2 DEF TypeOK
  <2> HIDE DEF n, fresh
  <2>5. handled' \subseteq Reports
        /\ \A r \in handled' : r \in handled
             \/ \E d \in Range(n) : d.kind = "select" /\ d.r = r
    BY <2>1, <2>3 DEF TypeOK
  <2>6. HandledIsStored' /\ ops' \in Seq(Operations)
    BY <1>5, <2>1, <2>3, <2>5, StoredStep DEF TypeOK
  <2> QED BY <1>0, <2>1, <2>4, <2>5, <2>6 DEF TypeOK
<1>6. ASSUME ops /= << >>, ExecCreate PROVE Inv'
  <2>1. Head(ops).kind = "create" /\ Executed(<< >>) /\ handled' = handled
        /\ rows' = (IF rows[Head(ops).r.id] = NoRow
                      THEN [rows EXCEPT ![Head(ops).r.id] = Head(ops).r] ELSE rows)
        /\ syncQueue' = (IF rows[Head(ops).r.id] = NoRow
                      THEN [syncQueue EXCEPT ![Head(ops).r.id] = "queued"] ELSE syncQueue)
        /\ UNCHANGED <<polygons, pushes>>
    BY <1>6 DEF ExecCreate, Written
  <2>2. Head(ops).r \in Reports /\ Head(ops).r.id \in Ids
    BY <1>6, <2>1, HeadType
  <2>3. /\ rows' \in [Ids -> Reports \union {NoRow}]
        /\ \A i \in Ids : rows[i] /= NoRow => rows'[i] /= NoRow
        /\ syncQueue' \in [Ids -> {"none", "queued", "sent"}]
    BY <2>1, <2>2, StoreAssumption DEF TypeOK
  <2>4. << >> \in Seq(Operations)
    OBVIOUS
  <2>5. HandledIsStored' /\ ops' \in Seq(Operations)
    BY <1>6, <2>1, <2>3, <2>4, StoredStep DEF TypeOK
  <2> QED BY <1>0, <2>1, <2>3, <2>5 DEF TypeOK
<1>7. ASSUME ops /= << >>, ExecQueued PROVE Inv'
  <2>1. Head(ops).kind = "queued" /\ Executed(<< >>) /\ handled' = handled
        /\ UNCHANGED <<rows, syncQueue, polygons>>
    BY <1>7 DEF ExecQueued, history
  <2>2. pushes' \in Seq(SUBSET Ids)
    <3> DEFINE queued == {i \in Ids : syncQueue[i] = "queued"}
    <3>1. pushes' = IF queued = {} THEN pushes ELSE Append(pushes, queued)
      BY <1>7 DEF ExecQueued
    <3>2. queued \in SUBSET Ids
      OBVIOUS
    <3> HIDE DEF queued
    <3> QED BY <3>1, <3>2, AppendOne DEF TypeOK
  <2>3. << >> \in Seq(Operations)
    OBVIOUS
  <2>4. HandledIsStored' /\ ops' \in Seq(Operations)
    BY <1>7, <2>1, <2>3, StoredStep DEF TypeOK
  <2> QED BY <1>0, <2>1, <2>2, <2>4 DEF TypeOK
<1>8. ASSUME ops /= << >>, ExecCommit PROVE Inv'
  <2>1. /\ Head(ops).kind = "commit" /\ Executed(<< >>) /\ handled' = handled
        /\ rows' = [i \in Ids |-> IF Head(ops).answer[i] /= NoRow
                                   THEN Head(ops).answer[i] ELSE rows[i]]
        /\ syncQueue' = [i \in Ids |-> IF i \in Head(ops).ids THEN "sent" ELSE syncQueue[i]]
        /\ UNCHANGED <<polygons, pushes>>
    BY <1>8 DEF ExecCommit, Written
  <2>2. Head(ops).answer \in [Ids -> Answers \union {NoRow}]
    BY <1>8, <2>1, HeadType
  <2>3. /\ rows' \in [Ids -> Reports \union {NoRow}]
        /\ \A i \in Ids : rows[i] /= NoRow => rows'[i] /= NoRow
        /\ syncQueue' \in [Ids -> {"none", "queued", "sent"}]
    BY <2>1, <2>2, StoreAssumption DEF TypeOK
  <2>4. << >> \in Seq(Operations)
    OBVIOUS
  <2>5. HandledIsStored' /\ ops' \in Seq(Operations)
    BY <1>8, <2>1, <2>3, <2>4, StoredStep DEF TypeOK
  <2> QED BY <1>0, <2>1, <2>3, <2>5 DEF TypeOK
<1>9. ASSUME NEW r \in Created, Create(r) PROVE Inv'
  <2> DEFINE o == [kind |-> "create", r |-> r]
  <2>1. r \in Reports /\ r.id \in Ids
    BY StoreAssumption DEF Reports
  <2>2. o \in Operations
    BY <2>1 DEF Operations, CreateOps
  <2>3. ops' = Append(ops, o) /\ polygons' = [polygons EXCEPT ![r.id] = r]
        /\ UNCHANGED <<rows, syncQueue, pushes, handled>>
    BY <1>9 DEF Create, history
  <2> HIDE DEF o
  <2>4. ops' \in Seq(Operations) /\ Range(ops') = Range(ops) \union {o}
    BY <2>2, <2>3, AppendOne DEF TypeOK
  <2>5. TypeOK'
    BY <1>0, <2>1, <2>3, <2>4 DEF TypeOK
  <2> QED BY <2>3, <2>4, <2>5 DEF HandledIsStored
<1>10. CASE Push
  <2> DEFINE o == [kind |-> "queued"]
  <2>1. o \in Operations
    BY DEF Operations, PushOps
  <2>2. ops' = Append(ops, o) /\ UNCHANGED <<rows, syncQueue, polygons, pushes, handled>>
    BY <1>10 DEF Push, history
  <2> HIDE DEF o
  <2>3. ops' \in Seq(Operations) /\ Range(ops') = Range(ops) \union {o}
    BY <2>1, <2>2, AppendOne DEF TypeOK
  <2> QED BY <1>0, <2>2, <2>3 DEF TypeOK, HandledIsStored
<1>11. CASE Server
  <2>1. ASSUME NEW k \in DOMAIN pushes PROVE RemoveAt(pushes, k) \in Seq(SUBSET Ids)
    BY DEF RemoveAt, TypeOK
  <2>2. CASE PushFailed
    BY <1>0, <2>1, <2>2 DEF PushFailed, history, TypeOK, HandledIsStored
  <2>3. CASE PushAnswered
    <3>1. PICK k \in DOMAIN pushes, answer \in [Ids -> Answers \union {NoRow}] :
            /\ ops' = Append(ops, [kind |-> "commit", ids |-> pushes[k], answer |-> answer])
            /\ pushes' = RemoveAt(pushes, k)
      BY <2>3 DEF PushAnswered
    <3> DEFINE o == [kind |-> "commit", ids |-> pushes[k], answer |-> answer]
    <3>2. pushes[k] \in SUBSET Ids
      BY DEF TypeOK
    <3>3. o \in Operations
      BY <3>2 DEF Operations, CommitOps
    <3>4. ops' = Append(ops, o)
      BY <3>1
    <3> HIDE DEF o
    <3>5. ops' \in Seq(Operations) /\ Range(ops') = Range(ops) \union {o}
      BY <3>3, <3>4, AppendOne DEF TypeOK
    <3>6. UNCHANGED <<rows, syncQueue, polygons, handled>>
      BY <2>3 DEF PushAnswered, history
    <3>7. TypeOK'
      BY <1>0, <3>1, <3>5, <3>6, <2>1 DEF TypeOK
    <3> QED BY <3>5, <3>6, <3>7 DEF HandledIsStored
  <2> QED BY <1>11, <2>2, <2>3 DEF Server
<1>12. CASE Restart
  <2>1. << >> \in Seq(Operations) /\ << >> \in Seq(SUBSET Ids)
    OBVIOUS
  <2> QED BY <1>0, <1>12, <2>1 DEF Restart, TypeOK, HandledIsStored
<1>13. CASE UNCHANGED vars
  BY <1>0, <1>13 DEF vars, history, TypeOK, HandledIsStored
<1> QED
  BY <1>1, <1>2, <1>3, <1>4, <1>5, <1>6, <1>7, <1>8, <1>9, <1>10, <1>11, <1>12, <1>13
  DEF Next, Peers, User, Exec

\* The variables keep their types, and no handled report is left without a
\* row, whichever handlers race.
THEOREM ReportsAreStored == Spec => [](TypeOK /\ HandledIsStored)
<1>1. Inv => TypeOK /\ HandledIsStored
  BY DEF Inv
<1> QED BY <1>1, InitInv, NextInv, PTL DEF Spec

----------------------------------------------------------------------------
(* Rows move forward unless a decision was overtaken *)

LEMMA WinsIrreflexive == \A r \in Reports : ~Wins(r, r)
  BY PriorityIsInt DEF Wins, Reports

\* The operation that waits is what its handler would issue on the row as it is.
Sound(o) ==
  \/ rows[o.r.id] = o.r
  \/ o.kind = "insert" /\ rows[o.r.id] = NoRow
  \/ o.kind = "update" /\ rows[o.r.id] /= NoRow /\ Wins(o.r, rows[o.r.id])

\* The handler of h has neither given h up nor written it.
Waiting(h) ==
  \E o \in Range(ops) : o.kind \in {"select", "update", "insert"} /\ o.r = h

Settled(h) == rows[h.id] /= NoRow /\ ~Wins(h, rows[h.id])

DecisionsSound ==
  \A o \in Range(ops) :
    o.kind \in {"update", "insert"} => o.r.id \in overtaken \/ Sound(o)

HandledSettled == \A h \in handled : h.id \in overtaken \/ Waiting(h) \/ Settled(h)

Ordered == DecisionsSound /\ HandledSettled

\* The action of OnlyOvertakenRollBack.
Forward ==
  \A i \in Ids : rows[i] /= NoRow /\ rows'[i] /= rows[i] =>
    Wins(rows'[i], rows[i]) \/ i \in overtaken'

LEMMA OrderedInit == Init => Ordered
  BY RangeOfOne DEF Init, Ordered, DecisionsSound, HandledSettled

\* Operations that are no decision may be added, and handlers may start.
LEMMA OrderedIssue ==
  ASSUME Ordered, UNCHANGED <<rows, overtaken>>, NEW new, Range(ops') = Range(ops) \union new,
         \A o \in new : o.kind \notin {"update", "insert"},
         \A h \in handled' : h \in handled \/ \E o \in new : o.kind = "select" /\ o.r = h
  PROVE  Ordered' /\ Forward
<1>1. DecisionsSound'
  BY DEF Ordered, DecisionsSound, Sound
<1>2. HandledSettled'
  BY DEF Ordered, HandledSettled, Settled, Waiting
<1> QED BY <1>1, <1>2 DEF Ordered, Forward

\* The head is executed: rows move forward, what changes under a waiting
\* decision is noted, and the head's own report is settled or waits on.
LEMMA OrderedExec ==
  ASSUME TypeOK, Ordered, ops /= << >>, NEW n \in Seq(Operations), Executed(n),
         rows' \in [Ids -> Reports \union {NoRow}],
         \A i \in Ids : rows[i] /= NoRow => rows'[i] /= NoRow,
         Forward, overtaken \subseteq overtaken',
         \A i \in Ids : Overtaken(i) => i \in overtaken',
         \A o \in Range(n) : o.kind \in {"update", "insert"} => o.r.id \in overtaken' \/ Sound(o)',
         \A h \in handled' : h \in handled \/ \E o \in Range(n) : o.kind = "select" /\ o.r = h,
         Head(ops).kind \in {"select", "update", "insert"} =>
           \/ Head(ops).r.id \in overtaken'
           \/ rows'[Head(ops).r.id] /= NoRow /\ ~Wins(Head(ops).r, rows'[Head(ops).r.id])
           \/ \E o \in Range(n) : o.kind \in {"update", "insert"} /\ o.r = Head(ops).r
  PROVE  Ordered'
<1>1. /\ ops' = Tail(ops) \o n
      /\ Range(ops) = {Head(ops)} \union Range(Tail(ops))
      /\ Range(ops') = Range(Tail(ops)) \union Range(n)
      /\ Range(ops) \subseteq Operations
  BY QueueStep, RangeOfSeq DEF TypeOK, Executed
<1>2. ASSUME NEW o \in Range(ops'), o.kind \in {"update", "insert"}
      PROVE  o.r.id \in overtaken' \/ Sound(o)'
  <2>1. CASE o \in Range(n)
    BY <1>2, <2>1
  <2>2. CASE o \in Range(Tail(ops))
    <3>1. o.r.id \in overtaken \/ Sound(o)
      BY <1>1, <1>2, <2>2 DEF Ordered, DecisionsSound
    <3>2. o.r.id \in Ids
      BY <1>1, <1>2, <2>2 DEF Operations, HandlerOps, CreateOps, PushOps, CommitOps, Reports
    <3>3. CASE rows'[o.r.id] = rows[o.r.id]
      BY <3>1, <3>3 DEF Sound
    <3>4. CASE rows'[o.r.id] /= rows[o.r.id]
      <4>1. o.r.id \in overtaken' \/ o.r = rows'[o.r.id]
        BY <1>2, <2>2, <3>2, <3>4 DEF Overtaken
      <4> QED BY <4>1 DEF Sound
    <3> QED BY <3>3, <3>4
  <2> QED BY <1>1, <2>1, <2>2
<1>3. ASSUME NEW h \in handled' PROVE h.id \in overtaken' \/ Waiting(h)' \/ Settled(h)'
  <2>1. CASE \E o \in Range(n) : o.kind \in {"select", "update", "insert"} /\ o.r = h
    BY <1>1, <2>1 DEF Waiting
  <2>2. CASE h \in handled /\ Settled(h)
    <3>1. h \in Reports /\ h.id \in Ids
      BY <2>2 DEF TypeOK, Reports
    <3>2. rows[h.id] \in Reports /\ rows'[h.id] \in Reports /\ ~Wins(h, rows[h.id])
      BY <2>2, <3>1 DEF TypeOK, Settled
    <3>3. rows'[h.id] = rows[h.id] \/ Wins(rows'[h.id], rows[h.id]) \/ h.id \in overtaken'
      BY <2>2, <3>1 DEF Forward, Settled
    <3>4. h.id \in overtaken' \/ ~Wins(h, rows'[h.id])
      BY <3>1, <3>2, <3>3, LoserStaysLoser
    <3>5. rows'[h.id] /= NoRow
      BY <2>2, <3>1 DEF Settled
    <3> QED BY <3>4, <3>5 DEF Settled
  <2>3. CASE h \in handled /\ Waiting(h)
    <3>1. PICK o \in Range(ops) : o.kind \in {"select", "update", "insert"} /\ o.r = h
      BY <2>3 DEF Waiting
    <3>2. CASE o = Head(ops)
      BY <2>1, <3>1, <3>2 DEF Settled
    <3>3. CASE o \in Range(Tail(ops))
      BY <1>1, <3>1, <3>3 DEF Waiting
    <3> QED BY <1>1, <3>2, <3>3
  <2> QED BY <1>3, <2>1, <2>2, <2>3 DEF Ordered, HandledSettled
<1> QED BY <1>2, <1>3 DEF Ordered, DecisionsSound, HandledSettled

\* Every step keeps the invariant and moves rows forward.
LEMMA OrderedStep == Inv /\ Ordered /\ [Next]_vars => Ordered' /\ Forward
<1> SUFFICES ASSUME Inv, Ordered, [Next]_vars PROVE Ordered' /\ Forward
  OBVIOUS
<1> USE DEF Inv
<1>0. /\ rows' \in [Ids -> Reports \union {NoRow}]
      /\ << >> \in Seq(Operations) /\ Range(<< >>) = {}
  BY NextInv, RangeOfOne DEF TypeOK
<1>1. ASSUME NEW b \in Batches, Arrive(b) PROVE Ordered' /\ Forward
  <2>1. b \in Seq(Reports)
    BY StoreAssumption
  <2>2. /\ ops' = ops \o NextOfBatch(b) /\ handled' = handled \union Started(b)
        /\ UNCHANGED <<rows, overtaken>>
    BY <1>1 DEF Arrive
  <2>3. Range(ops') = Range(ops) \union Range(NextOfBatch(b))
    BY <2>1, <2>2, NextOfBatchType, QueueIssue DEF TypeOK
  <2>4. \A o \in Range(NextOfBatch(b)) : o.kind \notin {"update", "insert"}
    BY <2>1, NextOfBatchKind
  <2> QED BY <2>1, <2>2, <2>3, <2>4, NextOfBatchType, OrderedIssue
<1>2. ASSUME ops /= << >>, ExecSelect PROVE Ordered' /\ Forward
  <2> DEFINE o == Head(ops)
             n == Decide(o.r, o.rest)
  <2>1. /\ o.kind = "select" /\ Executed(n)
        /\ handled' = IF rows[o.r.id] /= NoRow /\ ~Wins(o.r, rows[o.r.id])
                        THEN handled \union Started(o.rest) ELSE handled
        /\ UNCHANGED <<rows, overtaken>>
    BY <1>2 DEF ExecSelect
  <2>2. o.r \in Reports /\ o.rest \in Seq(Reports) /\ n \in Seq(Operations)
    BY <1>2, <2>1, HeadType, DecideType
  <2>3. Forward /\ \A i \in Ids : ~Overtaken(i)
    BY <2>1 DEF Forward, Overtaken
  <2>4. \A d \in Range(n) : d.kind \in {"update", "insert"} => d.r = o.r /\ Sound(d)
    <3>1. CASE rows[o.r.id] = NoRow
      BY <3>1, RangeOfOne DEF Decide, Handler, Sound
    <3>2. CASE rows[o.r.id] /= NoRow /\ Wins(o.r, rows[o.r.id])
      BY <3>2, RangeOfOne DEF Decide, Handler, Sound
    <3>3. CASE rows[o.r.id] /= NoRow /\ ~Wins(o.r, rows[o.r.id])
      BY <2>2, <3>3, NextOfBatchKind DEF Decide
    <3> QED BY <3>1, <3>2, <3>3
  <2>5. \A d \in Range(n) : d.kind \in {"update", "insert"} => Sound(d)'
    BY <2>1, <2>4 DEF Sound
  <2>6. \/ rows'[o.r.id] /= NoRow /\ ~Wins(o.r, rows'[o.r.id])
        \/ \E d \in Range(n) : d.kind \in {"update", "insert"} /\ d.r = o.r
    <3>1. ASSUME NEW kind \in {"update", "insert"}, n = << Handler(kind, o.r, o.rest) >>
          PROVE  \E d \in Range(n) : d.kind \in {"update", "insert"} /\ d.r = o.r
      BY <3>1, RangeOfOne DEF Handler
    <3> QED BY <2>1, <3>1 DEF Decide
  <2>7. \A h \in handled' : h \in handled \/ \E d \in Range(n) : d.kind = "select" /\ d.r = h
    BY <2>1, <2>2, NextOfBatchType DEF Decide
  <2>8. \A i \in Ids : rows[i] /= NoRow => rows'[i] /= NoRow
    BY <2>1
  <2> HIDE DEF n, o
  <2> QED BY <1>0, <1>2, <2>1, <2>2, <2>3, <2>5, <2>6, <2>7, <2>8, OrderedExec DEF o
<1>3. ASSUME ops /= << >>, ExecUpdate PROVE Ordered' /\ Forward
  <2> DEFINE o == Head(ops)
             n == << Handler("refresh", o.r, o.rest) >>
  <2>1. /\ o.kind = "update" /\ Executed(n) /\ handled' = handled
        /\ rows' = [rows EXCEPT ![o.r.id] = o.r]
        /\ overtaken' = overtaken \union {} \union {i \in Ids : Overtaken(i)}
    BY <1>3 DEF ExecUpdate, Written
  <2>2. o.r \in Reports /\ o.rest \in Seq(Reports) /\ o.r.id \in Ids
    BY <1>3, <2>1, HeadType
  <2>3. n \in Seq(Operations) /\ \A d \in Range(n) : d.kind = "refresh"
    <3>1. Handler("refresh", o.r, o.rest) \in Operations
      BY <2>2 DEF Handler, HandlerOps, Operations
    <3> QED BY <3>1, RangeOfOne DEF Handler
  <2>4. /\ rows'[o.r.id] = o.r /\ o.r /= NoRow
        /\ \A i \in Ids : i /= o.r.id => rows'[i] = rows[i]
    BY <2>1, <2>2, StoreAssumption DEF TypeOK
  <2>5. o.r.id \in overtaken \/ Sound(o)
    <3>1. o \in Range(ops)
      BY <1>3, <2>3, QueueStep DEF TypeOK
    <3> QED BY <2>1, <3>1 DEF Ordered, DecisionsSound
  <2>6. Forward
    BY <2>1, <2>2, <2>4, <2>5 DEF Forward, Sound
  <2>7. rows'[o.r.id] /= NoRow /\ ~Wins(o.r, rows'[o.r.id])
    BY <2>2, <2>4, WinsIrreflexive
  <2>8. overtaken \subseteq overtaken' /\ \A i \in Ids : Overtaken(i) => i \in overtaken'
    BY <2>1
  <2>9. \A i \in Ids : rows[i] /= NoRow => rows'[i] /= NoRow
    BY <2>4
  <2> HIDE DEF n, o
  <2> QED BY <1>0, <1>3, <2>1, <2>3, <2>6, <2>7, <2>8, <2>9, OrderedExec DEF o
<1>4. ASSUME ops /= << >>, ExecInsert PROVE Ordered' /\ Forward
  <2> DEFINE o == Head(ops)
             n == IF rows[o.r.id] = NoRow THEN << Handler("refresh", o.r, o.rest) >> ELSE << >>
  <2>1. /\ o.kind = "insert" /\ Executed(n) /\ handled' = handled
        /\ rows' = IF rows[o.r.id] = NoRow THEN [rows EXCEPT ![o.r.id] = o.r] ELSE rows
        /\ overtaken' = overtaken \union {} \union {i \in Ids : Overtaken(i)}
    BY <1>4 DEF ExecInsert, Written
  <2>2. o.r \in Reports /\ o.rest \in Seq(Reports) /\ o.r.id \in Ids
    BY <1>4, <2>1, HeadType
  <2>3. n \in Seq(Operations) /\ \A d \in Range(n) : d.kind = "refresh"
    <3>1. Handler("refresh", o.r, o.rest) \in Operations
      BY <2>2 DEF Handler, HandlerOps, Operations
    <3> QED BY <1>0, <3>1, RangeOfOne DEF Handler
  <2>4. /\ rows'[o.r.id] = (IF rows[o.r.id] = NoRow THEN o.r ELSE rows[o.r.id]) /\ o.r /= NoRow
        /\ \A i \in Ids : rows[i] /= NoRow => rows'[i] = rows[i]
    BY <2>1, <2>2, StoreAssumption DEF TypeOK
  <2>5. o.r.id \in overtaken \/ Sound(o)
    <3>1. o \in Range(ops)
      BY <1>4, <2>3, QueueStep DEF TypeOK
    <3> QED BY <2>1, <3>1 DEF Ordered, DecisionsSound
  <2>6. Forward
    BY <2>4 DEF Forward
  <2>7. overtaken \subseteq overtaken' /\ \A i \in Ids : Overtaken(i) => i \in overtaken'
    BY <2>1
  <2>8. \/ o.r.id \in overtaken'
        \/ rows'[o.r.id] /= NoRow /\ ~Wins(o.r, rows'[o.r.id])
    BY <2>1, <2>2, <2>4, <2>5, <2>7, WinsIrreflexive DEF Sound
  <2>9. \A i \in Ids : rows[i] /= NoRow => rows'[i] /= NoRow
    BY <2>4
  <2> HIDE DEF n, o
  <2> QED BY <1>0, <1>4, <2>1, <2>3, <2>6, <2>7, <2>8, <2>9, OrderedExec DEF o
<1>5. ASSUME ops /= << >>, ExecRefresh PROVE Ordered' /\ Forward
  <2> DEFINE o == Head(ops)
             n == NextOfBatch(o.rest)
  <2>1. /\ o.kind = "refresh" /\ Executed(n) /\ UNCHANGED <<rows, overtaken>>
        /\ handled' = handled \union Started(o.rest)
    BY <1>5 DEF ExecRefresh
  <2>2. o.rest \in Seq(Reports)
    BY <1>5, <2>1, HeadType
  <2>3. n \in Seq(Operations) /\ \A d \in Range(n) : d.kind = "select"
    BY <2>2, NextOfBatchType, NextOfBatchKind
  <2>4. \A h \in handled' : h \in handled \/ \E d \in Range(n) : d.kind = "select" /\ d.r = h
    BY <2>1, <2>2, NextOfBatchType
  <2>5. Forward /\ \A i \in Ids : ~Overtaken(i)
    BY <2>1 DEF Forward, Overtaken
  <2>6. \A i \in Ids : rows[i] /= NoRow => rows'[i] /= NoRow
    BY <2>1
  <2> HIDE DEF n, o
  <2> QED BY <1>0, <1>5, <2>1, <2>3, <2>4, <2>5, <2>6, OrderedExec DEF o
<1>6. ASSUME ops /= << >>, Head(ops).kind \in {"create", "queued", "commit"},
             Executed(<< >>), handled' = handled, overtaken \subseteq overtaken',
             \A i \in Ids : Overtaken(i) => i \in overtaken',
             \A i \in Ids : rows[i] /= NoRow => rows'[i] /= NoRow,
             \A i \in Ids : rows[i] /= NoRow => rows'[i] = rows[i] \/ i \in overtaken'
      PROVE  Ordered' /\ Forward
  <2>1. Forward
    BY <1>6 DEF Forward
  <2> QED BY <1>0, <1>6, <2>1, OrderedExec
<1>7. ASSUME ops /= << >>, ExecCreate PROVE Ordered' /\ Forward
  <2>1. \A i \in Ids : rows[i] /= NoRow => rows'[i] = rows[i]
    <3>1. Head(ops).r.id \in Ids
      BY <1>7, HeadType DEF ExecCreate
    <3> QED BY <1>7, <3>1 DEF ExecCreate, TypeOK
  <2>2. /\ Head(ops).kind = "create" /\ Executed(<< >>) /\ handled' = handled
        /\ overtaken' = overtaken \union {} \union {i \in Ids : Overtaken(i)}
    BY <1>7 DEF ExecCreate, Written
  <2> HIDE DEF Inv
  <2> QED BY <1>6, <1>7, <2>1, <2>2
<1>8. ASSUME ops /= << >>, ExecQueued PROVE Ordered' /\ Forward
  <2>1. /\ Head(ops).kind = "queued" /\ Executed(<< >>) /\ handled' = handled
        /\ overtaken' = overtaken /\ rows' = rows
    BY <1>8 DEF ExecQueued, history
  <2>2. \A i \in Ids : ~Overtaken(i)
    BY <2>1 DEF Overtaken
  <2> QED BY <1>6, <1>8, <2>1, <2>2
<1>9. ASSUME ops /= << >>, ExecCommit PROVE Ordered' /\ Forward
  <2> DEFINE a == Head(ops).answer
  <2>1. /\ Head(ops).kind = "commit" /\ Executed(<< >>) /\ handled' = handled
        /\ rows' = [i \in Ids |-> IF a[i] /= NoRow THEN a[i] ELSE rows[i]]
        /\ overtaken' = overtaken \union {i \in Ids : a[i] /= NoRow} \union {i \in Ids : Overtaken(i)}
    BY <1>9 DEF ExecCommit, Written
  <2> HIDE DEF a
  <2>2. \A i \in Ids : rows[i] /= NoRow => rows'[i] = rows[i] \/ i \in overtaken'
    BY <2>1
  <2>3. \A i \in Ids : rows[i] /= NoRow => rows'[i] /= NoRow
    BY <2>1
  <2>4. overtaken \subseteq overtaken' /\ \A i \in Ids : Overtaken(i) => i \in overtaken'
    BY <2>1
  <2> QED BY <1>6, <1>9, <2>1, <2>2, <2>3, <2>4
<1>10. ASSUME UNCHANGED <<rows, overtaken, handled>>, NEW o \in Operations,
              ops' = Append(ops, o), o.kind \in {"create", "queued", "commit"}
       PROVE  Ordered' /\ Forward
  <2>1. Range(ops') = Range(ops) \union {o}
    BY <1>10, AppendOne DEF TypeOK
  <2>2. \A d \in {o} : d.kind \notin {"update", "insert"}
    BY <1>10
  <2>3. UNCHANGED <<rows, overtaken>> /\ handled' = handled
    BY <1>10
  <2> QED BY <2>1, <2>2, <2>3, OrderedIssue
<1>11. ASSUME NEW r \in Created, Create(r) PROVE Ordered' /\ Forward
  <2> DEFINE o == [kind |-> "create", r |-> r]
  <2>1. o \in Operations /\ o.kind = "create"
    BY StoreAssumption DEF Operations, CreateOps
  <2>2. ops' = Append(ops, o) /\ UNCHANGED <<rows, overtaken, handled>>
    BY <1>11 DEF Create, history
  <2> HIDE DEF o
  <2> QED BY <1>10, <2>1, <2>2
<1>12. ASSUME Push PROVE Ordered' /\ Forward
  <2> DEFINE o == [kind |-> "queued"]
  <2>1. o \in Operations /\ o.kind = "queued"
    BY DEF Operations, PushOps
  <2>2. ops' = Append(ops, o) /\ UNCHANGED <<rows, overtaken, handled>>
    BY <1>12 DEF Push, history
  <2> HIDE DEF o
  <2> QED BY <1>10, <2>1, <2>2
<1>13. ASSUME PushAnswered PROVE Ordered' /\ Forward
  <2>1. PICK k \in DOMAIN pushes, answer \in [Ids -> Answers \union {NoRow}] :
          ops' = Append(ops, [kind |-> "commit", ids |-> pushes[k], answer |-> answer])
    BY <1>13 DEF PushAnswered
  <2> DEFINE o == [kind |-> "commit", ids |-> pushes[k], answer |-> answer]
  <2>2. o \in Operations /\ o.kind = "commit"
    BY DEF Operations, CommitOps, TypeOK
  <2>3. ops' = Append(ops, o) /\ UNCHANGED <<rows, overtaken, handled>>
    BY <1>13, <2>1 DEF PushAnswered, history
  <2> HIDE DEF o
  <2> QED BY <1>10, <2>2, <2>3
<1>14. ASSUME PushFailed \/ UNCHANGED vars PROVE Ordered' /\ Forward
  <2>1. UNCHANGED <<rows, overtaken, handled, ops>>
    BY <1>14 DEF PushFailed, vars, history
  <2> QED BY <2>1 DEF Ordered, DecisionsSound, HandledSettled, Sound, Settled, Waiting, Forward
<1>15. ASSUME Restart PROVE Ordered' /\ Forward
  <2>1. /\ rows' = rows /\ ops' = << >> /\ overtaken' = overtaken
        /\ handled' = {r \in handled : ~Waiting(r)}
    BY <1>15 DEF Restart, Waiting
  <2>2. Ordered'
    BY <1>0, <2>1 DEF Ordered, DecisionsSound, HandledSettled, Settled
  <2> QED BY <2>1, <2>2 DEF Forward
<1> QED
  BY <1>1, <1>2, <1>3, <1>4, <1>5, <1>7, <1>8, <1>9, <1>11, <1>12, <1>13, <1>14, <1>15
  DEF Next, Peers, User, Server, Exec

\* A row is only replaced by a report that beats it (the update branch of
\* _handleIncomingP2PIncident), unless the row had changed between a handler's
\* select and its write, or the server answered for it.
THEOREM OnlyOvertakenRowsRollBack == Spec => OnlyOvertakenRollBack
<1>1. Inv /\ Ordered /\ [Next]_vars => [Forward]_vars
  BY OrderedStep
<1>2. Inv /\ Ordered /\ [Next]_vars => Ordered'
  BY OrderedStep
<1>3. [][Forward]_vars => OnlyOvertakenRollBack
  BY DEF Forward, OnlyOvertakenRollBack
<1> QED BY <1>1, <1>2, <1>3, OrderedInit, InitInv, NextInv, PTL DEF Spec

\* An idle table holds, for every incident without such an overlap, a maximum of
\* the reports handled: the order in which they came is forgotten.
THEOREM RowsAreMaximal == Spec => []RowIsMaximal
<1>1. Inv /\ Ordered /\ [Next]_vars => Ordered'
  BY OrderedStep
<1>2. Ordered => RowIsMaximal
  BY RangeOfOne DEF Ordered, HandledSettled, Waiting, Settled, RowIsMaximal, Idle
<1> QED BY <1>1, <1>2, OrderedInit, InitInv, NextInv, PTL DEF Spec

----------------------------------------------------------------------------
(* Polygons, with any number of handlers *)

\* An operation in the queue that will bring row and polygon of i together.
Mending(i) ==
  \E o \in Range(ops) :
    (o.kind = "refresh" \/ (o.kind = "create" /\ rows[i] = NoRow)) /\ o.r.id = i

\* The row has its polygon, or is one that may lack it.
Mapped(i) ==
  rows[i] \in Answers \/ polygons[i] = rows[i] \/ (restarted /\ polygons[i] = NoRow)

\* A row that differs from its polygon is about to be mended; a creation still
\* finds the polygon it made, a refresh finds a row.
PolygonOK ==
  /\ \A i \in Ids : Mapped(i) \/ Mending(i)
  /\ \A o \in Range(ops) :
       /\ o.kind = "create" /\ rows[o.r.id] = NoRow => polygons[o.r.id] = o.r
       /\ o.kind = "refresh" => rows[o.r.id] /= NoRow

\* An incident is created under an id that no row and no other incident has that is
\* being created: ids are the time in milliseconds (:54), which two devices can share.
FreshId ==
  \A r \in Created :
    Create(r) => /\ rows[r.id] = NoRow
                 /\ \A o \in Range(ops) : o.kind = "create" /\ o.r.id = r.id => o.r = r

\* Operations that concern neither creations nor polygons may be added.
LEMMA PolygonIssue ==
  ASSUME PolygonOK, UNCHANGED <<rows, polygons>>, restarted => restarted',
         NEW new, Range(ops') = Range(ops) \union new,
         \A o \in new : o.kind \notin {"create", "refresh"}
  PROVE  PolygonOK'
  BY DEF PolygonOK, Mapped, Mending

\* The head of the queue is executed and leaves no row without its polygon unless
\* what it issues, or what waits, mends it.
LEMMA PolygonExec ==
  ASSUME TypeOK, PolygonOK, ops /= << >>, NEW n \in Seq(Operations), Executed(n),
         \A o \in Range(n) : o.kind /= "create" /\ (o.kind = "refresh" => rows'[o.r.id] /= NoRow),
         \A i \in Ids : rows[i] /= NoRow => rows'[i] /= NoRow,
         \A i \in Ids : rows'[i] = NoRow => polygons'[i] = polygons[i],
         restarted => restarted',
         \A i \in Ids :
           \/ rows'[i] \in Answers \/ polygons'[i] = rows'[i]
           \/ \E o \in Range(n) : o.kind = "refresh" /\ o.r.id = i
           \/ /\ rows'[i] = rows[i] /\ polygons'[i] = polygons[i]
              /\ ~(Head(ops).kind = "refresh" /\ Head(ops).r.id = i)
              /\ ~(Head(ops).kind = "create" /\ Head(ops).r.id = i /\ rows[i] = NoRow)
  PROVE  PolygonOK'
<1>1. /\ ops' = Tail(ops) \o n /\ ops' \in Seq(Operations)
      /\ Range(ops) = {Head(ops)} \union Range(Tail(ops))
      /\ Range(ops') = Range(Tail(ops)) \union Range(n)
  BY QueueStep DEF TypeOK, Executed
<1>2. ASSUME NEW i \in Ids PROVE Mapped(i)' \/ Mending(i)'
  <2>1. CASE \E o \in Range(n) : o.kind = "refresh" /\ o.r.id = i
    BY <1>1, <2>1 DEF Mending
  <2>2. CASE /\ rows'[i] = rows[i] /\ polygons'[i] = polygons[i]
             /\ ~(Head(ops).kind = "refresh" /\ Head(ops).r.id = i)
             /\ ~(Head(ops).kind = "create" /\ Head(ops).r.id = i /\ rows[i] = NoRow)
    BY <1>1, <2>2 DEF PolygonOK, Mapped, Mending
  <2> QED BY <2>1, <2>2 DEF Mapped
<1>3. ASSUME NEW o \in Range(ops')
      PROVE  /\ o.kind = "create" /\ rows'[o.r.id] = NoRow => polygons'[o.r.id] = o.r
             /\ o.kind = "refresh" => rows'[o.r.id] /= NoRow
  <2>1. CASE o \in Range(n)
    BY <2>1
  <2>2. CASE o \in Range(Tail(ops))
    <3>1. o \in Operations /\ o \in Range(ops)
      BY <1>1, <2>2, RangeOfSeq DEF TypeOK
    <3>2. o.kind \in {"create", "refresh"} => o.r.id \in Ids
      BY <3>1 DEF Operations, HandlerOps, CreateOps, PushOps, CommitOps, Reports
    <3> QED BY <3>1, <3>2 DEF PolygonOK
  <2> QED BY <1>1, <2>1, <2>2
<1> QED BY <1>2, <1>3 DEF PolygonOK

LEMMA PolygonInit == Init => PolygonOK
  BY RangeOfOne DEF Init, PolygonOK, Mapped, Mending

\* Every step keeps the polygons in order.
LEMMA PolygonStep == Inv /\ PolygonOK /\ FreshId /\ [Next]_vars => PolygonOK'
<1> SUFFICES ASSUME Inv, PolygonOK, FreshId, [Next]_vars PROVE PolygonOK'
  OBVIOUS
<1> USE DEF Inv
<1>0. restarted => restarted'
  BY DEF Next, Peers, Arrive, User, Push, Create, Server, PushAnswered, PushFailed, Exec,
         ExecSelect, ExecUpdate, ExecInsert, ExecRefresh, ExecCreate, ExecQueued, ExecCommit,
         Written, Restart, vars, history
<1>1. ASSUME NEW b \in Batches, Arrive(b) PROVE PolygonOK'
  <2>1. b \in Seq(Reports)
    BY StoreAssumption
  <2>2. ops' = ops \o NextOfBatch(b) /\ UNCHANGED <<rows, polygons>>
    BY <1>1 DEF Arrive
  <2>3. Range(ops') = Range(ops) \union Range(NextOfBatch(b))
    BY <2>1, <2>2, NextOfBatchType, QueueIssue DEF TypeOK
  <2> QED BY <1>0, <2>1, <2>2, <2>3, NextOfBatchKind, PolygonIssue
<1>2. ASSUME ops /= << >>, ExecSelect PROVE PolygonOK'
  <2> DEFINE o == Head(ops)
             n == Decide(o.r, o.rest)
  <2>1. o.kind = "select" /\ Executed(n) /\ UNCHANGED <<rows, polygons>>
    BY <1>2 DEF ExecSelect
  <2>2. o.r \in Reports /\ o.rest \in Seq(Reports)
    BY <1>2, <2>1, HeadType
  <2>3. \A d \in Range(n) : d.kind \in {"select", "insert", "update"}
    BY <2>2, NextOfBatchKind, RangeOfOne DEF Decide, Handler
  <2>4. n \in Seq(Operations)
    BY <2>2, DecideType
  <2> HIDE DEF n
  <2> QED BY <1>0, <1>2, <2>1, <2>3, <2>4, PolygonExec
<1>3. ASSUME ops /= << >>, ExecUpdate \/ (ExecInsert /\ rows[Head(ops).r.id] = NoRow)
      PROVE  PolygonOK'
  <2> DEFINE o == Head(ops)
             n == << Handler("refresh", o.r, o.rest) >>
  <2>1. /\ o.kind \in {"update", "insert"} /\ Executed(n) /\ polygons' = polygons
        /\ rows' = [rows EXCEPT ![o.r.id] = o.r]
    BY <1>3 DEF ExecUpdate, ExecInsert
  <2>2. o.r \in Reports /\ o.r.id \in Ids /\ o.rest \in Seq(Reports)
    BY <1>3, <2>1, HeadType
  <2>3. /\ n \in Seq(Operations)
        /\ \E d \in Range(n) : d.kind = "refresh" /\ d.r.id = o.r.id
        /\ \A d \in Range(n) : d.kind = "refresh" /\ d.r = o.r
    <3>1. Handler("refresh", o.r, o.rest) \in Operations
      BY <2>2 DEF Handler, HandlerOps, Operations
    <3> QED BY <3>1, RangeOfOne DEF Handler
  <2>4. /\ rows'[o.r.id] = o.r /\ o.r /= NoRow
        /\ \A i \in Ids : i /= o.r.id => rows'[i] = rows[i]
    BY <2>1, <2>2, StoreAssumption DEF TypeOK
  <2> HIDE DEF n
  <2> QED BY <1>0, <1>3, <2>1, <2>2, <2>3, <2>4, PolygonExec
<1>4. ASSUME ops /= << >>, ExecInsert, rows[Head(ops).r.id] /= NoRow PROVE PolygonOK'
  <2>1. Head(ops).kind = "insert" /\ Executed(<< >>) /\ UNCHANGED <<rows, polygons>>
    BY <1>4 DEF ExecInsert
  <2>2. << >> \in Seq(Operations) /\ Range(<< >>) = {}
    BY RangeOfOne
  <2> QED BY <1>0, <1>4, <2>1, <2>2, PolygonExec
<1>5. ASSUME ops /= << >>, ExecRefresh PROVE PolygonOK'
  <2> DEFINE o == Head(ops)
             n == NextOfBatch(o.rest)
  <2>1. /\ o.kind = "refresh" /\ Executed(n) /\ rows' = rows
        /\ polygons' = [polygons EXCEPT ![o.r.id] = rows[o.r.id]]
    BY <1>5 DEF ExecRefresh, PolygonAfter
  <2>2. o.r.id \in Ids /\ o.rest \in Seq(Reports)
    BY <1>5, <2>1, HeadType
  <2>3. n \in Seq(Operations) /\ \A d \in Range(n) : d.kind = "select"
    BY <2>2, NextOfBatchType, NextOfBatchKind
  <2>4. rows[o.r.id] /= NoRow
    <3>1. o \in Range(ops)
      BY <1>5, QueueStep, <2>3 DEF TypeOK
    <3> QED BY <2>1, <3>1 DEF PolygonOK
  <2>5. /\ polygons'[o.r.id] = rows'[o.r.id]
        /\ \A i \in Ids : i /= o.r.id => polygons'[i] = polygons[i]
    BY <2>1, <2>2 DEF TypeOK
  <2> HIDE DEF n
  <2> QED BY <1>0, <1>5, <2>1, <2>2, <2>3, <2>4, <2>5, PolygonExec
<1>6. ASSUME ops /= << >>, ExecCreate PROVE PolygonOK'
  <2> DEFINE o == Head(ops)
  <2>1. /\ o.kind = "create" /\ Executed(<< >>) /\ polygons' = polygons
        /\ rows' = IF rows[o.r.id] = NoRow THEN [rows EXCEPT ![o.r.id] = o.r] ELSE rows
    BY <1>6 DEF ExecCreate
  <2>2. << >> \in Seq(Operations) /\ Range(<< >>) = {}
    BY RangeOfOne
  <2>3. o.r \in Reports /\ o.r.id \in Ids /\ o \in Range(ops)
    BY <1>6, <2>1, <2>2, HeadType, QueueStep DEF TypeOK
  <2>4. rows[o.r.id] = NoRow => polygons[o.r.id] = o.r
    BY <2>1, <2>3 DEF PolygonOK
  <2>5. /\ \A i \in Ids : i /= o.r.id => rows'[i] = rows[i]
        /\ rows'[o.r.id] /= NoRow
        /\ rows[o.r.id] = NoRow => rows'[o.r.id] = polygons'[o.r.id]
        /\ rows[o.r.id] /= NoRow => rows'[o.r.id] = rows[o.r.id]
    BY <2>1, <2>3, <2>4, StoreAssumption DEF TypeOK
  <2> QED BY <1>0, <1>6, <2>1, <2>2, <2>3, <2>5, PolygonExec
<1>7. ASSUME ops /= << >>, ExecQueued PROVE PolygonOK'
  <2>1. Head(ops).kind = "queued" /\ Executed(<< >>) /\ UNCHANGED <<rows, polygons>>
    BY <1>7 DEF ExecQueued
  <2>2. << >> \in Seq(Operations) /\ Range(<< >>) = {}
    BY RangeOfOne
  <2> QED BY <1>0, <1>7, <2>1, <2>2, PolygonExec
<1>8. ASSUME ops /= << >>, ExecCommit PROVE PolygonOK'
  <2> DEFINE a == Head(ops).answer
  <2>1. /\ Head(ops).kind = "commit" /\ Executed(<< >>) /\ polygons' = polygons
        /\ rows' = [i \in Ids |-> IF a[i] /= NoRow THEN a[i] ELSE rows[i]]
    BY <1>8 DEF ExecCommit
  <2>2. a \in [Ids -> Answers \union {NoRow}]
    BY <1>8, <2>1, HeadType
  <2> HIDE DEF a
  <2>3. \A i \in Ids : (rows'[i] \in Answers /\ rows'[i] /= NoRow) \/ rows'[i] = rows[i]
    BY <2>1, <2>2
  <2>4. << >> \in Seq(Operations) /\ Range(<< >>) = {}
    BY RangeOfOne
  <2> QED BY <1>0, <1>8, <2>1, <2>3, <2>4, PolygonExec
<1>9. ASSUME NEW r \in Created, Create(r) PROVE PolygonOK'
  <2> DEFINE o == [kind |-> "create", r |-> r]
  <2>1. r \in Reports /\ r.id \in Ids
    BY StoreAssumption DEF Reports
  <2>2. o \in Operations /\ o.kind = "create" /\ o.r = r
    BY <2>1 DEF Operations, CreateOps
  <2>3. ops' = Append(ops, o) /\ rows' = rows /\ polygons' = [polygons EXCEPT ![r.id] = r]
    BY <1>9 DEF Create
  <2>4. rows[r.id] = NoRow
        /\ \A d \in Range(ops) : d.kind = "create" /\ d.r.id = r.id => d.r = r
    BY <1>9 DEF FreshId
  <2> HIDE DEF o
  <2>5. Range(ops') = Range(ops) \union {o}
    BY <2>2, <2>3, AppendOne DEF TypeOK
  <2>6. polygons'[r.id] = r /\ \A i \in Ids : i /= r.id => polygons'[i] = polygons[i]
    BY <2>1, <2>3 DEF TypeOK
  <2>7. \A i \in Ids : Mapped(i)' \/ Mending(i)'
    BY <1>0, <2>1, <2>2, <2>3, <2>4, <2>5, <2>6 DEF PolygonOK, Mapped, Mending
  <2>8. ASSUME NEW d \in Range(ops')
        PROVE  /\ d.kind = "create" /\ rows'[d.r.id] = NoRow => polygons'[d.r.id] = d.r
               /\ d.kind = "refresh" => rows'[d.r.id] /= NoRow
    <3>1. CASE d = o
      BY <2>2, <2>6, <3>1
    <3>2. CASE d \in Range(ops)
      <4>1. d \in Operations
        BY <3>2, RangeOfSeq DEF TypeOK
      <4>2. d.kind = "create" => d.r.id \in Ids /\ (d.r.id = r.id => d.r = r)
        BY <2>4, <3>2, <4>1 DEF Operations, HandlerOps, CreateOps, PushOps, CommitOps, Reports
      <4> QED BY <2>3, <2>6, <3>2, <4>2 DEF PolygonOK
    <3> QED BY <2>5, <3>1, <3>2
  <2> QED BY <2>7, <2>8 DEF PolygonOK
<1>10. ASSUME UNCHANGED <<rows, polygons>>, NEW o \in Operations, ops' = Append(ops, o),
              o.kind \in {"queued", "commit"}
       PROVE  PolygonOK'
  <2>1. Range(ops') = Range(ops) \union {o}
    BY <1>10, AppendOne DEF TypeOK
  <2>2. \A d \in {o} : d.kind \notin {"create", "refresh"}
    BY <1>10
  <2>3. UNCHANGED <<rows, polygons>>
    BY <1>10
  <2> QED BY <1>0, <2>1, <2>2, <2>3, PolygonIssue
<1>11. ASSUME Push PROVE PolygonOK'
  <2> DEFINE o == [kind |-> "queued"]
  <2>1. o \in Operations /\ o.kind = "queued"
    BY DEF Operations, PushOps
  <2>2. ops' = Append(ops, o) /\ UNCHANGED <<rows, polygons>>
    BY <1>11 DEF Push
  <2> HIDE DEF o
  <2> QED BY <1>10, <2>1, <2>2
<1>12. ASSUME PushAnswered PROVE PolygonOK'
  <2>1. PICK k \in DOMAIN pushes, answer \in [Ids -> Answers \union {NoRow}] :
          ops' = Append(ops, [kind |-> "commit", ids |-> pushes[k], answer |-> answer])
    BY <1>12 DEF PushAnswered
  <2> DEFINE o == [kind |-> "commit", ids |-> pushes[k], answer |-> answer]
  <2>2. o \in Operations /\ o.kind = "commit"
    BY DEF Operations, CommitOps, TypeOK
  <2>3. ops' = Append(ops, o) /\ UNCHANGED <<rows, polygons>>
    BY <1>12, <2>1 DEF PushAnswered
  <2> HIDE DEF o
  <2> QED BY <1>10, <2>2, <2>3
<1>13. ASSUME PushFailed \/ UNCHANGED vars PROVE PolygonOK'
  BY <1>0, <1>13 DEF PushFailed, vars, PolygonOK, Mapped, Mending
<1>14. ASSUME Restart PROVE PolygonOK'
  <2>1. restarted' /\ ops' = << >> /\ polygons' = [i \in Ids |-> NoRow]
    BY <1>14 DEF Restart
  <2> QED BY <2>1, RangeOfOne DEF PolygonOK, Mapped
<1> QED
  BY <1>1, <1>2, <1>3, <1>4, <1>5, <1>6, <1>7, <1>8, <1>9, <1>11, <1>12, <1>13, <1>14
  DEF Next, Peers, User, Server, Exec

\* As long as no id is used twice, an idle table has for every row the polygon of its
\* own data, however many handlers wrote it at once; only the server's version of a row
\* (:140) comes without one, and a row that was stored when the process died may have none.
THEOREM PolygonsFollowRows == Spec /\ [][FreshId]_vars => []PolygonFollowsRow
<1>1. Inv /\ [Next]_vars => Inv'
  BY NextInv
<1>2. PolygonOK => PolygonFollowsRow
  BY RangeOfOne DEF PolygonOK, Mapped, PolygonFollowsRow, Mending, Idle
<1>3. Inv /\ PolygonOK /\ [FreshId]_vars /\ [Next]_vars => PolygonOK'
  <2>1. ASSUME PolygonOK, UNCHANGED vars PROVE PolygonOK'
    BY <2>1 DEF vars, history, PolygonOK, Mapped, Mending
  <2> QED BY <2>1, PolygonStep
<1> QED BY <1>1, <1>2, <1>3, InitInv, PolygonInit, PTL DEF Spec
=============================================================================
