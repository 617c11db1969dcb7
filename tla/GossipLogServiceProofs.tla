------------------------ MODULE GossipLogServiceProofs ------------------------
(***************************************************************************)
(* Proofs about GossipLogService for every set of messages and every       *)
(* dependency graph.  No induction over the graph is needed for            *)
(* OwnCoversLog: the invariant HeadsGenerate says it of every set that is  *)
(* closed under parents, and one step of the log preserves it.             *)
(***************************************************************************)
EXTENDS GossipLogService, TLAPS

\* The log is what was recorded or emitted; what waits is in neither and is
\* not made here.
LogHistory ==
  /\ log = sent \union Range(emitted)
  /\ pending \intersect log = {}
  /\ pending \intersect Own = {}

\* No message is in the log without its dependencies, own ones included.
CausallyClosed == \A m \in log : prev[m] \subseteq log

\* The rest of the snapshot still waits and is still ready.
SnapshotReady ==
  /\ toApply \subseteq {m \in pending : CanApply(m)}
  /\ turn = "idle" => toApply = {}

\* A set with the parents of its members that has the heads has the log.
HeadsGenerate ==
  \A S \in SUBSET Msg :
    (heads \subseteq S /\ \A y \in S : prev[y] \subseteq S) => log \subseteq S

IInv ==
  /\ TypeOK /\ LogHistory /\ CausallyClosed /\ SnapshotReady
  /\ HeadsAreTips /\ HeadsGenerate
  /\ NothingReadyIsPending /\ WaitedForIsReported

\* What Append does to the type and the range of a sequence.
LEMMA AppendRange ==
  ASSUME NEW S, NEW s \in Seq(S), NEW m \in S
  PROVE  Append(s, m) \in Seq(S) /\ Range(Append(s, m)) = Range(s) \union {m}
<1>1. /\ Append(s, m) \in Seq(S)
      /\ Len(Append(s, m)) = Len(s) + 1
      /\ Len(s) \in Nat
  OBVIOUS
<1>2. DOMAIN Append(s, m) = 1 .. (Len(s) + 1) /\ DOMAIN s = 1 .. Len(s)
  BY <1>1
<1>3. \A i \in 1 .. Len(s) : Append(s, m)[i] = s[i]
  OBVIOUS
<1>4. Append(s, m)[Len(s) + 1] = m
  OBVIOUS
<1> QED
  BY <1>1, <1>2, <1>3, <1>4 DEF Range

\* A message that enters the log on top of it keeps the log's shape.
LEMMA EnterLog ==
  ASSUME CausallyClosed, HeadsAreTips, HeadsGenerate,
         NEW m \in Msg, m \notin log, prev[m] \subseteq log,
         log' = log \union {m}, UpdateHeads(m), prev' = prev
  PROVE  CausallyClosed' /\ HeadsAreTips' /\ HeadsGenerate'
<1>1. CausallyClosed'
  BY DEF CausallyClosed
<1>2. HeadsAreTips'
  <2>1. \A n \in log' : m \notin prev[n]
    BY DEF CausallyClosed
  <2>2. ASSUME NEW x PROVE x \in heads' <=> x \in log' /\ \A n \in log' : x \notin prev[n]
    <3>1. CASE x = m
      BY <2>1, <3>1 DEF UpdateHeads
    <3>2. CASE x /= m
      BY <3>2 DEF UpdateHeads, HeadsAreTips
    <3> QED BY <3>1, <3>2
  <2> QED BY <2>2 DEF HeadsAreTips
<1>3. HeadsGenerate'
  <2> SUFFICES ASSUME NEW S \in SUBSET Msg, heads' \subseteq S,
                      \A y \in S : prev[y] \subseteq S
               PROVE  log' \subseteq S
    BY DEF HeadsGenerate
  <2>1. m \in S /\ prev[m] \subseteq S
    BY DEF UpdateHeads
  <2>2. heads \subseteq S
    BY <2>1 DEF UpdateHeads
  <2> QED BY <2>1, <2>2 DEF HeadsGenerate
<1> QED BY <1>1, <1>2, <1>3

\* _apply of a message that is new to the log and ready.
LEMMA ApplyKeeps ==
  ASSUME IInv, NEW m \in Msg, Apply(m), CanApply(m), m \notin log,
         prev' = prev, sent' = sent, reported' = reported
  PROVE  /\ log' \subseteq Msg /\ pending' \subseteq Msg /\ heads' \subseteq Msg
         /\ emitted' \in Seq(Msg)
         /\ LogHistory' /\ CausallyClosed' /\ HeadsAreTips' /\ HeadsGenerate'
         /\ WaitedForIsReported'
<1> USE DEF IInv, TypeOK
<1>1. log' = log \union {m} /\ pending' = pending \ {m} /\ UpdateHeads(m)
      /\ emitted' = Append(emitted, m)
  BY DEF Apply
<1>2. emitted' \in Seq(Msg) /\ Range(emitted') = Range(emitted) \union {m}
  BY <1>1, AppendRange
<1>3. log' \subseteq Msg /\ pending' \subseteq Msg /\ heads' \subseteq Msg
  BY <1>1 DEF UpdateHeads
<1>4. CausallyClosed' /\ HeadsAreTips' /\ HeadsGenerate'
  BY <1>1, EnterLog DEF CanApply
<1>5. LogHistory'
  BY <1>1, <1>2 DEF LogHistory
<1>6. WaitedForIsReported'
  BY <1>1 DEF WaitedForIsReported
<1> QED
  BY <1>2, <1>3, <1>4, <1>5, <1>6

LEMMA InitIInv == Init => IInv
<1> SUFFICES ASSUME Init PROVE IInv
  OBVIOUS
<1>1. TypeOK
  BY ServiceAssumption DEF Init, TypeOK
<1>2. Range(<< >>) = {}
  BY DEF Range
<1>3. LogHistory
  BY <1>2 DEF Init, LogHistory
<1> QED
  BY <1>1, <1>3
  DEF Init, IInv, CausallyClosed, SnapshotReady, HeadsAreTips, HeadsGenerate,
      NothingReadyIsPending, WaitedForIsReported

LEMMA NextIInv == IInv /\ [Next]_vars => IInv'
<1> SUFFICES ASSUME IInv, [Next]_vars PROVE IInv'
  OBVIOUS
<1> USE DEF IInv
<1>1. ASSUME NEW m \in Msg, ReceiveReady(m) PROVE IInv'
  <2>1. /\ turn' = "scan" /\ UNCHANGED <<prev, toApply, sent, reported>>
        /\ Apply(m) /\ CanApply(m) /\ m \notin log /\ turn = "idle"
    BY <1>1 DEF ReceiveReady, Incoming
  <2>2. /\ log' \subseteq Msg /\ pending' \subseteq Msg /\ heads' \subseteq Msg
        /\ emitted' \in Seq(Msg)
        /\ LogHistory' /\ CausallyClosed' /\ HeadsAreTips' /\ HeadsGenerate'
        /\ WaitedForIsReported'
    BY <2>1, ApplyKeeps
  <2>3. SnapshotReady'
    BY <2>1 DEF SnapshotReady
  <2> QED
    BY <2>1, <2>2, <2>3 DEF TypeOK, NothingReadyIsPending
<1>2. ASSUME NEW m \in Msg, ReceiveEarly(m) PROVE IInv'
  <2> USE <1>2 DEF ReceiveEarly, Incoming
  <2>1. TypeOK'
    BY ServiceAssumption DEF TypeOK, MissingDeps
  <2>2. LogHistory'
    BY DEF LogHistory
  <2>3. NothingReadyIsPending' /\ SnapshotReady'
    BY DEF NothingReadyIsPending, SnapshotReady, CanApply
  <2>4. CausallyClosed' /\ HeadsAreTips' /\ HeadsGenerate'
    BY DEF CausallyClosed, HeadsAreTips, HeadsGenerate
  <2>5. WaitedForIsReported'
    BY DEF WaitedForIsReported, MissingDeps
  <2> QED BY <2>1, <2>2, <2>3, <2>4, <2>5
<1>3. ASSUME NEW m \in Own, RecordSent(m) PROVE IInv'
  <2> USE <1>3 DEF RecordSent
  <2>1. m \in Msg
    BY ServiceAssumption
  <2>2. TypeOK'
    BY <2>1 DEF TypeOK, UpdateHeads
  <2>3. prev[m] \subseteq log
    BY DEF HeadsAreTips
  <2>4. CausallyClosed' /\ HeadsAreTips' /\ HeadsGenerate'
    BY <2>1, <2>3, EnterLog
  <2>5. m \notin pending
    BY DEF LogHistory
  <2>6. LogHistory'
    BY <2>5 DEF LogHistory
  <2>7. SnapshotReady' /\ NothingReadyIsPending' /\ WaitedForIsReported'
    BY DEF SnapshotReady, NothingReadyIsPending, WaitedForIsReported, CanApply
  <2> QED BY <2>2, <2>4, <2>6, <2>7
<1>4. CASE StartRound
  <2> USE <1>4 DEF StartRound
  <2>1. TypeOK' /\ LogHistory'
    BY DEF TypeOK, LogHistory
  <2>2. SnapshotReady' /\ NothingReadyIsPending' /\ WaitedForIsReported'
    BY DEF SnapshotReady, NothingReadyIsPending, WaitedForIsReported, CanApply
  <2>3. CausallyClosed' /\ HeadsAreTips' /\ HeadsGenerate'
    BY DEF CausallyClosed, HeadsAreTips, HeadsGenerate
  <2> QED BY <2>1, <2>2, <2>3
<1>5. ASSUME NEW m \in Msg, ApplyNext(m) PROVE IInv'
  <2>1. /\ turn = "scan" /\ turn' = "scan" /\ m \in toApply
        /\ toApply' = toApply \ {m}
        /\ Apply(m) /\ UNCHANGED <<prev, sent, reported>>
    BY <1>5 DEF ApplyNext
  <2>2. CanApply(m) /\ m \in pending /\ m \notin log
    BY <2>1 DEF SnapshotReady, LogHistory
  <2>3. /\ log' \subseteq Msg /\ pending' \subseteq Msg /\ heads' \subseteq Msg
        /\ emitted' \in Seq(Msg)
        /\ LogHistory' /\ CausallyClosed' /\ HeadsAreTips' /\ HeadsGenerate'
        /\ WaitedForIsReported'
    BY <2>1, <2>2, ApplyKeeps
  <2>4. SnapshotReady'
    BY <2>1 DEF SnapshotReady, CanApply, Apply
  <2> QED
    BY <2>1, <2>3, <2>4 DEF TypeOK, NothingReadyIsPending
<1>6. CASE EndScan
  <2> USE <1>6 DEF EndScan
  <2>1. TypeOK' /\ LogHistory'
    BY DEF TypeOK, LogHistory
  <2>2. SnapshotReady' /\ NothingReadyIsPending' /\ WaitedForIsReported'
    BY DEF SnapshotReady, NothingReadyIsPending, WaitedForIsReported, CanApply
  <2>3. CausallyClosed' /\ HeadsAreTips' /\ HeadsGenerate'
    BY DEF CausallyClosed, HeadsAreTips, HeadsGenerate
  <2> QED BY <2>1, <2>2, <2>3
<1>7. CASE UNCHANGED vars
  BY <1>7 DEF vars, TypeOK, LogHistory, CausallyClosed, SnapshotReady, HeadsAreTips,
              HeadsGenerate, NothingReadyIsPending, WaitedForIsReported, CanApply
<1> QED
  BY <1>1, <1>2, <1>3, <1>4, <1>5, <1>6, <1>7 DEF Next, Receive, Scan

\* The inductive invariant holds in every reachable state.
THEOREM Invariance == Spec => []IInv
  BY InitIInv, NextIInv, PTL DEF Spec

\* The variables keep their types.
THEOREM TypeCorrect == Spec => []TypeOK
<1>1. IInv => TypeOK
  BY DEF IInv
<1> QED BY <1>1, Invariance, PTL

\* The heads are exactly the messages of the log without a child.
THEOREM HeadsExact == Spec => []HeadsAreTips
<1>1. IInv => HeadsAreTips
  BY DEF IInv
<1> QED BY <1>1, Invariance, PTL

\* Between two events no pending message is ready.
THEOREM NoReadyMessageWaits == Spec => []NothingReadyIsPending
<1>1. IInv => NothingReadyIsPending
  BY DEF IInv
<1> QED BY <1>1, Invariance, PTL

\* Nothing is waited for that was not handed to the sync protocol.
THEOREM MissingIsReported == Spec => []WaitedForIsReported
<1>1. IInv => WaitedForIsReported
  BY DEF IInv
<1> QED BY <1>1, Invariance, PTL

\* An own message has everything the application had applied as ancestors.
THEOREM OwnMessageCoversLog == Spec => OwnCoversLog
<1>1. IInv /\ [Next]_vars => [\A m \in sent' \ sent : log \subseteq Ancestors(m)]_vars
  <2> SUFFICES ASSUME IInv, Next, NEW m \in sent' \ sent
               PROVE  log \subseteq Ancestors(m)
    OBVIOUS
  <2>1. RecordSent(m)
    BY DEF Next, Receive, ReceiveReady, ReceiveEarly, RecordSent, Scan, StartRound,
           ApplyNext, EndScan
  <2>2. prev[m] = heads
    BY <2>1 DEF RecordSent
  <2> QED
    BY <2>2 DEF Ancestors, IInv, HeadsGenerate, TypeOK
<1> QED
  BY <1>1, Invariance, PTL DEF Spec, OwnCoversLog

\* GossipLogService implements CausalDelivery.
THEOREM ImplementsCausalDelivery == Spec => ImplementsDelivery
<1>1. Init => Delivery!DInit
  BY DEF Init, Delivery!DInit
<1>2. IInv /\ [Next]_vars => [Delivery!DNext]_(Delivery!dvars)
  <2> SUFFICES ASSUME IInv, [Next]_vars
               PROVE  [Delivery!DNext]_(Delivery!dvars)
    OBVIOUS
  <2> USE DEF IInv, LogHistory, Range, Delivery!Range
  <2>1. ASSUME NEW m \in Msg, ReceiveReady(m) PROVE Delivery!Deliver(m)
    BY <2>1 DEF ReceiveReady, Incoming, Apply, CanApply, Delivery!Deliver
  <2>2. ASSUME NEW m \in Own, RecordSent(m) PROVE Delivery!Submit(m)
    BY <2>2 DEF RecordSent, Delivery!Submit
  <2>3. ASSUME NEW m \in Msg, ApplyNext(m) PROVE Delivery!Deliver(m)
    BY <2>3 DEF ApplyNext, Apply, CanApply, SnapshotReady, Delivery!Deliver
  <2>4. ASSUME NEW m \in Msg, ReceiveEarly(m) PROVE UNCHANGED Delivery!dvars
    BY <2>4 DEF ReceiveEarly, Delivery!dvars
  <2>5. CASE StartRound \/ EndScan
    BY <2>5 DEF StartRound, EndScan, Delivery!dvars
  <2>6. CASE UNCHANGED vars
    BY <2>6 DEF vars, Delivery!dvars
  <2> QED
    BY <2>1, <2>2, <2>3, <2>4, <2>5, <2>6, ServiceAssumption
    DEF Next, Receive, Scan, Delivery!DNext
<1> QED
  BY <1>1, <1>2, Invariance, PTL DEF Spec, ImplementsDelivery, Delivery!DSpec
=============================================================================
