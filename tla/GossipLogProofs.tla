--------------------------- MODULE GossipLogProofs ---------------------------
(***************************************************************************)
(* Proofs about GossipLog for every set of messages, every dependency      *)
(* graph and every capacity of the channel.                                *)
(*                                                                         *)
(* The inductive invariant adds three facts no property states: the log is *)
(* exactly what was recorded or emitted, nothing pending was emitted, and  *)
(* what was read followed by what waits in the channel is the line of all  *)
(* emissions but the dropped ones, itself in causal order.                 *)
(***************************************************************************)
EXTENDS GossipLog, SequenceTheorems, TLAPS

\* Where the messages of the log come from.
LogHistory ==
  /\ log = sent \union Range(emitted)
  /\ pending \intersect Range(emitted) = {}

\* Each message of a sequence comes behind what it depends on, or that is in base.
Ordered(s, base) ==
  \A i \in DOMAIN s : prev[s[i]] \subseteq base \union {s[j] : j \in 1 .. (i - 1)}

\* What left the log towards the clients, read or not.
Line == read \o outChan

LineOK ==
  /\ Ordered(Line, sent \union dropped)
  /\ log \subseteq sent \union dropped \union Range(Line)

IInv ==
  /\ TypeOK
  /\ LogHistory
  /\ LineOK
  /\ CausallyClosed
  /\ NothingReadyIsPending
  /\ HeadsCoverTips

\* What Append does to the type and the range of a sequence.
LEMMA AppendRange ==
  ASSUME NEW S, NEW s \in Seq(S), NEW m \in S
  PROVE  /\ Append(s, m) \in Seq(S)
         /\ Len(Append(s, m)) = Len(s) + 1
         /\ Range(Append(s, m)) = Range(s) \union {m}
<1>1. /\ Append(s, m) \in Seq(S)
      /\ Len(Append(s, m)) = Len(s) + 1
      /\ Len(s) \in Nat
  OBVIOUS
<1>2. DOMAIN Append(s, m) = 1 .. (Len(s) + 1) /\ DOMAIN s = 1 .. Len(s)
  BY <1>1
<1>3. \A i \in 1 .. Len(s) : Append(s, m)[i] = s[i]
  OBVIOUS
<1>4. Append(s, m)[Len(s) + 1] = m
  OBVIOUS
<1> QED
  BY <1>1, <1>2, <1>3, <1>4 DEF Range

\* A sequence stays ordered with a message whose dependencies are in it.
LEMMA OrderedAppend ==
  ASSUME NEW s \in Seq(Msg), NEW m \in Msg, NEW b, Ordered(s, b),
         prev[m] \subseteq b \union Range(s)
  PROVE  Ordered(Append(s, m), b)
<1> DEFINE t == Append(s, m)
           n == Len(s)
<1>1. /\ n \in Nat /\ DOMAIN s = 1 .. n /\ DOMAIN t = 1 .. (n + 1)
      /\ \A i \in 1 .. n : t[i] = s[i]
      /\ t[n + 1] = m
  BY AppendProperties, LenProperties
<1> HIDE DEF t, n
<1> SUFFICES ASSUME NEW i \in 1 .. (n + 1)
             PROVE  prev[t[i]] \subseteq b \union {t[j] : j \in 1 .. (i - 1)}
  BY <1>1 DEF Ordered, t
<1>2. CASE i = n + 1
  <2>1. Range(s) = {t[j] : j \in 1 .. n}
    BY <1>1 DEF Range
  <2> QED BY <1>1, <1>2, <2>1
<1>3. CASE i \in 1 .. n
  <2>1. prev[s[i]] \subseteq b \union {s[j] : j \in 1 .. (i - 1)}
    BY <1>1, <1>3 DEF Ordered
  <2>2. \A j \in 1 .. (i - 1) : j \in 1 .. n /\ t[j] = s[j]
    BY <1>1, <1>3
  <2> QED BY <1>1, <1>3, <2>1, <2>2
<1> QED BY <1>1, <1>2, <1>3

\* What is emitted joins the end of the line, what is read leaves the line as it is.
LEMMA LineAppend ==
  ASSUME NEW r \in Seq(Msg), NEW o \in Seq(Msg), NEW m \in Msg
  PROVE  r \o Append(o, m) = Append(r \o o, m)
<1>1. <<m>> \in Seq(Msg) /\ r \o o \in Seq(Msg)
  BY ConcatProperties
<1>2. r \o Append(o, m) = r \o (o \o <<m>>) /\ Append(r \o o, m) = (r \o o) \o <<m>>
  BY <1>1, AppendIsConcat
<1> QED BY <1>1, <1>2, ConcatAssociative

LEMMA LineRead ==
  ASSUME NEW r \in Seq(Msg), NEW o \in Seq(Msg), o /= << >>
  PROVE  Append(r, Head(o)) \o Tail(o) = r \o o
<1>1. Head(o) \in Msg /\ Tail(o) \in Seq(Msg) /\ <<Head(o)>> \in Seq(Msg)
  BY HeadTailProperties
<1>2. Append(r, Head(o)) = r \o <<Head(o)>>
  BY <1>1, AppendIsConcat
<1>3. <<Head(o)>> \o Tail(o) = o
  <2>1. <<Head(o)>> \o Tail(o) \in Seq(Msg)
    BY <1>1, ConcatProperties
  <2> QED BY <1>1, <2>1, HeadTailProperties, ConcatProperties, SeqEqual, LenProperties
<1> QED BY <1>1, <1>2, <1>3, ConcatAssociative

\* An emission keeps the line in order: it joins its end or is dropped.
LEMMA EmitKeepsLine ==
  ASSUME TypeOK, LineOK, NEW m \in Msg, Apply(m), CanApply(m), UNCHANGED <<prev, sent, read>>
  PROVE  LineOK'
<1> USE DEF TypeOK
<1>1. Line \in Seq(Msg)
  BY ConcatProperties DEF Line
<1>2. log' = log \union {m} /\ prev[m] \subseteq sent \union dropped \union Range(Line)
  BY DEF Apply, CanApply, LineOK
<1>3. CASE Len(outChan) < ChanCap
  <2> DEFINE longer == Append(outChan, m)
  <2>1. Line' = Append(Line, m) /\ dropped' = dropped
    <3>1. read' = read /\ outChan' = longer /\ dropped' = dropped
      BY <1>3 DEF Apply, Emit
    <3>2. read \o longer = Append(read \o outChan, m)
      BY LineAppend
    <3> QED BY <3>1, <3>2 DEF Line
  <2>2. Ordered(Append(Line, m), sent \union dropped)
    BY <1>1, <1>2, OrderedAppend DEF LineOK
  <2>3. Range(Append(Line, m)) = Range(Line) \union {m}
    BY <1>1, AppendRange
  <2>4. Ordered(Line, sent \union dropped)'
    BY <2>1, <2>2 DEF Ordered
  <2> QED BY <1>2, <2>1, <2>3, <2>4 DEF LineOK
<1>4. CASE ~(Len(outChan) < ChanCap)
  <2>1. Line' = Line /\ dropped' = dropped \union {m}
    BY <1>4 DEF Apply, Emit, Line
  <2>2. Ordered(Line, sent \union dropped)'
    BY <2>1 DEF LineOK, Ordered
  <2> QED BY <1>2, <2>1, <2>2 DEF LineOK
<1> QED BY <1>3, <1>4

\* Heads still cover the tips when m enters the log and its parents leave.
LEMMA TipsAfterUpdate ==
  ASSUME HeadsCoverTips, NEW m, log' = log \union {m}, UpdateHeads(m), prev' = prev
  PROVE  HeadsCoverTips'
  BY DEF HeadsCoverTips, UpdateHeads

\* applyLocked keeps everything but the mutex conjunct, for a message that is
\* not yet emitted and whose dependencies are in the log.
LEMMA ApplyKeeps ==
  ASSUME IInv, NEW m \in Msg, Apply(m), CanApply(m), m \notin Range(emitted),
         prev' = prev, sent' = sent
  PROVE  /\ log' \subseteq Msg /\ pending' \subseteq Msg /\ heads' \subseteq Msg
         /\ outChan' \in Seq(Msg) /\ Len(outChan') <= ChanCap
         /\ emitted' \in Seq(Msg) /\ dropped' \subseteq Msg
         /\ LogHistory' /\ CausallyClosed' /\ HeadsCoverTips'
<1> USE DEF IInv, TypeOK
<1>1. log' = log \union {m} /\ pending' = pending \ {m} /\ UpdateHeads(m)
      /\ emitted' = Append(emitted, m)
  BY DEF Apply, Emit
<1>2. emitted' \in Seq(Msg) /\ Range(emitted') = Range(emitted) \union {m}
  BY <1>1, AppendRange
<1>3. log' \subseteq Msg /\ pending' \subseteq Msg /\ heads' \subseteq Msg
  BY <1>1 DEF UpdateHeads
<1>4. outChan' \in Seq(Msg) /\ Len(outChan') <= ChanCap /\ dropped' \subseteq Msg
  <2>1. CASE Len(outChan) < ChanCap
    <3>1. outChan' = Append(outChan, m) /\ dropped' = dropped
      BY <2>1 DEF Apply, Emit
    <3>2. outChan' \in Seq(Msg) /\ Len(outChan') = Len(outChan) + 1
      BY <3>1, AppendRange
    <3>3. Len(outChan) \in Nat /\ ChanCap \in Nat
      BY GossipAssumption
    <3> QED BY <2>1, <3>1, <3>2, <3>3
  <2>2. CASE ~(Len(outChan) < ChanCap)
    BY <2>2 DEF Apply, Emit
  <2> QED BY <2>1, <2>2
<1>5. LogHistory'
  BY <1>1, <1>2 DEF LogHistory
<1>6. CausallyClosed'
  BY <1>1 DEF CausallyClosed, CanApply
<1>7. HeadsCoverTips'
  BY <1>1, TipsAfterUpdate
<1> QED
  BY <1>2, <1>3, <1>4, <1>5, <1>6, <1>7

LEMMA InitIInv == Init => IInv
<1>1. ASSUME Init PROVE IInv
  <2>1. TypeOK
    BY <1>1, GossipAssumption DEF Init, TypeOK
  <2>2. Range(<< >>) = {}
    BY DEF Range
  <2>3. LogHistory
    BY <1>1, <2>2 DEF Init, LogHistory
  <2>4. LineOK
    <3>1. Line = << >>
      BY <1>1, ConcatEmptySeq, EmptySeq DEF Init, Line
    <3> QED BY <1>1, <3>1 DEF Init, LineOK, Ordered
  <2> QED
    BY <1>1, <2>1, <2>3, <2>4
    DEF Init, IInv, CausallyClosed, NothingReadyIsPending, HeadsCoverTips
<1> QED BY <1>1

LEMMA NextIInv == IInv /\ [Next]_vars => IInv'
<1> SUFFICES ASSUME IInv, [Next]_vars PROVE IInv'
  OBVIOUS
<1> USE DEF IInv
<1>1. ASSUME NEW m \in Msg, ReceiveReady(m) PROVE IInv'
  <2>1. m \notin Range(emitted)
    BY <1>1 DEF ReceiveReady, Unknown, LogHistory
  <2>2. mu' = "scan" /\ UNCHANGED <<prev, sent, read>> /\ Apply(m) /\ CanApply(m)
    BY <1>1 DEF ReceiveReady, Unknown
  <2>3. /\ log' \subseteq Msg /\ pending' \subseteq Msg /\ heads' \subseteq Msg
        /\ outChan' \in Seq(Msg) /\ Len(outChan') <= ChanCap
        /\ emitted' \in Seq(Msg) /\ dropped' \subseteq Msg
        /\ LogHistory' /\ CausallyClosed' /\ HeadsCoverTips'
    BY <2>1, <2>2, ApplyKeeps
  <2>4. LineOK'
    BY <2>2, EmitKeepsLine
  <2> QED
    BY <2>2, <2>3, <2>4 DEF TypeOK, NothingReadyIsPending
<1>2. ASSUME NEW m \in Msg, ReceiveEarly(m) PROVE IInv'
  <2> USE <1>2 DEF ReceiveEarly, Unknown
  <2>1. TypeOK'
    BY DEF TypeOK
  <2>2. LogHistory'
    BY DEF LogHistory
  <2>3. NothingReadyIsPending'
    BY DEF NothingReadyIsPending, CanApply
  <2>4. CausallyClosed' /\ HeadsCoverTips'
    BY DEF CausallyClosed, HeadsCoverTips
  <2>5. LineOK'
    BY DEF LineOK, Line, Ordered
  <2> QED BY <2>1, <2>2, <2>3, <2>4, <2>5
<1>3. ASSUME NEW m \in Own, RecordSent(m) PROVE IInv'
  <2> USE <1>3 DEF RecordSent
  <2>1. m \in Msg
    BY GossipAssumption
  <2>2. TypeOK'
    BY <2>1 DEF TypeOK, UpdateHeads
  <2>3. LogHistory'
    BY DEF LogHistory
  <2>4. CausallyClosed'
    BY DEF CausallyClosed
  <2>5. HeadsCoverTips'
    BY TipsAfterUpdate
  <2>6. NothingReadyIsPending'
    BY DEF NothingReadyIsPending
  <2>7. LineOK'
    BY DEF LineOK, Line, Ordered
  <2> QED BY <2>2, <2>3, <2>4, <2>5, <2>6, <2>7
<1>4. ASSUME NEW m \in Msg, ScanApply(m) PROVE IInv'
  <2>1. m \notin Range(emitted)
    BY <1>4 DEF ScanApply, LogHistory
  <2>2. mu' = "scan" /\ UNCHANGED <<prev, sent, read>> /\ Apply(m) /\ CanApply(m)
    BY <1>4 DEF ScanApply
  <2>3. /\ log' \subseteq Msg /\ pending' \subseteq Msg /\ heads' \subseteq Msg
        /\ outChan' \in Seq(Msg) /\ Len(outChan') <= ChanCap
        /\ emitted' \in Seq(Msg) /\ dropped' \subseteq Msg
        /\ LogHistory' /\ CausallyClosed' /\ HeadsCoverTips'
    BY <2>1, <2>2, ApplyKeeps
  <2>4. LineOK'
    BY <2>2, EmitKeepsLine
  <2> QED
    BY <2>2, <2>3, <2>4 DEF TypeOK, NothingReadyIsPending
<1>5. CASE ScanDone
  <2> USE <1>5 DEF ScanDone
  <2>1. TypeOK' /\ LogHistory'
    BY DEF TypeOK, LogHistory
  <2>2. NothingReadyIsPending'
    BY DEF NothingReadyIsPending, CanApply
  <2>3. CausallyClosed' /\ HeadsCoverTips'
    BY DEF CausallyClosed, HeadsCoverTips
  <2>4. LineOK'
    BY DEF LineOK, Line, Ordered
  <2> QED BY <2>1, <2>2, <2>3, <2>4
<1>6. CASE Read
  <2> USE <1>6 DEF Read, logVars
  <2>1. outChan' \in Seq(Msg) /\ Len(outChan') <= ChanCap
    <3>1. /\ Tail(outChan) \in Seq(Msg)
          /\ Len(Tail(outChan)) = Len(outChan) - 1
          /\ Len(outChan) \in Nat
      BY DEF TypeOK
    <3> QED BY <3>1, GossipAssumption DEF TypeOK
  <2>2. read' \in Seq(Msg)
    BY DEF TypeOK
  <2>3. TypeOK' /\ LogHistory'
    BY <2>1, <2>2 DEF TypeOK, LogHistory
  <2>4. NothingReadyIsPending'
    BY DEF NothingReadyIsPending, CanApply
  <2>5. CausallyClosed' /\ HeadsCoverTips'
    BY DEF CausallyClosed, HeadsCoverTips
  <2>6. LineOK'
    <3>1. Line' = Line
      BY LineRead DEF TypeOK, Line
    <3> QED BY <3>1 DEF LineOK, Ordered
  <2> QED BY <2>3, <2>4, <2>5, <2>6
<1>7. CASE UNCHANGED vars
  BY <1>7, SMTT(30) DEF vars, TypeOK, LogHistory, LineOK, Line, Ordered, CausallyClosed, NothingReadyIsPending,
              HeadsCoverTips, CanApply
<1> QED
  BY <1>1, <1>2, <1>3, <1>4, <1>5, <1>6, <1>7 DEF Next, Receive, Scan

\* The inductive invariant holds in every reachable state.
THEOREM Invariance == Spec => []IInv
  BY InitIInv, NextIInv, PTL DEF Spec

\* The variables keep their types.
THEOREM TypeCorrect == Spec => []TypeOK
<1>1. IInv => TypeOK
  BY DEF IInv
<1> QED BY <1>1, Invariance, PTL

\* A message of another node never enters the log before its dependencies.
THEOREM LogIsCausallyClosed == Spec => []CausallyClosed
<1>1. IInv => CausallyClosed
  BY DEF IInv
<1> QED BY <1>1, Invariance, PTL

\* No caller finds a pending message that could already be applied.
THEOREM NoReadyMessageWaits == Spec => []NothingReadyIsPending
<1>1. IInv => NothingReadyIsPending
  BY DEF IInv
<1> QED BY <1>1, Invariance, PTL

\* Every tip of the log is among the heads.
THEOREM TipsAreAnnounced == Spec => []HeadsCoverTips
<1>1. IInv => HeadsCoverTips
  BY DEF IInv
<1> QED BY <1>1, Invariance, PTL

\* What a client reads is in causal order, except behind a dropped message: the
\* channel hands on the emissions in their order.
THEOREM ReadsAreCausal == Spec => []ReadInCausalOrder
<1>1. IInv => ReadInCausalOrder
  <2> SUFFICES ASSUME IInv, NEW i \in DOMAIN read
               PROVE  prev[read[i]] \subseteq sent \union dropped \union {read[j] : j \in 1 .. (i - 1)}
    BY DEF ReadInCausalOrder
  <2>1. read \in Seq(Msg) /\ outChan \in Seq(Msg) /\ Line \in Seq(Msg)
    BY ConcatProperties DEF IInv, TypeOK, Line
  <2>2. DOMAIN read = 1 .. Len(read) /\ Len(read) \in Nat /\ DOMAIN Line = 1 .. Len(Line)
        /\ Len(Line) = Len(read) + Len(outChan) /\ Len(outChan) \in Nat
    BY <2>1, LenProperties, ConcatProperties DEF Line
  <2>3. \A j \in 1 .. Len(read) : Line[j] = read[j] /\ j \in DOMAIN Line
    BY <2>1, <2>2, ConcatProperties DEF Line
  <2>4. prev[Line[i]] \subseteq sent \union dropped \union {Line[j] : j \in 1 .. (i - 1)}
    BY <2>2, <2>3 DEF IInv, LineOK, Ordered
  <2>5. \A j \in 1 .. (i - 1) : Line[j] = read[j]
    BY <2>2, <2>3
  <2> QED BY <2>2, <2>3, <2>4, <2>5
<1> QED BY <1>1, Invariance, PTL

\* The log and the set of known messages never lose a message.
THEOREM NoMessageForgotten == Spec => NothingForgotten
<1>1. [Next]_vars => [log \subseteq log' /\ pending \subseteq pending' \union log']_vars
  BY DEF Next, Receive, ReceiveReady, Unknown, ReceiveEarly, RecordSent, Scan, ScanApply,
         ScanDone, Read, Apply, logVars, vars
<1> QED BY <1>1, PTL DEF Spec, NothingForgotten

\* GossipLog implements CausalDelivery: RecordSent is Submit, every
\* application is Deliver, everything else stutters.
THEOREM ImplementsCausalDelivery == Spec => ImplementsDelivery
<1>1. Init => Delivery!DInit
  BY DEF Init, Delivery!DInit
<1>2. IInv /\ [Next]_vars => [Delivery!DNext]_(Delivery!dvars)
  <2> SUFFICES ASSUME IInv, [Next]_vars
               PROVE  [Delivery!DNext]_(Delivery!dvars)
    OBVIOUS
  <2> USE DEF IInv, LogHistory, Range, Delivery!Range
  <2>1. ASSUME NEW m \in Msg, ReceiveReady(m) PROVE Delivery!Deliver(m)
    BY <2>1 DEF ReceiveReady, Unknown, Apply, CanApply, Delivery!Deliver
  <2>2. ASSUME NEW m \in Own, RecordSent(m) PROVE Delivery!Submit(m)
    BY <2>2 DEF RecordSent, Delivery!Submit
  <2>3. ASSUME NEW m \in Msg, ScanApply(m) PROVE Delivery!Deliver(m)
    BY <2>3 DEF ScanApply, Apply, CanApply, Delivery!Deliver
  <2>4. ASSUME NEW m \in Msg, ReceiveEarly(m) PROVE UNCHANGED Delivery!dvars
    BY <2>4 DEF ReceiveEarly, Delivery!dvars
  <2>5. CASE ScanDone
    BY <2>5 DEF ScanDone, Delivery!dvars
  <2>6. CASE Read
    BY <2>6 DEF Read, Delivery!dvars
  <2>7. CASE UNCHANGED vars
    BY <2>7 DEF vars, Delivery!dvars
  <2> QED
    BY <2>1, <2>2, <2>3, <2>4, <2>5, <2>6, <2>7, GossipAssumption
    DEF Next, Receive, Scan, Delivery!DNext
<1> QED
  BY <1>1, <1>2, Invariance, PTL DEF Spec, ImplementsDelivery, Delivery!DSpec

\* What causal delivery keeps: each message once, and behind what it depends on.
DeliveryInv == Delivery!DTypeOK /\ Delivery!AtMostOnce /\ Delivery!InCausalOrder

\* Appending a message keeps what was there and puts the new one last.
LEMMA AppendPositions ==
  ASSUME NEW s \in Seq(Msg), NEW m \in Msg
  PROVE  /\ Append(s, m) \in Seq(Msg)
         /\ DOMAIN Append(s, m) = 1 .. (Len(s) + 1)
         /\ DOMAIN s = 1 .. Len(s)
         /\ Len(s) \in Nat
         /\ \A i \in 1 .. Len(s) : Append(s, m)[i] = s[i]
         /\ Append(s, m)[Len(s) + 1] = m
         /\ Range(Append(s, m)) = Range(s) \union {m}
<1>1. /\ Append(s, m) \in Seq(Msg)
      /\ Len(Append(s, m)) = Len(s) + 1
      /\ Len(s) \in Nat
      /\ Range(Append(s, m)) = Range(s) \union {m}
  BY AppendRange
<1>2. DOMAIN Append(s, m) = 1 .. (Len(s) + 1) /\ DOMAIN s = 1 .. Len(s)
  BY <1>1
<1>3. \A i \in 1 .. Len(s) : Append(s, m)[i] = s[i]
  OBVIOUS
<1>4. Append(s, m)[Len(s) + 1] = m
  OBVIOUS
<1> QED
  BY <1>1, <1>2, <1>3, <1>4

\* Both promises hold of every behaviour of the abstract specification: each
\* message is handed over once and behind all its dependencies.
THEOREM CausalOnceDelivery ==
  Delivery!DSpec => [](Delivery!AtMostOnce /\ Delivery!InCausalOrder)
<1>1. Delivery!DInit => DeliveryInv
  BY DEF Delivery!DInit, DeliveryInv, Delivery!DTypeOK, Delivery!AtMostOnce, Delivery!InCausalOrder
<1>2. DeliveryInv /\ [Delivery!DNext]_(Delivery!dvars) => DeliveryInv'
  <2> SUFFICES ASSUME DeliveryInv, [Delivery!DNext]_(Delivery!dvars) PROVE DeliveryInv'
    OBVIOUS
  <2> USE DEF DeliveryInv, Delivery!DTypeOK
  <2>1. CASE UNCHANGED Delivery!dvars
    BY <2>1 DEF Delivery!dvars, Delivery!AtMostOnce, Delivery!InCausalOrder
  <2>2. ASSUME NEW m \in Msg, Delivery!Submit(m) PROVE DeliveryInv'
    BY <2>2 DEF Delivery!Submit, Delivery!AtMostOnce, Delivery!InCausalOrder
  <2>3. ASSUME NEW m \in Msg, Delivery!Deliver(m) PROVE DeliveryInv'
    <3> DEFINE n == Len(emitted)
    <3>1. /\ emitted' \in Seq(Msg)
          /\ n \in Nat
          /\ DOMAIN emitted' = 1 .. (n + 1) /\ DOMAIN emitted = 1 .. n
          /\ \A i \in 1 .. n : emitted'[i] = emitted[i]
          /\ emitted'[n + 1] = m
      BY <2>3, AppendPositions DEF Delivery!Deliver
    <3>2. m \notin Range(emitted) /\ UNCHANGED <<prev, sent>>
          /\ prev[m] \subseteq sent \union Range(emitted)
      BY <2>3 DEF Delivery!Deliver, Range, Delivery!Range
    <3> HIDE DEF n
    <3>3. \A i \in 1 .. n : emitted[i] /= m
      BY <3>1, <3>2 DEF Range
    <3>4. Delivery!AtMostOnce'
      BY <3>1, <3>3 DEF Delivery!AtMostOnce
    <3>5. ASSUME NEW i \in 1 .. (n + 1)
          PROVE prev'[emitted'[i]] \subseteq
                  sent' \union {emitted'[j] : j \in 1 .. (i - 1)}
      <4>1. CASE i = n + 1
        <5>1. Range(emitted) = {emitted[j] : j \in 1 .. n}
          BY <3>1 DEF Range
        <5>2. {emitted'[j] : j \in 1 .. n} = {emitted[j] : j \in 1 .. n}
          BY <3>1
        <5> QED BY <3>1, <3>2, <4>1, <5>1, <5>2
      <4>2. CASE i \in 1 .. n
        <5>1. prev[emitted[i]] \subseteq sent \union {emitted[j] : j \in 1 .. (i - 1)}
          BY <3>1, <4>2 DEF Delivery!InCausalOrder
        <5>2. \A j \in 1 .. (i - 1) : j \in 1 .. n /\ emitted'[j] = emitted[j]
          BY <3>1, <4>2
        <5>3. {emitted'[j] : j \in 1 .. (i - 1)} = {emitted[j] : j \in 1 .. (i - 1)}
          BY <5>2
        <5> QED BY <3>1, <3>2, <4>2, <5>1, <5>3
      <4> QED BY <3>1, <4>1, <4>2
    <3>6. Delivery!InCausalOrder'
      BY <3>1, <3>5 DEF Delivery!InCausalOrder
    <3> QED BY <3>1, <3>2, <3>4, <3>6
  <2> QED
    BY <2>1, <2>2, <2>3 DEF Delivery!DNext
<1>3. DeliveryInv => Delivery!AtMostOnce /\ Delivery!InCausalOrder
  BY DEF DeliveryInv
<1> QED
  BY <1>1, <1>2, <1>3, PTL DEF Delivery!DSpec

\* What the log emits is emitted once and in causal order.
THEOREM EmissionsAreCausal ==
  Spec => [](Delivery!AtMostOnce /\ Delivery!InCausalOrder)
<1>1. ImplementsDelivery => [](Delivery!AtMostOnce /\ Delivery!InCausalOrder)
  BY CausalOnceDelivery DEF ImplementsDelivery
<1> QED BY <1>1, ImplementsCausalDelivery, PTL
=============================================================================
