------------------------------ MODULE GossipLog ------------------------------
(***************************************************************************)
(* The causal message log of the Go daemon                                 *)
(* (backend/p2p-node/gossip_log.go).                                       *)
(*                                                                         *)
(* Receive and RecordSent run under one mutex.  The scan of the pending    *)
(* map is modelled one applied message at a time: while the mutex is held  *)
(* no other call enters, but the goroutine that reads outChan does not     *)
(* take the mutex, so it can drain the channel in the middle of a scan.    *)
(* An early return ("already known") changes nothing and is a stuttering   *)
(* step.                                                                   *)
(***************************************************************************)
EXTENDS Naturals, Sequences, Functions

CONSTANTS
  Msg,      \* message ids
  Own,      \* ids this daemon's application may post
  Graphs,   \* the dependency graphs considered
  ChanCap   \* capacity of outChan, 100 in main.go

ASSUME GossipAssumption ==
  /\ Own \subseteq Msg
  /\ Graphs \subseteq [Msg -> SUBSET Msg]
  /\ ChanCap \in Nat \ {0}

VARIABLES
  prev,       \* prev[m]: PrevMsgIDs of m, without the empty id
  log,        \* applied messages
  pending,    \* messages that wait for a dependency
  heads,      \* the HEADS set
  mu,         \* "free", or "scan" while tryApplyPendingLocked runs
  outChan,    \* emitted, not yet read by broadcastLoop
  sent,       \* history: messages recorded by RecordSent
  emitted,    \* history: messages applied by applyLocked, in order
  dropped,    \* history: emitted while outChan was full
  read        \* history: what broadcastLoop read, in order

logVars == <<log, pending, heads, mu>>
vars == <<prev, log, pending, heads, mu, outChan, sent, emitted, dropped, read>>

Init ==
  /\ prev \in Graphs
  /\ log = {} /\ pending = {} /\ heads = {}
  /\ mu = "free"
  /\ outChan = << >>
  /\ sent = {} /\ emitted = << >> /\ dropped = {} /\ read = << >>

----------------------------------------------------------------------------

\* Wrong: the log is not asked whether it has m.
NotPending(m) == m \notin pending

\* Receive passes over a message that is known.
Unknown(m) == m \notin log \union pending

\* Wrong: a dependency that is itself waiting counts as satisfied.
CanApplyKnown(m) == prev[m] \subseteq log \union pending

\* canApplyLocked
CanApply(m) == prev[m] \subseteq log

\* Wrong: a message whose parents have a child already is not announced.
UpdateHeadsByParent(m) ==
  heads' = IF prev[m] \subseteq heads THEN (heads \ prev[m]) \union {m} ELSE heads

\* updateHeadsLocked: the parents of m stop being heads, m becomes one.
UpdateHeads(m) == heads' = (heads \ prev[m]) \union {m}

\* The send on outChan never blocks: a full channel drops m.
Emit(m) ==
  IF Len(outChan) < ChanCap
    THEN outChan' = Append(outChan, m) /\ UNCHANGED dropped
    ELSE dropped' = dropped \union {m} /\ UNCHANGED outChan

\* applyLocked: into the log and out to the clients.
Apply(m) ==
  /\ pending' = pending \ {m}
  /\ log' = log \union {m}
  /\ UpdateHeads(m)
  /\ emitted' = Append(emitted, m)
  /\ Emit(m)

\* Receive of a message whose dependencies are all there.
ReceiveReady(m) ==
  /\ mu = "free"
  /\ Unknown(m)
  /\ CanApply(m)
  /\ Apply(m)
  /\ mu' = "scan"
  /\ UNCHANGED <<prev, sent, read>>

\* Receive of a message that has to wait.
ReceiveEarly(m) ==
  /\ mu = "free"
  /\ Unknown(m)
  /\ ~CanApply(m)
  /\ pending' = pending \union {m}
  /\ UNCHANGED <<prev, log, heads, mu, outChan, sent, emitted, dropped, read>>

\* RecordSent: no dependency is checked and nothing is emitted.
RecordSent(m) ==
  /\ mu = "free"
  /\ m \notin log
  /\ log' = log \union {m}
  /\ UpdateHeads(m)
  /\ sent' = sent \union {m}
  /\ mu' = "scan"
  /\ UNCHANGED <<prev, pending, outChan, emitted, dropped, read>>

\* One iteration of tryApplyPendingLocked: Go ranges over the map in an
\* arbitrary order, applies the first ready message and starts over.
ScanApply(m) ==
  /\ mu = "scan"
  /\ m \in pending
  /\ CanApply(m)
  /\ Apply(m)
  /\ UNCHANGED <<prev, mu, sent, read>>

\* Wrong: the scan may stop before it has found nothing.
ScanDoneEarly ==
  /\ mu = "scan" /\ mu' = "free"
  /\ UNCHANGED <<prev, log, pending, heads, outChan, sent, emitted, dropped, read>>

\* The last iteration finds nothing; the deferred Unlock runs.
ScanDone ==
  /\ mu = "scan"
  /\ \A m \in pending : ~CanApply(m)
  /\ mu' = "free"
  /\ UNCHANGED <<prev, log, pending, heads, outChan, sent, emitted, dropped, read>>

\* broadcastLoop takes the next message off the channel.
Read ==
  /\ outChan /= << >>
  /\ read' = Append(read, Head(outChan))
  /\ outChan' = Tail(outChan)
  /\ UNCHANGED <<prev, logVars, sent, emitted, dropped>>

Receive(m) == ReceiveReady(m) \/ ReceiveEarly(m)

Scan == ScanDone \/ \E m \in Msg : ScanApply(m)

Next ==
  \/ \E m \in Msg : Receive(m)
  \/ \E m \in Own : RecordSent(m)
  \/ Scan
  \/ Read

\* A goroutine that holds the mutex goes on, and broadcastLoop keeps reading.
Fairness == WF_vars(Scan) /\ WF_vars(Read)

Spec == Init /\ [][Next]_vars
FairSpec == Spec /\ Fairness

----------------------------------------------------------------------------

\* Types of the log's variables.
TypeOK ==
  /\ prev \in Graphs
  /\ log \subseteq Msg /\ pending \subseteq Msg /\ heads \subseteq Msg
  /\ mu \in {"free", "scan"}
  /\ outChan \in Seq(Msg) /\ Len(outChan) <= ChanCap
  /\ sent \subseteq Own /\ emitted \in Seq(Msg)
  /\ dropped \subseteq Msg /\ read \in Seq(Msg)

\* A message of another node is in the log only with its dependencies; only
\* RecordSent may put a child there before its parent (gossip_log.go:10).
CausallyClosed == \A m \in log \ sent : prev[m] \subseteq log

\* Whoever takes the mutex next finds no pending message that could already
\* be applied: the scan misses none although it mutates the map it ranges over.
NothingReadyIsPending == mu = "free" => \A m \in pending : ~CanApply(m)

\* Every tip of the log is announced by Heads(), so that a peer that lacks it
\* learns of it, and only messages of the log are announced.
HeadsCoverTips ==
  /\ heads \subseteq log
  /\ \A m \in log : (\A n \in log : m \notin prev[n]) => m \in heads

\* What a client reads is in causal order, except behind a dropped message.
ReadInCausalOrder ==
  \A i \in DOMAIN read :
    prev[read[i]] \subseteq sent \union dropped \union {read[j] : j \in 1 .. (i - 1)}

\* The log loses nothing and a pending message only leaves towards the log.
NothingForgotten ==
  [][log \subseteq log' /\ pending \subseteq pending' \union log']_vars

\* When everything the pending messages wait for is known and the scan runs,
\* nothing is left pending at its end, however long the chain.
CompleteIsApplied ==
  (\A m \in pending : prev[m] \subseteq log \union pending) /\ mu = "scan"
    ~> (mu = "free" /\ pending = {})

\* The abstract specification, with the emissions as its deliveries.
Delivery == INSTANCE CausalDelivery WITH submitted <- sent, out <- emitted

\* The log implements causal delivery.
ImplementsDelivery == Delivery!DSpec
=============================================================================
