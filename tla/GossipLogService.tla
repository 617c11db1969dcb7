--------------------------- MODULE GossipLogService ---------------------------
(***************************************************************************)
(* The causal message log of the application                               *)
(* (mobile_app/lib/services/gossip_log_service.dart).                      *)
(*                                                                         *)
(* It differs from the daemon's log in three ways: the isolate has one     *)
(* thread, so that receive and recordSent run to their end in one event;   *)
(* _tryApplyPending works in rounds, each on a snapshot of the ready       *)
(* messages; and a message of this application is made on top of the       *)
(* current heads.  The insertion order of the maps is left open: a round   *)
(* takes its snapshot in any order.  The private counter _clock, which     *)
(* nothing reads, is left out.                                             *)
(***************************************************************************)
EXTENDS Naturals, Sequences, Functions

CONSTANTS
  Msg,      \* message ids
  Own,      \* ids of the messages this application makes
  Graphs    \* the dependency graphs considered

ASSUME ServiceAssumption ==
  /\ Own \subseteq Msg
  /\ Graphs \subseteq [Msg -> SUBSET Msg]

VARIABLES
  prev,       \* prev[m]: prevMsgIds of m
  log,        \* _log
  pending,    \* _pending
  heads,      \* _heads
  turn,       \* "idle", or "scan" inside _tryApplyPending
  toApply,    \* what is left of the snapshot of the round
  sent,       \* history: messages recorded by recordSent
  emitted,    \* history: what went to validMessages, in order
  reported    \* history: ids some receive returned as missing

vars == <<prev, log, pending, heads, turn, toApply, sent, emitted, reported>>

Init ==
  /\ prev \in Graphs
  /\ log = {} /\ pending = {} /\ heads = {}
  /\ turn = "idle" /\ toApply = {}
  /\ sent = {} /\ emitted = << >> /\ reported = {}

----------------------------------------------------------------------------

\* Wrong: only a dependency that is itself waiting holds a message back.
CanApplyUnlessPending(m) == prev[m] \intersect pending = {}

\* _canApply
CanApply(m) == prev[m] \subseteq log

\* Wrong: the newest message is taken for the only head.
UpdateHeadsNewest(m) == heads' = {m}

\* _updateHeads
UpdateHeads(m) == heads' = (heads \ prev[m]) \union {m}

\* _apply
Apply(m) ==
  /\ pending' = pending \ {m}
  /\ log' = log \union {m}
  /\ UpdateHeads(m)
  /\ emitted' = Append(emitted, m)

\* Wrong: only the first missing dependency is returned.
MissingDepsFirst(m) ==
  LET missing == prev[m] \ (log \union pending \union {m})
  IN  IF missing = {} THEN {} ELSE {CHOOSE x \in missing : TRUE}

\* The dependencies of m that receive returns: neither applied nor waiting.
MissingDeps(m) == prev[m] \ (log \union pending \union {m})

\* A message of a peer comes in.  A peer can only build on messages of this
\* application that exist.
Incoming(m) ==
  /\ turn = "idle"
  /\ m \notin Own
  /\ prev[m] \intersect Own \subseteq sent
  /\ m \notin log \union pending

\* receive of a message whose dependencies are all there
ReceiveReady(m) ==
  /\ Incoming(m)
  /\ CanApply(m)
  /\ Apply(m)
  /\ turn' = "scan"
  /\ UNCHANGED <<prev, toApply, sent, reported>>

\* receive of a message that has to wait
ReceiveEarly(m) ==
  /\ Incoming(m)
  /\ ~CanApply(m)
  /\ pending' = pending \union {m}
  /\ reported' = reported \union MissingDeps(m)
  /\ UNCHANGED <<prev, log, heads, turn, toApply, sent, emitted>>

\* broadcastIncident reads the heads and calls recordSent in one event.
RecordSent(m) ==
  /\ turn = "idle"
  /\ m \notin log
  /\ prev[m] = heads
  /\ log' = log \union {m}
  /\ UpdateHeads(m)
  /\ sent' = sent \union {m}
  /\ turn' = "scan"
  /\ UNCHANGED <<prev, pending, toApply, emitted, reported>>

\* A round of _tryApplyPending begins: the ready messages are copied out.
StartRound ==
  /\ turn = "scan" /\ toApply = {}
  /\ \E m \in pending : CanApply(m)
  /\ toApply' = {m \in pending : CanApply(m)}
  /\ UNCHANGED <<prev, log, pending, heads, turn, sent, emitted, reported>>

\* The snapshot is applied without looking at it again.
ApplyNext(m) ==
  /\ turn = "scan" /\ m \in toApply
  /\ Apply(m)
  /\ toApply' = toApply \ {m}
  /\ UNCHANGED <<prev, turn, sent, reported>>

\* Wrong: the loop ends after any round.
EndScanEarly ==
  /\ turn = "scan" /\ toApply = {} /\ turn' = "idle"
  /\ UNCHANGED <<prev, log, pending, heads, toApply, sent, emitted, reported>>

\* A round without progress ends the loop and the event.
EndScan ==
  /\ turn = "scan" /\ toApply = {}
  /\ \A m \in pending : ~CanApply(m)
  /\ turn' = "idle"
  /\ UNCHANGED <<prev, log, pending, heads, toApply, sent, emitted, reported>>

Receive(m) == ReceiveReady(m) \/ ReceiveEarly(m)

Scan == StartRound \/ EndScan \/ \E m \in Msg : ApplyNext(m)

Next ==
  \/ \E m \in Msg : Receive(m)
  \/ \E m \in Own : RecordSent(m)
  \/ Scan

\* The loop runs in the event that entered it.
Spec == Init /\ [][Next]_vars
FairSpec == Spec /\ WF_vars(Scan)

----------------------------------------------------------------------------

\* Types of the log's variables.
TypeOK ==
  /\ prev \in Graphs
  /\ log \subseteq Msg /\ pending \subseteq Msg /\ heads \subseteq Msg
  /\ turn \in {"idle", "scan"} /\ toApply \subseteq Msg
  /\ sent \subseteq Own /\ emitted \in Seq(Msg) /\ reported \subseteq Msg

\* Here the heads are exactly the messages without a child: an own message is
\* made on the heads, so that no child precedes its parent (_updateHeads, :176).
HeadsAreTips == heads = {m \in log : \A n \in log : m \notin prev[n]}

\* Between two events no pending message could already be applied.
NothingReadyIsPending == turn = "idle" => \A m \in pending : ~CanApply(m)

\* Whatever a pending message waits for is waiting itself or was handed to
\* _processMissingDeps: nothing is waited for that nobody asked for.
WaitedForIsReported ==
  \A m \in pending : prev[m] \subseteq log \union pending \union reported

\* The ancestors of m: the least set with the parents of m and of its members.
Ancestors(m) ==
  {x \in Msg : \A S \in SUBSET Msg :
     (prev[m] \subseteq S /\ \A y \in S : prev[y] \subseteq S) => x \in S}

\* A message this application makes depends, directly or not, on everything
\* the application had applied.
OwnCoversLog ==
  [][\A m \in sent' \ sent : log \subseteq Ancestors(m)]_vars

\* The abstract specification, with the stream of valid messages as deliveries.
Delivery == INSTANCE CausalDelivery WITH submitted <- sent, out <- emitted

\* The log implements causal delivery.
ImplementsDelivery == Delivery!DSpec
=============================================================================
