--------------------------- MODULE CausalDelivery ---------------------------
(***************************************************************************)
(* What a causal gossip log promises to the consumer behind it, whatever   *)
(* queues, locks and scans it is built from: every message of the network  *)
(* is handed over at most once, and only after each message it depends on  *)
(* was handed over or was submitted by this node itself.                   *)
(*                                                                         *)
(* GossipLog (the Go daemon) and GossipLogService (the Dart application)   *)
(* are both shown to implement it.                                         *)
(***************************************************************************)
EXTENDS Naturals, Sequences, Functions

CONSTANTS Msg,    \* message ids
          Graphs  \* the dependency graphs considered

VARIABLES
  prev,       \* prev[m]: the prev_msg_ids of message m
  submitted,  \* messages of this node
  out         \* messages handed to the consumer, in order

dvars == <<prev, submitted, out>>

DTypeOK ==
  /\ prev \in Graphs
  /\ submitted \subseteq Msg
  /\ out \in Seq(Msg)

DInit ==
  /\ prev \in Graphs
  /\ submitted = {}
  /\ out = << >>

\* This node makes message m.
Submit(m) ==
  /\ submitted' = submitted \union {m}
  /\ UNCHANGED <<prev, out>>

\* m is handed over: new to the consumer, all its dependencies settled.
Deliver(m) ==
  /\ m \notin Range(out)
  /\ prev[m] \subseteq submitted \union Range(out)
  /\ out' = Append(out, m)
  /\ UNCHANGED <<prev, submitted>>

\* The log may settle several messages under one lock or in one event.
DNext == \E m \in Msg : Submit(m) \/ Deliver(m)

DSpec == DInit /\ [][DNext]_dvars

\* No message is handed over twice.
AtMostOnce ==
  \A i, j \in DOMAIN out : out[i] = out[j] => i = j

\* A message is preceded by everything it depends on.
InCausalOrder ==
  \A i \in DOMAIN out :
    prev[out[i]] \subseteq submitted \union {out[j] : j \in 1 .. (i - 1)}
=============================================================================
