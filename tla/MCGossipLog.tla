----------------------------- MODULE MCGossipLog -----------------------------
(* Instances of GossipLog: every acyclic graph over the messages, which are   *)
(* numbered so that a message only depends on smaller ones.                   *)
EXTENDS GossipLog

AcyclicGraphs == {g \in [Msg -> SUBSET Msg] : \A m \in Msg : g[m] \subseteq 1 .. (m - 1)}
=============================================================================
