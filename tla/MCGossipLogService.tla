------------------------- MODULE MCGossipLogService -------------------------
(* Instances of GossipLogService over the acyclic graphs on numbered messages. *)
EXTENDS GossipLogService

AcyclicGraphs == {g \in [Msg -> SUBSET Msg] : \A m \in Msg : g[m] \subseteq 1 .. (m - 1)}
=============================================================================
