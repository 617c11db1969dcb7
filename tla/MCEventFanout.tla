--------------------------- MODULE MCEventFanout ----------------------------
(* EventFanout with its constants. *)
EXTENDS EventFanout
=============================================================================
