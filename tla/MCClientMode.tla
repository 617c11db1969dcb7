---------------------------- MODULE MCClientMode ----------------------------
(* ClientMode with its constants. *)
EXTENDS ClientMode
=============================================================================
