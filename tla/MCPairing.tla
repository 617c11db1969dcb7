----------------------------- MODULE MCPairing ------------------------------
(* Pairing with its constants; the threads are alike. *)
EXTENDS Pairing, TLC

Alike == Permutations(Thread)
=============================================================================
