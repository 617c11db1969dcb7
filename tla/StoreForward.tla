---------------------------- MODULE StoreForward ----------------------------
(***************************************************************************)
(* What a store-and-forward relay promises for the messages clients leave  *)
(* with it: a stored message is never lost and never goes back to being    *)
(* undelivered, and it counts as delivered only if it was handed to a      *)
(* connection of its recipient.  Handing over twice is allowed.            *)
(*                                                                         *)
(* MessageRelay is shown to implement it.                                  *)
(***************************************************************************)
EXTENDS Naturals

CONSTANT Messages

VARIABLES
  table,   \* "none" (not stored), "queued" or "delivered"
  handed   \* messages written to a connection of their recipient

svars == <<table, handed>>

SInit ==
  /\ table = [m \in Messages |-> "none"]
  /\ handed = {}

\* What may become of one message, given the messages handed over so far.
Advance(m) ==
  \/ table'[m] = table[m]
  \/ table[m] = "none" /\ table'[m] = "queued"
  \/ table[m] /= "delivered" /\ table'[m] = "delivered" /\ m \in handed'

SNext ==
  /\ handed \subseteq handed' /\ handed' \subseteq Messages
  /\ table' \in [Messages -> {"none", "queued", "delivered"}]
  /\ \A m \in Messages : Advance(m)

SSpec == SInit /\ [][SNext]_svars
=============================================================================
