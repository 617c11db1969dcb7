--------------------------- MODULE MCMessageRelay ---------------------------
(* Users and messages for MessageRelay. *)
EXTENDS MessageRelay

CONSTANTS alice, bob, ghost, m1, m2

\* m1 is for alice; m2 for bob, for everyone, or for an id no user has.
FirstForAlice ==
  {[m \in Messages |-> IF m = m1 THEN alice ELSE x] : x \in {bob, ghost, Everyone}}

Ordered == { <<m1, m2>> }
=============================================================================
