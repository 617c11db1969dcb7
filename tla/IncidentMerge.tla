---------------------------- MODULE IncidentMerge ----------------------------
(***************************************************************************)
(* The merge rule of IncidentRepository for an incident that is already in *)
(* the table: a higher state wins, an equal state is decided by the clock, *)
(* and a tie keeps the local row.                                          *)
(***************************************************************************)
EXTENDS Integers

\* The states the rule tells apart; "New" stands for every other string.
States == {"New", "PENDING", "ASSIGNED", "RESOLVED"}

\* _getIncidentStatePriority
StatePriority(state) ==
  CASE state = "RESOLVED" -> 3
    [] state = "ASSIGNED" -> 2
    [] state = "PENDING"  -> 1
    [] OTHER              -> 0

\* The incoming report u replaces the stored report r.
Wins(u, r) ==
  \/ StatePriority(u.state) > StatePriority(r.state)
  \/ /\ StatePriority(u.state) = StatePriority(r.state)
     /\ u.clock > r.clock

\* Neither replaces the other.
Tied(u, r) == ~Wins(u, r) /\ ~Wins(r, u)

\* The row that is left when u comes in on r.
Merge(r, u) == IF Wins(u, r) THEN u ELSE r
=============================================================================
