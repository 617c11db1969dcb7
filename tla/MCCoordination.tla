--------------------------- MODULE MCCoordination ---------------------------
(* Incidents, responders and uploads for Coordination. *)
EXTENDS Coordination

CONSTANTS server1, server2, flood, fire, near, far, phone, tablet

\* One responder is nearer until it has work.
Distances == [k \in Key |-> [r \in Responder |-> IF r = near THEN 1 ELSE 3]]

Item(k, c, id) == [key |-> k, client |-> c, remote |-> id]

\* A phone uploads both incidents; a tablet without an id of its own knows the id
\* the server gave one of them, and a wrong one, or none, of the other.
Uploads ==
  { <<Item(flood, phone, "none"), Item(fire, phone, "unknown")>>,
    <<Item(fire, tablet, "none"), Item(flood, NoClient, "stored")>>,
    <<Item(fire, NoClient, "unknown")>> }
=============================================================================
