--------------------------- MODULE MCIncidentStore ---------------------------
(* Reports and batches for IncidentStore. *)
EXTENDS IncidentStore

CONSTANTS x, y, z, p, q

Report(i, state, clock, data) == [id |-> i, state |-> state, clock |-> clock, data |-> data]

\* One incident in four versions that differ in state and clock, one of them in a
\* batch with a second incident.
Reported ==
  { << Report(x, "New", 2, p) >>, << Report(x, "ASSIGNED", 1, q) >>, << Report(x, "RESOLVED", 1, q) >>,
    << Report(x, "ASSIGNED", 2, p), Report(y, "PENDING", 1, q) >> }

OwnIncident == {Report(z, "New", 1, p)}

\* The server has moved the incident meanwhile.
ServerRows == {Report(z, "New", 1, q)}
=============================================================================
