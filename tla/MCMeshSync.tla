----------------------------- MODULE MCMeshSync -----------------------------
(* Devices and incidents for MeshSync. *)
EXTENDS MeshSync

CONSTANTS phone1, phone2

Incident(d, n) == <<d, "inc", n>>

\* A chain of two incidents on one device, one on the other.
TwoAndOne == {Incident(phone1, 1), Incident(phone1, 2), Incident(phone2, 1)}
=============================================================================
