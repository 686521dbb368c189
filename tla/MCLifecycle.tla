----------------------------- MODULE MCLifecycle ------------------------------
(* Small instances of the lifecycle of one project. *)
EXTENDS ProjectLifecycle, TLC

CONSTANTS q1, q2, w1, d1, d2

\* Requests and drivers are only compared with each other.
AnyOrder == Permutations({q1, q2}) \cup Permutations({d1, d2})
=============================================================================
