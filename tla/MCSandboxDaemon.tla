-------------------------- MODULE MCSandboxDaemon --------------------------
(* SandboxDaemon for TLC: calls in flight are interchangeable.             *)
EXTENDS SandboxDaemon, TLC

Symmetry == Permutations(Requests)
=============================================================================
