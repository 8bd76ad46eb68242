------------------------ MODULE MCComputerLifecycle ------------------------
(* Runs of one bot that race with a boot, a stop and the idle job. *)
EXTENDS ComputerLifecycle, TLC

CONSTANTS r1, m1, m2

MCSymmetry == Permutations({m1, m2})
=============================================================================
