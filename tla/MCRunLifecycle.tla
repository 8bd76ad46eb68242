--------------------------- MODULE MCRunLifecycle ---------------------------
(* Instances of RunLifecycle for TLC. *)
EXTENDS RunLifecycle, TLC

CONSTANTS r1, r2, t1, t2, w1, w2

\* Two slots of one worker process, and of two.
OneProcess == [t \in {t1, t2} |-> w1]
TwoProcesses == (t1 :> w1) @@ (t2 :> w2)
=============================================================================
