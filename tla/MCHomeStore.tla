---------------------------- MODULE MCHomeStore ----------------------------
(* Three calls, two of them in one process. *)
EXTENDS HomeStore, TLC

CONSTANTS c1, c2, c3, worker, api

MCProcessOf == [c \in {c1, c2, c3} |-> IF c = c3 THEN api ELSE worker]
SameProcess == Permutations({c1, c2})
=============================================================================
