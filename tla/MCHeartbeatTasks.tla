-------------------------- MODULE MCHeartbeatTasks --------------------------
(* Goroutines and callers are interchangeable: no action tells two of them   *)
(* apart.  Used by the runs that check no liveness.                          *)
EXTENDS HeartbeatTasks, TLC

Symmetric == Permutations(Goroutines) \cup Permutations(Callers)
=============================================================================
