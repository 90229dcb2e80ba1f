----------------------------- MODULE MCEventBus -----------------------------
(* Two publishers on channels of one place.  The two subscribers have names *)
(* of their own, or the second takes over the name of the first.            *)
(* No symmetry: the run checks liveness properties.                         *)
EXTENDS EventBus
=============================================================================
