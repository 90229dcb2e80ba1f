----------------------------- MODULE MCNVMeTier -----------------------------
(* The instance of NVMeTier that TLC checks; NVMeTierProofs states the     *)
(* refinement.                                                             *)
EXTENDS NVMeTierProofs, TLC

Symmetry == Permutations(Threads)

\* The payload named d1 takes one unit, every other one two.
CONSTANT d1
MCBytes == [d \in Descriptors |-> IF d = d1 THEN 1 ELSE 2]
=============================================================================
