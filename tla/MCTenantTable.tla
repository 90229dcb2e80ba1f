---------------------------- MODULE MCTenantTable ----------------------------
(* Three tenants, a table for two of them, and two workers.                 *)
EXTENDS TenantTable, TLC

\* An idle worker, one that caches so much of the request that it may be picked
\* beyond the tenant's limit, and a busy one.
MCLoads ==
  {[overlap |-> 0, queue |-> 0, pressure |-> 0],
   [overlap |-> 5, queue |-> 0, pressure |-> 0],
   [overlap |-> 0, queue |-> 3, pressure |-> 1]}

Symmetry == Permutations(Tenants) \cup Permutations(Pool)
=============================================================================
