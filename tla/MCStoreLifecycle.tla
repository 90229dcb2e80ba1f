-------------------------- MODULE MCStoreLifecycle --------------------------
(* More works than max_queue admits, and more submitters than threads.   No *)
(* symmetry: the run checks liveness properties.                            *)
EXTENDS StoreLifecycle
=============================================================================
