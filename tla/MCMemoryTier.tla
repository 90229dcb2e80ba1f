---------------------------- MODULE MCMemoryTier ----------------------------
(* Two keys; a small and a large payload, of which one large or two small   *)
(* fit into memory.  The controller is to free as much as fits.             *)
EXTENDS EvictionController, TLC

CONSTANTS small, large

MCSize == small :> 1 @@ large :> 2
=============================================================================
