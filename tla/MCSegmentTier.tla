--------------------------- MODULE MCSegmentTier ---------------------------
(* Two keys, a reader and a writer, files of two records.                  *)
EXTENDS SegmentTier, TLC

MCUris == Locations

Symmetry == Permutations(Keys)
=============================================================================
