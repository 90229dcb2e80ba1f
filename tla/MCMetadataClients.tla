-------------------------- MODULE MCMetadataClients --------------------------
(* The instance of MetadataClients that TLC checks.                        *)
EXTENDS MetadataClients, TLC

Symmetry == Permutations(Readers) \cup Permutations(Descriptors)
              \cup Permutations(Uris)
=============================================================================
