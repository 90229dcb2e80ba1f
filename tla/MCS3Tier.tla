------------------------------ MODULE MCS3Tier ------------------------------
(* One key with two possible payloads, and two threads.  No symmetry: the   *)
(* run checks a liveness property.                                          *)
EXTENDS S3Tier
=============================================================================
