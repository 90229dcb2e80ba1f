----------------------------- MODULE MCCacheFeed -----------------------------
(* Producers, snapshots and replays on a small index. *)
EXTENDS CacheFeed

MCEventIDs == Workers \X (1..MaxEvents)
==============================================================================
