---------------------------- MODULE MCTierManager ----------------------------
(***************************************************************************)
(* Three tiers.  ByDistance is the usual profile, in which a tier further  *)
(* away is slower; ByBandwidth is that of a large block and the profiles   *)
(* of test_tier_manager.py:405-411, in which S3 has twice the bandwidth    *)
(* of the file tier.  The contexts make each action of decide() happen.    *)
(***************************************************************************)
EXTENDS TierManager, TLC

Order == <<"memory", "nvme", "s3">>

ByDistance  == ("memory" :> 1) @@ ("nvme" :> 3) @@ ("s3" :> 6)
ByBandwidth == ("memory" :> 1) @@ ("nvme" :> 6) @@ ("s3" :> 4)

Asked == { [tokens |-> 4,  slo |-> NoSlo],   \* S3 is not worth a load
           [tokens |-> 20, slo |-> NoSlo],   \* every tier is
           [tokens |-> 20, slo |-> 7] }      \* but S3 is over the budget
Long  == { [tokens |-> 20, slo |-> NoSlo] }
=============================================================================
