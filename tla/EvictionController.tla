------------------------- MODULE EvictionController -------------------------
(***************************************************************************)
(* kvstore/kvstore/eviction.py, LRUEvictionController.evict_bytes, at work *)
(* on the memory tier.                                                     *)
(*                                                                         *)
(* The controller holds no lock of its own.  It lists rows of the table    *)
(* and then evicts them one by one through the tier, while clients pin     *)
(* rows, other threads evict and store the same keys, and rows without     *)
(* payload, left by an earlier process, are listed like all others.        *)
(*                                                                         *)
(* A candidate is listed with the byte count of its row; that count is     *)
(* added to evicted_bytes whatever the tier then evicts under the key.     *)
(* The order of last_access is left out: a batch is any batch_size of the  *)
(* rows, tried in any order.                                               *)
(***************************************************************************)
EXTENDS MemoryTier

CONSTANTS
  BatchSize,    \* batch_size
  BytesToFree   \* bytes_to_free, positive

ASSUME EvAssumption == BytesToFree \in Nat

VARIABLES
  evictor,      \* the call of evict_bytes
  steady        \* history: candidates that could be evicted ever since listed

evVars == <<vars, evictor, steady>>

NoCall == [pc |-> "idle", bytes |-> 0, listed |-> {}, progressed |-> FALSE]

EvInit == Init /\ evictor = NoCall /\ steady = {}

\* What was steady and can still be evicted after the step.
StillSteady == steady' = {k \in steady : Evictable(k)'}

-----------------------------------------------------------------------------
(* evict_bytes *)

EvictBytes ==
  /\ open /\ evictor.pc = "idle"
  /\ evictor' = [NoCall EXCEPT !.pc = "list"]
  /\ UNCHANGED <<vars, steady>>

EndCall == evictor' = NoCall

\* lru_candidates(): no candidates end the call.
List ==
  /\ open /\ evictor.pc = "list"
  /\ LET rows == LruCandidates(Mem) IN
     \/ rows = {} /\ EndCall /\ UNCHANGED steady
     \/ \E batch \in kSubset(Min({BatchSize, Cardinality(rows)}), rows) :
          /\ batch # {}
          /\ evictor' = [evictor EXCEPT
               !.pc = "try", !.progressed = FALSE,
               !.listed = {[key |-> k, bytes |-> Size[blocks[k][Mem].desc]] : k \in batch}]
          /\ steady' = {k \in batch : Evictable(k)}
  /\ UNCHANGED vars

\* Mutant: a candidate that is refused ends the round.
TryNextUntilRefused ==
  /\ At("idle") /\ evictor.pc = "try"
  /\ \E loc \in evictor.listed :
       /\ EvictKey(loc.key)
       /\ evictor' = [evictor EXCEPT
            !.listed = IF Evictable(loc.key) THEN @ \ {loc} ELSE {},
            !.bytes = IF Evictable(loc.key) THEN @ + loc.bytes ELSE @,
            !.progressed = @ \/ Evictable(loc.key)]
  /\ evictor.bytes < BytesToFree
  /\ StillSteady
  /\ UNCHANGED <<call, pins, faults>>

\* The tier's evict() of one candidate, once _lock is free.
TryNext ==
  /\ At("idle") /\ evictor.pc = "try"
  /\ \E loc \in evictor.listed :
       /\ EvictKey(loc.key)
       /\ evictor' = [evictor EXCEPT
            !.listed = @ \ {loc},
            !.bytes = IF Evictable(loc.key) THEN @ + loc.bytes ELSE @,
            !.progressed = @ \/ Evictable(loc.key)]
  /\ evictor.bytes < BytesToFree
  /\ StillSteady
  /\ UNCHANGED <<call, pins, faults>>

\* Mutant: the check for progress is missing.
EndRoundForever ==
  /\ open /\ evictor.pc = "try"
  /\ \/ evictor.bytes >= BytesToFree /\ EndCall
     \/ /\ evictor.bytes < BytesToFree /\ evictor.listed = {}
        /\ evictor' = [evictor EXCEPT !.pc = "list"]
  /\ steady' = {}
  /\ UNCHANGED vars

\* Enough was freed, or the batch is through: a round without progress ends
\* the call, another one lists again.
EndRound ==
  /\ open /\ evictor.pc = "try"
  /\ \/ evictor.bytes >= BytesToFree /\ EndCall
     \/ evictor.bytes < BytesToFree /\ evictor.listed = {} /\ ~evictor.progressed /\ EndCall
     \/ /\ evictor.bytes < BytesToFree /\ evictor.listed = {} /\ evictor.progressed
        /\ evictor' = [evictor EXCEPT !.pc = "list"]
  /\ steady' = {}
  /\ UNCHANGED vars

\* A step of the tier or its surroundings; the call ends with its process.
Others ==
  /\ Next
  /\ evictor' = IF open' THEN evictor ELSE NoCall
  /\ StillSteady

-----------------------------------------------------------------------------
(* Specification *)

EvNext == EvictBytes \/ List \/ TryNext \/ EndRound \/ Others

\* A call under _lock goes on, and so does the controller; strong fairness for
\* the step that competes for _lock.
CallStep == Lookup \/ LoadAcquire \/ LoadRead \/ LoadRelease \/ Evict
              \/ StoreRepublish \/ StoreRoom \/ StoreCommit

EvSpec ==
  /\ EvInit /\ [][EvNext]_evVars
  /\ WF_evVars(CallStep /\ Others)
  /\ WF_evVars(List) /\ WF_evVars(EndRound)
  /\ SF_evVars(TryNext)

-----------------------------------------------------------------------------
(* Properties *)

\* evict_bytes gives up with bytes still over only when none of the candidates
\* of its last batch could be evicted all along: each was pinned, withdrawn or
\* without payload at some point since it was listed.
ShortOnlyWhenStuck ==
  [][evictor.pc # "idle" /\ evictor'.pc = "idle" /\ open' /\ evictor.bytes < BytesToFree
       => steady = {}]_evVars

\* evict_bytes returns, although rows without payload are listed again in
\* every round and other threads store and pin blocks all the time.
EvictionEnds == evictor.pc # "idle" ~> evictor.pc = "idle"
=============================================================================
