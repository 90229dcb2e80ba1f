----------------------------- MODULE TierManager -----------------------------
(***************************************************************************)
(* MultiTierKVBlockStore (kvstore/kvstore/tier_manager.py) with the        *)
(* decisions of cost_model.py: lookup, load, promote, prefetch, store,     *)
(* evict and demote of one block over the tiers, each call one thread that *)
(* visits a tier per step.  Between two steps the other calls, and the     *)
(* tiers' own evictions for room, change which tiers hold the block.       *)
(*                                                                         *)
(* A tier is what the manager sees of it: it holds the block or does not.  *)
(* Any visit to S3 may raise TierUnavailable, any visit to a tier another  *)
(* error, and any store may be refused.                                    *)
(* release(), stats and the metrics change nothing here (for release() see *)
(* MetadataClients).                                                       *)
(***************************************************************************)
EXTENDS Integers, Sequences, Functions

CONSTANTS
  Readers,      \* threads in lookup(), load() or prefetch()
  Writers,      \* threads in store(), evict() or demote()
  LookupOrder,  \* lookup_order, a sequence of tier names
  LoadMs,       \* estimate_load_ms of the block, per tier
  Threshold,    \* load_benefit_threshold_ms
  S3Threshold,  \* s3_load_benefit_threshold_ms
  Guard,        \* slo_budget_guard_ms
  S3MinTokens,  \* s3_min_missing_prefill_tokens
  S3Sync,       \* the reuse gate of can_sync_load_from_s3 is open
  Contexts,     \* what a load is asked with: tokens (also its recompute time) and slo
  NoSlo, NoTier

VARIABLES
  holds,      \* the tiers that hold the block
  call,       \* the calls
  had,        \* tiers that have held the block since a reader began and not failed it
  disturbed   \* readers during whose call some tier lost the block

managerVars == <<holds, call, had, disturbed>>

Calls == Readers \cup Writers
Tiers == Range(LookupOrder)

ASSUME ManagerAssumption ==
  /\ Readers \cap Writers = {}
  /\ LookupOrder \in Seq({"memory", "nvme", "s3"}) \ {<<>>} /\ IsInjective(LookupOrder)
  /\ LoadMs \in [Tiers -> Nat]
  /\ {Threshold, S3Threshold, Guard, S3MinTokens} \subseteq Nat
  /\ S3Sync \in BOOLEAN
  /\ \A x \in Contexts : x.tokens \in Nat /\ (x.slo = NoSlo \/ x.slo \in Nat)

AtRest == [op |-> "none", pc |-> "idle", target |-> NoTier, source |-> NoTier,
           ctx |-> [tokens |-> 0, slo |-> NoSlo], todo |-> <<>>,
           located |-> <<>>, failed |-> FALSE, out |-> "none"]

-----------------------------------------------------------------------------
(* CostModel *)

Benefit(t, x) == x.tokens - LoadMs[t]

OverBudget(t, x) == x.slo # NoSlo /\ LoadMs[t] + Guard > x.slo

CanSyncLoadFromS3(x) == x.tokens >= S3MinTokens /\ S3Sync /\ ~OverBudget("s3", x)

\* The action decide() gives a location.
Action(t, x) ==
  IF Benefit(t, x) <= (IF t = "s3" THEN S3Threshold ELSE Threshold) THEN "recompute"
  ELSE IF OverBudget(t, x) THEN (IF t = "s3" THEN "prefetch" ELSE "recompute")
  ELSE IF t = "s3" /\ ~CanSyncLoadFromS3(x) THEN "prefetch"
  ELSE "load"

Priority(a) == CASE a = "load" -> 0 [] a = "prefetch" -> 1 [] a = "recompute" -> 2

\* Mutant: the sort does not negate the benefit.
BeforeByLeastBenefit(located, i, j, x) ==
  LET p == Priority(Action(located[i], x))
      q == Priority(Action(located[j], x))
      b == LoadMs[located[i]]
      d == LoadMs[located[j]]
  IN  p < q \/ (p = q /\ (b > d \/ (b = d /\ i <= j)))

\* The sort of decide(): by action, then by benefit, then by the place in the list.
Before(located, i, j, x) ==
  LET p == Priority(Action(located[i], x))
      q == Priority(Action(located[j], x))
      b == LoadMs[located[i]]
      d == LoadMs[located[j]]
  IN  p < q \/ (p = q /\ (b < d \/ (b = d /\ i <= j)))

\* The tier of decide()'s decision.
Decided(located, x) ==
  located[CHOOSE i \in DOMAIN located : \A j \in DOMAIN located : Before(located, i, j, x)]

-----------------------------------------------------------------------------
(* Steps *)

Go(c, r) == call' = [call EXCEPT ![c] = r]

\* load() also runs inside promote().
Loading(c) == call[c].op \in {"load", "promote"}

\* The call ends; what it found stays readable until the thread's next call.
\* promote() goes on after a successful load, and ends with it otherwise.
Return(c, out) ==
  IF call[c].op = "promote" /\ out = "hit"
    THEN Go(c, [AtRest EXCEPT !.op = "promote", !.pc = "verify", !.target = call[c].target])
    ELSE Go(c, [AtRest EXCEPT !.op = call[c].op, !.target = call[c].target, !.out = out])

\* S3 raised: for the call it is not a location to rely on.
Failed(c) == had' = [had EXCEPT ![c] = @ \ {"s3"}]

SameHolders == UNCHANGED <<holds, had, disturbed>>

\* A tier no longer holds the block.
Lose(t) ==
  /\ holds' = holds \ {t}
  /\ had' = [c \in Calls |-> had[c] \ {t}]
  /\ disturbed' = IF t \in holds THEN Readers ELSE disturbed

Enter(c, r) ==
  /\ call[c].pc = "idle"
  /\ Go(c, r)
  /\ had' = [had EXCEPT ![c] = IF c \in Readers THEN holds ELSE {}]
  /\ disturbed' = disturbed \ {c}
  /\ UNCHANGED holds

-----------------------------------------------------------------------------
(* The calls begin *)

Lookup(c) == Enter(c, [AtRest EXCEPT !.op = "lookup", !.pc = "scan", !.todo = LookupOrder])

Load(c, t, x) ==
  Enter(c, [AtRest EXCEPT !.op = "load", !.pc = "contains", !.target = t, !.ctx = x,
                          !.todo = LookupOrder])

\* promote() has no budget.
Promote(c, t, x) ==
  /\ x.slo = NoSlo
  /\ Enter(c, [AtRest EXCEPT !.op = "promote", !.pc = "contains", !.target = t, !.ctx = x,
                             !.todo = LookupOrder])

Prefetch(c, t) ==
  Enter(c, [AtRest EXCEPT !.op = "prefetch", !.pc = "contains", !.target = t,
                          !.todo = LookupOrder])

Store(c, t) == Enter(c, [AtRest EXCEPT !.op = "store", !.pc = "store", !.target = t])

Evict(c, ts) == Enter(c, [AtRest EXCEPT !.op = "evict", !.pc = "evict", !.todo = ts])

Demote(c, s, t) ==
  Enter(c, [AtRest EXCEPT !.op = "demote", !.pc = "load", !.source = s, !.target = t])

-----------------------------------------------------------------------------
(* The target is tried first: load 82-88, prefetch 134 *)

TargetHolds(c) ==
  /\ call[c].pc = "contains"
  /\ IF call[c].target \in holds
       THEN IF Loading(c) THEN Go(c, [call[c] EXCEPT !.pc = "take"])
                          ELSE Return(c, "present")
       ELSE Go(c, [call[c] EXCEPT !.pc = "scan"])
  /\ SameHolders

\* load() notes the failure and scans; prefetch() lets it out.
TargetSilent(c) ==
  /\ call[c].pc = "contains"
  /\ call[c].target = "s3"
  /\ IF Loading(c)
       THEN Go(c, [call[c] EXCEPT !.pc = "scan", !.failed = TRUE])
       ELSE Return(c, "target_unavailable")
  /\ Failed(c)
  /\ UNCHANGED <<holds, disturbed>>

\* tiers[target].load(key), which raises BlockNotFound when the block went away.
Take(c) ==
  /\ call[c].pc = "take"
  /\ Return(c, IF call[c].target \in holds THEN "hit" ELSE "miss")
  /\ SameHolders

TakeFails(c) ==
  /\ call[c].pc = "take"
  /\ call[c].target = "s3"
  /\ Go(c, [call[c] EXCEPT !.pc = "scan", !.failed = TRUE])
  /\ Failed(c)
  /\ UNCHANGED <<holds, disturbed>>

-----------------------------------------------------------------------------
(* _scan_locations *)

\* Mutant: the break is taken whether or not there is a location.
ScanBreaks(c) ==
  LET t == Head(call[c].todo)
      found == t \in holds
  IN  /\ call[c].pc = "scan"
      /\ call[c].todo # <<>>
      /\ Go(c, [call[c] EXCEPT
                  !.todo = IF call[c].op = "lookup" THEN <<>> ELSE Tail(@),
                  !.located = IF found THEN Append(@, t) ELSE @])
      /\ SameHolders

\* The lookup of the next tier answers.
Scan(c) ==
  LET t == Head(call[c].todo)
      found == t \in holds
  IN  /\ call[c].pc = "scan"
      /\ call[c].todo # <<>>
      /\ Go(c, [call[c] EXCEPT
                  !.todo = IF found /\ call[c].op = "lookup" THEN <<>> ELSE Tail(@),
                  !.located = IF found THEN Append(@, t) ELSE @])
      /\ SameHolders

\* Mutant: an unavailable tier makes the locations found so far worthless.
ScanFailsForAll(c) ==
  /\ call[c].pc = "scan"
  /\ call[c].todo # <<>>
  /\ Head(call[c].todo) = "s3"
  /\ Go(c, [call[c] EXCEPT !.todo = Tail(@), !.located = <<>>, !.failed = TRUE])
  /\ Failed(c)
  /\ UNCHANGED <<holds, disturbed>>

\* The lookup of the next tier raises TierUnavailable; the scan goes on.
ScanFails(c) ==
  /\ call[c].pc = "scan"
  /\ call[c].todo # <<>>
  /\ Head(call[c].todo) = "s3"
  /\ Go(c, [call[c] EXCEPT !.todo = Tail(@), !.failed = TRUE])
  /\ Failed(c)
  /\ UNCHANGED <<holds, disturbed>>

\* Nothing is located: a miss, or unavailability when some tier did not answer.
Nowhere(c) ==
  /\ call[c].pc = "scan"
  /\ call[c].todo = <<>>
  /\ call[c].located = <<>>
  /\ Return(c, IF call[c].failed THEN "lookup_unavailable" ELSE "miss")
  /\ SameHolders

\* lookup() returns the first location.
Found(c) ==
  /\ call[c].pc = "scan"
  /\ call[c].op = "lookup"
  /\ call[c].todo = <<>>
  /\ call[c].located # <<>>
  /\ Return(c, "located")
  /\ SameHolders

-----------------------------------------------------------------------------
(* load() goes by the cost model *)

Decide(c) ==
  LET t == Decided(call[c].located, call[c].ctx)
      a == Action(t, call[c].ctx)
  IN  /\ call[c].pc = "scan"
      /\ Loading(c)
      /\ call[c].todo = <<>>
      /\ call[c].located # <<>>
      /\ IF a = "load" THEN Go(c, [call[c] EXCEPT !.pc = "load", !.source = t])
                       ELSE Return(c, a)
      /\ SameHolders

-----------------------------------------------------------------------------
(* prefetch() takes the locations in turn: 136-137, _promote_from_tier *)

\* Mutant: prefetch() gives up after the first source.
NextSourceOnce(c) ==
  LET r == call[c]
  IN  /\ r.op = "prefetch"
      /\ r.todo = <<>>
      /\ r.pc = "sources" \/ (r.pc = "scan" /\ r.located # <<>>)
      /\ \/ r.located = <<>> /\ Return(c, "exhausted")
         \/ /\ r.located # <<>>
            /\ Go(c, [r EXCEPT !.pc = IF Head(r.located) = r.target THEN "sources" ELSE "load",
                               !.source = Head(r.located), !.located = <<>>])
      /\ SameHolders

\* The next location: the target itself is passed over.
NextSource(c) ==
  LET r == call[c]
  IN  /\ r.op = "prefetch"
      /\ r.todo = <<>>
      /\ r.pc = "sources" \/ (r.pc = "scan" /\ r.located # <<>>)
      /\ \/ r.located = <<>> /\ Return(c, "exhausted")
         \/ /\ r.located # <<>>
            /\ Go(c, [r EXCEPT !.pc = IF Head(r.located) = r.target THEN "sources" ELSE "load",
                               !.source = Head(r.located), !.located = Tail(r.located)])
      /\ SameHolders

-----------------------------------------------------------------------------
(* The source is read, the target is written *)

\* How a call goes on when its source has no block or its target no room:
\* prefetch() tries the next location, the others let the error out.
GiveUp(c, out) ==
  IF call[c].op = "prefetch" THEN Go(c, [call[c] EXCEPT !.pc = "sources"])
                             ELSE Return(c, out)

LoadSource(c) ==
  /\ call[c].pc = "load"
  /\ IF call[c].source \notin holds THEN GiveUp(c, "miss")
     ELSE IF Loading(c) /\ call[c].source = call[c].target
       THEN Return(c, "hit")
       ELSE Go(c, [call[c] EXCEPT !.pc = "store"])
  /\ SameHolders

\* The tier that load() or prefetch() reads found its copy corrupt and withdrew
\* it; only prefetch() goes on.
Corrupt(c) ==
  LET t == IF call[c].pc = "take" THEN call[c].target ELSE call[c].source
  IN  /\ call[c].pc \in {"take", "load"}
      /\ t \in holds
      /\ Lose(t)
      /\ GiveUp(c, "corrupt")

\* A tier raises something other than TierUnavailable: a failing disk or database,
\* a clean-up of corruption that failed.  The call ends with it, but for the
\* KVStoreError or OSError of a source of prefetch().
VisitRaises(c) ==
  /\ call[c].pc \in {"contains", "take", "scan", "load"}
  /\ call[c].pc = "scan" => call[c].todo # <<>>
  /\ \/ Return(c, "error") /\ UNCHANGED had
     \/ /\ call[c].pc = "load" /\ call[c].op = "prefetch"
        /\ GiveUp(c, "error")
        /\ had' = [had EXCEPT ![c] = @ \ {call[c].source}]
  /\ UNCHANGED <<holds, disturbed>>

\* The source is S3 and does not answer: load() turns that into a recompute.
LoadSourceFails(c) ==
  /\ call[c].pc = "load"
  /\ call[c].source = "s3"
  /\ GiveUp(c, "load_unavailable")
  /\ Failed(c)
  /\ UNCHANGED <<holds, disturbed>>

\* store(), and _store_promotion for the rest.
StoreTarget(c) ==
  /\ call[c].pc = "store"
  /\ holds' = holds \cup {call[c].target}
  /\ IF call[c].op = "demote" THEN Go(c, [call[c] EXCEPT !.pc = "evict", !.todo = <<call[c].source>>])
                              ELSE Return(c, "hit")
  /\ UNCHANGED <<had, disturbed>>

\* StoreFull, a conflict, a failing disk, or S3 does not answer.  A load that
\* has its data fails with it.
StoreTargetFails(c) ==
  /\ call[c].pc = "store"
  /\ GiveUp(c, "error")
  /\ had' = [had EXCEPT ![c] = @ \ {call[c].source}]
  /\ UNCHANGED <<holds, disturbed>>

\* A tombstone of the block is pending on the target: the RuntimeError of NVMe
\* and S3 ends every call, as prefetch() suppresses KVStoreError and OSError only.
StoreTargetPending(c) ==
  /\ call[c].pc = "store"
  /\ call[c].target \in {"nvme", "s3"} \ holds
  /\ Return(c, "error")
  /\ SameHolders

\* The last look of promote() at its target; S3 may not answer.
Verify(c) ==
  /\ call[c].pc = "verify"
  /\ \/ Return(c, IF call[c].target \in holds THEN "promoted" ELSE "gone")
     \/ call[c].target = "s3" /\ Return(c, "error")
  /\ SameHolders

-----------------------------------------------------------------------------
(* evict(), and the last step of demote() *)

\* The next tier withdraws the block; the deletion of its file or object may
\* still fail.
EvictNext(c) ==
  /\ call[c].pc = "evict"
  /\ call[c].todo # <<>>
  /\ Lose(Head(call[c].todo))
  /\ \/ Go(c, [call[c] EXCEPT !.todo = Tail(@)])
     \/ Head(call[c].todo) # "memory" /\ Return(c, "error")

\* The next tier's block is pinned and stays.
EvictRefused(c) ==
  /\ call[c].pc = "evict"
  /\ call[c].todo # <<>>
  /\ Go(c, [call[c] EXCEPT !.todo = Tail(@)])
  /\ SameHolders

EvictEnds(c) ==
  /\ call[c].pc = "evict"
  /\ call[c].todo = <<>>
  /\ Return(c, "evicted")
  /\ SameHolders

\* A tier makes room: MemoryTier._ensure_capacity, NVMeTier, LRUEvictionController.
MakeRoom(t) ==
  /\ t \in holds
  /\ Lose(t)
  /\ UNCHANGED call

-----------------------------------------------------------------------------

ManagerInit ==
  /\ holds \in SUBSET Tiers
  /\ call = [c \in Calls |-> AtRest]
  /\ had = [c \in Calls |-> {}]
  /\ disturbed = {}

Read(c) == \/ Lookup(c)
           \/ \E t \in Tiers : Prefetch(c, t) \/ \E x \in Contexts : Load(c, t, x) \/ Promote(c, t, x)

Write(c) == \/ Evict(c, LookupOrder)
            \/ \E t \in Tiers : Store(c, t) \/ Evict(c, <<t>>) \/ \E s \in Tiers : Demote(c, s, t)

Step(c) ==
  \/ TargetHolds(c) \/ TargetSilent(c) \/ Take(c) \/ TakeFails(c)
  \/ Scan(c) \/ ScanFails(c) \/ Nowhere(c) \/ Found(c)
  \/ Decide(c) \/ NextSource(c)
  \/ LoadSource(c) \/ Corrupt(c) \/ LoadSourceFails(c) \/ VisitRaises(c)
  \/ StoreTarget(c) \/ StoreTargetFails(c) \/ StoreTargetPending(c) \/ Verify(c)
  \/ EvictNext(c) \/ EvictRefused(c) \/ EvictEnds(c)

ManagerNext ==
  \/ \E c \in Readers : Read(c)
  \/ \E c \in Writers : Write(c)
  \/ \E c \in Calls : Step(c)
  \/ \E t \in Tiers : MakeRoom(t)

ManagerSpec == ManagerInit /\ [][ManagerNext]_managerVars

-----------------------------------------------------------------------------
(* Properties *)

Ended(c, out) == call[c].pc = "idle" /\ call[c].out = out

\* Unless a tier lost the block while the call ran, a miss means that no tier had
\* it (lookup, load: the target's and the source's own misses included).
QuietMissIsTrue ==
  \A c \in Readers : Ended(c, "miss") /\ c \notin disturbed => had[c] = {}

\* A prefetch that ends without a promotion has tried every tier that had the
\* block all along (prefetch 136-138: a source's failure is suppressed).
PrefetchTriesEverySource ==
  \A c \in Readers : Ended(c, "exhausted") => had[c] \subseteq {call[c].target}

\* A call blames unavailability, of the lookups or of the tier it chose to load
\* from, only when no tier has held the block all along and answered
\* (docs/design-decisions.md:193, recompute "only when no usable location
\* remains"; kvstore/README.md:31; _scan_locations, load 91-101 and 119-125).
RecomputeOnlyWhenNothingUsable ==
  \A c \in Readers :
    Ended(c, "lookup_unavailable") \/ Ended(c, "load_unavailable") => had[c] = {}
=============================================================================
