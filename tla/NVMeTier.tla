------------------------------ MODULE NVMeTier ------------------------------
(***************************************************************************)
(* kvstore/kvstore/nvme_tier.py, content-addressed layout: threads of one  *)
(* process that look up, load, store and evict blocks kept as one file per *)
(* BlockKey, published through the metadata table.                         *)
(*                                                                         *)
(* A step ends where another thread, a crash or a fault can intervene:     *)
(* around every metadata transaction, file operation and acquisition of    *)
(* the mutation lock (MetadataStore.mutation(); _capacity_lock is only     *)
(* ever taken inside it).  The lock is reentrant: a store runs the load    *)
(* and the evictions that it calls under its own lock.  Rejected calls     *)
(* that change nothing are left out.                                       *)
(*                                                                         *)
(* A payload is identified with its descriptor, which holds its SHA-256.   *)
(* The path of a block is a function of its key, so the key stands for it. *)
(* The LRU order of eviction candidates is left open.                      *)
(***************************************************************************)
EXTENDS MetadataStore, Functions

CONSTANTS
  Threads,
  NVMe,       \* this tier, a member of Tiers
  Bytes,      \* Bytes[d]: payload length
  MaxBytes,   \* max_bytes
  Garbage,    \* the content of a file that fails the checks of a load
  None,       \* no file, no owner of the lock, unused field
  PeerKeys,   \* bound: the keys that other tiers hold, too
  MaxOpens,   \* bound: openings of the database
  MaxFaults   \* bound: files lost or damaged from outside

VARIABLES
  files,      \* files[k]: the payload at the path of k, Garbage or None
  mutation,   \* the thread that holds the mutation lock, or None
  call,       \* call[t]: the call that thread t executes
  damaged,    \* keys whose file was hit by a fault since it was last written
  faults      \* number of faults so far

vars == <<blocks, ownerEpoch, open, files, mutation, call, damaged, faults>>

ASSUME NVMeAssumption ==
  /\ NVMe \in Tiers /\ Keys \subseteq Uris /\ PeerKeys \subseteq Keys
  /\ IsFiniteSet(Threads) /\ IsFiniteSet(Keys)
  /\ None \notin Threads \cup Keys \cup Descriptors \cup {Garbage}
  /\ Garbage \notin Descriptors
  /\ None \notin [key: Keys, tier: Tiers, desc: Descriptors]
  /\ Bytes \in [Descriptors -> Nat] /\ MaxBytes \in Nat

\* A call of `op' on key k, with payload d to store, that stands at pc.
NewCall(pc, op, k, d) ==
  [pc |-> pc, op |-> op, key |-> k, val |-> d,
   want |-> None,       \* descriptor of the acquired row
   vic |-> None,        \* block evicted to make room
   verdict |-> "none",  \* of the checks of a load
   cur |-> 0]           \* `current' of _ensure_capacity

Idle == NewCall("idle", "none", None, None)

Init ==
  /\ blocks = [k \in Keys |-> [t \in Tiers |-> NoRow]]
  /\ ownerEpoch = 0 /\ open = FALSE
  /\ files = [k \in Keys |-> None]
  /\ mutation = None
  /\ call = [t \in Threads |-> Idle]
  /\ damaged = {} /\ faults = 0

-----------------------------------------------------------------------------
(* Helpers *)

At(t, pc) == open /\ call[t].pc = pc

Go(t, pc) == call' = [call EXCEPT ![t].pc = pc]

MayLock(t) == mutation \in {None, t}

\* The call ends, by return or by exception; with it the outermost `with'.
Return(t) ==
  /\ call' = [call EXCEPT ![t] = Idle]
  /\ mutation' = IF mutation = t THEN None ELSE mutation

Stored(k) == files[k] # None

\* The end of lookup(): the row of a block whose file is gone is deleted,
\* unless a reader holds it.
DropStale(k) ==
  IF Active(k, NVMe) /\ ~Stored(k) /\ ~Pinned(k, NVMe)
  THEN Delete(k, NVMe)
  ELSE UNCHANGED mdVars

\* What the row of k adds to bytes_used().
RowBytes ==
  [k \in Keys |-> IF Active(k, NVMe) THEN Bytes[blocks[k][NVMe].desc] ELSE 0]

BytesUsed == SumFunctionOnSet(RowBytes, Keys)

\* The block that an eviction is about: the victim of _ensure_capacity, or the
\* key of the call.
Target(t) == IF call[t].vic # None THEN call[t].vic ELSE call[t].key

-----------------------------------------------------------------------------
(* lookup() and load() *)

\* A call on a key without an active row returns at once.
LookupCall(t, k, op) ==
  /\ At(t, "idle")
  /\ Active(k, NVMe)
  /\ call' = [call EXCEPT ![t] = NewCall("exists", op, k, None)]
  /\ UNCHANGED <<mdVars, files, mutation, damaged, faults>>

LookupHit(t) ==
  /\ \/ At(t, "exists")
     \/ At(t, "stale") /\ MayLock(t) /\ Active(call[t].key, NVMe)
  /\ Stored(call[t].key)
  /\ IF call[t].op = "lookup" THEN Return(t) ELSE Go(t, "acquire") /\ UNCHANGED mutation
  /\ UNCHANGED <<mdVars, files, damaged, faults>>

LookupMiss(t) ==
  /\ At(t, "exists")
  /\ ~Stored(call[t].key)
  /\ Go(t, "stale")
  /\ UNCHANGED <<mdVars, files, mutation, damaged, faults>>

\* The second look, under the lock.
LookupStale(t) ==
  /\ At(t, "stale") /\ MayLock(t)
  /\ ~(Active(call[t].key, NVMe) /\ Stored(call[t].key))
  /\ DropStale(call[t].key)
  /\ Return(t)
  /\ UNCHANGED <<files, damaged, faults>>

\* Mutant: the location is looked up and not acquired.
LoadWithoutPin(t) ==
  /\ At(t, "acquire") /\ MayLock(t)
  /\ LET k == call[t].key IN
     \/ /\ Active(k, NVMe)
        /\ call' = [call EXCEPT ![t].pc = "read", ![t].want = blocks[k][NVMe].desc]
        /\ UNCHANGED mutation
     \/ ~Active(k, NVMe) /\ Return(t)
  /\ UNCHANGED <<mdVars, files, damaged, faults>>

LoadAcquire(t) ==
  /\ At(t, "acquire") /\ MayLock(t)
  /\ LET k == call[t].key IN
     \/ /\ Acquire(k, NVMe)
        /\ call' = [call EXCEPT ![t].pc = "read", ![t].want = blocks[k][NVMe].desc]
        /\ UNCHANGED mutation
     \/ /\ ~Active(k, NVMe)
        /\ Return(t)
        /\ UNCHANGED mdVars
  /\ UNCHANGED <<files, damaged, faults>>

\* A missing file is an OSError; any other content than the location's is
\* corruption.
LoadRead(t) ==
  /\ At(t, "read")
  /\ LET f == files[call[t].key] IN
     call' = [call EXCEPT
                ![t].pc = IF f = call[t].want THEN "verify" ELSE "release",
                ![t].verdict = CASE f = call[t].want -> "none"
                                 [] f = None -> "error"
                                 [] OTHER -> "corrupt"]
  /\ UNCHANGED <<mdVars, files, mutation, damaged, faults>>

\* get_metadata() against the header that was read.
LoadVerify(t) ==
  /\ At(t, "verify")
  /\ LET k == call[t].key IN
     call' = [call EXCEPT
                ![t].pc = "release",
                ![t].verdict = IF Active(k, NVMe) /\ blocks[k][NVMe].desc = call[t].want
                               THEN "ok" ELSE "corrupt"]
  /\ UNCHANGED <<mdVars, files, mutation, damaged, faults>>

\* The finally clause, and what follows it: a corrupt block is evicted; a
\* store that found its block already there compares and publishes it again.
LoadRelease(t) ==
  /\ At(t, "release")
  /\ Release(call[t].key, NVMe)
  /\ CASE call[t].verdict = "corrupt" -> Go(t, "begin") /\ UNCHANGED mutation
       [] call[t].verdict = "ok" /\ call[t].op = "store" /\ call[t].val = call[t].want
            -> Go(t, "commit") /\ UNCHANGED mutation
       [] OTHER -> Return(t)
  /\ UNCHANGED <<files, damaged, faults>>

-----------------------------------------------------------------------------
(* evict() *)

EvictCall(t, k) ==
  /\ At(t, "idle")
  /\ call' = [call EXCEPT ![t] = NewCall("begin", "evict", k, None)]
  /\ UNCHANGED <<mdVars, files, mutation, damaged, faults>>

\* A victim chosen for room is still unpinned: pins are taken under the lock.
EvictBegin(t) ==
  /\ At(t, "begin") /\ MayLock(t)
  /\ \/ /\ BeginDelete(Target(t), NVMe)
        /\ Go(t, "unlink")
        /\ mutation' = t
     \/ /\ ~CanBeginDelete(Target(t), NVMe)
        /\ Return(t)
        /\ UNCHANGED mdVars
  /\ UNCHANGED <<files, damaged, faults>>

\* Mutant: every error of unlink() is ignored.
EvictUnlinkIgnoringErrors(t) ==
  /\ At(t, "unlink")
  /\ files' \in {files, [files EXCEPT ![Target(t)] = None]}
  /\ Go(t, "finish")
  /\ UNCHANGED <<mdVars, mutation, damaged, faults>>

\* unlink() succeeds, finds no file, or fails and leaves the tombstone.
EvictUnlink(t) ==
  /\ At(t, "unlink")
  /\ \/ /\ files' = [files EXCEPT ![Target(t)] = None]
        /\ Go(t, "finish")
        /\ UNCHANGED mutation
     \/ /\ Stored(Target(t))
        /\ Return(t)
        /\ UNCHANGED files
  /\ UNCHANGED <<mdVars, damaged, faults>>

EvictFinish(t) ==
  /\ At(t, "finish")
  /\ FinishDelete(Target(t), NVMe)
  /\ \/ /\ call[t].vic # None
        /\ call' = [call EXCEPT ![t].pc = "room", ![t].vic = None,
                      ![t].cur = @ - Bytes[blocks[call[t].vic][NVMe].desc]]
        /\ UNCHANGED mutation
     \/ /\ call[t].vic = None
        /\ Return(t)
  /\ UNCHANGED <<files, damaged, faults>>

-----------------------------------------------------------------------------
(* store() *)

\* Mutant: store() does not ask is_deleting().
StoreCallOverTombstone(t, k, d) ==
  /\ At(t, "idle")
  /\ mutation = None
  /\ Bytes[d] <= MaxBytes /\ DescriptorFits(k, d)
  /\ mutation' = t
  /\ call' = [call EXCEPT ![t] =
                NewCall(IF Active(k, NVMe) /\ Stored(k) THEN "exists" ELSE "measure",
                        "store", k, d)]
  /\ DropStale(k)
  /\ UNCHANGED <<files, damaged, faults>>

\* Under the lock from the first check to the return.  The block is either
\* there already, and is loaded to compare it, or has to be written.
StoreCall(t, k, d) ==
  /\ At(t, "idle")
  /\ mutation = None
  /\ ~Deleting(k, NVMe) /\ Bytes[d] <= MaxBytes /\ DescriptorFits(k, d)
  /\ mutation' = t
  /\ call' = [call EXCEPT ![t] =
                NewCall(IF Active(k, NVMe) /\ Stored(k) THEN "exists" ELSE "measure",
                        "store", k, d)]
  /\ DropStale(k)
  /\ UNCHANGED <<files, damaged, faults>>

\* _ensure_capacity, before its loop.
StoreMeasure(t) ==
  /\ At(t, "measure")
  /\ LET k == call[t].key IN
     /\ call' = [call EXCEPT
                   ![t].pc = "room",
                   ![t].cur = IF Active(k, NVMe) /\ Stored(k)
                              THEN BytesUsed - Bytes[blocks[k][NVMe].desc]
                              ELSE BytesUsed]
     /\ DropStale(k)
  /\ UNCHANGED <<files, mutation, damaged, faults>>

\* Mutant: the incoming block is not counted.
FitsBefore(t) == call[t].cur <= MaxBytes

Fits(t) == call[t].cur + Bytes[call[t].val] <= MaxBytes

\* One turn of the loop: it fits, a candidate is evicted, or StoreFull.
StoreRoom(t) ==
  /\ At(t, "room")
  /\ LET candidates == LruCandidates(NVMe) \ {call[t].key} IN
     \/ Fits(t) /\ Go(t, "write") /\ UNCHANGED mutation
     \/ /\ ~Fits(t)
        /\ \E k \in candidates :
             call' = [call EXCEPT ![t].pc = "begin", ![t].vic = k]
        /\ UNCHANGED mutation
     \/ ~Fits(t) /\ candidates = {} /\ Return(t)
  /\ UNCHANGED <<mdVars, files, damaged, faults>>

\* Mutant: metadata first; the payload is left for later.
StoreWriteSkipped(t) ==
  /\ At(t, "write")
  /\ Go(t, "commit")
  /\ UNCHANGED <<mdVars, files, mutation, damaged, faults>>

\* A temporary file replaces the old one in one step, or the write fails.
StoreWrite(t) ==
  /\ At(t, "write")
  /\ \/ /\ files' = [files EXCEPT ![call[t].key] = call[t].val]
        /\ damaged' = damaged \ {call[t].key}
        /\ Go(t, "commit")
        /\ UNCHANGED mutation
     \/ Return(t) /\ UNCHANGED <<files, damaged>>
  /\ UNCHANGED <<mdVars, faults>>

\* upsert(), which may be refused or fail: the file is then an orphan.
StoreCommit(t) ==
  /\ At(t, "commit")
  /\ \/ Upsert(call[t].key, NVMe, call[t].val, call[t].key)
     \/ UNCHANGED mdVars
  /\ Return(t)
  /\ UNCHANGED <<files, damaged, faults>>
-----------------------------------------------------------------------------
(* Environment *)

\* The other tiers of the process publish and withdraw their own rows, under
\* the same lock.
PeerTier ==
  /\ mutation = None
  /\ \E k \in PeerKeys, p \in Tiers \ {NVMe} :
       \/ \E d \in Descriptors : Upsert(k, p, d, k)
       \/ Delete(k, p) \/ BeginDelete(k, p) \/ FinishDelete(k, p)
  /\ UNCHANGED <<files, mutation, call, damaged, faults>>

\* A file disappears or is damaged behind the tier's back.
Fault(k) ==
  /\ faults < MaxFaults
  /\ Stored(k)
  /\ \E f \in {None, Garbage} : files' = [files EXCEPT ![k] = f]
  /\ damaged' = damaged \cup {k}
  /\ faults' = faults + 1
  /\ UNCHANGED <<mdVars, mutation, call>>

\* The process ends between any two steps; table and files survive.
Crash ==
  /\ Close
  /\ call' = [t \in Threads |-> Idle]
  /\ mutation' = None
  /\ UNCHANGED <<files, damaged, faults>>

Reopen ==
  /\ ownerEpoch < MaxOpens
  /\ Open
  /\ UNCHANGED <<files, mutation, call, damaged, faults>>

-----------------------------------------------------------------------------
(* Specification *)

Calls(t) ==
  \E k \in Keys :
    \/ \E op \in {"lookup", "load"} : LookupCall(t, k, op)
    \/ EvictCall(t, k)
    \/ \E d \in Descriptors : StoreCall(t, k, d)

Step(t) ==
  \/ LookupHit(t) \/ LookupMiss(t) \/ LookupStale(t)
  \/ LoadAcquire(t) \/ LoadRead(t) \/ LoadVerify(t) \/ LoadRelease(t)
  \/ EvictBegin(t) \/ EvictUnlink(t) \/ EvictFinish(t)
  \/ StoreMeasure(t) \/ StoreRoom(t) \/ StoreWrite(t) \/ StoreCommit(t)

Next ==
  \/ \E t \in Threads : Calls(t) \/ Step(t)
  \/ PeerTier
  \/ \E k \in Keys : Fault(k)
  \/ Crash
  \/ Reopen

Spec == Init /\ [][Next]_vars

-----------------------------------------------------------------------------
(* Properties *)

\* The pin of load() lasts from lookup_and_acquire to the finally clause.
Held ==
  [t \in Threads |->
     IF call[t].pc \in {"read", "verify", "release"}
     THEN [key |-> call[t].key, tier |-> NVMe, desc |-> call[t].want]
     ELSE None]

\* Payload first, metadata last: a published block has its payload on disk,
\* at every moment and after a crash at any moment, unless a fault hit the
\* file (os.replace before upsert in store, begin_delete before unlink in
\* evict).
PublishedHasPayload ==
  \A k \in Keys : Active(k, NVMe) /\ k \notin damaged
                   => files[k] = blocks[k][NVMe].desc

\* The published blocks never take more than max_bytes, whatever failed or
\* crashed on the way, and the running total of _ensure_capacity, which is
\* taken once and then only corrected by what evict() removed, is never less
\* than what the other blocks really take.
CapacityRespected ==
  /\ BytesUsed <= MaxBytes
  /\ \A t \in Threads : call[t].pc \in {"room", "write"} =>
       SumFunctionOnSet(RowBytes, Keys \ {call[t].key}) <= call[t].cur

\* A load that got its pin fails only because of a fault: no eviction,
\* overwriting store or restart of another thread makes it miss the file, see
\* foreign bytes or see other metadata.
HealthyLoadSucceeds ==
  [][\A t \in Threads :
       call[t].pc \in {"read", "verify"} /\ call'[t].verdict \in {"error", "corrupt"}
         => call[t].key \in damaged]_vars

\* The tombstone outlives the file: the row of a deleted block disappears only
\* when its payload has, so a retry after a failed unlink or a crash finds it.
TombstoneOutlivesFile ==
  [][\A k \in Keys : Deleting(k, NVMe) /\ blocks'[k][NVMe] = NoRow
                      => files[k] = None]_vars

\* evict never meets `delete tombstone disappeared before metadata commit',
\* and store never meets a refused upsert after it has written its file: what
\* begin_delete and the preflight checks of store established still holds
\* when it is relied upon.
ChecksStillHold ==
  \A t \in Threads :
    /\ call[t].pc \in {"unlink", "finish"} => Deleting(Target(t), NVMe)
    /\ call[t].pc \in {"write", "commit"} => CanUpsert(call[t].key, NVMe, call[t].val)
=============================================================================
