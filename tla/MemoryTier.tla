----------------------------- MODULE MemoryTier -----------------------------
(***************************************************************************)
(* kvstore/kvstore/memory_tier.py: blocks kept in a dictionary of the      *)
(* process, published through the metadata table like those of every tier. *)
(*                                                                         *)
(* Every operation holds the tier's own _lock from beginning to end, so    *)
(* one call is under way at a time (variable `call').  The mutation lock   *)
(* of the table is taken for one transaction at a time only: between two   *)
(* of them clients pin and unpin rows, and another tier publishes and      *)
(* withdraws the same keys.  The rows survive the process, the dictionary  *)
(* does not.                                                               *)
(*                                                                         *)
(* The order of the dictionary is left out: which of the evictable blocks  *)
(* makes room is a free choice.  A payload is identified with its          *)
(* descriptor.                                                             *)
(***************************************************************************)
EXTENDS MetadataStore, FiniteSetsExt

CONSTANTS
  Mem,        \* this tier, a member of Tiers
  Peer,       \* another tier
  PeerKeys,   \* bound: keys the other tier works on
  Size,       \* Size[d]: bytes of payload d
  MaxBytes,   \* max_bytes
  None,       \* no payload, unused field
  MaxOpens,   \* bound: openings of the database
  MaxPins,    \* bound: pins of clients at a time
  MaxFaults   \* bound: payloads damaged in memory

VARIABLES
  data,       \* _data: the payload of a key or None
  damaged,    \* keys whose payload no longer has its checksum
  used,       \* _used_bytes
  call,       \* the call that holds _lock
  pins,       \* pins[k]: clients that hold the row of k
  faults      \* number of faults so far

ASSUME MemAssumption ==
  /\ Mem \in Tiers /\ Peer \in Tiers \ {Mem}
  /\ IsFiniteSet(Keys) /\ Uris # {}
  /\ Size \in [Descriptors -> Nat] /\ MaxBytes \in Nat
  /\ None \notin Keys \cup Descriptors

memVars == <<data, damaged, used>>
vars    == <<mdVars, memVars, call, pins, faults>>

Uri == CHOOSE u \in Uris : TRUE

\* A call of `op' on key k, with payload v to store, that stands at pc.
NewCall(pc, op, k, v) ==
  [pc |-> pc, op |-> op, key |-> k, val |-> v, ok |-> TRUE]

Idle == NewCall("idle", "none", None, None)

Init ==
  /\ blocks = [k \in Keys |-> [t \in Tiers |-> NoRow]]
  /\ ownerEpoch = 0 /\ open = FALSE
  /\ data = [k \in Keys |-> None] /\ damaged = {} /\ used = 0
  /\ call = Idle
  /\ pins = [k \in Keys |-> 0]
  /\ faults = 0

-----------------------------------------------------------------------------
(* Helpers *)

At(pc) == open /\ call.pc = pc
Go(pc) == call' = [call EXCEPT !.pc = pc]
Return == call' = Idle

Resident(k) == data[k] # None

\* The payload of k is taken out of the dictionary.
Pop(k) ==
  /\ data' = [data EXCEPT ![k] = None]
  /\ used' = used - Size[data[k]]
  /\ damaged' = damaged \ {k}

Evictable(k) == Resident(k) /\ Active(k, Mem) /\ ~Pinned(k, Mem)

\* Mutant: the payload goes although delete() refused.
EvictKeyAnyway(k) ==
  IF Resident(k)
  THEN Pop(k) /\ (IF Evictable(k) THEN Delete(k, Mem) ELSE UNCHANGED mdVars)
  ELSE UNCHANGED <<mdVars, memVars>>

\* evict(): no tombstone is needed, the payload goes under _lock.
EvictKey(k) ==
  IF Evictable(k) THEN Delete(k, Mem) /\ Pop(k)
                  ELSE UNCHANGED <<mdVars, memVars>>

-----------------------------------------------------------------------------
(* lookup(), load() and evict() *)

\* lookup, load and evict.
Call(k, op) ==
  /\ At("idle")
  /\ call' = NewCall(IF op = "evict" THEN "evict" ELSE "lookup", op, k, None)
  /\ UNCHANGED <<mdVars, memVars, pins, faults>>

\* Row and payload are reconciled: a row without payload is deleted unless it
\* is pinned, a payload without row is dropped.  Then the call goes on.
Lookup ==
  /\ At("lookup")
  /\ LET k == call.key
         hit == Active(k, Mem) /\ Resident(k)
     IN  /\ IF Active(k, Mem) /\ ~Resident(k) /\ ~Pinned(k, Mem)
            THEN Delete(k, Mem) ELSE UNCHANGED mdVars
         /\ IF ~Active(k, Mem) /\ Resident(k) THEN Pop(k) ELSE UNCHANGED memVars
         /\ CASE call.op = "load" /\ hit -> Go("acquire")
              [] call.op = "store" /\ ~hit -> Go("room")
              [] call.op = "store" /\ hit /\ data[k] = call.val /\ k \notin damaged -> Go("republish")
              [] OTHER -> Return
  /\ UNCHANGED <<pins, faults>>

LoadAcquire ==
  /\ At("acquire")
  /\ Acquire(call.key, Mem)
  /\ Go("read")
  /\ UNCHANGED <<memVars, pins, faults>>

\* The payload is compared with the row's byte count and checksum.
LoadRead ==
  /\ At("read")
  /\ LET k == call.key IN
       call' = [call EXCEPT !.pc = "release",
                            !.ok = /\ k \notin damaged
                                   /\ Active(k, Mem) /\ blocks[k][Mem].desc = data[k]]
  /\ UNCHANGED <<mdVars, memVars, pins, faults>>

\* The finally clause; a corrupt payload is then evicted.
LoadRelease ==
  /\ At("release")
  /\ Release(call.key, Mem)
  /\ IF call.ok THEN Return ELSE Go("evict")
  /\ UNCHANGED <<memVars, pins, faults>>

Evict ==
  /\ At("evict")
  /\ EvictKey(call.key)
  /\ Return
  /\ UNCHANGED <<pins, faults>>

-----------------------------------------------------------------------------
(* store() *)

StoreCall(k, d) ==
  /\ At("idle")
  /\ Size[d] <= MaxBytes
  /\ DescriptorFits(k, d)
  /\ call' = NewCall("lookup", "store", k, d)
  /\ UNCHANGED <<mdVars, memVars, pins, faults>>

\* The block is there already: upsert(), which may fail.
StoreRepublish ==
  /\ At("republish")
  /\ \/ Upsert(call.key, Mem, call.val, Uri)
     \/ UNCHANGED mdVars
  /\ Return
  /\ UNCHANGED <<memVars, pins, faults>>

\* One round of _ensure_capacity, or the insertion once there is room.
StoreRoom ==
  /\ At("room")
  /\ LET k == call.key
         fits == used + Size[call.val] <= MaxBytes \/ Size[call.val] = 0
         victims == {v \in Keys \ {k} : Evictable(v)}
     IN \/ /\ fits
           /\ data' = [data EXCEPT ![k] = call.val]
           /\ used' = used + Size[call.val]
           /\ Go("commit")
           /\ UNCHANGED <<mdVars, damaged>>
        \/ ~fits /\ (\E v \in victims : EvictKey(v)) /\ UNCHANGED call
        \/ ~fits /\ victims = {} /\ Return /\ UNCHANGED <<mdVars, memVars>>
  /\ UNCHANGED <<pins, faults>>

\* Mutant: the rollback forgets _used_bytes.
StoreCommitKeepingBytes ==
  /\ At("commit")
  /\ \/ Upsert(call.key, Mem, call.val, Uri) /\ UNCHANGED memVars
     \/ data' = [data EXCEPT ![call.key] = None] /\ UNCHANGED <<mdVars, used, damaged>>
  /\ Return
  /\ UNCHANGED <<pins, faults>>

\* upsert().  It fails, too, when another tier has published the key with
\* another payload since store() validated the descriptor; the insertion is
\* then rolled back.
StoreCommit ==
  /\ At("commit")
  /\ \/ Upsert(call.key, Mem, call.val, Uri) /\ UNCHANGED memVars
     \/ Pop(call.key) /\ UNCHANGED mdVars
  /\ Return
  /\ UNCHANGED <<pins, faults>>

-----------------------------------------------------------------------------
(* Environment *)

\* Clients of the table hold rows without holding _lock.
Pin(k) ==
  /\ pins[k] < MaxPins
  /\ Acquire(k, Mem)
  /\ pins' = [pins EXCEPT ![k] = @ + 1]
  /\ UNCHANGED <<memVars, call, faults>>

Unpin(k) ==
  /\ pins[k] > 0
  /\ Release(k, Mem)
  /\ pins' = [pins EXCEPT ![k] = @ - 1]
  /\ UNCHANGED <<memVars, call, faults>>

\* Another tier publishes or withdraws a key.
PeerTier(k) ==
  /\ k \in PeerKeys
  /\ \/ \E d \in Descriptors : Upsert(k, Peer, d, Uri)
     \/ Delete(k, Peer)
  /\ UNCHANGED <<memVars, call, pins, faults>>

Fault(k) ==
  /\ open /\ faults < MaxFaults
  /\ Resident(k)
  /\ damaged' = damaged \cup {k}
  /\ faults' = faults + 1
  /\ UNCHANGED <<mdVars, data, used, call, pins>>

\* The process ends between any two steps.
Crash ==
  /\ Close
  /\ data' = [k \in Keys |-> None] /\ damaged' = {} /\ used' = 0
  /\ call' = Idle
  /\ pins' = [k \in Keys |-> 0]
  /\ UNCHANGED faults

Reopen ==
  /\ ownerEpoch < MaxOpens
  /\ Open
  /\ UNCHANGED <<memVars, call, pins, faults>>

-----------------------------------------------------------------------------
(* Specification *)

Next ==
  \/ \E k \in Keys : \/ \E op \in {"lookup", "load", "evict"} : Call(k, op)
                     \/ \E d \in Descriptors : StoreCall(k, d)
  \/ Lookup \/ LoadAcquire \/ LoadRead \/ LoadRelease \/ Evict
  \/ StoreRepublish \/ StoreRoom \/ StoreCommit
  \/ \E k \in Keys : Pin(k) \/ Unpin(k) \/ PeerTier(k) \/ Fault(k)
  \/ Crash
  \/ Reopen

Spec == Init /\ [][Next]_vars

-----------------------------------------------------------------------------
(* Properties *)

\* What a key takes in memory.
ResidentBytes == [k \in Keys |-> IF Resident(k) THEN Size[data[k]] ELSE 0]

\* Between calls the dictionary, the byte counter and the table agree: what is
\* in memory is published with that payload, _used_bytes is the sum of the
\* payloads in memory, and never more than max_bytes, whatever failed, was
\* evicted for room or rolled back on the way.
ResidentIsPublished ==
  call.pc = "idle" =>
    /\ \A k \in Keys : Resident(k) => Active(k, Mem) /\ blocks[k][Mem].desc = data[k]
    /\ used = SumFunctionOnSet(ResidentBytes, Keys)
    /\ used <= MaxBytes

\* A block that a client has pinned stays in memory until the process ends:
\* neither evict(), nor the eviction of a corrupt block, nor a store that needs
\* room takes it (evict() pops only what delete() has let go).  The exception
\* is a store() not yet committed over a row that outlived its process.
PinnedStaysResident ==
  [][\A k \in Keys : pins[k] > 0 /\ Resident(k) /\ ~(At("commit") /\ call.key = k) /\ open'
       => data'[k] = data[k] /\ Active(k, Mem)']_vars
=============================================================================
