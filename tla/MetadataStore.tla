---------------------------- MODULE MetadataStore ----------------------------
(***************************************************************************)
(* kvstore/kvstore/metadata_store.py: the SQLite table `blocks`, one row   *)
(* per (BlockKey, tier), that every storage tier publishes through.        *)
(*                                                                         *)
(* Each SQL transaction is one action.  A call that the code refuses       *)
(* changes nothing, so the action is simply not enabled; the tiers' models *)
(* test the same guards to choose their error paths.  MetadataClients puts *)
(* the transactions into a specification.                                  *)
(*                                                                         *)
(* Left out: last_access, reuse_count and created_at.  They only order the *)
(* candidates of an eviction, which the tiers' models choose freely, so    *)
(* touch() changes nothing that is modelled.                               *)
(***************************************************************************)
EXTENDS Integers, FiniteSets

CONSTANTS
  Keys,         \* BlockKey (hash and namespace together)
  Tiers,        \* TierName
  Descriptors,  \* payload_descriptor(): checksum, length, dtype, shape, tokens
  Uris,         \* physical locations
  NoRow         \* the key has no row in the tier

VARIABLES
  blocks,       \* the table: blocks[k][t] is a row or NoRow
  ownerEpoch,   \* _owner_epoch of the latest owner; 0 stands for ''
  open          \* a live process holds the owner lock

mdVars == <<blocks, ownerEpoch, open>>

Row == [state: {"active", "deleting"}, desc: Descriptors, uri: Uris,
        inFlight: Nat, epoch: Nat]

ASSUME NoRowAssumption == NoRow \notin Row

-----------------------------------------------------------------------------
(* Queries *)

Active(k, t)   == blocks[k][t] # NoRow /\ blocks[k][t].state = "active"
Deleting(k, t) == blocks[k][t] # NoRow /\ blocks[k][t].state = "deleting"

\* The row counts a reader of the live owner.
Pinned(k, t) == /\ Active(k, t)
                /\ blocks[k][t].inFlight > 0
                /\ blocks[k][t].epoch = ownerEpoch

\* Mutant: the tombstones of the key are not compared.
DescriptorFitsActiveRows(k, d) ==
  \A t \in Tiers : Active(k, t) => blocks[k][t].desc = d

\* _validate_payload_descriptor_locked: every row of the key, in whatever tier
\* and state, already has this descriptor.
DescriptorFits(k, d) ==
  \A t \in Tiers : blocks[k][t] # NoRow => blocks[k][t].desc = d

\* lru_candidates: what an eviction for room may choose from.
LruCandidates(t) == {k \in Keys : Active(k, t) /\ ~Pinned(k, t)}

-----------------------------------------------------------------------------
(* Transactions *)

SetRow(k, t, row) == blocks' = [blocks EXCEPT ![k][t] = row]

\* Mutant: a tombstone can be published over.
CanUpsertOverTombstone(k, t, d) == DescriptorFits(k, d)

CanUpsert(k, t, d) == DescriptorFits(k, d) /\ ~Deleting(k, t)

\* The counter survives a re-publication only within the owner's own epoch.
KeptInFlight(k, t) ==
  IF blocks[k][t] # NoRow /\ blocks[k][t].epoch = ownerEpoch
  THEN blocks[k][t].inFlight ELSE 0

\* Mutant: a re-publication forgets the readers of the row it replaces.
UpsertForgettingReaders(k, t, d, u) ==
  /\ open
  /\ CanUpsert(k, t, d)
  /\ SetRow(k, t, [state |-> "active", desc |-> d, uri |-> u,
                   inFlight |-> 0, epoch |-> ownerEpoch])
  /\ UNCHANGED <<ownerEpoch, open>>

Upsert(k, t, d, u) ==
  /\ open
  /\ CanUpsert(k, t, d)
  /\ SetRow(k, t, [state |-> "active", desc |-> d, uri |-> u,
                   inFlight |-> KeptInFlight(k, t), epoch |-> ownerEpoch])
  /\ UNCHANGED <<ownerEpoch, open>>

\* acquire and lookup_and_acquire are the same UPDATE.
Acquire(k, t) ==
  /\ open
  /\ Active(k, t)
  /\ SetRow(k, t, [blocks[k][t] EXCEPT
                     !.inFlight = KeptInFlight(k, t) + 1,
                     !.epoch = ownerEpoch])
  /\ UNCHANGED <<ownerEpoch, open>>

\* release: MAX(in_flight - 1, 0), and only on a row of the owner's epoch.
Release(k, t) ==
  /\ open
  /\ IF blocks[k][t] # NoRow /\ blocks[k][t].epoch = ownerEpoch
     THEN SetRow(k, t, [blocks[k][t] EXCEPT !.inFlight = IF @ = 0 THEN 0 ELSE @ - 1])
     ELSE UNCHANGED blocks
  /\ UNCHANGED <<ownerEpoch, open>>

\* delete: the row of a payload found missing.
Delete(k, t) ==
  /\ open
  /\ Active(k, t)
  /\ ~Pinned(k, t)
  /\ SetRow(k, t, NoRow)
  /\ UNCHANGED <<ownerEpoch, open>>

\* Mutant: readers do not hold a deletion back.
CanBeginDeleteUnderReaders(k, t) == blocks[k][t] # NoRow

\* begin_delete: an active row becomes a tombstone; a tombstone is returned
\* again, so an interrupted deletion can be retried.  The row of a reader of
\* the live owner is left alone.
CanBeginDelete(k, t) == blocks[k][t] # NoRow /\ ~Pinned(k, t)

BeginDelete(k, t) ==
  /\ open
  /\ CanBeginDelete(k, t)
  /\ SetRow(k, t, [blocks[k][t] EXCEPT !.state = "deleting",
                                       !.inFlight = IF Active(k, t) THEN 0 ELSE @,
                                       !.epoch = IF Active(k, t) THEN 0 ELSE @])
  /\ UNCHANGED <<ownerEpoch, open>>

FinishDelete(k, t) ==
  /\ open
  /\ Deleting(k, t)
  /\ SetRow(k, t, NoRow)
  /\ UNCHANGED <<ownerEpoch, open>>

\* The transactions that take the mutation lock and change which rows exist.
Write(k, t) ==
  \/ \E d \in Descriptors, u \in Uris : Upsert(k, t, d, u)
  \/ Delete(k, t)
  \/ BeginDelete(k, t)
  \/ FinishDelete(k, t)

\* close() and a crash leave the same table behind: neither resets a counter.
Close ==
  /\ open
  /\ open' = FALSE
  /\ UNCHANGED <<blocks, ownerEpoch>>

\* __init__ with _begin_owner_epoch: take the owner lock under a fresh epoch
\* and clear what dead readers left.
ClearedCounters ==
  [k \in Keys |-> [t \in Tiers |->
     IF blocks[k][t] = NoRow THEN NoRow
     ELSE [blocks[k][t] EXCEPT !.inFlight = 0, !.epoch = 0]]]

Open ==
  /\ ~open
  /\ open' = TRUE
  /\ ownerEpoch' = ownerEpoch + 1
  /\ blocks' = ClearedCounters
=============================================================================
