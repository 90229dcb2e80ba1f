--------------------------- MODULE MetadataClients ---------------------------
(***************************************************************************)
(* The threads of the process that owns the metadata database, at the      *)
(* level of the table: what any set of tiers does to it, whichever payload *)
(* store stands behind them.  Readers take and drop pins in matched pairs, *)
(* as the load() methods of the tiers do; every other method may be called *)
(* by anyone at any time; the process may stop, with or without close(),   *)
(* and another one may open the database.                                  *)
(*                                                                         *)
(* held[r] records the row that reader r acquired and has not released.    *)
(***************************************************************************)
EXTENDS MetadataStore

CONSTANTS
  Readers,   \* threads that load blocks
  NotHeld,   \* the reader has acquired no row
  MaxOpens   \* bound: how often the database is opened

VARIABLE held

clientVars == <<blocks, ownerEpoch, open, held>>

Hold == [key: Keys, tier: Tiers, desc: Descriptors]

ASSUME ClientsAssumption == IsFiniteSet(Readers) /\ NotHeld \notin Hold
                              /\ NotHeld \notin Descriptors

TypeOK ==
  /\ blocks \in [Keys -> [Tiers -> Row \cup {NoRow}]]
  /\ ownerEpoch \in Nat
  /\ open \in BOOLEAN
  /\ held \in [Readers -> Hold \cup {NotHeld}]

Init ==
  /\ blocks = [k \in Keys |-> [t \in Tiers |-> NoRow]]
  /\ ownerEpoch = 0
  /\ open = FALSE
  /\ held = [r \in Readers |-> NotHeld]

AcquireBy(r, k, t) ==
  /\ held[r] = NotHeld
  /\ Acquire(k, t)
  /\ held' = [held EXCEPT ![r] =
                [key |-> k, tier |-> t, desc |-> blocks[k][t].desc]]

ReleaseBy(r) ==
  /\ held[r] # NotHeld
  /\ Release(held[r].key, held[r].tier)
  /\ held' = [held EXCEPT ![r] = NotHeld]

\* The readers of a process that stopped are gone with it.
StopOwner == Close /\ held' = [r \in Readers |-> NotHeld]

StartOwner == ownerEpoch < MaxOpens /\ Open /\ UNCHANGED held

Next ==
  \/ \E k \in Keys, t \in Tiers : Write(k, t) /\ UNCHANGED held
  \/ \E r \in Readers, k \in Keys, t \in Tiers : AcquireBy(r, k, t)
  \/ \E r \in Readers : ReleaseBy(r)
  \/ StopOwner
  \/ StartOwner

Spec == Init /\ [][Next]_clientVars

-----------------------------------------------------------------------------
(* Properties *)

HeldBy(k, t) ==
  {r \in Readers : held[r] # NotHeld /\ held[r].key = k /\ held[r].tier = t}

\* A block that a reader has acquired stays published, with the payload that
\* the reader acquired, until the reader releases it: no delete, tombstone or
\* re-publication by another thread gets in between (lookup_and_acquire
\* against delete, begin_delete and upsert).
AcquiredStaysPublished ==
  \A r \in Readers : held[r] # NotHeld =>
    /\ Active(held[r].key, held[r].tier)
    /\ blocks[held[r].key][held[r].tier].desc = held[r].desc

\* in_flight counts exactly the readers of the live process, across crashes
\* and re-publications: no pin is lost and none outlives its owner (a leaked
\* one would make its block impossible to evict for the process's lifetime).
PinsMatchReaders ==
  open => \A k \in Keys, t \in Tiers :
            KeptInFlight(k, t) = Cardinality(HeldBy(k, t))

\* All rows of a BlockKey, in every tier and also while a deletion is
\* pending, describe one payload: upsert's check against every tier's row.
OnePayloadPerKey ==
  \A k \in Keys, t1, t2 \in Tiers :
    blocks[k][t1] # NoRow /\ blocks[k][t2] # NoRow
      => blocks[k][t1].desc = blocks[k][t2].desc

\* A row never changes its descriptor while it exists, and a tombstone keeps
\* its location and only ever disappears: it is never published again, not by
\* a store and not by a restart.
RowLifecycle ==
  [][\A k \in Keys, t \in Tiers :
       /\ blocks[k][t] # NoRow /\ blocks'[k][t] # NoRow
            => blocks'[k][t].desc = blocks[k][t].desc
       /\ Deleting(k, t) /\ blocks'[k][t] # NoRow
            => blocks'[k][t].state = "deleting" /\ blocks'[k][t].uri = blocks[k][t].uri
    ]_clientVars

Published ==
  [k \in Keys |-> [t \in Tiers |->
     IF Active(k, t) THEN blocks[k][t].desc ELSE NotHeld]]

Catalog == INSTANCE BlockCatalog
             WITH published <- Published, reading <- held, Absent <- NotHeld

\* Counters, epochs, tombstones and restarts together implement the catalogue:
\* one payload per key over all tiers, and no withdrawal under a reader.
ImplementsCatalog == Catalog!Spec
=============================================================================
