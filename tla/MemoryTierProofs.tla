-------------------------- MODULE MemoryTierProofs --------------------------
(***************************************************************************)
(* The memory tier and the eviction controller, for any number of keys,    *)
(* tiers, payloads, pins and openings, and for batches of any size.        *)
(***************************************************************************)
EXTENDS EvictionController, TierFacts

\* The tier and its peer are two tiers; nothing is no key or payload.
LEMMA MemConstants ==
  /\ Mem \in Tiers /\ Peer \in Tiers /\ Peer # Mem
  /\ None \notin Keys /\ None \notin Descriptors
  BY MemAssumption, Zenon

USE NoRowAssumption, MemConstants

Payloads == Descriptors \cup {None}

PCs == {"idle", "lookup", "acquire", "read", "release", "evict", "room", "commit", "republish"}

Ops == {"none", "lookup", "load", "evict", "store"}

CallRecords ==
  [pc : PCs, op : Ops, key : Keys \cup {None}, val : Payloads, ok : BOOLEAN]

-----------------------------------------------------------------------------
(* The inductive invariant *)

MemType ==
  /\ blocks \in Table /\ ownerEpoch \in Nat
  /\ call \in CallRecords
  /\ data \in [Keys -> Payloads] /\ used \in Nat
  /\ pins \in [Keys -> Nat]

\* What the call under _lock knows.
CallInv ==
  /\ call.pc # "idle" => open /\ call.key \in Keys
  /\ call.op = "store" => call.val \in Descriptors
  /\ call.pc \in {"room", "commit", "republish"} => call.op = "store"
  /\ call.pc = "room" => data[call.key] = None
  /\ call.pc \in {"commit", "republish"} => data[call.key] = call.val

\* A payload in memory is published, but for the one being stored.
DataInv ==
  \A k \in Keys : Resident(k) =>
    \/ Active(k, Mem) /\ blocks[k][Mem].desc = data[k]
    \/ call.pc = "commit" /\ call.key = k

UsedInv == used = SumFunctionOnSet(ResidentBytes, Keys) /\ used <= MaxBytes

\* The pin of the load under way.
Own(k) == IF call.pc \in {"read", "release"} /\ call.key = k THEN 1 ELSE 0

\* in_flight counts the clients' pins and the load's own.
PinInv ==
  \A k \in Keys : /\ open => KeptInFlight(k, Mem) = pins[k] + Own(k)
                  /\ ~open => pins[k] = 0 /\ data[k] = None

MemInv == MemType /\ CallInv /\ DataInv /\ UsedInv /\ PinInv

-----------------------------------------------------------------------------
(* The tier's rows *)

Count(k) == KeptInFlight(k, Mem)

\* A step leaves the row of k published or unpublished, with its descriptor.
RowKept(k) ==
  /\ Active(k, Mem)' <=> Active(k, Mem)
  /\ Active(k, Mem) => blocks'[k][Mem].desc = blocks[k][Mem].desc

CountKept(k) == Count(k)' = Count(k)

\* What every transaction of the open database leaves.
SameOwner == blocks' \in Table /\ ownerEpoch' = ownerEpoch /\ open' = open

\* Pin counters are natural numbers, and a row is pinned when its counter is not 0.
LEMMA CountType ==
  ASSUME MemType, NEW k \in Keys
  PROVE  /\ Count(k) \in Nat
         /\ blocks[k][Mem] # NoRow => blocks[k][Mem] \in Row
         /\ Pinned(k, Mem) <=> Active(k, Mem) /\ Count(k) > 0
  BY DEF MemType, Table, Row, Count, KeptInFlight, Pinned, Active

\* A row that is not written stays as it is.
LEMMA RowIsKept ==
  ASSUME NEW k \in Keys, blocks'[k][Mem] = blocks[k][Mem], ownerEpoch' = ownerEpoch
  PROVE  RowKept(k) /\ CountKept(k)
  BY Zenon DEF RowKept, CountKept, Count, KeptInFlight, Active

\* A step that leaves the table alone keeps all rows and counters.
LEMMA NoTransaction ==
  ASSUME MemType, UNCHANGED mdVars
  PROVE  SameOwner /\ \A k \in Keys : RowKept(k) /\ CountKept(k)
<1>1. SameOwner
  BY Zenon DEF MemType, mdVars, SameOwner
<1>2. ASSUME NEW k \in Keys PROVE RowKept(k) /\ CountKept(k)
  BY RowIsKept, Zenon DEF mdVars
<1> QED
  BY <1>1, <1>2, Zenon

\* delete() of the tier's own row.
LEMMA DeleteCounts ==
  ASSUME MemType, NEW k \in Keys, Delete(k, Mem)
  PROVE  /\ SameOwner /\ ~Active(k, Mem)' /\ CountKept(k) /\ Active(k, Mem) /\ ~Pinned(k, Mem)
         /\ \A j \in Keys \ {k} : RowKept(j) /\ CountKept(j)
<1>1. /\ blocks' \in Table /\ blocks'[k][Mem] = NoRow /\ OthersKept(k, Mem)
      /\ UNCHANGED <<ownerEpoch, open>>
  BY RemoveFacts, Zenon DEF MemType
<1>2. ASSUME NEW j \in Keys \ {k} PROVE RowKept(j) /\ CountKept(j)
  BY <1>1, RowIsKept, Zenon DEF OthersKept
<1>3. Active(k, Mem) /\ ~Pinned(k, Mem)
  BY Zenon DEF Delete
<1>4. Count(k) = 0
  BY <1>3, CountType
<1>5. Count(k)' = 0 /\ ~Active(k, Mem)'
  BY <1>1, Zenon DEF Count, KeptInFlight, Active
<1> QED
  BY <1>1, <1>2, <1>3, <1>4, <1>5, Zenon DEF SameOwner, CountKept

\* upsert() of the tier's own row keeps its readers.
LEMMA UpsertCounts ==
  ASSUME MemType, NEW k \in Keys, NEW d \in Descriptors, Upsert(k, Mem, d, Uri)
  PROVE  /\ SameOwner /\ Active(k, Mem)' /\ blocks'[k][Mem].desc = d /\ CountKept(k)
         /\ \A j \in Keys \ {k} : RowKept(j) /\ CountKept(j)
<1>0. Uri \in Uris
  BY MemAssumption, Zenon DEF Uri
<1>1. /\ blocks' \in Table /\ OthersKept(k, Mem) /\ UNCHANGED <<ownerEpoch, open>>
      /\ blocks'[k][Mem] # NoRow /\ blocks'[k][Mem].state = "active" /\ blocks'[k][Mem].desc = d
  BY <1>0, UpsertFacts, Zenon DEF MemType
<1>2. ASSUME NEW j \in Keys \ {k} PROVE RowKept(j) /\ CountKept(j)
  BY <1>1, RowIsKept, Zenon DEF OthersKept
<1>3. blocks'[k][Mem] = [state |-> "active", desc |-> d, uri |-> Uri,
                         inFlight |-> Count(k), epoch |-> ownerEpoch]
  BY Zenon DEF Upsert, SetRow, MemType, Table, Count
<1>4. Count(k)' = Count(k)
  BY <1>1, <1>3 DEF Count, KeptInFlight
<1> QED
  BY <1>1, <1>2, <1>4, Zenon DEF SameOwner, CountKept, Active

\* acquire() counts one more reader.
LEMMA AcquireCounts ==
  ASSUME MemType, NEW k \in Keys, Acquire(k, Mem)
  PROVE  /\ SameOwner /\ Count(k)' = Count(k) + 1 /\ \A j \in Keys : RowKept(j)
         /\ \A j \in Keys \ {k} : CountKept(j)
<1>1. blocks' \in Table /\ RowsKept /\ UNCHANGED <<ownerEpoch, open>>
  BY PinFacts, Zenon DEF MemType
<1>2. \A j \in Keys : RowKept(j)
  BY <1>1, Zenon DEF RowsKept, RowKept, Active
<1>3. /\ blocks' = [blocks EXCEPT ![k][Mem] = [blocks[k][Mem] EXCEPT !.inFlight = Count(k) + 1,
                                                                      !.epoch = ownerEpoch]]
      /\ blocks[k][Mem] # NoRow
  BY Zenon DEF Acquire, SetRow, Count, Active
<1>4. blocks[k][Mem] \in Row /\ blocks \in Table
  BY <1>3, CountType, Zenon DEF MemType
<1>5. /\ blocks'[k][Mem].inFlight = Count(k) + 1 /\ blocks'[k][Mem].epoch = ownerEpoch
      /\ \A j \in Keys \ {k} : blocks'[j][Mem] = blocks[j][Mem]
  BY <1>3, <1>4, Zenon DEF Table, Row
<1>6. Count(k)' = Count(k) + 1
  BY <1>1, <1>3, <1>5, Zenon DEF Count, KeptInFlight, RowsKept
<1>7. ASSUME NEW j \in Keys \ {k} PROVE CountKept(j)
  BY <1>1, <1>5, RowIsKept, Zenon
<1> QED
  BY <1>1, <1>2, <1>6, <1>7, Zenon DEF SameOwner

\* release() counts one reader less, if there is one.
LEMMA ReleaseCounts ==
  ASSUME MemType, NEW k \in Keys, Release(k, Mem), Count(k) > 0
  PROVE  /\ SameOwner /\ Count(k)' = Count(k) - 1 /\ \A j \in Keys : RowKept(j)
         /\ \A j \in Keys \ {k} : CountKept(j)
<1>1. blocks' \in Table /\ RowsKept /\ UNCHANGED <<ownerEpoch, open>>
  BY PinFacts, Zenon DEF MemType
<1>2. \A j \in Keys : RowKept(j)
  BY <1>1, Zenon DEF RowsKept, RowKept, Active
<1>3. /\ blocks[k][Mem] # NoRow /\ blocks[k][Mem].epoch = ownerEpoch
      /\ Count(k) = blocks[k][Mem].inFlight /\ blocks[k][Mem] \in Row /\ blocks \in Table
  BY CountType DEF Count, KeptInFlight, MemType
<1>4. blocks' = [blocks EXCEPT ![k][Mem] =
                   [blocks[k][Mem] EXCEPT !.inFlight = IF @ = 0 THEN 0 ELSE @ - 1]]
  BY <1>3, Zenon DEF Release, SetRow
<1>5. /\ blocks'[k][Mem].inFlight = Count(k) - 1 /\ blocks'[k][Mem].epoch = ownerEpoch
      /\ \A j \in Keys \ {k} : blocks'[j][Mem] = blocks[j][Mem]
  BY <1>3, <1>4 DEF Table, Row
<1>6. Count(k)' = Count(k) - 1
  BY <1>1, <1>3, <1>5, Zenon DEF Count, KeptInFlight, RowsKept
<1>7. ASSUME NEW j \in Keys \ {k} PROVE CountKept(j)
  BY <1>1, <1>5, RowIsKept, Zenon
<1> QED
  BY <1>1, <1>2, <1>6, <1>7, Zenon DEF SameOwner

\* Another tier's transactions leave this tier's rows alone.
LEMMA PeerCounts ==
  ASSUME MemType, NEW k \in Keys,
         Delete(k, Peer) \/ \E d \in Descriptors : Upsert(k, Peer, d, Uri)
  PROVE  SameOwner /\ \A j \in Keys : RowKept(j) /\ CountKept(j)
<1>0. Uri \in Uris
  BY MemAssumption, Zenon DEF Uri
<1>1. blocks' \in Table /\ OthersKept(k, Peer) /\ UNCHANGED <<ownerEpoch, open>>
  BY <1>0, UpsertFacts, RemoveFacts, Zenon DEF MemType
<1>2. ASSUME NEW j \in Keys PROVE RowKept(j) /\ CountKept(j)
  BY <1>1, RowIsKept, Zenon DEF OthersKept
<1> QED
  BY <1>1, <1>2, Zenon DEF SameOwner

\* A new owner finds no readers.
LEMMA OpenCounts ==
  ASSUME MemType, Open
  PROVE  /\ blocks' \in Table /\ ownerEpoch' \in Nat /\ open'
         /\ \A k \in Keys : RowKept(k) /\ Count(k)' = 0
<1>1. blocks' \in Table /\ RowsKept /\ ownerEpoch' \in Nat
  BY OpenFacts, Zenon DEF MemType
<1>2. \A k \in Keys : RowKept(k)
  BY <1>1, Zenon DEF RowsKept, RowKept, Active
<1>3. ASSUME NEW k \in Keys PROVE Count(k)' = 0
  <2>1. blocks'[k][Mem] = IF blocks[k][Mem] = NoRow THEN NoRow
                          ELSE [blocks[k][Mem] EXCEPT !.inFlight = 0, !.epoch = 0]
    BY Zenon DEF Open, ClearedCounters
  <2>2. CASE blocks[k][Mem] = NoRow
    BY <2>1, <2>2, Zenon DEF Count, KeptInFlight
  <2>3. CASE blocks[k][Mem] # NoRow
    <3>1. blocks[k][Mem] \in Row
      BY <2>3, CountType, Zenon
    <3>2. blocks'[k][Mem].inFlight = 0
      BY <2>1, <2>3, <3>1, Zenon DEF Row
    <3> QED
      BY <3>2, Zenon DEF Count, KeptInFlight
  <2> QED
    BY <2>2, <2>3, Zenon
<1> QED
  BY <1>1, <1>2, <1>3, Zenon DEF Open

-----------------------------------------------------------------------------
(* The byte counter *)

\* The size of a resident payload.
LEMMA WeightFacts ==
  ASSUME data \in [Keys -> Payloads]
  PROVE  \A k \in Keys : /\ ResidentBytes[k] \in Nat /\ ResidentBytes[k] \in Int
                         /\ data[k] # None => ResidentBytes[k] = Size[data[k]]
                         /\ data[k] = None => ResidentBytes[k] = 0
  BY MemAssumption DEF ResidentBytes, Resident, Payloads

\* A step that leaves dictionary and counter alone keeps their agreement.
LEMMA UsedKept ==
  ASSUME MemType, UsedInv, UNCHANGED <<data, used>>
  PROVE  /\ data' \in [Keys -> Payloads] /\ used' \in Nat /\ UsedInv'
         /\ \A k \in Keys : data'[k] = data[k]
<1>1. ResidentBytes' = ResidentBytes
  BY Zenon DEF ResidentBytes, Resident
<1> QED
  BY <1>1, Zenon DEF UsedInv, MemType

\* One payload comes or goes, and the counter follows.
LEMMA UsedMoves ==
  ASSUME MemType, UsedInv, NEW k \in Keys, NEW v \in Payloads,
         data' = [data EXCEPT ![k] = v],
         used' = used - ResidentBytes[k] + (IF v = None THEN 0 ELSE Size[v]),
         used' <= MaxBytes
  PROVE  /\ data' \in [Keys -> Payloads] /\ used' \in Nat /\ UsedInv'
         /\ data'[k] = v /\ \A j \in Keys \ {k} : data'[j] = data[j]
<1>1. /\ data' \in [Keys -> Payloads] /\ data'[k] = v
      /\ \A j \in Keys \ {k} : data'[j] = data[j]
  BY Zenon DEF MemType
<1>2. \A j \in Keys : ResidentBytes[j] \in Int
  BY WeightFacts, Zenon DEF MemType
<1>3. \A j \in Keys : ResidentBytes'[j] = IF data'[j] # None THEN Size[data'[j]] ELSE 0
  BY Zenon DEF ResidentBytes, Resident
<1>4. \A j \in Keys : ResidentBytes[j] = IF data[j] # None THEN Size[data[j]] ELSE 0
  BY Zenon DEF ResidentBytes, Resident
<1>5. \A j \in Keys : ResidentBytes'[j] \in Nat /\ ResidentBytes'[j] \in Int
  BY <1>1, <1>3, MemAssumption DEF Payloads
<1>6. \A j \in Keys \ {k} : ResidentBytes'[j] = ResidentBytes[j]
  BY <1>1, <1>3, <1>4, Zenon
<1>7. IsFiniteSet(Keys)
  BY MemAssumption, Zenon
<1>8. SumFunctionOnSet(ResidentBytes', Keys)
        = SumFunctionOnSet(ResidentBytes, Keys) - ResidentBytes[k] + ResidentBytes'[k]
  BY <1>2, <1>5, <1>6, <1>7, SumUpdate
<1>9. ResidentBytes'[k] = IF v = None THEN 0 ELSE Size[v]
  BY <1>1, <1>3, Zenon
<1>10. used' = SumFunctionOnSet(ResidentBytes', Keys)
  BY <1>8, <1>9, Zenon DEF UsedInv
<1>11. SumFunctionOnSet(ResidentBytes', Keys) \in Nat
  BY <1>5, <1>7, SumType, Zenon
<1> QED
  BY <1>1, <1>10, <1>11, Zenon DEF UsedInv

\* pop() takes what it removes off _used_bytes.
LEMMA PopFacts ==
  ASSUME MemType, UsedInv, NEW k \in Keys, Resident(k), Pop(k)
  PROVE  /\ data' \in [Keys -> Payloads] /\ used' \in Nat /\ UsedInv'
         /\ data'[k] = None /\ \A j \in Keys \ {k} : data'[j] = data[j]
<1>1. ResidentBytes[k] = Size[data[k]] /\ ResidentBytes[k] \in Nat
  BY WeightFacts, Zenon DEF MemType, Resident
<1>2. used' = used - ResidentBytes[k] + 0 /\ data' = [data EXCEPT ![k] = None]
  BY <1>1 DEF Pop, MemType
<1>3. used' <= MaxBytes
  BY <1>1, <1>2, MemAssumption DEF UsedInv, MemType
<1> QED
  BY <1>2, <1>3, UsedMoves, Zenon DEF Payloads

\* An insertion that fits keeps _used_bytes exact and below max_bytes.
LEMMA InsertFacts ==
  ASSUME MemType, UsedInv, NEW k \in Keys, NEW d \in Descriptors, data[k] = None,
         data' = [data EXCEPT ![k] = d], used' = used + Size[d],
         used + Size[d] <= MaxBytes \/ Size[d] = 0
  PROVE  /\ data' \in [Keys -> Payloads] /\ used' \in Nat /\ UsedInv'
         /\ data'[k] = d /\ \A j \in Keys \ {k} : data'[j] = data[j]
<1>1. ResidentBytes[k] = 0 /\ Size[d] \in Nat /\ d # None
  BY WeightFacts, MemAssumption, Zenon DEF MemType
<1>2. used' = used - ResidentBytes[k] + (IF d = None THEN 0 ELSE Size[d])
  BY <1>1 DEF MemType
<1>3. used' <= MaxBytes
  BY <1>1, MemAssumption DEF UsedInv, MemType
<1> QED
  BY <1>2, <1>3, UsedMoves, Zenon DEF Payloads

-----------------------------------------------------------------------------
(* Calls *)

\* A call that goes on keeps its fields.
LEMMA GoFacts ==
  ASSUME call \in CallRecords, NEW p \in PCs, Go(p)
  PROVE  /\ call' \in CallRecords /\ call'.pc = p /\ call'.key = call.key
         /\ call'.op = call.op /\ call'.val = call.val
  BY Zenon DEF CallRecords, Go

\* The call that is none.
LEMMA IdleFacts == Idle \in CallRecords /\ Idle.pc = "idle" /\ Idle.op = "none"
  BY Zenon DEF Idle, NewCall, CallRecords, PCs, Ops, Payloads

\* A call that has the lock stands on a key of an open database.
LEMMA CallFacts ==
  ASSUME MemInv, call.pc # "idle"
  PROVE  open /\ \E k \in Keys : call.key = k
  BY Zenon DEF MemInv, CallInv

\* The invariant of an open database, put together again.
Bytes == data' \in [Keys -> Payloads] /\ used' \in Nat /\ UsedInv'

\* What a step has to show to keep the invariant.
LEMMA PutTogether ==
  ASSUME MemInv, open, SameOwner, Bytes, call' \in CallRecords, CallInv', DataInv',
         pins' \in [Keys -> Nat], \A k \in Keys : Count(k)' = pins'[k] + Own(k)'
  PROVE  MemInv'
<1>1. MemType'
  BY Zenon DEF MemInv, MemType, SameOwner, Bytes
<1>2. PinInv'
  BY Zenon DEF PinInv, Count, SameOwner
<1> QED
  BY <1>1, <1>2, Zenon DEF MemInv, Bytes

\* A step that moves no pin.
LEMMA NoPinMoves ==
  ASSUME MemInv, open, pins' = pins, \A k \in Keys : CountKept(k) /\ Own(k)' = Own(k)
  PROVE  pins' \in [Keys -> Nat] /\ \A k \in Keys : Count(k)' = pins'[k] + Own(k)'
  BY Zenon DEF MemInv, MemType, PinInv, CountKept, Count

\* Row and payload of k stay, or the payload goes.
Spared(k)  == RowKept(k) /\ data'[k] = data[k]
Dropped(k) == data'[k] = None

\* Payloads that are spared or dropped stay in agreement with their rows.
LEMMA DataKept ==
  ASSUME DataInv, \A k \in Keys : Spared(k) \/ Dropped(k),
         call.pc = "commit" => call'.pc = "commit" /\ call'.key = call.key
  PROVE  DataInv'
<1> SUFFICES ASSUME NEW k \in Keys, Resident(k)'
             PROVE  \/ Active(k, Mem)' /\ (blocks[k][Mem].desc = data[k])'
                    \/ call'.pc = "commit" /\ call'.key = k
  BY Zenon DEF DataInv
<1>1. Resident(k) /\ RowKept(k) /\ data'[k] = data[k]
  BY Zenon DEF Resident, Spared, Dropped
<1> QED
  BY <1>1, Zenon DEF DataInv, RowKept

\* What no step may do to a row with a reader.
PinKept ==
  \A k \in Keys : Pinned(k, Mem) /\ Resident(k) /\ ~(At("commit") /\ call.key = k) /\ open'
                    => data'[k] = data[k] /\ Active(k, Mem)'

\* A step that spares every pinned payload keeps the pinned ones.
LEMMA SparedKeeps ==
  ASSUME \A k \in Keys : \/ Spared(k) \/ ~Pinned(k, Mem) \/ ~Resident(k)
                         \/ At("commit") /\ call.key = k
  PROVE  PinKept
  BY Zenon DEF PinKept, Spared, RowKept, Pinned

Keeps == MemInv' /\ PinKept

\* A step that spares every payload and moves no pin.
LEMMA QuietStep ==
  ASSUME MemInv, open, SameOwner, UNCHANGED <<data, used, pins>>,
         \A k \in Keys : RowKept(k) /\ CountKept(k) /\ Own(k)' = Own(k),
         call' \in CallRecords, CallInv', call.pc = "commit" => call' = call
  PROVE  Keeps
<1>1. Bytes /\ \A k \in Keys : Spared(k)
  BY UsedKept, Zenon DEF MemInv, Bytes, Spared
<1>2. DataInv'
  BY <1>1, DataKept, Zenon DEF MemInv
<1>3. pins' \in [Keys -> Nat] /\ \A k \in Keys : Count(k)' = pins'[k] + Own(k)'
  BY NoPinMoves, Zenon
<1>4. PinKept
  BY <1>1, SparedKeeps, Zenon
<1> QED
  BY <1>1, <1>2, <1>3, <1>4, PutTogether, Zenon DEF Keeps

\* The tier's evict(): a block with a reader is left alone.
LEMMA EvictFacts ==
  ASSUME MemInv, open, NEW k \in Keys, EvictKey(k)
  PROVE  /\ SameOwner /\ Bytes /\ \A j \in Keys : CountKept(j)
         /\ \A j \in Keys : Spared(j) \/ (j = k /\ Dropped(j) /\ ~Pinned(j, Mem))
         /\ ~Evictable(k) => \A j \in Keys : Spared(j)
<1>1. CASE Evictable(k)
  <2>1. Resident(k) /\ Delete(k, Mem) /\ Pop(k) /\ ~Pinned(k, Mem) /\ MemType /\ UsedInv
    BY <1>1, Zenon DEF EvictKey, Evictable, MemInv
  <2>2. Bytes /\ Dropped(k) /\ \A j \in Keys \ {k} : data'[j] = data[j]
    BY <2>1, PopFacts, Zenon DEF Bytes, Dropped
  <2>3. /\ SameOwner /\ CountKept(k)
        /\ \A j \in Keys \ {k} : RowKept(j) /\ CountKept(j)
    BY <2>1, DeleteCounts, Zenon
  <2> QED
    BY <1>1, <2>1, <2>2, <2>3, Zenon DEF Spared
<1>2. CASE ~Evictable(k)
  <2>1. UNCHANGED mdVars /\ UNCHANGED <<data, used>> /\ MemType /\ UsedInv
    BY <1>2, Zenon DEF EvictKey, memVars, MemInv
  <2>2. Bytes /\ \A j \in Keys : data'[j] = data[j]
    BY <2>1, UsedKept, Zenon DEF Bytes
  <2>3. SameOwner /\ \A j \in Keys : RowKept(j) /\ CountKept(j)
    BY <2>1, NoTransaction, Zenon
  <2> QED
    BY <2>2, <2>3, Zenon DEF Spared
<1> QED
  BY <1>1, <1>2, Zenon

\* A step that evicts one block.
LEMMA EvictStep ==
  ASSUME MemInv, open, NEW k \in Keys, EvictKey(k), pins' = pins,
         \A j \in Keys : Own(j)' = Own(j),
         call' \in CallRecords, CallInv', call.pc # "commit"
  PROVE  Keeps
<1>1. /\ SameOwner /\ Bytes /\ \A j \in Keys : CountKept(j)
      /\ \A j \in Keys : Spared(j) \/ (Dropped(j) /\ ~Pinned(j, Mem))
  BY EvictFacts, Zenon
<1>2. DataInv'
  BY <1>1, DataKept, Zenon DEF MemInv
<1>3. pins' \in [Keys -> Nat] /\ \A j \in Keys : Count(j)' = pins'[j] + Own(j)'
  BY <1>1, NoPinMoves, Zenon
<1>4. PinKept
  BY <1>1, SparedKeeps, Zenon
<1> QED
  BY <1>1, <1>2, <1>3, <1>4, PutTogether, Zenon DEF Keeps

-----------------------------------------------------------------------------
(* Steps of the call under _lock *)

\* A call that begins changes nothing else.
LEMMA CallStarts ==
  ASSUME MemInv, NEW k \in Keys,
         (\E op \in {"lookup", "load", "evict"} : Call(k, op))
           \/ (\E d \in Descriptors : StoreCall(k, d))
  PROVE  Keeps
<1> DEFINE Begins(p, op, v) == call' = NewCall(p, op, k, v) /\ (op = "store" => v \in Descriptors)
           Begun == \E p \in {"evict", "lookup"}, op \in {"lookup", "load", "evict", "store"},
                       v \in Payloads : Begins(p, op, v)
<1>a. ASSUME NEW op \in {"lookup", "load", "evict"}, Call(k, op)
      PROVE  At("idle") /\ UNCHANGED <<mdVars, memVars, pins>> /\ Begun
  BY <1>a, Zenon DEF Call, Payloads
<1>b. ASSUME NEW d \in Descriptors, StoreCall(k, d)
      PROVE  At("idle") /\ UNCHANGED <<mdVars, memVars, pins>> /\ Begun
  BY <1>b, Zenon DEF StoreCall, Payloads
<1>1. /\ open /\ call.pc = "idle" /\ UNCHANGED mdVars /\ UNCHANGED <<data, used, pins>> /\ Begun
  <2>1. At("idle") /\ UNCHANGED <<mdVars, memVars, pins>> /\ Begun
    BY <1>a, <1>b, Zenon
  <2> QED
    BY <2>1, Zenon DEF At, memVars
<1>2. PICK p \in {"evict", "lookup"}, op \in {"lookup", "load", "evict", "store"}, v \in Payloads :
        call' = NewCall(p, op, k, v) /\ (op = "store" => v \in Descriptors)
  BY <1>1, Zenon
<1>3. /\ call' \in CallRecords /\ call'.pc = p /\ call'.op = op /\ call'.key = k /\ call'.val = v
  BY <1>2, Zenon DEF NewCall, CallRecords, PCs, Ops
<1>4. SameOwner /\ \A j \in Keys : RowKept(j) /\ CountKept(j)
  BY <1>1, NoTransaction, Zenon DEF MemInv
<1>5. CallInv'
  BY <1>1, <1>2, <1>3, <1>4, Zenon DEF CallInv, SameOwner
<1>6. \A j \in Keys : Own(j)' = Own(j)
  BY <1>1, <1>3, Zenon DEF Own
<1> QED
  BY <1>1, <1>3, <1>4, <1>5, <1>6, QuietStep, Zenon

\* lookup() reconciles row and payload, alone or as the first part of load()
\* and store().
LEMMA LookupStep == ASSUME MemInv, Lookup PROVE Keeps
<1>1. open /\ call.pc = "lookup" /\ UNCHANGED pins
  BY Zenon DEF Lookup, At
<1>2. PICK k \in Keys : call.key = k
  BY <1>1, CallFacts, Zenon
<1> DEFINE hit == Active(k, Mem) /\ Resident(k)
<1>3. /\ IF Active(k, Mem) /\ ~Resident(k) /\ ~Pinned(k, Mem)
         THEN Delete(k, Mem) ELSE UNCHANGED mdVars
      /\ IF ~Active(k, Mem) /\ Resident(k) THEN Pop(k) ELSE UNCHANGED memVars
      /\ CASE call.op = "load" /\ hit -> Go("acquire")
           [] call.op = "store" /\ ~hit -> Go("room")
           [] call.op = "store" /\ hit /\ data[k] = call.val /\ k \notin damaged -> Go("republish")
           [] OTHER -> Return
  BY <1>2, Zenon DEF Lookup
<1>4. MemType /\ UsedInv /\ CallInv /\ DataInv
  BY Zenon DEF MemInv
<1>5. ~(~Active(k, Mem) /\ Resident(k))
  BY <1>1, <1>2, <1>4, Zenon DEF DataInv
<1>6. Bytes /\ UNCHANGED <<data, used>> /\ \A j \in Keys : data'[j] = data[j]
  BY <1>3, <1>4, <1>5, UsedKept, Zenon DEF Bytes, memVars
<1>7. /\ SameOwner /\ \A j \in Keys : CountKept(j)
      /\ \A j \in Keys : RowKept(j) \/ data[j] = None
  <2>1. CASE Active(k, Mem) /\ ~Resident(k) /\ ~Pinned(k, Mem)
    <3>1. Delete(k, Mem)
      BY <1>3, <2>1, Zenon
    <3> QED
      BY <1>4, <2>1, <3>1, DeleteCounts, Zenon DEF Resident
  <2>2. CASE ~(Active(k, Mem) /\ ~Resident(k) /\ ~Pinned(k, Mem))
    <3>1. UNCHANGED mdVars
      BY <1>3, <2>2, Zenon
    <3> QED
      BY <1>4, <3>1, NoTransaction, Zenon
  <2> QED
    BY <2>1, <2>2, Zenon
<1>8. \/ Go("acquire") \/ Return
      \/ Go("room") /\ call.op = "store" /\ data[k] = None
      \/ Go("republish") /\ call.op = "store" /\ data[k] = call.val
  <2>1. CASE call.op = "load" /\ hit
    BY <1>3, <2>1, Zenon
  <2>2. CASE call.op = "store" /\ ~hit
    <3>1. Go("room")
      BY <1>3, <2>2, Zenon
    <3> QED
      BY <1>5, <2>2, <3>1, Zenon DEF Resident
  <2>3. CASE call.op = "store" /\ hit /\ data[k] = call.val /\ k \notin damaged
    BY <1>3, <2>3, Zenon
  <2>4. CASE ~(call.op = "load" /\ hit) /\ ~(call.op = "store" /\ ~hit)
               /\ ~(call.op = "store" /\ hit /\ data[k] = call.val /\ k \notin damaged)
    BY <1>3, <2>4, Zenon
  <2> QED
    BY <2>1, <2>2, <2>3, <2>4, Zenon
<1>9. /\ call' \in CallRecords /\ call'.pc \in {"acquire", "idle", "room", "republish"}
      /\ CallInv' /\ \A j \in Keys : Own(j)' = Own(j)
  <2>0. call \in CallRecords
    BY <1>4, Zenon DEF MemType
  <2>1. CASE Return
    BY <1>1, <2>1, IdleFacts, Zenon DEF Return, CallInv, Own
  <2>2. CASE Go("acquire")
    <3>1. call' \in CallRecords /\ call'.pc = "acquire" /\ call'.key = k /\ call'.op = call.op
          /\ call'.val = call.val
      BY <1>2, <2>0, <2>2, GoFacts, Zenon DEF PCs
    <3> QED
      BY <1>1, <1>4, <1>7, <3>1, Zenon DEF CallInv, Own, SameOwner
  <2>3. CASE Go("room") /\ call.op = "store" /\ data[k] = None
    <3>1. call' \in CallRecords /\ call'.pc = "room" /\ call'.key = k /\ call'.op = call.op
          /\ call'.val = call.val
      BY <1>2, <2>0, <2>3, GoFacts, Zenon DEF PCs
    <3> QED
      BY <1>1, <1>4, <1>6, <1>7, <2>3, <3>1, Zenon DEF CallInv, Own, SameOwner
  <2>4. CASE Go("republish") /\ call.op = "store" /\ data[k] = call.val
    <3>1. call' \in CallRecords /\ call'.pc = "republish" /\ call'.key = k /\ call'.op = call.op
          /\ call'.val = call.val
      BY <1>2, <2>0, <2>4, GoFacts, Zenon DEF PCs
    <3> QED
      BY <1>1, <1>4, <1>6, <1>7, <2>4, <3>1, Zenon DEF CallInv, Own, SameOwner
  <2> QED
    BY <1>8, <2>1, <2>2, <2>3, <2>4, Zenon
<1>10. \A j \in Keys : Spared(j) \/ (Dropped(j) /\ ~Resident(j))
  BY <1>6, <1>7, Zenon DEF Spared, Dropped, Resident
<1>11. DataInv'
  BY <1>1, <1>4, <1>10, DataKept, Zenon
<1>12. pins' \in [Keys -> Nat] /\ \A j \in Keys : Count(j)' = pins'[j] + Own(j)'
  BY <1>1, <1>7, <1>9, NoPinMoves, Zenon
<1>13. PinKept
  BY <1>10, SparedKeeps, Zenon
<1> QED
  BY <1>1, <1>6, <1>7, <1>9, <1>11, <1>12, <1>13, PutTogether, Zenon DEF Keeps

\* A load pins the row and lets it go again.
LEMMA AcquireStep == ASSUME MemInv, LoadAcquire PROVE Keeps
<1>1. open /\ call.pc = "acquire" /\ UNCHANGED <<data, used, pins>> /\ Go("read")
      /\ Acquire(call.key, Mem)
  BY Zenon DEF LoadAcquire, At, memVars
<1>2. PICK k \in Keys : call.key = k
  BY <1>1, CallFacts, Zenon
<1>3. MemType /\ UsedInv /\ CallInv /\ DataInv /\ PinInv
  BY Zenon DEF MemInv
<1>4. /\ SameOwner /\ Count(k)' = Count(k) + 1 /\ \A j \in Keys : RowKept(j)
      /\ \A j \in Keys \ {k} : CountKept(j)
  BY <1>1, <1>2, <1>3, AcquireCounts, Zenon
<1>5. /\ call' \in CallRecords /\ call'.pc = "read" /\ call'.key = k /\ call'.op = call.op
      /\ call'.val = call.val
  BY <1>1, <1>2, <1>3, GoFacts, Zenon DEF MemType, PCs
<1>6. Bytes /\ \A j \in Keys : Spared(j)
  BY <1>1, <1>3, <1>4, UsedKept, Zenon DEF Bytes, Spared
<1>7. CallInv'
  BY <1>1, <1>2, <1>3, <1>4, <1>5, Zenon DEF CallInv, SameOwner
<1>8. DataInv'
  BY <1>1, <1>3, <1>6, DataKept, Zenon
<1>9. pins' \in [Keys -> Nat] /\ \A j \in Keys : Count(j)' = pins'[j] + Own(j)'
  <2>1. pins' = pins /\ pins \in [Keys -> Nat] /\ \A j \in Keys : Count(j) = pins[j] + Own(j)
    BY <1>1, <1>3, Zenon DEF PinInv, Count, MemType
  <2>2. \A j \in Keys : Own(j) = 0 /\ Own(j)' = IF j = k THEN 1 ELSE 0
    BY <1>1, <1>5, Zenon DEF Own
  <2> QED
    BY <1>4, <2>1, <2>2 DEF CountKept
<1>10. PinKept
  BY <1>6, SparedKeeps, Zenon
<1> QED
  BY <1>1, <1>4, <1>5, <1>6, <1>7, <1>8, <1>9, <1>10, PutTogether, Zenon DEF Keeps

\* load() reads the payload.
LEMMA ReadStep == ASSUME MemInv, LoadRead PROVE Keeps
<1>1. /\ open /\ call.pc = "read" /\ UNCHANGED mdVars /\ UNCHANGED <<data, used, pins>>
      /\ \E b \in BOOLEAN : call' = [call EXCEPT !.pc = "release", !.ok = b]
  BY Zenon DEF LoadRead, At, memVars
<1>2. MemType /\ CallInv
  BY Zenon DEF MemInv
<1>3. /\ call' \in CallRecords /\ call'.pc = "release" /\ call'.key = call.key
      /\ call'.op = call.op /\ call'.val = call.val
  BY <1>1, <1>2, Zenon DEF MemType, CallRecords, PCs
<1>4. SameOwner /\ \A j \in Keys : RowKept(j) /\ CountKept(j)
  BY <1>1, <1>2, NoTransaction, Zenon
<1>5. CallInv' /\ \A j \in Keys : Own(j)' = Own(j)
  BY <1>1, <1>2, <1>3, <1>4, Zenon DEF CallInv, SameOwner, Own
<1> QED
  BY <1>1, <1>3, <1>4, <1>5, QuietStep, Zenon

\* load() gives its pin back.
LEMMA ReleaseStep == ASSUME MemInv, LoadRelease PROVE Keeps
<1>1. open /\ call.pc = "release" /\ UNCHANGED <<data, used, pins>> /\ (Return \/ Go("evict"))
      /\ Release(call.key, Mem)
  BY Zenon DEF LoadRelease, At, memVars
<1>2. PICK k \in Keys : call.key = k
  BY <1>1, CallFacts, Zenon
<1>3. MemType /\ UsedInv /\ CallInv /\ DataInv /\ PinInv
  BY Zenon DEF MemInv
<1>4. /\ pins' = pins /\ pins \in [Keys -> Nat] /\ \A j \in Keys : Count(j) = pins[j] + Own(j)
      /\ \A j \in Keys : Own(j) = IF j = k THEN 1 ELSE 0
  BY <1>1, <1>2, <1>3, Zenon DEF PinInv, Count, MemType, Own
<1>5. Count(k) > 0
  BY <1>4
<1>6. /\ SameOwner /\ Count(k)' = Count(k) - 1 /\ \A j \in Keys : RowKept(j)
      /\ \A j \in Keys \ {k} : CountKept(j)
  BY <1>1, <1>2, <1>3, <1>5, ReleaseCounts, Zenon
<1>7. Bytes /\ \A j \in Keys : Spared(j)
  BY <1>1, <1>3, <1>6, UsedKept, Zenon DEF Bytes, Spared
<1>8. call' \in CallRecords /\ call'.pc \in {"idle", "evict"} /\ CallInv'
  <2>1. CASE Return
    BY <2>1, IdleFacts, Zenon DEF Return, CallInv
  <2>2. CASE Go("evict")
    <3>1. /\ call' \in CallRecords /\ call'.pc = "evict" /\ call'.key = k /\ call'.op = call.op
          /\ call'.val = call.val
      BY <1>2, <1>3, <2>2, GoFacts, Zenon DEF MemType, PCs
    <3> QED
      BY <1>1, <1>3, <1>6, <3>1, Zenon DEF CallInv, SameOwner
  <2> QED
    BY <1>1, <2>1, <2>2, Zenon
<1>9. DataInv'
  BY <1>1, <1>3, <1>7, DataKept, Zenon
<1>10. pins' \in [Keys -> Nat] /\ \A j \in Keys : Count(j)' = pins'[j] + Own(j)'
  <2>1. \A j \in Keys : Own(j)' = 0
    BY <1>8, Zenon DEF Own
  <2> QED
    BY <1>4, <1>6, <2>1 DEF CountKept
<1>11. PinKept
  BY <1>7, SparedKeeps, Zenon
<1> QED
  BY <1>1, <1>6, <1>7, <1>8, <1>9, <1>10, <1>11, PutTogether, Zenon DEF Keeps

\* evict(), called for itself or for a corrupt payload.
LEMMA EvictCallStep == ASSUME MemInv, Evict PROVE Keeps
<1>1. open /\ call.pc = "evict" /\ EvictKey(call.key) /\ call' = Idle /\ pins' = pins
  BY Zenon DEF Evict, At, Return
<1>2. PICK k \in Keys : call.key = k
  BY <1>1, CallFacts, Zenon
<1>3. call' \in CallRecords /\ CallInv' /\ \A j \in Keys : Own(j)' = Own(j)
  BY <1>1, IdleFacts, Zenon DEF CallInv, Own
<1> QED
  BY <1>1, <1>2, <1>3, EvictStep, Zenon

\* A payload that is there is published again.
LEMMA RepublishStep == ASSUME MemInv, StoreRepublish PROVE Keeps
<1>1. /\ open /\ call.pc = "republish" /\ UNCHANGED <<data, used, pins>> /\ call' = Idle
      /\ Upsert(call.key, Mem, call.val, Uri) \/ UNCHANGED mdVars
  BY Zenon DEF StoreRepublish, At, Return, memVars
<1>2. PICK k \in Keys : call.key = k
  BY <1>1, CallFacts, Zenon
<1>3. MemType /\ UsedInv /\ CallInv /\ DataInv
  BY Zenon DEF MemInv
<1>4. PICK d \in Descriptors : call.val = d
  BY <1>1, <1>3, Zenon DEF CallInv
<1>5. Active(k, Mem) /\ blocks[k][Mem].desc = d
  BY <1>1, <1>2, <1>3, <1>4, Zenon DEF CallInv, DataInv, Resident
<1>6. SameOwner /\ \A j \in Keys : RowKept(j) /\ CountKept(j)
  <2>1. CASE Upsert(k, Mem, d, Uri)
    BY <1>3, <1>5, <2>1, UpsertCounts, Zenon DEF RowKept
  <2>2. CASE UNCHANGED mdVars
    BY <1>3, <2>2, NoTransaction, Zenon
  <2> QED
    BY <1>1, <1>2, <1>4, <2>1, <2>2, Zenon
<1>7. call' \in CallRecords /\ CallInv' /\ \A j \in Keys : Own(j)' = Own(j)
  BY <1>1, IdleFacts, Zenon DEF CallInv, Own
<1> QED
  BY <1>1, <1>6, <1>7, QuietStep, Zenon

\* _ensure_capacity evicts until the payload fits, or gives up.
LEMMA RoomStep == ASSUME MemInv, StoreRoom PROVE Keeps
<1>1. open /\ call.pc = "room" /\ pins' = pins
  BY Zenon DEF StoreRoom, At
<1>2. PICK k \in Keys : call.key = k
  BY <1>1, CallFacts, Zenon
<1>3. MemType /\ UsedInv /\ CallInv /\ DataInv
  BY Zenon DEF MemInv
<1>4. PICK d \in Descriptors : call.val = d
  BY <1>1, <1>3, Zenon DEF CallInv
<1>5. data[k] = None /\ call.op = "store" /\ call \in CallRecords
  BY <1>1, <1>2, <1>3, Zenon DEF CallInv, MemType
<1>6. CASE /\ used + Size[d] <= MaxBytes \/ Size[d] = 0
           /\ data' = [data EXCEPT ![k] = d] /\ used' = used + Size[d]
           /\ Go("commit") /\ UNCHANGED mdVars
  <2>1. Bytes /\ data'[k] = d /\ \A j \in Keys \ {k} : data'[j] = data[j]
    BY <1>3, <1>5, <1>6, InsertFacts, Zenon DEF Bytes
  <2>2. SameOwner /\ \A j \in Keys : RowKept(j) /\ CountKept(j)
    BY <1>3, <1>6, NoTransaction, Zenon
  <2>3. /\ call' \in CallRecords /\ call'.pc = "commit" /\ call'.key = k /\ call'.op = "store"
        /\ call'.val = d
    BY <1>2, <1>4, <1>5, <1>6, GoFacts, Zenon DEF PCs
  <2>4. CallInv' /\ \A j \in Keys : Own(j)' = Own(j)
    BY <1>1, <2>1, <2>2, <2>3, Zenon DEF CallInv, Own, SameOwner
  <2>5. \A j \in Keys \ {k} : Spared(j)
    BY <2>1, <2>2, Zenon DEF Spared
  <2>6. DataInv'
    <3> SUFFICES ASSUME NEW j \in Keys, Resident(j)', j # k
                 PROVE  Active(j, Mem)' /\ (blocks[j][Mem].desc = data[j])'
      BY <2>3, Zenon DEF DataInv
    <3>1. Resident(j) /\ RowKept(j) /\ data'[j] = data[j]
      BY <2>1, <2>2, Zenon DEF Resident
    <3> QED
      BY <1>1, <1>3, <3>1, Zenon DEF DataInv, RowKept
  <2>7. pins' \in [Keys -> Nat] /\ \A j \in Keys : Count(j)' = pins'[j] + Own(j)'
    BY <1>1, <2>2, <2>4, NoPinMoves, Zenon
  <2>8. PinKept
    BY <1>5, <2>5, SparedKeeps, Zenon DEF Resident
  <2> QED
    BY <1>1, <2>1, <2>2, <2>3, <2>4, <2>6, <2>7, <2>8, PutTogether, Zenon DEF Keeps
<1>7. ASSUME NEW v \in Keys \ {k}, EvictKey(v), UNCHANGED call
      PROVE  Keeps
  <2>1. SameOwner /\ (Spared(k) \/ v = k)
    BY <1>1, <1>7, EvictFacts, Zenon
  <2>2. call' \in CallRecords /\ CallInv' /\ \A j \in Keys : Own(j)' = Own(j)
    BY <1>1, <1>2, <1>3, <1>5, <1>7, <2>1, Zenon DEF CallInv, Own, SameOwner, Spared
  <2> QED
    BY <1>1, <1>7, <2>2, EvictStep, Zenon
<1>8. CASE Return /\ UNCHANGED mdVars /\ UNCHANGED memVars
  <2>1. SameOwner /\ \A j \in Keys : RowKept(j) /\ CountKept(j)
    BY <1>3, <1>8, NoTransaction, Zenon
  <2>2. call' \in CallRecords /\ CallInv' /\ \A j \in Keys : Own(j)' = Own(j)
    BY <1>1, <1>8, IdleFacts, Zenon DEF CallInv, Own, Return
  <2>3. UNCHANGED <<data, used>>
    BY <1>8, Zenon DEF memVars
  <2> QED
    BY <1>1, <2>1, <2>2, <2>3, QuietStep, Zenon
<1>9. \/ /\ used + Size[d] <= MaxBytes \/ Size[d] = 0
         /\ data' = [data EXCEPT ![k] = d] /\ used' = used + Size[d]
         /\ Go("commit") /\ UNCHANGED mdVars
      \/ \E v \in Keys \ {k} : EvictKey(v) /\ UNCHANGED call
      \/ Return /\ UNCHANGED mdVars /\ UNCHANGED memVars
  BY <1>2, <1>4, Zenon DEF StoreRoom
<1> QED
  BY <1>6, <1>7, <1>8, <1>9, Zenon

\* The insertion is published or rolled back.
LEMMA CommitStep == ASSUME MemInv, StoreCommit PROVE Keeps
<1>1. /\ open /\ call.pc = "commit" /\ pins' = pins /\ call' = Idle
      /\ \/ Upsert(call.key, Mem, call.val, Uri) /\ UNCHANGED memVars
         \/ Pop(call.key) /\ UNCHANGED mdVars
  BY Zenon DEF StoreCommit, At, Return
<1>2. PICK k \in Keys : call.key = k
  BY <1>1, CallFacts, Zenon
<1>3. MemType /\ UsedInv /\ CallInv /\ DataInv
  BY Zenon DEF MemInv
<1>4. PICK d \in Descriptors : call.val = d
  BY <1>1, <1>3, Zenon DEF CallInv
<1>5. data[k] = d /\ Resident(k)
  BY <1>1, <1>2, <1>3, <1>4, Zenon DEF CallInv, Resident
<1>6. call' \in CallRecords /\ CallInv' /\ \A j \in Keys : Own(j)' = Own(j)
  BY <1>1, IdleFacts, Zenon DEF CallInv, Own
<1>7. /\ SameOwner /\ Bytes /\ \A j \in Keys : CountKept(j)
      /\ \A j \in Keys \ {k} : Spared(j)
      /\ Dropped(k) \/ (Active(k, Mem)' /\ blocks'[k][Mem].desc = data'[k])
  <2>1. CASE Upsert(k, Mem, d, Uri) /\ UNCHANGED memVars
    <3>1. /\ SameOwner /\ Active(k, Mem)' /\ blocks'[k][Mem].desc = d /\ CountKept(k)
          /\ \A j \in Keys \ {k} : RowKept(j) /\ CountKept(j)
      BY <1>3, <2>1, UpsertCounts, Zenon
    <3>2. Bytes /\ \A j \in Keys : data'[j] = data[j]
      BY <1>3, <2>1, UsedKept, Zenon DEF memVars, Bytes
    <3> QED
      BY <1>5, <3>1, <3>2, Zenon DEF Spared
  <2>2. CASE Pop(k) /\ UNCHANGED mdVars
    <3>1. SameOwner /\ \A j \in Keys : RowKept(j) /\ CountKept(j)
      BY <1>3, <2>2, NoTransaction, Zenon
    <3>2. Bytes /\ data'[k] = None /\ \A j \in Keys \ {k} : data'[j] = data[j]
      BY <1>3, <1>5, <2>2, PopFacts, Zenon DEF Bytes
    <3> QED
      BY <3>1, <3>2, Zenon DEF Spared, Dropped
  <2> QED
    BY <1>1, <1>2, <1>4, <2>1, <2>2, Zenon
<1>8. DataInv'
  <2> SUFFICES ASSUME NEW j \in Keys, Resident(j)'
               PROVE  Active(j, Mem)' /\ (blocks[j][Mem].desc = data[j])'
    BY Zenon DEF DataInv
  <2>1. CASE j = k
    BY <1>7, <2>1, Zenon DEF Dropped, Resident
  <2>2. CASE j # k
    <3>1. Resident(j) /\ RowKept(j) /\ data'[j] = data[j]
      BY <1>7, <2>2, Zenon DEF Resident, Spared
    <3> QED
      BY <1>2, <1>3, <2>2, <3>1, Zenon DEF DataInv, RowKept
  <2> QED
    BY <2>1, <2>2, Zenon
<1>9. pins' \in [Keys -> Nat] /\ \A j \in Keys : Count(j)' = pins'[j] + Own(j)'
  BY <1>1, <1>6, <1>7, NoPinMoves, Zenon
<1>10. PinKept
  BY <1>1, <1>2, <1>7, SparedKeeps, Zenon DEF At
<1> QED
  BY <1>1, <1>6, <1>7, <1>8, <1>9, <1>10, PutTogether, Zenon DEF Keeps

-----------------------------------------------------------------------------
(* Steps around the tier *)

\* A client pins a row or lets it go.
LEMMA ClientStep ==
  ASSUME MemInv, NEW k \in Keys, Pin(k) \/ Unpin(k)
  PROVE  Keeps
<1>1. /\ UNCHANGED <<data, used, call>> /\ open
      /\ \/ Acquire(k, Mem) /\ pins' = [pins EXCEPT ![k] = @ + 1]
         \/ pins[k] > 0 /\ Release(k, Mem) /\ pins' = [pins EXCEPT ![k] = @ - 1]
  BY Zenon DEF Pin, Unpin, Acquire, Release, memVars
<1>2. MemType /\ UsedInv /\ CallInv /\ DataInv /\ PinInv
  BY Zenon DEF MemInv
<1>3. /\ pins \in [Keys -> Nat] /\ \A j \in Keys : Count(j) = pins[j] + Own(j)
      /\ \A j \in Keys : Own(j)' = Own(j) /\ Own(j) \in {0, 1}
  BY <1>1, <1>2, Zenon DEF PinInv, Count, MemType, Own
<1>4. /\ SameOwner /\ \A j \in Keys : RowKept(j)
      /\ \A j \in Keys \ {k} : CountKept(j)
      /\ pins' \in [Keys -> Nat] /\ \A j \in Keys \ {k} : pins'[j] = pins[j]
      /\ Count(k)' - Count(k) = pins'[k] - pins[k] /\ Count(k)' \in Int
  <2>1. CASE Acquire(k, Mem) /\ pins' = [pins EXCEPT ![k] = @ + 1]
    BY <1>2, <1>3, <2>1, AcquireCounts
  <2>2. CASE pins[k] > 0 /\ Release(k, Mem) /\ pins' = [pins EXCEPT ![k] = @ - 1]
    <3>1. Count(k) > 0
      BY <1>3, <2>2
    <3> QED
      BY <1>2, <1>3, <2>2, <3>1, ReleaseCounts
  <2> QED
    BY <1>1, <2>1, <2>2, Zenon
<1>5. \A j \in Keys : Count(j)' = pins'[j] + Own(j)'
  BY <1>3, <1>4 DEF CountKept
<1>6. Bytes /\ \A j \in Keys : Spared(j)
  BY <1>1, <1>2, <1>4, UsedKept, Zenon DEF Bytes, Spared
<1>7. DataInv'
  BY <1>1, <1>2, <1>6, DataKept, Zenon
<1>8. call' \in CallRecords /\ CallInv'
  BY <1>1, <1>2, <1>4, Zenon DEF MemType, CallInv, SameOwner
<1>9. PinKept
  BY <1>6, SparedKeeps, Zenon
<1> QED
  BY <1>1, <1>4, <1>5, <1>6, <1>7, <1>8, <1>9, PutTogether, Zenon DEF Keeps

\* Another tier works on its own rows, or a payload is damaged.
LEMMA SurroundingStep ==
  ASSUME MemInv, NEW k \in Keys, PeerTier(k) \/ Fault(k)
  PROVE  Keeps
<1>1. /\ UNCHANGED <<data, used, call, pins>> /\ open
      /\ \/ Delete(k, Peer) \/ \E d \in Descriptors : Upsert(k, Peer, d, Uri)
         \/ UNCHANGED mdVars
  BY Zenon DEF PeerTier, Fault, Delete, Upsert, memVars
<1>2. MemType /\ CallInv
  BY Zenon DEF MemInv
<1>3. SameOwner /\ \A j \in Keys : RowKept(j) /\ CountKept(j)
  BY <1>1, <1>2, PeerCounts, NoTransaction, Zenon
<1>4. call' \in CallRecords /\ CallInv' /\ \A j \in Keys : Own(j)' = Own(j)
  BY <1>1, <1>2, <1>3, Zenon DEF MemType, CallInv, SameOwner, Own
<1> QED
  BY <1>1, <1>3, <1>4, QuietStep, Zenon

\* Nothing is resident, nothing is used.
LEMMA EmptyBytes ==
  ASSUME data = [k \in Keys |-> None], used = 0
  PROVE  UsedInv
<1>1. \A k \in Keys : ResidentBytes[k] = 0
  BY Zenon DEF ResidentBytes, Resident
<1>2. SumFunctionOnSet(ResidentBytes, Keys) = 0
  BY <1>1, SumOfZeros, MemAssumption, Zenon
<1> QED
  BY <1>2, MemAssumption DEF UsedInv

\* The process ends: the dictionary is empty, the rows stay.
LEMMA CrashStep == ASSUME MemInv, Crash PROVE Keeps
<1>1. /\ ~open' /\ UNCHANGED <<blocks, ownerEpoch>> /\ data' = [k \in Keys |-> None]
      /\ used' = 0 /\ call' = Idle /\ pins' = [k \in Keys |-> 0]
  BY Zenon DEF Crash, Close
<1>2. UsedInv'
  <2>1. \A k \in Keys : ResidentBytes'[k] = 0
    BY <1>1, Zenon DEF ResidentBytes, Resident
  <2>2. SumFunctionOnSet(ResidentBytes', Keys) = 0
    BY <2>1, SumOfZeros, MemAssumption, Zenon
  <2> QED
    BY <1>1, <2>2, MemAssumption DEF UsedInv
<1>3. MemType'
  BY <1>1, IdleFacts, Zenon DEF MemInv, MemType, Payloads
<1>4. CallInv' /\ DataInv' /\ PinInv'
  BY <1>1, IdleFacts, Zenon DEF CallInv, DataInv, Resident, PinInv
<1> QED
  BY <1>1, <1>2, <1>3, <1>4, Zenon DEF Keeps, MemInv, PinKept

\* A new owner starts with no pins and an empty dictionary.
LEMMA ReopenStep == ASSUME MemInv, Reopen PROVE Keeps
<1>1. ~open /\ Open /\ UNCHANGED <<data, used, call, pins>>
  BY Zenon DEF Reopen, Open, memVars
<1>2. MemType /\ UsedInv /\ CallInv /\ DataInv /\ PinInv
  BY Zenon DEF MemInv
<1>3. /\ blocks' \in Table /\ ownerEpoch' \in Nat /\ open'
      /\ \A k \in Keys : RowKept(k) /\ Count(k)' = 0
  BY <1>1, <1>2, OpenCounts, Zenon
<1>4. /\ data' \in [Keys -> Payloads] /\ used' \in Nat /\ UsedInv'
      /\ \A k \in Keys : data'[k] = data[k] /\ data[k] = None /\ pins'[k] = 0
  BY <1>1, <1>2, UsedKept, Zenon DEF PinInv
<1>5. MemType'
  BY <1>1, <1>2, <1>3, <1>4, Zenon DEF MemType
<1>6. call.pc = "idle"
  BY <1>1, <1>2, Zenon DEF CallInv
<1>7. CallInv' /\ DataInv'
  BY <1>1, <1>2, <1>4, <1>6, Zenon DEF CallInv, DataInv, Resident
<1>8. PinInv'
  <2>1. \A k \in Keys : Own(k)' = 0 /\ KeptInFlight(k, Mem)' = 0
    BY <1>1, <1>3, <1>6, Zenon DEF Own, Count
  <2> QED
    BY <1>3, <1>4, <2>1 DEF PinInv
<1>9. PinKept
  BY <1>4, Zenon DEF PinKept, Resident
<1> QED
  BY <1>4, <1>5, <1>7, <1>8, <1>9, Zenon DEF Keeps, MemInv

-----------------------------------------------------------------------------
(* Every step *)

\* The invariant holds initially.
LEMMA MemStart == Init => MemInv
<1> SUFFICES ASSUME Init PROVE MemInv
  BY Zenon
<1>1. UsedInv
  BY EmptyBytes, Zenon DEF Init
<1>2. MemType
  BY IdleFacts, Zenon DEF Init, MemType, Table, Payloads
<1>3. CallInv /\ DataInv /\ PinInv
  BY IdleFacts, Zenon DEF Init, CallInv, DataInv, Resident, PinInv
<1> QED
  BY <1>1, <1>2, <1>3, Zenon DEF MemInv

\* Every step of the tier and of the other users of the table.
LEMMA TierStep == ASSUME MemInv, Next PROVE Keeps
<1>1. CASE \E k \in Keys : (\E op \in {"lookup", "load", "evict"} : Call(k, op))
                             \/ (\E d \in Descriptors : StoreCall(k, d))
  BY <1>1, CallStarts, Zenon
<1>2. CASE Lookup \/ LoadAcquire \/ LoadRead \/ LoadRelease \/ Evict
             \/ StoreRepublish \/ StoreRoom \/ StoreCommit
  BY <1>2, LookupStep, AcquireStep, ReadStep, ReleaseStep, EvictCallStep, RepublishStep,
     RoomStep, CommitStep, Zenon
<1>3. CASE \E k \in Keys : Pin(k) \/ Unpin(k) \/ PeerTier(k) \/ Fault(k)
  BY <1>3, ClientStep, SurroundingStep, Zenon
<1>4. CASE Crash \/ Reopen
  BY <1>4, CrashStep, ReopenStep, ZenonT(30)
<1> QED
  BY <1>1, <1>2, <1>3, <1>4, Zenon DEF Next

\* What the controller keeps of a call of evict_bytes.
Candidates == [key : Keys, bytes : Nat]

EvictorType ==
  evictor \in [pc : {"idle", "list", "try"}, bytes : Nat, listed : SUBSET Candidates,
               progressed : BOOLEAN]

\* The controller evicts between the calls of the tier.
LEMMA TryStep == ASSUME MemInv, EvictorType, TryNext PROVE Keeps
<1>1. /\ open /\ call.pc = "idle" /\ UNCHANGED call /\ pins' = pins
      /\ \E loc \in evictor.listed : EvictKey(loc.key)
  BY Zenon DEF TryNext, At
<1>2. PICK k \in Keys : EvictKey(k)
  BY <1>1, Zenon DEF EvictorType, Candidates
<1>3. SameOwner /\ MemType
  BY <1>1, <1>2, EvictFacts, Zenon DEF MemInv
<1>4. call' \in CallRecords /\ CallInv' /\ \A j \in Keys : Own(j)' = Own(j)
  BY <1>1, <1>3, Zenon DEF CallInv, Own, MemType, MemInv
<1> QED
  BY <1>1, <1>2, <1>4, EvictStep, Zenon

\* A step of the controller alone.
LEMMA SameVars == ASSUME MemInv, UNCHANGED vars PROVE Keeps
<1>1. MemInv'
  BY Zenon DEF MemInv, MemType, CallInv, DataInv, UsedInv, PinInv, Own, Resident, Active,
     ResidentBytes, KeptInFlight, Table, vars, mdVars, memVars
<1>2. \A k \in Keys : Spared(k)
  <2>1. MemType /\ UNCHANGED mdVars /\ data' = data
    BY Zenon DEF MemInv, vars, memVars
  <2> QED
    BY <2>1, NoTransaction, Zenon DEF Spared
<1> QED
  BY <1>1, <1>2, SparedKeeps, Zenon DEF Keeps

\* The controller keeps its type.
LEMMA EvictorTyped ==
  ASSUME MemInv, EvictorType, EvNext
  PROVE  EvictorType'
<1>0. NoCall \in [pc : {"idle", "list", "try"}, bytes : Nat, listed : SUBSET Candidates,
                  progressed : BOOLEAN]
  BY Zenon DEF NoCall
<1>1. CASE EvictBytes
  BY <1>1, Zenon DEF EvictBytes, EvictorType, NoCall
<1>2. CASE List
  <2>1. CASE EndCall
    BY <1>0, <2>1, Zenon DEF EndCall, EvictorType
  <2>2. CASE ~EndCall
    <3>1. PICK batch \in SUBSET LruCandidates(Mem) :
            evictor' = [evictor EXCEPT
               !.pc = "try", !.progressed = FALSE,
               !.listed = {[key |-> k, bytes |-> Size[blocks[k][Mem].desc]] : k \in batch}]
      BY <1>2, <2>2, Zenon DEF List, kSubset
    <3>2. \A k \in batch : /\ k \in Keys /\ blocks[k][Mem] # NoRow
                           /\ blocks[k][Mem] \in Row \cup {NoRow}
      BY DEF LruCandidates, Active, MemInv, MemType, Table
    <3>3. \A k \in batch : k \in Keys /\ Size[blocks[k][Mem].desc] \in Nat
      BY <3>2, MemAssumption, Zenon DEF Row
    <3>4. {[key |-> k, bytes |-> Size[blocks[k][Mem].desc]] : k \in batch} \in SUBSET Candidates
      BY <3>3 DEF Candidates
    <3> QED
      BY <3>1, <3>4, Zenon DEF EvictorType
  <2> QED
    BY <2>1, <2>2, Zenon
<1>3. CASE TryNext
  <2>1. PICK loc \in evictor.listed :
          evictor' = [evictor EXCEPT
            !.listed = @ \ {loc},
            !.bytes = IF Evictable(loc.key) THEN @ + loc.bytes ELSE @,
            !.progressed = @ \/ Evictable(loc.key)]
    BY <1>3, Zenon DEF TryNext
  <2>2. loc \in Candidates /\ loc.bytes \in Nat
    BY Zenon DEF EvictorType, Candidates
  <2> DEFINE e == Evictable(loc.key)
             n == IF e THEN evictor.bytes + loc.bytes ELSE evictor.bytes
             b == evictor.progressed \/ e
             l == evictor.listed \ {loc}
  <2>3. n \in Nat /\ b \in BOOLEAN /\ l \in SUBSET Candidates
    BY <2>2 DEF EvictorType
  <2>4. evictor' = [evictor EXCEPT !.listed = l, !.bytes = n, !.progressed = b]
    BY <2>1, Zenon DEF EvictorType
  <2> HIDE DEF n, b, l
  <2> QED
    BY <2>3, <2>4, Zenon DEF EvictorType
<1>4. CASE EndRound
  BY <1>0, <1>4, Zenon DEF EndRound, EndCall, EvictorType
<1>5. CASE Others
  BY <1>0, <1>5, Zenon DEF Others, EvictorType
<1> QED
  BY <1>1, <1>2, <1>3, <1>4, <1>5, Zenon DEF EvNext

\* Every step of the tier with the controller.
LEMMA EvStep == ASSUME MemInv, EvictorType, [EvNext]_evVars PROVE Keeps /\ EvictorType'
<1>1. CASE EvictBytes \/ List \/ EndRound \/ UNCHANGED evVars
  <2>1. UNCHANGED vars
    BY <1>1, Zenon DEF EvictBytes, List, EndRound, evVars
  <2> QED
    BY <1>1, <2>1, SameVars, EvictorTyped, Zenon DEF EvNext, evVars, EvictorType
<1>2. CASE TryNext
  BY <1>2, TryStep, EvictorTyped, Zenon DEF EvNext
<1>3. CASE Others
  BY <1>3, TierStep, EvictorTyped, Zenon DEF EvNext, Others
<1> QED
  BY <1>1, <1>2, <1>3, Zenon DEF EvNext

\* The invariant holds always.
LEMMA EvAlways == EvSpec => [](MemInv /\ EvictorType)
<1>1. EvInit => MemInv /\ EvictorType
  BY MemStart DEF EvInit, NoCall, EvictorType
<1>2. MemInv /\ EvictorType /\ [EvNext]_evVars => (MemInv /\ EvictorType)'
  BY EvStep, Zenon DEF Keeps
<1> QED
  BY <1>1, <1>2, PTL DEF EvSpec

\* Between calls the dictionary, _used_bytes and the table agree, and max_bytes
\* is respected, for any number of keys and payloads of any size.
THEOREM ResidentSafe == EvSpec => []ResidentIsPublished
<1>1. MemInv => ResidentIsPublished
  BY Zenon DEF MemInv, DataInv, UsedInv, ResidentIsPublished
<1> QED
  BY <1>1, EvAlways, PTL

\* No eviction takes a block that a client has pinned.
THEOREM PinnedSafe == EvSpec => PinnedStaysResident
<1> DEFINE Stays ==
      \A k \in Keys : pins[k] > 0 /\ Resident(k) /\ ~(At("commit") /\ call.key = k) /\ open'
                        => data'[k] = data[k] /\ Active(k, Mem)'
<1>1. MemInv /\ EvictorType /\ [EvNext]_evVars => Stays
  <2> SUFFICES ASSUME MemInv, PinKept, NEW k \in Keys, pins[k] > 0, Resident(k),
                      ~(At("commit") /\ call.key = k), open'
               PROVE  data'[k] = data[k] /\ Active(k, Mem)'
    BY EvStep, Zenon DEF Keeps
  <2>1. open /\ KeptInFlight(k, Mem) = pins[k] + Own(k) /\ Own(k) \in {0, 1}
        /\ pins[k] \in Nat
    BY DEF MemInv, PinInv, Own, MemType
  <2>2. Active(k, Mem)
    BY <2>1, Zenon DEF MemInv, DataInv, At
  <2>3. Pinned(k, Mem)
    BY <2>1, <2>2, CountType DEF Count, MemInv
  <2> QED
    BY <2>3, Zenon DEF PinKept
<1> QED
  BY <1>1, EvAlways, PTL DEF EvSpec, PinnedStaysResident

-----------------------------------------------------------------------------
(* A call that gives up *)

\* A candidate that can be evicted all along is still on the list, unless the
\* round has freed something.
SteadyInv ==
  /\ steady \subseteq Keys
  /\ evictor.pc # "try" => steady = {}
  /\ evictor.pc = "try" /\ ~evictor.progressed
       => \A k \in steady : \E loc \in evictor.listed : loc.key = k

\* What is steady stays on the list until the controller tries it, and then goes.
LEMMA SteadyStep ==
  ASSUME EvictorType, SteadyInv, MemInv', [EvNext]_evVars
  PROVE  SteadyInv'
<1>1. CASE EvictBytes
  <2>1. steady' = steady /\ evictor' = [NoCall EXCEPT !.pc = "list"] /\ evictor.pc = "idle"
    BY <1>1, Zenon DEF EvictBytes
  <2> QED
    BY <2>1, Zenon DEF SteadyInv, NoCall
<1>2. CASE List
  <2>1. evictor.pc = "list" /\ steady = {}
    BY <1>2, ZenonT(30) DEF List, SteadyInv
  <2>2. CASE EndCall /\ UNCHANGED steady
    BY <2>1, <2>2, Zenon DEF EndCall, NoCall, SteadyInv
  <2>3. CASE ~(EndCall /\ UNCHANGED steady)
    <3>1. PICK batch \in SUBSET LruCandidates(Mem) :
            /\ evictor' = [evictor EXCEPT
                 !.pc = "try", !.progressed = FALSE,
                 !.listed = {[key |-> k, bytes |-> Size[blocks[k][Mem].desc]] : k \in batch}]
            /\ steady' = {k \in batch : Evictable(k)}
      BY <1>2, <2>3, Zenon DEF List, kSubset
    <3>2. /\ evictor'.pc = "try"
          /\ evictor'.listed = {[key |-> k, bytes |-> Size[blocks[k][Mem].desc]] : k \in batch}
      BY <3>1, Zenon DEF EvictorType
    <3>3. ASSUME NEW k \in steady' PROVE \E loc \in evictor'.listed : loc.key = k
      <4>1. [key |-> k, bytes |-> Size[blocks[k][Mem].desc]] \in evictor'.listed
        BY <3>1, <3>2, <3>3, Zenon
      <4>2. [key |-> k, bytes |-> Size[blocks[k][Mem].desc]].key = k
        BY Zenon
      <4> QED
        BY <4>1, <4>2, Zenon
    <3>4. steady' \subseteq Keys
      BY <3>1, Zenon DEF LruCandidates
    <3> QED
      BY <3>2, <3>3, <3>4, Zenon DEF SteadyInv
  <2> QED
    BY <2>2, <2>3, Zenon
<1>3. CASE TryNext
  <2>1. PICK loc \in evictor.listed :
          /\ EvictKey(loc.key)
          /\ evictor' = [evictor EXCEPT
               !.listed = @ \ {loc},
               !.bytes = IF Evictable(loc.key) THEN @ + loc.bytes ELSE @,
               !.progressed = @ \/ Evictable(loc.key)]
    BY <1>3, Zenon DEF TryNext
  <2>2. /\ evictor'.pc = "try" /\ evictor.pc = "try" /\ evictor'.listed = evictor.listed \ {loc}
        /\ evictor'.progressed = (evictor.progressed \/ Evictable(loc.key))
        /\ steady' \subseteq steady /\ \A k \in steady' : Evictable(k)'
    BY <1>3, <2>1, Zenon DEF EvictorType, TryNext, StillSteady
  <2>3. PICK c \in Keys : loc.key = c
    BY Zenon DEF EvictorType, Candidates
  <2>4. CASE Evictable(c)
    BY <2>2, <2>3, <2>4, Zenon DEF SteadyInv
  <2>5. CASE ~Evictable(c)
    <3>1. ~Evictable(c)'
      BY <2>1, <2>3, <2>5, Zenon DEF EvictKey, mdVars, memVars, Evictable, Resident, Active, Pinned
    <3>2. c \notin steady'
      BY <2>2, <3>1, Zenon
    <3> QED
      BY <2>2, <2>3, <3>2, Zenon DEF SteadyInv
  <2> QED
    BY <2>4, <2>5, Zenon
<1>4. CASE EndRound
  BY <1>4, Zenon DEF EndRound, SteadyInv
<1>5. CASE Others
  <2>1. /\ steady' \subseteq steady /\ \A k \in steady' : Evictable(k)'
        /\ evictor' = evictor \/ (evictor' = NoCall /\ ~open')
    BY <1>5, Zenon DEF Others, StillSteady
  <2>2. CASE evictor' = evictor
    BY <2>1, <2>2, Zenon DEF SteadyInv
  <2>3. CASE evictor' = NoCall /\ ~open'
    <3>1. \A k \in Keys : data'[k] = None
      BY <2>3, Zenon DEF MemInv, PinInv
    <3>2. steady' = {}
      BY <2>1, <3>1, Zenon DEF SteadyInv, Evictable, Resident
    <3> QED
      BY <2>3, <3>2, Zenon DEF SteadyInv, NoCall
  <2> QED
    BY <2>1, <2>2, <2>3, Zenon
<1>6. CASE UNCHANGED evVars
  BY <1>6, Zenon DEF evVars, SteadyInv
<1> QED
  BY <1>1, <1>2, <1>3, <1>4, <1>5, <1>6, Zenon DEF EvNext

\* evict_bytes gives up only when none of the last batch could be evicted all
\* along.
THEOREM ShortSafe == EvSpec => ShortOnlyWhenStuck
<1> DEFINE Stuck ==
      evictor.pc # "idle" /\ evictor'.pc = "idle" /\ open' /\ evictor.bytes < BytesToFree
        => steady = {}
<1>1. EvInit => SteadyInv
  BY Zenon DEF EvInit, NoCall, SteadyInv
<1>2. EvictorType /\ SteadyInv /\ MemInv' /\ [EvNext]_evVars => SteadyInv'
  BY SteadyStep, Zenon
<1>3. EvictorType /\ SteadyInv /\ [EvNext]_evVars => Stuck
  <2> SUFFICES ASSUME EvictorType, SteadyInv, [EvNext]_evVars, evictor.pc # "idle",
                      evictor'.pc = "idle", open', evictor.bytes < BytesToFree
               PROVE  steady = {}
    BY Zenon
  <2>1. CASE EvictBytes
    BY <2>1, Zenon DEF EvictBytes
  <2>2. CASE List
    BY <2>2, Zenon DEF List, SteadyInv
  <2>3. CASE TryNext
    <3>1. evictor.pc = "try" /\ evictor'.pc = "try"
      BY <2>3, Zenon DEF TryNext, EvictorType
    <3> QED
      BY <3>1, Zenon
  <2>4. CASE EndRound
    <3>1. evictor'.pc = "list" \/ (evictor.listed = {} /\ ~evictor.progressed)
      <4>1. \/ evictor.bytes >= BytesToFree
            \/ evictor.listed = {} /\ ~evictor.progressed
            \/ evictor' = [evictor EXCEPT !.pc = "list"]
        BY <2>4, Zenon DEF EndRound
      <4> QED
        BY <4>1, EvAssumption DEF EvictorType
    <3> QED
      BY <2>4, <3>1, Zenon DEF SteadyInv, EndRound
  <2>5. CASE Others \/ UNCHANGED evVars
    BY <2>5, Zenon DEF Others, evVars
  <2> QED
    BY <2>1, <2>2, <2>3, <2>4, <2>5, Zenon DEF EvNext
<1> QED
  BY <1>1, <1>2, <1>3, EvAlways, PTL DEF EvSpec, ShortOnlyWhenStuck
=============================================================================
