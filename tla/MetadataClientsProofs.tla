------------------------ MODULE MetadataClientsProofs ------------------------
(***************************************************************************)
(* Proofs, for any number of keys, tiers, readers and restarts, of the     *)
(* properties of MetadataClients that TLC checks on a small instance.      *)
(***************************************************************************)
EXTENDS MetadataClients, FiniteSetTheorems, TLAPS

Table == [Keys -> [Tiers -> Row \cup {NoRow}]]

\* The inductive invariant.  The counters of the live owner are tied to the
\* readers; a tombstone has the empty epoch, so it counts nobody; a process
\* that is not there has no readers; and an owner's epoch is never empty.
PinInv ==
  /\ TypeOK
  /\ open => ownerEpoch > 0
  /\ \A k \in Keys, t \in Tiers : Deleting(k, t) => blocks[k][t].epoch = 0
  /\ ~open => \A r \in Readers : held[r] = NotHeld
  /\ PinsMatchReaders
  /\ AcquiredStaysPublished
  /\ OnePayloadPerKey

\* Replacing one row by a well-formed row or by nothing keeps the table well
\* formed, and leaves every other row alone.
LEMMA SetRowFacts ==
  ASSUME blocks \in Table, NEW k \in Keys, NEW t \in Tiers,
         NEW row \in Row \cup {NoRow}, SetRow(k, t, row)
  PROVE  /\ blocks' \in Table
         /\ blocks'[k][t] = row
         /\ \A k2 \in Keys, t2 \in Tiers :
              <<k2, t2>> # <<k, t>> => blocks'[k2][t2] = blocks[k2][t2]
  BY Zenon DEF SetRow, Table

\* The transactions write well-formed rows: in particular release() never
\* makes a counter negative.
LEMMA WrittenRows ==
  ASSUME TypeOK, NEW k \in Keys, NEW t \in Tiers
  PROVE  /\ KeptInFlight(k, t) \in Nat
         /\ blocks[k][t] # NoRow =>
              /\ blocks[k][t] \in Row
              /\ [blocks[k][t] EXCEPT !.inFlight = KeptInFlight(k, t) + 1,
                                      !.epoch = ownerEpoch] \in Row
              /\ [blocks[k][t] EXCEPT !.inFlight = IF @ = 0 THEN 0 ELSE @ - 1] \in Row
              /\ [blocks[k][t] EXCEPT !.state = "deleting",
                                      !.inFlight = IF Active(k, t) THEN 0 ELSE @,
                                      !.epoch = IF Active(k, t) THEN 0 ELSE @] \in Row
              /\ [blocks[k][t] EXCEPT !.inFlight = 0, !.epoch = 0] \in Row
<1>1. blocks[k][t] \in Row \cup {NoRow} /\ ownerEpoch \in Nat
  BY Zenon DEF TypeOK
<1>2. KeptInFlight(k, t) \in Nat
  BY <1>1, Zenon DEF KeptInFlight, Row
<1>3. ASSUME blocks[k][t] # NoRow
      PROVE  blocks[k][t] \in Row
  BY <1>1, <1>3, Zenon
<1>4. ASSUME NEW row \in Row, NEW n \in Nat, NEW e \in Nat
      PROVE  /\ [row EXCEPT !.inFlight = n, !.epoch = e] \in Row
             /\ [row EXCEPT !.inFlight = n] \in Row
  BY Zenon DEF Row
<1>5. ASSUME NEW row \in Row, NEW n \in Nat, NEW e \in Nat
      PROVE  [row EXCEPT !.state = "deleting", !.inFlight = n, !.epoch = e] \in Row
  BY Zenon DEF Row
<1>6. ASSUME blocks[k][t] # NoRow
      PROVE  [blocks[k][t] EXCEPT !.state = "deleting",
                                  !.inFlight = IF Active(k, t) THEN 0 ELSE @,
                                  !.epoch = IF Active(k, t) THEN 0 ELSE @] \in Row
  <2>1. /\ (IF Active(k, t) THEN 0 ELSE blocks[k][t].inFlight) \in Nat
        /\ (IF Active(k, t) THEN 0 ELSE blocks[k][t].epoch) \in Nat
    BY <1>3, <1>6, Zenon DEF Row
  <2> QED BY <1>3, <1>5, <1>6, <2>1, Zenon
<1>7. ASSUME blocks[k][t] # NoRow
      PROVE  /\ [blocks[k][t] EXCEPT !.inFlight = KeptInFlight(k, t) + 1,
                                     !.epoch = ownerEpoch] \in Row
             /\ [blocks[k][t] EXCEPT !.inFlight = 0, !.epoch = 0] \in Row
  <2>1. KeptInFlight(k, t) + 1 \in Nat /\ 0 \in Nat
    BY <1>2
  <2>2. [blocks[k][t] EXCEPT !.inFlight = KeptInFlight(k, t) + 1,
                             !.epoch = ownerEpoch] \in Row
    BY <1>1, <1>3, <1>4, <1>7, <2>1, Zenon
  <2>3. [blocks[k][t] EXCEPT !.inFlight = 0, !.epoch = 0] \in Row
    BY <1>3, <1>4, <1>7, <2>1, Zenon
  <2> QED BY <2>2, <2>3, Zenon
<1>8. ASSUME blocks[k][t] # NoRow
      PROVE  [blocks[k][t] EXCEPT !.inFlight = IF @ = 0 THEN 0 ELSE @ - 1] \in Row
  <2>1. (IF blocks[k][t].inFlight = 0 THEN 0 ELSE blocks[k][t].inFlight - 1) \in Nat
    BY <1>3, <1>8 DEF Row
  <2> QED BY <1>3, <1>4, <1>8, <2>1, Zenon
<1> QED BY <1>2, <1>3, <1>6, <1>7, <1>8, Zenon

\* The initial table satisfies the type invariant.
LEMMA InitTypeOK == Init => TypeOK
<1> SUFFICES ASSUME Init PROVE TypeOK
  BY Zenon
<1>1. blocks \in Table
  BY Zenon DEF Init, Table
<1>2. ownerEpoch \in Nat
  BY Zenon DEF Init
<1>3. open \in BOOLEAN
  BY Zenon DEF Init
<1>4. held \in [Readers -> Hold \cup {NotHeld}]
  BY Zenon DEF Init
<1> QED BY <1>1, <1>2, <1>3, <1>4, Zenon DEF TypeOK, Table

\* A change of one row, by whichever transaction, keeps the types.
LEMMA RowStepTypeOK ==
  ASSUME TypeOK, NEW k \in Keys, NEW t \in Tiers, NEW row \in Row \cup {NoRow},
         SetRow(k, t, row), UNCHANGED <<ownerEpoch, open>>,
         held' \in [Readers -> Hold \cup {NotHeld}]
  PROVE  TypeOK'
<1>1. blocks' \in Table
  BY SetRowFacts, Zenon DEF TypeOK, Table
<1>2. ownerEpoch' \in Nat
  BY Zenon DEF TypeOK
<1>3. open' \in BOOLEAN
  BY Zenon DEF TypeOK
<1> QED BY <1>1, <1>2, <1>3, Zenon DEF TypeOK, Table

\* Every transaction of the table, acquisition and restart keeps the types.
LEMMA NextTypeOK == TypeOK /\ [Next]_clientVars => TypeOK'
<1> SUFFICES ASSUME TypeOK, [Next]_clientVars PROVE TypeOK'
  BY Zenon
<1>h. held \in [Readers -> Hold \cup {NotHeld}]
  BY Zenon DEF TypeOK
<1>1. ASSUME NEW k \in Keys, NEW t \in Tiers, Write(k, t), UNCHANGED held
      PROVE  TypeOK'
  <2>h. held' \in [Readers -> Hold \cup {NotHeld}]
    BY <1>1, <1>h, Zenon
  <2>1. ASSUME NEW d \in Descriptors, NEW u \in Uris, Upsert(k, t, d, u)
        PROVE  TypeOK'
    <3>1. KeptInFlight(k, t) \in Nat /\ ownerEpoch \in Nat
      BY WrittenRows, Zenon DEF TypeOK
    <3>2. [state |-> "active", desc |-> d, uri |-> u,
           inFlight |-> KeptInFlight(k, t), epoch |-> ownerEpoch] \in Row
      BY <3>1, Zenon DEF Row
    <3> QED BY <2>1, <2>h, <3>2, RowStepTypeOK, Zenon DEF Upsert
  <2>2. CASE Delete(k, t)
    BY <2>2, <2>h, RowStepTypeOK, Zenon DEF Delete
  <2>3. CASE BeginDelete(k, t)
    BY <2>3, <2>h, WrittenRows, RowStepTypeOK, Zenon DEF BeginDelete, CanBeginDelete
  <2>4. CASE FinishDelete(k, t)
    BY <2>4, <2>h, RowStepTypeOK, Zenon DEF FinishDelete
  <2> QED BY <1>1, <2>1, <2>2, <2>3, <2>4, Zenon DEF Write
<1>2. ASSUME NEW r \in Readers, NEW k \in Keys, NEW t \in Tiers, AcquireBy(r, k, t)
      PROVE  TypeOK'
  <2>1. blocks[k][t] # NoRow /\ blocks[k][t] \in Row
    BY <1>2, WrittenRows, Zenon DEF AcquireBy, Acquire, Active
  <2>2. [key |-> k, tier |-> t, desc |-> blocks[k][t].desc] \in Hold
    BY <2>1, Zenon DEF Row, Hold
  <2>3. held' \in [Readers -> Hold \cup {NotHeld}]
    BY <1>2, <1>h, <2>2, Zenon DEF AcquireBy
  <2> QED BY <1>2, <2>1, <2>3, WrittenRows, RowStepTypeOK, Zenon DEF AcquireBy, Acquire
<1>3. ASSUME NEW r \in Readers, ReleaseBy(r)
      PROVE  TypeOK'
  <2> DEFINE k == held[r].key
             t == held[r].tier
  <2>1. k \in Keys /\ t \in Tiers
    BY <1>3, <1>h, Zenon DEF ReleaseBy, Hold
  <2>2. held' \in [Readers -> Hold \cup {NotHeld}]
    BY <1>3, <1>h, Zenon DEF ReleaseBy
  <2>3. Release(k, t)
    BY <1>3, Zenon DEF ReleaseBy
  <2> HIDE DEF k, t
  <2>4. CASE blocks[k][t] # NoRow /\ blocks[k][t].epoch = ownerEpoch
    BY <2>1, <2>2, <2>3, <2>4, WrittenRows, RowStepTypeOK, Zenon DEF Release
  <2>5. CASE ~(blocks[k][t] # NoRow /\ blocks[k][t].epoch = ownerEpoch)
    BY <2>2, <2>3, <2>5, Zenon DEF Release, TypeOK
  <2> QED BY <2>4, <2>5, Zenon
<1>4. CASE StopOwner
  BY <1>4, Zenon DEF StopOwner, Close, TypeOK
<1>5. CASE StartOwner
  <2>1. ClearedCounters \in Table
    <3>1. ASSUME NEW k \in Keys, NEW t \in Tiers
          PROVE  (IF blocks[k][t] = NoRow THEN NoRow
                  ELSE [blocks[k][t] EXCEPT !.inFlight = 0, !.epoch = 0]) \in Row \cup {NoRow}
      BY WrittenRows, Zenon
    <3> QED BY <3>1, Zenon DEF ClearedCounters, Table
  <2>2. ownerEpoch' \in Nat
    BY <1>5 DEF StartOwner, Open, TypeOK
  <2>3. open' \in BOOLEAN /\ held' = held /\ blocks' = ClearedCounters
    BY <1>5, Zenon DEF StartOwner, Open
  <2> QED BY <1>h, <2>1, <2>2, <2>3, Zenon DEF TypeOK, Table
<1>6. CASE UNCHANGED clientVars
  BY <1>6, Zenon DEF clientVars, TypeOK
<1> QED BY <1>1, <1>2, <1>3, <1>4, <1>5, <1>6, Zenon DEF Next

\* Type correctness of the table and of the readers' pins: every row is well
\* formed and every counter a natural number.
THEOREM TypeCorrect == Spec => []TypeOK
  BY InitTypeOK, NextTypeOK, PTL DEF Spec

-----------------------------------------------------------------------------
(* The life of a row *)

\* What RowLifecycle says of one row and one step.
RowKept(k, t) ==
  /\ blocks[k][t] # NoRow /\ blocks'[k][t] # NoRow
       => blocks'[k][t].desc = blocks[k][t].desc
  /\ Deleting(k, t) /\ blocks'[k][t] # NoRow
       => blocks'[k][t].state = "deleting" /\ blocks'[k][t].uri = blocks[k][t].uri

\* A step that replaces one row by a fitting one keeps every row.
LEMMA RowStepKeeps ==
  ASSUME TypeOK, NEW k \in Keys, NEW t \in Tiers, NEW row \in Row \cup {NoRow},
         SetRow(k, t, row),
         blocks[k][t] # NoRow /\ row # NoRow => row.desc = blocks[k][t].desc,
         Deleting(k, t) /\ row # NoRow
           => row.state = "deleting" /\ row.uri = blocks[k][t].uri
  PROVE  \A k2 \in Keys, t2 \in Tiers : RowKept(k2, t2)
<1> SUFFICES ASSUME NEW k2 \in Keys, NEW t2 \in Tiers PROVE RowKept(k2, t2)
  BY Zenon
<1>1. /\ blocks'[k][t] = row
      /\ <<k2, t2>> # <<k, t>> => blocks'[k2][t2] = blocks[k2][t2]
  BY SetRowFacts DEF TypeOK, Table
<1>2. CASE k2 = k /\ t2 = t
  BY <1>1, <1>2, Zenon DEF RowKept
<1>3. CASE <<k2, t2>> # <<k, t>>
  BY <1>1, <1>3, Zenon DEF RowKept, Deleting
<1> QED BY <1>2, <1>3, Zenon

\* A step that leaves the table alone keeps every row.
LEMMA SameTableKeeps ==
  ASSUME UNCHANGED blocks
  PROVE  \A k \in Keys, t \in Tiers : RowKept(k, t)
  BY Zenon DEF RowKept, Deleting

\* No step changes a row in a way that its life cycle forbids.
LEMMA NextKeepsRows ==
  TypeOK /\ [Next]_clientVars => \A k \in Keys, t \in Tiers : RowKept(k, t)
<1> DEFINE Kept == \A k2 \in Keys, t2 \in Tiers : RowKept(k2, t2)
<1> SUFFICES ASSUME TypeOK, [Next]_clientVars PROVE Kept
  BY Zenon
<1>1. ASSUME NEW k \in Keys, NEW t \in Tiers, Write(k, t)
      PROVE  Kept
  <2>r. blocks[k][t] # NoRow => blocks[k][t] \in Row
    BY WrittenRows, Zenon
  <2>1. ASSUME NEW d \in Descriptors, NEW u \in Uris, Upsert(k, t, d, u)
        PROVE  Kept
    <3> DEFINE row == [state |-> "active", desc |-> d, uri |-> u,
                       inFlight |-> KeptInFlight(k, t), epoch |-> ownerEpoch]
    <3>1. row \in Row
      BY WrittenRows, Zenon DEF TypeOK, Row
    <3>2. /\ SetRow(k, t, row) /\ ~Deleting(k, t)
          /\ blocks[k][t] # NoRow => row.desc = blocks[k][t].desc
      BY <2>1, Zenon DEF Upsert, CanUpsert, DescriptorFits
    <3> HIDE DEF row
    <3> QED BY <3>1, <3>2, RowStepKeeps, Zenon
  <2>2. CASE Delete(k, t) \/ FinishDelete(k, t)
    BY <2>2, RowStepKeeps, Zenon DEF Delete, FinishDelete
  <2>3. CASE BeginDelete(k, t)
    <3> DEFINE row == [blocks[k][t] EXCEPT !.state = "deleting",
                                           !.inFlight = IF Active(k, t) THEN 0 ELSE @,
                                           !.epoch = IF Active(k, t) THEN 0 ELSE @]
    <3>1. row \in Row /\ SetRow(k, t, row)
      BY <2>3, WrittenRows, Zenon DEF BeginDelete, CanBeginDelete
    <3>2. row.state = "deleting" /\ row.desc = blocks[k][t].desc /\ row.uri = blocks[k][t].uri
      BY <2>3, <2>r, Zenon DEF BeginDelete, CanBeginDelete, Row
    <3> HIDE DEF row
    <3> QED BY <3>1, <3>2, RowStepKeeps, Zenon
  <2> QED BY <1>1, <2>1, <2>2, <2>3, Zenon DEF Write
<1>2. ASSUME NEW k \in Keys, NEW t \in Tiers, Acquire(k, t)
      PROVE  Kept
  <2> DEFINE row == [blocks[k][t] EXCEPT !.inFlight = KeptInFlight(k, t) + 1,
                                         !.epoch = ownerEpoch]
  <2>1. row \in Row /\ SetRow(k, t, row) /\ blocks[k][t] \in Row /\ ~Deleting(k, t)
    BY <1>2, WrittenRows, Zenon DEF Acquire, Active, Deleting
  <2>2. row.desc = blocks[k][t].desc
    BY <2>1, Zenon DEF Row
  <2> HIDE DEF row
  <2> QED BY <2>1, <2>2, RowStepKeeps, Zenon
<1>3. ASSUME NEW k \in Keys, NEW t \in Tiers, Release(k, t)
      PROVE  Kept
  <2> DEFINE row == [blocks[k][t] EXCEPT !.inFlight = IF @ = 0 THEN 0 ELSE @ - 1]
  <2>1. CASE blocks[k][t] # NoRow /\ blocks[k][t].epoch = ownerEpoch
    <3>1. row \in Row /\ SetRow(k, t, row) /\ blocks[k][t] \in Row
      BY <1>3, <2>1, WrittenRows, Zenon DEF Release
    <3>2. /\ row.desc = blocks[k][t].desc /\ row.uri = blocks[k][t].uri
          /\ row.state = blocks[k][t].state
      BY <3>1, Zenon DEF Row
    <3> HIDE DEF row
    <3> QED BY <3>1, <3>2, RowStepKeeps, Zenon DEF Deleting
  <2>2. CASE ~(blocks[k][t] # NoRow /\ blocks[k][t].epoch = ownerEpoch)
    BY <1>3, <2>2, SameTableKeeps, Zenon DEF Release
  <2> QED BY <2>1, <2>2, Zenon
<1>4. ASSUME NEW r \in Readers, ReleaseBy(r)
      PROVE  Kept
  <2>1. held[r].key \in Keys /\ held[r].tier \in Tiers
    BY <1>4, Zenon DEF ReleaseBy, TypeOK, Hold
  <2> QED BY <1>3, <1>4, <2>1, Zenon DEF ReleaseBy
<1>5. CASE StopOwner
  BY <1>5, SameTableKeeps, Zenon DEF StopOwner, Close
<1>6. CASE StartOwner
  <2> SUFFICES ASSUME NEW k \in Keys, NEW t \in Tiers PROVE RowKept(k, t)
    BY Zenon
  <2>1. blocks'[k][t] = IF blocks[k][t] = NoRow THEN NoRow
                        ELSE [blocks[k][t] EXCEPT !.inFlight = 0, !.epoch = 0]
    BY <1>6, Zenon DEF StartOwner, Open, ClearedCounters
  <2>2. blocks[k][t] # NoRow => blocks[k][t] \in Row
    BY WrittenRows, Zenon
  <2> QED BY <2>1, <2>2, Zenon DEF RowKept, Deleting, Row
<1>7. CASE UNCHANGED clientVars
  BY <1>7, SameTableKeeps, Zenon DEF clientVars
<1> QED BY <1>1, <1>2, <1>4, <1>5, <1>6, <1>7, Zenon DEF Next, AcquireBy

\* No transaction and no restart changes the payload of a row that exists or
\* publishes a tombstone again: upsert, begin_delete and _begin_owner_epoch.
THEOREM RowsFollowLifecycle == Spec => RowLifecycle
<1>1. TypeOK /\ [Next]_clientVars
        => [\A k \in Keys, t \in Tiers :
              /\ blocks[k][t] # NoRow /\ blocks'[k][t] # NoRow
                   => blocks'[k][t].desc = blocks[k][t].desc
              /\ Deleting(k, t) /\ blocks'[k][t] # NoRow
                   => blocks'[k][t].state = "deleting" /\ blocks'[k][t].uri = blocks[k][t].uri
           ]_clientVars
  BY NextKeepsRows, Zenon DEF RowKept
<1> QED BY <1>1, TypeCorrect, PTL DEF Spec, RowLifecycle

-----------------------------------------------------------------------------
(* The pins *)

\* What a row counts for the live owner.
KeptOf(row) == IF row # NoRow /\ row.epoch = ownerEpoch THEN row.inFlight ELSE 0

\* The readers of a row are a finite set, so their number is a natural number
\* and is zero only when there are none.
LEMMA HeldByFinite ==
  ASSUME NEW k, NEW t
  PROVE  /\ IsFiniteSet(HeldBy(k, t))
         /\ Cardinality(HeldBy(k, t)) \in Nat
         /\ Cardinality(HeldBy(k, t)) = 0 <=> HeldBy(k, t) = {}
<1>1. HeldBy(k, t) \subseteq Readers
  BY Zenon DEF HeldBy
<1>2. IsFiniteSet(HeldBy(k, t))
  BY <1>1, ClientsAssumption, FS_Subset, Zenon
<1> QED BY <1>2, FS_CardinalityType, FS_EmptySet, Zenon

\* A row without a pin of the live owner has no readers: what delete and
\* begin_delete test is enough.
LEMMA UnpinnedHasNoReaders ==
  ASSUME PinInv, open, NEW k \in Keys, NEW t \in Tiers, ~Pinned(k, t)
  PROVE  HeldBy(k, t) = {}
<1>1. SUFFICES ASSUME HeldBy(k, t) # {} PROVE FALSE
  BY Zenon
<1>2. PICK r \in Readers : held[r] # NotHeld /\ held[r].key = k /\ held[r].tier = t
  BY <1>1, Zenon DEF HeldBy
<1>3. Active(k, t)
  BY <1>2, Zenon DEF PinInv, AcquiredStaysPublished
<1>4. KeptInFlight(k, t) = Cardinality(HeldBy(k, t))
  BY Zenon DEF PinInv, PinsMatchReaders
<1>5. KeptInFlight(k, t) \in Nat /\ KeptInFlight(k, t) # 0
  BY <1>1, <1>4, HeldByFinite, Zenon
<1>6. blocks[k][t].epoch = ownerEpoch /\ blocks[k][t].inFlight > 0
  BY <1>5 DEF KeptInFlight
<1> QED BY <1>3, <1>6, Zenon DEF Pinned

\* One row is replaced.  The descriptors stay in agreement and the tombstones
\* without an epoch if the new row respects both.
LEMMA RowStepDescriptors ==
  ASSUME PinInv, NEW k \in Keys, NEW t \in Tiers, NEW row \in Row \cup {NoRow},
         SetRow(k, t, row),
         row # NoRow /\ row.state = "deleting" => row.epoch = 0,
         row # NoRow => \A t2 \in Tiers :
           t2 # t /\ blocks[k][t2] # NoRow => blocks[k][t2].desc = row.desc
  PROVE  /\ OnePayloadPerKey'
         /\ (\A k2 \in Keys, t2 \in Tiers : Deleting(k2, t2) => blocks[k2][t2].epoch = 0)'
<1>1. /\ blocks'[k][t] = row
      /\ \A k2 \in Keys, t2 \in Tiers :
           <<k2, t2>> # <<k, t>> => blocks'[k2][t2] = blocks[k2][t2]
  BY SetRowFacts DEF PinInv, TypeOK, Table
<1>2. OnePayloadPerKey'
  <2> SUFFICES ASSUME NEW k2 \in Keys, NEW t1 \in Tiers, NEW t2 \in Tiers,
                      blocks'[k2][t1] # NoRow, blocks'[k2][t2] # NoRow
               PROVE  blocks'[k2][t1].desc = blocks'[k2][t2].desc
    BY Zenon DEF OnePayloadPerKey
  <2>1. CASE k2 # k
    BY <1>1, <2>1 DEF PinInv, OnePayloadPerKey
  <2>2. CASE k2 = k /\ t1 # t /\ t2 # t
    BY <1>1, <2>2 DEF PinInv, OnePayloadPerKey
  <2>3. CASE k2 = k /\ (t1 = t \/ t2 = t)
    BY <1>1, <2>3, Zenon
  <2> QED BY <2>1, <2>2, <2>3, Zenon
<1>3. ASSUME NEW k2 \in Keys, NEW t2 \in Tiers, Deleting(k2, t2)'
      PROVE  blocks'[k2][t2].epoch = 0
  BY <1>1, <1>3 DEF PinInv, Deleting
<1> QED BY <1>2, <1>3, Zenon

\* One row is replaced and no reader comes or goes.  The pins stay right if the
\* new row counts the same readers and, if there are any, stays published.
LEMMA RowStepPins ==
  ASSUME PinInv, open, NEW k \in Keys, NEW t \in Tiers, NEW row \in Row \cup {NoRow},
         SetRow(k, t, row), UNCHANGED <<ownerEpoch, open, held>>,
         KeptOf(row) = KeptInFlight(k, t),
         HeldBy(k, t) # {} => /\ row # NoRow /\ row.state = "active"
                              /\ row.desc = blocks[k][t].desc
  PROVE  PinsMatchReaders' /\ AcquiredStaysPublished'
<1>1. /\ blocks'[k][t] = row
      /\ \A k2 \in Keys, t2 \in Tiers :
           <<k2, t2>> # <<k, t>> => blocks'[k2][t2] = blocks[k2][t2]
  BY SetRowFacts DEF PinInv, TypeOK, Table
<1>2. ASSUME NEW k2 \in Keys, NEW t2 \in Tiers
      PROVE  KeptInFlight(k2, t2)' = KeptInFlight(k2, t2) /\ HeldBy(k2, t2)' = HeldBy(k2, t2)
  <2>1. HeldBy(k2, t2)' = HeldBy(k2, t2)
    BY Zenon DEF HeldBy
  <2>2. CASE <<k2, t2>> = <<k, t>>
    BY <1>1, <2>1, <2>2, Zenon DEF KeptInFlight, KeptOf
  <2>3. CASE <<k2, t2>> # <<k, t>>
    BY <1>1, <2>1, <2>3, Zenon DEF KeptInFlight
  <2> QED BY <2>2, <2>3, Zenon
<1>3. PinsMatchReaders'
  BY <1>2, Zenon DEF PinInv, PinsMatchReaders
<1>4. AcquiredStaysPublished'
  <2> SUFFICES ASSUME NEW r \in Readers, held[r] # NotHeld
               PROVE  /\ Active(held[r].key, held[r].tier)'
                      /\ blocks'[held[r].key][held[r].tier].desc = held[r].desc
    BY Zenon DEF AcquiredStaysPublished
  <2>1. /\ held[r].key \in Keys /\ held[r].tier \in Tiers
        /\ Active(held[r].key, held[r].tier)
        /\ blocks[held[r].key][held[r].tier].desc = held[r].desc
    BY Zenon DEF PinInv, TypeOK, Hold, AcquiredStaysPublished
  <2>2. CASE <<held[r].key, held[r].tier>> = <<k, t>>
    <3>1. r \in HeldBy(k, t)
      BY <2>2, Zenon DEF HeldBy
    <3> QED BY <1>1, <2>1, <2>2, <3>1, Zenon DEF Active
  <2>3. CASE <<held[r].key, held[r].tier>> # <<k, t>>
    BY <1>1, <2>1, <2>3, Zenon DEF Active
  <2> QED BY <2>2, <2>3, Zenon
<1> QED BY <1>3, <1>4, Zenon

\* upsert, delete, begin_delete and finish_delete leave the pins right.
LEMMA WritePinInv ==
  ASSUME PinInv, NEW k \in Keys, NEW t \in Tiers, Write(k, t), UNCHANGED held, TypeOK'
  PROVE  PinInv'
<1>o. open /\ UNCHANGED <<ownerEpoch, open>> /\ ownerEpoch > 0 /\ ownerEpoch \in Nat
  BY Zenon DEF Write, Upsert, Delete, BeginDelete, FinishDelete, PinInv, TypeOK
<1>k. KeptInFlight(k, t) = Cardinality(HeldBy(k, t))
  BY <1>o, Zenon DEF PinInv, PinsMatchReaders
<1>t. blocks[k][t] \in Row \cup {NoRow}
  BY Zenon DEF PinInv, TypeOK
<1>u. ~Pinned(k, t) => KeptInFlight(k, t) = 0 /\ HeldBy(k, t) = {}
  BY <1>o, <1>k, UnpinnedHasNoReaders, HeldByFinite, Zenon
<1>s. ASSUME NEW row \in Row \cup {NoRow}, SetRow(k, t, row),
             row # NoRow /\ row.state = "deleting" => row.epoch = 0,
             row # NoRow => \A t2 \in Tiers :
               t2 # t /\ blocks[k][t2] # NoRow => blocks[k][t2].desc = row.desc,
             KeptOf(row) = KeptInFlight(k, t),
             HeldBy(k, t) # {} => /\ row # NoRow /\ row.state = "active"
                                  /\ row.desc = blocks[k][t].desc
      PROVE  PinInv'
  <2>1. PinsMatchReaders' /\ AcquiredStaysPublished'
    BY <1>o, <1>s, RowStepPins, Zenon
  <2>2. /\ OnePayloadPerKey'
        /\ (\A k2 \in Keys, t2 \in Tiers : Deleting(k2, t2) => blocks[k2][t2].epoch = 0)'
    BY <1>s, RowStepDescriptors, Zenon
  <2>3. (open => ownerEpoch > 0)' /\ (~open => \A r \in Readers : held[r] = NotHeld)'
    BY <1>o, Zenon
  <2> QED BY <2>1, <2>2, <2>3, Zenon DEF PinInv
<1>1. ASSUME NEW d \in Descriptors, NEW u \in Uris, Upsert(k, t, d, u)
      PROVE  PinInv'
  <2> DEFINE row == [state |-> "active", desc |-> d, uri |-> u,
                     inFlight |-> KeptInFlight(k, t), epoch |-> ownerEpoch]
  <2>1. SetRow(k, t, row) /\ DescriptorFits(k, d)
    BY <1>1, Zenon DEF Upsert, CanUpsert
  <2>2. KeptInFlight(k, t) \in Nat
    BY <1>k, HeldByFinite, Zenon
  <2>3. row \in Row
    BY <1>o, <2>2, Zenon DEF Row
  <2>4. row # NoRow
    BY <2>3, NoRowAssumption, Zenon
  <2>5. KeptOf(row) = KeptInFlight(k, t)
    BY <2>4, Zenon DEF KeptOf
  <2>6. HeldBy(k, t) # {} => blocks[k][t] # NoRow
    BY Zenon DEF HeldBy, PinInv, AcquiredStaysPublished, Active
  <2>7. \A t2 \in Tiers : blocks[k][t2] # NoRow => blocks[k][t2].desc = row.desc
    BY <2>1, Zenon DEF DescriptorFits
  <2>8. row.state = "active"
    BY Zenon
  <2> HIDE DEF row
  <2> QED BY <1>s, <2>1, <2>3, <2>4, <2>5, <2>6, <2>7, <2>8, Zenon
<1>2. ASSUME SetRow(k, t, NoRow), ~Pinned(k, t)
      PROVE  PinInv'
  BY <1>2, <1>s, <1>u, Zenon DEF KeptOf
<1>3. CASE Delete(k, t)
  BY <1>2, <1>3, Zenon DEF Delete
<1>4. CASE FinishDelete(k, t)
  BY <1>2, <1>4, Zenon DEF FinishDelete, Pinned, Active, Deleting
<1>5. CASE BeginDelete(k, t)
  <2> DEFINE row == [blocks[k][t] EXCEPT !.state = "deleting",
                                         !.inFlight = IF Active(k, t) THEN 0 ELSE @,
                                         !.epoch = IF Active(k, t) THEN 0 ELSE @]
  <2>1. SetRow(k, t, row) /\ blocks[k][t] # NoRow /\ ~Pinned(k, t)
    BY <1>5, Zenon DEF BeginDelete, CanBeginDelete
  <2>2. blocks[k][t] \in Row /\ row \in Row
    BY <2>1, WrittenRows, Zenon DEF PinInv
  <2>3. Active(k, t) \/ blocks[k][t].epoch = 0
    BY <2>1, <2>2, Zenon DEF PinInv, Active, Deleting, Row
  <2>4. row.epoch = 0 /\ row.desc = blocks[k][t].desc
    BY <2>2, <2>3, Zenon DEF Row
  <2>5. KeptOf(row) = 0
    BY <1>o, <2>4 DEF KeptOf
  <2>6. \A t2 \in Tiers : blocks[k][t2] # NoRow => blocks[k][t2].desc = row.desc
    BY <2>1, <2>4, Zenon DEF PinInv, OnePayloadPerKey
  <2> HIDE DEF row
  <2> QED BY <1>s, <1>u, <2>1, <2>2, <2>4, <2>5, <2>6, Zenon
<1> QED BY <1>1, <1>3, <1>4, <1>5, Zenon DEF Write

\* lookup_and_acquire adds one to the counter of the row and one reader.
LEMMA AcquirePinInv ==
  ASSUME PinInv, NEW r \in Readers, NEW k \in Keys, NEW t \in Tiers,
         AcquireBy(r, k, t), TypeOK'
  PROVE  PinInv'
<1> DEFINE row == [blocks[k][t] EXCEPT !.inFlight = KeptInFlight(k, t) + 1,
                                       !.epoch = ownerEpoch]
           hold == [key |-> k, tier |-> t, desc |-> blocks[k][t].desc]
<1>1. /\ open /\ Active(k, t) /\ SetRow(k, t, row)
      /\ UNCHANGED <<ownerEpoch, open>>
      /\ held[r] = NotHeld /\ held' = [held EXCEPT ![r] = hold]
  BY Zenon DEF AcquireBy, Acquire
<1>2. blocks[k][t] # NoRow /\ blocks[k][t] \in Row /\ row \in Row
  BY <1>1, WrittenRows, Zenon DEF PinInv, Active
<1>3. row # NoRow
  BY <1>2, NoRowAssumption, Zenon
<1>4. /\ row.state = "active" /\ row.desc = blocks[k][t].desc
      /\ row.epoch = ownerEpoch /\ row.inFlight = KeptInFlight(k, t) + 1
  BY <1>1, <1>2, Zenon DEF Active, Row
<1>5. /\ hold \in Hold /\ hold # NotHeld
      /\ hold.key = k /\ hold.tier = t /\ hold.desc = blocks[k][t].desc
  BY <1>2, ClientsAssumption DEF Hold, Row
<1> HIDE DEF row, hold
<1>6. /\ blocks'[k][t] = row
      /\ \A k2 \in Keys, t2 \in Tiers :
           <<k2, t2>> # <<k, t>> => blocks'[k2][t2] = blocks[k2][t2]
  BY <1>1, <1>2, SetRowFacts DEF PinInv, TypeOK, Table
<1>7. held'[r] = hold /\ \A r2 \in Readers \ {r} : held'[r2] = held[r2]
  BY <1>1, Zenon DEF PinInv, TypeOK
<1>8. PinsMatchReaders'
  <2> SUFFICES ASSUME NEW k2 \in Keys, NEW t2 \in Tiers
               PROVE  KeptInFlight(k2, t2)' = Cardinality(HeldBy(k2, t2)')
    BY Zenon DEF PinsMatchReaders
  <2>1. KeptInFlight(k2, t2) = Cardinality(HeldBy(k2, t2))
    BY <1>1, Zenon DEF PinInv, PinsMatchReaders
  <2>2. CASE <<k2, t2>> = <<k, t>>
    <3>1. HeldBy(k, t)' = HeldBy(k, t) \cup {r} /\ r \notin HeldBy(k, t)
      BY <1>1, <1>5, <1>7, Zenon DEF HeldBy
    <3>2. Cardinality(HeldBy(k, t) \cup {r}) = Cardinality(HeldBy(k, t)) + 1
      BY <3>1, HeldByFinite, FS_AddElement, Zenon
    <3>3. KeptInFlight(k, t)' = KeptInFlight(k, t) + 1
      BY <1>1, <1>3, <1>4, <1>6, Zenon DEF KeptInFlight
    <3> QED BY <2>1, <2>2, <3>1, <3>2, <3>3, Zenon
  <2>3. CASE <<k2, t2>> # <<k, t>>
    <3>1. HeldBy(k2, t2)' = HeldBy(k2, t2)
      BY <1>1, <1>5, <1>7, <2>3, Zenon DEF HeldBy
    <3>2. KeptInFlight(k2, t2)' = KeptInFlight(k2, t2)
      BY <1>1, <1>6, <2>3, Zenon DEF KeptInFlight
    <3> QED BY <2>1, <3>1, <3>2, Zenon
  <2> QED BY <2>2, <2>3, Zenon
<1>9. AcquiredStaysPublished'
  <2> SUFFICES ASSUME NEW r2 \in Readers, held'[r2] # NotHeld
               PROVE  /\ Active(held[r2].key, held[r2].tier)'
                      /\ blocks'[held'[r2].key][held'[r2].tier].desc = held'[r2].desc
    BY Zenon DEF AcquiredStaysPublished
  <2>1. CASE r2 = r
    BY <1>3, <1>4, <1>5, <1>6, <1>7, <2>1, Zenon DEF Active
  <2>2. CASE r2 # r
    <3>1. /\ held'[r2] = held[r2]
          /\ held[r2].key \in Keys /\ held[r2].tier \in Tiers
          /\ Active(held[r2].key, held[r2].tier)
          /\ blocks[held[r2].key][held[r2].tier].desc = held[r2].desc
      BY <1>7, <2>2, Zenon DEF PinInv, TypeOK, Hold, AcquiredStaysPublished
    <3>2. CASE <<held[r2].key, held[r2].tier>> = <<k, t>>
      BY <1>3, <1>4, <1>6, <3>1, <3>2, Zenon DEF Active
    <3>3. CASE <<held[r2].key, held[r2].tier>> # <<k, t>>
      BY <1>6, <3>1, <3>3 DEF Active
    <3> QED BY <3>2, <3>3, Zenon
  <2> QED BY <2>1, <2>2, Zenon
<1>10. \A t2 \in Tiers : blocks[k][t2] # NoRow => blocks[k][t2].desc = row.desc
  BY <1>2, <1>4, Zenon DEF PinInv, OnePayloadPerKey
<1>11. /\ OnePayloadPerKey'
       /\ (\A k2 \in Keys, t2 \in Tiers : Deleting(k2, t2) => blocks[k2][t2].epoch = 0)'
  BY <1>1, <1>2, <1>4, <1>10, RowStepDescriptors, Zenon
<1>12. (open => ownerEpoch > 0)' /\ (~open => \A r2 \in Readers : held[r2] = NotHeld)'
  BY <1>1, Zenon DEF PinInv
<1> QED BY <1>8, <1>9, <1>11, <1>12, Zenon DEF PinInv

\* release takes one from the counter of the row that its caller acquired.
LEMMA ReleasePinInv ==
  ASSUME PinInv, NEW r \in Readers, ReleaseBy(r), TypeOK'
  PROVE  PinInv'
<1>p. held[r] # NotHeld /\ held[r].key \in Keys /\ held[r].tier \in Tiers
  BY Zenon DEF ReleaseBy, PinInv, TypeOK, Hold
<1>q. PICK k \in Keys, t \in Tiers : held[r].key = k /\ held[r].tier = t
  BY <1>p, Zenon
<1>1. /\ open /\ held[r] # NotHeld /\ Release(k, t)
      /\ UNCHANGED <<ownerEpoch, open>>
      /\ held' = [held EXCEPT ![r] = NotHeld]
  BY <1>q, Zenon DEF ReleaseBy, Release
<1>2. k \in Keys /\ t \in Tiers /\ Active(k, t) /\ r \in HeldBy(k, t)
  BY <1>q, <1>1, Zenon DEF PinInv, AcquiredStaysPublished, HeldBy
<1>h. held'[r] = NotHeld /\ \A r2 \in Readers \ {r} : held'[r2] = held[r2]
  BY <1>1, Zenon DEF PinInv, TypeOK
<1>b. \A k2, t2 : HeldBy(k2, t2)' = HeldBy(k2, t2) \ {r}
  BY <1>h, Zenon DEF HeldBy
<1>n. \A k2, t2 : <<k2, t2>> # <<k, t>> => r \notin HeldBy(k2, t2)
  BY <1>q, Zenon DEF HeldBy
<1> DEFINE row == [blocks[k][t] EXCEPT !.inFlight = IF @ = 0 THEN 0 ELSE @ - 1]
<1>3. Pinned(k, t)
  BY <1>1, <1>2, UnpinnedHasNoReaders, Zenon
<1>4. blocks[k][t] # NoRow /\ blocks[k][t] \in Row /\ row \in Row
  BY <1>2, WrittenRows, Zenon DEF PinInv, Active
<1>5. SetRow(k, t, row)
  BY <1>1, <1>3, <1>4, Zenon DEF Release, Pinned
<1>6. /\ row # NoRow /\ row.state = "active" /\ row.desc = blocks[k][t].desc
      /\ row.epoch = ownerEpoch /\ row.inFlight = blocks[k][t].inFlight - 1
  BY <1>3, <1>4, NoRowAssumption DEF Pinned, Active, Row
<1> HIDE DEF row
<1>7. /\ blocks'[k][t] = row
      /\ \A k2 \in Keys, t2 \in Tiers :
           <<k2, t2>> # <<k, t>> => blocks'[k2][t2] = blocks[k2][t2]
  BY <1>2, <1>4, <1>5, SetRowFacts DEF PinInv, TypeOK, Table
<1>8. PinsMatchReaders'
  <2> SUFFICES ASSUME NEW k2 \in Keys, NEW t2 \in Tiers
               PROVE  KeptInFlight(k2, t2)' = Cardinality(HeldBy(k2, t2)')
    BY Zenon DEF PinsMatchReaders
  <2>1. KeptInFlight(k2, t2) = Cardinality(HeldBy(k2, t2))
    BY <1>1, Zenon DEF PinInv, PinsMatchReaders
  <2>2. CASE <<k2, t2>> = <<k, t>>
    <3>1. Cardinality(HeldBy(k, t) \ {r}) = Cardinality(HeldBy(k, t)) - 1
      BY <1>2, HeldByFinite, FS_RemoveElement, Zenon
    <3>2. KeptInFlight(k, t)' = KeptInFlight(k, t) - 1
      BY <1>1, <1>3, <1>4, <1>6, <1>7, Zenon DEF KeptInFlight, Pinned
    <3> QED BY <1>b, <2>1, <2>2, <3>1, <3>2, Zenon
  <2>3. CASE <<k2, t2>> # <<k, t>>
    <3>1. HeldBy(k2, t2)' = HeldBy(k2, t2)
      BY <1>b, <1>n, <2>3, Zenon
    <3>2. KeptInFlight(k2, t2)' = KeptInFlight(k2, t2)
      BY <1>1, <1>7, <2>3, Zenon DEF KeptInFlight
    <3> QED BY <2>1, <3>1, <3>2, Zenon
  <2> QED BY <2>2, <2>3, Zenon
<1>9. AcquiredStaysPublished'
  <2> SUFFICES ASSUME NEW r2 \in Readers, held'[r2] # NotHeld
               PROVE  /\ Active(held[r2].key, held[r2].tier)'
                      /\ blocks'[held'[r2].key][held'[r2].tier].desc = held'[r2].desc
    BY Zenon DEF AcquiredStaysPublished
  <2>1. /\ held'[r2] = held[r2]
        /\ held[r2].key \in Keys /\ held[r2].tier \in Tiers
        /\ Active(held[r2].key, held[r2].tier)
        /\ blocks[held[r2].key][held[r2].tier].desc = held[r2].desc
    BY <1>h, Zenon DEF PinInv, TypeOK, Hold, AcquiredStaysPublished
  <2>2. CASE <<held[r2].key, held[r2].tier>> = <<k, t>>
    BY <1>6, <1>7, <2>1, <2>2, Zenon DEF Active
  <2>3. CASE <<held[r2].key, held[r2].tier>> # <<k, t>>
    BY <1>7, <2>1, <2>3, Zenon DEF Active
  <2> QED BY <2>2, <2>3, Zenon
<1>10. \A t2 \in Tiers : blocks[k][t2] # NoRow => blocks[k][t2].desc = row.desc
  BY <1>2, <1>4, <1>6, Zenon DEF PinInv, OnePayloadPerKey
<1>11. /\ OnePayloadPerKey'
       /\ (\A k2 \in Keys, t2 \in Tiers : Deleting(k2, t2) => blocks[k2][t2].epoch = 0)'
  BY <1>2, <1>4, <1>5, <1>6, <1>10, RowStepDescriptors, Zenon
<1>12. (open => ownerEpoch > 0)' /\ (~open => \A r2 \in Readers : held[r2] = NotHeld)'
  BY <1>1, Zenon DEF PinInv
<1> QED BY <1>8, <1>9, <1>11, <1>12, Zenon DEF PinInv

\* A new owner starts with every counter cleared and no reader.
LEMMA StartPinInv ==
  ASSUME PinInv, StartOwner, TypeOK'
  PROVE  PinInv'
<1>1. /\ ~open /\ open' /\ ownerEpoch' = ownerEpoch + 1 /\ ownerEpoch \in Nat
      /\ blocks' = ClearedCounters /\ held' = held
      /\ \A r \in Readers : held[r] = NotHeld
  BY Zenon DEF StartOwner, Open, PinInv, TypeOK
<1>2. ASSUME NEW k \in Keys, NEW t \in Tiers
      PROVE  /\ blocks'[k][t] = NoRow <=> blocks[k][t] = NoRow
             /\ blocks'[k][t] # NoRow => /\ blocks'[k][t].epoch = 0
                                         /\ blocks'[k][t].desc = blocks[k][t].desc
  <2>1. blocks'[k][t] = IF blocks[k][t] = NoRow THEN NoRow
                        ELSE [blocks[k][t] EXCEPT !.inFlight = 0, !.epoch = 0]
    BY <1>1, Zenon DEF ClearedCounters
  <2>2. blocks[k][t] # NoRow =>
          /\ blocks[k][t] \in Row
          /\ [blocks[k][t] EXCEPT !.inFlight = 0, !.epoch = 0] \in Row
    BY WrittenRows, Zenon DEF PinInv
  <2> QED BY <2>1, <2>2, NoRowAssumption, Zenon DEF Row
<1>3. ASSUME NEW k \in Keys, NEW t \in Tiers
      PROVE  KeptInFlight(k, t)' = 0 /\ HeldBy(k, t)' = {}
  BY <1>1, <1>2 DEF KeptInFlight, HeldBy
<1>4. PinsMatchReaders'
  BY <1>3, FS_EmptySet, Zenon DEF PinsMatchReaders
<1>5. AcquiredStaysPublished'
  BY <1>1, Zenon DEF AcquiredStaysPublished
<1>6. OnePayloadPerKey'
  BY <1>2 DEF PinInv, OnePayloadPerKey
<1>7. (\A k \in Keys, t \in Tiers : Deleting(k, t) => blocks[k][t].epoch = 0)'
  BY <1>2, Zenon DEF Deleting
<1>8. (open => ownerEpoch > 0)' /\ (~open => \A r \in Readers : held[r] = NotHeld)'
  BY <1>1
<1> QED BY <1>4, <1>5, <1>6, <1>7, <1>8, Zenon DEF PinInv

\* The invariant holds of an empty database that nobody has opened.
LEMMA InitPinInv == Init => PinInv
<1> SUFFICES ASSUME Init PROVE PinInv
  BY Zenon
<1>1. TypeOK
  BY InitTypeOK, Zenon
<1>2. /\ ~open
      /\ \A k \in Keys, t \in Tiers : blocks[k][t] = NoRow
      /\ \A r \in Readers : held[r] = NotHeld
  BY Zenon DEF Init
<1> QED BY <1>1, <1>2, Zenon DEF PinInv, PinsMatchReaders, AcquiredStaysPublished, OnePayloadPerKey, Deleting

\* Every step of the clients keeps the invariant.
LEMMA NextPinInv == PinInv /\ [Next]_clientVars => PinInv'
<1> SUFFICES ASSUME PinInv, [Next]_clientVars PROVE PinInv'
  BY Zenon
<1>t. TypeOK'
  BY NextTypeOK, Zenon DEF PinInv
<1>1. ASSUME NEW k \in Keys, NEW t \in Tiers, Write(k, t), UNCHANGED held
      PROVE  PinInv'
  BY <1>1, <1>t, WritePinInv, Zenon
<1>2. ASSUME NEW r \in Readers, NEW k \in Keys, NEW t \in Tiers, AcquireBy(r, k, t)
      PROVE  PinInv'
  BY <1>2, <1>t, AcquirePinInv, Zenon
<1>3. ASSUME NEW r \in Readers, ReleaseBy(r)
      PROVE  PinInv'
  BY <1>3, <1>t, ReleasePinInv, Zenon
<1>4. CASE StopOwner
  <2>1. ~open' /\ UNCHANGED blocks /\ \A r \in Readers : held'[r] = NotHeld
    BY <1>4, Zenon DEF StopOwner, Close
  <2>2. PinsMatchReaders' /\ AcquiredStaysPublished' /\ OnePayloadPerKey'
    BY <2>1, Zenon DEF PinInv, PinsMatchReaders, AcquiredStaysPublished, OnePayloadPerKey
  <2>3. (\A k \in Keys, t \in Tiers : Deleting(k, t) => blocks[k][t].epoch = 0)'
    BY <2>1, Zenon DEF PinInv, Deleting
  <2> QED BY <1>t, <2>1, <2>2, <2>3, Zenon DEF PinInv
<1>5. CASE StartOwner
  BY <1>5, <1>t, StartPinInv, Zenon
<1>6. CASE UNCHANGED clientVars
  BY <1>6, <1>t DEF clientVars, PinInv, PinsMatchReaders, AcquiredStaysPublished,
       OnePayloadPerKey, Deleting, Active, KeptInFlight, HeldBy
<1> QED BY <1>1, <1>2, <1>3, <1>4, <1>5, <1>6, Zenon DEF Next

\* The invariant holds in every reachable state.
LEMMA PinInvariant == Spec => []PinInv
  BY InitPinInv, NextPinInv, PTL DEF Spec

\* No interleaving of upserts, deletions, tombstones and restarts withdraws or
\* replaces a block between lookup_and_acquire and release.
THEOREM AcquiredSafe == Spec => []AcquiredStaysPublished
<1>1. PinInv => AcquiredStaysPublished
  BY Zenon DEF PinInv
<1> QED BY <1>1, PinInvariant, PTL

\* in_flight of the live owner is the number of its readers, always.
THEOREM PinsExact == Spec => []PinsMatchReaders
<1>1. PinInv => PinsMatchReaders
  BY Zenon DEF PinInv
<1> QED BY <1>1, PinInvariant, PTL

\* upsert keeps the rows of a key in all tiers, tombstones included, to one
\* payload descriptor.
THEOREM PayloadUnique == Spec => []OnePayloadPerKey
<1>1. PinInv => OnePayloadPerKey
  BY Zenon DEF PinInv
<1> QED BY <1>1, PinInvariant, PTL

-----------------------------------------------------------------------------
(* The table implements the catalogue *)

\* One row is replaced: what is published changes at that row only.
LEMMA RowStepPublished ==
  ASSUME TypeOK, NEW k \in Keys, NEW t \in Tiers, NEW row \in Row \cup {NoRow},
         SetRow(k, t, row),
         NEW d, d = IF row # NoRow /\ row.state = "active" THEN row.desc ELSE NotHeld
  PROVE  Published' = [Published EXCEPT ![k][t] = d]
<1>1. /\ blocks'[k][t] = row
      /\ \A k2 \in Keys, t2 \in Tiers :
           <<k2, t2>> # <<k, t>> => blocks'[k2][t2] = blocks[k2][t2]
  BY SetRowFacts, Zenon DEF TypeOK, Table
<1>2. ASSUME NEW k2 \in Keys, NEW t2 \in Tiers
      PROVE  Published'[k2][t2] = IF <<k2, t2>> = <<k, t>> THEN d ELSE Published[k2][t2]
  BY <1>1, Zenon DEF Published, Active
<1>3. /\ Published = [k2 \in Keys |-> [t2 \in Tiers |-> Published[k2][t2]]]
      /\ Published' = [k2 \in Keys |-> [t2 \in Tiers |-> Published'[k2][t2]]]
  BY Zenon DEF Published
<1> HIDE DEF Published
<1> QED BY <1>2, <1>3

\* Every step of the clients is a step of the catalogue or leaves it alone: a
\* begun deletion withdraws, a finished one changes nothing any more.
LEMMA StepImplements ==
  PinInv /\ [Next]_clientVars => [Catalog!Next]_<<Published, held>>
<1> SUFFICES ASSUME PinInv, [Next]_clientVars
             PROVE  [Catalog!Next]_<<Published, held>>
  BY Zenon
<1>t. TypeOK
  BY Zenon DEF PinInv
<1>p. \A k \in Keys, t \in Tiers :
        Published[k][t] = IF Active(k, t) THEN blocks[k][t].desc ELSE NotHeld
  BY Zenon DEF Published
<1>w. ASSUME NEW k \in Keys, NEW t \in Tiers, open, ~Pinned(k, t),
             Published' = [Published EXCEPT ![k][t] = NotHeld], UNCHANGED held
      PROVE  Catalog!Next
  <2>1. HeldBy(k, t) = {}
    BY <1>w, UnpinnedHasNoReaders, Zenon
  <2>2. Catalog!Withdraw(k, t)
    BY <1>w, <2>1, Zenon DEF HeldBy, Catalog!Withdraw
  <2> QED BY <2>2, Zenon DEF Catalog!Next
<1>1. ASSUME NEW k \in Keys, NEW t \in Tiers, Write(k, t), UNCHANGED held
      PROVE  Catalog!Next
  <2>1. ASSUME NEW d \in Descriptors, NEW u \in Uris, Upsert(k, t, d, u)
        PROVE  Catalog!Next
    <3> DEFINE row == [state |-> "active", desc |-> d, uri |-> u,
                       inFlight |-> KeptInFlight(k, t), epoch |-> ownerEpoch]
    <3>1. SetRow(k, t, row) /\ DescriptorFits(k, d)
      BY <2>1, Zenon DEF Upsert, CanUpsert
    <3>2. KeptInFlight(k, t) \in Nat /\ ownerEpoch \in Nat
      BY <1>t, WrittenRows, Zenon DEF TypeOK
    <3>3. row \in Row /\ row # NoRow /\ row.state = "active" /\ row.desc = d
      BY <3>2, NoRowAssumption DEF Row
    <3> HIDE DEF row
    <3>4. Published' = [Published EXCEPT ![k][t] = d]
      BY <1>t, <3>1, <3>3, RowStepPublished
    <3>5. \A t2 \in Tiers : Published[k][t2] \in {NotHeld, d}
      BY <1>p, <3>1, Zenon DEF DescriptorFits, Active
    <3>6. Catalog!Publish(k, t, d)
      BY <1>1, <3>4, <3>5, Zenon DEF Catalog!Publish
    <3> QED BY <3>6, Zenon DEF Catalog!Next
  <2>2. ASSUME SetRow(k, t, NoRow), open, ~Pinned(k, t)
        PROVE  Catalog!Next
    <3>1. Published' = [Published EXCEPT ![k][t] = NotHeld]
      BY <1>t, <2>2, RowStepPublished
    <3> QED BY <1>1, <1>w, <2>2, <3>1, Zenon
  <2>3. CASE Delete(k, t)
    BY <2>2, <2>3, Zenon DEF Delete
  <2>4. CASE FinishDelete(k, t)
    BY <2>2, <2>4, Zenon DEF FinishDelete, Pinned, Active, Deleting
  <2>5. CASE BeginDelete(k, t)
    <3> DEFINE row == [blocks[k][t] EXCEPT !.state = "deleting",
                                           !.inFlight = IF Active(k, t) THEN 0 ELSE @,
                                           !.epoch = IF Active(k, t) THEN 0 ELSE @]
    <3>1. SetRow(k, t, row) /\ blocks[k][t] # NoRow /\ ~Pinned(k, t) /\ open
      BY <2>5, Zenon DEF BeginDelete, CanBeginDelete
    <3>2. blocks[k][t] \in Row /\ row \in Row
      BY <1>t, <3>1, WrittenRows, Zenon
    <3>3. row.state = "deleting"
      BY <3>2, Zenon DEF Row
    <3> HIDE DEF row
    <3>4. Published' = [Published EXCEPT ![k][t] = NotHeld]
      BY <1>t, <3>1, <3>2, <3>3, RowStepPublished
    <3> QED BY <1>1, <1>w, <3>1, <3>4, Zenon
  <2> QED BY <1>1, <2>1, <2>3, <2>4, <2>5, Zenon DEF Write
<1>2. ASSUME NEW r \in Readers, NEW k \in Keys, NEW t \in Tiers, AcquireBy(r, k, t)
      PROVE  Catalog!Next
  <2> DEFINE row == [blocks[k][t] EXCEPT !.inFlight = KeptInFlight(k, t) + 1,
                                         !.epoch = ownerEpoch]
  <2>1. SetRow(k, t, row) /\ Active(k, t)
    BY <1>2, Zenon DEF AcquireBy, Acquire
  <2>2. blocks[k][t] # NoRow /\ blocks[k][t] \in Row /\ row \in Row
    BY <1>t, <2>1, WrittenRows, Zenon DEF Active
  <2>3. /\ row # NoRow /\ row.state = "active" /\ row.desc = blocks[k][t].desc
        /\ blocks[k][t].desc \in Descriptors
    BY <2>1, <2>2, NoRowAssumption, Zenon DEF Active, Row
  <2> HIDE DEF row
  <2>4. Published[k][t] = blocks[k][t].desc /\ Published[k][t] # NotHeld
    BY <1>p, <2>1, <2>3, ClientsAssumption, Zenon
  <2>5. Published' = [Published EXCEPT ![k][t] = blocks[k][t].desc]
    BY <1>t, <2>1, <2>2, <2>3, RowStepPublished
  <2>6. Published' = Published
    <3>1. Published = [k2 \in Keys |-> [t2 \in Tiers |-> Published[k2][t2]]]
      BY Zenon DEF Published
    <3> HIDE DEF Published
    <3> QED BY <2>4, <2>5, <3>1, Zenon
  <2>7. Catalog!StartRead(r, k, t)
    BY <1>2, <2>4, <2>6, Zenon DEF AcquireBy, Catalog!StartRead
  <2> QED BY <2>7, Zenon DEF Catalog!Next
<1>3. ASSUME NEW r \in Readers, ReleaseBy(r)
      PROVE  Catalog!Next
  <2>1. PICK k \in Keys, t \in Tiers : held[r].key = k /\ held[r].tier = t
    BY <1>3, <1>t, Zenon DEF ReleaseBy, TypeOK, Hold
  <2>2. Release(k, t) /\ held' = [held EXCEPT ![r] = NotHeld]
    BY <1>3, <2>1, Zenon DEF ReleaseBy
  <2>3. \A k2 \in Keys, t2 \in Tiers :
          /\ Active(k2, t2)' <=> Active(k2, t2)
          /\ Active(k2, t2) => blocks'[k2][t2].desc = blocks[k2][t2].desc
    <3> DEFINE row == [blocks[k][t] EXCEPT !.inFlight = IF @ = 0 THEN 0 ELSE @ - 1]
    <3>1. CASE blocks[k][t] # NoRow /\ blocks[k][t].epoch = ownerEpoch
      <4>1. blocks[k][t] \in Row /\ row \in Row /\ SetRow(k, t, row)
        BY <1>t, <2>2, <3>1, WrittenRows, Zenon DEF Release
      <4>2. row # NoRow /\ row.state = blocks[k][t].state /\ row.desc = blocks[k][t].desc
        BY <4>1, NoRowAssumption, Zenon DEF Row
      <4> HIDE DEF row
      <4>3. /\ blocks'[k][t] = row
            /\ \A k2 \in Keys, t2 \in Tiers :
                 <<k2, t2>> # <<k, t>> => blocks'[k2][t2] = blocks[k2][t2]
        BY <1>t, <4>1, SetRowFacts, Zenon DEF TypeOK, Table
      <4> QED BY <3>1, <4>2, <4>3, Zenon DEF Active
    <3>2. CASE ~(blocks[k][t] # NoRow /\ blocks[k][t].epoch = ownerEpoch)
      BY <2>2, <3>2, Zenon DEF Release, Active
    <3> QED BY <3>1, <3>2, Zenon
  <2>4. Published' = Published
    BY <2>3, Zenon DEF Published
  <2>5. Catalog!EndRead(r)
    BY <2>2, <2>4, Zenon DEF Catalog!EndRead
  <2> QED BY <2>5, Zenon DEF Catalog!Next
<1>4. CASE StopOwner
  <2>1. Published' = Published
    BY <1>4, Zenon DEF StopOwner, Close, Published, Active
  <2>2. Catalog!Restart
    BY <1>4, <2>1, Zenon DEF StopOwner, Catalog!Restart
  <2> QED BY <2>2, Zenon DEF Catalog!Next
<1>5. CASE StartOwner
  <2>1. ASSUME NEW k \in Keys, NEW t \in Tiers
        PROVE  /\ Active(k, t)' <=> Active(k, t)
               /\ Active(k, t) => blocks'[k][t].desc = blocks[k][t].desc
    <3>1. blocks'[k][t] = IF blocks[k][t] = NoRow THEN NoRow
                          ELSE [blocks[k][t] EXCEPT !.inFlight = 0, !.epoch = 0]
      BY <1>5, Zenon DEF StartOwner, Open, ClearedCounters
    <3>2. blocks[k][t] # NoRow =>
            /\ blocks[k][t] \in Row
            /\ [blocks[k][t] EXCEPT !.inFlight = 0, !.epoch = 0] \in Row
      BY <1>t, WrittenRows, Zenon
    <3> QED BY <3>1, <3>2, NoRowAssumption, Zenon DEF Active, Row
  <2>2. Published' = Published
    BY <2>1, Zenon DEF Published
  <2> QED BY <1>5, <2>2, Zenon DEF StartOwner
<1>6. CASE UNCHANGED clientVars
  BY <1>6, Zenon DEF clientVars, Published, Active
<1> QED BY <1>1, <1>2, <1>3, <1>4, <1>5, <1>6, Zenon DEF Next

\* Counters, epochs, tombstones and restarts together implement the catalogue
\* of immutable blocks that are not withdrawn under a reader.
THEOREM TableImplementsCatalog == Spec => ImplementsCatalog
<1>1. Init => Catalog!Init
  BY DEF Init, Published, Active, Catalog!Init
<1> QED BY <1>1, StepImplements, PinInvariant, PTL
        DEF Spec, ImplementsCatalog, Catalog!Spec, Catalog!catalogVars
=============================================================================
