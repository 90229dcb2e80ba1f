-------------------------- MODULE SegmentTierProofs --------------------------
(***************************************************************************)
(* The segment layout of the file tier, for any number of keys, tiers,     *)
(* payloads, threads, compactions and incidents and any sizes: published   *)
(* records are whole, and a pinned record stays where it is.               *)
(***************************************************************************)
EXTENDS SegmentTier, TierFacts

\* What most steps need of the constants.
LEMMA SegmentConstants ==
  /\ NVMe \in Tiers /\ IsFiniteSet(Threads)
  /\ None \notin Threads /\ None \notin Keys /\ None \notin Descriptors
  BY SegmentAssumption, Zenon DEF Threads

USE SegmentConstants

PCs == {"idle", "exists", "stale", "acquire", "read", "release", "begin", "finish",
        "append", "commit", "pin", "copy", "publish", "unpin", "sweep"}

Ops == {"none", "load", "evict", "store", "compact"}

Verdicts == {"none", "ok", "error", "corrupt"}

Payloads == Descriptors \cup {None}

Places == Uris \cup {None}

Entries == [key : Keys, loc : Uris]

CallRecords ==
  [pc : PCs, op : Ops, key : Keys \cup {None}, val : Payloads, want : Payloads,
   loc : Places, verdict : Verdicts, todo : SUBSET Entries, left : SUBSET Keys]

CallType == call \in [Threads -> CallRecords]

\* Only thread t does something.
OthersWait(t) == CallType' /\ \A u \in Threads \ {t} : call'[u] = call[u]

Records == [key : Keys, desc : Descriptors] \cup {Torn}

FilesType ==
  /\ DOMAIN segs \subseteq Nat \X Nat /\ IsFiniteSet(DOMAIN segs)
  /\ \A p \in DOMAIN segs : segs[p] \in Seq(Records)

\* A table, files and calls of the right form; a closed store executes nothing.
SegmentType ==
  /\ Uris = Locations
  /\ blocks \in Table /\ ownerEpoch \in Nat
  /\ FilesType
  /\ CallType
  /\ compactions \in Nat /\ faults \in Nat
  /\ ~open => \A t \in Threads : call[t].pc = "idle"

\* What a call has at its steps.
Prepared(c) ==
  /\ c.pc \notin {"idle", "pin", "sweep"} => c.key \in Keys
  /\ c.pc \in {"read", "release"} => c.want \in Descriptors /\ c.loc \in Uris
  /\ c.pc \in {"exists", "copy", "publish", "commit"} => c.loc \in Uris
  /\ c.pc \in {"append", "commit", "copy", "publish"} => c.val \in Descriptors
  /\ c.pc \in {"exists", "stale", "acquire", "read"} => c.verdict = "none"
  /\ c.todo # {} => c.pc \in {"pin", "copy", "publish", "unpin"}

\* Stores and compactions run under the mutation lock, from their first step.
UnderLock(c) ==
  c.val # None \/ c.pc \in {"append", "commit", "pin", "copy", "publish", "unpin", "sweep"}

LockHeld == \A t \in Threads : UnderLock(call[t]) => mutation = t

\* The call is about to publish its location.
Publishing(c) == \/ c.pc \in {"commit", "publish"}
                 \/ c.pc = "release" /\ c.verdict = "ok" /\ c.val = c.want

\* There it has written, or found, its own record.
Publishable(c) ==
  /\ LocationExists(c.loc) => RecordAt(c.loc) = RecordOf(c.key, c.val)
  /\ faults = 0 => LocationExists(c.loc)

PublishesRecords == \A t \in Threads : Publishing(call[t]) => Publishable(call[t])

NothingLost == faults = 0 => hit = {}

RecordInv ==
  /\ SegmentType
  /\ \A t \in Threads : Prepared(call[t])
  /\ LockHeld
  /\ PublishesRecords
  /\ NothingLost
  /\ ReferencedIsIntact

\* The threads that hold a pin of the key.
HasPin(c) == c.pc \in {"read", "release", "copy", "publish", "unpin"}

Pinners(k) == {t \in Threads : HasPin(call[t]) /\ call[t].key = k}

\* The counter of a row covers its pins, and keeps the row.
PinsCounted ==
  \A k \in Keys : Pinners(k) # {} =>
    /\ Active(k, NVMe)
    /\ blocks[k][NVMe].epoch = ownerEpoch
    /\ blocks[k][NVMe].inFlight >= Cardinality(Pinners(k))

Reading(c) == c.pc \in {"read", "release"}

\* A load reads where the row points.
ReadsItsRow(t) ==
  Reading(call[t]) => /\ blocks[call[t].key][NVMe].uri = call[t].loc
                      /\ blocks[call[t].key][NVMe].desc = call[t].want

\* A store writes a record only for a key that has none, and publishes another
\* location only for a key without a row.
StoresTheMissing(t) ==
  /\ call[t].pc = "append" => ~Active(call[t].key, NVMe)
  /\ call[t].pc = "commit" /\ Active(call[t].key, NVMe)
       => blocks[call[t].key][NVMe].uri = call[t].loc

\* A compaction moves only what no load has pinned.
Moves(c) == {e.key : e \in c.todo} \cup {k \in {c.key} : c.pc \in {"copy", "publish"}}

MovesTheUnread ==
  \A t, u \in Threads : Reading(call[u]) => call[u].key \notin Moves(call[t])

PinInv ==
  /\ PinsCounted
  /\ faults = 0 => \A t \in Threads : ReadsItsRow(t) /\ StoresTheMissing(t)
  /\ MovesTheUnread

-----------------------------------------------------------------------------
(* The calls *)

\* One call is replaced.
LEMMA ReplaceFacts ==
  ASSUME CallType, NEW t \in Threads, NEW STATE c, c \in CallRecords,
         call' = [call EXCEPT ![t] = c]
  PROVE  OthersWait(t) /\ call'[t] = c
  BY Zenon DEF CallType, OthersWait

\* The call that is none.
LEMMA IdleIsCall ==
  /\ Idle \in CallRecords /\ Prepared(Idle) /\ ~UnderLock(Idle) /\ ~Publishing(Idle)
  /\ Idle.pc = "idle" /\ Idle.todo = {} /\ Idle.verdict = "none" /\ Idle.val = None
<1>1. Idle \in CallRecords
  BY Zenon DEF Idle, CallRecords, PCs, Ops, Payloads, Places, Verdicts
<1>2. /\ Idle.pc = "idle" /\ Idle.todo = {} /\ Idle.verdict = "none" /\ Idle.val = None
  BY Zenon DEF Idle
<1> QED
  BY <1>1, <1>2, Zenon DEF Prepared, UnderLock, Publishing

\* A call that ends leaves the others alone.
LEMMA ReturnFacts ==
  ASSUME CallType, NEW t \in Threads, Return(t)
  PROVE  OthersWait(t) /\ call'[t] = Idle
         /\ mutation' = IF mutation = t THEN None ELSE mutation
  BY IdleIsCall, ReplaceFacts, Zenon DEF Return

\* The updates of a call besides Go.
GoWith(t, pc, loc) == call' = [call EXCEPT ![t].pc = pc, ![t].loc = loc]

GoJudged(t, pc, v) == call' = [call EXCEPT ![t].pc = pc, ![t].verdict = v]

GoRead(t, loc, want) ==
  call' = [call EXCEPT ![t].pc = "read", ![t].loc = loc, ![t].want = want]

GoCopy(t, todo, key, loc, val) ==
  call' = [call EXCEPT ![t].pc = "copy", ![t].todo = todo, ![t].key = key, ![t].loc = loc,
                       ![t].val = val]

\* What the updates of a call do to its fields.
LEMMA GoFacts ==
  ASSUME CallType, NEW t \in Threads, NEW STATE pc, pc \in PCs, Go(t, pc)
  PROVE  /\ OthersWait(t) /\ call'[t].pc = pc /\ call'[t].op = call[t].op
         /\ call'[t].key = call[t].key /\ call'[t].val = call[t].val
         /\ call'[t].want = call[t].want /\ call'[t].loc = call[t].loc
         /\ call'[t].verdict = call[t].verdict /\ call'[t].todo = call[t].todo
<1>1. [call[t] EXCEPT !.pc = pc] \in CallRecords
  BY Zenon DEF CallType, CallRecords
<1>2. call' = [call EXCEPT ![t] = [call[t] EXCEPT !.pc = pc]]
  BY Zenon DEF CallType, Go
<1>3. OthersWait(t) /\ call'[t] = [call[t] EXCEPT !.pc = pc]
  BY <1>1, <1>2, ReplaceFacts, Zenon
<1> QED
  BY <1>3, Zenon DEF CallType, CallRecords

\* A record was written, or looked up.
LEMMA LocFacts ==
  ASSUME CallType, NEW t \in Threads, NEW STATE pc, pc \in PCs, NEW STATE loc, loc \in Uris,
         GoWith(t, pc, loc)
  PROVE  /\ OthersWait(t) /\ call'[t].pc = pc /\ call'[t].op = call[t].op
         /\ call'[t].key = call[t].key /\ call'[t].val = call[t].val
         /\ call'[t].want = call[t].want /\ call'[t].loc = loc
         /\ call'[t].verdict = call[t].verdict /\ call'[t].todo = call[t].todo
<1>0. loc \in Places
  BY Zenon DEF PCs, Places, Payloads
<1>1. [call[t] EXCEPT !.pc = pc, !.loc = loc] \in CallRecords
  BY <1>0, Zenon DEF CallType, CallRecords
<1>2. call' = [call EXCEPT ![t] = [call[t] EXCEPT !.pc = pc, !.loc = loc]]
  BY Zenon DEF CallType, GoWith
<1>3. OthersWait(t) /\ call'[t] = [call[t] EXCEPT !.pc = pc, !.loc = loc]
  BY <1>1, <1>2, ReplaceFacts, Zenon
<1> QED
  BY <1>3 DEF CallType, CallRecords

\* A record was read, or could not be copied.
LEMMA VerdictFacts ==
  ASSUME CallType, NEW t \in Threads, NEW STATE pc, pc \in PCs,
         NEW STATE v, v \in Verdicts, GoJudged(t, pc, v)
  PROVE  /\ OthersWait(t) /\ call'[t].pc = pc /\ call'[t].op = call[t].op
         /\ call'[t].key = call[t].key /\ call'[t].val = call[t].val
         /\ call'[t].want = call[t].want /\ call'[t].loc = call[t].loc
         /\ call'[t].verdict = v /\ call'[t].todo = call[t].todo
<1>1. [call[t] EXCEPT !.pc = pc, !.verdict = v] \in CallRecords
  BY Zenon DEF CallType, CallRecords
<1>2. call' = [call EXCEPT ![t] = [call[t] EXCEPT !.pc = pc, !.verdict = v]]
  BY Zenon DEF CallType, GoJudged
<1>3. OthersWait(t) /\ call'[t] = [call[t] EXCEPT !.pc = pc, !.verdict = v]
  BY <1>1, <1>2, ReplaceFacts, Zenon
<1> QED
  BY <1>3 DEF CallType, CallRecords

\* load() has its pin.
LEMMA AcquiredFacts ==
  ASSUME CallType, NEW t \in Threads, NEW STATE loc, loc \in Uris,
         NEW STATE want, want \in Descriptors, GoRead(t, loc, want)
  PROVE  /\ OthersWait(t) /\ call'[t].pc = "read" /\ call'[t].op = call[t].op
         /\ call'[t].key = call[t].key /\ call'[t].val = call[t].val
         /\ call'[t].want = want /\ call'[t].loc = loc
         /\ call'[t].verdict = call[t].verdict /\ call'[t].todo = call[t].todo
<1>0. "read" \in PCs /\ loc \in Places /\ want \in Payloads
  BY Zenon DEF PCs, Places, Payloads
<1>1. [call[t] EXCEPT !.pc = "read", !.loc = loc, !.want = want] \in CallRecords
  BY <1>0, Zenon DEF CallType, CallRecords
<1>2. call' = [call EXCEPT ![t] = [call[t] EXCEPT !.pc = "read", !.loc = loc, !.want = want]]
  BY Zenon DEF CallType, GoRead
<1>3. OthersWait(t) /\ call'[t] = [call[t] EXCEPT !.pc = "read", !.loc = loc, !.want = want]
  BY <1>1, <1>2, ReplaceFacts, Zenon
<1> QED
  BY <1>3 DEF CallType, CallRecords

\* compact_segments has pinned the next entry.
LEMMA EntryFacts ==
  ASSUME CallType, NEW t \in Threads, NEW STATE todo, todo \in SUBSET Entries,
         NEW STATE key, key \in Keys, NEW STATE loc, loc \in Uris,
         NEW STATE val, val \in Descriptors, GoCopy(t, todo, key, loc, val)
  PROVE  /\ OthersWait(t) /\ call'[t].pc = "copy" /\ call'[t].op = call[t].op
         /\ call'[t].key = key /\ call'[t].val = val
         /\ call'[t].want = call[t].want /\ call'[t].loc = loc
         /\ call'[t].verdict = call[t].verdict /\ call'[t].todo = todo
<1> DEFINE c == [call[t] EXCEPT !.pc = "copy", !.todo = todo, !.key = key, !.loc = loc,
                                !.val = val]
<1>0. "copy" \in PCs /\ loc \in Places /\ val \in Payloads /\ key \in Keys \cup {None}
  BY Zenon DEF PCs, Places, Payloads
<1>1. c \in CallRecords
  BY <1>0, Zenon DEF CallType, CallRecords
<1>2. call' = [call EXCEPT ![t] = c]
  BY Zenon DEF CallType, GoCopy
<1>3. OthersWait(t) /\ call'[t] = c
  BY <1>1, <1>2, ReplaceFacts, Zenon
<1> QED
  BY <1>3 DEF CallType, CallRecords

-----------------------------------------------------------------------------
(* The rows *)

\* No row is published, none of the published ones changes its record.
RowsStay ==
  \A k \in Keys : Active(k, NVMe)' =>
    /\ Active(k, NVMe)
    /\ blocks'[k][NVMe].uri = blocks[k][NVMe].uri
    /\ blocks'[k][NVMe].desc = blocks[k][NVMe].desc

\* The row of the key points where it did.
RowKept(k) ==
  /\ Active(k, NVMe)' <=> Active(k, NVMe)
  /\ Active(k, NVMe) => /\ blocks'[k][NVMe].uri = blocks[k][NVMe].uri
                        /\ blocks'[k][NVMe].desc = blocks[k][NVMe].desc

\* A published row has a location and a descriptor.
LEMMA ActiveRow ==
  ASSUME blocks \in Table, NEW k \in Keys, Active(k, NVMe)
  PROVE  /\ blocks[k][NVMe] \in Row /\ blocks[k][NVMe].uri \in Uris
         /\ blocks[k][NVMe].desc \in Descriptors
         /\ blocks[k][NVMe].inFlight \in Nat /\ blocks[k][NVMe].epoch \in Nat
<1>1. blocks[k][NVMe] \in Row
  BY Zenon DEF Table, Active
<1> QED
  BY <1>1, Zenon DEF Row

\* One row keeps its record and the others are the same.
LEMMA OneRowKept ==
  ASSUME NEW k \in Keys, OthersKept(k, NVMe), RowKept(k)
  PROVE  RowsStay /\ \A j \in Keys : RowKept(j)
<1>1. ASSUME NEW j \in Keys PROVE RowKept(j)
  <2>1. CASE j = k
    BY <2>1, Zenon
  <2>2. CASE j # k
    <3>1. blocks'[j][NVMe] = blocks[j][NVMe]
      BY <2>2, Zenon DEF OthersKept
    <3> QED
      BY <3>1, Zenon DEF RowKept, Active
  <2> QED
    BY <2>1, <2>2, Zenon
<1> QED
  BY <1>1, Zenon DEF RowsStay, RowKept

\* acquire: one more reader.
LEMMA AcquireRow ==
  ASSUME blocks \in Table, ownerEpoch \in Nat, NEW k \in Keys, Acquire(k, NVMe)
  PROVE  /\ blocks' \in Table /\ OthersKept(k, NVMe) /\ UNCHANGED <<ownerEpoch, open>> /\ open
         /\ Active(k, NVMe) /\ RowKept(k)
         /\ blocks'[k][NVMe].inFlight = KeptInFlight(k, NVMe) + 1
         /\ blocks'[k][NVMe].epoch = ownerEpoch
<1> DEFINE row == [blocks[k][NVMe] EXCEPT !.inFlight = KeptInFlight(k, NVMe) + 1,
                                          !.epoch = ownerEpoch]
<1>1. Active(k, NVMe) /\ SetRow(k, NVMe, row) /\ UNCHANGED <<ownerEpoch, open>> /\ open
  BY Zenon DEF Acquire
<1>2. blocks[k][NVMe] \in Row /\ blocks[k][NVMe].inFlight \in Nat
  BY <1>1, ActiveRow, Zenon
<1>3. KeptInFlight(k, NVMe) + 1 \in Nat
  BY <1>2 DEF KeptInFlight
<1>4. /\ row \in Row /\ row.state = blocks[k][NVMe].state /\ row.uri = blocks[k][NVMe].uri
      /\ row.desc = blocks[k][NVMe].desc /\ row.inFlight = KeptInFlight(k, NVMe) + 1
      /\ row.epoch = ownerEpoch
  BY <1>2, <1>3, Zenon DEF Row
<1> HIDE DEF row
<1>5. blocks' \in Table /\ blocks'[k][NVMe] = row /\ OthersKept(k, NVMe)
  BY <1>1, <1>4, SetRowFacts, Zenon
<1>6. row # NoRow /\ blocks[k][NVMe] # NoRow /\ blocks[k][NVMe].state = "active"
  BY <1>1, <1>4, NoRowAssumption, Zenon DEF Active
<1> QED
  BY <1>1, <1>4, <1>5, <1>6, Zenon DEF RowKept, Active

\* release: one reader less, if the counter is the owner's.
LEMMA ReleaseRow ==
  ASSUME blocks \in Table, ownerEpoch \in Nat, NEW k \in Keys, Release(k, NVMe)
  PROVE  /\ blocks' \in Table /\ OthersKept(k, NVMe) /\ UNCHANGED <<ownerEpoch, open>> /\ open
         /\ RowKept(k)
         /\ Active(k, NVMe) /\ blocks[k][NVMe].epoch = ownerEpoch
              => /\ blocks'[k][NVMe].epoch = ownerEpoch
                 /\ blocks'[k][NVMe].inFlight = IF blocks[k][NVMe].inFlight = 0 THEN 0
                                                ELSE blocks[k][NVMe].inFlight - 1
<1>1. UNCHANGED <<ownerEpoch, open>> /\ open
  BY Zenon DEF Release
<1>2. CASE blocks[k][NVMe] # NoRow /\ blocks[k][NVMe].epoch = ownerEpoch
  <2> DEFINE n   == IF blocks[k][NVMe].inFlight = 0 THEN 0 ELSE blocks[k][NVMe].inFlight - 1
             row == [blocks[k][NVMe] EXCEPT !.inFlight = n]
  <2>1. blocks[k][NVMe] \in Row /\ SetRow(k, NVMe, row)
    BY <1>2, Zenon DEF Release, Table
  <2>2. n \in Nat
    BY <2>1 DEF Row
  <2> HIDE DEF n
  <2>3. /\ row \in Row /\ row.state = blocks[k][NVMe].state /\ row.uri = blocks[k][NVMe].uri
        /\ row.desc = blocks[k][NVMe].desc /\ row.inFlight = n
        /\ row.epoch = blocks[k][NVMe].epoch
    BY <2>1, <2>2, Zenon DEF Row
  <2> HIDE DEF row
  <2>4. blocks' \in Table /\ blocks'[k][NVMe] = row /\ OthersKept(k, NVMe) /\ row # NoRow
    BY <2>1, <2>3, SetRowFacts, NoRowAssumption, Zenon
  <2>5. RowKept(k)
    BY <1>2, <2>3, <2>4, Zenon DEF RowKept, Active
  <2> QED
    BY <1>1, <1>2, <2>3, <2>4, <2>5, Zenon DEF n
<1>3. CASE ~(blocks[k][NVMe] # NoRow /\ blocks[k][NVMe].epoch = ownerEpoch)
  <2>1. blocks' = blocks
    BY <1>3, Zenon DEF Release
  <2>2. RowKept(k) /\ OthersKept(k, NVMe) /\ blocks' \in Table
    BY <2>1, Zenon DEF RowKept, Active, OthersKept
  <2> QED
    BY <1>1, <1>3, <2>2, Zenon DEF Active
<1> QED
  BY <1>2, <1>3, Zenon

\* upsert: the row points to the new location; readers stay counted.
LEMMA UpsertRow ==
  ASSUME blocks \in Table, ownerEpoch \in Nat, NEW k \in Keys,
         NEW d \in Descriptors, NEW u \in Uris, Upsert(k, NVMe, d, u)
  PROVE  /\ blocks' \in Table /\ OthersKept(k, NVMe) /\ UNCHANGED <<ownerEpoch, open>> /\ open
         /\ Active(k, NVMe)' /\ blocks'[k][NVMe].uri = u /\ blocks'[k][NVMe].desc = d
         /\ blocks'[k][NVMe].inFlight = KeptInFlight(k, NVMe)
         /\ blocks'[k][NVMe].epoch = ownerEpoch
         /\ Active(k, NVMe) => blocks[k][NVMe].desc = d
<1> DEFINE row == [state |-> "active", desc |-> d, uri |-> u,
                   inFlight |-> KeptInFlight(k, NVMe), epoch |-> ownerEpoch]
<1>1. SetRow(k, NVMe, row) /\ UNCHANGED <<ownerEpoch, open>> /\ open
  BY Zenon DEF Upsert
<1>2. KeptInFlight(k, NVMe) \in Nat
  BY Zenon DEF KeptInFlight, Table, Row
<1>3. /\ row \in Row /\ row.state = "active" /\ row.uri = u /\ row.desc = d
      /\ row.inFlight = KeptInFlight(k, NVMe) /\ row.epoch = ownerEpoch
  BY <1>2, Zenon DEF Row
<1> HIDE DEF row
<1>4. blocks' \in Table /\ blocks'[k][NVMe] = row /\ OthersKept(k, NVMe) /\ row # NoRow
  BY <1>1, <1>3, SetRowFacts, NoRowAssumption, Zenon
<1>5. Active(k, NVMe) => blocks[k][NVMe].desc = d
  BY Zenon DEF Upsert, CanUpsert, DescriptorFits, Active
<1> QED
  BY <1>1, <1>3, <1>4, <1>5, Zenon DEF Active

\* A row that is withdrawn or becomes a tombstone had no reader of the owner.
LEMMA WithdrawnRow ==
  ASSUME blocks \in Table, NEW k \in Keys,
         Delete(k, NVMe) \/ FinishDelete(k, NVMe) \/ BeginDelete(k, NVMe)
  PROVE  /\ blocks' \in Table /\ OthersKept(k, NVMe) /\ UNCHANGED <<ownerEpoch, open>> /\ open
         /\ RowsStay /\ ~Active(k, NVMe)' /\ ~Pinned(k, NVMe)
<1>1. /\ blocks' \in Table /\ OthersKept(k, NVMe) /\ UNCHANGED <<ownerEpoch, open>>
      /\ ~Active(k, NVMe)'
  BY RemoveFacts, TombstoneFacts, Zenon DEF Active
<1>2. open /\ ~Pinned(k, NVMe)
  BY Zenon DEF Delete, FinishDelete, BeginDelete, CanBeginDelete, Pinned, Active, Deleting
<1>3. RowsStay
  BY <1>1, Zenon DEF RowsStay, OthersKept, Active
<1> QED
  BY <1>1, <1>2, <1>3, Zenon

\* The next owner clears the counters.
LEMMA ReopenedRows ==
  ASSUME blocks \in Table, ownerEpoch \in Nat, Open
  PROVE  blocks' \in Table /\ ownerEpoch' \in Nat /\ RowsStay
<1>1. blocks' \in Table /\ ownerEpoch' \in Nat
  BY OpenFacts, Zenon
<1>2. ASSUME NEW k \in Keys, Active(k, NVMe)'
      PROVE  /\ Active(k, NVMe) /\ blocks'[k][NVMe].uri = blocks[k][NVMe].uri
             /\ blocks'[k][NVMe].desc = blocks[k][NVMe].desc
  <2>1. blocks'[k][NVMe] = IF blocks[k][NVMe] = NoRow THEN NoRow
                           ELSE [blocks[k][NVMe] EXCEPT !.inFlight = 0, !.epoch = 0]
    BY Zenon DEF Open, ClearedCounters
  <2>2. blocks'[k][NVMe] # NoRow
    BY <1>2, Zenon DEF Active
  <2>3. blocks[k][NVMe] # NoRow
    BY <2>1, <2>2, Zenon
  <2>4. blocks[k][NVMe] \in Row
    BY <2>3, Zenon DEF Table
  <2> DEFINE row == [blocks[k][NVMe] EXCEPT !.inFlight = 0, !.epoch = 0]
  <2>5. blocks'[k][NVMe] = row
    BY <2>1, <2>3, Zenon
  <2>6. /\ row.state = blocks[k][NVMe].state /\ row.uri = blocks[k][NVMe].uri
        /\ row.desc = blocks[k][NVMe].desc
    BY <2>4, Zenon DEF Row
  <2> HIDE DEF row
  <2> QED
    BY <1>2, <2>5, <2>6, <2>3, Zenon DEF Active
<1> QED
  BY <1>1, <1>2, Zenon DEF RowsStay

-----------------------------------------------------------------------------
(* The files *)

\* A series of files has a last one.
LEMMA LastOfSeries ==
  ASSUME FilesType, NEW series \in Nat, NEW Q, Q = {q \in DOMAIN segs : q[1] = series}, Q # {}
  PROVE  \E q \in Q : \A p \in Q : p[2] <= q[2]
<1> DEFINE G == {T \in SUBSET Q : T # {} => \E q \in T : \A p \in T : p[2] <= q[2]}
<1>1. IsFiniteSet(Q) /\ \A q \in Q : q[2] \in Nat
  <2>1. Q \in SUBSET DOMAIN segs
    OBVIOUS
  <2> QED
    BY <2>1, FS_Subset DEF FilesType
<1>2. ASSUME NEW T \in SUBSET Q, \A x \in T : T \ {x} \in G, T # {}
      PROVE  \E q \in T : \A p \in T : p[2] <= q[2]
  <2>1. PICK x \in T : TRUE
    BY <1>2, Zenon
  <2>2. CASE T = {x}
    BY <1>1, <2>2
  <2>3. CASE T # {x}
    <3>0. T \ {x} # {} /\ T \ {x} \in G
      BY <1>2, <2>3
    <3>1. PICK q \in T \ {x} : \A p \in T \ {x} : p[2] <= q[2]
      BY <3>0, Zenon
    <3>2. x[2] \in Nat /\ q[2] \in Nat /\ \A p \in T : p[2] \in Nat
      BY <1>1, Zenon
    <3> QED
      BY <3>1, <3>2
  <2> QED
    BY <2>2, <2>3, Zenon
<1>3. \A T \in SUBSET Q : (\A x \in T : T \ {x} \in G) => T \in G
  BY <1>2, Zenon
<1> HIDE DEF G
<1>4. Q \in G
  BY <1>1, <1>3, SubsetInduction, Zenon
<1> QED
  BY <1>4, Zenon DEF G

\* The next record goes to a file of the series.
LEMMA PathFacts ==
  ASSUME FilesType, NEW series \in Nat
  PROVE  PathForAppend(series) \in Nat \X Nat
<1> DEFINE Q       == {q \in DOMAIN segs : q[1] = series}
           numbers == {p[2] : p \in Q}
<1>1. CASE numbers = {}
  BY <1>1 DEF PathForAppend
<1>2. CASE numbers # {}
  <2>1. PICK q \in Q : \A p \in Q : p[2] <= q[2]
    BY <1>2, LastOfSeries, Zenon
  <2>2. \A n \in numbers : n \in Nat
    BY DEF FilesType
  <2>3. \E n \in numbers : \A m \in numbers : n >= m
    BY <2>1, <2>2
  <2>4. Max(numbers) \in numbers
    BY <2>3, Zenon DEF Max
  <2>5. Max(numbers) \in Nat
    BY <2>2, <2>4, Zenon
  <2> HIDE DEF numbers
  <2>6. PathForAppend(series) = IF numbers = {} THEN <<series, 0>>
                                ELSE IF Len(segs[<<series, Max(numbers)>>]) < SegmentRecords
                                     THEN <<series, Max(numbers)>>
                                     ELSE <<series, <<series, Max(numbers)>>[2] + 1>>
    BY Zenon DEF PathForAppend, numbers
  <2> QED
    BY <1>2, <2>5, <2>6
<1> QED
  BY <1>1, <1>2, Zenon

\* A record is appended: what was written stays where it is.
LEMMA AppendFacts ==
  ASSUME Uris = Locations, FilesType, NEW path \in Nat \X Nat, NEW r \in Records,
         segs' = Appended(path, r)
  PROVE  /\ FilesType'
         /\ \A loc \in Uris : LocationExists(loc) =>
              LocationExists(loc)' /\ RecordAt(loc)' = RecordAt(loc)
         /\ EndOf(path) \in Uris
         /\ \A loc : loc = EndOf(path) => LocationExists(loc)' /\ RecordAt(loc)' = r
<1>1. /\ DOMAIN segs' = DOMAIN segs \cup {path}
      /\ \A p \in DOMAIN segs \ {path} : segs'[p] = segs[p]
      /\ path \in DOMAIN segs => segs'[path] = Append(segs[path], r)
      /\ path \notin DOMAIN segs => segs'[path] = <<r>>
  BY Zenon DEF Appended
<1>2. FilesType'
  <2>1. DOMAIN segs' \subseteq Nat \X Nat /\ IsFiniteSet(DOMAIN segs')
    BY <1>1, FS_AddElement DEF FilesType
  <2>2. ASSUME NEW p \in DOMAIN segs' PROVE segs'[p] \in Seq(Records)
    <3>1. CASE p # path
      BY <1>1, <3>1, Zenon DEF FilesType
    <3>2. CASE p = path /\ path \in DOMAIN segs
      <4>1. segs[path] \in Seq(Records) /\ segs'[p] = Append(segs[path], r)
        BY <1>1, <3>2, Zenon DEF FilesType
      <4> QED
        BY <4>1
    <3>3. CASE p = path /\ path \notin DOMAIN segs
      BY <1>1, <3>3
    <3> QED
      BY <3>1, <3>2, <3>3, Zenon
  <2> QED
    BY <2>1, <2>2, Zenon DEF FilesType
<1>3. ASSUME NEW loc \in Uris, LocationExists(loc)
      PROVE  LocationExists(loc)' /\ RecordAt(loc)' = RecordAt(loc)
  <2>1. /\ loc.path \in DOMAIN segs /\ loc.at \in Nat /\ loc.at # 0
        /\ loc.at <= Len(segs[loc.path])
    BY <1>3 DEF Locations, LocationExists
  <2>2. CASE loc.path # path
    BY <1>1, <1>3, <2>1, <2>2, Zenon DEF LocationExists, RecordAt
  <2>3. CASE loc.path = path
    <3>1. segs[path] \in Seq(Records) /\ segs'[path] = Append(segs[path], r)
      BY <1>1, <2>1, <2>3, Zenon DEF FilesType
    <3>2. Len(segs'[path]) = Len(segs[path]) + 1 /\ segs'[path][loc.at] = segs[path][loc.at]
          /\ loc.at <= Len(segs'[path])
      BY <2>1, <2>3, <3>1
    <3> QED
      BY <1>1, <1>3, <2>1, <2>3, <3>2, Zenon DEF LocationExists, RecordAt
  <2> QED
    BY <2>2, <2>3, Zenon
<1>4. ASSUME NEW loc, loc = EndOf(path)
      PROVE  LocationExists(loc)' /\ RecordAt(loc)' = r /\ loc \in Uris
  <2>1. loc.path = path /\ loc.at = IF path \in DOMAIN segs THEN Len(segs[path]) + 1 ELSE 1
    BY <1>4, Zenon DEF EndOf
  <2>2. loc.at <= Len(segs'[path]) /\ segs'[path][loc.at] = r /\ loc.at \in Nat \ {0}
    <3>1. CASE path \in DOMAIN segs
      BY <1>1, <2>1, <3>1 DEF FilesType
    <3>2. CASE path \notin DOMAIN segs
      BY <1>1, <2>1, <3>2 DEF FilesType
    <3> QED
      BY <3>1, <3>2, Zenon
  <2>3. loc \in Uris
    BY <1>4, <2>1, <2>2, Zenon DEF EndOf, Locations
  <2> QED
    BY <1>1, <2>1, <2>2, <2>3, Zenon DEF LocationExists, RecordAt
<1> QED
  BY <1>2, <1>3, <1>4, Zenon

\* A file is removed: the other files stay.
LEMMA UnlinkFacts ==
  ASSUME FilesType, NEW p \in DOMAIN segs, segs' = [q \in DOMAIN segs \ {p} |-> segs[q]]
  PROVE  /\ FilesType'
         /\ \A loc : loc.path = p => ~LocationExists(loc)'
         /\ \A loc : loc.path # p => /\ LocationExists(loc)' <=> LocationExists(loc)
                                     /\ RecordAt(loc)' = RecordAt(loc)
<1>1. DOMAIN segs' = DOMAIN segs \ {p} /\ \A q \in DOMAIN segs \ {p} : segs'[q] = segs[q]
  BY Zenon
<1>2. DOMAIN segs \ {p} \in SUBSET DOMAIN segs
  BY Zenon
<1>3. IsFiniteSet(DOMAIN segs \ {p})
  BY <1>2, FS_Subset, Zenon DEF FilesType
<1>4. FilesType'
  BY <1>1, <1>3, Zenon DEF FilesType
<1> QED
  BY <1>1, <1>4, Zenon DEF LocationExists, RecordAt

-----------------------------------------------------------------------------
(* Steps and published records *)

\* The lock changes hands only by its owner or when it is free.
LockRule(t) == mutation' = mutation \/ mutation \in {None, t}

\* What a step has to leave its thread with.
Ready(t) == /\ OthersWait(t) /\ LockRule(t)
            /\ Prepared(call'[t])
            /\ UnderLock(call'[t]) => mutation' = t

\* The threads that the step is not about keep what they had.
LEMMA ThreadsKeep ==
  ASSUME RecordInv, NEW t \in Threads, Ready(t)
  PROVE  CallType' /\ (\A u \in Threads : Prepared(call'[u])) /\ LockHeld'
<1>1. ASSUME NEW u \in Threads
      PROVE  Prepared(call'[u]) /\ (UnderLock(call'[u]) => mutation' = u)
  <2>1. CASE u = t
    BY <2>1, Zenon DEF Ready
  <2>2. CASE u # t
    <3>1. call'[u] = call[u] /\ Prepared(call[u]) /\ (UnderLock(call[u]) => mutation = u)
      BY <2>2, Zenon DEF Ready, OthersWait, RecordInv, LockHeld
    <3>2. mutation = u => mutation' = mutation
      BY <2>2, Zenon DEF Ready, LockRule
    <3> QED
      BY <3>1, <3>2, Zenon
  <2> QED
    BY <2>1, <2>2, Zenon
<1> QED
  BY <1>1, Zenon DEF Ready, OthersWait, LockHeld

\* What is about to be published is under the lock.
LEMMA PublishingLocked ==
  ASSUME RecordInv, NEW t \in Threads, Publishing(call[t])
  PROVE  mutation = t /\ call[t].loc \in Uris
<1>1. Prepared(call[t]) /\ (UnderLock(call[t]) => mutation = t)
  BY Zenon DEF RecordInv, LockHeld
<1>2. UnderLock(call[t])
  BY <1>1, Zenon DEF Publishing, UnderLock, Prepared
<1> QED
  BY <1>1, <1>2, Zenon DEF Publishing, Prepared

\* A record that is intact is there.
LEMMA IntactIsThere ==
  ASSUME RecordInv, NEW k \in Keys, Active(k, NVMe), k \notin hit
  PROVE  /\ blocks[k][NVMe].uri \in Uris /\ LocationExists(blocks[k][NVMe].uri)
         /\ RecordAt(blocks[k][NVMe].uri) = RecordOf(k, blocks[k][NVMe].desc)
<1>1. /\ blocks[k][NVMe].uri \in Uris /\ blocks[k][NVMe].desc \in Descriptors
      /\ RecordAt(blocks[k][NVMe].uri) = RecordOf(k, blocks[k][NVMe].desc)
  BY ActiveRow, Zenon DEF RecordInv, SegmentType, ReferencedIsIntact
<1>2. RecordOf(k, blocks[k][NVMe].desc) # Torn
  <2>1. RecordOf(k, blocks[k][NVMe].desc) \in [key : Keys, desc : Descriptors]
    BY <1>1, Zenon DEF RecordOf
  <2> QED
    BY <2>1, SegmentAssumption, Zenon
<1> QED
  BY <1>1, <1>2, Zenon DEF RecordAt

\* Steps that write no file and publish nothing.
LEMMA QuietStep ==
  ASSUME RecordInv, NEW t \in Threads, open' = TRUE,
         UNCHANGED <<segs, hit, faults>>, compactions' \in Nat,
         blocks' \in Table, ownerEpoch' \in Nat, RowsStay,
         Ready(t), Publishing(call'[t]) => Publishable(call'[t])
  PROVE  RecordInv'
<1>1. CallType' /\ (\A u \in Threads : Prepared(call'[u])) /\ LockHeld'
  BY ThreadsKeep, Zenon
<1>2. SegmentType'
  BY <1>1, Zenon DEF RecordInv, SegmentType, FilesType
<1>3. PublishesRecords'
  <2> SUFFICES ASSUME NEW u \in Threads, Publishing(call'[u]) PROVE Publishable(call[u])'
    BY Zenon DEF PublishesRecords, Publishing
  <2>1. Publishable(call'[u])
    <3>1. CASE u = t
      BY <3>1, Zenon
    <3>2. CASE u # t
      <4>1. call'[u] = call[u]
        BY <3>2, Zenon DEF Ready, OthersWait
      <4>2. Publishing(call[u]) => Publishable(call[u])
        BY Zenon DEF RecordInv, PublishesRecords
      <4> QED
        BY <4>1, <4>2, Zenon
    <3> QED
      BY <3>1, <3>2, Zenon
  <2> QED
    BY <2>1, Zenon DEF Publishable, LocationExists, RecordAt
<1>4. NothingLost'
  BY Zenon DEF RecordInv, NothingLost
<1>5. ReferencedIsIntact'
  <2> SUFFICES ASSUME NEW k \in Keys, Active(k, NVMe)', k \notin hit'
               PROVE  (RecordAt(blocks[k][NVMe].uri) = RecordOf(k, blocks[k][NVMe].desc))'
    BY Zenon DEF ReferencedIsIntact
  <2>1. /\ Active(k, NVMe) /\ blocks'[k][NVMe].uri = blocks[k][NVMe].uri
        /\ blocks'[k][NVMe].desc = blocks[k][NVMe].desc
    BY Zenon DEF RowsStay
  <2>2. RecordAt(blocks[k][NVMe].uri) = RecordOf(k, blocks[k][NVMe].desc)
    BY <2>1, Zenon DEF RecordInv, ReferencedIsIntact
  <2> QED
    BY <2>1, <2>2, Zenon DEF RecordAt, LocationExists, RecordOf
<1> QED
  BY <1>1, <1>2, <1>3, <1>4, <1>5, Zenon DEF RecordInv

\* Steps that append a record, or a part of one, under the lock.
LEMMA AppendStep ==
  ASSUME RecordInv, NEW t \in Threads, open, mutation = t,
         NEW path \in Nat \X Nat, NEW r \in Records, segs' = Appended(path, r),
         UNCHANGED <<mdVars, compactions, hit, faults>>, Ready(t),
         Publishing(call'[t]) => /\ call'[t].loc = EndOf(path)
                                 /\ r = RecordOf(call'[t].key, call'[t].val)
  PROVE  RecordInv'
<1>1. CallType' /\ (\A u \in Threads : Prepared(call'[u])) /\ LockHeld'
  BY ThreadsKeep, Zenon
<1>2. /\ FilesType'
      /\ \A loc \in Uris : LocationExists(loc) =>
           LocationExists(loc)' /\ RecordAt(loc)' = RecordAt(loc)
      /\ \A loc : loc = EndOf(path) => LocationExists(loc)' /\ RecordAt(loc)' = r
  <2>1. Uris = Locations /\ FilesType
    BY Zenon DEF RecordInv, SegmentType
  <2> QED
    BY <2>1, AppendFacts, Zenon
<1>3. SegmentType'
  BY <1>1, <1>2, Zenon DEF RecordInv, SegmentType, mdVars
<1>4. PublishesRecords'
  <2> SUFFICES ASSUME NEW u \in Threads, Publishing(call'[u]) PROVE Publishable(call[u])'
    BY Zenon DEF PublishesRecords, Publishing
  <2>1. u = t
    <3>1. ASSUME u # t PROVE FALSE
      <4>1. call'[u] = call[u]
        BY <3>1, Zenon DEF Ready, OthersWait
      <4>2. mutation = u
        BY <4>1, PublishingLocked, Zenon
      <4> QED
        BY <3>1, <4>2, Zenon
    <3> QED
      BY <3>1, Zenon
  <2>2. PICK loc : loc = call'[t].loc
    BY Zenon
  <2>3. LocationExists(loc)' /\ RecordAt(loc)' = RecordOf(call'[t].key, call'[t].val)
    BY <1>2, <2>1, <2>2, Zenon
  <2> QED
    BY <2>1, <2>2, <2>3, Zenon DEF Publishable, LocationExists, RecordAt, RecordOf
<1>5. NothingLost'
  BY Zenon DEF RecordInv, NothingLost
<1>6. ReferencedIsIntact'
  <2> SUFFICES ASSUME NEW k \in Keys, Active(k, NVMe)', k \notin hit'
               PROVE  (RecordAt(blocks[k][NVMe].uri) = RecordOf(k, blocks[k][NVMe].desc))'
    BY Zenon DEF ReferencedIsIntact
  <2>1. Active(k, NVMe) /\ k \notin hit /\ blocks' = blocks
    BY Zenon DEF mdVars, Active
  <2>2. PICK loc \in Uris : loc = blocks[k][NVMe].uri
    BY <2>1, IntactIsThere, Zenon
  <2>3. LocationExists(loc) /\ RecordAt(loc) = RecordOf(k, blocks[k][NVMe].desc)
    BY <2>1, <2>2, IntactIsThere, Zenon
  <2>4. RecordAt(loc)' = RecordOf(k, blocks[k][NVMe].desc)
    BY <1>2, <2>3, Zenon
  <2> QED
    BY <2>1, <2>2, <2>4, Zenon DEF RecordAt, LocationExists, RecordOf
<1> QED
  BY <1>1, <1>3, <1>4, <1>5, <1>6, Zenon DEF RecordInv

\* Steps that publish the record of their call.
LEMMA PublishStep ==
  ASSUME RecordInv, NEW t \in Threads, call[t].pc \in {"commit", "publish"},
         Upsert(call[t].key, NVMe, call[t].val, call[t].loc), Republished(t),
         UNCHANGED <<segs, compactions, faults>>, Ready(t), ~Publishing(call'[t])
  PROVE  RecordInv'
<1>1. CallType' /\ (\A u \in Threads : Prepared(call'[u])) /\ LockHeld'
  BY ThreadsKeep, Zenon
<1>2. PICK k \in Keys, d \in Descriptors, loc \in Uris :
        k = call[t].key /\ d = call[t].val /\ loc = call[t].loc
  BY Zenon DEF RecordInv, Prepared
<1>3. Publishing(call[t]) /\ Publishable(call[t]) /\ mutation = t
  BY PublishingLocked, Zenon DEF RecordInv, PublishesRecords, Publishing
<1>4. /\ LocationExists(loc) => RecordAt(loc) = RecordOf(k, d)
      /\ faults = 0 => LocationExists(loc)
  BY <1>2, <1>3, Zenon DEF Publishable
<1>5. /\ blocks' \in Table /\ OthersKept(k, NVMe) /\ UNCHANGED <<ownerEpoch, open>> /\ open
      /\ blocks'[k][NVMe].uri = loc /\ blocks'[k][NVMe].desc = d
  <2>1. Upsert(k, NVMe, d, loc)
    BY <1>2, Zenon
  <2>2. blocks \in Table /\ ownerEpoch \in Nat
    BY Zenon DEF RecordInv, SegmentType
  <2> QED
    BY <2>1, <2>2, UpsertRow, Zenon
<1>6. hit' = IF LocationExists(loc) THEN hit \ {k} ELSE hit \cup {k}
  BY <1>2, Zenon DEF Republished
<1>7. SegmentType'
  BY <1>1, <1>5, Zenon DEF RecordInv, SegmentType, FilesType
<1>8. PublishesRecords'
  <2> SUFFICES ASSUME NEW u \in Threads, Publishing(call'[u]) PROVE FALSE
    BY Zenon DEF PublishesRecords, Publishing
  <2>1. u # t
    BY Zenon
  <2>2. call'[u] = call[u]
    BY <2>1, Zenon DEF Ready, OthersWait
  <2>3. mutation = u
    BY <2>2, PublishingLocked, Zenon
  <2> QED
    BY <1>3, <2>1, <2>3, Zenon
<1>9. NothingLost'
  BY <1>4, <1>6, Zenon DEF RecordInv, NothingLost
<1>10. ReferencedIsIntact'
  <2> SUFFICES ASSUME NEW j \in Keys, Active(j, NVMe)', j \notin hit'
               PROVE  (RecordAt(blocks[j][NVMe].uri) = RecordOf(j, blocks[j][NVMe].desc))'
    BY Zenon DEF ReferencedIsIntact
  <2>1. CASE j = k
    <3>1. RecordAt(loc) = RecordOf(k, d)
      BY <1>4, <1>6, <2>1, Zenon
    <3> QED
      BY <1>5, <2>1, <3>1, Zenon DEF RecordAt, LocationExists, RecordOf
  <2>2. CASE j # k
    <3>1. blocks'[j][NVMe] = blocks[j][NVMe] /\ j \notin hit
      BY <1>5, <1>6, <2>2, Zenon DEF OthersKept
    <3>2. Active(j, NVMe)
      BY <3>1, Zenon DEF Active
    <3>3. RecordAt(blocks[j][NVMe].uri) = RecordOf(j, blocks[j][NVMe].desc)
      BY <3>1, <3>2, Zenon DEF RecordInv, ReferencedIsIntact
    <3> QED
      BY <3>1, <3>3, Zenon DEF RecordAt, LocationExists, RecordOf
  <2> QED
    BY <2>1, <2>2, Zenon
<1> QED
  BY <1>1, <1>7, <1>8, <1>9, <1>10, Zenon DEF RecordInv

\* A file that no row refers to is removed under the lock.
LEMMA UnlinkStep ==
  ASSUME RecordInv, NEW t \in Threads, call[t].pc = "sweep", NEW p \in DOMAIN segs \ Referenced,
         segs' = [q \in DOMAIN segs \ {p} |-> segs[q]],
         UNCHANGED <<mdVars, mutation, call, compactions, hit, faults>>
  PROVE  RecordInv'
<1>1. /\ FilesType'
      /\ \A loc : loc.path # p => /\ LocationExists(loc)' <=> LocationExists(loc)
                                  /\ RecordAt(loc)' = RecordAt(loc)
  BY UnlinkFacts, Zenon DEF RecordInv, SegmentType
<1>2. mutation = t
  BY Zenon DEF RecordInv, LockHeld, UnderLock
<1>3. SegmentType'
  BY <1>1, Zenon DEF RecordInv, SegmentType, mdVars, CallType
<1>4. (\A u \in Threads : Prepared(call'[u])) /\ LockHeld'
  BY Zenon DEF RecordInv, LockHeld
<1>5. PublishesRecords'
  <2>1. ASSUME NEW u \in Threads, Publishing(call[u]) PROVE FALSE
    <3>1. mutation = u
      BY <2>1, PublishingLocked, Zenon
    <3>2. call[u].pc = "sweep"
      BY <1>2, <3>1, Zenon
    <3> QED
      BY <2>1, <3>2, Zenon DEF Publishing
  <2> QED
    BY <2>1, Zenon DEF PublishesRecords, Publishing
<1>6. NothingLost'
  BY Zenon DEF RecordInv, NothingLost
<1>7. ReferencedIsIntact'
  <2> SUFFICES ASSUME NEW k \in Keys, Active(k, NVMe)', k \notin hit'
               PROVE  (RecordAt(blocks[k][NVMe].uri) = RecordOf(k, blocks[k][NVMe].desc))'
    BY Zenon DEF ReferencedIsIntact
  <2>1. Active(k, NVMe) /\ k \notin hit /\ blocks' = blocks
    BY Zenon DEF mdVars, Active
  <2>2. blocks[k][NVMe].uri.path # p
    BY <2>1, Zenon DEF Referenced
  <2>3. PICK loc : loc = blocks[k][NVMe].uri
    BY Zenon
  <2>4. RecordAt(loc)' = RecordAt(loc) /\ RecordAt(loc) = RecordOf(k, blocks[k][NVMe].desc)
    BY <1>1, <2>1, <2>2, <2>3, Zenon DEF RecordInv, ReferencedIsIntact
  <2> QED
    BY <2>1, <2>3, <2>4, Zenon DEF RecordAt, LocationExists, RecordOf
<1> QED
  BY <1>3, <1>4, <1>5, <1>6, <1>7, Zenon DEF RecordInv

-----------------------------------------------------------------------------
(* Published records: every action *)

\* The facts that every step starts from.
LEMMA StepFacts ==
  ASSUME RecordInv, NEW t \in Threads
  PROVE  /\ CallType /\ blocks \in Table /\ ownerEpoch \in Nat /\ compactions \in Nat
         /\ FilesType /\ call[t] \in CallRecords /\ Prepared(call[t])
         /\ UnderLock(call[t]) => mutation = t
  BY Zenon DEF RecordInv, SegmentType, CallType, LockHeld

\* A table that does not change.
LEMMA SameTable ==
  ASSUME RecordInv, UNCHANGED mdVars
  PROVE  blocks' \in Table /\ ownerEpoch' \in Nat /\ RowsStay /\ UNCHANGED <<ownerEpoch, open>>
  BY Zenon DEF RecordInv, SegmentType, mdVars, RowsStay, Active

\* A thread that returns is ready.
LEMMA ReturnReady ==
  ASSUME RecordInv, NEW t \in Threads, Return(t)
  PROVE  Ready(t) /\ ~Publishing(call'[t])
<1>1. OthersWait(t) /\ call'[t] = Idle /\ mutation' = IF mutation = t THEN None ELSE mutation
  BY StepFacts, ReturnFacts, Zenon
<1> QED
  BY <1>1, IdleIsCall, Zenon DEF Ready, LockRule

\* A call that begins.
Called(pc, op, k, d, loc, todo, left) ==
  [pc |-> pc, op |-> op, key |-> k, val |-> d, want |-> None, loc |-> loc,
   verdict |-> "none", todo |-> todo, left |-> left]

LEMMA LoadForm ==
  ASSUME NEW k, NEW loc
  PROVE  [Idle EXCEPT !.pc = "exists", !.op = "load", !.key = k, !.loc = loc]
           = Called("exists", "load", k, None, loc, {}, {})
<1>1. ASSUME NEW c, c = [Idle EXCEPT !.pc = "exists", !.op = "load", !.key = k, !.loc = loc]
      PROVE  c = Called("exists", "load", k, None, loc, {}, {})
  BY <1>1, Zenon DEF Idle, Called
<1> QED
  BY <1>1, Zenon

LEMMA EvictForm ==
  ASSUME NEW k
  PROVE  [Idle EXCEPT !.pc = "begin", !.op = "evict", !.key = k]
           = Called("begin", "evict", k, None, None, {}, {})
<1>1. ASSUME NEW c, c = [Idle EXCEPT !.pc = "begin", !.op = "evict", !.key = k]
      PROVE  c = Called("begin", "evict", k, None, None, {}, {})
  BY <1>1, Zenon DEF Idle, Called
<1> QED
  BY <1>1, Zenon

LEMMA CheckForm ==
  ASSUME NEW k, NEW d, NEW loc
  PROVE  [Idle EXCEPT !.pc = "exists", !.op = "store", !.key = k, !.val = d, !.loc = loc]
           = Called("exists", "store", k, d, loc, {}, {})
<1>1. ASSUME NEW c, c = [Idle EXCEPT !.pc = "exists", !.op = "store", !.key = k, !.val = d, !.loc = loc]
      PROVE  c = Called("exists", "store", k, d, loc, {}, {})
  BY <1>1, Zenon DEF Idle, Called
<1> QED
  BY <1>1, Zenon

LEMMA StoreForm ==
  ASSUME NEW k, NEW d
  PROVE  [Idle EXCEPT !.pc = "append", !.op = "store", !.key = k, !.val = d]
           = Called("append", "store", k, d, None, {}, {})
<1>1. ASSUME NEW c, c = [Idle EXCEPT !.pc = "append", !.op = "store", !.key = k, !.val = d]
      PROVE  c = Called("append", "store", k, d, None, {}, {})
  BY <1>1, Zenon DEF Idle, Called
<1> QED
  BY <1>1, Zenon

LEMMA CompactionForm ==
  ASSUME NEW todo, NEW left
  PROVE  [Idle EXCEPT !.pc = "pin", !.op = "compact", !.todo = todo, !.left = left]
           = Called("pin", "compact", None, None, None, todo, left)
<1>1. ASSUME NEW c, c = [Idle EXCEPT !.pc = "pin", !.op = "compact", !.todo = todo, !.left = left]
      PROVE  c = Called("pin", "compact", None, None, None, todo, left)
  BY <1>1, Zenon DEF Idle, Called
<1> QED
  BY <1>1, Zenon

LEMMA NewLoad ==
  ASSUME NEW k \in Keys, NEW loc \in Uris, NEW c,
         c = Called("exists", "load", k, None, loc, {}, {})
  PROVE  /\ c \in CallRecords /\ Prepared(c) /\ ~UnderLock(c) /\ ~Publishing(c)
         /\ c.pc = "exists" /\ c.todo = {}
<1>1. /\ "exists" \in PCs /\ "load" \in Ops /\ loc \in Places
      /\ {} \in SUBSET Entries /\ {} \in SUBSET Keys /\ k \in Keys \cup {None}
      /\ None \in Payloads /\ "none" \in Verdicts
  BY Zenon DEF PCs, Ops, Payloads, Places, Verdicts
<1>2. Called("exists", "load", k, None, loc, {}, {}) \in CallRecords
  BY <1>1, Zenon DEF Called, CallRecords
<1>3. /\ c.pc = "exists" /\ c.key = k /\ c.val = None /\ c.loc = loc
      /\ c.todo = {} /\ c.verdict = "none"
  BY Zenon DEF Called
<1> QED
  BY <1>2, <1>3, Zenon DEF Prepared, UnderLock, Publishing

LEMMA NewEvict ==
  ASSUME NEW k \in Keys, NEW c, c = Called("begin", "evict", k, None, None, {}, {})
  PROVE  /\ c \in CallRecords /\ Prepared(c) /\ ~UnderLock(c) /\ ~Publishing(c)
         /\ c.pc = "begin" /\ c.todo = {}
<1>1. /\ "begin" \in PCs /\ "evict" \in Ops /\ None \in Places
      /\ {} \in SUBSET Entries /\ {} \in SUBSET Keys /\ k \in Keys \cup {None}
      /\ None \in Payloads /\ "none" \in Verdicts
  BY Zenon DEF PCs, Ops, Payloads, Places, Verdicts
<1>2. Called("begin", "evict", k, None, None, {}, {}) \in CallRecords
  BY <1>1, Zenon DEF Called, CallRecords
<1>3. /\ c.pc = "begin" /\ c.key = k /\ c.val = None /\ c.todo = {}
  BY Zenon DEF Called
<1> QED
  BY <1>2, <1>3, Zenon DEF Prepared, UnderLock, Publishing

LEMMA NewCheck ==
  ASSUME NEW k \in Keys, NEW d \in Descriptors, NEW loc \in Uris, NEW c,
         c = Called("exists", "store", k, d, loc, {}, {})
  PROVE  /\ c \in CallRecords /\ Prepared(c) /\ ~Publishing(c)
         /\ c.pc = "exists" /\ c.todo = {}
<1>1. /\ "exists" \in PCs /\ "store" \in Ops /\ d \in Payloads /\ loc \in Places
      /\ {} \in SUBSET Entries /\ {} \in SUBSET Keys /\ k \in Keys \cup {None}
      /\ None \in Payloads /\ "none" \in Verdicts
  BY Zenon DEF PCs, Ops, Payloads, Places, Verdicts
<1>2. Called("exists", "store", k, d, loc, {}, {}) \in CallRecords
  BY <1>1, Zenon DEF Called, CallRecords
<1>3. /\ c.pc = "exists" /\ c.key = k /\ c.val = d /\ c.loc = loc
      /\ c.todo = {} /\ c.verdict = "none"
  BY Zenon DEF Called
<1> QED
  BY <1>2, <1>3, Zenon DEF Prepared, Publishing

LEMMA NewStore ==
  ASSUME NEW k \in Keys, NEW d \in Descriptors, NEW c,
         c = Called("append", "store", k, d, None, {}, {})
  PROVE  /\ c \in CallRecords /\ Prepared(c) /\ ~Publishing(c)
         /\ c.pc = "append" /\ c.todo = {}
<1>1. /\ "append" \in PCs /\ "store" \in Ops /\ d \in Payloads /\ None \in Places
      /\ {} \in SUBSET Entries /\ {} \in SUBSET Keys /\ k \in Keys \cup {None}
      /\ None \in Payloads /\ "none" \in Verdicts
  BY Zenon DEF PCs, Ops, Payloads, Places, Verdicts
<1>2. Called("append", "store", k, d, None, {}, {}) \in CallRecords
  BY <1>1, Zenon DEF Called, CallRecords
<1>3. /\ c.pc = "append" /\ c.key = k /\ c.val = d /\ c.todo = {}
  BY Zenon DEF Called
<1> QED
  BY <1>2, <1>3, Zenon DEF Prepared, Publishing

LEMMA NewCompaction ==
  ASSUME NEW todo \in SUBSET Entries, NEW left \in SUBSET Keys, NEW c,
         c = Called("pin", "compact", None, None, None, todo, left)
  PROVE  /\ c \in CallRecords /\ Prepared(c) /\ ~Publishing(c)
         /\ c.pc = "pin" /\ c.todo = todo
<1>1. /\ "pin" \in PCs /\ "compact" \in Ops /\ None \in Payloads /\ None \in Places
      /\ None \in Keys \cup {None} /\ "none" \in Verdicts
  BY Zenon DEF PCs, Ops, Payloads, Places, Verdicts
<1>2. Called("pin", "compact", None, None, None, todo, left) \in CallRecords
  BY <1>1, Zenon DEF Called, CallRecords
<1>3. c.pc = "pin" /\ c.todo = todo
  BY Zenon DEF Called
<1> QED
  BY <1>2, <1>3, Zenon DEF Prepared, Publishing

LEMMA LoadCallKeeps ==
  ASSUME RecordInv, NEW t \in Threads, NEW k \in Keys, LoadCall(t, k)
  PROVE  RecordInv'
<1>1. PICK loc \in Uris : loc = blocks[k][NVMe].uri
  BY StepFacts, ActiveRow, Zenon DEF LoadCall
<1>2. /\ open /\ UNCHANGED <<mdVars, segs, mutation, compactions, hit, faults>>
      /\ call' = [call EXCEPT ![t] = Called("exists", "load", k, None, loc, {}, {})]
  BY <1>1, LoadForm, Zenon DEF LoadCall, At
<1>3. PICK c : c = Called("exists", "load", k, None, loc, {}, {})
  BY Zenon
<1>4. c \in CallRecords /\ Prepared(c) /\ ~UnderLock(c) /\ ~Publishing(c)
  BY <1>3, NewLoad, Zenon
<1>5. OthersWait(t) /\ call'[t] = c
  BY <1>2, <1>3, <1>4, StepFacts, ReplaceFacts, Zenon
<1>6. Ready(t) /\ ~Publishing(call'[t])
  BY <1>2, <1>4, <1>5, Zenon DEF Ready, LockRule
<1> QED
  BY <1>2, <1>6, SameTable, StepFacts, QuietStep, Zenon

LEMMA EvictCallKeeps ==
  ASSUME RecordInv, NEW t \in Threads, NEW k \in Keys, EvictCall(t, k)
  PROVE  RecordInv'
<1>1. /\ open /\ UNCHANGED <<mdVars, segs, mutation, compactions, hit, faults>>
      /\ call' = [call EXCEPT ![t] = Called("begin", "evict", k, None, None, {}, {})]
  BY EvictForm, Zenon DEF EvictCall, At
<1>2. PICK c : c = Called("begin", "evict", k, None, None, {}, {})
  BY Zenon
<1>3. c \in CallRecords /\ Prepared(c) /\ ~UnderLock(c) /\ ~Publishing(c)
  BY <1>2, NewEvict, Zenon
<1>4. OthersWait(t) /\ call'[t] = c
  BY <1>1, <1>2, <1>3, StepFacts, ReplaceFacts, Zenon
<1>5. Ready(t) /\ ~Publishing(call'[t])
  BY <1>1, <1>3, <1>4, Zenon DEF Ready, LockRule
<1> QED
  BY <1>1, <1>5, SameTable, StepFacts, QuietStep, Zenon

LEMMA LoadExistsKeeps ==
  ASSUME RecordInv, NEW t \in Threads, LoadExists(t)
  PROVE  RecordInv'
<1>1. /\ open /\ call[t].pc = "exists"
      /\ UNCHANGED <<mdVars, segs, mutation, compactions, hit, faults>>
  BY Zenon DEF LoadExists, At
<1>2. PICK pc \in {"acquire", "stale"} : Go(t, pc)
  BY Zenon DEF LoadExists
<1>3. pc \in PCs
  BY Zenon DEF PCs
<1>4. /\ OthersWait(t) /\ call'[t].pc = pc /\ call'[t].key = call[t].key
      /\ call'[t].val = call[t].val /\ call'[t].todo = call[t].todo
      /\ call'[t].verdict = call[t].verdict
  BY <1>2, <1>3, StepFacts, GoFacts, Zenon
<1>5. Ready(t) /\ ~Publishing(call'[t])
  BY <1>1, <1>4, StepFacts, Zenon DEF Ready, LockRule, Prepared, UnderLock, Publishing
<1> QED
  BY <1>1, <1>5, SameTable, StepFacts, QuietStep, Zenon

LEMMA LoadStaleKeeps ==
  ASSUME RecordInv, NEW t \in Threads, LoadStale(t)
  PROVE  RecordInv'
<1>1. /\ open /\ call[t].pc = "stale" /\ MayLock(t)
      /\ UNCHANGED <<segs, compactions, hit, faults>> /\ call[t].key \in Keys
  BY StepFacts, Zenon DEF LoadStale, At, Prepared
<1>2. CASE Go(t, "acquire") /\ UNCHANGED <<mdVars, mutation>>
  <2>1. "acquire" \in PCs
    BY Zenon DEF PCs
  <2>2. /\ OthersWait(t) /\ call'[t].pc = "acquire" /\ call'[t].key = call[t].key
        /\ call'[t].val = call[t].val /\ call'[t].todo = call[t].todo
        /\ call'[t].verdict = call[t].verdict
    BY <1>2, <2>1, StepFacts, GoFacts, Zenon
  <2>3. Ready(t) /\ ~Publishing(call'[t])
    BY <1>1, <1>2, <2>2, StepFacts, Zenon DEF Ready, LockRule, Prepared, UnderLock, Publishing
  <2> QED
    BY <1>1, <1>2, <2>3, SameTable, StepFacts, QuietStep, Zenon
<1>3. CASE Delete(call[t].key, NVMe) /\ Return(t)
  <2>1. blocks' \in Table /\ UNCHANGED <<ownerEpoch, open>> /\ RowsStay
    BY <1>1, <1>3, StepFacts, WithdrawnRow, Zenon
  <2> QED
    BY <1>1, <1>3, <2>1, ReturnReady, StepFacts, QuietStep, Zenon
<1>4. CASE Return(t) /\ UNCHANGED mdVars
  BY <1>1, <1>4, ReturnReady, SameTable, StepFacts, QuietStep, Zenon
<1> QED
  BY <1>2, <1>3, <1>4, Zenon DEF LoadStale

LEMMA LoadAcquireKeeps ==
  ASSUME RecordInv, NEW t \in Threads, LoadAcquire(t)
  PROVE  RecordInv'
<1>1. /\ open /\ call[t].pc = "acquire" /\ MayLock(t)
      /\ UNCHANGED <<segs, compactions, hit, faults>>
  BY Zenon DEF LoadAcquire, At
<1>2. PICK k \in Keys : k = call[t].key
  BY <1>1, StepFacts, Zenon DEF Prepared
<1>3. CASE /\ Acquire(k, NVMe) /\ UNCHANGED mutation
           /\ call' = [call EXCEPT ![t].pc = "read", ![t].loc = blocks[k][NVMe].uri,
                                   ![t].want = blocks[k][NVMe].desc]
  <2>1. /\ blocks' \in Table /\ UNCHANGED <<ownerEpoch, open>> /\ RowsStay /\ Active(k, NVMe)
    BY <1>3, StepFacts, AcquireRow, OneRowKept, Zenon
  <2>2. PICK loc \in Uris, want \in Descriptors :
          loc = blocks[k][NVMe].uri /\ want = blocks[k][NVMe].desc
    BY <2>1, StepFacts, ActiveRow, Zenon
  <2>3. GoRead(t, loc, want) /\ CallType
    BY <1>3, <2>2, StepFacts, Zenon DEF GoRead
  <2>4. /\ OthersWait(t) /\ call'[t].pc = "read" /\ call'[t].key = call[t].key
        /\ call'[t].val = call[t].val /\ call'[t].todo = call[t].todo
        /\ call'[t].want = want /\ call'[t].loc = loc /\ call'[t].verdict = call[t].verdict
    BY <2>3, AcquiredFacts
  <2>5. Prepared(call'[t])
    <3>1. call[t].key \in Keys /\ call[t].verdict = "none" /\ call[t].todo = {}
      BY <1>1, StepFacts, Zenon DEF Prepared
    <3> QED
      BY <2>4, <3>1, Zenon DEF Prepared
  <2>6. Ready(t) /\ ~Publishing(call'[t])
    BY <1>1, <1>3, <2>4, <2>5, StepFacts, Zenon DEF Ready, LockRule, UnderLock, Publishing
  <2> QED
    BY <1>1, <2>1, <2>6, StepFacts, QuietStep, Zenon
<1>4. CASE Return(t) /\ UNCHANGED mdVars
  BY <1>1, <1>4, ReturnReady, SameTable, StepFacts, QuietStep, Zenon
<1> QED
  BY <1>2, <1>3, <1>4, Zenon DEF LoadAcquire

\* A record that is a whole one is there.
LEMMA WholeIsThere ==
  ASSUME NEW k \in Keys, NEW d \in Descriptors, NEW STATE loc, RecordAt(loc) = RecordOf(k, d)
  PROVE  LocationExists(loc)
<1>1. RecordOf(k, d) \in [key : Keys, desc : Descriptors]
  BY Zenon DEF RecordOf
<1>2. RecordOf(k, d) # Torn
  BY <1>1, SegmentAssumption, Zenon
<1> QED
  BY <1>2, Zenon DEF RecordAt

\* The load judges the record by what it expects there.
LEMMA ReadVerdict ==
  ASSUME RecordInv, NEW t \in Threads, LoadRead(t)
  PROVE  \E v \in Verdicts :
           /\ GoJudged(t, "release", v)
           /\ v = "ok" <=> RecordAt(call[t].loc) = RecordOf(call[t].key, call[t].want)
<1> DEFINE found == RecordAt(call[t].loc) = RecordOf(call[t].key, call[t].want)
           v     == CASE found -> "ok"
                      [] call[t].loc.path \notin DOMAIN segs -> "error"
                      [] OTHER -> "corrupt"
<1>1. call[t].key \in Keys /\ call[t].want \in Descriptors /\ call[t].pc = "read"
  BY StepFacts, Zenon DEF LoadRead, At, Prepared
<1>2. found => call[t].loc.path \in DOMAIN segs
  BY <1>1, WholeIsThere, Zenon DEF LocationExists
<1>3. GoJudged(t, "release", v)
  BY Zenon DEF LoadRead, GoJudged
<1> HIDE DEF found
<1>4. found => v = "ok"
  BY <1>2
<1>5. ~found => v = "error" \/ v = "corrupt"
  OBVIOUS
<1>6. "ok" \in Verdicts /\ "error" \in Verdicts /\ "corrupt" \in Verdicts
  BY Zenon DEF Verdicts
<1> HIDE DEF v
<1> QED
  BY <1>3, <1>4, <1>5, <1>6, Zenon DEF found

LEMMA LoadReadKeeps ==
  ASSUME RecordInv, NEW t \in Threads, LoadRead(t)
  PROVE  RecordInv'
<1>1. /\ open /\ call[t].pc = "read"
      /\ UNCHANGED <<mdVars, segs, mutation, compactions, hit, faults>>
  BY Zenon DEF LoadRead, At
<1>2. PICK v \in Verdicts :
        /\ GoJudged(t, "release", v)
        /\ v = "ok" <=> RecordAt(call[t].loc) = RecordOf(call[t].key, call[t].want)
  BY ReadVerdict, Zenon
<1>3. "release" \in PCs
  BY Zenon DEF PCs
<1>4. /\ OthersWait(t) /\ call'[t].pc = "release" /\ call'[t].key = call[t].key
      /\ call'[t].val = call[t].val /\ call'[t].want = call[t].want
      /\ call'[t].loc = call[t].loc /\ call'[t].verdict = v /\ call'[t].todo = call[t].todo
  BY <1>2, <1>3, StepFacts, VerdictFacts, Zenon
<1>5. /\ call[t].key \in Keys /\ call[t].want \in Descriptors /\ call[t].loc \in Uris
      /\ call[t].todo = {} /\ (UnderLock(call[t]) => mutation = t)
  BY <1>1, StepFacts, Zenon DEF Prepared
<1>6. Ready(t)
  BY <1>1, <1>4, <1>5, Zenon DEF Ready, LockRule, Prepared, UnderLock
<1>7. Publishing(call'[t]) => Publishable(call'[t])
  <2> SUFFICES ASSUME v = "ok", call[t].val = call[t].want
               PROVE  Publishable(call'[t])
    BY <1>4, Zenon DEF Publishing
  <2>1. /\ RecordAt(call[t].loc) = RecordOf(call[t].key, call[t].want)
        /\ LocationExists(call[t].loc)
    BY <1>2, <1>5, WholeIsThere, Zenon
  <2> QED
    BY <1>4, <2>1, Zenon DEF Publishable
<1> QED
  BY <1>1, <1>6, <1>7, SameTable, StepFacts, QuietStep, Zenon

LEMMA LoadReleaseKeeps ==
  ASSUME RecordInv, NEW t \in Threads, LoadRelease(t)
  PROVE  RecordInv'
<1>1. /\ open /\ call[t].pc = "release" /\ UNCHANGED <<segs, compactions, hit, faults>>
      /\ Release(call[t].key, NVMe)
  BY Zenon DEF LoadRelease, At
<1>2. /\ call[t].key \in Keys /\ call[t].want \in Descriptors /\ call[t].loc \in Uris
      /\ call[t].todo = {} /\ (UnderLock(call[t]) => mutation = t)
  BY <1>1, StepFacts, Zenon DEF Prepared
<1>3. blocks' \in Table /\ UNCHANGED <<ownerEpoch, open>> /\ RowsStay
  BY <1>1, <1>2, StepFacts, ReleaseRow, OneRowKept, Zenon
<1>4. ASSUME NEW pc \in {"begin", "commit"}, Go(t, pc), UNCHANGED mutation,
             pc = "commit" => call[t].verdict = "ok" /\ call[t].val = call[t].want
      PROVE  RecordInv'
  <2>1. pc \in PCs
    BY Zenon DEF PCs
  <2>2. /\ OthersWait(t) /\ call'[t].pc = pc /\ call'[t].key = call[t].key
        /\ call'[t].val = call[t].val /\ call'[t].loc = call[t].loc
        /\ call'[t].todo = call[t].todo
    BY <1>4, <2>1, StepFacts, GoFacts, Zenon
  <2>3. pc = "commit" => UnderLock(call[t]) /\ call[t].val \in Descriptors
    BY <1>2, <1>4, Zenon DEF UnderLock
  <2>4. Prepared(call'[t])
    BY <1>2, <2>2, <2>3, Zenon DEF Prepared
  <2>5. UnderLock(call'[t]) => UnderLock(call[t])
    BY <2>2, <2>3, Zenon DEF UnderLock
  <2>6. Ready(t)
    BY <1>2, <1>4, <2>2, <2>4, <2>5, Zenon DEF Ready, LockRule
  <2>7. Publishing(call'[t]) => Publishable(call'[t])
    <3> SUFFICES ASSUME pc = "commit" PROVE Publishable(call'[t])
      BY <2>2, Zenon DEF Publishing
    <3>1. Publishable(call[t])
      BY <1>1, <1>4, Zenon DEF RecordInv, PublishesRecords, Publishing
    <3> QED
      BY <2>2, <3>1, Zenon DEF Publishable
  <2> QED
    BY <1>1, <1>3, <2>6, <2>7, StepFacts, QuietStep, Zenon
<1>5. CASE Return(t)
  BY <1>1, <1>3, <1>5, ReturnReady, StepFacts, QuietStep, Zenon
<1>6. \/ \E pc \in {"begin", "commit"} :
           /\ Go(t, pc) /\ UNCHANGED mutation
           /\ pc = "commit" => call[t].verdict = "ok" /\ call[t].val = call[t].want
      \/ Return(t)
  BY Zenon DEF LoadRelease
<1> QED
  BY <1>4, <1>5, <1>6, Zenon

LEMMA EvictBeginKeeps ==
  ASSUME RecordInv, NEW t \in Threads, EvictBegin(t)
  PROVE  RecordInv'
<1>1. /\ open /\ call[t].pc = "begin" /\ MayLock(t) /\ call[t].key \in Keys
      /\ call[t].todo = {} /\ UNCHANGED <<segs, compactions, hit, faults>>
  BY StepFacts, Zenon DEF EvictBegin, At, Prepared
<1>2. CASE BeginDelete(call[t].key, NVMe) /\ Go(t, "finish") /\ mutation' = t
  <2>1. blocks' \in Table /\ UNCHANGED <<ownerEpoch, open>> /\ RowsStay
    BY <1>1, <1>2, StepFacts, WithdrawnRow, Zenon
  <2>2. "finish" \in PCs
    BY Zenon DEF PCs
  <2>3. /\ OthersWait(t) /\ call'[t].pc = "finish" /\ call'[t].key = call[t].key
        /\ call'[t].val = call[t].val /\ call'[t].todo = call[t].todo
    BY <1>2, <2>2, StepFacts, GoFacts, Zenon
  <2>4. Ready(t) /\ ~Publishing(call'[t])
    BY <1>1, <1>2, <2>3, Zenon DEF Ready, LockRule, MayLock, Prepared, Publishing
  <2> QED
    BY <1>1, <2>1, <2>4, StepFacts, QuietStep, Zenon
<1>3. CASE Return(t) /\ UNCHANGED mdVars
  BY <1>1, <1>3, ReturnReady, SameTable, StepFacts, QuietStep, Zenon
<1> QED
  BY <1>2, <1>3, Zenon DEF EvictBegin

LEMMA EvictFinishKeeps ==
  ASSUME RecordInv, NEW t \in Threads, EvictFinish(t)
  PROVE  RecordInv'
<1>1. /\ open /\ call[t].key \in Keys /\ UNCHANGED <<segs, compactions, hit, faults>>
      /\ FinishDelete(call[t].key, NVMe) /\ Return(t)
  BY StepFacts, Zenon DEF EvictFinish, At, Prepared
<1>2. blocks' \in Table /\ UNCHANGED <<ownerEpoch, open>> /\ RowsStay
  BY <1>1, StepFacts, WithdrawnRow, Zenon
<1> QED
  BY <1>1, <1>2, ReturnReady, StepFacts, QuietStep, Zenon

\* A store takes the lock; it looks at the record that is there, or writes one.
LEMMA StoreCallForm ==
  ASSUME RecordInv, NEW t \in Threads, NEW k \in Keys, NEW d \in Descriptors, StoreCall(t, k, d)
  PROVE  /\ open /\ mutation = None /\ mutation' = t
         /\ UNCHANGED <<segs, compactions, hit, faults>>
         /\ UNCHANGED mdVars \/ Delete(k, NVMe)
         /\ OthersWait(t) /\ Prepared(call'[t]) /\ ~Publishing(call'[t])
         /\ call[t].pc = "idle" /\ call'[t].pc \in {"exists", "append"} /\ call'[t].todo = {}
         /\ call'[t].pc = "append" => call'[t].key = k /\ ~Located(k)
<1>1. /\ open /\ call[t].pc = "idle" /\ mutation = None /\ mutation' = t
      /\ UNCHANGED <<segs, compactions, hit, faults>>
      /\ UNCHANGED mdVars \/ Delete(k, NVMe)
  BY Zenon DEF StoreCall, At
<1>3. CASE Located(k)
  <2>1. PICK loc \in Uris : loc = blocks[k][NVMe].uri
    BY <1>3, StepFacts, ActiveRow, Zenon DEF Located
  <2>2. call' = [call EXCEPT ![t] = Called("exists", "store", k, d, loc, {}, {})]
    <3>1. call' = [call EXCEPT ![t] = [Idle EXCEPT !.pc = "exists", !.op = "store", !.key = k,
                                                   !.val = d, !.loc = loc]]
      BY <1>3, <2>1, Zenon DEF StoreCall
    <3> QED
      BY <3>1, CheckForm, Zenon
  <2>3. PICK c : c = Called("exists", "store", k, d, loc, {}, {})
    BY Zenon
  <2>4. c \in CallRecords /\ Prepared(c) /\ ~Publishing(c) /\ c.pc = "exists" /\ c.todo = {}
    BY <2>3, NewCheck, Zenon
  <2>5. call' = [call EXCEPT ![t] = c]
    BY <2>2, <2>3, Zenon
  <2>6. OthersWait(t) /\ call'[t] = c
    BY <2>4, <2>5, StepFacts, ReplaceFacts, Zenon
  <2> QED
    BY <1>1, <2>4, <2>6, Zenon
<1>4. CASE ~Located(k)
  <2>2. call' = [call EXCEPT ![t] = Called("append", "store", k, d, None, {}, {})]
    <3>1. call' = [call EXCEPT ![t] = [Idle EXCEPT !.pc = "append", !.op = "store", !.key = k,
                                                   !.val = d]]
      BY <1>4, Zenon DEF StoreCall
    <3> QED
      BY <3>1, StoreForm, Zenon
  <2>3. PICK c : c = Called("append", "store", k, d, None, {}, {})
    BY Zenon
  <2>4. c \in CallRecords /\ Prepared(c) /\ ~Publishing(c) /\ c.pc = "append" /\ c.todo = {}
    BY <2>3, NewStore, Zenon
  <2>5. call' = [call EXCEPT ![t] = c]
    BY <2>2, <2>3, Zenon
  <2>6. OthersWait(t) /\ call'[t] = c
    BY <2>4, <2>5, StepFacts, ReplaceFacts, Zenon
  <2>7. c.key = k
    BY <2>3, Zenon DEF Called
  <2> QED
    BY <1>1, <1>4, <2>4, <2>6, <2>7, Zenon
<1> QED
  BY <1>3, <1>4, Zenon

LEMMA StoreCallKeeps ==
  ASSUME RecordInv, NEW t \in Threads, NEW k \in Keys, NEW d \in Descriptors, StoreCall(t, k, d)
  PROVE  RecordInv'
<1>1. /\ open /\ mutation = None /\ mutation' = t
      /\ UNCHANGED <<segs, compactions, hit, faults>>
      /\ UNCHANGED mdVars \/ Delete(k, NVMe)
      /\ OthersWait(t) /\ Prepared(call'[t]) /\ ~Publishing(call'[t])
  BY StoreCallForm, Zenon
<1>2. blocks' \in Table /\ UNCHANGED <<ownerEpoch, open>> /\ RowsStay
  BY <1>1, SameTable, StepFacts, WithdrawnRow, Zenon
<1>3. Ready(t)
  BY <1>1, Zenon DEF Ready, LockRule
<1> QED
  BY <1>1, <1>2, <1>3, StepFacts, QuietStep, Zenon

\* A write that fails leaves the files alone, or a part of a record.
LEMMA WriteFailsKeeps ==
  ASSUME RecordInv, NEW t \in Threads, NEW path \in Nat \X Nat, open, mutation = t,
         WriteFails(path), UNCHANGED <<mdVars, compactions, hit, faults>>,
         Ready(t), ~Publishing(call'[t])
  PROVE  RecordInv'
<1>1. CASE UNCHANGED segs
  BY <1>1, SameTable, StepFacts, QuietStep, Zenon
<1>2. CASE segs' = Appended(path, Torn)
  <2>1. PICK r \in Records : r = Torn
    BY Zenon DEF Records
  <2>2. segs' = Appended(path, r)
    BY <1>2, <2>1, Zenon
  <2> QED
    BY <2>2, AppendStep, Zenon
<1> QED
  BY <1>1, <1>2, Zenon DEF WriteFails

\* A thread that has written its record is about to publish it.
LEMMA WrittenKeeps ==
  ASSUME RecordInv, NEW t \in Threads, NEW path \in Nat \X Nat,
         open, call[t].pc \in {"append", "copy"}, NEW pc \in {"commit", "publish"},
         pc = "commit" => call[t].todo = {},
         segs' = Appended(path, RecordOf(call[t].key, call[t].val)),
         GoWith(t, pc, EndOf(path)), UNCHANGED <<mdVars, mutation, compactions, hit, faults>>
  PROVE  /\ RecordInv'
         /\ OthersWait(t) /\ call'[t].pc = pc /\ call'[t].key = call[t].key
         /\ call'[t].todo = call[t].todo
<1>1. /\ call[t].key \in Keys /\ call[t].val \in Descriptors /\ mutation = t
      /\ Uris = Locations /\ FilesType
  BY StepFacts, Zenon DEF Prepared, UnderLock, RecordInv, SegmentType
<1>2. PICK r \in Records : r = RecordOf(call[t].key, call[t].val)
  BY <1>1, Zenon DEF Records, RecordOf
<1>3. segs' = Appended(path, r)
  BY <1>2, Zenon
<1>4. PICK loc \in Uris : loc = EndOf(path)
  BY <1>1, <1>3, AppendFacts, Zenon
<1>5. GoWith(t, pc, loc) /\ pc \in PCs /\ CallType
  BY <1>4, StepFacts, Zenon DEF PCs
<1>6. /\ OthersWait(t) /\ call'[t].pc = pc /\ call'[t].key = call[t].key
      /\ call'[t].val = call[t].val /\ call'[t].loc = loc
      /\ call'[t].todo = call[t].todo
  BY <1>5, LocFacts
<1>7. Prepared(call'[t])
  BY <1>1, <1>6, Zenon DEF Prepared
<1>8. Ready(t)
  BY <1>1, <1>6, <1>7, Zenon DEF Ready, LockRule
<1>9. call'[t].loc = EndOf(path) /\ r = RecordOf(call'[t].key, call'[t].val)
  BY <1>2, <1>4, <1>6, Zenon
<1> QED
  BY <1>1, <1>3, <1>6, <1>8, <1>9, AppendStep, Zenon

LEMMA StoreAppendKeeps ==
  ASSUME RecordInv, NEW t \in Threads, StoreAppend(t)
  PROVE  RecordInv'
<1>1. /\ open /\ call[t].pc = "append" /\ UNCHANGED <<mdVars, compactions, hit, faults>>
      /\ call[t].todo = {} /\ mutation = t
  BY StepFacts, Zenon DEF StoreAppend, At, Prepared, UnderLock
<1>2. PICK path \in Nat \X Nat : path = PathForAppend(0)
  BY StepFacts, PathFacts
<1>3. CASE WriteFails(path) /\ Return(t)
  BY <1>1, <1>3, ReturnReady, WriteFailsKeeps, Zenon
<1>4. CASE /\ segs' = Appended(path, RecordOf(call[t].key, call[t].val))
           /\ GoWith(t, "commit", EndOf(path)) /\ UNCHANGED mutation
  BY <1>1, <1>4, WrittenKeeps, Zenon
<1> QED
  BY <1>2, <1>3, <1>4, Zenon DEF StoreAppend, GoWith

LEMMA StoreCommitKeeps ==
  ASSUME RecordInv, NEW t \in Threads, StoreCommit(t)
  PROVE  RecordInv'
<1>1. /\ open /\ call[t].pc = "commit" /\ UNCHANGED <<segs, compactions, faults>> /\ Return(t)
  BY Zenon DEF StoreCommit, At
<1>2. Ready(t) /\ ~Publishing(call'[t])
  BY <1>1, ReturnReady, Zenon
<1>3. CASE Upsert(call[t].key, NVMe, call[t].val, call[t].loc) /\ Republished(t)
  BY <1>1, <1>2, <1>3, PublishStep, Zenon
<1>4. CASE UNCHANGED <<mdVars, hit>>
  BY <1>1, <1>2, <1>4, SameTable, StepFacts, QuietStep, Zenon
<1> QED
  BY <1>3, <1>4, Zenon DEF StoreCommit

\* A compaction takes the lock and lists the records without readers.
LEMMA CompactCallForm ==
  ASSUME RecordInv, NEW t \in Threads, CompactCall(t)
  PROVE  /\ open /\ mutation = None /\ mutation' = t /\ compactions' = compactions + 1
         /\ UNCHANGED <<mdVars, segs, hit, faults>>
         /\ OthersWait(t) /\ Prepared(call'[t]) /\ ~Publishing(call'[t])
         /\ call[t].pc = "idle" /\ call'[t].pc = "pin"
         /\ \A e \in call'[t].todo : e.key \in LruCandidates(NVMe)
<1>1. /\ open /\ call[t].pc = "idle" /\ mutation = None /\ mutation' = t
      /\ compactions' = compactions + 1 /\ UNCHANGED <<mdVars, segs, hit, faults>>
  BY Zenon DEF CompactCall, At
<1>2. PICK todo : todo = Listed
  BY Zenon
<1>3. PICK left \in SUBSET Keys : left = PassedOver
  BY Zenon DEF PassedOver
<1>4. ASSUME NEW e \in todo PROVE e \in Entries /\ e.key \in LruCandidates(NVMe)
  <2>1. PICK k \in LruCandidates(NVMe) : e = [key |-> k, loc |-> blocks[k][NVMe].uri]
    BY <1>2, <1>4, Zenon DEF Listed
  <2>2. k \in Keys /\ blocks[k][NVMe].uri \in Uris
    BY StepFacts, ActiveRow, Zenon DEF LruCandidates
  <2> QED
    BY <2>1, <2>2, Zenon DEF Entries
<1>5. todo \in SUBSET Entries
  BY <1>4, Zenon
<1>6. call' = [call EXCEPT ![t] = Called("pin", "compact", None, None, None, todo, left)]
  <2>1. call' = [call EXCEPT ![t] = [Idle EXCEPT !.pc = "pin", !.op = "compact", !.todo = todo,
                                                 !.left = left]]
    BY <1>2, <1>3, Zenon DEF CompactCall
  <2> QED
    BY <2>1, CompactionForm, Zenon
<1>7. PICK c : c = Called("pin", "compact", None, None, None, todo, left)
  BY Zenon
<1>8. c \in CallRecords /\ Prepared(c) /\ ~Publishing(c) /\ c.pc = "pin" /\ c.todo = todo
  BY <1>3, <1>5, <1>7, NewCompaction
<1>9. OthersWait(t) /\ call'[t] = c
  BY <1>6, <1>7, <1>8, StepFacts, ReplaceFacts, Zenon
<1> QED
  BY <1>1, <1>4, <1>8, <1>9, Zenon

LEMMA CompactCallKeeps ==
  ASSUME RecordInv, NEW t \in Threads, CompactCall(t)
  PROVE  RecordInv'
<1>1. /\ open /\ mutation = None /\ mutation' = t /\ compactions' = compactions + 1
      /\ UNCHANGED <<mdVars, segs, hit, faults>>
      /\ OthersWait(t) /\ Prepared(call'[t]) /\ ~Publishing(call'[t])
  BY CompactCallForm, Zenon
<1>2. compactions' \in Nat
  <2>1. compactions \in Nat
    BY StepFacts, Zenon
  <2> QED
    BY <1>1, <2>1
<1>3. Ready(t)
  BY <1>1, Zenon DEF Ready, LockRule
<1> QED
  BY <1>1, <1>2, <1>3, SameTable, QuietStep, Zenon

\* The next record is pinned, or all have been moved.
LEMMA CompactPinForm ==
  ASSUME RecordInv, NEW t \in Threads, CompactPin(t)
  PROVE  /\ open /\ call[t].pc = "pin" /\ mutation = t
         /\ UNCHANGED <<segs, mutation, compactions, hit, faults>>
         /\ OthersWait(t) /\ Prepared(call'[t])
         /\ \/ /\ UNCHANGED mdVars /\ call'[t].pc = "sweep" /\ call'[t].todo = {}
            \/ /\ call'[t].pc = "copy" /\ call'[t].key \in Keys /\ Acquire(call'[t].key, NVMe)
               /\ call'[t].todo \subseteq call[t].todo
               /\ \E e \in call[t].todo : call'[t].key = e.key
<1>1. /\ open /\ call[t].pc = "pin" /\ mutation = t
      /\ UNCHANGED <<segs, mutation, compactions, hit, faults>>
  BY StepFacts, Zenon DEF CompactPin, At, UnderLock
<1>2. CASE call[t].todo = {} /\ Go(t, "sweep") /\ UNCHANGED mdVars
  <2>1. "sweep" \in PCs
    BY Zenon DEF PCs
  <2>2. OthersWait(t) /\ call'[t].pc = "sweep" /\ call'[t].todo = {}
    BY <1>2, <2>1, StepFacts, GoFacts, Zenon
  <2> QED
    BY <1>1, <1>2, <2>2, Zenon DEF Prepared
<1>3. ASSUME NEW e \in call[t].todo, Acquire(e.key, NVMe),
             GoCopy(t, call[t].todo \ {e}, e.key, e.loc, blocks[e.key][NVMe].desc)
      PROVE  /\ OthersWait(t) /\ Prepared(call'[t])
             /\ call'[t].pc = "copy" /\ call'[t].key = e.key /\ e.key \in Keys
             /\ call'[t].todo \subseteq call[t].todo
  <2>1. e \in Entries
    BY StepFacts, Zenon DEF CallRecords
  <2>2. PICK k \in Keys, loc \in Uris : k = e.key /\ loc = e.loc
    BY <2>1, Zenon DEF Entries
  <2>3. PICK d \in Descriptors : d = blocks[k][NVMe].desc
    BY <1>3, <2>2, StepFacts, ActiveRow, Zenon DEF Acquire
  <2>4. PICK todo \in SUBSET Entries : todo = call[t].todo \ {e}
    BY StepFacts, Zenon DEF CallRecords
  <2>5. GoCopy(t, todo, k, loc, d) /\ CallType
    BY <1>3, <2>2, <2>3, <2>4, StepFacts, Zenon
  <2>6. /\ OthersWait(t) /\ call'[t].pc = "copy" /\ call'[t].key = k /\ call'[t].val = d
        /\ call'[t].loc = loc /\ call'[t].todo = todo
    BY <2>5, EntryFacts
  <2>7. Prepared(call'[t])
    BY <2>6, Zenon DEF Prepared
  <2> QED
    BY <2>2, <2>4, <2>6, <2>7, Zenon
<1>4. \/ call[t].todo = {} /\ Go(t, "sweep") /\ UNCHANGED mdVars
      \/ \E e \in call[t].todo :
           /\ Acquire(e.key, NVMe)
           /\ GoCopy(t, call[t].todo \ {e}, e.key, e.loc, blocks[e.key][NVMe].desc)
  <2>1. CallType
    BY StepFacts, Zenon
  <2> QED
    BY <2>1, Zenon DEF CompactPin, GoCopy, CallType
<1> QED
  BY <1>1, <1>2, <1>3, <1>4, Zenon

LEMMA CompactPinKeeps ==
  ASSUME RecordInv, NEW t \in Threads, CompactPin(t)
  PROVE  RecordInv'
<1>1. /\ open /\ mutation = t /\ UNCHANGED <<segs, mutation, compactions, hit, faults>>
      /\ OthersWait(t) /\ Prepared(call'[t]) /\ call'[t].pc \in {"sweep", "copy"}
      /\ \/ UNCHANGED mdVars
         \/ call'[t].key \in Keys /\ Acquire(call'[t].key, NVMe)
  BY CompactPinForm, Zenon
<1>2. Ready(t) /\ ~Publishing(call'[t])
  BY <1>1, Zenon DEF Ready, LockRule, Publishing
<1>3. blocks' \in Table /\ UNCHANGED <<ownerEpoch, open>> /\ RowsStay
  BY <1>1, SameTable, StepFacts, AcquireRow, OneRowKept, Zenon
<1> QED
  BY <1>1, <1>2, <1>3, StepFacts, QuietStep, Zenon

\* A record that could not be copied ends the compaction; files and table stay,
\* or the file has a part of a record.
LEMMA CompactFailForm ==
  ASSUME RecordInv, NEW t \in Threads, call[t].pc \in {"copy", "publish"},
         GoJudged(t, "unpin", "error")
  PROVE  /\ OthersWait(t) /\ Prepared(call'[t]) /\ call'[t].pc = "unpin"
         /\ call'[t].key = call[t].key /\ call'[t].todo = call[t].todo
<1>1. "unpin" \in PCs /\ "error" \in Verdicts /\ CallType /\ call[t].key \in Keys
  BY StepFacts, Zenon DEF PCs, Verdicts, Prepared
<1>2. /\ OthersWait(t) /\ call'[t].pc = "unpin"
      /\ call'[t].key = call[t].key /\ call'[t].todo = call[t].todo
  BY <1>1, VerdictFacts, Zenon
<1> QED
  BY <1>1, <1>2, Zenon DEF Prepared

LEMMA CompactCopyForm ==
  ASSUME RecordInv, NEW t \in Threads, CompactCopy(t)
  PROVE  /\ RecordInv'
         /\ call[t].pc = "copy" /\ UNCHANGED <<mdVars, mutation, faults>>
         /\ OthersWait(t) /\ call'[t].pc \in {"publish", "unpin"}
         /\ call'[t].key = call[t].key /\ call'[t].todo = call[t].todo
<1>1. /\ open /\ call[t].pc = "copy" /\ mutation = t
      /\ UNCHANGED <<mdVars, mutation, compactions, hit, faults>>
  BY StepFacts, Zenon DEF CompactCopy, At, UnderLock
<1>2. PICK path \in Nat \X Nat : path = PathForAppend(compactions)
  BY StepFacts, PathFacts, Zenon
<1>3. CASE /\ segs' = Appended(path, RecordOf(call[t].key, call[t].val))
           /\ GoWith(t, "publish", EndOf(path))
  <2>1. PICK pc \in {"commit", "publish"} : pc = "publish"
    BY Zenon
  <2>2. GoWith(t, pc, EndOf(path)) /\ (pc = "commit" => call[t].todo = {})
    BY <1>3, <2>1, Zenon
  <2>3. /\ RecordInv' /\ OthersWait(t) /\ call'[t].pc = pc
        /\ call'[t].key = call[t].key /\ call'[t].todo = call[t].todo
    BY <1>1, <1>3, <2>2, WrittenKeeps, Zenon
  <2> QED
    BY <1>1, <2>1, <2>3, Zenon
<1>4. CASE GoJudged(t, "unpin", "error") /\ (WriteFails(path) \/ UNCHANGED segs)
  <2>1. /\ OthersWait(t) /\ Prepared(call'[t]) /\ call'[t].pc = "unpin"
        /\ call'[t].key = call[t].key /\ call'[t].todo = call[t].todo
    BY <1>1, <1>4, CompactFailForm, Zenon
  <2>2. Ready(t) /\ ~Publishing(call'[t])
    BY <1>1, <2>1, Zenon DEF Ready, LockRule, Publishing
  <2>3. CASE WriteFails(path)
    BY <1>1, <2>1, <2>2, <2>3, WriteFailsKeeps, Zenon
  <2>4. CASE UNCHANGED segs
    BY <1>1, <2>1, <2>2, <2>4, SameTable, StepFacts, QuietStep, Zenon
  <2> QED
    BY <1>4, <2>3, <2>4, Zenon
<1> QED
  BY <1>2, <1>3, <1>4, Zenon DEF CompactCopy, GoWith, GoJudged

LEMMA CompactPublishKeeps ==
  ASSUME RecordInv, NEW t \in Threads, CompactPublish(t)
  PROVE  /\ RecordInv' /\ mutation = t
         /\ OthersWait(t) /\ call'[t].pc = "unpin" /\ call'[t].key = call[t].key
         /\ call'[t].todo = call[t].todo
<1>1. /\ open /\ call[t].pc = "publish" /\ mutation = t /\ call[t].key \in Keys
      /\ UNCHANGED <<segs, mutation, compactions, faults>>
  BY StepFacts, Zenon DEF CompactPublish, At, UnderLock, Prepared
<1>2. CASE /\ Upsert(call[t].key, NVMe, call[t].val, call[t].loc) /\ Republished(t)
           /\ Go(t, "unpin")
  <2>1. "unpin" \in PCs
    BY Zenon DEF PCs
  <2>2. /\ OthersWait(t) /\ call'[t].pc = "unpin" /\ call'[t].key = call[t].key
        /\ call'[t].todo = call[t].todo
    BY <1>2, <2>1, StepFacts, GoFacts, Zenon
  <2>3. Prepared(call'[t])
    BY <1>1, <2>2, Zenon DEF Prepared
  <2>4. Ready(t) /\ ~Publishing(call'[t])
    BY <1>1, <2>2, <2>3, Zenon DEF Ready, LockRule, Publishing
  <2> QED
    BY <1>1, <1>2, <2>2, <2>4, PublishStep, Zenon
<1>3. CASE GoJudged(t, "unpin", "error") /\ UNCHANGED <<mdVars, hit>>
  <2>1. /\ OthersWait(t) /\ Prepared(call'[t]) /\ call'[t].pc = "unpin"
        /\ call'[t].key = call[t].key /\ call'[t].todo = call[t].todo
    BY <1>1, <1>3, CompactFailForm, Zenon
  <2>2. Ready(t) /\ ~Publishing(call'[t])
    BY <1>1, <2>1, Zenon DEF Ready, LockRule, Publishing
  <2> QED
    BY <1>1, <1>3, <2>1, <2>2, SameTable, StepFacts, QuietStep, Zenon
<1> QED
  BY <1>2, <1>3, Zenon DEF CompactPublish, GoJudged

LEMMA CompactUnpinForm ==
  ASSUME RecordInv, NEW t \in Threads, CompactUnpin(t)
  PROVE  /\ open /\ call[t].pc = "unpin" /\ call[t].key \in Keys
         /\ UNCHANGED <<segs, compactions, hit, faults>>
         /\ Release(call[t].key, NVMe) /\ Ready(t) /\ ~Publishing(call'[t])
         /\ \/ call'[t].pc = "pin" /\ call'[t].todo = call[t].todo
            \/ call'[t].pc = "idle" /\ call'[t].todo = {}
<1>1. /\ open /\ call[t].pc = "unpin" /\ mutation = t /\ call[t].key \in Keys
      /\ UNCHANGED <<segs, compactions, hit, faults>> /\ Release(call[t].key, NVMe)
  BY StepFacts, Zenon DEF CompactUnpin, At, UnderLock, Prepared
<1>2. CASE Return(t)
  <2>1. call'[t] = Idle
    BY <1>2, StepFacts, ReturnFacts, Zenon
  <2> QED
    BY <1>1, <1>2, <2>1, IdleIsCall, ReturnReady, Zenon
<1>3. CASE Go(t, "pin") /\ UNCHANGED mutation
  <2>1. "pin" \in PCs
    BY Zenon DEF PCs
  <2>2. /\ OthersWait(t) /\ call'[t].pc = "pin" /\ call'[t].todo = call[t].todo
    BY <1>3, <2>1, StepFacts, GoFacts, Zenon
  <2>3. Prepared(call'[t])
    BY <2>2, Zenon DEF Prepared
  <2>4. Ready(t) /\ ~Publishing(call'[t])
    BY <1>1, <1>3, <2>2, <2>3, Zenon DEF Ready, LockRule, Publishing
  <2> QED
    BY <1>1, <2>2, <2>4, Zenon
<1> QED
  BY <1>2, <1>3, Zenon DEF CompactUnpin

LEMMA CompactUnpinKeeps ==
  ASSUME RecordInv, NEW t \in Threads, CompactUnpin(t)
  PROVE  RecordInv'
<1>1. /\ open /\ call[t].key \in Keys /\ UNCHANGED <<segs, compactions, hit, faults>>
      /\ Release(call[t].key, NVMe) /\ Ready(t) /\ ~Publishing(call'[t])
  BY CompactUnpinForm, Zenon
<1>2. blocks' \in Table /\ UNCHANGED <<ownerEpoch, open>> /\ RowsStay
  BY <1>1, StepFacts, ReleaseRow, OneRowKept, Zenon
<1> QED
  BY <1>1, <1>2, StepFacts, QuietStep, Zenon

LEMMA SweepKeeps ==
  ASSUME RecordInv, NEW t \in Threads, Sweep(t)
  PROVE  RecordInv'
<1>1. open /\ call[t].pc = "sweep" /\ UNCHANGED <<mdVars, compactions, hit, faults>>
  BY Zenon DEF Sweep, At
<1>2. CASE Return(t) /\ UNCHANGED segs
  BY <1>1, <1>2, ReturnReady, SameTable, StepFacts, QuietStep, Zenon
<1>3. ASSUME NEW p \in DOMAIN segs \ Referenced, UNCHANGED <<call, mutation>>,
             segs' = [q \in DOMAIN segs \ {p} |-> segs[q]]
      PROVE  RecordInv'
  BY <1>1, <1>3, UnlinkStep, Zenon
<1> QED
  BY <1>2, <1>3, Zenon DEF Sweep

\* A file is lost: what it held is marked.
LEMMA FaultKeeps ==
  ASSUME RecordInv, NEW p \in DOMAIN segs, Fault(p)
  PROVE  RecordInv'
<1>1. /\ segs' = [q \in DOMAIN segs \ {p} |-> segs[q]] /\ faults' = faults + 1
      /\ hit' = hit \cup {k \in Keys : Active(k, NVMe) /\ blocks[k][NVMe].uri.path = p}
      /\ UNCHANGED <<mdVars, mutation, call, compactions>>
  BY Zenon DEF Fault
<1>2. /\ FilesType'
      /\ \A loc : loc.path = p => ~LocationExists(loc)'
      /\ \A loc : loc.path # p => /\ LocationExists(loc)' <=> LocationExists(loc)
                                  /\ RecordAt(loc)' = RecordAt(loc)
  BY <1>1, UnlinkFacts, Zenon DEF RecordInv, SegmentType
<1>3. faults' \in Nat /\ faults' # 0
  <2>1. faults \in Nat
    BY Zenon DEF RecordInv, SegmentType
  <2> QED
    BY <1>1, <2>1
<1>4. SegmentType'
  BY <1>1, <1>2, <1>3, Zenon DEF RecordInv, SegmentType, mdVars, CallType
<1>5. (\A u \in Threads : Prepared(call'[u])) /\ LockHeld' /\ NothingLost'
  BY <1>1, <1>3, Zenon DEF RecordInv, LockHeld, NothingLost
<1>6. PublishesRecords'
  <2> SUFFICES ASSUME NEW u \in Threads, Publishing(call[u]) PROVE Publishable(call[u])'
    BY <1>1, Zenon DEF PublishesRecords, Publishing
  <2>1. PICK loc : loc = call[u].loc
    BY Zenon
  <2>2. LocationExists(loc) => RecordAt(loc) = RecordOf(call[u].key, call[u].val)
    BY <2>1, Zenon DEF RecordInv, PublishesRecords, Publishable
  <2>3. LocationExists(loc)' => RecordAt(loc)' = RecordOf(call[u].key, call[u].val)
    BY <1>2, <2>2, Zenon
  <2> QED
    BY <1>1, <1>3, <2>1, <2>3, Zenon DEF Publishable, LocationExists, RecordAt, RecordOf
<1>7. ReferencedIsIntact'
  <2> SUFFICES ASSUME NEW k \in Keys, Active(k, NVMe)', k \notin hit'
               PROVE  (RecordAt(blocks[k][NVMe].uri) = RecordOf(k, blocks[k][NVMe].desc))'
    BY Zenon DEF ReferencedIsIntact
  <2>1. Active(k, NVMe) /\ blocks' = blocks
    BY <1>1, Zenon DEF mdVars, Active
  <2>2. blocks[k][NVMe].uri.path # p /\ k \notin hit
    BY <1>1, <2>1, Zenon
  <2>3. PICK loc : loc = blocks[k][NVMe].uri
    BY Zenon
  <2>4. RecordAt(loc)' = RecordAt(loc) /\ RecordAt(loc) = RecordOf(k, blocks[k][NVMe].desc)
    BY <1>2, <2>1, <2>2, <2>3, Zenon DEF RecordInv, ReferencedIsIntact
  <2> QED
    BY <2>1, <2>3, <2>4, Zenon DEF RecordAt, LocationExists, RecordOf
<1> QED
  BY <1>4, <1>5, <1>6, <1>7, Zenon DEF RecordInv

\* No call: nothing to prepare and no lock to hold.
LEMMA AllIdle ==
  ASSUME call = [t \in Threads |-> Idle]
  PROVE  /\ CallType /\ LockHeld /\ PublishesRecords
         /\ \A t \in Threads : Prepared(call[t]) /\ call[t] = Idle /\ call[t].pc = "idle"
  BY IdleIsCall, Zenon DEF CallType, LockHeld, PublishesRecords

LEMMA CrashKeeps ==
  ASSUME RecordInv, Crash
  PROVE  RecordInv'
<1>1. /\ call' = [t \in Threads |-> Idle] /\ UNCHANGED <<segs, compactions, hit, faults>>
      /\ UNCHANGED <<blocks, ownerEpoch>>
  BY Zenon DEF Crash, Close
<1>2. /\ CallType' /\ LockHeld' /\ PublishesRecords'
      /\ \A t \in Threads : Prepared(call'[t]) /\ call'[t].pc = "idle"
  BY <1>1, IdleIsCall, Zenon DEF CallType, LockHeld, PublishesRecords, UnderLock, Publishing
<1>3. SegmentType'
  BY <1>1, <1>2, Zenon DEF RecordInv, SegmentType, FilesType
<1>4. NothingLost' /\ ReferencedIsIntact'
  BY <1>1, Zenon DEF RecordInv, NothingLost, ReferencedIsIntact, Active, RecordAt,
                     LocationExists, RecordOf
<1> QED
  BY <1>2, <1>3, <1>4, Zenon DEF RecordInv

LEMMA ReopenKeeps ==
  ASSUME RecordInv, Reopen
  PROVE  RecordInv'
<1>1. UNCHANGED <<segs, mutation, call, compactions, hit, faults>> /\ Open
  BY Zenon DEF Reopen, segVars
<1>2. blocks' \in Table /\ ownerEpoch' \in Nat /\ RowsStay
  BY <1>1, ReopenedRows, Zenon DEF RecordInv, SegmentType
<1>3. open' = TRUE
  BY <1>1, Zenon DEF Open
<1>4. SegmentType'
  BY <1>1, <1>2, <1>3, Zenon DEF RecordInv, SegmentType, FilesType, CallType
<1>5. (\A u \in Threads : Prepared(call'[u])) /\ LockHeld' /\ NothingLost'
  BY <1>1, Zenon DEF RecordInv, LockHeld, NothingLost
<1>6. PublishesRecords'
  <2> SUFFICES ASSUME NEW u \in Threads, Publishing(call[u]) PROVE Publishable(call[u])'
    BY <1>1, Zenon DEF PublishesRecords, Publishing
  <2>1. Publishable(call[u])
    BY Zenon DEF RecordInv, PublishesRecords
  <2> QED
    BY <1>1, <2>1, Zenon DEF Publishable, LocationExists, RecordAt
<1>7. ReferencedIsIntact'
  <2> SUFFICES ASSUME NEW k \in Keys, Active(k, NVMe)', k \notin hit'
               PROVE  (RecordAt(blocks[k][NVMe].uri) = RecordOf(k, blocks[k][NVMe].desc))'
    BY Zenon DEF ReferencedIsIntact
  <2>1. /\ Active(k, NVMe) /\ blocks'[k][NVMe].uri = blocks[k][NVMe].uri
        /\ blocks'[k][NVMe].desc = blocks[k][NVMe].desc
    BY <1>2, Zenon DEF RowsStay
  <2>2. RecordAt(blocks[k][NVMe].uri) = RecordOf(k, blocks[k][NVMe].desc)
    BY <1>1, <2>1, Zenon DEF RecordInv, ReferencedIsIntact
  <2> QED
    BY <1>1, <2>1, <2>2, Zenon DEF RecordAt, LocationExists, RecordOf
<1> QED
  BY <1>4, <1>5, <1>6, <1>7, Zenon DEF RecordInv

LEMMA RecordInit ==
  ASSUME Uris = Locations, Init
  PROVE  RecordInv
<1>1. /\ blocks = [k \in Keys |-> [t \in Tiers |-> NoRow]] /\ ownerEpoch = 0 /\ open = FALSE
      /\ segs = << >> /\ call = [t \in Threads |-> Idle]
      /\ compactions = 0 /\ hit = {} /\ faults = 0
  BY Zenon DEF Init
<1>2. DOMAIN segs = {}
  BY <1>1
<1>3. FilesType
  BY <1>2, FS_EmptySet, Zenon DEF FilesType
<1>4. blocks \in Table /\ \A k \in Keys : blocks[k][NVMe] = NoRow
  BY <1>1, Zenon DEF Table
<1>5. 0 \in Nat
  OBVIOUS
<1>6. SegmentType
  BY <1>1, <1>3, <1>4, <1>5, AllIdle, Zenon DEF SegmentType
<1>7. NothingLost /\ ReferencedIsIntact
  BY <1>1, <1>4, Zenon DEF NothingLost, ReferencedIsIntact, Active
<1> QED
  BY <1>1, <1>6, <1>7, AllIdle, Zenon DEF RecordInv

LEMMA RecordUnchanged ==
  ASSUME RecordInv, UNCHANGED vars
  PROVE  RecordInv'
<1>1. UNCHANGED <<blocks, ownerEpoch, open, segs, mutation, call, compactions, hit, faults>>
  BY Zenon DEF vars, mdVars, segVars
<1>2. SegmentType' /\ (\A u \in Threads : Prepared(call'[u])) /\ LockHeld' /\ NothingLost'
  BY <1>1, Zenon DEF RecordInv, SegmentType, FilesType, CallType, LockHeld, NothingLost
<1>3. PublishesRecords' /\ ReferencedIsIntact'
  BY <1>1, Zenon DEF RecordInv, PublishesRecords, Publishable, ReferencedIsIntact, Active,
                     RecordAt, LocationExists, RecordOf, Publishing
<1> QED
  BY <1>2, <1>3, Zenon DEF RecordInv

LEMMA RecordNext ==
  ASSUME RecordInv, Next
  PROVE  RecordInv'
<1>1. ASSUME NEW t \in Threads, Step(t) PROVE RecordInv'
  BY <1>1, LoadExistsKeeps, LoadStaleKeeps, LoadAcquireKeeps, LoadReadKeeps, LoadReleaseKeeps,
     EvictBeginKeeps, EvictFinishKeeps, StoreAppendKeeps, StoreCommitKeeps, CompactPinKeeps,
     CompactCopyForm, CompactPublishKeeps, CompactUnpinKeeps, SweepKeeps, Zenon DEF Step
<1>2. CASE Calls
  BY <1>2, LoadCallKeeps, EvictCallKeeps, StoreCallKeeps, CompactCallKeeps, Zenon
     DEF Calls, Threads
<1> QED
  BY <1>1, <1>2, FaultKeeps, CrashKeeps, ReopenKeeps, Zenon DEF Next

\* load() of the segment layout, _append_segment_record, compact_segments: a
\* published row leads to the whole record of its key and payload, through any
\* interleaving, failed write and crash, unless its file was lost.  Locations
\* are a path and a place in it.
THEOREM PublishedRecords ==
  ASSUME Uris = Locations
  PROVE  Spec => []ReferencedIsIntact
<1>1. Init => RecordInv
  BY RecordInit, Zenon
<1>2. RecordInv /\ [Next]_vars => RecordInv'
  BY RecordNext, RecordUnchanged, Zenon
<1>3. RecordInv => ReferencedIsIntact
  BY Zenon DEF RecordInv
<1> QED
  BY <1>1, <1>2, <1>3, PTL DEF Spec

-----------------------------------------------------------------------------
(* Pins: the counters *)

\* The thread neither takes nor returns a pin.
KeepsPin(t) == /\ HasPin(call'[t]) <=> HasPin(call[t])
               /\ HasPin(call[t]) => call'[t].key = call[t].key

\* The rows of readers keep their readers.
PinRowsKept ==
  \A k \in Keys : Pinned(k, NVMe) =>
    /\ Active(k, NVMe)' /\ blocks'[k][NVMe].epoch = ownerEpoch'
    /\ blocks'[k][NVMe].inFlight = blocks[k][NVMe].inFlight

LEMMA PinnersFinite ==
  ASSUME NEW k
  PROVE  /\ IsFiniteSet(Pinners(k)) /\ Cardinality(Pinners(k)) \in Nat
         /\ Pinners(k) # {} => Cardinality(Pinners(k)) # 0
<1>1. Pinners(k) \in SUBSET Threads
  BY Zenon DEF Pinners
<1>2. IsFiniteSet(Pinners(k))
  BY <1>1, FS_Subset, Zenon
<1>3. PICK S : S = Pinners(k)
  BY Zenon
<1>4. Cardinality(S) \in Nat /\ (S # {} => Cardinality(S) # 0)
  BY <1>2, <1>3, FS_CardinalityType, FS_EmptySet, Zenon
<1> QED
  BY <1>2, <1>3, <1>4, Zenon

\* A pin is counted: nobody withdraws the row.
LEMMA PinnersPin ==
  ASSUME RecordInv, PinsCounted, NEW k \in Keys, Pinners(k) # {}
  PROVE  Pinned(k, NVMe) /\ blocks[k][NVMe].inFlight \in Nat
<1>1. /\ Active(k, NVMe) /\ blocks[k][NVMe].epoch = ownerEpoch
      /\ blocks[k][NVMe].inFlight >= Cardinality(Pinners(k))
  BY Zenon DEF PinsCounted
<1>2. Cardinality(Pinners(k)) \in Nat /\ Cardinality(Pinners(k)) # 0
  BY PinnersFinite, Zenon
<1>3. blocks[k][NVMe].inFlight \in Nat
  BY <1>1, ActiveRow, Zenon DEF RecordInv, SegmentType
<1>4. blocks[k][NVMe].inFlight > 0
  BY <1>1, <1>2, <1>3
<1> QED
  BY <1>1, <1>3, <1>4, Zenon DEF Pinned

LEMMA PinnersSame ==
  ASSUME NEW t \in Threads, OthersWait(t), KeepsPin(t)
  PROVE  \A k : Pinners(k)' = Pinners(k)
<1>1. \A u \in Threads : /\ HasPin(call'[u]) <=> HasPin(call[u])
                         /\ HasPin(call[u]) => call'[u].key = call[u].key
  BY Zenon DEF OthersWait, KeepsPin
<1> QED
  BY <1>1, Zenon DEF Pinners, HasPin

LEMMA CountedKept ==
  ASSUME RecordInv, PinsCounted, NEW t \in Threads, OthersWait(t), KeepsPin(t), PinRowsKept
  PROVE  PinsCounted'
<1> SUFFICES ASSUME NEW k \in Keys, Pinners(k)' # {}
             PROVE  /\ Active(k, NVMe)' /\ blocks'[k][NVMe].epoch = ownerEpoch'
                    /\ blocks'[k][NVMe].inFlight >= Cardinality(Pinners(k)')
  BY Zenon DEF PinsCounted
<1>1. Pinners(k)' = Pinners(k)
  BY PinnersSame, Zenon
<1>2. Pinned(k, NVMe)
  BY <1>1, PinnersPin, Zenon
<1>3. blocks[k][NVMe].inFlight >= Cardinality(Pinners(k))
  BY <1>1, Zenon DEF PinsCounted
<1> QED
  BY <1>1, <1>2, <1>3, Zenon DEF PinRowsKept

LEMMA CountedAcquire ==
  ASSUME RecordInv, PinsCounted, NEW t \in Threads, OthersWait(t), NEW k \in Keys,
         ~HasPin(call[t]), HasPin(call'[t]), call'[t].key = k, Acquire(k, NVMe)
  PROVE  PinsCounted'
<1>1. /\ OthersKept(k, NVMe) /\ UNCHANGED <<ownerEpoch, open>> /\ RowKept(k) /\ Active(k, NVMe)
      /\ blocks'[k][NVMe].inFlight = KeptInFlight(k, NVMe) + 1
      /\ blocks'[k][NVMe].epoch = ownerEpoch
  BY AcquireRow, Zenon DEF RecordInv, SegmentType
<1>2. ASSUME NEW j \in Keys, j # k, Pinners(j)' # {}
      PROVE  /\ Active(j, NVMe)' /\ blocks'[j][NVMe].epoch = ownerEpoch'
             /\ blocks'[j][NVMe].inFlight >= Cardinality(Pinners(j)')
  <2>1. Pinners(j)' = Pinners(j)
    BY <1>2, Zenon DEF Pinners, HasPin, OthersWait
  <2>2. blocks'[j][NVMe] = blocks[j][NVMe]
    BY <1>1, <1>2, Zenon DEF OthersKept
  <2>3. /\ Active(j, NVMe) /\ blocks[j][NVMe].epoch = ownerEpoch
        /\ blocks[j][NVMe].inFlight >= Cardinality(Pinners(j))
    BY <1>2, <2>1, Zenon DEF PinsCounted
  <2> QED
    BY <1>1, <2>1, <2>2, <2>3, Zenon DEF Active
<1>3. /\ Active(k, NVMe)' /\ blocks'[k][NVMe].epoch = ownerEpoch'
      /\ blocks'[k][NVMe].inFlight >= Cardinality(Pinners(k)')
  <2>1. Pinners(k)' = Pinners(k) \cup {t} /\ t \notin Pinners(k)
    <3>1. t \notin Pinners(k)
      BY Zenon DEF Pinners
    <3>2. \A u \in Threads : HasPin(call'[u]) /\ call'[u].key = k <=> u \in Pinners(k) \cup {t}
      BY Zenon DEF Pinners, OthersWait
    <3>3. Pinners(k)' = {u \in Threads : HasPin(call'[u]) /\ call'[u].key = k}
      BY Zenon DEF Pinners, HasPin
    <3>4. Pinners(k) \cup {t} \in SUBSET Threads
      BY Zenon DEF Pinners
    <3> QED
      BY <3>1, <3>2, <3>3, <3>4, Zenon
  <2>2. Cardinality(Pinners(k)') = Cardinality(Pinners(k)) + 1
    <3>1. PICK S : S = Pinners(k)
      BY Zenon
    <3>2. Cardinality(S \cup {t}) = Cardinality(S) + 1
      BY <2>1, <3>1, PinnersFinite, FS_AddElement, Zenon
    <3> QED
      BY <2>1, <3>1, <3>2, Zenon
  <2>3. KeptInFlight(k, NVMe) >= Cardinality(Pinners(k)) /\ KeptInFlight(k, NVMe) \in Nat
    <3>1. blocks[k][NVMe].inFlight \in Nat /\ Cardinality(Pinners(k)) \in Nat
      BY <1>1, ActiveRow, PinnersFinite, Zenon DEF RecordInv, SegmentType
    <3>2. CASE Pinners(k) = {}
      <4>1. Cardinality(Pinners(k)) = 0
        BY <3>2, FS_EmptySet, Zenon
      <4> QED
        BY <3>1, <4>1 DEF KeptInFlight
    <3>3. CASE Pinners(k) # {}
      <4>1. KeptInFlight(k, NVMe) = blocks[k][NVMe].inFlight
        BY <3>3, Zenon DEF PinsCounted, KeptInFlight, Active
      <4> QED
        BY <3>1, <3>3, <4>1, Zenon DEF PinsCounted
    <3> QED
      BY <3>2, <3>3, Zenon
  <2>4. blocks'[k][NVMe].inFlight >= Cardinality(Pinners(k)')
    <3>1. Cardinality(Pinners(k)) \in Nat
      BY PinnersFinite, Zenon
    <3>2. ASSUME NEW m \in Nat, NEW n \in Nat, m >= n PROVE m + 1 >= n + 1
      BY <3>2
    <3> QED
      BY <1>1, <2>2, <2>3, <3>1, <3>2, Zenon
  <2> QED
    BY <1>1, <2>4, Zenon DEF RowKept
<1> QED
  BY <1>2, <1>3, Zenon DEF PinsCounted

LEMMA CountedRelease ==
  ASSUME RecordInv, PinsCounted, NEW t \in Threads, OthersWait(t), NEW k \in Keys,
         HasPin(call[t]), call[t].key = k, ~HasPin(call'[t]), Release(k, NVMe)
  PROVE  PinsCounted'
<1>1. /\ t \in Pinners(k) /\ Active(k, NVMe) /\ blocks[k][NVMe].epoch = ownerEpoch
      /\ blocks[k][NVMe].inFlight >= Cardinality(Pinners(k))
  <2>1. t \in Pinners(k)
    BY Zenon DEF Pinners
  <2> QED
    BY <2>1, Zenon DEF PinsCounted
<1>2. /\ OthersKept(k, NVMe) /\ UNCHANGED <<ownerEpoch, open>> /\ RowKept(k)
      /\ blocks'[k][NVMe].inFlight = IF blocks[k][NVMe].inFlight = 0 THEN 0
                                     ELSE blocks[k][NVMe].inFlight - 1
      /\ blocks'[k][NVMe].epoch = ownerEpoch
  BY <1>1, ReleaseRow, Zenon DEF RecordInv, SegmentType
<1>3. ASSUME NEW j \in Keys, j # k, Pinners(j)' # {}
      PROVE  /\ Active(j, NVMe)' /\ blocks'[j][NVMe].epoch = ownerEpoch'
             /\ blocks'[j][NVMe].inFlight >= Cardinality(Pinners(j)')
  <2>1. Pinners(j)' = Pinners(j)
    BY <1>3, Zenon DEF Pinners, HasPin, OthersWait
  <2>2. blocks'[j][NVMe] = blocks[j][NVMe]
    BY <1>2, <1>3, Zenon DEF OthersKept
  <2>3. /\ Active(j, NVMe) /\ blocks[j][NVMe].epoch = ownerEpoch
        /\ blocks[j][NVMe].inFlight >= Cardinality(Pinners(j))
    BY <1>3, <2>1, Zenon DEF PinsCounted
  <2> QED
    BY <1>2, <2>1, <2>2, <2>3, Zenon DEF Active
<1>4. /\ Active(k, NVMe)' /\ blocks'[k][NVMe].epoch = ownerEpoch'
      /\ blocks'[k][NVMe].inFlight >= Cardinality(Pinners(k)')
  <2>1. Pinners(k)' = Pinners(k) \ {t}
    BY Zenon DEF Pinners, HasPin, OthersWait
  <2>2. Cardinality(Pinners(k)') = Cardinality(Pinners(k)) - 1
    <3>1. IsFiniteSet(Pinners(k))
      BY PinnersFinite, Zenon
    <3>2. ASSUME NEW S, NEW x \in S, IsFiniteSet(S)
          PROVE  Cardinality(S \ {x}) = Cardinality(S) - 1
      BY <3>2, FS_RemoveElement
    <3> QED
      BY <1>1, <2>1, <3>1, <3>2, Zenon
  <2>3. /\ blocks[k][NVMe].inFlight \in Nat /\ Cardinality(Pinners(k)) \in Nat
        /\ Cardinality(Pinners(k)) # 0
    BY <1>1, ActiveRow, PinnersFinite, Zenon DEF RecordInv, SegmentType
  <2>4. ASSUME NEW m \in Nat, NEW n \in Nat, m >= n, n # 0
        PROVE  m # 0 /\ m - 1 >= n - 1
    BY <2>4
  <2>5. blocks'[k][NVMe].inFlight >= Cardinality(Pinners(k)')
    BY <1>1, <1>2, <2>2, <2>3, <2>4, Zenon
  <2> QED
    BY <1>1, <1>2, <2>5, Zenon DEF RowKept
<1> QED
  BY <1>3, <1>4, Zenon DEF PinsCounted

-----------------------------------------------------------------------------
(* Pins: the steps *)

\* Rows that stay, or that are withdrawn.
QuietTable ==
  \/ UNCHANGED mdVars
  \/ \E k \in Keys : Delete(k, NVMe) \/ FinishDelete(k, NVMe) \/ BeginDelete(k, NVMe)

LEMMA QuietRows ==
  ASSUME RecordInv, QuietTable
  PROVE  RowsStay /\ PinRowsKept
<1>1. CASE UNCHANGED mdVars
  BY <1>1, Zenon DEF mdVars, RowsStay, PinRowsKept, Active, Pinned
<1>2. ASSUME NEW k \in Keys, Delete(k, NVMe) \/ FinishDelete(k, NVMe) \/ BeginDelete(k, NVMe)
      PROVE  RowsStay /\ PinRowsKept
  <2>1. /\ OthersKept(k, NVMe) /\ UNCHANGED <<ownerEpoch, open>> /\ RowsStay /\ ~Pinned(k, NVMe)
    BY <1>2, WithdrawnRow, Zenon DEF RecordInv, SegmentType
  <2>2. ASSUME NEW j \in Keys, Pinned(j, NVMe)
        PROVE  /\ Active(j, NVMe)' /\ blocks'[j][NVMe].epoch = ownerEpoch'
               /\ blocks'[j][NVMe].inFlight = blocks[j][NVMe].inFlight
    <3>1. j # k
      BY <2>1, <2>2, Zenon
    <3>2. blocks'[j][NVMe] = blocks[j][NVMe]
      BY <2>1, <3>1, Zenon DEF OthersKept
    <3> QED
      BY <2>1, <2>2, <3>2, Zenon DEF Pinned, Active
  <2> QED
    BY <2>1, <2>2, Zenon DEF PinRowsKept
<1> QED
  BY <1>1, <1>2, Zenon DEF QuietTable

\* What a step has to show for the pins.
LEMMA PinStep ==
  ASSUME RecordInv, PinInv, NEW t \in Threads, OthersWait(t), PinsCounted', faults' = faults,
         RowsStay \/ mutation = t,
         faults = 0 => /\ ReadsItsRow(t)' /\ StoresTheMissing(t)'
                       /\ \A u \in Threads \ {t} : Reading(call[u]) =>
                            /\ blocks'[call[u].key][NVMe].uri = blocks[call[u].key][NVMe].uri
                            /\ blocks'[call[u].key][NVMe].desc = blocks[call[u].key][NVMe].desc,
         \A u \in Threads \ {t} : /\ Reading(call[u]) => call[u].key \notin Moves(call'[t])
                                  /\ Reading(call'[t]) => call'[t].key \notin Moves(call[u]),
         Reading(call'[t]) => call'[t].key \notin Moves(call'[t])
  PROVE  PinInv'
<1>1. ASSUME faults = 0, NEW u \in Threads \ {t}
      PROVE  ReadsItsRow(u)' /\ StoresTheMissing(u)'
  <2>1. call'[u] = call[u] /\ ReadsItsRow(u) /\ StoresTheMissing(u) /\ Prepared(call[u])
    BY <1>1, Zenon DEF OthersWait, PinInv, RecordInv
  <2>2. ReadsItsRow(u)'
    BY <1>1, <2>1, Zenon DEF ReadsItsRow, Reading
  <2>3. CASE RowsStay
    <3>1. call[u].pc \in {"append", "commit"} => call[u].key \in Keys
      BY <2>1, Zenon DEF Prepared
    <3>2. StoresTheMissing(u)'
      BY <2>1, <2>3, <3>1, Zenon DEF StoresTheMissing, RowsStay
    <3> QED
      BY <2>2, <3>2, Zenon
  <2>4. CASE mutation = t
    <3>1. call[u].pc \notin {"append", "commit"}
      BY <1>1, <2>4, Zenon DEF RecordInv, LockHeld, UnderLock
    <3> QED
      BY <2>1, <2>2, <3>1, Zenon DEF StoresTheMissing
  <2> QED
    BY <2>3, <2>4, Zenon
<1>2. MovesTheUnread'
  <2> SUFFICES ASSUME NEW a \in Threads, NEW u \in Threads, Reading(call'[u])
               PROVE  call'[u].key \notin Moves(call'[a])
    BY Zenon DEF MovesTheUnread, Reading, Moves
  <2>1. CASE a # t /\ u # t
    <3>1. call'[a] = call[a] /\ call'[u] = call[u]
      BY <2>1, Zenon DEF OthersWait
    <3> QED
      BY <3>1, Zenon DEF PinInv, MovesTheUnread
  <2>2. CASE a = t /\ u # t
    BY <2>2, Zenon DEF OthersWait
  <2>3. CASE a # t /\ u = t
    BY <2>3, Zenon DEF OthersWait
  <2>4. CASE a = t /\ u = t
    BY <2>4, Zenon
  <2> QED
    BY <2>1, <2>2, <2>3, <2>4, Zenon
<1>3. faults' = 0 => \A u \in Threads : ReadsItsRow(u)' /\ StoresTheMissing(u)'
  BY <1>1, Zenon
<1> QED
  BY <1>2, <1>3, Zenon DEF PinInv

\* A step that keeps the rows, and that moves and reads no more than before.
LEMMA QuietPins ==
  ASSUME RecordInv, PinInv, NEW t \in Threads, OthersWait(t), PinsCounted', faults' = faults,
         RowsStay, faults = 0 => StoresTheMissing(t)',
         Reading(call'[t]) => /\ Reading(call[t]) /\ call'[t].key = call[t].key
                              /\ call'[t].loc = call[t].loc /\ call'[t].want = call[t].want,
         Moves(call'[t]) \subseteq Moves(call[t])
  PROVE  PinInv'
<1>1. ASSUME NEW u \in Threads, Reading(call[u]), Reading(call'[u]), call'[u].key = call[u].key
      PROVE  /\ blocks'[call[u].key][NVMe].uri = blocks[call[u].key][NVMe].uri
             /\ blocks'[call[u].key][NVMe].desc = blocks[call[u].key][NVMe].desc
  <2>1. call[u].key \in Keys
    BY <1>1, Zenon DEF RecordInv, Prepared, Reading
  <2>2. PICK k \in Keys : k = call[u].key
    BY <2>1, Zenon
  <2>3. u \in Pinners(k)'
    BY <1>1, <2>2, Zenon DEF Pinners, HasPin, Reading
  <2>4. Active(k, NVMe)'
    BY <2>3, Zenon DEF PinsCounted
  <2> QED
    BY <2>2, <2>4, Zenon DEF RowsStay
<1>2. ASSUME faults = 0 PROVE ReadsItsRow(t)'
  <2>1. ReadsItsRow(t)
    BY <1>2, Zenon DEF PinInv
  <2> QED
    BY <1>1, <2>1, Zenon DEF ReadsItsRow, Reading
<1>3. ASSUME NEW u \in Threads \ {t}, Reading(call[u])
      PROVE  /\ blocks'[call[u].key][NVMe].uri = blocks[call[u].key][NVMe].uri
             /\ blocks'[call[u].key][NVMe].desc = blocks[call[u].key][NVMe].desc
  <2>1. call'[u] = call[u]
    BY Zenon DEF OthersWait
  <2> QED
    BY <1>1, <1>3, <2>1, Zenon
<1>4. \A u \in Threads : /\ Reading(call[u]) => call[u].key \notin Moves(call'[t])
                         /\ Reading(call'[t]) => call'[t].key \notin Moves(call[u])
  BY Zenon DEF PinInv, MovesTheUnread
<1>5. Reading(call'[t]) => call'[t].key \notin Moves(call'[t])
  BY <1>4, Zenon
<1> QED
  BY <1>2, <1>3, <1>4, <1>5, PinStep, Zenon

\* A step of a thread without a pin that withdraws a row or none.
LEMMA UnpinnedStep ==
  ASSUME RecordInv, PinInv, NEW t \in Threads, OthersWait(t), QuietTable, faults' = faults,
         ~HasPin(call[t]), ~HasPin(call'[t]), call'[t].todo = {},
         call'[t].pc \in {"append", "commit"} => (faults = 0 => StoresTheMissing(t)')
  PROVE  PinInv'
<1>1. RowsStay /\ PinRowsKept
  BY QuietRows, Zenon
<1>2. PinsCounted'
  BY <1>1, CountedKept, Zenon DEF PinInv, KeepsPin
<1>3. faults = 0 => StoresTheMissing(t)'
  BY Zenon DEF StoresTheMissing
<1>4. ~Reading(call'[t]) /\ Moves(call'[t]) \subseteq Moves(call[t])
  BY Zenon DEF HasPin, Reading, Moves
<1> QED
  BY <1>1, <1>2, <1>3, <1>4, QuietPins, Zenon

\* A thread without a pin returns.
LEMMA UnpinnedReturn ==
  ASSUME RecordInv, PinInv, NEW t \in Threads, Return(t), QuietTable, faults' = faults,
         ~HasPin(call[t])
  PROVE  PinInv'
<1>1. OthersWait(t) /\ call'[t] = Idle
  BY StepFacts, ReturnFacts, Zenon
<1>2. ~HasPin(call'[t]) /\ call'[t].todo = {} /\ call'[t].pc \notin {"append", "commit"}
  BY <1>1, IdleIsCall, Zenon DEF HasPin
<1> QED
  BY <1>1, <1>2, UnpinnedStep, Zenon

\* A thread without a pin goes on.
LEMMA UnpinnedGo ==
  ASSUME RecordInv, PinInv, NEW t \in Threads, NEW pc \in {"stale", "acquire", "finish"},
         Go(t, pc), QuietTable, faults' = faults, ~HasPin(call[t]), call[t].todo = {}
  PROVE  PinInv'
<1>1. pc \in PCs
  BY Zenon DEF PCs
<1>2. OthersWait(t) /\ call'[t].pc = pc /\ call'[t].todo = {}
  BY <1>1, StepFacts, GoFacts, Zenon
<1>3. ~HasPin(call'[t]) /\ call'[t].pc \notin {"append", "commit"}
  BY <1>2, Zenon DEF HasPin
<1> QED
  BY <1>2, <1>3, UnpinnedStep, Zenon

LEMMA LoadCallPins ==
  ASSUME RecordInv, PinInv, NEW t \in Threads, NEW k \in Keys, LoadCall(t, k)
  PROVE  PinInv'
<1>1. PICK loc \in Uris : loc = blocks[k][NVMe].uri
  BY StepFacts, ActiveRow, Zenon DEF LoadCall
<1>2. /\ call[t].pc = "idle" /\ UNCHANGED <<mdVars, faults>>
      /\ call' = [call EXCEPT ![t] = Called("exists", "load", k, None, loc, {}, {})]
  BY <1>1, LoadForm, Zenon DEF LoadCall, At
<1>3. PICK c : c = Called("exists", "load", k, None, loc, {}, {})
  BY Zenon
<1>4. c \in CallRecords /\ c.pc = "exists" /\ c.todo = {}
  BY <1>3, NewLoad, Zenon
<1>5. OthersWait(t) /\ call'[t] = c
  BY <1>2, <1>3, <1>4, StepFacts, ReplaceFacts, Zenon
<1>6. ~HasPin(call[t]) /\ ~HasPin(call'[t]) /\ call'[t].pc \notin {"append", "commit"}
  BY <1>2, <1>4, <1>5, Zenon DEF HasPin
<1> QED
  BY <1>2, <1>4, <1>5, <1>6, UnpinnedStep, Zenon DEF QuietTable

LEMMA EvictCallPins ==
  ASSUME RecordInv, PinInv, NEW t \in Threads, NEW k \in Keys, EvictCall(t, k)
  PROVE  PinInv'
<1>1. /\ call[t].pc = "idle" /\ UNCHANGED <<mdVars, faults>>
      /\ call' = [call EXCEPT ![t] = Called("begin", "evict", k, None, None, {}, {})]
  BY EvictForm, Zenon DEF EvictCall, At
<1>2. PICK c : c = Called("begin", "evict", k, None, None, {}, {})
  BY Zenon
<1>3. c \in CallRecords /\ c.pc = "begin" /\ c.todo = {}
  BY <1>2, NewEvict, Zenon
<1>4. OthersWait(t) /\ call'[t] = c
  BY <1>1, <1>2, <1>3, StepFacts, ReplaceFacts, Zenon
<1>5. ~HasPin(call[t]) /\ ~HasPin(call'[t]) /\ call'[t].pc \notin {"append", "commit"}
  BY <1>1, <1>3, <1>4, Zenon DEF HasPin
<1> QED
  BY <1>1, <1>3, <1>4, <1>5, UnpinnedStep, Zenon DEF QuietTable

\* As long as no file was lost, a store that finds no record finds no row.
LEMMA StoreCallPins ==
  ASSUME RecordInv, PinInv, NEW t \in Threads, NEW k \in Keys, NEW d \in Descriptors,
         StoreCall(t, k, d)
  PROVE  PinInv'
<1>1. /\ UNCHANGED <<hit, faults>> /\ (UNCHANGED mdVars \/ Delete(k, NVMe)) /\ OthersWait(t)
      /\ call[t].pc = "idle" /\ call'[t].pc \in {"exists", "append"} /\ call'[t].todo = {}
      /\ call'[t].pc = "append" => call'[t].key = k /\ ~Located(k)
  BY StoreCallForm, Zenon
<1>2. QuietTable
  BY <1>1, Zenon DEF QuietTable
<1>3. ASSUME call'[t].pc = "append", faults = 0 PROVE StoresTheMissing(t)'
  <2>1. k \notin hit
    BY <1>3, Zenon DEF RecordInv, NothingLost
  <2>2. ~Active(k, NVMe)
    BY <1>1, <1>3, <2>1, IntactIsThere, Zenon DEF Located
  <2>3. ~Active(k, NVMe)'
    BY <1>2, <2>2, QuietRows, Zenon DEF RowsStay
  <2> QED
    BY <1>1, <1>3, <2>3, Zenon DEF StoresTheMissing, Active
<1>4. ~HasPin(call[t]) /\ ~HasPin(call'[t]) /\ call'[t].pc # "commit"
  BY <1>1, Zenon DEF HasPin
<1> QED
  BY <1>1, <1>2, <1>3, <1>4, UnpinnedStep, Zenon

\* A compaction lists what nobody has pinned.
LEMMA CompactCallPins ==
  ASSUME RecordInv, PinInv, NEW t \in Threads, CompactCall(t)
  PROVE  PinInv'
<1>1. /\ mutation = None /\ UNCHANGED <<mdVars, faults>> /\ OthersWait(t)
      /\ call[t].pc = "idle" /\ call'[t].pc = "pin"
      /\ \A e \in call'[t].todo : e.key \in LruCandidates(NVMe)
  BY CompactCallForm, Zenon
<1>2. QuietTable /\ RowsStay /\ PinRowsKept
  BY <1>1, QuietRows, Zenon DEF QuietTable
<1>3. PinsCounted'
  BY <1>1, <1>2, CountedKept, Zenon DEF PinInv, KeepsPin, HasPin
<1>4. ASSUME NEW u \in Threads, Reading(call[u])
      PROVE  /\ call[u].key \notin Moves(call'[t])
             /\ blocks'[call[u].key][NVMe].uri = blocks[call[u].key][NVMe].uri
             /\ blocks'[call[u].key][NVMe].desc = blocks[call[u].key][NVMe].desc
  <2>1. PICK k \in Keys : k = call[u].key
    BY <1>4, Zenon DEF RecordInv, Prepared, Reading
  <2>2. u \in Pinners(k)
    BY <1>4, <2>1, Zenon DEF Pinners, HasPin, Reading
  <2>3. Pinned(k, NVMe)
    BY <2>2, PinnersPin, Zenon DEF PinInv
  <2>4. k \notin Moves(call'[t])
    BY <1>1, <2>3, Zenon DEF Moves, LruCandidates
  <2> QED
    BY <1>1, <2>1, <2>4, Zenon DEF mdVars
<1>5. ~Reading(call'[t]) /\ ReadsItsRow(t)' /\ StoresTheMissing(t)'
  BY <1>1, Zenon DEF Reading, ReadsItsRow, StoresTheMissing
<1> QED
  BY <1>1, <1>2, <1>3, <1>4, <1>5, PinStep, Zenon

LEMMA LoadExistsPins ==
  ASSUME RecordInv, PinInv, NEW t \in Threads, LoadExists(t)
  PROVE  PinInv'
<1>1. call[t].pc = "exists" /\ UNCHANGED <<mdVars, faults>> /\ call[t].todo = {}
  BY StepFacts, Zenon DEF LoadExists, At, Prepared
<1>2. PICK pc \in {"stale", "acquire", "finish"} : Go(t, pc)
  BY Zenon DEF LoadExists
<1> QED
  BY <1>1, <1>2, UnpinnedGo, Zenon DEF QuietTable, HasPin

LEMMA LoadStalePins ==
  ASSUME RecordInv, PinInv, NEW t \in Threads, LoadStale(t)
  PROVE  PinInv'
<1>1. /\ call[t].pc = "stale" /\ faults' = faults /\ call[t].todo = {}
      /\ call[t].key \in Keys /\ ~HasPin(call[t])
  BY StepFacts, Zenon DEF LoadStale, At, Prepared, HasPin
<1>2. CASE UNCHANGED mdVars /\ Go(t, "acquire")
  <2>1. PICK pc \in {"stale", "acquire", "finish"} : Go(t, pc)
    BY <1>2, Zenon
  <2> QED
    BY <1>1, <1>2, <2>1, UnpinnedGo, Zenon DEF QuietTable
<1>3. CASE (Delete(call[t].key, NVMe) \/ UNCHANGED mdVars) /\ Return(t)
  BY <1>1, <1>3, UnpinnedReturn, Zenon DEF QuietTable
<1> QED
  BY <1>2, <1>3, Zenon DEF LoadStale

LEMMA EvictBeginPins ==
  ASSUME RecordInv, PinInv, NEW t \in Threads, EvictBegin(t)
  PROVE  PinInv'
<1>1. /\ faults' = faults /\ call[t].todo = {} /\ call[t].key \in Keys /\ ~HasPin(call[t])
  BY StepFacts, Zenon DEF EvictBegin, At, Prepared, HasPin
<1>2. CASE BeginDelete(call[t].key, NVMe) /\ Go(t, "finish")
  <2>1. PICK pc \in {"stale", "acquire", "finish"} : Go(t, pc)
    BY <1>2, Zenon
  <2> QED
    BY <1>1, <1>2, <2>1, UnpinnedGo, Zenon DEF QuietTable
<1>3. CASE UNCHANGED mdVars /\ Return(t)
  BY <1>1, <1>3, UnpinnedReturn, Zenon DEF QuietTable
<1> QED
  BY <1>2, <1>3, Zenon DEF EvictBegin

LEMMA EvictFinishPins ==
  ASSUME RecordInv, PinInv, NEW t \in Threads, EvictFinish(t)
  PROVE  PinInv'
<1>1. /\ faults' = faults /\ call[t].key \in Keys /\ ~HasPin(call[t])
      /\ FinishDelete(call[t].key, NVMe) /\ Return(t)
  BY StepFacts, Zenon DEF EvictFinish, At, Prepared, HasPin
<1> QED
  BY <1>1, UnpinnedReturn, Zenon DEF QuietTable

\* The lock of a compaction keeps new readers out.
LEMMA NothingMoves ==
  ASSUME RecordInv, NEW t \in Threads, MayLock(t), NEW u \in Threads \ {t}
  PROVE  Moves(call[u]) = {}
<1>1. Prepared(call[u]) /\ ~UnderLock(call[u])
  BY Zenon DEF RecordInv, LockHeld, MayLock
<1>2. call[u].todo = {} /\ call[u].pc \notin {"copy", "publish"}
  BY <1>1, Zenon DEF Prepared, UnderLock
<1> QED
  BY <1>2, Zenon DEF Moves

LEMMA LoadAcquirePins ==
  ASSUME RecordInv, PinInv, NEW t \in Threads, LoadAcquire(t)
  PROVE  PinInv'
<1>1. /\ call[t].pc = "acquire" /\ MayLock(t) /\ faults' = faults /\ ~HasPin(call[t])
      /\ call[t].todo = {}
  BY StepFacts, Zenon DEF LoadAcquire, At, HasPin, Prepared
<1>2. PICK k \in Keys : k = call[t].key
  BY <1>1, StepFacts, Zenon DEF Prepared
<1>3. CASE /\ Acquire(k, NVMe)
           /\ call' = [call EXCEPT ![t].pc = "read", ![t].loc = blocks[k][NVMe].uri,
                                   ![t].want = blocks[k][NVMe].desc]
  <2>1. /\ RowsStay /\ Active(k, NVMe) /\ \A j \in Keys : RowKept(j)
    BY <1>3, StepFacts, AcquireRow, OneRowKept, Zenon
  <2>2. PICK loc \in Uris, want \in Descriptors :
          loc = blocks[k][NVMe].uri /\ want = blocks[k][NVMe].desc
    BY <2>1, StepFacts, ActiveRow, Zenon
  <2>3. GoRead(t, loc, want) /\ CallType
    BY <1>3, <2>2, StepFacts, Zenon DEF GoRead
  <2>4. /\ OthersWait(t) /\ call'[t].pc = "read" /\ call'[t].key = call[t].key
        /\ call'[t].todo = call[t].todo /\ call'[t].want = want /\ call'[t].loc = loc
    BY <2>3, AcquiredFacts
  <2>5. PinsCounted'
    BY <1>1, <1>2, <1>3, <2>4, CountedAcquire, Zenon DEF PinInv, HasPin
  <2>6. ReadsItsRow(t)' /\ StoresTheMissing(t)'
    BY <1>2, <2>1, <2>2, <2>4, Zenon DEF ReadsItsRow, StoresTheMissing, RowKept
  <2>7. Moves(call'[t]) = {}
    BY <1>1, <2>4, Zenon DEF Moves
  <2>8. ASSUME NEW u \in Threads \ {t}, Reading(call[u])
        PROVE  /\ blocks'[call[u].key][NVMe].uri = blocks[call[u].key][NVMe].uri
               /\ blocks'[call[u].key][NVMe].desc = blocks[call[u].key][NVMe].desc
    <3>1. PICK j \in Keys : j = call[u].key
      BY <2>8, Zenon DEF RecordInv, Prepared, Reading
    <3>2. u \in Pinners(j)
      BY <2>8, <3>1, Zenon DEF Pinners, HasPin, Reading
    <3>3. Active(j, NVMe)
      BY <3>2, Zenon DEF PinInv, PinsCounted
    <3> QED
      BY <2>1, <3>1, <3>3, Zenon DEF RowKept
  <2>9. \A u \in Threads \ {t} : Moves(call[u]) = {}
    BY <1>1, NothingMoves, Zenon
  <2> QED
    BY <1>1, <2>1, <2>4, <2>5, <2>6, <2>7, <2>8, <2>9, PinStep, Zenon
<1>4. CASE Return(t) /\ UNCHANGED mdVars
  BY <1>1, <1>4, UnpinnedReturn, Zenon DEF QuietTable
<1> QED
  BY <1>2, <1>3, <1>4, Zenon DEF LoadAcquire

LEMMA LoadReadPins ==
  ASSUME RecordInv, PinInv, NEW t \in Threads, LoadRead(t)
  PROVE  PinInv'
<1>1. call[t].pc = "read" /\ UNCHANGED <<mdVars, faults>>
  BY Zenon DEF LoadRead, At
<1>2. PICK v \in Verdicts : GoJudged(t, "release", v)
  BY ReadVerdict, Zenon
<1>3. "release" \in PCs
  BY Zenon DEF PCs
<1>4. /\ OthersWait(t) /\ call'[t].pc = "release" /\ call'[t].key = call[t].key
      /\ call'[t].want = call[t].want /\ call'[t].loc = call[t].loc
      /\ call'[t].todo = call[t].todo
  BY <1>2, <1>3, StepFacts, VerdictFacts, Zenon
<1>5. RowsStay /\ PinRowsKept
  BY <1>1, QuietRows, Zenon DEF QuietTable
<1>6. PinsCounted'
  BY <1>1, <1>4, <1>5, CountedKept, Zenon DEF PinInv, KeepsPin, HasPin
<1>7. /\ StoresTheMissing(t)' /\ Reading(call[t])
      /\ Moves(call'[t]) \subseteq Moves(call[t])
  BY <1>1, <1>4, Zenon DEF StoresTheMissing, Reading, Moves
<1> QED
  BY <1>1, <1>4, <1>5, <1>6, <1>7, QuietPins, Zenon

LEMMA LoadReleasePins ==
  ASSUME RecordInv, PinInv, NEW t \in Threads, LoadRelease(t)
  PROVE  PinInv'
<1>1. call[t].pc = "release" /\ faults' = faults /\ Release(call[t].key, NVMe)
  BY Zenon DEF LoadRelease, At
<1>2. PICK k \in Keys : k = call[t].key
  BY <1>1, StepFacts, Zenon DEF Prepared
<1>3. RowsStay
  BY <1>1, <1>2, StepFacts, ReleaseRow, OneRowKept, Zenon
<1>4. ASSUME OthersWait(t), ~HasPin(call'[t]), call'[t].todo \subseteq call[t].todo,
             faults = 0 => StoresTheMissing(t)'
      PROVE  PinInv'
  <2>1. PinsCounted'
    BY <1>1, <1>2, <1>4, CountedRelease, Zenon DEF PinInv, HasPin
  <2>2. ~Reading(call'[t]) /\ Moves(call'[t]) \subseteq Moves(call[t])
    BY <1>4, Zenon DEF HasPin, Reading, Moves
  <2> QED
    BY <1>1, <1>3, <1>4, <2>1, <2>2, QuietPins, Zenon
<1>5. ASSUME NEW pc \in {"begin", "commit"}, Go(t, pc) PROVE PinInv'
  <2>1. pc \in PCs
    BY Zenon DEF PCs
  <2>2. /\ OthersWait(t) /\ call'[t].pc = pc /\ call'[t].key = call[t].key
        /\ call'[t].loc = call[t].loc /\ call'[t].todo = call[t].todo
    BY <1>5, <2>1, StepFacts, GoFacts, Zenon
  <2>3. ASSUME faults = 0 PROVE StoresTheMissing(t)'
    <3>1. blocks[k][NVMe].uri = call[t].loc
      BY <1>1, <1>2, <2>3, Zenon DEF PinInv, ReadsItsRow, Reading
    <3>2. Active(k, NVMe)' => blocks'[k][NVMe].uri = call[t].loc
      BY <1>3, <3>1, Zenon DEF RowsStay
    <3> QED
      BY <1>2, <2>2, <3>2, Zenon DEF StoresTheMissing, Active
  <2> QED
    BY <1>4, <2>2, <2>3, Zenon DEF HasPin
<1>6. CASE Return(t)
  <2>1. OthersWait(t) /\ call'[t] = Idle
    BY <1>6, StepFacts, ReturnFacts, Zenon
  <2> QED
    BY <1>4, <2>1, IdleIsCall, Zenon DEF HasPin, StoresTheMissing
<1> QED
  BY <1>5, <1>6, Zenon DEF LoadRelease

LEMMA StoreAppendPins ==
  ASSUME RecordInv, PinInv, NEW t \in Threads, StoreAppend(t)
  PROVE  PinInv'
<1>1. /\ open /\ call[t].pc = "append" /\ UNCHANGED <<mdVars, compactions, hit, faults>>
      /\ call[t].todo = {} /\ ~HasPin(call[t]) /\ call[t].key \in Keys
  BY StepFacts, Zenon DEF StoreAppend, At, Prepared, HasPin
<1>2. PICK path \in Nat \X Nat : path = PathForAppend(0)
  BY StepFacts, PathFacts
<1>3. CASE Return(t)
  BY <1>1, <1>3, UnpinnedReturn, Zenon DEF QuietTable
<1>4. CASE /\ segs' = Appended(path, RecordOf(call[t].key, call[t].val))
           /\ GoWith(t, "commit", EndOf(path)) /\ UNCHANGED mutation
  <2>1. /\ OthersWait(t) /\ call'[t].pc = "commit" /\ call'[t].key = call[t].key
        /\ call'[t].todo = {}
    BY <1>1, <1>4, WrittenKeeps, Zenon
  <2>2. ASSUME faults = 0 PROVE StoresTheMissing(t)'
    <3>1. ~Active(call[t].key, NVMe)
      BY <1>1, <2>2, Zenon DEF PinInv, StoresTheMissing
    <3> QED
      BY <1>1, <2>1, <3>1, Zenon DEF StoresTheMissing, Active, mdVars
  <2> QED
    BY <1>1, <2>1, <2>2, UnpinnedStep, Zenon DEF HasPin, QuietTable
<1> QED
  BY <1>2, <1>3, <1>4, Zenon DEF StoreAppend, GoWith

\* A row that is published again keeps its readers.
LEMMA PublishedPins ==
  ASSUME RecordInv, NEW t \in Threads, call[t].pc \in {"commit", "publish"},
         Upsert(call[t].key, NVMe, call[t].val, call[t].loc)
  PROVE  /\ call[t].key \in Keys /\ PinRowsKept /\ OthersKept(call[t].key, NVMe)
         /\ blocks'[call[t].key][NVMe].uri = call[t].loc
         /\ Active(call[t].key, NVMe)
              => blocks'[call[t].key][NVMe].desc = blocks[call[t].key][NVMe].desc
<1>1. PICK k \in Keys, d \in Descriptors, loc \in Uris :
        k = call[t].key /\ d = call[t].val /\ loc = call[t].loc
  BY Zenon DEF RecordInv, Prepared
<1>2. Upsert(k, NVMe, d, loc) /\ blocks \in Table /\ ownerEpoch \in Nat
  BY <1>1, Zenon DEF RecordInv, SegmentType
<1>3. /\ OthersKept(k, NVMe) /\ UNCHANGED <<ownerEpoch, open>> /\ Active(k, NVMe)'
      /\ blocks'[k][NVMe].uri = loc /\ blocks'[k][NVMe].desc = d
      /\ blocks'[k][NVMe].inFlight = KeptInFlight(k, NVMe)
      /\ blocks'[k][NVMe].epoch = ownerEpoch
      /\ Active(k, NVMe) => blocks[k][NVMe].desc = d
  BY <1>2, UpsertRow
<1>4. ASSUME NEW j \in Keys, Pinned(j, NVMe)
      PROVE  /\ Active(j, NVMe)' /\ blocks'[j][NVMe].epoch = ownerEpoch'
             /\ blocks'[j][NVMe].inFlight = blocks[j][NVMe].inFlight
  <2>1. CASE j = k
    BY <1>3, <1>4, <2>1, Zenon DEF KeptInFlight, Pinned, Active
  <2>2. CASE j # k
    <3>1. blocks'[j][NVMe] = blocks[j][NVMe]
      BY <1>3, <2>2, Zenon DEF OthersKept
    <3> QED
      BY <1>3, <1>4, <3>1, Zenon DEF Pinned, Active
  <2> QED
    BY <2>1, <2>2, Zenon
<1> QED
  BY <1>1, <1>3, <1>4, Zenon DEF PinRowsKept

\* A row that is read is published again only where it points.
LEMMA StoreCommitPins ==
  ASSUME RecordInv, PinInv, NEW t \in Threads, StoreCommit(t)
  PROVE  PinInv'
<1>1. /\ call[t].pc = "commit" /\ faults' = faults /\ Return(t) /\ ~HasPin(call[t])
      /\ mutation = t
  BY StepFacts, Zenon DEF StoreCommit, At, HasPin, UnderLock
<1>2. CASE UNCHANGED mdVars
  BY <1>1, <1>2, UnpinnedReturn, Zenon DEF QuietTable
<1>3. CASE Upsert(call[t].key, NVMe, call[t].val, call[t].loc)
  <2>1. PICK k \in Keys : k = call[t].key
    BY <1>1, StepFacts, Zenon DEF Prepared
  <2>2. /\ PinRowsKept /\ OthersKept(k, NVMe) /\ blocks'[k][NVMe].uri = call[t].loc
        /\ Active(k, NVMe) => blocks'[k][NVMe].desc = blocks[k][NVMe].desc
    BY <1>1, <1>3, <2>1, PublishedPins, Zenon
  <2>3. OthersWait(t) /\ call'[t] = Idle
    BY <1>1, StepFacts, ReturnFacts, Zenon
  <2>4. /\ ~HasPin(call'[t]) /\ ~Reading(call'[t]) /\ Moves(call'[t]) = {}
        /\ ReadsItsRow(t)' /\ StoresTheMissing(t)'
    BY <2>3, IdleIsCall, Zenon DEF HasPin, Reading, Moves, ReadsItsRow, StoresTheMissing
  <2>5. PinsCounted'
    BY <1>1, <2>2, <2>3, <2>4, CountedKept, Zenon DEF PinInv, KeepsPin
  <2>6. ASSUME faults = 0, NEW u \in Threads \ {t}, Reading(call[u])
        PROVE  /\ blocks'[call[u].key][NVMe].uri = blocks[call[u].key][NVMe].uri
               /\ blocks'[call[u].key][NVMe].desc = blocks[call[u].key][NVMe].desc
    <3>1. PICK j \in Keys : j = call[u].key
      BY <2>6, Zenon DEF RecordInv, Prepared, Reading
    <3>2. CASE j # k
      BY <2>2, <3>1, <3>2, Zenon DEF OthersKept
    <3>3. CASE j = k
      <4>1. u \in Pinners(k)
        BY <2>6, <3>1, <3>3, Zenon DEF Pinners, HasPin, Reading
      <4>2. Active(k, NVMe)
        BY <4>1, Zenon DEF PinInv, PinsCounted
      <4>3. blocks[k][NVMe].uri = call[t].loc
        BY <1>1, <2>1, <2>6, <4>2, Zenon DEF PinInv, StoresTheMissing
      <4> QED
        BY <2>2, <3>1, <3>3, <4>2, <4>3, Zenon
    <3> QED
      BY <3>2, <3>3, Zenon
  <2> QED
    BY <1>1, <2>3, <2>4, <2>5, <2>6, PinStep, Zenon
<1> QED
  BY <1>2, <1>3, Zenon DEF StoreCommit

LEMMA CompactPinPins ==
  ASSUME RecordInv, PinInv, NEW t \in Threads, CompactPin(t)
  PROVE  PinInv'
<1>1. /\ call[t].pc = "pin" /\ faults' = faults /\ OthersWait(t) /\ ~HasPin(call[t])
  BY CompactPinForm, Zenon DEF HasPin
<1>2. CASE UNCHANGED mdVars /\ call'[t].pc = "sweep" /\ call'[t].todo = {}
  BY <1>1, <1>2, UnpinnedStep, Zenon DEF HasPin, QuietTable
<1>3. CASE /\ call'[t].pc = "copy" /\ call'[t].key \in Keys /\ Acquire(call'[t].key, NVMe)
           /\ call'[t].todo \subseteq call[t].todo
           /\ \E e \in call[t].todo : call'[t].key = e.key
  <2>1. PICK k \in Keys : k = call'[t].key
    BY <1>3, Zenon
  <2>2. RowsStay
    BY <1>3, <2>1, StepFacts, AcquireRow, OneRowKept, Zenon
  <2>3. PinsCounted'
    BY <1>1, <1>3, <2>1, CountedAcquire, Zenon DEF PinInv, HasPin
  <2>4. Moves(call'[t]) \subseteq Moves(call[t])
    BY <1>3, Zenon DEF Moves
  <2>5. ~Reading(call'[t]) /\ StoresTheMissing(t)'
    BY <1>3, Zenon DEF Reading, StoresTheMissing
  <2> QED
    BY <1>1, <2>2, <2>3, <2>4, <2>5, QuietPins, Zenon
<1> QED
  BY <1>2, <1>3, CompactPinForm, Zenon

LEMMA CompactCopyPins ==
  ASSUME RecordInv, PinInv, NEW t \in Threads, CompactCopy(t)
  PROVE  PinInv'
<1>1. /\ call[t].pc = "copy" /\ UNCHANGED <<mdVars, faults>>
      /\ OthersWait(t) /\ call'[t].pc \in {"publish", "unpin"}
      /\ call'[t].key = call[t].key /\ call'[t].todo = call[t].todo
  BY CompactCopyForm, Zenon
<1>2. RowsStay /\ PinRowsKept
  BY <1>1, QuietRows, Zenon DEF QuietTable
<1>3. PinsCounted'
  BY <1>1, <1>2, CountedKept, Zenon DEF PinInv, KeepsPin, HasPin
<1>4. Moves(call'[t]) \subseteq Moves(call[t])
  BY <1>1, Zenon DEF Moves
<1>5. ~Reading(call'[t]) /\ StoresTheMissing(t)'
  BY <1>1, Zenon DEF Reading, StoresTheMissing
<1> QED
  BY <1>1, <1>2, <1>3, <1>4, <1>5, QuietPins, Zenon

\* A compaction moves no row that is read.
LEMMA CompactPublishPins ==
  ASSUME RecordInv, PinInv, NEW t \in Threads, CompactPublish(t)
  PROVE  PinInv'
<1>1. call[t].pc = "publish" /\ faults' = faults
  BY Zenon DEF CompactPublish, At
<1>2. /\ mutation = t /\ OthersWait(t) /\ call'[t].pc = "unpin" /\ call'[t].key = call[t].key
      /\ call'[t].todo = call[t].todo
  BY CompactPublishKeeps, Zenon
<1>3. CASE Upsert(call[t].key, NVMe, call[t].val, call[t].loc)
  <2>1. call[t].key \in Keys /\ PinRowsKept /\ OthersKept(call[t].key, NVMe)
    BY <1>1, <1>3, PublishedPins, Zenon
  <2>2. PinsCounted'
    BY <1>1, <1>2, <2>1, CountedKept, Zenon DEF PinInv, KeepsPin, HasPin
  <2>3. Moves(call'[t]) \subseteq Moves(call[t]) /\ call[t].key \in Moves(call[t])
    BY <1>1, <1>2, Zenon DEF Moves
  <2>4. ~Reading(call'[t]) /\ ReadsItsRow(t)' /\ StoresTheMissing(t)'
    BY <1>2, Zenon DEF Reading, ReadsItsRow, StoresTheMissing
  <2>5. ASSUME NEW u \in Threads \ {t}, Reading(call[u])
        PROVE  /\ call[u].key \notin Moves(call'[t])
               /\ blocks'[call[u].key][NVMe].uri = blocks[call[u].key][NVMe].uri
               /\ blocks'[call[u].key][NVMe].desc = blocks[call[u].key][NVMe].desc
    <3>1. call[u].key \notin Moves(call[t]) /\ call[u].key \in Keys
      BY <2>5, Zenon DEF PinInv, MovesTheUnread, RecordInv, Prepared, Reading
    <3>2. call[u].key # call[t].key
      BY <2>3, <3>1, Zenon
    <3>3. blocks'[call[u].key][NVMe] = blocks[call[u].key][NVMe]
      BY <2>1, <3>1, <3>2, Zenon DEF OthersKept
    <3> QED
      BY <2>3, <3>1, <3>3, Zenon
  <2> QED
    BY <1>1, <1>2, <2>2, <2>4, <2>5, PinStep, Zenon
<1>4. CASE UNCHANGED mdVars
  <2>1. RowsStay /\ PinRowsKept
    BY <1>4, QuietRows, Zenon DEF QuietTable
  <2>2. PinsCounted'
    BY <1>1, <1>2, <2>1, CountedKept, Zenon DEF PinInv, KeepsPin, HasPin
  <2>3. Moves(call'[t]) \subseteq Moves(call[t])
    BY <1>1, <1>2, Zenon DEF Moves
  <2>4. ~Reading(call'[t]) /\ StoresTheMissing(t)'
    BY <1>2, Zenon DEF Reading, StoresTheMissing
  <2> QED
    BY <1>1, <1>2, <2>1, <2>2, <2>3, <2>4, QuietPins, Zenon
<1> QED
  BY <1>3, <1>4, Zenon DEF CompactPublish

LEMMA CompactUnpinPins ==
  ASSUME RecordInv, PinInv, NEW t \in Threads, CompactUnpin(t)
  PROVE  PinInv'
<1>1. /\ call[t].pc = "unpin" /\ call[t].key \in Keys /\ faults' = faults
      /\ Release(call[t].key, NVMe) /\ OthersWait(t)
      /\ call'[t].pc \in {"pin", "idle"} /\ call'[t].todo \subseteq call[t].todo
  BY CompactUnpinForm, Zenon DEF Ready
<1>2. PICK k \in Keys : k = call[t].key
  BY <1>1, Zenon
<1>3. RowsStay
  BY <1>1, StepFacts, ReleaseRow, OneRowKept, Zenon
<1>4. PinsCounted'
  BY <1>1, <1>2, CountedRelease, Zenon DEF PinInv, HasPin
<1>5. Moves(call'[t]) \subseteq Moves(call[t]) /\ ~Reading(call'[t]) /\ StoresTheMissing(t)'
  BY <1>1, Zenon DEF Moves, Reading, StoresTheMissing
<1> QED
  BY <1>1, <1>3, <1>4, <1>5, QuietPins, Zenon

\* Table and calls as they were; a lost file only excuses more.
LEMMA PinsUntouched ==
  ASSUME PinInv, UNCHANGED <<mdVars, call>>, faults' = 0 => faults = 0
  PROVE  PinInv'
<1>1. UNCHANGED <<blocks, ownerEpoch, open, call>>
  BY Zenon DEF mdVars
<1>2. \A k : Pinners(k)' = Pinners(k)
  BY <1>1, Zenon DEF Pinners
<1>3. PinsCounted'
  BY <1>1, <1>2, Zenon DEF PinInv, PinsCounted, Active
<1> QED
  BY <1>1, <1>3, Zenon DEF PinInv, MovesTheUnread, ReadsItsRow, StoresTheMissing, Active

LEMMA SweepPins ==
  ASSUME RecordInv, PinInv, NEW t \in Threads, Sweep(t)
  PROVE  PinInv'
<1>1. call[t].pc = "sweep" /\ UNCHANGED <<mdVars, faults>>
  BY Zenon DEF Sweep, At
<1>2. CASE Return(t)
  BY <1>1, <1>2, UnpinnedReturn, Zenon DEF QuietTable, HasPin
<1>3. CASE UNCHANGED call
  BY <1>1, <1>3, PinsUntouched, Zenon
<1> QED
  BY <1>2, <1>3, Zenon DEF Sweep

LEMMA FaultPins ==
  ASSUME RecordInv, PinInv, NEW p \in DOMAIN segs, Fault(p)
  PROVE  PinInv'
<1>1. UNCHANGED <<mdVars, call>> /\ faults' = faults + 1
  BY Zenon DEF Fault
<1>2. faults \in Nat
  BY Zenon DEF RecordInv, SegmentType
<1>3. faults' # 0
  BY <1>1, <1>2
<1> QED
  BY <1>1, <1>3, PinsUntouched, Zenon

\* Nobody has a pin.
LEMMA NoPins ==
  ASSUME \A t \in Threads : call'[t].pc = "idle" /\ call'[t].todo = {}
  PROVE  PinInv'
<1>1. \A t \in Threads : /\ ~HasPin(call'[t]) /\ ~Reading(call'[t])
                         /\ ReadsItsRow(t)' /\ StoresTheMissing(t)'
  BY Zenon DEF HasPin, Reading, ReadsItsRow, StoresTheMissing
<1>2. \A k : Pinners(k)' = {}
  BY <1>1, Zenon DEF Pinners, HasPin
<1> QED
  BY <1>1, <1>2, Zenon DEF PinInv, PinsCounted, MovesTheUnread, Reading

LEMMA CrashPins ==
  ASSUME Crash
  PROVE  PinInv'
<1>1. call' = [t \in Threads |-> Idle]
  BY Zenon DEF Crash
<1> QED
  BY <1>1, IdleIsCall, NoPins, Zenon

LEMMA ReopenPins ==
  ASSUME RecordInv, Reopen
  PROVE  PinInv'
<1>1. ~open /\ call' = call
  BY Zenon DEF Reopen, segVars, Open
<1>2. ASSUME NEW t \in Threads PROVE call[t].pc = "idle" /\ call[t].todo = {}
  BY <1>1, Zenon DEF RecordInv, SegmentType, Prepared
<1> QED
  BY <1>1, <1>2, NoPins, Zenon

LEMMA PinInit ==
  ASSUME Init
  PROVE  PinInv
<1>1. \A t \in Threads : /\ call[t].pc = "idle" /\ ~HasPin(call[t]) /\ ~Reading(call[t])
                         /\ ReadsItsRow(t) /\ StoresTheMissing(t)
  <2>1. \A t \in Threads : call[t].pc = "idle"
    BY IdleIsCall, Zenon DEF Init
  <2> QED
    BY <2>1, Zenon DEF HasPin, Reading, ReadsItsRow, StoresTheMissing
<1>2. \A k : Pinners(k) = {}
  BY <1>1, Zenon DEF Pinners
<1> QED
  BY <1>1, <1>2, Zenon DEF PinInv, PinsCounted, MovesTheUnread

LEMMA PinNext ==
  ASSUME RecordInv, PinInv, Next
  PROVE  PinInv'
<1>1. ASSUME NEW t \in Threads, Step(t) PROVE PinInv'
  BY <1>1, LoadExistsPins, LoadStalePins, LoadAcquirePins, LoadReadPins, LoadReleasePins,
     EvictBeginPins, EvictFinishPins, StoreAppendPins, StoreCommitPins, CompactPinPins,
     CompactCopyPins, CompactPublishPins, CompactUnpinPins, SweepPins, Zenon DEF Step
<1>2. CASE Calls
  BY <1>2, LoadCallPins, EvictCallPins, StoreCallPins, CompactCallPins, Zenon
     DEF Calls, Threads
<1> QED
  BY <1>1, <1>2, FaultPins, CrashPins, ReopenPins, Zenon DEF Next

-----------------------------------------------------------------------------
(* Pinned records are read *)

\* Every step is about one thread.
LEMMA StepsAreOwn ==
  ASSUME NEW t \in Threads, call \in [Threads -> CallRecords], NEW u \in Threads \ {t},
         Step(u) \/ (\E k \in Keys : LoadCall(u, k) \/ EvictCall(u, k)
                                       \/ \E d \in Descriptors : StoreCall(u, k, d))
                 \/ CompactCall(u)
  PROVE  call'[t] = call[t]
<1>1. CASE LoadExists(u) \/ LoadStale(u) \/ LoadRelease(u)
  BY <1>1, Zenon DEF LoadExists, LoadStale, LoadRelease, Go, Return
<1>2. CASE LoadAcquire(u) \/ LoadRead(u) \/ EvictBegin(u) \/ EvictFinish(u)
  BY <1>2, Zenon DEF LoadAcquire, LoadRead, EvictBegin, EvictFinish, Go, Return
<1>3. CASE StoreAppend(u) \/ StoreCommit(u) \/ CompactPin(u)
  BY <1>3, Zenon DEF StoreAppend, StoreCommit, CompactPin, Go, Return
<1>4. CASE CompactCopy(u) \/ CompactPublish(u) \/ CompactUnpin(u) \/ Sweep(u)
  BY <1>4, Zenon DEF CompactCopy, CompactPublish, CompactUnpin, Sweep, Go, Return
<1>5. CASE \E k \in Keys : LoadCall(u, k) \/ EvictCall(u, k)
                             \/ \E d \in Descriptors : StoreCall(u, k, d)
  BY <1>5, Zenon DEF LoadCall, EvictCall, StoreCall
<1>6. CASE CompactCall(u)
  BY <1>6, Zenon DEF CompactCall
<1> QED
  BY <1>1, <1>2, <1>3, <1>4, <1>5, <1>6, Zenon DEF Step

\* With its pin and no lost file, a load finds the record.
LEMMA PinnedIsFound ==
  ASSUME RecordInv, PinInv, NEW t \in Threads, LoadRead(t), faults = 0
  PROVE  call'[t].verdict = "ok"
<1>1. call[t].pc = "read" /\ CallType
  BY StepFacts, Zenon DEF LoadRead, At
<1>2. PICK k \in Keys : k = call[t].key
  BY <1>1, StepFacts, Zenon DEF Prepared
<1>3. t \in Pinners(k)
  BY <1>1, <1>2, Zenon DEF Pinners, HasPin
<1>4. /\ Active(k, NVMe) /\ k \notin hit /\ blocks[k][NVMe].uri = call[t].loc
      /\ blocks[k][NVMe].desc = call[t].want
  BY <1>1, <1>2, <1>3, Zenon DEF PinInv, PinsCounted, ReadsItsRow, Reading, RecordInv,
                                 NothingLost
<1>5. RecordAt(call[t].loc) = RecordOf(call[t].key, call[t].want)
  BY <1>2, <1>4, Zenon DEF RecordInv, ReferencedIsIntact
<1>6. PICK v \in Verdicts : GoJudged(t, "release", v) /\ v = "ok"
  BY <1>5, ReadVerdict, Zenon
<1>7. "release" \in PCs
  BY Zenon DEF PCs
<1> QED
  BY <1>1, <1>6, <1>7, VerdictFacts, Zenon

LEMMA ReadsFailOnlyByLoss ==
  ASSUME RecordInv, PinInv, Next, NEW t \in Threads, call[t].pc = "read",
         call'[t].verdict \in {"error", "corrupt"}
  PROVE  faults > 0
<1>1. CallType /\ call[t].verdict = "none" /\ faults \in Nat
  BY StepFacts, Zenon DEF Prepared, RecordInv, SegmentType
<1> SUFFICES ASSUME faults = 0 PROVE FALSE
  BY <1>1
<1>2. call'[t] # call[t] /\ call'[t] # Idle
  BY <1>1, IdleIsCall, Zenon
<1>3. ASSUME NEW u \in Threads, Step(u) PROVE FALSE
  <2>1. u = t
    BY <1>1, <1>2, <1>3, StepsAreOwn, Zenon DEF CallType
  <2>2. LoadRead(t)
    BY <1>3, <2>1, Zenon DEF Step, At, LoadExists, LoadStale, LoadAcquire, LoadRelease,
       EvictBegin, EvictFinish, StoreAppend, StoreCommit, CompactPin, CompactCopy,
       CompactPublish, CompactUnpin, Sweep
  <2> QED
    BY <2>2, PinnedIsFound, Zenon
<1>4. CASE Calls
  <2>1. PICK u \in Threads :
          \/ \E k \in Keys : LoadCall(u, k) \/ EvictCall(u, k)
                               \/ \E d \in Descriptors : StoreCall(u, k, d)
          \/ CompactCall(u)
    BY <1>4, Zenon DEF Calls, Threads
  <2>2. u = t
    BY <1>1, <1>2, <2>1, StepsAreOwn, Zenon DEF CallType
  <2> QED
    BY <2>1, <2>2, Zenon DEF LoadCall, EvictCall, StoreCall, CompactCall, At
<1>5. CASE Crash
  BY <1>2, <1>5, Zenon DEF Crash
<1>6. CASE Reopen \/ \E p \in DOMAIN segs : Fault(p)
  BY <1>2, <1>6, Zenon DEF Reopen, segVars, Fault
<1> QED
  BY <1>3, <1>4, <1>5, <1>6, Zenon DEF Next

\* lookup_and_acquire under the mutation lock: a load that got its pin fails
\* only when a file was lost, whatever stores, evictions, compactions, failed
\* writes and restarts do meanwhile.
THEOREM PinnedRecords ==
  ASSUME Uris = Locations
  PROVE  Spec => PinnedRecordStays
<1> DEFINE Inv == RecordInv /\ PinInv
           A   == \A t \in Threads :
                    call[t].pc = "read" /\ call'[t].verdict \in {"error", "corrupt"}
                      => faults > 0
<1>1. Init => Inv
  BY RecordInit, PinInit, Zenon
<1>2. Inv /\ UNCHANGED vars => Inv'
  BY RecordUnchanged, PinsUntouched, Zenon DEF vars, segVars
<1>3. Inv /\ [Next]_vars => Inv'
  BY <1>2, RecordNext, PinNext, Zenon
<1>4. Inv /\ [Next]_vars => [A]_vars
  BY ReadsFailOnlyByLoss, Zenon
<1> QED
  BY <1>1, <1>3, <1>4, PTL DEF Spec, PinnedRecordStays
=============================================================================
