--------------------------- MODULE NVMeTierProofs ---------------------------
(***************************************************************************)
(* The file tier, for any number of keys, tiers, payloads, threads,        *)
(* openings and faults and any sizes: its safety, that it implements the   *)
(* metadata store's clients, and that it keeps to its capacity.            *)
(***************************************************************************)
EXTENDS NVMeTier, TierFacts

\* What most steps need of the constants.
LEMMA TierConstants ==
  /\ NVMe \in Tiers /\ Keys \subseteq Uris /\ PeerKeys \subseteq Keys
  /\ None \notin Threads /\ None \notin Keys /\ None \notin Descriptors
  BY NVMeAssumption, Zenon

USE NoRowAssumption, TierConstants

Payloads == Descriptors \cup {None}

PCs == {"idle", "exists", "stale", "acquire", "read", "verify", "release", "begin",
        "unlink", "finish", "measure", "room", "write", "commit"}

Ops == {"none", "lookup", "load", "evict", "store"}

Verdicts == {"none", "ok", "error", "corrupt"}

CallRecords(C) ==
  [pc : PCs, op : Ops, key : Keys \cup {None}, val : Payloads, want : Payloads,
   vic : Keys \cup {None}, verdict : Verdicts, cur : C]

\* The running totals, of which nothing is said here, come from some set.
CallType == \E C : call \in [Threads -> CallRecords(C)]

-----------------------------------------------------------------------------
(* The calls *)

\* What the updates of a call do to its fields.
LEMMA GoFacts ==
  ASSUME CallType, NEW t \in Threads, NEW STATE pc, pc \in PCs,
         Go(t, pc)
  PROVE  /\ CallType' /\ \A u \in Threads \ {t} : call'[u] = call[u]
         /\ call'[t].pc = pc /\ call'[t].op = call[t].op
         /\ call'[t].key = call[t].key /\ call'[t].val = call[t].val
         /\ call'[t].want = call[t].want /\ call'[t].vic = call[t].vic
         /\ call'[t].verdict = call[t].verdict /\ call'[t].cur = call[t].cur
<1>1. PICK C : call \in [Threads -> CallRecords(C)]
  BY Zenon DEF CallType
<1>2. call' \in [Threads -> CallRecords(C)]
  BY <1>1 DEF CallRecords, Payloads, Go
<1> QED
  BY <1>1, <1>2, Zenon DEF CallRecords, CallType, Go

\* A call that begins is a call.
LEMMA NewCallIsCall ==
  ASSUME NEW pc \in PCs, NEW op \in Ops, NEW k \in Keys, NEW d \in Payloads
  PROVE  NewCall(pc, op, k, d) \in CallRecords({0})
<1>1. None \in Payloads /\ "none" \in Verdicts
  BY Zenon DEF Payloads, Verdicts
<1> QED
  BY <1>1, Zenon DEF NewCall, CallRecords

\* The call that is none.
LEMMA IdleIsCall == Idle \in CallRecords({0})
<1>1. /\ None \in Payloads /\ "none" \in Verdicts /\ "idle" \in PCs /\ "none" \in Ops
      /\ None \in Keys \cup {None}
  BY Zenon DEF Payloads, Verdicts, PCs, Ops
<1> QED
  BY <1>1, Zenon DEF Idle, NewCall, CallRecords

\* One call is replaced.
LEMMA ReplaceFacts ==
  ASSUME CallType, NEW t \in Threads, NEW STATE c, c \in CallRecords({0}),
         call' = [call EXCEPT ![t] = c]
  PROVE  /\ CallType' /\ \A u \in Threads \ {t} : call'[u] = call[u]
         /\ call'[t] = c
<1>1. PICK C : call \in [Threads -> CallRecords(C)]
  BY Zenon DEF CallType
<1>2. call \in [Threads -> CallRecords(C \cup {0})] /\ c \in CallRecords(C \cup {0})
  BY <1>1, Zenon DEF CallRecords
<1>3. call' \in [Threads -> CallRecords(C \cup {0})]
  BY <1>2, Zenon
<1>4. CallType'
  BY <1>3, Zenon DEF CallType
<1> QED
  BY <1>2, <1>4, Zenon

\* A call that ends leaves the others alone.
LEMMA ReturnFacts ==
  ASSUME CallType, NEW t \in Threads, Return(t)
  PROVE  /\ CallType' /\ \A u \in Threads \ {t} : call'[u] = call[u]
         /\ call'[t] = Idle
         /\ mutation' = IF mutation = t THEN None ELSE mutation
  BY IdleIsCall, ReplaceFacts, Zenon DEF Return

GoWithWant(t, pc, want) ==
  call' = [call EXCEPT ![t].pc = pc, ![t].want = want]

GoWithVerdict(t, pc, verdict) ==
  call' = [call EXCEPT ![t].pc = pc, ![t].verdict = verdict]

GoWithVictim(t, pc, vic) ==
  call' = [call EXCEPT ![t].pc = pc, ![t].vic = vic]

GoWithCur(t, pc, cur) ==
  call' = [call EXCEPT ![t].pc = pc, ![t].cur = cur]

GoWithVictimAndCur(t, pc, vic, cur) ==
  call' = [call EXCEPT ![t].pc = pc, ![t].vic = vic, ![t].cur = cur]

\* load() has its pin and keeps the descriptor of the row.
LEMMA WantFacts ==
  ASSUME CallType, NEW t \in Threads, NEW STATE pc, pc \in PCs,
         NEW STATE want, want \in Payloads,
         GoWithWant(t, pc, want)
  PROVE  /\ CallType' /\ \A u \in Threads \ {t} : call'[u] = call[u]
         /\ call'[t].pc = pc /\ call'[t].want = want
         /\ call'[t].op = call[t].op /\ call'[t].key = call[t].key
         /\ call'[t].val = call[t].val /\ call'[t].vic = call[t].vic
         /\ call'[t].verdict = call[t].verdict /\ call'[t].cur = call[t].cur
<1>1. PICK C : call \in [Threads -> CallRecords(C)]
  BY Zenon DEF CallType
<1>2. call' \in [Threads -> CallRecords(C)]
  <2>1. [call[t] EXCEPT !.pc = pc, !.want = want] \in CallRecords(C)
    BY <1>1, Zenon DEF CallRecords
  <2>2. call' = [call EXCEPT ![t] = [call[t] EXCEPT !.pc = pc, !.want = want]]
    BY <1>1, Zenon DEF GoWithWant
  <2> QED
    BY <1>1, <2>1, <2>2, Zenon
<1>3. CallType'
  BY <1>2, Zenon DEF CallType
<1> QED
  BY <1>1, <1>3, Zenon DEF CallRecords, GoWithWant

\* load() has a verdict.
LEMMA VerdictFacts ==
  ASSUME CallType, NEW t \in Threads, NEW STATE pc, pc \in PCs,
         NEW STATE verdict, verdict \in Verdicts,
         GoWithVerdict(t, pc, verdict)
  PROVE  /\ CallType' /\ \A u \in Threads \ {t} : call'[u] = call[u]
         /\ call'[t].pc = pc /\ call'[t].verdict = verdict
         /\ call'[t].op = call[t].op /\ call'[t].key = call[t].key
         /\ call'[t].val = call[t].val /\ call'[t].want = call[t].want
         /\ call'[t].vic = call[t].vic /\ call'[t].cur = call[t].cur
<1>1. PICK C : call \in [Threads -> CallRecords(C)]
  BY Zenon DEF CallType
<1>2. call' \in [Threads -> CallRecords(C)]
  <2>1. [call[t] EXCEPT !.pc = pc, !.verdict = verdict] \in CallRecords(C)
    BY <1>1, Zenon DEF CallRecords
  <2>2. call' = [call EXCEPT ![t] = [call[t] EXCEPT !.pc = pc, !.verdict = verdict]]
    BY <1>1, Zenon DEF GoWithVerdict
  <2> QED
    BY <1>1, <2>1, <2>2, Zenon
<1>3. CallType'
  BY <1>2, Zenon DEF CallType
<1> QED
  BY <1>1, <1>3, Zenon DEF CallRecords, GoWithVerdict

\* _ensure_capacity has chosen a victim.
LEMMA VictimFacts ==
  ASSUME CallType, NEW t \in Threads, NEW STATE pc, pc \in PCs,
         NEW STATE vic, vic \in Keys \cup {None},
         GoWithVictim(t, pc, vic)
  PROVE  /\ CallType' /\ \A u \in Threads \ {t} : call'[u] = call[u]
         /\ call'[t].pc = pc /\ call'[t].vic = vic
         /\ call'[t].op = call[t].op /\ call'[t].key = call[t].key
         /\ call'[t].val = call[t].val /\ call'[t].want = call[t].want
         /\ call'[t].verdict = call[t].verdict /\ call'[t].cur = call[t].cur
<1>1. PICK C : call \in [Threads -> CallRecords(C)]
  BY Zenon DEF CallType
<1>2. call' \in [Threads -> CallRecords(C)]
  <2>1. [call[t] EXCEPT !.pc = pc, !.vic = vic] \in CallRecords(C)
    BY <1>1, Zenon DEF CallRecords
  <2>2. call' = [call EXCEPT ![t] = [call[t] EXCEPT !.pc = pc, !.vic = vic]]
    BY <1>1, Zenon DEF GoWithVictim
  <2> QED
    BY <1>1, <2>1, <2>2, Zenon
<1>3. CallType'
  BY <1>2, Zenon DEF CallType
<1> QED
  BY <1>1, <1>3, Zenon DEF CallRecords, GoWithVictim

\* _ensure_capacity has measured.
LEMMA CurFacts ==
  ASSUME CallType, NEW t \in Threads, NEW STATE pc, pc \in PCs,
         NEW STATE cur,
         GoWithCur(t, pc, cur)
  PROVE  /\ CallType' /\ \A u \in Threads \ {t} : call'[u] = call[u]
         /\ call'[t].pc = pc /\ call'[t].op = call[t].op
         /\ call'[t].key = call[t].key /\ call'[t].val = call[t].val
         /\ call'[t].want = call[t].want /\ call'[t].vic = call[t].vic
         /\ call'[t].verdict = call[t].verdict /\ call'[t].cur = cur
<1>1. PICK C : call \in [Threads -> CallRecords(C)]
  BY Zenon DEF CallType
<1>2. call \in [Threads -> CallRecords(C \cup {cur})]
  BY <1>1, Zenon DEF CallRecords
<1>3. call' \in [Threads -> CallRecords(C \cup {cur})]
  <2>1. [call[t] EXCEPT !.pc = pc, !.cur = cur] \in CallRecords(C \cup {cur})
    BY <1>2, Zenon DEF CallRecords
  <2>2. call' = [call EXCEPT ![t] = [call[t] EXCEPT !.pc = pc, !.cur = cur]]
    BY <1>2, Zenon DEF GoWithCur
  <2> QED
    BY <1>2, <2>1, <2>2, Zenon
<1>4. CallType'
  BY <1>3, Zenon DEF CallType
<1> QED
  BY <1>2, <1>4, Zenon DEF CallRecords, GoWithCur

\* A victim is gone and the running total is less.
LEMMA DoneFacts ==
  ASSUME CallType, NEW t \in Threads, NEW STATE pc, pc \in PCs,
         NEW STATE vic, vic \in Keys \cup {None}, NEW STATE cur,
         GoWithVictimAndCur(t, pc, vic, cur)
  PROVE  /\ CallType' /\ \A u \in Threads \ {t} : call'[u] = call[u]
         /\ call'[t].pc = pc /\ call'[t].vic = vic
         /\ call'[t].op = call[t].op /\ call'[t].key = call[t].key
         /\ call'[t].val = call[t].val /\ call'[t].want = call[t].want
         /\ call'[t].verdict = call[t].verdict /\ call'[t].cur = cur
<1>1. PICK C : call \in [Threads -> CallRecords(C)]
  BY Zenon DEF CallType
<1>2. call \in [Threads -> CallRecords(C \cup {cur})]
  BY <1>1, Zenon DEF CallRecords
<1>3. call' \in [Threads -> CallRecords(C \cup {cur})]
  <2>1. [call[t] EXCEPT !.pc = pc, !.vic = vic, !.cur = cur] \in CallRecords(C \cup {cur})
    BY <1>2, Zenon DEF CallRecords
  <2>2. call' = [call EXCEPT ![t] = [call[t] EXCEPT !.pc = pc, !.vic = vic, !.cur = cur]]
    BY <1>2, Zenon DEF GoWithVictimAndCur
  <2> QED
    BY <1>2, <2>1, <2>2, Zenon
<1>4. CallType'
  BY <1>3, Zenon DEF CallType
<1> QED
  BY <1>2, <1>4, Zenon DEF CallRecords, GoWithVictimAndCur

\* The call once a victim is chosen, and once it is gone.
LEMMA VictimChosen ==
  ASSUME CallType, NEW t \in Threads, NEW v \in Keys, GoWithVictim(t, "begin", v)
  PROVE  /\ \A u \in Threads \ {t} : call'[u] = call[u]
         /\ call'[t].pc = "begin" /\ call'[t].vic = v /\ call'[t].key = call[t].key
         /\ call'[t].cur = call[t].cur
<1>1. "begin" \in PCs /\ v \in Keys \cup {None}
  BY Zenon DEF PCs
<1> QED
  BY <1>1, VictimFacts, SMTT(30)

\* After a victim the store looks for room again.
LEMMA RoomAgain ==
  ASSUME CallType, NEW t \in Threads, NEW STATE cur, GoWithVictimAndCur(t, "room", None, cur)
  PROVE  /\ \A u \in Threads \ {t} : call'[u] = call[u]
         /\ call'[t].pc = "room" /\ call'[t].vic = None /\ call'[t].key = call[t].key
         /\ call'[t].cur = cur
<1>1. "room" \in PCs /\ None \in Keys \cup {None}
  BY Zenon DEF PCs
<1> QED
  BY <1>1, DoneFacts, SMTT(30)

-----------------------------------------------------------------------------
(* The inductive invariant *)

\* What a call relies on.  A store holds the lock from its first check to its
\* return, so what it checked stays true, until it deletes its own key because
\* the copy it found is corrupt.  An eviction holds the lock from the tombstone
\* on.  What is about to be published is on disk.
CallInv(t) ==
  /\ call[t].pc # "idle" => call[t].key \in Keys
  /\ call[t].vic \in Keys \cup {None}
  /\ call[t].vic # None => call[t].op = "store"
  /\ call[t].pc \in {"measure", "room", "write", "commit"} => call[t].op = "store"
  /\ call[t].pc \in {"read", "verify", "release"} => call[t].want \in Descriptors
  /\ call[t].pc \in {"exists", "stale", "acquire", "read", "verify"} =>
       call[t].verdict = "none"
  /\ call[t].op = "store" =>
       /\ mutation = t /\ call[t].pc # "idle"
       /\ call[t].val \in Descriptors /\ call[t].vic # call[t].key
       /\ \/ call[t].pc \in {"unlink", "finish"} /\ call[t].vic = None
          \/ CanUpsert(call[t].key, NVMe, call[t].val)
       /\ call[t].pc = "release" /\ call[t].verdict = "ok" =>
            Active(call[t].key, NVMe) /\ blocks[call[t].key][NVMe].desc = call[t].want
  /\ call[t].pc \in {"unlink", "finish"} => mutation = t /\ Deleting(Target(t), NVMe)
  /\ call[t].pc = "finish" => files[Target(t)] = None
  /\ call[t].pc = "commit" =>
       call[t].key \in damaged \/ files[call[t].key] = call[t].val

TierInv ==
  /\ blocks \in Table /\ ownerEpoch \in Nat
  /\ files \in [Keys -> Descriptors \cup {Garbage, None}]
  /\ CallType
  /\ \A t \in Threads : CallInv(t)
  /\ PublishedHasPayload

\* What is asked about rows depends on their states and descriptors only.
LEMMA KeptQueries ==
  ASSUME RowsKept, NEW k \in Keys, NEW p \in Tiers
  PROVE  /\ Active(k, p)' <=> Active(k, p)
         /\ Deleting(k, p)' <=> Deleting(k, p)
         /\ Active(k, p) => blocks'[k][p].desc = blocks[k][p].desc
         /\ \A d \in Descriptors : CanUpsert(k, p, d)' <=> CanUpsert(k, p, d)
<1>1. /\ Active(k, p)' <=> Active(k, p)
      /\ Deleting(k, p)' <=> Deleting(k, p)
      /\ Active(k, p) => blocks'[k][p].desc = blocks[k][p].desc
  BY Zenon DEF RowsKept, Active, Deleting
<1>2. \A d \in Descriptors : DescriptorFits(k, d)' <=> DescriptorFits(k, d)
  BY Zenon DEF RowsKept, DescriptorFits
<1> QED
  BY <1>1, <1>2, Zenon DEF CanUpsert

\* A call whose thread does nothing keeps its part when nothing it relies on
\* changes, and when another thread may hold the lock.
LEMMA CallKept ==
  ASSUME TierInv, NEW u \in Threads, call'[u] = call[u],
         \/ mutation # u
         \/ RowsKept /\ UNCHANGED <<files, damaged, mutation>>
  PROVE  CallInv(u)'
<1>1. CallInv(u)
  BY Zenon DEF TierInv
<1>2. CASE mutation # u
  BY <1>1, <1>2, Zenon DEF CallInv
<1>3. CASE RowsKept /\ UNCHANGED <<files, damaged, mutation>>
  <2>1. Target(u)' = Target(u)
    BY Zenon DEF Target
  <2>2. CASE call[u].pc = "idle"
    BY <1>1, <1>3, <2>2, Zenon DEF CallInv
  <2>3. CASE call[u].pc # "idle"
    <3>1. PICK k \in Keys, g \in Keys : k = call[u].key /\ g = Target(u)
      BY <1>1, <2>3, Zenon DEF CallInv, Target
    <3>2. /\ Active(k, NVMe) => Active(k, NVMe)' /\ blocks'[k][NVMe].desc = blocks[k][NVMe].desc
          /\ \A d \in Descriptors : CanUpsert(k, NVMe, d) => CanUpsert(k, NVMe, d)'
          /\ Deleting(g, NVMe) => Deleting(g, NVMe)'
      BY <1>3, KeptQueries, Zenon
    <3>3. /\ call[u].op = "store" =>
               \/ call[u].pc \in {"unlink", "finish"} /\ call[u].vic = None
               \/ CanUpsert(k, NVMe, call[u].val)'
          /\ call[u].op = "store" /\ call[u].pc = "release" /\ call[u].verdict = "ok" =>
               Active(k, NVMe)' /\ blocks'[k][NVMe].desc = call[u].want
          /\ call[u].pc \in {"unlink", "finish"} => Deleting(g, NVMe)'
      BY <1>1, <3>1, <3>2, Zenon DEF CallInv
    <3>4. /\ call[u].op = "store" =>
               \/ call[u].pc \in {"unlink", "finish"} /\ call[u].vic = None
               \/ CanUpsert(call[u].key, NVMe, call[u].val)'
          /\ call[u].op = "store" /\ call[u].pc = "release" /\ call[u].verdict = "ok" =>
               /\ Active(call[u].key, NVMe)'
               /\ blocks'[call[u].key][NVMe].desc = call[u].want
          /\ call[u].pc \in {"unlink", "finish"} => Deleting(Target(u), NVMe)'
      BY <2>1, <3>1, <3>3, Zenon DEF CanUpsert, DescriptorFits, Active, Deleting
    <3> QED
      BY <1>1, <1>3, <2>1, <3>4, Zenon DEF CallInv
  <2> QED
    BY <2>2, <2>3, Zenon
<1> QED
  BY <1>2, <1>3, Zenon

\* A step of thread t, put together.
LEMMA Assemble ==
  ASSUME TierInv, NEW t \in Threads, blocks' \in Table, ownerEpoch' \in Nat,
         files' \in [Keys -> Descriptors \cup {Garbage, None}],
         CallType', \A u \in Threads \ {t} : call'[u] = call[u],
         MayLock(t) \/ (RowsKept /\ UNCHANGED <<files, damaged, mutation>>),
         CallInv(t)', PublishedHasPayload'
  PROVE  TierInv'
<1>1. ASSUME NEW u \in Threads, u # t PROVE CallInv(u)'
  <2>1. call'[u] = call[u]
    BY <1>1, Zenon
  <2>2. \/ mutation # u
        \/ RowsKept /\ UNCHANGED <<files, damaged, mutation>>
    BY <1>1, Zenon DEF MayLock
  <2> QED
    BY <2>1, <2>2, CallKept, Zenon
<1> QED
  BY <1>1, Zenon DEF TierInv

\* Fewer active rows, with the descriptors they had.
LEMMA PublishedKept ==
  ASSUME PublishedHasPayload, UNCHANGED <<files, damaged>>,
         \A k \in Keys : Active(k, NVMe)' => /\ Active(k, NVMe)
                                             /\ blocks'[k][NVMe].desc = blocks[k][NVMe].desc
  PROVE  PublishedHasPayload'
  BY Zenon DEF PublishedHasPayload

\* A step of thread t that leaves rows and files alone.
LEMMA QuietStep ==
  ASSUME TierInv, NEW t \in Threads, blocks' \in Table, RowsKept, ownerEpoch' \in Nat,
         UNCHANGED <<files, damaged>>,
         CallType', \A u \in Threads \ {t} : call'[u] = call[u],
         MayLock(t) \/ UNCHANGED mutation, CallInv(t)'
  PROVE  TierInv'
<1>1. PublishedHasPayload'
  BY PublishedKept, KeptQueries, Zenon DEF TierInv
<1> QED
  BY <1>1, Assemble, Zenon DEF TierInv

\* No call relies on anything.
LEMMA IdleInv ==
  ASSUME NEW t \in Threads, call'[t] = Idle PROVE CallInv(t)'
  BY DEF CallInv, Idle, NewCall

\* A step of thread t that ends its call.
LEMMA ReturnStep ==
  ASSUME TierInv, NEW t \in Threads, Return(t), blocks' \in Table, ownerEpoch' \in Nat,
         files' \in [Keys -> Descriptors \cup {Garbage, None}],
         MayLock(t) \/ (RowsKept /\ UNCHANGED <<files, damaged>>),
         PublishedHasPayload'
  PROVE  TierInv'
<1>1. /\ CallType' /\ \A u \in Threads \ {t} : call'[u] = call[u]
      /\ call'[t] = Idle /\ mutation' = IF mutation = t THEN None ELSE mutation
  BY ReturnFacts, Zenon DEF TierInv
<1>2. MayLock(t) \/ (RowsKept /\ UNCHANGED <<files, damaged, mutation>>)
  BY <1>1, Zenon DEF MayLock
<1> QED
  BY <1>1, <1>2, IdleInv, Assemble, Zenon

\* The end of lookup() withdraws at most the row of an unpinned block.
LEMMA DropFacts ==
  ASSUME TierInv, NEW k \in Keys, DropStale(k), UNCHANGED <<files, damaged>>
  PROVE  /\ blocks' \in Table /\ UNCHANGED <<ownerEpoch, open>>
         /\ blocks'[k][NVMe] \in {NoRow, blocks[k][NVMe]} /\ OthersKept(k, NVMe)
         /\ PublishedHasPayload'
         /\ \A d \in Descriptors : CanUpsert(k, NVMe, d) => CanUpsert(k, NVMe, d)'
<1>1. /\ blocks' \in Table /\ UNCHANGED <<ownerEpoch, open>>
      /\ blocks'[k][NVMe] \in {NoRow, blocks[k][NVMe]} /\ OthersKept(k, NVMe)
  <2>1. CASE Delete(k, NVMe)
    BY <2>1, RemoveFacts, Zenon DEF TierInv
  <2>2. CASE UNCHANGED mdVars
    BY <2>2, Zenon DEF TierInv, mdVars, OthersKept
  <2> QED
    BY <2>1, <2>2, Zenon DEF DropStale
<1>2. \A j \in Keys, p \in Tiers : blocks'[j][p] \in {NoRow, blocks[j][p]}
  BY <1>1, Zenon DEF OthersKept
<1>3. PublishedHasPayload'
  BY <1>2, PublishedKept, Zenon DEF TierInv, Active
<1>4. \A d \in Descriptors : CanUpsert(k, NVMe, d) => CanUpsert(k, NVMe, d)'
  BY <1>2, Zenon DEF CanUpsert, DescriptorFits, Deleting
<1> QED
  BY <1>1, <1>3, <1>4, Zenon

\* Nothing happens to the table.
LEMMA TableSame ==
  ASSUME TierInv, UNCHANGED mdVars
  PROVE  blocks' \in Table /\ RowsKept /\ ownerEpoch' \in Nat
  BY Zenon DEF TierInv, mdVars, RowsKept

-----------------------------------------------------------------------------
(* The steps *)

\* Calls that begin without the lock, and the first look of lookup().
LEMMA LookupSteps ==
  ASSUME TierInv, NEW t \in Threads,
         \/ \E k \in Keys, op \in {"lookup", "load"} : LookupCall(t, k, op)
         \/ \E k \in Keys : EvictCall(t, k)
         \/ LookupHit(t) \/ LookupMiss(t)
  PROVE  TierInv'
<1>1. UNCHANGED <<mdVars, files, damaged>>
  BY Zenon DEF LookupCall, EvictCall, LookupHit, LookupMiss
<1>2. blocks' \in Table /\ RowsKept /\ ownerEpoch' \in Nat
  BY <1>1, TableSame, Zenon
<1>3. ASSUME NEW k \in Keys, NEW op \in {"lookup", "load", "evict"},
             NEW pc \in {"exists", "begin"}, UNCHANGED mutation,
             call' = [call EXCEPT ![t] = NewCall(pc, op, k, None)]
      PROVE  TierInv'
  <2>2. /\ CallType' /\ \A u \in Threads \ {t} : call'[u] = call[u]
        /\ call'[t] = NewCall(pc, op, k, None)
    <3>1. CallType /\ None \in Payloads /\ pc \in PCs /\ op \in Ops
      BY Zenon DEF TierInv, Payloads, PCs, Ops
    <3>2. NewCall(pc, op, k, None) \in CallRecords({0})
      BY <3>1, NewCallIsCall, Zenon
    <3> QED
      BY <1>3, <3>1, <3>2, ReplaceFacts, Zenon
  <2>3. CallInv(t)'
    BY <2>2 DEF CallInv, NewCall
  <2> QED
    BY <1>1, <1>2, <1>3, <2>2, <2>3, QuietStep, Zenon
<1>4. CASE \E k \in Keys, op \in {"lookup", "load"} : LookupCall(t, k, op)
  BY <1>3, <1>4, Zenon DEF LookupCall
<1>5. CASE \E k \in Keys : EvictCall(t, k)
  BY <1>3, <1>5, ZenonT(30) DEF EvictCall
<1>6. ASSUME NEW pc \in {"acquire", "stale"}, Go(t, pc), UNCHANGED mutation,
             call[t].pc \in {"exists", "stale"}
      PROVE  TierInv'
  <2>1. pc \in PCs /\ CallType
    BY Zenon DEF TierInv, PCs
  <2>2. CallInv(t)'
    <3>1. /\ call'[t].pc = pc /\ call'[t].op = call[t].op /\ call'[t].key = call[t].key
          /\ call'[t].val = call[t].val /\ call'[t].vic = call[t].vic
          /\ call'[t].verdict = call[t].verdict
      BY <1>6, <2>1, GoFacts, Zenon
    <3>2. CallInv(t) /\ blocks' = blocks
      BY <1>1, Zenon DEF TierInv, mdVars
    <3> QED
      BY <1>6, <3>1, <3>2, ZenonT(30) DEF CallInv, CanUpsert, DescriptorFits, Deleting
  <2> QED
    BY <1>1, <1>2, <1>6, <2>1, <2>2, GoFacts, QuietStep, Zenon
<1>7. CASE LookupMiss(t)
  BY <1>6, <1>7, Zenon DEF LookupMiss, At
<1>8. CASE LookupHit(t) /\ Return(t)
  BY <1>1, <1>2, <1>8, ReturnStep, PublishedKept, KeptQueries, Zenon DEF TierInv
<1>9. CASE LookupHit(t) /\ Go(t, "acquire") /\ UNCHANGED mutation
  BY <1>6, <1>9, Zenon DEF LookupHit, At
<1> QED
  BY <1>4, <1>5, <1>7, <1>8, <1>9, Zenon DEF LookupHit

\* A call goes on, and what it relies on is what it relied on before.
LEMMA ContinuedCall ==
  ASSUME TierInv, NEW t \in Threads, RowsKept, UNCHANGED mutation,
         call[t].pc \notin {"idle", "unlink", "finish"},
         call'[t].pc \notin {"idle", "unlink", "finish", "commit"},
         call'[t].op = call[t].op, call'[t].key = call[t].key,
         call'[t].val = call[t].val, call'[t].vic = call[t].vic,
         call'[t].pc \in {"measure", "room", "write"} => call[t].op = "store",
         call'[t].pc \in {"read", "verify", "release"} => call'[t].want \in Descriptors,
         call'[t].pc \in {"read", "verify"} => call'[t].verdict = "none",
         call'[t].pc \notin {"exists", "stale", "acquire"},
         call[t].op = "store" /\ call'[t].pc = "release" /\ call'[t].verdict = "ok" =>
           Active(call[t].key, NVMe) /\ blocks[call[t].key][NVMe].desc = call'[t].want
  PROVE  CallInv(t)'
<1>1. CallInv(t)
  BY Zenon DEF TierInv
<1>2. PICK k \in Keys : k = call[t].key
  BY <1>1, Zenon DEF CallInv
<1>3. call[t].op = "store" => call[t].val \in Descriptors /\ CanUpsert(k, NVMe, call[t].val)
  BY <1>1, <1>2, Zenon DEF CallInv
<1>4. call[t].op = "store" => CanUpsert(k, NVMe, call[t].val)'
  <2> SUFFICES ASSUME call[t].op = "store" PROVE CanUpsert(k, NVMe, call[t].val)'
    BY Zenon
  <2>1. PICK d \in Descriptors : d = call[t].val
    BY <1>3, Zenon
  <2>2. CanUpsert(k, NVMe, d)'
    BY <1>3, <2>1, KeptQueries, Zenon
  <2> QED
    BY <2>1, <2>2, Zenon DEF CanUpsert, DescriptorFits, Deleting
<1>5. Active(k, NVMe) => Active(k, NVMe)' /\ blocks'[k][NVMe].desc = blocks[k][NVMe].desc
  BY KeptQueries, Zenon
<1> QED
  BY <1>1, <1>2, <1>4, <1>5, ZenonT(30) DEF CallInv, CanUpsert, DescriptorFits, Deleting, Active

\* The second look of lookup(), under the lock.
LEMMA LookupStaleStep ==
  ASSUME TierInv, NEW t \in Threads, LookupStale(t) PROVE TierInv'
<1>1. PICK k \in Keys : k = call[t].key
  BY Zenon DEF TierInv, CallInv, LookupStale, At
<1>2. DropStale(k) /\ UNCHANGED <<files, damaged>> /\ Return(t) /\ MayLock(t)
  BY <1>1, Zenon DEF LookupStale
<1>3. blocks' \in Table /\ ownerEpoch' = ownerEpoch /\ PublishedHasPayload'
  BY <1>2, DropFacts, Zenon
<1> QED
  BY <1>2, <1>3, ReturnStep, Zenon DEF TierInv

\* load() pins its row, or finds it gone.
LEMMA LoadAcquireStep ==
  ASSUME TierInv, NEW t \in Threads, LoadAcquire(t) PROVE TierInv'
<1>1. PICK k \in Keys : k = call[t].key
  BY Zenon DEF TierInv, CallInv, LoadAcquire, At
<1>2. call[t].pc = "acquire" /\ UNCHANGED <<files, damaged>>
  BY Zenon DEF LoadAcquire, At
<1>3. CASE /\ Acquire(k, NVMe) /\ UNCHANGED mutation
           /\ call' = [call EXCEPT ![t].pc = "read", ![t].want = blocks[k][NVMe].desc]
  <2>1. blocks' \in Table /\ RowsKept /\ ownerEpoch' \in Nat
    BY <1>3, PinFacts, Zenon DEF TierInv
  <2>2. PICK d \in Descriptors : d = blocks[k][NVMe].desc
    BY <1>3 DEF TierInv, Table, Row, Acquire, Active
  <2>3. "read" \in PCs /\ d \in Payloads /\ CallType
    BY Zenon DEF PCs, Payloads, TierInv
  <2>4. GoWithWant(t, "read", d)
    BY <1>3, <2>2, Zenon DEF GoWithWant
  <2>5. /\ CallType' /\ \A u \in Threads \ {t} : call'[u] = call[u]
        /\ call'[t].pc = "read" /\ call'[t].want = d
        /\ call'[t].op = call[t].op /\ call'[t].key = call[t].key
        /\ call'[t].val = call[t].val /\ call'[t].vic = call[t].vic
        /\ call'[t].verdict = call[t].verdict
    BY <2>3, <2>4, WantFacts, SMTT(30)
  <2>6. call[t].verdict = "none"
    BY <1>2, Zenon DEF TierInv, CallInv
  <2>7. CallInv(t)'
    BY <1>2, <1>3, <2>1, <2>5, <2>6, ContinuedCall, ZenonT(30)
  <2> QED
    BY <1>2, <1>3, <2>1, <2>5, <2>7, QuietStep, ZenonT(30)
<1>4. CASE Return(t) /\ UNCHANGED mdVars
  <2>1. blocks' \in Table /\ RowsKept /\ ownerEpoch' \in Nat
    BY <1>4, TableSame, Zenon
  <2> QED
    BY <1>2, <1>4, <2>1, ReturnStep, PublishedKept, KeptQueries, Zenon DEF TierInv
<1> QED
  BY <1>1, <1>3, <1>4, Zenon DEF LoadAcquire

\* load() reads and verifies.
LEMMA LoadReadStep ==
  ASSUME TierInv, NEW t \in Threads, LoadRead(t) \/ LoadVerify(t) PROVE TierInv'
<1>1. call[t].pc \in {"read", "verify"} /\ UNCHANGED <<mdVars, files, mutation, damaged>>
  BY Zenon DEF LoadRead, LoadVerify, At
<1>2. call[t].want \in Descriptors
  BY <1>1, Zenon DEF TierInv, CallInv
<1>3. PICK pc \in {"verify", "release"}, v \in Verdicts :
        /\ GoWithVerdict(t, pc, v)
        /\ pc = "verify" => v = "none"
        /\ v = "ok" => /\ Active(call[t].key, NVMe)
                       /\ blocks[call[t].key][NVMe].desc = call[t].want
  <2>1. CASE LoadRead(t)
    <3> DEFINE f  == files[call[t].key]
               pc == IF f = call[t].want THEN "verify" ELSE "release"
               v  == CASE f = call[t].want -> "none"
                       [] f = None -> "error"
                       [] OTHER -> "corrupt"
    <3>1. /\ pc \in {"verify", "release"} /\ v \in Verdicts /\ v # "ok"
          /\ pc = "verify" => v = "none"
      BY <1>2, Zenon DEF Verdicts
    <3>2. GoWithVerdict(t, pc, v)
      BY <2>1, Zenon DEF LoadRead, GoWithVerdict
    <3> HIDE DEF pc, v
    <3> QED
      BY <3>1, <3>2, Zenon
  <2>2. CASE LoadVerify(t)
    <3> DEFINE ok == /\ Active(call[t].key, NVMe)
                     /\ blocks[call[t].key][NVMe].desc = call[t].want
               v == IF ok THEN "ok" ELSE "corrupt"
    <3>1. /\ "release" \in {"verify", "release"} /\ v \in Verdicts
          /\ v = "ok" => ok
          /\ "release" # "verify"
      BY Zenon DEF Verdicts
    <3>2. GoWithVerdict(t, "release", v)
      BY <2>2, Zenon DEF LoadVerify, GoWithVerdict
    <3> HIDE DEF v
    <3> QED
      BY <3>1, <3>2, Zenon
  <2> QED
    BY <2>1, <2>2, Zenon
<1>4. blocks' \in Table /\ RowsKept /\ ownerEpoch' \in Nat
  BY <1>1, TableSame, Zenon
<1>5. /\ CallType' /\ \A u \in Threads \ {t} : call'[u] = call[u]
      /\ call'[t].pc = pc /\ call'[t].verdict = v /\ call'[t].want = call[t].want
      /\ call'[t].op = call[t].op /\ call'[t].key = call[t].key
      /\ call'[t].val = call[t].val /\ call'[t].vic = call[t].vic
  <2>1. CallType /\ pc \in PCs
    BY Zenon DEF TierInv, PCs
  <2> QED
    BY <1>3, <2>1, VerdictFacts
<1>6. CallInv(t)'
  BY <1>1, <1>2, <1>3, <1>4, <1>5, ContinuedCall, Zenon
<1> QED
  BY <1>1, <1>4, <1>5, <1>6, QuietStep, Zenon

\* load() gives its pin back and goes on.
LEMMA LoadReleaseStep ==
  ASSUME TierInv, NEW t \in Threads, LoadRelease(t) PROVE TierInv'
<1>1. PICK k \in Keys : k = call[t].key
  BY Zenon DEF TierInv, CallInv, LoadRelease, At
<1>2. call[t].pc = "release" /\ UNCHANGED <<files, damaged>> /\ Release(k, NVMe)
  BY <1>1, Zenon DEF LoadRelease, At
<1>3. blocks' \in Table /\ RowsKept /\ ownerEpoch' \in Nat
  BY <1>2, PinFacts, Zenon DEF TierInv
<1>4. CallType /\ "begin" \in PCs /\ "commit" \in PCs
  BY Zenon DEF TierInv, PCs
<1>5. CASE Go(t, "begin") /\ UNCHANGED mutation
  <2>1. /\ CallType' /\ \A u \in Threads \ {t} : call'[u] = call[u]
        /\ call'[t].pc = "begin" /\ call'[t].op = call[t].op
        /\ call'[t].key = call[t].key /\ call'[t].val = call[t].val
        /\ call'[t].vic = call[t].vic
    BY <1>4, <1>5, GoFacts, Zenon
  <2>2. CallInv(t)'
    BY <1>2, <1>3, <1>5, <2>1, ContinuedCall, Zenon
  <2> QED
    BY <1>2, <1>3, <1>5, <2>1, <2>2, QuietStep, Zenon
<1>6. CASE /\ call[t].verdict = "ok" /\ call[t].op = "store" /\ call[t].val = call[t].want
           /\ Go(t, "commit") /\ UNCHANGED mutation
  <2>1. /\ CallType' /\ \A u \in Threads \ {t} : call'[u] = call[u]
        /\ call'[t].pc = "commit" /\ call'[t].op = call[t].op
        /\ call'[t].key = call[t].key /\ call'[t].val = call[t].val
        /\ call'[t].vic = call[t].vic
    BY <1>4, <1>6, GoFacts, Zenon
  <2>2. PICK d \in Descriptors : d = call[t].val /\ CanUpsert(k, NVMe, d)
    BY <1>1, <1>2, <1>6, Zenon DEF TierInv, CallInv
  <2>3. CanUpsert(k, NVMe, d)'
    BY <1>3, <2>2, KeptQueries, Zenon
  <2>4. k \in damaged \/ files[k] = d
    BY <1>1, <1>2, <1>6, <2>2, ZenonT(30) DEF TierInv, CallInv, PublishedHasPayload
  <2>5. CanUpsert(call[t].key, NVMe, call[t].val)'
    BY <1>1, <2>1, <2>2, <2>3, Zenon DEF CanUpsert, DescriptorFits, Deleting
  <2>6. CallInv(t)
    BY Zenon DEF TierInv
  <2>7. CallInv(t)'
    BY <1>1, <1>2, <1>6, <2>1, <2>2, <2>4, <2>5, <2>6, Zenon DEF CallInv
  <2> QED
    BY <1>2, <1>3, <1>6, <2>1, <2>7, QuietStep, Zenon
<1>7. CASE Return(t)
  BY <1>2, <1>3, <1>7, ReturnStep, PublishedKept, KeptQueries, Zenon DEF TierInv
<1> QED
  BY <1>5, <1>6, <1>7, Zenon DEF LoadRelease

\* What a call evicts is a key.
LEMMA TargetIsKey ==
  ASSUME TierInv, NEW t \in Threads, call[t].pc # "idle"
  PROVE  \E g \in Keys : g = Target(t)
  BY Zenon DEF TierInv, CallInv, Target

\* evict() turns the row into a tombstone, or refuses.
LEMMA EvictBeginStep ==
  ASSUME TierInv, NEW t \in Threads, EvictBegin(t) PROVE TierInv'
<1>1. call[t].pc = "begin" /\ MayLock(t) /\ UNCHANGED <<files, damaged>>
  BY Zenon DEF EvictBegin, At
<1>2. PICK g \in Keys : g = Target(t)
  BY <1>1, TargetIsKey, Zenon
<1>3. CASE BeginDelete(g, NVMe) /\ Go(t, "unlink") /\ mutation' = t
  <2>1. /\ blocks' \in Table /\ OthersKept(g, NVMe) /\ ownerEpoch' = ownerEpoch
        /\ blocks'[g][NVMe] # NoRow /\ blocks'[g][NVMe].state = "deleting"
    BY <1>3, TombstoneFacts, Zenon DEF TierInv
  <2>2. CallType /\ "unlink" \in PCs /\ CallInv(t)
    BY Zenon DEF TierInv, PCs
  <2>3. /\ CallType' /\ \A u \in Threads \ {t} : call'[u] = call[u]
        /\ call'[t].pc = "unlink" /\ call'[t].op = call[t].op
        /\ call'[t].key = call[t].key /\ call'[t].val = call[t].val
        /\ call'[t].vic = call[t].vic
    BY <1>3, <2>2, GoFacts, Zenon
  <2>4. Target(t)' = g /\ Deleting(g, NVMe)'
    BY <1>2, <2>1, <2>3, ZenonT(30) DEF Target, Deleting
  <2>5. PublishedHasPayload'
    <3>1. \A j \in Keys : Active(j, NVMe)' => /\ Active(j, NVMe)
                                              /\ blocks'[j][NVMe].desc = blocks[j][NVMe].desc
      BY <2>1, Zenon DEF OthersKept, Active
    <3> QED
      BY <1>1, <3>1, PublishedKept, Zenon DEF TierInv
  <2>6. call[t].op = "store" /\ call[t].vic # None => CanUpsert(call[t].key, NVMe, call[t].val)'
    <3> SUFFICES ASSUME call[t].op = "store", call[t].vic # None
                 PROVE  CanUpsert(call[t].key, NVMe, call[t].val)'
      BY Zenon
    <3>1. PICK k \in Keys, d \in Descriptors :
            /\ k = call[t].key /\ d = call[t].val /\ k # g /\ CanUpsert(k, NVMe, d)
      BY <1>1, <1>2, <2>2, ZenonT(30) DEF CallInv, Target
    <3>2. CanUpsert(k, NVMe, d)'
      BY <2>1, <3>1, Zenon DEF OthersKept, CanUpsert, DescriptorFits, Deleting
    <3> QED
      BY <2>3, <3>1, <3>2, Zenon DEF CanUpsert, DescriptorFits, Deleting
  <2>7. CallInv(t)'
    BY <1>1, <1>3, <2>2, <2>3, <2>4, <2>6, Zenon DEF CallInv, Deleting
  <2> QED
    BY <1>1, <2>1, <2>3, <2>5, <2>7, Assemble, Zenon DEF TierInv
<1>4. CASE Return(t) /\ UNCHANGED mdVars
  <2>1. blocks' \in Table /\ RowsKept /\ ownerEpoch' \in Nat
    BY <1>4, TableSame, Zenon
  <2> QED
    BY <1>1, <1>4, <2>1, ReturnStep, PublishedKept, KeptQueries, Zenon DEF TierInv
<1> QED
  BY <1>2, <1>3, <1>4, Zenon DEF EvictBegin

\* evict() removes the file, or fails.
LEMMA EvictUnlinkStep ==
  ASSUME TierInv, NEW t \in Threads, EvictUnlink(t) PROVE TierInv'
<1>1. call[t].pc = "unlink" /\ UNCHANGED <<mdVars, damaged>>
  BY Zenon DEF EvictUnlink, At
<1>2. PICK g \in Keys : g = Target(t)
  BY <1>1, TargetIsKey, Zenon
<1>3. mutation = t /\ Deleting(g, NVMe) /\ CallInv(t) /\ CallType
  BY <1>1, <1>2, Zenon DEF TierInv, CallInv
<1>4. blocks' \in Table /\ RowsKept /\ ownerEpoch' \in Nat /\ blocks' = blocks
  BY <1>1, TableSame, Zenon DEF mdVars
<1>5. CASE files' = [files EXCEPT ![g] = None] /\ Go(t, "finish") /\ UNCHANGED mutation
  <2>1. /\ files' \in [Keys -> Descriptors \cup {Garbage, None}] /\ files'[g] = None
        /\ \A j \in Keys \ {g} : files'[j] = files[j]
    BY <1>5, Zenon DEF TierInv
  <2>2. PublishedHasPayload'
    BY <1>1, <1>3, <1>4, <2>1, Zenon DEF TierInv, PublishedHasPayload, Active, Deleting
  <2>3. "finish" \in PCs
    BY Zenon DEF PCs
  <2>4. /\ CallType' /\ \A u \in Threads \ {t} : call'[u] = call[u]
        /\ call'[t].pc = "finish" /\ call'[t].op = call[t].op
        /\ call'[t].key = call[t].key /\ call'[t].val = call[t].val
        /\ call'[t].vic = call[t].vic
    BY <1>3, <1>5, <2>3, GoFacts, Zenon
  <2>5. Target(t)' = g
    BY <1>2, <2>4, Zenon DEF Target
  <2>6. CallInv(t)'
    BY <1>1, <1>3, <1>4, <1>5, <2>1, <2>4, <2>5, ZenonT(30)
    DEF CallInv, CanUpsert, DescriptorFits, Deleting
  <2> QED
    BY <1>3, <1>4, <2>1, <2>2, <2>4, <2>6, Assemble, Zenon DEF MayLock
<1>6. CASE Return(t) /\ UNCHANGED files
  BY <1>1, <1>4, <1>6, ReturnStep, PublishedKept, KeptQueries, Zenon DEF TierInv
<1> QED
  BY <1>2, <1>5, <1>6, Zenon DEF EvictUnlink

\* evict() removes the tombstone.
LEMMA EvictFinishStep ==
  ASSUME TierInv, NEW t \in Threads, EvictFinish(t) PROVE TierInv'
<1>1. call[t].pc = "finish" /\ UNCHANGED <<files, damaged>>
  BY Zenon DEF EvictFinish, At
<1>2. PICK g \in Keys : g = Target(t)
  BY <1>1, TargetIsKey, Zenon
<1>3. mutation = t /\ CallInv(t) /\ CallType /\ FinishDelete(g, NVMe)
  BY <1>1, <1>2, Zenon DEF TierInv, CallInv, EvictFinish
<1>4. /\ blocks' \in Table /\ OthersKept(g, NVMe) /\ ownerEpoch' \in Nat
      /\ blocks'[g][NVMe] = NoRow
  BY <1>3, RemoveFacts, Zenon DEF TierInv
<1>5. PublishedHasPayload'
  <2>1. \A j \in Keys : Active(j, NVMe)' => /\ Active(j, NVMe)
                                            /\ blocks'[j][NVMe].desc = blocks[j][NVMe].desc
    BY <1>4, Zenon DEF OthersKept, Active
  <2> QED
    BY <1>1, <2>1, PublishedKept, ZenonT(30) DEF TierInv
<1>6. CASE /\ call[t].vic # None /\ UNCHANGED mutation
           /\ call' = [call EXCEPT ![t].pc = "room", ![t].vic = None,
                         ![t].cur = @ - Bytes[blocks[call[t].vic][NVMe].desc]]
  <2> DEFINE cur == call[t].cur - Bytes[blocks[call[t].vic][NVMe].desc]
  <2>1. GoWithVictimAndCur(t, "room", None, cur)
    BY <1>6, Zenon DEF GoWithVictimAndCur
  <2>2. "room" \in PCs /\ None \in Keys \cup {None}
    BY Zenon DEF PCs
  <2> HIDE DEF cur
  <2>3. /\ CallType' /\ \A u \in Threads \ {t} : call'[u] = call[u]
        /\ call'[t].pc = "room" /\ call'[t].vic = None
        /\ call'[t].op = call[t].op /\ call'[t].key = call[t].key
        /\ call'[t].val = call[t].val
    BY <1>3, <2>1, <2>2, DoneFacts
  <2>4. CanUpsert(call[t].key, NVMe, call[t].val)'
    <3>1. PICK k \in Keys, d \in Descriptors :
            /\ k = call[t].key /\ d = call[t].val /\ k # g /\ CanUpsert(k, NVMe, d)
      BY <1>1, <1>2, <1>3, <1>6, Zenon DEF CallInv, Target
    <3>2. CanUpsert(k, NVMe, d)'
      BY <1>4, <3>1, Zenon DEF OthersKept, CanUpsert, DescriptorFits, Deleting
    <3> QED
      BY <2>3, <3>1, <3>2, ZenonT(30) DEF CanUpsert, DescriptorFits, Deleting
  <2>5. CallInv(t)'
    BY <1>1, <1>3, <1>6, <2>3, <2>4, Zenon DEF CallInv
  <2> QED
    BY <1>1, <1>3, <1>4, <1>5, <2>3, <2>5, Assemble, Zenon DEF MayLock, TierInv
<1>7. CASE Return(t)
  BY <1>1, <1>3, <1>4, <1>5, <1>7, ReturnStep, Zenon DEF MayLock, TierInv
<1> QED
  BY <1>6, <1>7, Zenon DEF EvictFinish

\* store() takes the lock and checks.
LEMMA StoreCallStep ==
  ASSUME TierInv, NEW t \in Threads, NEW k \in Keys, NEW d \in Descriptors,
         StoreCall(t, k, d)
  PROVE  TierInv'
<1>1. /\ mutation = None /\ mutation' = t /\ UNCHANGED <<files, damaged>>
      /\ DropStale(k) /\ CanUpsert(k, NVMe, d)
  BY Zenon DEF StoreCall, CanUpsert
<1>2. /\ blocks' \in Table /\ ownerEpoch' = ownerEpoch /\ PublishedHasPayload'
      /\ CanUpsert(k, NVMe, d)'
  BY <1>1, DropFacts, Zenon
<1>3. PICK pc \in {"exists", "measure"} :
        call' = [call EXCEPT ![t] = NewCall(pc, "store", k, d)]
  BY Zenon DEF StoreCall
<1>4. CallType /\ d \in Payloads /\ pc \in PCs /\ "store" \in Ops
  BY Zenon DEF TierInv, Payloads, PCs, Ops
<1>5. NewCall(pc, "store", k, d) \in CallRecords({0})
  BY <1>4, NewCallIsCall, Zenon
<1>6. /\ CallType' /\ \A u \in Threads \ {t} : call'[u] = call[u]
      /\ call'[t] = NewCall(pc, "store", k, d)
  BY <1>3, <1>4, <1>5, ReplaceFacts, Zenon
<1>7. /\ call'[t].pc = pc /\ call'[t].op = "store" /\ call'[t].key = k
      /\ call'[t].val = d /\ call'[t].vic = None /\ call'[t].verdict = "none"
  BY <1>6 DEF NewCall
<1>8. CanUpsert(call[t].key, NVMe, call[t].val)'
  BY <1>2, <1>7, Zenon DEF CanUpsert, DescriptorFits, Deleting
<1>9. CallInv(t)'
  BY <1>1, <1>7, <1>8, Zenon DEF CallInv
<1> QED
  BY <1>1, <1>2, <1>6, <1>9, Assemble, Zenon DEF MayLock, TierInv

\* store() measures what the other blocks take.
LEMMA StoreMeasureStep ==
  ASSUME TierInv, NEW t \in Threads, StoreMeasure(t) PROVE TierInv'
<1>1. call[t].pc = "measure" /\ UNCHANGED <<files, mutation, damaged>>
  BY Zenon DEF StoreMeasure, At
<1>2. CallInv(t) /\ CallType /\ "room" \in PCs
  BY Zenon DEF TierInv, PCs
<1>3. PICK k \in Keys, d \in Descriptors :
        k = call[t].key /\ d = call[t].val /\ CanUpsert(k, NVMe, d)
  BY <1>1, <1>2, Zenon DEF CallInv
<1>4. DropStale(k)
  BY <1>3, Zenon DEF StoreMeasure
<1>5. /\ blocks' \in Table /\ ownerEpoch' = ownerEpoch /\ PublishedHasPayload'
      /\ CanUpsert(k, NVMe, d)'
  BY <1>1, <1>3, <1>4, DropFacts, ZenonT(30)
<1>6. /\ CallType' /\ \A u \in Threads \ {t} : call'[u] = call[u]
      /\ call'[t].pc = "room" /\ call'[t].op = call[t].op
      /\ call'[t].key = call[t].key /\ call'[t].val = call[t].val
      /\ call'[t].vic = call[t].vic
  <2> DEFINE cur == IF Active(call[t].key, NVMe) /\ Stored(call[t].key)
                    THEN BytesUsed - Bytes[blocks[call[t].key][NVMe].desc]
                    ELSE BytesUsed
  <2>1. GoWithCur(t, "room", cur)
    BY ZenonT(30) DEF StoreMeasure, GoWithCur
  <2> HIDE DEF cur
  <2> QED
    BY <1>2, <2>1, CurFacts, Zenon
<1>7. CanUpsert(call[t].key, NVMe, call[t].val)'
  BY <1>3, <1>5, <1>6, Zenon DEF CanUpsert, DescriptorFits, Deleting
<1>8. CallInv(t)'
  BY <1>1, <1>2, <1>6, <1>7, Zenon DEF CallInv
<1> QED
  BY <1>1, <1>2, <1>5, <1>6, <1>8, Assemble, Zenon DEF MayLock, TierInv, CallInv

\* store() chooses a victim, goes on to write, or gives up.
LEMMA StoreRoomStep ==
  ASSUME TierInv, NEW t \in Threads, StoreRoom(t) PROVE TierInv'
<1>1. call[t].pc = "room" /\ UNCHANGED <<mdVars, files, damaged>>
  BY Zenon DEF StoreRoom, At
<1>2. CallInv(t) /\ CallType /\ "write" \in PCs /\ "begin" \in PCs
  BY Zenon DEF TierInv, PCs
<1>3. blocks' \in Table /\ RowsKept /\ ownerEpoch' \in Nat /\ blocks' = blocks
  BY <1>1, TableSame, Zenon DEF mdVars
<1>4. CASE Go(t, "write") /\ UNCHANGED mutation
  <2>1. /\ CallType' /\ \A u \in Threads \ {t} : call'[u] = call[u]
        /\ call'[t].pc = "write" /\ call'[t].op = call[t].op
        /\ call'[t].key = call[t].key /\ call'[t].val = call[t].val
        /\ call'[t].vic = call[t].vic
    BY <1>2, <1>4, GoFacts, Zenon
  <2>2. call[t].op = "store"
    BY <1>1, <1>2, ZenonT(30) DEF CallInv
  <2>3. CallInv(t)'
    BY <1>1, <1>3, <1>4, <2>1, <2>2, ContinuedCall, Zenon
  <2> QED
    BY <1>1, <1>3, <1>4, <2>1, <2>3, QuietStep, Zenon
<1>5. ASSUME NEW k \in Keys, k # call[t].key, UNCHANGED mutation,
             call' = [call EXCEPT ![t].pc = "begin", ![t].vic = k]
      PROVE  TierInv'
  <2>1. GoWithVictim(t, "begin", k) /\ k \in Keys \cup {None}
    BY <1>5, Zenon DEF GoWithVictim
  <2>2. /\ CallType' /\ \A u \in Threads \ {t} : call'[u] = call[u]
        /\ call'[t].pc = "begin" /\ call'[t].vic = k /\ call'[t].op = call[t].op
        /\ call'[t].key = call[t].key /\ call'[t].val = call[t].val
    BY <1>2, <2>1, VictimFacts
  <2>3. mutation' = mutation /\ k # call[t].key
    BY <1>5, Zenon
  <2>4. CallInv(t)'
    BY <1>1, <1>2, <1>3, <2>2, <2>3, Zenon DEF CallInv, CanUpsert, DescriptorFits, Deleting
  <2> QED
    BY <1>1, <1>3, <2>2, <2>3, <2>4, QuietStep, Zenon
<1>6. CASE Return(t)
  BY <1>1, <1>3, <1>6, ReturnStep, PublishedKept, KeptQueries, Zenon DEF TierInv
<1> QED
  BY <1>4, <1>5, <1>6, Zenon DEF StoreRoom, LruCandidates

\* store() writes the file, or fails.
LEMMA StoreWriteStep ==
  ASSUME TierInv, NEW t \in Threads, StoreWrite(t) PROVE TierInv'
<1>1. call[t].pc = "write" /\ UNCHANGED mdVars
  BY Zenon DEF StoreWrite, At
<1>2. CallInv(t) /\ CallType /\ "commit" \in PCs
  BY Zenon DEF TierInv, PCs
<1>3. blocks' \in Table /\ RowsKept /\ ownerEpoch' \in Nat /\ blocks' = blocks
  BY <1>1, TableSame, Zenon DEF mdVars
<1>4. PICK k \in Keys, d \in Descriptors :
        /\ k = call[t].key /\ d = call[t].val /\ CanUpsert(k, NVMe, d)
        /\ call[t].op = "store" /\ mutation = t
  BY <1>1, <1>2, ZenonT(30) DEF CallInv
<1>5. CASE /\ files' = [files EXCEPT ![k] = d] /\ damaged' = damaged \ {k}
           /\ Go(t, "commit") /\ UNCHANGED mutation
  <2>1. /\ files' \in [Keys -> Descriptors \cup {Garbage, None}] /\ files'[k] = d
        /\ \A j \in Keys \ {k} : files'[j] = files[j]
    BY <1>5, Zenon DEF TierInv
  <2>2. PublishedHasPayload'
    <3>1. \A j \in Keys \ {k} : j \notin damaged' => j \notin damaged
      BY <1>5, Zenon
    <3>2. Active(k, NVMe) => blocks[k][NVMe].desc = d
      BY <1>4, Zenon DEF Active, CanUpsert, DescriptorFits
    <3>3. \A j \in Keys : Active(j, NVMe)' <=> Active(j, NVMe)
      BY <1>3, Zenon DEF Active
    <3> QED
      BY <1>3, <2>1, <3>1, <3>2, <3>3, Zenon DEF TierInv, PublishedHasPayload
  <2>3. /\ CallType' /\ \A u \in Threads \ {t} : call'[u] = call[u]
        /\ call'[t].pc = "commit" /\ call'[t].op = call[t].op
        /\ call'[t].key = call[t].key /\ call'[t].val = call[t].val
        /\ call'[t].vic = call[t].vic
    BY <1>2, <1>5, GoFacts, ZenonT(30)
  <2>4. mutation' = t /\ CanUpsert(k, NVMe, d)'
    BY <1>3, <1>4, <1>5, Zenon DEF CanUpsert, DescriptorFits, Deleting
  <2>5. CanUpsert(call[t].key, NVMe, call[t].val)'
    BY <1>4, <2>3, <2>4, Zenon DEF CanUpsert, DescriptorFits, Deleting
  <2>6. CallInv(t)'
    BY <1>1, <1>2, <1>4, <2>1, <2>3, <2>4, <2>5, Zenon DEF CallInv
  <2> QED
    BY <1>3, <1>4, <2>1, <2>2, <2>3, <2>6, Assemble, Zenon DEF MayLock
<1>6. CASE Return(t) /\ UNCHANGED <<files, damaged>>
  BY <1>1, <1>3, <1>6, ReturnStep, PublishedKept, KeptQueries, Zenon DEF TierInv
<1> QED
  BY <1>4, <1>5, <1>6, Zenon DEF StoreWrite

\* store() publishes, or fails.
LEMMA StoreCommitStep ==
  ASSUME TierInv, NEW t \in Threads, StoreCommit(t) PROVE TierInv'
<1>1. call[t].pc = "commit" /\ UNCHANGED <<files, damaged>> /\ Return(t)
  BY Zenon DEF StoreCommit, At
<1>2. PICK k \in Keys, d \in Descriptors :
        /\ k = call[t].key /\ d = call[t].val /\ mutation = t
        /\ k \in damaged \/ files[k] = d
  BY <1>1, ZenonT(30) DEF TierInv, CallInv
<1>3. CASE Upsert(k, NVMe, d, k)
  <2>1. /\ blocks' \in Table /\ OthersKept(k, NVMe) /\ ownerEpoch' = ownerEpoch
        /\ blocks'[k][NVMe].desc = d
    BY <1>3, UpsertFacts, Zenon DEF TierInv
  <2>2. PublishedHasPayload'
    BY <1>1, <1>2, <2>1, Zenon DEF TierInv, PublishedHasPayload, Active, OthersKept
  <2> QED
    BY <1>1, <1>2, <2>1, <2>2, ReturnStep, Zenon DEF TierInv, MayLock
<1>4. CASE UNCHANGED mdVars
  <2>1. blocks' \in Table /\ RowsKept /\ ownerEpoch' \in Nat
    BY <1>4, TableSame, Zenon
  <2> QED
    BY <1>1, <2>1, ReturnStep, PublishedKept, KeptQueries, Zenon DEF TierInv
<1> QED
  BY <1>2, <1>3, <1>4, Zenon DEF StoreCommit

\* Another tier works on the same keys.
LEMMA PeerTierStep ==
  ASSUME TierInv, PeerTier PROVE TierInv'
<1>1. mutation = None /\ UNCHANGED <<files, mutation, call, damaged>>
  BY Zenon DEF PeerTier
<1>2. PICK k \in Keys, p \in Tiers \ {NVMe} :
        \/ \E d \in Descriptors : Upsert(k, p, d, k)
        \/ Delete(k, p) \/ BeginDelete(k, p) \/ FinishDelete(k, p)
  BY Zenon DEF PeerTier
<1>3. blocks' \in Table /\ OthersKept(k, p) /\ ownerEpoch' = ownerEpoch
  <2>1. CASE \E d \in Descriptors : Upsert(k, p, d, k)
    BY <2>1, UpsertFacts, Zenon DEF TierInv
  <2>2. CASE Delete(k, p) \/ FinishDelete(k, p)
    BY <2>2, RemoveFacts, Zenon DEF TierInv
  <2>3. CASE BeginDelete(k, p)
    BY <2>3, TombstoneFacts, Zenon DEF TierInv
  <2> QED
    BY <1>2, <2>1, <2>2, <2>3, Zenon
<1>4. \A u \in Threads : CallInv(u)'
  BY <1>1, CallKept, Zenon
<1>5. PublishedHasPayload'
  BY <1>1, <1>3, Zenon DEF TierInv, PublishedHasPayload, Active, OthersKept
<1>6. CallType'
  BY <1>1, Zenon DEF TierInv, CallType
<1> QED
  BY <1>1, <1>3, <1>4, <1>5, <1>6, Zenon DEF TierInv

\* A file is lost or damaged.
LEMMA FaultStep ==
  ASSUME TierInv, NEW k \in Keys, Fault(k) PROVE TierInv'
<1>1. UNCHANGED <<blocks, ownerEpoch, mutation, call>> /\ damaged' = damaged \cup {k}
  BY Zenon DEF Fault, mdVars
<1>2. /\ files' \in [Keys -> Descriptors \cup {Garbage, None}] /\ files[k] # None
      /\ \A j \in Keys \ {k} : files'[j] = files[j]
  BY DEF Fault, TierInv, Stored
<1>3. ASSUME NEW u \in Threads PROVE CallInv(u)'
  <2>1. CallInv(u) /\ Target(u)' = Target(u)
    BY <1>1, Zenon DEF TierInv, Target
  <2>2. call[u].pc = "finish" => files'[Target(u)] = None
    BY <1>2, <2>1, Zenon DEF CallInv, Target
  <2>3. call[u].pc = "commit" =>
          call[u].key \in damaged \cup {k} \/ files'[call[u].key] = call[u].val
    BY <1>2, <2>1, ZenonT(30) DEF CallInv
  <2> QED
    BY <1>1, <2>1, <2>2, <2>3, Zenon DEF CallInv, CanUpsert, DescriptorFits, Deleting, Active
<1>4. PublishedHasPayload'
  BY <1>1, <1>2, Zenon DEF TierInv, PublishedHasPayload, Active
<1>5. CallType'
  BY <1>1, Zenon DEF TierInv, CallType
<1> QED
  BY <1>1, <1>2, <1>3, <1>4, <1>5, Zenon DEF TierInv

\* All threads are idle: at the start and after a crash.
LEMMA AllIdle ==
  call = [t \in Threads |-> Idle] => CallType /\ \A t \in Threads : CallInv(t)
<1> SUFFICES ASSUME call = [t \in Threads |-> Idle]
             PROVE  CallType /\ \A t \in Threads : CallInv(t)
  BY Zenon
<1>1. call \in [Threads -> CallRecords({0})]
  BY IdleIsCall, Zenon
<1>2. CallType
  BY <1>1, Zenon DEF CallType
<1>3. \A t \in Threads : CallInv(t)
  BY ZenonT(30) DEF CallInv, Idle, NewCall
<1> QED
  BY <1>2, <1>3, Zenon

\* The process ends.
LEMMA CrashStep ==
  ASSUME TierInv, Crash PROVE TierInv'
<1>1. (call = [t \in Threads |-> Idle])' /\ UNCHANGED <<blocks, ownerEpoch, files, damaged>>
  BY Zenon DEF Crash, Close
<1>2. (CallType /\ \A t \in Threads : CallInv(t))'
  BY <1>1, AllIdle, PTL
<1> QED
  BY <1>1, <1>2, Zenon DEF TierInv, PublishedHasPayload, Active

\* A new owner opens the database.
LEMMA ReopenStep ==
  ASSUME TierInv, Reopen PROVE TierInv'
<1>1. UNCHANGED <<files, mutation, call, damaged>> /\ Open
  BY Zenon DEF Reopen
<1>2. blocks' \in Table /\ RowsKept /\ ownerEpoch' \in Nat
  BY <1>1, OpenFacts, Zenon DEF TierInv
<1>3. \A u \in Threads : CallInv(u)'
  BY <1>1, <1>2, CallKept, Zenon
<1>4. PublishedHasPayload'
  BY <1>1, <1>2, PublishedKept, KeptQueries, Zenon DEF TierInv
<1>5. CallType'
  BY <1>1, Zenon DEF TierInv, CallType
<1> QED
  BY <1>1, <1>2, <1>3, <1>4, <1>5, Zenon DEF TierInv

\* The invariant holds initially.
LEMMA TierInit == Init => TierInv
<1> SUFFICES ASSUME Init PROVE TierInv
  BY Zenon
<1>1. CallType /\ \A t \in Threads : CallInv(t)
  BY AllIdle, Zenon DEF Init
<1>2. blocks \in Table /\ ownerEpoch \in Nat
  BY Zenon DEF Init, Table
<1>3. files \in [Keys -> Descriptors \cup {Garbage, None}]
  BY Zenon DEF Init
<1>4. PublishedHasPayload
  BY Zenon DEF Init, PublishedHasPayload, Active
<1> QED
  BY <1>1, <1>2, <1>3, <1>4, Zenon DEF TierInv

\* Every step keeps the invariant.
LEMMA TierStep == TierInv /\ [Next]_vars => TierInv'
<1> SUFFICES ASSUME TierInv, [Next]_vars PROVE TierInv'
  BY Zenon
<1>1. ASSUME NEW t \in Threads, Calls(t) PROVE TierInv'
  BY <1>1, LookupSteps, StoreCallStep, Zenon DEF Calls
<1>2. ASSUME NEW t \in Threads, Step(t) PROVE TierInv'
  BY <1>2, LookupSteps, LookupStaleStep, LoadAcquireStep, LoadReadStep, LoadReleaseStep,
     EvictBeginStep, EvictUnlinkStep, EvictFinishStep, StoreMeasureStep, StoreRoomStep,
     StoreWriteStep, StoreCommitStep, Zenon DEF Step
<1>3. CASE UNCHANGED vars
  <2>1. UNCHANGED <<blocks, ownerEpoch, files, mutation, call, damaged>> /\ UNCHANGED mdVars
    BY <1>3, Zenon DEF vars, mdVars
  <2>2. blocks' \in Table /\ RowsKept /\ ownerEpoch' \in Nat
    BY <2>1, TableSame, Zenon
  <2>3. \A u \in Threads : CallInv(u)'
    BY <2>1, <2>2, CallKept, Zenon
  <2>4. PublishedHasPayload'
    BY <2>1, <2>2, PublishedKept, KeptQueries, Zenon DEF TierInv
  <2>5. CallType'
    BY <2>1, Zenon DEF TierInv, CallType
  <2> QED
    BY <2>1, <2>2, <2>3, <2>4, <2>5, Zenon DEF TierInv
<1> QED
  BY <1>1, <1>2, <1>3, PeerTierStep, FaultStep, CrashStep, ReopenStep, Zenon DEF Next

\* The invariant holds always.
LEMMA TierAlways == Spec => []TierInv
  BY TierInit, TierStep, PTL DEF Spec

-----------------------------------------------------------------------------
(* The theorems *)

\* store() writes the file before the row and evict() turns the row into a
\* tombstone before it removes the file, so a published block has its payload
\* after every step of every thread and after a crash between any two.
THEOREM PublishedSafe == Spec => []PublishedHasPayload
<1>1. TierInv => PublishedHasPayload
  BY Zenon DEF TierInv
<1> QED
  BY <1>1, TierAlways, PTL

\* What store() and evict() checked at their beginning still holds when they
\* commit, because of the mutation lock and in spite of the other tiers.
THEOREM ChecksSafe == Spec => []ChecksStillHold
<1>1. TierInv => ChecksStillHold
  BY Zenon DEF TierInv, CallInv, ChecksStillHold
<1> QED
  BY <1>1, TierAlways, PTL

-----------------------------------------------------------------------------
(* What the calls do to the table *)

Reading == {"read", "verify", "release"}

\* One transaction on this tier's rows.  A row disappears either as a live one
\* or as a tombstone whose file is gone.
Transaction ==
  \/ UNCHANGED mdVars
  \/ \E k \in Keys : Delete(k, NVMe) \/ BeginDelete(k, NVMe)
  \/ \E k \in Keys : FinishDelete(k, NVMe) /\ files[k] = None
  \/ \E k \in Keys, d \in Descriptors : Upsert(k, NVMe, d, k)

\* The other calls stay, and this one holds no pin after the step.
Unpinned(t) ==
  call'[t].pc \notin Reading /\ \A u \in Threads \ {t} : call'[u] = call[u]

\* A call that goes on outside a load holds no pin.
LEMMA GoUnpinned ==
  ASSUME TierInv, NEW t \in Threads, NEW pc \in PCs \ Reading, Go(t, pc)
  PROVE  Unpinned(t)
  BY GoFacts DEF TierInv, Unpinned

\* A call that has ended holds no pin.
LEMMA ReturnUnpinned ==
  ASSUME TierInv, NEW t \in Threads, Return(t)
  PROVE  Unpinned(t)
<1>1. Idle.pc \notin Reading
  BY Zenon DEF Idle, NewCall, Reading
<1> QED
  BY <1>1, ReturnFacts, Zenon DEF TierInv, Unpinned

\* A call that begins holds no pin.
LEMMA NewUnpinned ==
  ASSUME TierInv, NEW t \in Threads, NEW pc \in PCs \ Reading, NEW op \in Ops,
         NEW k \in Keys, NEW d \in Payloads,
         call' = [call EXCEPT ![t] = NewCall(pc, op, k, d)]
  PROVE  Unpinned(t)
<1>1. CallType /\ NewCall(pc, op, k, d) \in CallRecords({0}) /\ NewCall(pc, op, k, d).pc = pc
  BY NewCallIsCall, Zenon DEF TierInv, NewCall
<1> QED
  BY <1>1, ReplaceFacts, Zenon DEF Unpinned

\* Starting a call.
LEMMA CallsTransaction ==
  ASSUME TierInv, NEW t \in Threads, Calls(t)
  PROVE  Unpinned(t) /\ call[t].pc \notin Reading /\ Transaction
<1>1. PICK k \in Keys : \/ \E op \in {"lookup", "load"} : LookupCall(t, k, op)
                         \/ EvictCall(t, k)
                         \/ \E d \in Descriptors : StoreCall(t, k, d)
  BY Zenon DEF Calls
<1>2. call[t].pc \notin Reading
  BY <1>1, Zenon DEF LookupCall, EvictCall, StoreCall, At, Reading
<1>3. None \in Payloads /\ Descriptors \subseteq Payloads
  BY Zenon DEF Payloads
<1>4. CASE \E op \in {"lookup", "load"} : LookupCall(t, k, op)
  <2>1. PICK op \in {"lookup", "load"} : LookupCall(t, k, op)
    BY <1>4, Zenon
  <2>2. op \in Ops /\ "exists" \in PCs \ Reading
    BY Zenon DEF Ops, PCs, Reading
  <2> QED
    BY <1>2, <1>3, <2>1, <2>2, NewUnpinned, Zenon DEF LookupCall, Transaction
<1>5. CASE EvictCall(t, k)
  <2>1. "evict" \in Ops /\ "begin" \in PCs \ Reading
    BY Zenon DEF Ops, PCs, Reading
  <2> QED
    BY <1>2, <1>3, <1>5, <2>1, NewUnpinned, Zenon DEF EvictCall, Transaction
<1>6. CASE \E d \in Descriptors : StoreCall(t, k, d)
  <2>1. PICK d \in Descriptors : StoreCall(t, k, d)
    BY <1>6, Zenon
  <2>2. PICK pc \in {"exists", "measure"} :
          call' = [call EXCEPT ![t] = NewCall(pc, "store", k, d)]
    BY <2>1, Zenon DEF StoreCall
  <2>3. "store" \in Ops /\ pc \in PCs \ Reading
    BY Zenon DEF Ops, PCs, Reading
  <2>4. Unpinned(t)
    BY <1>3, <2>2, <2>3, NewUnpinned, Zenon
  <2> QED
    BY <1>2, <2>1, <2>4, Zenon DEF StoreCall, DropStale, Transaction
<1> QED
  BY <1>1, <1>4, <1>5, <1>6, Zenon

\* The steps that hold no pin before or after.
LEMMA StepTransaction ==
  ASSUME TierInv, NEW t \in Threads,
         \/ LookupHit(t) \/ LookupMiss(t) \/ LookupStale(t)
         \/ EvictBegin(t) \/ EvictUnlink(t) \/ EvictFinish(t)
         \/ StoreMeasure(t) \/ StoreRoom(t) \/ StoreWrite(t) \/ StoreCommit(t)
  PROVE  Unpinned(t) /\ call[t].pc \notin Reading /\ Transaction
<1>1. call[t].pc \notin Reading /\ call[t].pc # "idle"
  <2>1. \/ call[t].pc = "exists" \/ call[t].pc = "stale" \/ call[t].pc = "begin"
        \/ call[t].pc = "unlink" \/ call[t].pc = "finish" \/ call[t].pc = "measure"
        \/ call[t].pc = "room" \/ call[t].pc = "write" \/ call[t].pc = "commit"
    BY ZenonT(30) DEF LookupHit, LookupMiss, LookupStale, EvictBegin, EvictUnlink,
       EvictFinish, StoreMeasure, StoreRoom, StoreWrite, StoreCommit, At
  <2> QED
    BY <2>1, ZenonT(30) DEF Reading
<1>2. PICK k \in Keys, g \in Keys : k = call[t].key /\ g = Target(t)
  BY <1>1, TargetIsKey, Zenon DEF TierInv, CallInv
<1>3. {"stale", "acquire", "unlink", "finish", "write", "commit", "room", "begin"}
        \subseteq PCs \ Reading
  BY Zenon DEF PCs, Reading
<1>4. CallType
  BY Zenon DEF TierInv
<1>5. CASE LookupHit(t) \/ LookupMiss(t)
  BY <1>1, <1>3, <1>5, GoUnpinned, ReturnUnpinned, Zenon DEF LookupHit, LookupMiss, Transaction
<1>6. CASE LookupStale(t)
  BY <1>1, <1>2, <1>6, ReturnUnpinned, Zenon DEF LookupStale, DropStale, Transaction
<1>7. CASE EvictBegin(t)
  BY <1>1, <1>2, <1>3, <1>7, GoUnpinned, ReturnUnpinned, Zenon DEF EvictBegin, Transaction
<1>8. CASE EvictUnlink(t)
  BY <1>1, <1>3, <1>8, GoUnpinned, ReturnUnpinned, ZenonT(20) DEF EvictUnlink, Transaction
<1>9. CASE EvictFinish(t)
  <2>1. FinishDelete(g, NVMe) /\ files[g] = None
    BY <1>2, <1>9, Zenon DEF EvictFinish, At, TierInv, CallInv
  <2>2. CASE Return(t)
    BY <1>1, <2>1, <2>2, ReturnUnpinned, ZenonT(30) DEF Transaction
  <2>3. CASE call' = [call EXCEPT ![t].pc = "room", ![t].vic = None,
                        ![t].cur = @ - Bytes[blocks[call[t].vic][NVMe].desc]]
    <3> DEFINE cur == call[t].cur - Bytes[blocks[call[t].vic][NVMe].desc]
    <3>1. GoWithVictimAndCur(t, "room", None, cur)
      BY <2>3, ZenonT(30) DEF GoWithVictimAndCur
    <3> HIDE DEF cur
    <3>2. call'[t].pc = "room" /\ \A u \in Threads \ {t} : call'[u] = call[u]
      BY <1>3, <1>4, <3>1, DoneFacts, ZenonT(20)
    <3> QED
      BY <1>1, <1>3, <2>1, <3>2, Zenon DEF Transaction, Unpinned
  <2> QED
    BY <1>9, <2>2, <2>3, Zenon DEF EvictFinish
<1>10. CASE StoreMeasure(t)
  <2> DEFINE cur == IF Active(call[t].key, NVMe) /\ Stored(call[t].key)
                    THEN BytesUsed - Bytes[blocks[call[t].key][NVMe].desc]
                    ELSE BytesUsed
  <2>1. GoWithCur(t, "room", cur)
    BY <1>10, Zenon DEF StoreMeasure, GoWithCur
  <2> HIDE DEF cur
  <2>2. call'[t].pc = "room" /\ \A u \in Threads \ {t} : call'[u] = call[u]
    BY <1>3, <1>4, <2>1, CurFacts, Zenon
  <2>3. DropStale(k)
    BY <1>2, <1>10, Zenon DEF StoreMeasure
  <2> QED
    BY <1>1, <1>3, <2>2, <2>3, Zenon DEF DropStale, Transaction, Unpinned
<1>11. CASE StoreRoom(t)
  <2>1. UNCHANGED mdVars
    BY <1>11, Zenon DEF StoreRoom
  <2>2. ASSUME NEW v \in Keys, call' = [call EXCEPT ![t].pc = "begin", ![t].vic = v]
        PROVE  Unpinned(t)
    <3>1. GoWithVictim(t, "begin", v) /\ v \in Keys \cup {None}
      BY <2>2, Zenon DEF GoWithVictim
    <3>2. call'[t].pc = "begin" /\ \A u \in Threads \ {t} : call'[u] = call[u]
      BY <1>3, <1>4, <3>1, VictimFacts, Zenon
    <3> QED
      BY <1>3, <3>2, Zenon DEF Unpinned
  <2> QED
    BY <1>1, <1>3, <1>11, <2>1, <2>2, GoUnpinned, ReturnUnpinned, Zenon DEF StoreRoom, LruCandidates, Transaction
<1>12. CASE StoreWrite(t)
  BY <1>1, <1>3, <1>12, GoUnpinned, ReturnUnpinned, Zenon DEF StoreWrite, Transaction
<1>13. CASE StoreCommit(t)
  <2>1. PICK d \in Descriptors : d = call[t].val
    BY <1>13, Zenon DEF StoreCommit, At, TierInv, CallInv
  <2> QED
    BY <1>1, <1>2, <1>13, <2>1, ReturnUnpinned, ZenonT(20) DEF StoreCommit, Transaction
<1> QED
  BY <1>5, <1>6, <1>7, <1>8, <1>9, <1>10, <1>11, <1>12, <1>13, Zenon

\* The two checks of a load set its place and its verdict.
LEMMA ReadUpdates ==
  ASSUME NEW t \in Threads, LoadRead(t) \/ LoadVerify(t)
  PROVE  \E pc \in {"verify", "release"}, v \in Verdicts : GoWithVerdict(t, pc, v)
<1>1. CASE LoadRead(t)
  <2> DEFINE f  == files[call[t].key]
             pc == IF f = call[t].want THEN "verify" ELSE "release"
             v  == CASE f = call[t].want -> "none"
                     [] f = None -> "error"
                     [] OTHER -> "corrupt"
  <2>1. pc \in {"verify", "release"} /\ v \in Verdicts
    BY Zenon DEF Verdicts
  <2>2. GoWithVerdict(t, pc, v)
    BY <1>1, Zenon DEF LoadRead, GoWithVerdict
  <2> HIDE DEF pc, v
  <2> QED
    BY <2>1, <2>2, Zenon
<1>2. CASE LoadVerify(t)
  <2> DEFINE v == IF /\ Active(call[t].key, NVMe)
                     /\ blocks[call[t].key][NVMe].desc = call[t].want
                  THEN "ok" ELSE "corrupt"
  <2>1. "release" \in {"verify", "release"} /\ v \in Verdicts
    BY Zenon DEF Verdicts
  <2>2. GoWithVerdict(t, "release", v)
    BY <1>2, ZenonT(30) DEF LoadVerify, GoWithVerdict
  <2> HIDE DEF v
  <2> QED
    BY <2>1, <2>2, Zenon
<1> QED
  BY <1>1, <1>2, Zenon

-----------------------------------------------------------------------------
(* Tombstones *)

\* A transaction removes a tombstone only when its file is gone.
LEMMA TransactionTombstone ==
  ASSUME TierInv, Transaction, NEW k \in Keys, Deleting(k, NVMe), blocks'[k][NVMe] = NoRow
  PROVE  files[k] = None
<1>1. blocks' # blocks
  BY Zenon DEF Deleting
<1>2. CASE \E j \in Keys : Delete(j, NVMe)
  <2>1. PICK j \in Keys : Delete(j, NVMe)
    BY <1>2, Zenon
  <2>2. OthersKept(j, NVMe) /\ j # k
    BY <2>1, RemoveFacts, Zenon DEF TierInv, Delete, Active, Deleting
  <2> QED
    BY <2>2, Zenon DEF OthersKept, Deleting
<1>3. CASE \E j \in Keys : BeginDelete(j, NVMe)
  <2>1. PICK j \in Keys : OthersKept(j, NVMe) /\ blocks'[j][NVMe] # NoRow
    BY <1>3, TombstoneFacts, Zenon DEF TierInv
  <2> QED
    BY <2>1, Zenon DEF OthersKept, Deleting
<1>4. CASE \E j \in Keys : FinishDelete(j, NVMe) /\ files[j] = None
  <2>1. PICK j \in Keys : OthersKept(j, NVMe) /\ files[j] = None
    BY <1>4, RemoveFacts, Zenon DEF TierInv
  <2> QED
    BY <2>1, Zenon DEF OthersKept, Deleting
<1>5. CASE \E j \in Keys, d \in Descriptors : Upsert(j, NVMe, d, j)
  <2>1. PICK j \in Keys, d \in Descriptors : Upsert(j, NVMe, d, j)
    BY <1>5, Zenon
  <2>2. OthersKept(j, NVMe) /\ blocks'[j][NVMe] # NoRow
    BY <2>1, UpsertFacts, Zenon DEF TierInv
  <2> QED
    BY <2>2, Zenon DEF OthersKept, Deleting
<1> QED
  BY <1>1, <1>2, <1>3, <1>4, <1>5, Zenon DEF Transaction, mdVars

\* What another tier's transaction leaves alone.
LEMMA PeerKeepsRows ==
  ASSUME TierInv, PeerTier, NEW k \in Keys PROVE blocks'[k][NVMe] = blocks[k][NVMe]
<1>1. PICK j \in Keys, p \in Tiers \ {NVMe} :
        \/ \E d \in Descriptors : Upsert(j, p, d, j)
        \/ Delete(j, p) \/ BeginDelete(j, p) \/ FinishDelete(j, p)
  BY Zenon DEF PeerTier
<1>2. OthersKept(j, p)
  <2>1. CASE \E d \in Descriptors : Upsert(j, p, d, j)
    BY <2>1, UpsertFacts, Zenon DEF TierInv
  <2>2. CASE Delete(j, p) \/ FinishDelete(j, p)
    BY <2>2, RemoveFacts, Zenon DEF TierInv
  <2>3. CASE BeginDelete(j, p)
    BY <2>3, TombstoneFacts, Zenon DEF TierInv
  <2> QED
    BY <1>1, <2>1, <2>2, <2>3, Zenon
<1> QED
  BY <1>2, Zenon DEF OthersKept

\* The steps of a load between its pin and its release, and what they do to
\* the table.
LEMMA LoadKeepsRows ==
  ASSUME TierInv, NEW t \in Threads,
         LoadAcquire(t) \/ LoadRead(t) \/ LoadVerify(t) \/ LoadRelease(t)
  PROVE  RowsKept
<1>1. PICK k \in Keys : k = call[t].key
  BY Zenon DEF TierInv, CallInv, LoadAcquire, LoadRead, LoadVerify, LoadRelease, At
<1>2. Acquire(k, NVMe) \/ Release(k, NVMe) \/ UNCHANGED mdVars
  BY <1>1, Zenon DEF LoadAcquire, LoadRead, LoadVerify, LoadRelease
<1> QED
  BY <1>2, PinFacts, TableSame, Zenon DEF TierInv

\* evict() removes the file before the row of the tombstone, whatever the other
\* threads, the other tiers, crashes and restarts do in between.
THEOREM TombstoneSafe == Spec => TombstoneOutlivesFile
<1> DEFINE Lasts == \A k \in Keys : Deleting(k, NVMe) /\ blocks'[k][NVMe] = NoRow
                                     => files[k] = None
<1>1. TierInv /\ [Next]_vars => [Lasts]_vars
  <2> SUFFICES ASSUME TierInv, Next, NEW k \in Keys, Deleting(k, NVMe),
                      blocks'[k][NVMe] = NoRow
               PROVE  files[k] = None
    BY Zenon DEF vars
  <2>1. ASSUME RowsKept \/ UNCHANGED mdVars PROVE files[k] = None
    BY <2>1, Zenon DEF RowsKept, Deleting, mdVars
  <2>2. ASSUME NEW t \in Threads, Calls(t) PROVE files[k] = None
    BY <2>2, CallsTransaction, TransactionTombstone, Zenon
  <2>3. ASSUME NEW t \in Threads, Step(t) PROVE files[k] = None
    <3>1. CASE LoadAcquire(t) \/ LoadRead(t) \/ LoadVerify(t) \/ LoadRelease(t)
      BY <2>1, <3>1, LoadKeepsRows, Zenon
    <3>2. CASE ~(LoadAcquire(t) \/ LoadRead(t) \/ LoadVerify(t) \/ LoadRelease(t))
      <4>1. Transaction
        BY <2>3, <3>2, StepTransaction, Zenon DEF Step
      <4> QED
        BY <4>1, TransactionTombstone, Zenon
    <3> QED
      BY <3>1, <3>2, Zenon
  <2>4. CASE PeerTier
    BY <2>4, PeerKeepsRows, Zenon DEF Deleting
  <2>5. CASE (\E j \in Keys : Fault(j)) \/ Crash
    BY <2>5, Zenon DEF Fault, Crash, Close, mdVars, Deleting
  <2>6. CASE Reopen
    BY <2>1, <2>6, OpenFacts, Zenon DEF Reopen, TierInv
  <2> QED
    BY <2>2, <2>3, <2>4, <2>5, <2>6, Zenon DEF Next
<1> QED
  BY <1>1, TierInit, TierStep, PTL DEF Spec, TombstoneOutlivesFile

-----------------------------------------------------------------------------
(* Capacity *)

\* What the blocks other than k take.
OthersBytes(k) == SumFunctionOnSet(RowBytes, Keys \ {k})

\* The running total of _ensure_capacity covers the other blocks.  While a
\* victim's row is a tombstone, the total still counts it; its row is active
\* until then, because the lock is held.  What is about to be committed fits.
CallFits(t) ==
  /\ call[t].cur \in Int
  /\ call[t].vic # None => call[t].pc \in {"begin", "unlink", "finish"}
  /\ call[t].pc \in {"room", "write"} => OthersBytes(call[t].key) <= call[t].cur
  /\ call[t].pc = "write" => Fits(t)
  /\ call[t].pc = "begin" /\ call[t].vic # None =>
       Active(call[t].vic, NVMe) /\ OthersBytes(call[t].key) <= call[t].cur
  /\ call[t].pc \in {"unlink", "finish"} /\ call[t].vic # None =>
       OthersBytes(call[t].key) + Bytes[blocks[call[t].vic][NVMe].desc] <= call[t].cur
  /\ call[t].pc = "commit" =>
       OthersBytes(call[t].key) + Bytes[call[t].val] <= MaxBytes

CapacityInv ==
  /\ BytesUsed <= MaxBytes
  /\ \A t \in Threads : CallFits(t)

\* Sizes are natural numbers.
LEMMA RowBytesType ==
  ASSUME blocks \in Table
  PROVE  \A k \in Keys : RowBytes[k] \in Nat
  BY NVMeAssumption DEF RowBytes, Active, Table, Row

\* The counters are sums of sizes.
LEMMA BytesType ==
  ASSUME blocks \in Table
  PROVE  /\ BytesUsed \in Nat
         /\ \A k \in Keys : OthersBytes(k) \in Nat
         /\ \A k \in Keys : BytesUsed = OthersBytes(k) + RowBytes[k]
<1>1. \A k \in Keys : RowBytes[k] \in Nat
  BY RowBytesType, Zenon
<1>2. IsFiniteSet(Keys) /\ \A k \in Keys : IsFiniteSet(Keys \ {k})
  BY NVMeAssumption, FS_Subset, Zenon
<1> HIDE DEF RowBytes
<1>3. SumFunctionOnSet(RowBytes, Keys) \in Nat
  BY <1>1, <1>2, SumType
<1>4. ASSUME NEW k \in Keys
      PROVE  /\ SumFunctionOnSet(RowBytes, Keys \ {k}) \in Nat
             /\ SumFunctionOnSet(RowBytes, Keys) = RowBytes[k] + SumFunctionOnSet(RowBytes, Keys \ {k})
  BY <1>1, <1>2, SumType, SumSplit
<1> QED
  BY <1>1, <1>3, <1>4 DEF BytesUsed, OthersBytes

\* Nothing changes when no row changes its state or its descriptor.
LEMMA KeptBytes ==
  ASSUME RowsKept
  PROVE  RowBytes' = RowBytes /\ BytesUsed' = BytesUsed
         /\ \A k \in Keys : OthersBytes(k)' = OthersBytes(k)
<1>1. RowBytes' = RowBytes
  BY KeptQueries, Zenon DEF RowBytes
<1> HIDE DEF RowBytes
<1> QED
  BY <1>1, Zenon DEF BytesUsed, OthersBytes

\* One row of this tier changes.
LEMMA RowChangesBytes ==
  ASSUME blocks \in Table, blocks' \in Table, NEW k \in Keys, OthersKept(k, NVMe)
  PROVE  /\ OthersBytes(k)' = OthersBytes(k)
         /\ BytesUsed' = OthersBytes(k) + RowBytes'[k]
         /\ \A j \in Keys \ {k} : OthersBytes(j)' = OthersBytes(j) - RowBytes[k] + RowBytes'[k]
         /\ RowBytes'[k] \in Nat
<1> DEFINE w == RowBytes
           v == RowBytes'
<1>1. \A j \in Keys : w[j] \in Int /\ v[j] \in Int /\ v[j] \in Nat
  <2>1. \A j \in Keys : RowBytes[j] \in Nat
    BY RowBytesType, Zenon
  <2>2. \A j \in Keys : RowBytes'[j] \in Nat
    BY NVMeAssumption DEF RowBytes, Active, Table, Row
  <2> QED
    BY <2>1, <2>2
<1>2. \A j \in Keys \ {k} : v[j] = w[j]
  BY Zenon DEF OthersKept, RowBytes, Active
<1>3. IsFiniteSet(Keys) /\ \A j \in Keys : IsFiniteSet(Keys \ {j})
  BY NVMeAssumption, FS_Subset, Zenon
<1>4. ASSUME NEW j \in Keys
      PROVE  /\ OthersBytes(j) = SumFunctionOnSet(w, Keys \ {j})
             /\ OthersBytes(j)' = SumFunctionOnSet(v, Keys \ {j})
  BY Zenon DEF OthersBytes
<1>5. BytesUsed' = SumFunctionOnSet(v, Keys)
  BY Zenon DEF BytesUsed
<1> HIDE DEF w, v
<1>6. SumFunctionOnSet(v, Keys \ {k}) = SumFunctionOnSet(w, Keys \ {k})
  BY <1>1, <1>2, <1>3, SumOfEquals, Zenon
<1>7. \A j \in Keys \ {k} : SumFunctionOnSet(v, Keys \ {j}) = SumFunctionOnSet(w, Keys \ {j}) - w[k] + v[k]
  BY <1>1, <1>2, <1>3, SumUpdate
<1>8. /\ SumFunctionOnSet(v, Keys) = v[k] + SumFunctionOnSet(v, Keys \ {k})
      /\ SumFunctionOnSet(v, Keys \ {k}) \in Int
  BY <1>1, <1>3, SumSplit, SumType
<1>9. BytesUsed' = SumFunctionOnSet(w, Keys \ {k}) + v[k]
  BY <1>1, <1>5, <1>6, <1>8
<1>10. w = RowBytes /\ v = RowBytes'
  BY Zenon DEF w, v
<1> QED
  BY <1>1, <1>4, <1>6, <1>7, <1>9, <1>10, Zenon

\* A call whose thread does nothing keeps its part: it holds the lock, or
\* nothing is said of it.
LEMMA FitsKept ==
  ASSUME TierInv, CapacityInv, NEW u \in Threads, call'[u] = call[u],
         mutation # u \/ RowsKept
  PROVE  CallFits(u)'
<1>1. CallFits(u) /\ CallInv(u)
  BY Zenon DEF TierInv, CapacityInv
<1>2. CASE mutation # u
  BY <1>1, <1>2, Zenon DEF CallInv, CallFits
<1>3. CASE RowsKept
  <2>1. \A k \in Keys : /\ OthersBytes(k)' = OthersBytes(k)
                        /\ Active(k, NVMe)' <=> Active(k, NVMe)
    BY <1>3, KeptBytes, KeptQueries, Zenon
  <2>2. call[u].vic # None => blocks'[call[u].vic][NVMe].desc = blocks[call[u].vic][NVMe].desc
    BY <1>1, <1>3, ZenonT(30) DEF CallInv, CallFits, RowsKept, Active, Deleting, Target
  <2>3. Fits(u)' <=> Fits(u)
    BY Zenon DEF Fits
  <2>4. call[u].pc # "idle" => OthersBytes(call[u].key)' = OthersBytes(call[u].key)
    <3> SUFFICES ASSUME call[u].pc # "idle"
                 PROVE  OthersBytes(call[u].key)' = OthersBytes(call[u].key)
      BY Zenon
    <3>1. call[u].key \in Keys
      BY <1>1, Zenon DEF CallInv
    <3> QED
      BY <1>3, <3>1, KeptBytes, Zenon DEF OthersBytes
  <2>5. call[u].vic # None => (Active(call[u].vic, NVMe)' <=> Active(call[u].vic, NVMe))
    BY <1>1, <2>1, ZenonT(30) DEF CallInv, Active
  <2> QED
    BY <1>1, <2>2, <2>3, <2>4, <2>5, Zenon DEF CallFits
<1> QED
  BY <1>2, <1>3, Zenon

\* A step of thread t, put together.
LEMMA FitsAssemble ==
  ASSUME TierInv, CapacityInv, NEW t \in Threads,
         \A u \in Threads \ {t} : call'[u] = call[u],
         MayLock(t) \/ RowsKept, CallFits(t)', BytesUsed' <= MaxBytes
  PROVE  CapacityInv'
<1>1. ASSUME NEW u \in Threads, u # t PROVE CallFits(u)'
  <2>1. call'[u] = call[u] /\ (mutation # u \/ RowsKept)
    BY <1>1, Zenon DEF MayLock
  <2> QED
    BY <2>1, FitsKept, Zenon
<1> QED
  BY <1>1, Zenon DEF CapacityInv

\* No more than what was published is published.
LEMMA FewerBytes ==
  ASSUME TierInv, CapacityInv, blocks' \in Table,
         \/ RowsKept
         \/ \E k \in Keys : OthersKept(k, NVMe) /\ ~Active(k, NVMe)'
         \/ \E k \in Keys : OthersKept(k, NVMe) /\ blocks'[k][NVMe] = blocks[k][NVMe]
  PROVE  BytesUsed' <= MaxBytes
<1>1. CASE RowsKept
  BY <1>1, KeptBytes, Zenon DEF CapacityInv
<1>2. ASSUME NEW k \in Keys, OthersKept(k, NVMe),
             ~Active(k, NVMe)' \/ blocks'[k][NVMe] = blocks[k][NVMe]
      PROVE  BytesUsed' <= MaxBytes
  <2>1. BytesUsed' = OthersBytes(k) + RowBytes'[k] /\ RowBytes'[k] \in Nat
    BY <1>2, RowChangesBytes, Zenon DEF TierInv
  <2>2. BytesUsed = OthersBytes(k) + RowBytes[k] /\ RowBytes[k] \in Nat /\ OthersBytes(k) \in Nat
    BY BytesType, RowBytesType, Zenon DEF TierInv
  <2>3. RowBytes'[k] = 0 \/ RowBytes'[k] = RowBytes[k]
    BY <1>2, Zenon DEF RowBytes, Active
  <2> QED
    BY <2>1, <2>2, <2>3, NVMeAssumption, SMTT(30) DEF CapacityInv
<1> QED
  BY <1>1, <1>2, Zenon

\* Arithmetic of a running total.
LEMMA TotalStays ==
  ASSUME NEW a \in Nat, NEW b \in Int, NEW c \in Nat, NEW m \in Nat, a <= b, b + c <= m
  PROVE  a + c <= m
  OBVIOUS

\* What a victim no longer counts and what is still added for it cancel out.
LEMMA TotalMoves ==
  ASSUME NEW a \in Nat, NEW b \in Int, NEW c \in Nat, a <= b
  PROVE  (a - c + 0) + c <= b
  OBVIOUS

\* A call that is not about room asks for nothing.
LEMMA PlainFits ==
  ASSUME NEW t \in Threads, call'[t].pc \notin {"room", "write", "commit"},
         call'[t].vic = None, call'[t].cur \in Int
  PROVE  CallFits(t)'
  BY Zenon DEF CallFits

\* A step of thread t that ends its call.
LEMMA ReturnFits ==
  ASSUME TierInv, CapacityInv, NEW t \in Threads, Return(t),
         MayLock(t) \/ RowsKept, BytesUsed' <= MaxBytes
  PROVE  CapacityInv'
<1>1. call'[t] = Idle /\ \A u \in Threads \ {t} : call'[u] = call[u]
  BY ReturnFacts, Zenon DEF TierInv
<1>2. CallFits(t)'
  <2>1. Idle.pc = "idle" /\ Idle.vic = None /\ Idle.cur \in Int
    BY DEF Idle, NewCall
  <2>2. call'[t].pc \notin {"room", "write", "commit"}
    BY <1>1, <2>1, Zenon
  <2> QED
    BY <1>1, <2>1, <2>2, PlainFits, Zenon
<1> QED
  BY <1>1, <1>2, FitsAssemble, ZenonT(30)

\* What DropStale does to the counters.
LEMMA DropBytes ==
  ASSUME TierInv, CapacityInv, NEW k \in Keys, DropStale(k), UNCHANGED <<files, damaged>>
  PROVE  /\ BytesUsed' <= MaxBytes
         /\ OthersBytes(k)' = OthersBytes(k)
<1>1. /\ blocks' \in Table /\ OthersKept(k, NVMe)
      /\ blocks'[k][NVMe] \in {NoRow, blocks[k][NVMe]}
  BY DropFacts, ZenonT(30)
<1>2. ~Active(k, NVMe)' \/ blocks'[k][NVMe] = blocks[k][NVMe]
  BY <1>1, Zenon DEF Active
<1> QED
  BY <1>1, <1>2, FewerBytes, RowChangesBytes, Zenon DEF TierInv

\* Starting a call.
LEMMA CallsFit ==
  ASSUME TierInv, CapacityInv, NEW t \in Threads, Calls(t)
  PROVE  CapacityInv'
<1>1. PICK k \in Keys : \/ \E op \in {"lookup", "load"} : LookupCall(t, k, op)
                         \/ EvictCall(t, k)
                         \/ \E d \in Descriptors : StoreCall(t, k, d)
  BY Zenon DEF Calls
<1>2. CallType /\ None \in Payloads /\ Descriptors \subseteq Payloads
  BY Zenon DEF TierInv, Payloads
<1>3. ASSUME NEW pc \in {"exists", "begin", "measure"}, NEW op \in Ops, NEW d \in Payloads,
             call' = [call EXCEPT ![t] = NewCall(pc, op, k, d)],
             MayLock(t) \/ RowsKept, BytesUsed' <= MaxBytes
      PROVE  CapacityInv'
  <2>1. NewCall(pc, op, k, d) \in CallRecords({0})
    BY NewCallIsCall, Zenon DEF PCs
  <2>2. call'[t] = NewCall(pc, op, k, d) /\ \A u \in Threads \ {t} : call'[u] = call[u]
    BY <1>2, <1>3, <2>1, ReplaceFacts, ZenonT(30)
  <2>3. CallFits(t)'
    BY <2>2, PlainFits, SMTT(30) DEF NewCall
  <2> QED
    BY <1>3, <2>2, <2>3, FitsAssemble, Zenon
<1>4. ASSUME UNCHANGED mdVars PROVE RowsKept /\ BytesUsed' <= MaxBytes
  BY <1>4, TableSame, FewerBytes, Zenon
<1>5. CASE \E op \in {"lookup", "load"} : LookupCall(t, k, op)
  <2>1. PICK op \in {"lookup", "load"} : LookupCall(t, k, op)
    BY <1>5, Zenon
  <2>2. op \in Ops /\ call' = [call EXCEPT ![t] = NewCall("exists", op, k, None)] /\ UNCHANGED mdVars
    BY <2>1, Zenon DEF Ops, LookupCall
  <2> QED
    BY <1>2, <1>3, <1>4, <2>2, Zenon
<1>6. CASE EvictCall(t, k)
  <2>1. "evict" \in Ops /\ call' = [call EXCEPT ![t] = NewCall("begin", "evict", k, None)]
        /\ UNCHANGED mdVars
    BY <1>6, Zenon DEF Ops, EvictCall
  <2> QED
    BY <1>2, <1>3, <1>4, <2>1, Zenon
<1>7. CASE \E d \in Descriptors : StoreCall(t, k, d)
  <2>1. PICK d \in Descriptors : StoreCall(t, k, d)
    BY <1>7, Zenon
  <2>2. PICK pc \in {"exists", "measure"} :
          call' = [call EXCEPT ![t] = NewCall(pc, "store", k, d)]
    BY <2>1, Zenon DEF StoreCall
  <2>3. "store" \in Ops /\ d \in Payloads /\ MayLock(t) /\ BytesUsed' <= MaxBytes
    BY <1>2, <2>1, DropBytes, Zenon DEF Ops, StoreCall, MayLock
  <2> QED
    BY <1>3, <2>2, <2>3, ZenonT(30)
<1> QED
  BY <1>1, <1>5, <1>6, <1>7, Zenon

\* The steps of lookup() and load(), which have no victim.
LEMMA LoadsFit ==
  ASSUME TierInv, CapacityInv, NEW t \in Threads,
         \/ LookupHit(t) \/ LookupMiss(t) \/ LookupStale(t)
         \/ LoadAcquire(t) \/ LoadRead(t) \/ LoadVerify(t) \/ LoadRelease(t)
  PROVE  CapacityInv'
<1>1. PICK k \in Keys : k = call[t].key
  BY Zenon DEF TierInv, CallInv, LookupHit, LookupMiss, LookupStale, LoadAcquire, LoadRead,
         LoadVerify, LoadRelease, At
<1>2. /\ call[t].cur \in Int /\ CallType /\ CallInv(t)
      /\ call[t].pc \in {"exists", "stale", "acquire", "read", "verify", "release"} =>
           call[t].vic = None
  BY ZenonT(30) DEF TierInv, CapacityInv, CallFits
<1>3. call[t].vic = None
  BY <1>2, Zenon DEF LookupHit, LookupMiss, LookupStale, LoadAcquire, LoadRead, LoadVerify,
              LoadRelease, At
<1>4. ASSUME RowsKept, \A u \in Threads \ {t} : call'[u] = call[u],
             call'[t].pc \notin {"room", "write", "commit"}, call'[t].vic = call[t].vic,
             call'[t].cur = call[t].cur
      PROVE  CapacityInv'
  BY <1>2, <1>3, <1>4, PlainFits, KeptBytes, FitsAssemble, Zenon DEF CapacityInv
<1>5. ASSUME RowsKept, Return(t) PROVE CapacityInv'
  BY <1>5, KeptBytes, ReturnFits, Zenon DEF CapacityInv
<1>6. ASSUME RowsKept, NEW pc \in {"acquire", "stale", "begin"}, Go(t, pc) PROVE CapacityInv'
  <2>1. pc \in PCs
    BY Zenon DEF PCs
  <2> QED
    BY <1>2, <1>4, <1>6, <2>1, GoFacts, Zenon
<1>7. CASE LookupHit(t) \/ LookupMiss(t)
  BY <1>5, <1>6, <1>7, TableSame, Zenon DEF LookupHit, LookupMiss
<1>8. CASE LookupStale(t)
  <2>1. DropStale(k) /\ UNCHANGED <<files, damaged>> /\ Return(t) /\ MayLock(t)
    BY <1>1, <1>8, Zenon DEF LookupStale
  <2> QED
    BY <2>1, DropBytes, ReturnFits, Zenon
<1>9. CASE LoadAcquire(t)
  <2>1. CASE /\ Acquire(k, NVMe)
             /\ call' = [call EXCEPT ![t].pc = "read", ![t].want = blocks[k][NVMe].desc]
    <3>1. PICK d \in Descriptors : d = blocks[k][NVMe].desc
      BY <2>1 DEF TierInv, Table, Row, Acquire, Active
    <3>2. "read" \in PCs /\ d \in Payloads /\ GoWithWant(t, "read", d)
      BY <2>1, <3>1, Zenon DEF PCs, Payloads, GoWithWant
    <3>3. RowsKept
      BY <2>1, PinFacts, Zenon DEF TierInv
    <3> QED
      <4>1. /\ \A u \in Threads \ {t} : call'[u] = call[u]
            /\ call'[t].pc = "read" /\ call'[t].vic = call[t].vic /\ call'[t].cur = call[t].cur
        BY <1>2, <3>2, WantFacts, Zenon
      <4> QED
        BY <1>2, <1>4, <3>3, <4>1, Zenon
  <2>2. CASE Return(t) /\ UNCHANGED mdVars
    BY <1>5, <2>2, TableSame, Zenon
  <2> QED
    BY <1>1, <1>9, <2>1, <2>2, Zenon DEF LoadAcquire
<1>10. CASE LoadRead(t) \/ LoadVerify(t)
  <2>1. PICK pc \in {"verify", "release"}, v \in Verdicts : GoWithVerdict(t, pc, v)
    BY <1>10, ReadUpdates, Zenon
  <2>2. pc \in PCs /\ RowsKept
    BY <1>10, TableSame, Zenon DEF PCs, LoadRead, LoadVerify
  <2> QED
    BY <1>2, <1>4, <2>1, <2>2, VerdictFacts, Zenon
<1>11. CASE LoadRelease(t)
  <2>1. RowsKept /\ call[t].pc = "release"
    BY <1>1, <1>11, PinFacts, Zenon DEF LoadRelease, TierInv, At
  <2>2. CASE Go(t, "begin") \/ Return(t)
    BY <1>5, <1>6, <2>1, <2>2, Zenon
  <2>3. CASE /\ call[t].verdict = "ok" /\ call[t].op = "store" /\ call[t].val = call[t].want
             /\ Go(t, "commit")
    <3>1. /\ \A u \in Threads \ {t} : call'[u] = call[u]
          /\ call'[t].pc = "commit" /\ call'[t].key = call[t].key
          /\ call'[t].val = call[t].val /\ call'[t].vic = call[t].vic
          /\ call'[t].cur = call[t].cur
      BY <1>2, <2>3, GoFacts, Zenon DEF PCs
    <3>2. Active(k, NVMe) /\ blocks[k][NVMe].desc = call[t].val
      BY <1>1, <1>2, <2>1, <2>3, Zenon DEF CallInv
    <3>3. OthersBytes(k) + Bytes[call[t].val] <= MaxBytes
      <4>1. RowBytes[k] = Bytes[call[t].val]
        BY <3>2, Zenon DEF RowBytes
      <4>2. BytesUsed = OthersBytes(k) + RowBytes[k] /\ BytesUsed <= MaxBytes
        BY BytesType, Zenon DEF TierInv, CapacityInv
      <4> QED
        BY <4>1, <4>2, ZenonT(30)
    <3>4. OthersBytes(k)' = OthersBytes(k) /\ BytesUsed' = BytesUsed
      BY <2>1, KeptBytes, Zenon
    <3>5. OthersBytes(call[t].key)' = OthersBytes(k)
      BY <1>1, <3>1, <3>4, Zenon DEF OthersBytes
    <3>6. CallFits(t)'
      BY <1>2, <1>3, <3>1, <3>3, <3>5, Zenon DEF CallFits
    <3> QED
      BY <2>1, <3>1, <3>4, <3>6, FitsAssemble, Zenon DEF CapacityInv
  <2> QED
    BY <1>11, <2>2, <2>3, Zenon DEF LoadRelease
<1> QED
  BY <1>7, <1>8, <1>9, <1>10, <1>11, Zenon

\* The steps of an eviction.
LEMMA EvictsFit ==
  ASSUME TierInv, CapacityInv, NEW t \in Threads,
         EvictBegin(t) \/ EvictUnlink(t) \/ EvictFinish(t)
  PROVE  CapacityInv'
<1>1. call[t].pc \in {"begin", "unlink", "finish"}
  BY Zenon DEF EvictBegin, EvictUnlink, EvictFinish, At
<1>2. PICK k \in Keys, g \in Keys : k = call[t].key /\ g = Target(t)
  BY <1>1, TargetIsKey, Zenon DEF TierInv, CallInv
<1>3. /\ CallType /\ CallInv(t) /\ CallFits(t)
      /\ call[t].vic # None => g = call[t].vic /\ k # g
      /\ {"unlink", "finish", "room"} \subseteq PCs
  BY <1>2, ZenonT(30) DEF TierInv, CapacityInv, CallInv, Target, PCs
<1>4. /\ OthersBytes(k) \in Nat /\ RowBytes[g] \in Nat
      /\ \A j \in Keys : blocks[j][NVMe] # NoRow => Bytes[blocks[j][NVMe].desc] \in Nat
  <2>1. blocks \in Table
    BY Zenon DEF TierInv
  <2>2. OthersBytes(k) \in Nat /\ RowBytes[g] \in Nat
    BY <2>1, BytesType, RowBytesType, Zenon
  <2>3. ASSUME NEW j \in Keys, blocks[j][NVMe] # NoRow
        PROVE  Bytes[blocks[j][NVMe].desc] \in Nat
    BY <2>1, <2>3, NVMeAssumption DEF Table, Row
  <2> QED
    BY <2>2, <2>3, Zenon
<1>5. CASE EvictBegin(t)
  <2>1. CASE BeginDelete(g, NVMe) /\ Go(t, "unlink")
    <3>1. /\ blocks' \in Table /\ OthersKept(g, NVMe) /\ ~Active(g, NVMe)'
          /\ blocks'[g][NVMe].desc = blocks[g][NVMe].desc
      BY <2>1, TombstoneFacts, Zenon DEF TierInv, Active
    <3>2. /\ \A u \in Threads \ {t} : call'[u] = call[u]
          /\ call'[t].pc = "unlink" /\ call'[t].key = k
          /\ call'[t].vic = call[t].vic /\ call'[t].cur = call[t].cur
      BY <1>2, <1>3, <2>1, GoFacts, Zenon
    <3>3. BytesUsed' <= MaxBytes /\ MayLock(t)
      BY <1>5, <3>1, FewerBytes, ZenonT(30) DEF EvictBegin
    <3>4. call[t].vic # None =>
            OthersBytes(k)' + Bytes[blocks'[g][NVMe].desc] <= call[t].cur
      <4> SUFFICES ASSUME call[t].vic # None
                   PROVE  OthersBytes(k)' + Bytes[blocks'[g][NVMe].desc] <= call[t].cur
        BY Zenon
      <4>1. Active(g, NVMe) /\ OthersBytes(k) <= call[t].cur /\ call[t].cur \in Int
        BY <1>2, <1>3, <1>5, Zenon DEF CallFits, EvictBegin, At
      <4>2. RowBytes[g] = Bytes[blocks[g][NVMe].desc] /\ RowBytes'[g] = 0
        BY <3>1, <4>1, Zenon DEF RowBytes
      <4>3. OthersBytes(k)' = OthersBytes(k) - RowBytes[g] + RowBytes'[g]
        BY <1>3, <3>1, RowChangesBytes, Zenon DEF TierInv
      <4>4. (OthersBytes(k) - RowBytes[g] + 0) + RowBytes[g] <= call[t].cur
        BY <1>4, <4>1, TotalMoves, Zenon
      <4> QED
        BY <3>1, <4>2, <4>3, <4>4, Zenon
    <3>5. OthersBytes(call[t].key)' = OthersBytes(k)'
      BY <1>2, <3>2, Zenon DEF OthersBytes
    <3>6. CallFits(t)'
      BY <1>3, <3>2, <3>4, <3>5, Zenon DEF CallFits
    <3> QED
      BY <3>2, <3>3, <3>6, FitsAssemble, Zenon
  <2>2. CASE Return(t) /\ UNCHANGED mdVars
    BY <2>2, TableSame, FewerBytes, ReturnFits, Zenon
  <2> QED
    BY <1>2, <1>5, <2>1, <2>2, Zenon DEF EvictBegin
<1>6. CASE EvictUnlink(t)
  <2>1. RowsKept /\ blocks' = blocks /\ blocks' \in Table
    BY <1>6, TableSame, Zenon DEF EvictUnlink, mdVars
  <2>2. CASE Return(t)
    BY <2>1, <2>2, FewerBytes, ReturnFits, Zenon
  <2>3. CASE Go(t, "finish")
    <3>1. /\ \A u \in Threads \ {t} : call'[u] = call[u]
          /\ call'[t].pc = "finish" /\ call'[t].key = k
          /\ call'[t].vic = call[t].vic /\ call'[t].cur = call[t].cur
      BY <1>2, <1>3, <2>3, GoFacts, ZenonT(30)
    <3>2. OthersBytes(call[t].key)' = OthersBytes(k)
      BY <1>2, <2>1, <3>1, KeptBytes, Zenon DEF OthersBytes
    <3>3. CallFits(t)'
      BY <1>2, <1>3, <1>6, <2>1, <3>1, <3>2, ZenonT(30) DEF CallFits, EvictUnlink, At
    <3> QED
      BY <2>1, <3>1, <3>3, FewerBytes, FitsAssemble, Zenon
  <2> QED
    BY <1>6, <2>2, <2>3, Zenon DEF EvictUnlink
<1>7. CASE EvictFinish(t)
  <2>1. FinishDelete(g, NVMe) /\ Deleting(g, NVMe) /\ MayLock(t)
    BY <1>2, <1>3, <1>7, Zenon DEF EvictFinish, FinishDelete, CallInv, At, MayLock
  <2>2. blocks' \in Table /\ OthersKept(g, NVMe) /\ blocks'[g][NVMe] = NoRow
    BY <2>1, RemoveFacts, ZenonT(30) DEF TierInv
  <2>3. BytesUsed' <= MaxBytes
    BY <2>2, FewerBytes, Zenon DEF Active
  <2>4. CASE /\ call[t].vic # None
             /\ call' = [call EXCEPT ![t].pc = "room", ![t].vic = None,
                           ![t].cur = @ - Bytes[blocks[call[t].vic][NVMe].desc]]
    <3> DEFINE cur == call[t].cur - Bytes[blocks[call[t].vic][NVMe].desc]
    <3>1. GoWithVictimAndCur(t, "room", None, cur)
      BY <2>4, ZenonT(30) DEF GoWithVictimAndCur
    <3>2. OthersBytes(k) <= cur /\ cur \in Int
      <4>1. call[t].pc = "finish" /\ call[t].vic = g /\ k = call[t].key
        BY <1>2, <1>3, <1>7, <2>4, Zenon DEF EvictFinish, At
      <4>2. OthersBytes(k) + Bytes[blocks[g][NVMe].desc] <= call[t].cur /\ call[t].cur \in Int
        BY <1>3, <2>4, <4>1, Zenon DEF CallFits
      <4>3. Bytes[blocks[g][NVMe].desc] \in Nat
        BY <1>4, <2>1, Zenon DEF Deleting
      <4> QED
        BY <1>4, <4>1, <4>2, <4>3
    <3> HIDE DEF cur
    <3>3. /\ \A u \in Threads \ {t} : call'[u] = call[u]
          /\ call'[t].pc = "room" /\ call'[t].vic = None /\ call'[t].key = k
          /\ call'[t].cur = cur
      BY <1>2, <1>3, <3>1, RoomAgain, Zenon
    <3>4. OthersBytes(k)' = OthersBytes(k)
      <4>1. RowBytes[g] = 0 /\ RowBytes'[g] = 0
        BY <2>1, <2>2, Zenon DEF RowBytes, Active, Deleting
      <4> QED
        BY <1>3, <1>4, <2>2, <2>4, <4>1, RowChangesBytes DEF TierInv
    <3>5. OthersBytes(call[t].key)' = OthersBytes(k)
      BY <3>3, <3>4, Zenon DEF OthersBytes
    <3>6. CallFits(t)'
      BY <3>2, <3>3, <3>5, Zenon DEF CallFits
    <3> QED
      BY <2>1, <2>3, <3>3, <3>6, FitsAssemble, Zenon
  <2>5. CASE Return(t)
    BY <2>1, <2>3, <2>5, ReturnFits, Zenon
  <2> QED
    BY <1>7, <2>4, <2>5, Zenon DEF EvictFinish
<1> QED
  BY <1>5, <1>6, <1>7, Zenon

\* The steps of a store.
LEMMA StoresFit ==
  ASSUME TierInv, CapacityInv, NEW t \in Threads,
         StoreMeasure(t) \/ StoreRoom(t) \/ StoreWrite(t) \/ StoreCommit(t)
  PROVE  CapacityInv'
<1>1. call[t].pc \in {"measure", "room", "write", "commit"}
  BY Zenon DEF StoreMeasure, StoreRoom, StoreWrite, StoreCommit, At
<1>2. /\ CallType /\ CallInv(t) /\ CallFits(t) /\ mutation = t
      /\ {"room", "write", "begin", "commit"} \subseteq PCs
  BY <1>1, Zenon DEF TierInv, CapacityInv, CallInv, PCs
<1>3. PICK k \in Keys, d \in Descriptors :
        k = call[t].key /\ d = call[t].val /\ call[t].vic = None /\ call[t].cur \in Int
  BY <1>1, <1>2, Zenon DEF CallInv, CallFits
<1>4. /\ OthersBytes(k) \in Nat /\ RowBytes[k] \in Nat /\ BytesUsed = OthersBytes(k) + RowBytes[k]
      /\ Bytes[d] \in Nat /\ MaxBytes \in Nat /\ MayLock(t)
  BY <1>2, BytesType, RowBytesType, NVMeAssumption, Zenon DEF TierInv, MayLock
<1>5. ASSUME UNCHANGED mdVars
      PROVE  /\ RowsKept /\ BytesUsed' <= MaxBytes
             /\ call'[t].key = k => OthersBytes(call[t].key)' = OthersBytes(k)
  BY <1>5, TableSame, FewerBytes, KeptBytes, ZenonT(30) DEF OthersBytes
<1>6. CASE StoreMeasure(t)
  <2> DEFINE cur == IF Active(call[t].key, NVMe) /\ Stored(call[t].key)
                    THEN BytesUsed - Bytes[blocks[call[t].key][NVMe].desc]
                    ELSE BytesUsed
  <2>1. GoWithCur(t, "room", cur)
    BY <1>6, Zenon DEF StoreMeasure, GoWithCur
  <2>2. OthersBytes(k) <= cur /\ cur \in Int
    <3>1. Active(k, NVMe) => RowBytes[k] = Bytes[blocks[k][NVMe].desc]
      BY Zenon DEF RowBytes
    <3>2. CASE Active(k, NVMe) /\ Stored(k)
      <4>1. cur = BytesUsed - RowBytes[k]
        BY <1>3, <3>1, <3>2, Zenon
      <4> HIDE DEF cur
      <4> QED
        BY <1>4, <4>1, SMTT(30)
    <3>3. CASE ~(Active(k, NVMe) /\ Stored(k))
      <4>1. cur = BytesUsed
        BY <1>3, <3>3, Zenon
      <4> HIDE DEF cur
      <4> QED
        BY <1>4, <4>1, SMTT(30)
    <3> QED
      BY <3>2, <3>3, ZenonT(30)
  <2> HIDE DEF cur
  <2>3. /\ \A u \in Threads \ {t} : call'[u] = call[u]
        /\ call'[t].pc = "room" /\ call'[t].vic = None /\ call'[t].key = k
        /\ call'[t].cur = cur
    BY <1>2, <1>3, <2>1, CurFacts
  <2>4. BytesUsed' <= MaxBytes /\ OthersBytes(k)' = OthersBytes(k)
    BY <1>3, <1>6, DropBytes, Zenon DEF StoreMeasure
  <2>5. OthersBytes(call[t].key)' = OthersBytes(k)
    BY <2>3, <2>4, Zenon DEF OthersBytes
  <2>6. CallFits(t)'
    BY <2>2, <2>3, <2>5, Zenon DEF CallFits
  <2> QED
    BY <1>4, <2>3, <2>4, <2>6, FitsAssemble, Zenon
<1>7. CASE StoreRoom(t)
  <2>1. RowsKept /\ BytesUsed' <= MaxBytes
    BY <1>5, <1>7, Zenon DEF StoreRoom
  <2>2. CASE Fits(t) /\ Go(t, "write")
    <3>1. /\ \A u \in Threads \ {t} : call'[u] = call[u]
          /\ call'[t].pc = "write" /\ call'[t].vic = None /\ call'[t].key = k
          /\ call'[t].cur = call[t].cur /\ call'[t].val = call[t].val
      BY <1>2, <1>3, <2>2, GoFacts, Zenon
    <3>2. Fits(t)' /\ OthersBytes(call[t].key)' = OthersBytes(k)
      BY <1>5, <1>7, <2>2, <3>1, Zenon DEF Fits, StoreRoom
    <3>3. OthersBytes(k) <= call[t].cur
      BY <1>2, <1>3, <1>7, Zenon DEF CallFits, StoreRoom, At
    <3>4. CallFits(t)'
      BY <1>3, <3>1, <3>2, <3>3, Zenon DEF CallFits
    <3> QED
      BY <2>1, <3>1, <3>4, FitsAssemble, Zenon
  <2>3. ASSUME NEW v \in LruCandidates(NVMe),
               call' = [call EXCEPT ![t].pc = "begin", ![t].vic = v]
        PROVE  CapacityInv'
    <3>1. v \in Keys /\ Active(v, NVMe) /\ GoWithVictim(t, "begin", v)
      BY <2>3, Zenon DEF LruCandidates, GoWithVictim
    <3>2. /\ \A u \in Threads \ {t} : call'[u] = call[u]
          /\ call'[t].pc = "begin" /\ call'[t].vic = v /\ call'[t].key = k
          /\ call'[t].cur = call[t].cur
      BY <1>2, <1>3, <3>1, VictimChosen, Zenon
    <3>3. OthersBytes(call[t].key)' = OthersBytes(k) /\ Active(v, NVMe)'
      BY <1>5, <1>7, <3>1, <3>2, KeptQueries, Zenon DEF StoreRoom
    <3>4. OthersBytes(k) <= call[t].cur
      BY <1>2, <1>3, <1>7, Zenon DEF CallFits, StoreRoom, At
    <3>5. CallFits(t)'
      BY <1>3, <3>2, <3>3, <3>4, Zenon DEF CallFits, Active
    <3> QED
      BY <2>1, <3>2, <3>5, FitsAssemble, Zenon
  <2>4. CASE Return(t)
    BY <2>1, <2>4, ReturnFits, Zenon
  <2> QED
    BY <1>7, <2>2, <2>3, <2>4, Zenon DEF StoreRoom
<1>8. CASE StoreWrite(t)
  <2>1. RowsKept /\ BytesUsed' <= MaxBytes
    BY <1>5, <1>8, Zenon DEF StoreWrite
  <2>2. CASE Go(t, "commit")
    <3>1. /\ \A u \in Threads \ {t} : call'[u] = call[u]
          /\ call'[t].pc = "commit" /\ call'[t].vic = None /\ call'[t].key = k
          /\ call'[t].cur = call[t].cur /\ call'[t].val = d
      BY <1>2, <1>3, <2>2, GoFacts, Zenon
    <3>2. OthersBytes(call[t].key)' = OthersBytes(k)
      BY <1>5, <1>8, <3>1, Zenon DEF StoreWrite
    <3>3. OthersBytes(k) <= call[t].cur /\ call[t].cur + Bytes[d] <= MaxBytes
      BY <1>2, <1>3, <1>8, Zenon DEF CallFits, StoreWrite, At, Fits
    <3>4. OthersBytes(k) + Bytes[d] <= MaxBytes
      BY <1>3, <1>4, <3>3, TotalStays, Zenon
    <3>5. CallFits(t)'
      BY <1>3, <3>1, <3>2, <3>4, Zenon DEF CallFits
    <3> QED
      BY <2>1, <3>1, <3>5, FitsAssemble, Zenon
  <2>3. CASE Return(t)
    BY <2>1, <2>3, ReturnFits, Zenon
  <2> QED
    BY <1>8, <2>2, <2>3, Zenon DEF StoreWrite
<1>9. CASE StoreCommit(t)
  <2>1. CASE Upsert(k, NVMe, d, k)
    <3>1. /\ blocks' \in Table /\ OthersKept(k, NVMe)
          /\ Active(k, NVMe)' /\ blocks'[k][NVMe].desc = d
      BY <2>1, UpsertFacts, Zenon DEF TierInv, Active
    <3>2. BytesUsed' = OthersBytes(k) + RowBytes'[k]
      BY <3>1, RowChangesBytes, ZenonT(30) DEF TierInv
    <3>3. RowBytes'[k] = Bytes[d]
      BY <3>1, Zenon DEF RowBytes
    <3>4. OthersBytes(k) + Bytes[d] <= MaxBytes
      BY <1>2, <1>3, <1>9, Zenon DEF CallFits, StoreCommit, At
    <3> QED
      BY <1>4, <1>9, <3>2, <3>3, <3>4, ReturnFits, ZenonT(30) DEF StoreCommit
  <2>2. CASE UNCHANGED mdVars
    BY <1>5, <1>9, <2>2, ReturnFits, ZenonT(30) DEF StoreCommit
  <2> QED
    BY <1>3, <1>9, <2>1, <2>2, Zenon DEF StoreCommit
<1> QED
  BY <1>6, <1>7, <1>8, <1>9, Zenon

\* An empty table takes nothing.
LEMMA CapacityInit == Init => CapacityInv
<1> SUFFICES ASSUME Init PROVE CapacityInv
  BY Zenon
<1>1. \A k \in Keys : RowBytes[k] = 0
  BY Zenon DEF Init, RowBytes, Active
<1>2. BytesUsed = 0
  <2> DEFINE w == [k \in Keys |-> 0]
  <2>1. SumFunctionOnSet(RowBytes, Keys) = SumFunctionOnSet(w, Keys)
    BY <1>1, SumOfEquals, NVMeAssumption, SMTT(30)
  <2> QED
    BY <1>1, <2>1, SumOfZeros, NVMeAssumption, Zenon DEF BytesUsed
<1>3. \A t \in Threads : CallFits(t)
  BY SMTT(30) DEF Init, CallFits, Idle, NewCall
<1> QED
  BY <1>2, <1>3, NVMeAssumption, SMTT(30) DEF CapacityInv

\* Every step keeps the published blocks within max_bytes.
LEMMA CapacityStep == TierInv /\ CapacityInv /\ [Next]_vars => CapacityInv'
<1> SUFFICES ASSUME TierInv, CapacityInv, [Next]_vars PROVE CapacityInv'
  BY Zenon
<1>1. ASSUME RowsKept, UNCHANGED call PROVE CapacityInv'
  BY <1>1, FitsKept, KeptBytes, Zenon DEF CapacityInv
<1>2. CASE PeerTier
  <2>1. UNCHANGED <<mutation, call>> /\ \A k \in Keys : blocks'[k][NVMe] = blocks[k][NVMe]
    BY <1>2, PeerKeepsRows, Zenon DEF PeerTier
  <2>2. \A t \in Threads : CallFits(t)'
    BY <1>2, <2>1, FitsKept, ZenonT(30) DEF PeerTier
  <2>3. RowBytes' = RowBytes
    BY <2>1, Zenon DEF RowBytes, Active
  <2> QED
    BY <2>2, <2>3, Zenon DEF CapacityInv, BytesUsed
<1>3. CASE \E k \in Keys : Fault(k)
  BY <1>1, <1>3, TableSame, Zenon DEF Fault
<1>4. CASE Crash
  <2>1. RowsKept /\ call' = [t \in Threads |-> Idle]
    BY <1>4, Zenon DEF Crash, Close, RowsKept
  <2>2. \A t \in Threads : CallFits(t)'
    BY <2>1, SMTT(30) DEF CallFits, Idle, NewCall
  <2> QED
    BY <2>1, <2>2, KeptBytes, Zenon DEF CapacityInv
<1>5. CASE Reopen
  BY <1>1, <1>5, OpenFacts, Zenon DEF Reopen, TierInv
<1>6. CASE UNCHANGED vars
  <2>1. UNCHANGED mdVars /\ UNCHANGED call
    BY <1>6, Zenon DEF vars, mdVars
  <2> QED
    BY <1>1, <2>1, TableSame, Zenon
<1>7. ASSUME NEW t \in Threads, Calls(t) \/ Step(t) PROVE CapacityInv'
  BY <1>7, CallsFit, LoadsFit, EvictsFit, StoresFit, Zenon DEF Step
<1> QED
  BY <1>2, <1>3, <1>4, <1>5, <1>6, <1>7, Zenon DEF Next

\* The published blocks never take more than max_bytes: the running total of
\* _ensure_capacity covers the other blocks through every eviction that it
\* causes, and the lock keeps the others from publishing in between.
THEOREM CapacitySafe == Spec => []CapacityRespected
<1>1. TierInv /\ CapacityInv => CapacityRespected
  BY ZenonT(30) DEF CapacityInv, CapacityRespected, CallFits, OthersBytes
<1> QED
  BY <1>1, CapacityInit, CapacityStep, TierAlways, PTL DEF Spec

-----------------------------------------------------------------------------
(* The calls of a load *)

\* What the two checks of a load conclude.
LEMMA LoadVerdict ==
  ASSUME TierInv, NEW t \in Threads, LoadRead(t) \/ LoadVerify(t),
         Active(call[t].key, NVMe), blocks[call[t].key][NVMe].desc = call[t].want,
         call[t].key \notin damaged
  PROVE  call'[t].verdict \in {"none", "ok"}
<1>1. CallType /\ {"verify", "release"} \subseteq PCs /\ {"none", "ok"} \subseteq Verdicts
  BY Zenon DEF TierInv, PCs, Verdicts
<1>2. call[t].key \in Keys /\ call[t].want \in Descriptors
  BY Zenon DEF TierInv, CallInv, LoadRead, LoadVerify, At
<1>3. files[call[t].key] = call[t].want
  BY <1>2, Zenon DEF TierInv, PublishedHasPayload
<1>4. CASE LoadRead(t)
  <2> DEFINE f == files[call[t].key]
             v == CASE f = call[t].want -> "none"
                    [] f = None -> "error"
                    [] OTHER -> "corrupt"
             pc == IF f = call[t].want THEN "verify" ELSE "release"
  <2>1. v = "none" /\ pc = "verify"
    BY <1>2, <1>3, Zenon
  <2>2. GoWithVerdict(t, pc, v)
    BY <1>4, Zenon DEF LoadRead, GoWithVerdict
  <2>3. GoWithVerdict(t, "verify", "none")
    BY <2>1, <2>2, Zenon DEF GoWithVerdict
  <2>4. "verify" \in PCs /\ "none" \in Verdicts
    BY Zenon DEF PCs, Verdicts
  <2>5. call'[t].verdict = "none"
    BY <1>1, <2>3, <2>4, VerdictFacts
  <2> QED
    BY <2>5, Zenon
<1>5. CASE LoadVerify(t)
  <2>1. GoWithVerdict(t, "release", "ok")
    BY <1>5, Zenon DEF LoadVerify, GoWithVerdict
  <2> QED
    BY <1>1, <2>1, VerdictFacts
<1> QED
  BY <1>4, <1>5, Zenon

-----------------------------------------------------------------------------
(* What a step does to the pins *)

\* Held follows the calls.
LEMMA HeldKept ==
  ASSUME NEW t \in Threads, Unpinned(t), call[t].pc \notin Reading
  PROVE  Held' = Held
<1>1. \A u \in Threads : u # t => call'[u] = call[u]
  BY Zenon DEF Unpinned
<1> QED
  BY <1>1, Zenon DEF Held, Unpinned, Reading

\* A row is written.
WriteRow(k, p) ==
  \/ Delete(k, p) \/ BeginDelete(k, p) \/ FinishDelete(k, p)
  \/ \E d \in Descriptors, u \in Uris : Upsert(k, p, d, u)

\* The pins stay, and at most one row is written.
PinsStay ==
  /\ Held' = Held
  /\ UNCHANGED mdVars \/ \E k \in Keys, p \in Tiers : WriteRow(k, p)

\* A thread takes a pin.
PinTaken(t) ==
  /\ Held[t] = None
  /\ \E k \in Keys : /\ Acquire(k, NVMe)
                     /\ Held' = [Held EXCEPT ![t] = [key |-> k, tier |-> NVMe,
                                                     desc |-> blocks[k][NVMe].desc]]

\* A thread gives its pin back.
PinGiven(t) ==
  /\ Held[t] # None /\ Held[t].key \in Keys /\ Held[t].tier = NVMe
  /\ Release(Held[t].key, NVMe)
  /\ Held' = [Held EXCEPT ![t] = None]

\* The transactions of this tier.
LEMMA TransactionPins == ASSUME Transaction, Held' = Held PROVE PinsStay
  BY Zenon DEF Transaction, PinsStay, WriteRow

\* load() takes its pin, or ends.
LEMMA AcquirePins ==
  ASSUME TierInv, NEW t \in Threads, LoadAcquire(t)
  PROVE  /\ PinsStay \/ PinTaken(t)
         /\ \A u \in Threads \ {t} : call'[u] = call[u]
<1>1. PICK k \in Keys : k = call[t].key
  BY Zenon DEF TierInv, CallInv, LoadAcquire, At
<1>2. call[t].pc = "acquire" /\ CallType
  BY Zenon DEF LoadAcquire, At, TierInv
<1>3. CASE /\ Acquire(k, NVMe)
           /\ call' = [call EXCEPT ![t].pc = "read", ![t].want = blocks[k][NVMe].desc]
  <2>1. PICK d \in Descriptors : d = blocks[k][NVMe].desc
    BY <1>3 DEF TierInv, Table, Row, Acquire, Active
  <2>2. "read" \in PCs /\ d \in Payloads /\ GoWithWant(t, "read", d)
    BY <1>3, <2>1, Zenon DEF PCs, Payloads, GoWithWant
  <2>3. /\ \A u \in Threads \ {t} : call'[u] = call[u]
        /\ call'[t].pc = "read" /\ call'[t].want = d /\ call'[t].key = k
    BY <1>1, <1>2, <2>2, WantFacts, Zenon
  <2>4. Held[t] = None
    BY <1>2, Zenon DEF Held
  <2>5. Held' = [Held EXCEPT ![t] = [key |-> k, tier |-> NVMe, desc |-> d]]
    BY <2>3, Zenon DEF Held
  <2> QED
    BY <1>3, <2>1, <2>3, <2>4, <2>5, Zenon DEF PinTaken
<1>4. CASE Return(t) /\ UNCHANGED mdVars
  <2>1. Held' = Held /\ Unpinned(t)
    BY <1>2, <1>4, ReturnUnpinned, HeldKept, Zenon DEF Reading
  <2> QED
    BY <1>4, <2>1, Zenon DEF PinsStay, Unpinned
<1> QED
  BY <1>1, <1>3, <1>4, Zenon DEF LoadAcquire

\* load() gives its pin back.
LEMMA ReleasePins ==
  ASSUME TierInv, NEW t \in Threads, LoadRelease(t) PROVE PinGiven(t) /\ Unpinned(t)
<1>1. PICK k \in Keys, d \in Descriptors : k = call[t].key /\ d = call[t].want
  BY Zenon DEF TierInv, CallInv, LoadRelease, At
<1>2. call[t].pc = "release" /\ Release(k, NVMe)
  BY <1>1, Zenon DEF LoadRelease, At
<1>3. Held[t] = [key |-> k, tier |-> NVMe, desc |-> d]
  BY <1>1, <1>2, Zenon DEF Held
<1>4. Held[t] # None /\ Held[t].key = k /\ Held[t].tier = NVMe
  BY <1>3, NVMeAssumption
<1>5. Unpinned(t)
  <2>1. "begin" \in PCs \ Reading /\ "commit" \in PCs \ Reading
    BY Zenon DEF PCs, Reading
  <2> QED
    BY <2>1, GoUnpinned, ReturnUnpinned, Zenon DEF LoadRelease
<1>6. Held' = [Held EXCEPT ![t] = None]
  <2>1. \A u \in Threads : u # t => call'[u] = call[u]
    BY <1>5, Zenon DEF Unpinned
  <2> QED
    BY <1>5, <2>1, Zenon DEF Held, Unpinned, Reading
<1> QED
  BY <1>2, <1>4, <1>5, <1>6, Zenon DEF PinGiven

\* Reading changes neither table nor pins.
LEMMA ReadPins ==
  ASSUME TierInv, NEW t \in Threads, LoadRead(t) \/ LoadVerify(t)
  PROVE  PinsStay /\ \A u \in Threads \ {t} : call'[u] = call[u]
<1>1. UNCHANGED mdVars /\ call[t].pc \in {"read", "verify"} /\ CallType
  BY Zenon DEF LoadRead, LoadVerify, At, TierInv
<1>2. PICK pc \in {"verify", "release"}, v \in Verdicts : GoWithVerdict(t, pc, v)
  BY ReadUpdates, Zenon
<1>3. /\ \A u \in Threads \ {t} : call'[u] = call[u]
      /\ call'[t].pc = pc /\ call'[t].key = call[t].key /\ call'[t].want = call[t].want
  <2>1. pc \in PCs
    BY Zenon DEF PCs
  <2> QED
    BY <1>1, <1>2, <2>1, VerdictFacts, Zenon
<1>4. Held' = Held
  <2>1. \A u \in Threads : u # t => call'[u] = call[u]
    BY <1>3, Zenon
  <2> QED
    BY <1>1, <1>3, <2>1, Zenon DEF Held
<1> QED
  BY <1>1, <1>3, <1>4, Zenon DEF PinsStay

\* A step leaves the pins, takes one or gives one back, or changes the owner.
LEMMA StepPins ==
  ASSUME TierInv, [Next]_vars
  PROVE  \/ PinsStay \/ \E t \in Threads : PinTaken(t) \/ PinGiven(t)
         \/ Close /\ Held' = [t \in Threads |-> None]
         \/ ownerEpoch < MaxOpens /\ Open /\ Held' = Held
<1>1. ASSUME NEW t \in Threads, Calls(t) PROVE PinsStay
  <2>1. Unpinned(t) /\ call[t].pc \notin Reading /\ Transaction
    BY <1>1, CallsTransaction, Zenon
  <2> QED
    BY <2>1, HeldKept, TransactionPins, Zenon
<1>2. ASSUME NEW t \in Threads, Step(t) PROVE PinsStay \/ PinTaken(t) \/ PinGiven(t)
  <2>1. CASE LoadAcquire(t) \/ LoadRelease(t)
    BY <2>1, AcquirePins, ReleasePins, Zenon
  <2>2. CASE LoadRead(t) \/ LoadVerify(t)
    BY <2>2, ReadPins, Zenon
  <2>3. CASE ~(LoadAcquire(t) \/ LoadRead(t) \/ LoadVerify(t) \/ LoadRelease(t))
    <3>1. Unpinned(t) /\ call[t].pc \notin Reading /\ Transaction
      BY <1>2, <2>3, StepTransaction, Zenon DEF Step
    <3> QED
      BY <3>1, HeldKept, TransactionPins, Zenon
  <2> QED
    BY <2>1, <2>2, <2>3, Zenon
<1>3. CASE PeerTier
  <2>1. Held' = Held
    BY <1>3, Zenon DEF PeerTier, Held
  <2>2. PICK k \in PeerKeys, p \in Tiers : WriteRow(k, p)
    BY <1>3, NVMeAssumption, Zenon DEF PeerTier, WriteRow
  <2> QED
    BY <2>1, <2>2, NVMeAssumption, Zenon DEF PinsStay
<1>4. CASE (\E k \in Keys : Fault(k)) \/ UNCHANGED vars
  BY <1>4, Zenon DEF Fault, vars, mdVars, Held, PinsStay
<1>5. CASE Crash
  BY <1>5, Zenon DEF Crash, Held, Idle, NewCall
<1>6. CASE Reopen
  BY <1>6, Zenon DEF Reopen, Held
<1> QED
  BY <1>1, <1>2, <1>3, <1>4, <1>5, <1>6, Zenon DEF Next

\* A step of another thread, of another tier or of the environment leaves the
\* call of a load alone, or ends it in a crash.
LEMMA OthersLeaveCall ==
  ASSUME TierInv, Next, NEW t \in Threads, call[t].pc \in {"read", "verify"}
  PROVE  \/ LoadRead(t) \/ LoadVerify(t)
         \/ call'[t] = call[t] \/ call'[t] = Idle
<1>1. call[t].pc \in Reading /\ call[t].pc \notin {"acquire", "release"}
  BY Zenon DEF Reading
<1>2. ASSUME NEW u \in Threads, Calls(u) PROVE call'[t] = call[t]
  <2>1. Unpinned(u) /\ call[u].pc \notin Reading
    BY <1>2, CallsTransaction, Zenon
  <2> QED
    BY <1>1, <2>1, Zenon DEF Unpinned
<1>3. ASSUME NEW u \in Threads, Step(u), ~(LoadRead(t) \/ LoadVerify(t))
      PROVE  call'[t] = call[t]
  <2>1. CASE LoadAcquire(u) \/ LoadRelease(u)
    <3>1. u # t
      BY <1>1, <2>1, Zenon DEF LoadAcquire, LoadRelease, At
    <3> QED
      BY <2>1, <3>1, AcquirePins, ReleasePins, Zenon DEF Unpinned
  <2>2. CASE LoadRead(u) \/ LoadVerify(u)
    BY <1>3, <2>2, ReadPins, Zenon
  <2>3. CASE ~(LoadAcquire(u) \/ LoadRead(u) \/ LoadVerify(u) \/ LoadRelease(u))
    <3>1. Unpinned(u) /\ call[u].pc \notin Reading
      BY <1>3, <2>3, StepTransaction, ZenonT(20) DEF Step
    <3> QED
      BY <1>1, <3>1, Zenon DEF Unpinned
  <2> QED
    BY <2>1, <2>2, <2>3, Zenon
<1>4. CASE PeerTier \/ (\E k \in Keys : Fault(k)) \/ Reopen
  BY <1>4, Zenon DEF PeerTier, Fault, Reopen
<1>5. CASE Crash
  BY <1>5, Zenon DEF Crash
<1> QED
  BY <1>2, <1>3, <1>4, <1>5, Zenon DEF Next

\* The row that a thread has pinned is published with the payload it expects.
HeldIsPublished(t) ==
  Held[t] # None => /\ Active(Held[t].key, Held[t].tier)
                    /\ blocks[Held[t].key][Held[t].tier].desc = Held[t].desc

\* As long as its row stays published a load does not fail.
LEMMA LoadSucceeds ==
  ASSUME TierInv, Next, NEW t \in Threads, HeldIsPublished(t),
         call[t].pc \in {"read", "verify"}, call[t].key \notin damaged
  PROVE  call'[t].verdict \notin {"error", "corrupt"}
<1>1. call[t].verdict = "none" /\ Idle.verdict = "none"
  BY ZenonT(30) DEF TierInv, CallInv, Idle, NewCall
<1>2. CASE LoadRead(t) \/ LoadVerify(t)
  <2>1. PICK k \in Keys, d \in Descriptors : k = call[t].key /\ d = call[t].want
    BY ZenonT(20) DEF TierInv, CallInv
  <2>2. Held[t] = [key |-> k, tier |-> NVMe, desc |-> d]
    BY <2>1, ZenonT(20) DEF Held
  <2>3. Held[t] # None /\ Held[t].key = k /\ Held[t].tier = NVMe /\ Held[t].desc = d
    BY <2>2, NVMeAssumption
  <2>4. Active(k, NVMe) /\ blocks[k][NVMe].desc = d
    BY <2>3, Zenon DEF HeldIsPublished
  <2> QED
    BY <1>2, <2>1, <2>4, LoadVerdict, Zenon
<1> QED
  BY <1>1, <1>2, OthersLeaveCall, Zenon

-----------------------------------------------------------------------------
(* Refinement *)

Clients == INSTANCE MetadataClientsProofs
             WITH Readers <- Threads, NotHeld <- None, held <- Held

\* The tier uses the table as MetadataClients allows, with matched pins, so
\* that what holds of the table's clients holds of the tier: load() releases
\* what it acquired, once, on every path.
ImplementsClients == Clients!Spec

\* The transactions of the clients are the tier's.
LEMMA SameTransactions ==
  ASSUME NEW k \in Keys, NEW p \in Tiers
  PROVE  /\ Acquire(k, p) => Clients!Acquire(k, p)
         /\ Release(k, p) => Clients!Release(k, p)
         /\ Delete(k, p) => Clients!Delete(k, p)
         /\ BeginDelete(k, p) => Clients!BeginDelete(k, p)
         /\ FinishDelete(k, p) => Clients!FinishDelete(k, p)
         /\ \A d \in Descriptors, u \in Uris : Upsert(k, p, d, u) => Clients!Upsert(k, p, d, u)
<1>1. /\ Active(k, p) <=> Clients!Active(k, p)
      /\ Deleting(k, p) <=> Clients!Deleting(k, p)
      /\ Pinned(k, p) <=> Clients!Pinned(k, p)
      /\ KeptInFlight(k, p) = Clients!KeptInFlight(k, p)
  BY Zenon DEF Active, Deleting, Pinned, KeptInFlight,
         Clients!Active, Clients!Deleting, Clients!Pinned, Clients!KeptInFlight
<1>2. Acquire(k, p) => Clients!Acquire(k, p)
  BY <1>1, Zenon DEF Acquire, Clients!Acquire, SetRow, Clients!SetRow
<1>3. Release(k, p) => Clients!Release(k, p)
  BY Zenon DEF Release, Clients!Release, SetRow, Clients!SetRow
<1>4. Delete(k, p) => Clients!Delete(k, p)
  BY <1>1, Zenon DEF Delete, Clients!Delete, SetRow, Clients!SetRow
<1>5. BeginDelete(k, p) => Clients!BeginDelete(k, p)
  BY Zenon DEF BeginDelete, Clients!BeginDelete, CanBeginDelete, Clients!CanBeginDelete,
     SetRow, Clients!SetRow, Active, Clients!Active, Pinned, Clients!Pinned
<1>6. FinishDelete(k, p) => Clients!FinishDelete(k, p)
  BY <1>1, Zenon DEF FinishDelete, Clients!FinishDelete, SetRow, Clients!SetRow
<1>7. \A d \in Descriptors, u \in Uris : Upsert(k, p, d, u) => Clients!Upsert(k, p, d, u)
  BY ZenonT(30) DEF Upsert, Clients!Upsert, CanUpsert, Clients!CanUpsert, DescriptorFits,
     Clients!DescriptorFits, Deleting, Clients!Deleting, SetRow, Clients!SetRow,
     KeptInFlight, Clients!KeptInFlight
<1> QED
  BY <1>2, <1>3, <1>4, <1>5, <1>6, <1>7, Zenon

\* Every step of the tier is a step of a client, or none.
LEMMA NextImplements == TierInv /\ [Next]_vars => [Clients!Next]_(Clients!clientVars)
<1> DEFINE ClientStep == [Clients!Next]_(Clients!clientVars)
<1> SUFFICES ASSUME TierInv, [Next]_vars PROVE ClientStep
  BY Zenon
<1>1. ASSUME PinsStay PROVE ClientStep
  <2>1. CASE UNCHANGED mdVars
    BY <1>1, <2>1, Zenon DEF PinsStay, Clients!clientVars, mdVars
  <2>2. ASSUME NEW k \in Keys, NEW p \in Tiers, WriteRow(k, p) PROVE Clients!Write(k, p)
    BY <2>2, SameTransactions, Zenon DEF WriteRow, Clients!Write
  <2> QED
    BY <1>1, <2>1, <2>2, Zenon DEF PinsStay, Clients!Next
<1>2. ASSUME NEW t \in Threads, PinTaken(t) PROVE ClientStep
  <2>1. PICK k \in Keys : Clients!AcquireBy(t, k, NVMe)
    BY <1>2, SameTransactions, Zenon DEF PinTaken, Clients!AcquireBy
  <2> QED
    BY <2>1, Zenon DEF Clients!Next
<1>3. ASSUME NEW t \in Threads, PinGiven(t) PROVE ClientStep
  <2>1. Clients!ReleaseBy(t)
    BY <1>3, SameTransactions, Zenon DEF PinGiven, Clients!ReleaseBy
  <2> QED
    BY <2>1, Zenon DEF Clients!Next
<1>4. CASE Close /\ Held' = [t \in Threads |-> None]
  BY <1>4, Zenon DEF Clients!Next, Clients!StopOwner, Close, Clients!Close
<1>5. CASE ownerEpoch < MaxOpens /\ Open /\ Held' = Held
  <2>1. Clients!Open
    BY <1>5, Zenon DEF Open, Clients!Open, ClearedCounters, Clients!ClearedCounters
  <2> QED
    BY <1>5, <2>1, Zenon DEF Clients!Next, Clients!StartOwner
<1> QED
  BY <1>1, <1>2, <1>3, <1>4, <1>5, StepPins, Zenon

\* The tier starts where the clients start.
LEMMA InitImplements == Init => Clients!Init
  BY DEF Init, Clients!Init, Held, Idle, NewCall

\* Every step of the tier is a transaction that MetadataClients allows, or
\* leaves table and pins alone: load() releases exactly what it acquired, once,
\* on every path.
THEOREM TierImplementsClients == Spec => ImplementsClients
  BY NextImplements, InitImplements, TierAlways, PTL DEF Spec, ImplementsClients, Clients!Spec

\* AcquiredSafe of the clients, for this tier: the row that a load has pinned
\* stays published, with the payload that the load expects.
LEMMA HeldStaysPublished == Spec => []Clients!AcquiredStaysPublished
<1>1. Clients!IsFiniteSet(Threads) /\ None \notin Clients!Hold /\ None \notin Descriptors
  BY NVMeAssumption, Zenon DEF Clients!Hold, Clients!IsFiniteSet, IsFiniteSet
<1>2. NoRow \notin Clients!Row
  BY Zenon DEF Row, Clients!Row
<1> QED
  BY <1>1, <1>2, TierImplementsClients, Clients!AcquiredSafe, PTL DEF ImplementsClients

\* A load that has its pin fails only because of a fault: the row stays because
\* of the pin, and the file because the row stays.
THEOREM HealthyLoads == Spec => HealthyLoadSucceeds
<1> DEFINE Healthy ==
      \A t \in Threads :
        call[t].pc \in {"read", "verify"} /\ call'[t].verdict \in {"error", "corrupt"}
          => call[t].key \in damaged
<1>1. TierInv /\ Clients!AcquiredStaysPublished /\ [Next]_vars => [Healthy]_vars
  <2>1. Clients!AcquiredStaysPublished => \A t \in Threads : HeldIsPublished(t)
    BY Zenon DEF Clients!AcquiredStaysPublished, Clients!Active, Active, HeldIsPublished
  <2>2. TierInv /\ (\A t \in Threads : HeldIsPublished(t)) /\ Next => Healthy
    BY LoadSucceeds, Zenon
  <2> QED
    BY <2>1, <2>2, Zenon DEF vars
<1> QED
  BY <1>1, TierAlways, HeldStaysPublished, PTL DEF Spec, HealthyLoadSucceeds
=============================================================================
