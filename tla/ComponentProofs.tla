--------------------------- MODULE ComponentProofs ---------------------------
(***************************************************************************)
(* The safety properties of components that stand by themselves: of the    *)
(* Router the strategy that counts the requests of tenants (TenantTable)   *)
(* and the event bus (EventBus), of the KVStore its lifecycle              *)
(* (StoreLifecycle) and the search of the tiers (TierManager), for any     *)
(* number of tenants, Workers, subscribers, publishers, processes, threads *)
(* and blocks.                                                             *)
(***************************************************************************)
EXTENDS TenantTable, EventBus, StoreLifecycle, TierManager,
        FiniteSetTheorems, WellFoundedInduction, TLAPS

-----------------------------------------------------------------------------
(* The table of tenants *)

USE TableAssumption

\* A table as Pick handles it: two maps with the same tenants.
IsTable(stamps, load) ==
  /\ DOMAIN load = DOMAIN stamps /\ IsFiniteSet(DOMAIN stamps)
  /\ load \in [DOMAIN stamps -> [Pool -> 0..HalveAbove + 1]]
  /\ stamps \in [DOMAIN stamps -> 0..TenantStateTTL + 1]

TenantInv ==
  IsTable(lastSeen, assignments) /\ Cardinality(DOMAIN assignments) <= MaxTenantStates

\* A part of a table is one.
LEMMA PartOfTable ==
  ASSUME NEW stamps, NEW load, IsTable(stamps, load), NEW S \in SUBSET DOMAIN stamps
  PROVE  IsTable(Restrict(stamps, S), Restrict(load, S)) /\ DOMAIN Restrict(load, S) = S
<1> DEFINE s == Restrict(stamps, S)
           l == Restrict(load, S)
<1>1. DOMAIN s = S /\ DOMAIN l = S /\ IsFiniteSet(S)
  BY FS_Subset, Zenon DEF IsTable, Restrict
<1>2. s \in [S -> 0..TenantStateTTL + 1]
  BY Zenon DEF IsTable, Restrict
<1>3. l \in [S -> [Pool -> 0..HalveAbove + 1]]
  BY Zenon DEF IsTable, Restrict
<1> HIDE DEF s, l
<1>4. IsTable(s, l)
  BY <1>1, <1>2, <1>3, Zenon DEF IsTable
<1> QED
  BY <1>1, <1>4, Zenon DEF s, l

\* Among the tenants of a table with some there is an oldest one.
LEMMA OldestExists ==
  ASSUME NEW stamps, NEW load, IsTable(stamps, load), DOMAIN stamps # {}
  PROVE  \E t \in DOMAIN stamps : \A o \in DOMAIN stamps : stamps[o] <= stamps[t]
<1> DEFINE R == {ss \in Nat \X Nat : ss[1] < ss[2]}
           D == {TenantStateTTL + 1 - stamps[t] : t \in DOMAIN stamps}
<1>1. IsWellFoundedOn(R, Nat)
  BY NatLessThanWellFounded, Zenon DEF OpToRel
<1>2. \A t \in DOMAIN stamps : stamps[t] \in 0..TenantStateTTL + 1
  BY Zenon DEF IsTable
<1>3. \A t \in DOMAIN stamps : TenantStateTTL + 1 - stamps[t] \in Nat
  BY <1>2
<1>4. D \subseteq Nat /\ D # {}
  BY <1>3, Zenon
<1>5. PICK d \in D : \A c \in D : ~ (<<c, d>> \in R)
  <2> HIDE DEF R, D
  <2> QED
    BY <1>1, <1>4, WFMin, Zenon
<1>6. PICK t \in DOMAIN stamps : d = TenantStateTTL + 1 - stamps[t]
  BY Zenon
<1>7. ASSUME NEW o \in DOMAIN stamps PROVE stamps[o] <= stamps[t]
  <2>1. ~ (TenantStateTTL + 1 - stamps[o] < TenantStateTTL + 1 - stamps[t])
    BY <1>3, <1>5, <1>6, Zenon
  <2> QED
    BY <1>2, <2>1
<1> QED
  BY <1>7, Zenon

\* What has expired goes from both maps.
LEMMA PruneFacts ==
  ASSUME TenantInv
  PROVE  IsTable(Prune.seen, Prune.load) /\ Cardinality(DOMAIN Prune.load) <= MaxTenantStates
<1> DEFINE kept == {t \in DOMAIN lastSeen : lastSeen[t] <= TenantStateTTL}
<1>1. IsTable(lastSeen, assignments) /\ Prune.seen = Restrict(lastSeen, kept)
      /\ Prune.load = Restrict(assignments, kept)
  BY Zenon DEF TenantInv, Prune
<1>2. IsTable(Prune.seen, Prune.load) /\ DOMAIN Prune.load = kept
  <2>1. kept \in SUBSET DOMAIN lastSeen
    BY Zenon
  <2> HIDE DEF kept
  <2>2. IsTable(Restrict(lastSeen, kept), Restrict(assignments, kept))
        /\ DOMAIN Restrict(assignments, kept) = kept
    BY <1>1, <2>1, PartOfTable, SMTT(20)
  <2> QED
    BY <1>1, <2>2, Zenon
<1>3. DOMAIN assignments = DOMAIN lastSeen /\ IsFiniteSet(DOMAIN lastSeen)
  BY <1>1, Zenon DEF IsTable
<1>4. Cardinality(kept) <= Cardinality(DOMAIN lastSeen) /\ Cardinality(kept) \in Nat
  BY <1>3, FS_Subset, FS_CardinalityType, Zenon
<1>5. Cardinality(DOMAIN lastSeen) \in Nat
  BY <1>3, FS_CardinalityType, Zenon
<1> QED
  BY <1>2, <1>3, <1>4, <1>5 DEF TenantInv

\* A table with room for the tenant has room for it.
LEMMA RoomFacts ==
  ASSUME NEW full, IsTable(full.seen, full.load), Cardinality(DOMAIN full.load) <= MaxTenantStates,
         NEW tenant, NEW table \in WithRoom(full, tenant)
  PROVE  /\ IsTable(table.seen, table.load) /\ IsFiniteSet(DOMAIN table.load \cup {tenant})
         /\ Cardinality(DOMAIN table.load \cup {tenant}) <= MaxTenantStates
<1> DEFINE S == DOMAIN full.load
           n == Cardinality(S)
<1>1. S = DOMAIN full.seen /\ IsFiniteSet(S) /\ n <= MaxTenantStates
  BY Zenon DEF IsTable
<1>2. table = full \/ (tenant \notin S /\ n >= MaxTenantStates /\ table \in EvictOldest(full))
  BY Zenon DEF WithRoom
<1>3. table = full => tenant \in S \/ ~(n >= MaxTenantStates) \/ table \in EvictOldest(full)
  BY Zenon DEF WithRoom
<1>4. n # 0 /\ table \in EvictOldest(full)
        => \E t \in S : table = [seen |-> Restrict(full.seen, S \ {t}),
                                 load |-> Restrict(full.load, S \ {t})]
  <2> SUFFICES ASSUME n # 0, table \in EvictOldest(full)
               PROVE  \E t \in S : table = [seen |-> Restrict(full.seen, S \ {t}),
                                            load |-> Restrict(full.load, S \ {t})]
    BY Zenon
  <2>1. DOMAIN full.seen # {}
    BY <1>1, FS_EmptySet, Zenon
  <2> QED
    BY <1>1, <2>1, OldestExists, Zenon DEF EvictOldest
<1>5. ASSUME NEW t \in S, table = [seen |-> Restrict(full.seen, S \ {t}),
                                   load |-> Restrict(full.load, S \ {t})]
      PROVE  IsTable(table.seen, table.load) /\ DOMAIN table.load = S \ {t}
  <2> DEFINE T == S \ {t}
  <2>1. T \in SUBSET DOMAIN full.seen
    BY <1>1, Zenon
  <2>2. table.seen = Restrict(full.seen, T) /\ table.load = Restrict(full.load, T)
    BY <1>5, Zenon
  <2> HIDE DEF T
  <2>3. IsTable(Restrict(full.seen, T), Restrict(full.load, T))
        /\ DOMAIN Restrict(full.load, T) = T
    BY <2>1, PartOfTable, SMTT(20)
  <2>4. IsTable(table.seen, table.load) /\ DOMAIN table.load = T
    BY <2>2, <2>3, Zenon
  <2> QED
    BY <2>4, Zenon DEF T
<1> HIDE DEF S
<1>6. n \in Nat
  BY <1>1, FS_CardinalityType, Zenon
<1>7. CASE table = full /\ tenant \in S
  <2>1. S \cup {tenant} = S
    BY <1>7, Zenon
  <2> QED
    BY <1>1, <1>7, <2>1, Zenon DEF S
<1>8. CASE table = full /\ tenant \notin S /\ ~(n >= MaxTenantStates)
  <2>1. IsFiniteSet(S \cup {tenant}) /\ Cardinality(S \cup {tenant}) = n + 1
    BY <1>1, <1>8, FS_AddElement, Zenon
  <2>2. Cardinality(S \cup {tenant}) <= MaxTenantStates
    BY <1>6, <1>8, <2>1
  <2> QED
    BY <1>8, <2>1, <2>2, Zenon DEF S
<1>9. CASE tenant \notin S /\ n >= MaxTenantStates /\ table \in EvictOldest(full)
  <2>1. n # 0
    BY <1>6, <1>9
  <2>2. PICK t \in S : IsTable(table.seen, table.load) /\ DOMAIN table.load = S \ {t}
    BY <1>4, <1>5, <1>9, <2>1, Zenon
  <2>3. IsFiniteSet(S \ {t}) /\ Cardinality(S \ {t}) = n - 1 /\ tenant \notin S \ {t}
    BY <1>1, <1>9, FS_RemoveElement, Zenon
  <2>4. IsFiniteSet((S \ {t}) \cup {tenant}) /\ Cardinality((S \ {t}) \cup {tenant}) = n - 1 + 1
    BY <2>3, FS_AddElement, Zenon
  <2>5. Cardinality((S \ {t}) \cup {tenant}) <= MaxTenantStates
    BY <1>1, <1>6, <2>4
  <2> QED
    BY <2>2, <2>4, <2>5, Zenon
<1> QED
  BY <1>2, <1>3, <1>7, <1>8, <1>9, Zenon

\* The counters are finitely many, and no worker's exceeds the total.
LEMMA CountsFacts ==
  ASSUME NEW load \in [Pool -> 0..HalveAbove + 1], NEW ws \in SUBSET Pool
  PROVE  /\ IsFiniteSet(Counts(load, ws)) /\ Total(load, ws) \in Nat
         /\ \A w \in ws : load[w] <= Total(load, ws)
<1>1. IsFiniteSet(1..HalveAbove + 1) /\ IsFiniteSet(Pool)
  BY FS_Interval
<1>2. IsFiniteSet(Pool \X (1..HalveAbove + 1))
  BY <1>1, FS_Product, Zenon
<1>3. Counts(load, ws) \subseteq Pool \X (1..HalveAbove + 1)
  BY DEF Counts
<1>4. IsFiniteSet(Counts(load, ws)) /\ Total(load, ws) \in Nat
  BY <1>2, <1>3, FS_Subset, FS_CardinalityType, Zenon DEF Total
<1>5. ASSUME NEW w \in ws
      PROVE  load[w] <= Total(load, ws)
  <2> DEFINE up == 1..load[w]
             one == {w} \X up
  <2>1. one \subseteq Counts(load, ws)
    BY Zenon DEF Counts
  <2>2. load[w] \in Nat /\ w \in Pool
    OBVIOUS
  <2>3. IsFiniteSet(up) /\ Cardinality(up) = load[w]
    BY <2>2, FS_Interval
  <2> HIDE DEF up
  <2>4. IsFiniteSet({w}) /\ Cardinality({w}) = 1
    BY FS_Singleton, Zenon
  <2>5. Cardinality(one) = 1 * load[w]
    BY <2>3, <2>4, FS_Product
  <2> HIDE DEF one
  <2>6. Cardinality(one) <= Total(load, ws)
    BY <1>4, <2>1, FS_Subset, Zenon DEF Total
  <2> QED
    BY <2>2, <2>5, <2>6
<1> QED
  BY <1>4, <1>5, Zenon

LEMMA DivFacts ==
  ASSUME NEW total \in Nat, NEW n \in Nat \ {0}
  PROVE  total \div n \in Nat /\ total < n * (total \div n + 1)
OBVIOUS

\* Some worker has no more than the average, even if others count too.
LEMMA SomeAtAverage ==
  ASSUME NEW load \in [Pool -> 0..HalveAbove + 1], NEW us \in SUBSET Pool, NEW ws \in SUBSET us,
         ws # {}
  PROVE  /\ Total(load, us) \div Cardinality(ws) \in Nat
         /\ \E v \in ws : load[v] <= Total(load, us) \div Cardinality(ws)
<1> DEFINE n == Cardinality(ws)
           total == Total(load, us)
           q == total \div n
<1>1. IsFiniteSet(ws)
  BY FS_Subset, Zenon
<1>2. n \in Nat \ {0}
  BY <1>1, FS_CardinalityType, FS_EmptySet, Zenon
<1>3. total \in Nat /\ IsFiniteSet(Counts(load, us))
  BY CountsFacts, Zenon
<1> HIDE DEF n, total
<1>4. q \in Nat /\ total < n * (q + 1)
  BY <1>2, <1>3, DivFacts, Zenon
<1> HIDE DEF q
<1>5. ASSUME \A v \in ws : ~(load[v] <= q)
      PROVE  FALSE
  <2>1. 1..(q + 1) \subseteq Nat /\ \A v \in ws : 1..(q + 1) \subseteq 1..load[v]
    BY <1>4, <1>5
  <2>2. ws \X (1..(q + 1)) \subseteq Counts(load, us)
    <3>1. ASSUME NEW v \in ws, NEW i \in 1..(q + 1)
          PROVE  <<v, i>> \in Counts(load, us)
      BY <2>1 DEF Counts
    <3> QED
      BY <3>1
  <2>3. IsFiniteSet(1..(q + 1)) /\ Cardinality(1..(q + 1)) = q + 1
    BY <1>4, FS_Interval
  <2>4. Cardinality(ws \X (1..(q + 1))) = n * (q + 1)
    BY <1>1, <2>3, FS_Product, Zenon DEF n
  <2>5. Cardinality(ws \X (1..(q + 1))) <= total
    BY <1>3, <2>2, FS_Subset, Zenon DEF total, Total
  <2>6. n * (q + 1) \in Nat
    BY <1>2, <1>4
  <2> QED
    BY <1>3, <1>4, <2>4, <2>5, <2>6
<1> QED
  BY <1>4, <1>5, Zenon DEF n, total, q

\* The workers whose requests the limit counts.
CountedAt(counted, candidates) == IF counted.halved THEN Pool ELSE candidates

\* What Pick counts: the tenant's counters, none of a candidate beyond the
\* threshold.
LEMMA CountedFacts ==
  ASSUME NEW table, IsTable(table.seen, table.load), NEW tenant,
         NEW candidates \in SUBSET Pool
  PROVE  LET counted == Counted(table, tenant, candidates)
         IN  /\ counted.load \in [Pool -> 0..HalveAbove + 1]
             /\ \A w \in candidates : counted.load[w] \in 0..HalveAbove
             /\ counted.total = Total(counted.load, CountedAt(counted, candidates))
<1> DEFINE load == IF tenant \in DOMAIN table.load THEN table.load[tenant] ELSE [w \in Pool |-> 0]
           half == [w \in Pool |-> load[w] \div 2]
           total == Total(load, candidates)
<1>1. load \in [Pool -> 0..HalveAbove + 1]
  BY DEF IsTable
<1> HIDE DEF load
<1>2. total \in Nat /\ \A w \in candidates : load[w] <= total
  BY <1>1, CountsFacts, Zenon
<1>3. half \in [Pool -> 0..HalveAbove]
  BY <1>1
<1> HIDE DEF half, total
<1>4. half \in [Pool -> 0..HalveAbove + 1]
  BY <1>3
<1>5. CASE total > HalveAbove
  <2>1. Counted(table, tenant, candidates)
          = [load |-> half, total |-> Total(half, Pool), halved |-> TRUE]
    BY <1>5, Zenon DEF Counted, load, half, total
  <2> QED
    BY <1>3, <1>4, <2>1 DEF CountedAt
<1>6. CASE ~(total > HalveAbove)
  <2>1. Counted(table, tenant, candidates) = [load |-> load, total |-> total, halved |-> FALSE]
    BY <1>6, Zenon DEF Counted, load, half, total
  <2>2. \A w \in candidates : load[w] \in 0..HalveAbove
    BY <1>1, <1>2, <1>6
  <2> QED
    BY <1>1, <2>1, <2>2 DEF total, CountedAt
<1> QED
  BY <1>5, <1>6, Zenon

\* Pick keeps the table within its bounds.
LEMMA PickKeepsTable ==
  ASSUME TenantInv, NEW tenant, NEW candidates \in SUBSET Pool, NEW report,
         Pick(tenant, candidates, report)
  PROVE  TenantInv'
<1>1. PICK table \in WithRoom(Prune, tenant) :
        \E best \in candidates :
          /\ assignments' = [t \in DOMAIN table.load \cup {tenant} |->
                IF t = tenant THEN [Counted(table, tenant, candidates).load EXCEPT ![best] = @ + 1]
                              ELSE table.load[t]]
          /\ lastSeen' = [t \in DOMAIN table.seen \cup {tenant} |->
                            IF t = tenant THEN 0 ELSE table.seen[t]]
  BY Zenon DEF Pick
<1> DEFINE load == Counted(table, tenant, candidates).load
<1>2. PICK best \in candidates :
        /\ assignments' = [t \in DOMAIN table.load \cup {tenant} |->
              IF t = tenant THEN [load EXCEPT ![best] = @ + 1] ELSE table.load[t]]
        /\ lastSeen' = [t \in DOMAIN table.seen \cup {tenant} |->
                          IF t = tenant THEN 0 ELSE table.seen[t]]
  BY <1>1, Zenon
<1>3. /\ IsTable(table.seen, table.load) /\ IsFiniteSet(DOMAIN table.load \cup {tenant})
      /\ Cardinality(DOMAIN table.load \cup {tenant}) <= MaxTenantStates
  BY PruneFacts, RoomFacts, Zenon
<1>4. load \in [Pool -> 0..HalveAbove + 1] /\ load[best] \in 0..HalveAbove
  BY <1>3, CountedFacts, Zenon
<1> HIDE DEF load
<1> DEFINE next == [load EXCEPT ![best] = @ + 1]
           T == DOMAIN table.load \cup {tenant}
<1>5. next \in [Pool -> 0..HalveAbove + 1]
  BY <1>4
<1> HIDE DEF next
<1>6. assignments' \in [T -> [Pool -> 0..HalveAbove + 1]]
  BY <1>2, <1>3, <1>5, Zenon DEF IsTable, next
<1>7. lastSeen' \in [T -> 0..TenantStateTTL + 1]
  BY <1>2, <1>3 DEF IsTable
<1>8. DOMAIN assignments' = T /\ DOMAIN lastSeen' = T
  BY <1>6, <1>7, Zenon
<1> HIDE DEF T
<1> QED
  BY <1>3, <1>6, <1>7, <1>8, Zenon DEF TenantInv, IsTable, T

\* Every step does.
LEMMA StepKeepsTable ==
  ASSUME TenantInv, [TenantNext]_tenantVars
  PROVE  TenantInv'
<1>1. CASE Tick
  <2>1. lastSeen' \in [DOMAIN lastSeen -> 0..TenantStateTTL + 1] /\ assignments' = assignments
    BY <1>1 DEF Tick, TenantInv, IsTable
  <2>2. DOMAIN lastSeen' = DOMAIN lastSeen
    BY <2>1, Zenon
  <2> QED
    BY <2>1, <2>2, Zenon DEF TenantInv, IsTable
<1>2. CASE UNCHANGED tenantVars
  BY <1>2, Zenon DEF tenantVars, TenantInv, IsTable
<1> QED
  BY <1>1, <1>2, PickKeepsTable, Zenon DEF TenantNext

LEMMA TenantInitInv ==
  ASSUME TenantInit
  PROVE  TenantInv
<1>1. DOMAIN << >> = {}
  OBVIOUS
<1>2. IsFiniteSet({}) /\ Cardinality({}) = 0
  BY FS_EmptySet, Zenon
<1> QED
  BY <1>1, <1>2 DEF TenantInit, TenantInv, IsTable

\* The table of TenantAwareBoundedLoad never outgrows MaxTenantStates, its two
\* maps name the same tenants, and no counter outgrows the threshold at which
\* Pick halves them: for any tenants, workers, limits and reports.
THEOREM TenantTableBounded == TenantSpec => []TableBounded
<1>1. TenantInv => TableBounded
  BY Zenon DEF TenantInv, IsTable, TableBounded
<1> QED
  BY <1>1, TenantInitInv, StepKeepsTable, PTL DEF TenantSpec

\* The arithmetic of two scores, the penalties of the queues among them.
LEMMA ScoreMargin ==
  ASSUME NEW ob \in Int, NEW ov \in Int, NEW qb \in Int, NEW qv \in Int,
         NEW pb \in Int, NEW pv \in Int, NEW lb \in Int, NEW lv \in Int,
         NEW gv \in {0, 30}, NEW gb \in {0, 30},
         16 * ov - 3 * qv - 6 * lv - 4 * pv - 0 - gv <= 16 * ob - 3 * qb - 6 * lb - 4 * pb - 50 - gb
  PROVE  6 * (lb - lv) + (50 - gv) <= 16 * (ob - ov) + 3 * (qv - qb) + 4 * (pv - pb)
OBVIOUS

\* Pick takes a worker beyond the limit only for its lead.
LEMMA BestLeads ==
  ASSUME NEW candidates \in SUBSET Pool, NEW report \in [candidates -> Loads],
         NEW counted, counted.load \in [Pool -> 0..HalveAbove + 1],
         NEW limit \in Int,
         limit = counted.total \div Cardinality(candidates) + MaxTenantQueueSlack,
         NEW best \in candidates, counted.load[best] > limit,
         NEW v \in candidates, counted.load[v] <= limit,
         Score(v, candidates, counted, report) <= Score(best, candidates, counted, report)
  PROVE  6 * (counted.load[best] - counted.load[v])
           + (IF GlobalOverLimit(v, candidates, report) THEN 20 ELSE 50)
           <= Lead(report, best, v)
<1> DEFINE load == counted.load
           rv == report[v]
           rb == report[best]
           gv == IF GlobalOverLimit(v, candidates, report) THEN 30 ELSE 0
           gb == IF GlobalOverLimit(best, candidates, report) THEN 30 ELSE 0
<1>1. load[v] \in Int /\ load[best] \in Int
  OBVIOUS
<1>2. rv \in Loads /\ rb \in Loads
  BY Zenon
<1>3. /\ rv.overlap \in Int /\ rv.queue \in Int /\ rv.pressure \in Int
      /\ rb.overlap \in Int /\ rb.queue \in Int /\ rb.pressure \in Int
  BY <1>2
<1>4. ~(load[v] > limit)
  BY <1>1
<1>5. Score(v, candidates, counted, report) = RawScore(v, counted, report) - 0 - gv
  BY <1>4, Zenon DEF Score
<1>6. Score(best, candidates, counted, report) = RawScore(best, counted, report) - 50 - gb
  BY Zenon DEF Score
<1>7. gv \in {0, 30} /\ gb \in {0, 30}
  BY Zenon
<1>8. 50 - gv = IF GlobalOverLimit(v, candidates, report) THEN 20 ELSE 50
  OBVIOUS
<1> HIDE DEF gv, gb, load, rv, rb
<1>9. 16 * rv.overlap - 3 * rv.queue - 6 * load[v] - 4 * rv.pressure - 0 - gv
        <= 16 * rb.overlap - 3 * rb.queue - 6 * load[best] - 4 * rb.pressure - 50 - gb
  BY <1>5, <1>6, Zenon DEF RawScore, load, rv, rb
<1>10. 6 * (load[best] - load[v]) + (50 - gv)
         <= 16 * (rb.overlap - rv.overlap) + 3 * (rv.queue - rb.queue)
              + 4 * (rv.pressure - rb.pressure)
  BY <1>1, <1>3, <1>7, <1>9, ScoreMargin
<1> QED
  BY <1>8, <1>10, Zenon DEF Lead, load, rv, rb

\* Pick leaves the decision it took within the limit, or earned.
LEMMA PickShares ==
  ASSUME TenantInv, NEW tenant, NEW candidates \in SUBSET Pool,
         NEW report \in [candidates -> Loads], Pick(tenant, candidates, report)
  PROVE  ShareRespected'
<1>1. PICK table \in WithRoom(Prune, tenant) :
        \E best \in candidates :
          LET counted == Counted(table, tenant, candidates)
              score == [w \in candidates |-> Score(w, candidates, counted, report)]
          IN  /\ \A v \in candidates : score[v] <= score[best]
              /\ assignments' = [t \in DOMAIN table.load \cup {tenant} |->
                                   IF t = tenant THEN [counted.load EXCEPT ![best] = @ + 1]
                                                 ELSE table.load[t]]
              /\ decision' = [tenant |-> tenant, worker |-> best,
                              report |-> report, halved |-> counted.halved]
  BY Zenon DEF Pick
<1> DEFINE counted == Counted(table, tenant, candidates)
           us == CountedAt(counted, candidates)
           limit == Total(counted.load, us) \div Cardinality(candidates) + MaxTenantQueueSlack
<1>2. PICK best \in candidates :
        /\ \A v \in candidates : Score(v, candidates, counted, report)
                                   <= Score(best, candidates, counted, report)
        /\ assignments' = [t \in DOMAIN table.load \cup {tenant} |->
                             IF t = tenant THEN [counted.load EXCEPT ![best] = @ + 1]
                                           ELSE table.load[t]]
        /\ decision' = [tenant |-> tenant, worker |-> best,
                        report |-> report, halved |-> counted.halved]
  BY <1>1, Zenon
<1>3. IsTable(table.seen, table.load)
  BY PruneFacts, RoomFacts, Zenon
<1>4. /\ counted.load \in [Pool -> 0..HalveAbove + 1] /\ counted.load[best] \in 0..HalveAbove
      /\ counted.total = Total(counted.load, us)
  BY <1>3, CountedFacts, Zenon
<1> HIDE DEF counted
<1>5. PICK load : load = counted.load
  BY Zenon
<1>6. us \in SUBSET Pool /\ candidates \in SUBSET us /\ candidates # {}
  BY Zenon DEF CountedAt
<1> HIDE DEF us
<1>7. /\ Total(load, us) \div Cardinality(candidates) \in Nat
      /\ \E v \in candidates : load[v] <= Total(load, us) \div Cardinality(candidates)
  BY <1>4, <1>5, <1>6, SomeAtAverage, Zenon
<1>8. limit \in Int /\ \E v \in candidates : load[v] <= limit
  BY <1>4, <1>5, <1>6, <1>7
<1>9. [assignments'[tenant] EXCEPT ![best] = @ - 1] = load
  <2>1. assignments'[tenant] = [counted.load EXCEPT ![best] = @ + 1]
    BY <1>2, Zenon
  <2> QED
    BY <1>4, <1>5, <2>1
<1>10. limit = counted.total \div Cardinality(candidates) + MaxTenantQueueSlack
  BY <1>4, Zenon
<1> HIDE DEF limit
<1>11. \/ load[best] <= limit
       \/ \A v \in candidates : load[v] <= limit =>
            6 * (load[best] - load[v])
              + (IF GlobalOverLimit(v, candidates, report) THEN 20 ELSE 50)
              <= Lead(report, best, v)
  <2>1. SUFFICES ASSUME ~(load[best] <= limit), NEW v \in candidates, load[v] <= limit
                 PROVE  6 * (load[best] - load[v])
                          + (IF GlobalOverLimit(v, candidates, report) THEN 20 ELSE 50)
                          <= Lead(report, best, v)
    BY Zenon
  <2>2. load[best] > limit
    BY <1>4, <1>5, <1>8, <2>1
  <2> QED
    BY <1>2, <1>4, <1>5, <1>8, <1>10, <2>1, <2>2, BestLeads, Zenon
<1>12. limit = Total(load, IF counted.halved THEN Pool ELSE candidates)
                 \div Cardinality(candidates) + MaxTenantQueueSlack
  BY <1>5, Zenon DEF limit, us, CountedAt
<1>13. /\ decision'.tenant = tenant /\ decision'.worker = best /\ decision'.report = report
       /\ decision'.halved = counted.halved /\ DOMAIN decision'.report = candidates
  BY <1>2
<1> DEFINE before == [assignments'[decision'.tenant] EXCEPT ![decision'.worker] = @ - 1]
           at == Total(before, IF decision'.halved THEN Pool ELSE DOMAIN decision'.report)
                   \div Cardinality(DOMAIN decision'.report) + MaxTenantQueueSlack
<1>14. before = load
  BY <1>9, <1>13, Zenon
<1> HIDE DEF before
<1>15. at = limit
  BY <1>12, <1>13, <1>14, Zenon
<1> HIDE DEF at
<1>16. \/ before[decision'.worker] <= at
       \/ /\ \E v \in DOMAIN decision'.report : before[v] <= at
          /\ \A v \in DOMAIN decision'.report : before[v] <= at =>
               6 * (before[decision'.worker] - before[v])
                 + (IF GlobalOverLimit(v, DOMAIN decision'.report, decision'.report) THEN 20 ELSE 50)
                 <= Lead(decision'.report, decision'.worker, v)
  BY <1>8, <1>11, <1>13, <1>14, <1>15, Zenon
<1> QED
  BY <1>16, Zenon DEF ShareRespected, Total, Counts, Lead, GlobalOverLimit, before, at

\* A tenant's request goes to a worker beyond the tenant's average plus the slack
\* only if its prefix hits, queue and pressure make up for the requests it has
\* more and for the penalties in TenantAwareBoundedLoad.Pick: for any tenants,
\* workers, limits and reports.
THEOREM TenantShareRespected == TenantSpec => []ShareRespected
<1>1. TenantInit => ShareRespected
  <2>1. TenantInit => decision.tenant = "none"
    BY DEF TenantInit
  <2> QED
    BY <2>1, Zenon DEF ShareRespected
<1>2. ASSUME TenantInv, ShareRespected, [TenantNext]_tenantVars
      PROVE  ShareRespected'
  <2>1. CASE Tick \/ UNCHANGED tenantVars
    BY <1>2, <2>1, Zenon DEF Tick, tenantVars, ShareRespected, Total, Counts, Lead, GlobalOverLimit
  <2> QED
    BY <1>2, <2>1, PickShares, Zenon DEF TenantNext
<1> QED
  BY <1>1, <1>2, TenantInitInv, StepKeepsTable, PTL DEF TenantSpec

HIDE TableAssumption

-----------------------------------------------------------------------------
(* The event bus *)

USE BusAssumption

\* The publishers whose select may send to s.
Selecting(s) == {p \in Publishers : pub[p].pc = "select" /\ pub[p].cur = s}

SubscriberType ==
  subscriber \in [Subs -> [once : {"fresh", "running", "done"}, senders : Int,
                    buffered : Int, name : Names \cup {Nobody}]]

PublicationType ==
  pub \in [Publishers -> [pc : {"idle", "loop", "select"}, todo : SUBSET Subs,
                          cur : Subs \cup {Nobody}]]

\* The inductive invariant of the senders: the counter that close() waits for
\* is the number of publishers it let in, and a closed channel has none.
SendersExact ==
  /\ SubscriberType /\ PublicationType
  /\ subs \in [Names -> Subs \cup {Nobody}]
  /\ \A p \in Publishers : pub[p].pc = "select" => pub[p].cur \in Subs
  /\ \A s \in Subs : subscriber[s].senders = Cardinality(Selecting(s))
  /\ NoSendOnClosedChannel

\* A set of publishers is finite: one more or one less counts by one.
LEMMA Counting ==
  ASSUME NEW A \in SUBSET Publishers, NEW p \in Publishers
  PROVE  /\ p \notin A => Cardinality(A \cup {p}) = Cardinality(A) + 1
         /\ p \in A => Cardinality(A \ {p}) = Cardinality(A) - 1
         /\ Cardinality(A) \in Nat
         /\ Cardinality(A) = 0 <=> A = {}
<1>1. IsFiniteSet(A)
  BY FS_Subset, Zenon
<1> QED
  BY <1>1, FS_AddElement, FS_RemoveElement, FS_CardinalityType, FS_EmptySet, Zenon

\* At the start nobody publishes.
LEMMA SendersInit == BusInit => SendersExact
<1> SUFFICES ASSUME BusInit PROVE SendersExact
  BY Zenon
<1>1. \A s \in Subs : Selecting(s) = {}
  BY Zenon DEF BusInit, NoPublication, Selecting
<1>2. SubscriberType /\ PublicationType /\ subs \in [Names -> Subs \cup {Nobody}]
  BY DEF BusInit, NoPublication, NewSubscriber, SubscriberType, PublicationType
<1> QED
  BY <1>1, <1>2, FS_EmptySet, Zenon DEF BusInit, NoPublication, NewSubscriber, SendersExact, NoSendOnClosedChannel

\* A step that moves no publisher, counts no sender and closes no channel.
LEMMA SendersKept ==
  ASSUME SendersExact, UNCHANGED pub, SubscriberType',
         (subs \in [Names -> Subs \cup {Nobody}])',
         \A s \in Subs : /\ subscriber'[s].senders = subscriber[s].senders
                         /\ ChannelClosed(s)' => ChannelClosed(s)
  PROVE  SendersExact'
<1>1. \A s \in Subs : Selecting(s)' = Selecting(s)
  BY Zenon DEF Selecting
<1> QED
  BY <1>1, Zenon DEF SendersExact, PublicationType, NoSendOnClosedChannel

\* The channel is closed when its counter is zero, so nobody selects on it.
LEMMA SendersCloseEnds ==
  ASSUME SendersExact, NEW s \in Subs, CloseEnds(s)
  PROVE  SendersExact'
<1>1. /\ \A u \in Subs : Selecting(u)' = Selecting(u)
      /\ Selecting(s) \in SUBSET Publishers
  BY Zenon DEF Selecting, CloseEnds
<1>2. Selecting(s) = {}
  <2>1. CASE Publishers = {}
    BY <2>1, Zenon DEF Selecting
  <2>2. CASE Publishers # {}
    BY <1>1, <2>2, Counting, Zenon DEF SendersExact, CloseEnds
  <2> QED
    BY <2>1, <2>2, Zenon
<1>3. SubscriberType' /\ \A u \in Subs : subscriber'[u].senders = subscriber[u].senders
  BY Zenon DEF SendersExact, SubscriberType, CloseEnds
<1>4. NoSendOnClosedChannel'
  BY <1>2, Zenon DEF SendersExact, SubscriberType, CloseEnds, NoSendOnClosedChannel,
              ChannelClosed, Selecting
<1> QED
  BY <1>1, <1>3, <1>4, Zenon DEF SendersExact, PublicationType, CloseEnds

\* acquireSender lets a publisher in only while close() has not started.
LEMMA SendersAcquire ==
  ASSUME SendersExact, NEW p \in Publishers, NEW s \in Subs, AcquireSender(p, s)
  PROVE  SendersExact'
<1>1. /\ SubscriberType /\ PublicationType /\ subs' = subs /\ pub[p].pc = "loop"
      /\ IF Refuses(s)
           THEN /\ pub' = [pub EXCEPT ![p].todo = @ \ {s}]
                /\ subscriber' = subscriber
           ELSE /\ pub' = [pub EXCEPT ![p] = [pc |-> "select", todo |-> pub[p].todo \ {s},
                                             cur |-> s]]
                /\ subscriber' = [subscriber EXCEPT ![s].senders = @ + 1]
  BY Zenon DEF AcquireSender, SendersExact
<1>2. CASE Refuses(s)
  <2>1. /\ PublicationType' /\ subscriber' = subscriber
        /\ \A q \in Publishers : pub'[q].pc = pub[q].pc /\ pub'[q].cur = pub[q].cur
    BY <1>1, <1>2 DEF PublicationType
  <2>2. \A u \in Subs : Selecting(u)' = Selecting(u)
    BY <2>1, Zenon DEF Selecting
  <2> QED
    BY <1>1, <2>1, <2>2, Zenon DEF SendersExact, SubscriberType, NoSendOnClosedChannel, ChannelClosed
<1>3. CASE ~Refuses(s)
  <2>1. /\ PublicationType' /\ pub'[p].pc = "select" /\ pub'[p].cur = s
        /\ \A q \in Publishers \ {p} : pub'[q] = pub[q]
    BY <1>1, <1>3 DEF PublicationType
  <2>2. /\ SubscriberType' /\ subscriber'[s].senders = subscriber[s].senders + 1
        /\ \A u \in Subs : subscriber'[u].once = subscriber[u].once
        /\ \A u \in Subs \ {s} : subscriber'[u].senders = subscriber[u].senders
    BY <1>1, <1>3 DEF SubscriberType
  <2>3. /\ Selecting(s)' = Selecting(s) \cup {p} /\ p \notin Selecting(s)
        /\ \A u \in Subs \ {s} : Selecting(u)' = Selecting(u)
        /\ Selecting(s) \in SUBSET Publishers
    BY <1>1, <2>1 DEF Selecting
  <2>4. Cardinality(Selecting(s)') = Cardinality(Selecting(s)) + 1
    BY <2>3, Counting, Zenon
  <2>5. \A u \in Subs : subscriber'[u].senders = Cardinality(Selecting(u)')
    BY <2>2, <2>3, <2>4, Zenon DEF SendersExact
  <2> QED
    BY <1>1, <1>3, <2>1, <2>2, <2>5
       DEF SendersExact, NoSendOnClosedChannel, ChannelClosed, Refuses
<1> QED
  BY <1>2, <1>3, Zenon

\* Whichever case the select takes, releaseSender counts the publisher out.
LEMMA SendersRelease ==
  ASSUME SendersExact, NEW p \in Publishers, Send(p) \/ SelectDone(p) \/ PublishCancelled(p)
  PROVE  SendersExact'
<1>1. PICK s \in Subs : s = pub[p].cur /\ pub[p].pc = "select"
  BY Zenon DEF SendersExact, Send, SelectDone, PublishCancelled
<1>2. /\ PublicationType' /\ pub'[p].pc # "select"
      /\ \A q \in Publishers \ {p} : pub'[q] = pub[q]
  BY DEF SendersExact, PublicationType, Send, SelectDone, PublishCancelled, NoPublication
<1>3. /\ SubscriberType' /\ subscriber'[s].senders = subscriber[s].senders - 1
      /\ \A u \in Subs : subscriber'[u].once = subscriber[u].once
      /\ \A u \in Subs \ {s} : subscriber'[u].senders = subscriber[u].senders
  <2>1. CASE Send(p)
    <3>1. subscriber[s].buffered + 1 \in Int /\ subscriber[s].senders - 1 \in Int
      BY DEF SendersExact, SubscriberType
    <3> DEFINE now == [subscriber[s] EXCEPT !.buffered = subscriber[s].buffered + 1,
                                     !.senders = subscriber[s].senders - 1]
    <3>2. /\ now \in [once : {"fresh", "running", "done"}, senders : Int,
                      buffered : Int, name : Names \cup {Nobody}]
          /\ now.once = subscriber[s].once /\ now.senders = subscriber[s].senders - 1
      BY <3>1, Zenon DEF SendersExact, SubscriberType
    <3>3. subscriber' = [subscriber EXCEPT ![s] = now]
      BY <1>1, <2>1, Zenon DEF SendersExact, SubscriberType, Send
    <3> HIDE DEF now
    <3> QED
      BY <3>2, <3>3, Zenon DEF SendersExact, SubscriberType
  <2>2. CASE SelectDone(p) \/ PublishCancelled(p)
    BY <1>1, <2>2 DEF SendersExact, SubscriberType, SelectDone, PublishCancelled
  <2> QED
    BY <2>1, <2>2, Zenon
<1>4. /\ Selecting(s)' = Selecting(s) \ {p} /\ p \in Selecting(s)
      /\ \A u \in Subs \ {s} : Selecting(u)' = Selecting(u)
      /\ Selecting(s) \in SUBSET Publishers
  BY <1>1, <1>2, Zenon DEF Selecting
<1>5. Cardinality(Selecting(s)') = Cardinality(Selecting(s)) - 1
  BY <1>4, Counting
<1>6. \A u \in Subs : subscriber'[u].senders = Cardinality(Selecting(u)')
  BY <1>1, <1>3, <1>4, <1>5, Zenon DEF SendersExact
<1>7. subs' = subs
  BY Zenon DEF Send, SelectDone, PublishCancelled
<1> QED
  BY <1>2, <1>3, <1>6, <1>7, Zenon DEF SendersExact, NoSendOnClosedChannel, ChannelClosed

\* Publish starts and ends outside the select.
LEMMA SendersPublish ==
  ASSUME SendersExact, NEW p \in Publishers, Publish(p) \/ PublishReturns(p)
  PROVE  SendersExact'
<1>1. PublicationType' /\ pub'[p].pc # "select"
      /\ \A q \in Publishers \ {p} : pub'[q] = pub[q]
  BY DEF SendersExact, PublicationType, Publish, PublishReturns, NoPublication, Listed
<1>2. \A u \in Subs : Selecting(u)' = Selecting(u)
  BY <1>1, Zenon DEF Selecting, Publish, PublishReturns
<1> QED
  BY <1>1, <1>2, Zenon DEF SendersExact, SubscriberType, Publish, PublishReturns,
                    NoSendOnClosedChannel, ChannelClosed

\* The steps of subscribers, watchers, consumers and Close.
LEMMA SendersSubscriber ==
  ASSUME SendersExact,
         \/ \E s \in Subs : \/ CloseStarts(s) \/ WatchStep(s) \/ RemoveSubscriber(s)
                            \/ Receive(s) \/ \E n \in Names : Subscribe(s, n)
         \/ Close \/ CloseGoesOn
  PROVE  SendersExact'
<1>1. UNCHANGED pub
  BY Zenon DEF CloseStarts, WatchStep, SubscribeReturns, WatcherReturns, RemoveSubscriber,
         Receive, Subscribe, Close, CloseGoesOn
<1>2. (subs \in [Names -> Subs \cup {Nobody}])'
  BY Zenon DEF CloseStarts, WatchStep, SubscribeReturns, WatcherReturns, RemoveSubscriber,
         Receive, Subscribe, Close, CloseGoesOn, SendersExact
<1>3. /\ SubscriberType'
      /\ \A u \in Subs : /\ subscriber'[u].senders = subscriber[u].senders
                         /\ ChannelClosed(u)' => ChannelClosed(u)
  BY DEF CloseStarts, WatchStep, SubscribeReturns, WatcherReturns, RemoveSubscriber,
         Receive, Subscribe, Close, CloseGoesOn, SendersExact, SubscriberType,
         ChannelClosed
<1> QED
  BY <1>1, <1>2, <1>3, SendersKept, Zenon

\* The invariant of the senders holds throughout.
LEMMA SendersAlways == BusSpec => []SendersExact
<1>1. SendersExact /\ [BusNext]_busVars => SendersExact'
  <2> SUFFICES ASSUME SendersExact, [BusNext]_busVars PROVE SendersExact'
    BY Zenon
  <2>1. CASE \E s \in Subs : CloseEnds(s)
    BY <2>1, SendersCloseEnds, Zenon
  <2>2. CASE \E s \in Subs : \/ CloseStarts(s) \/ WatchStep(s)
                             \/ RemoveSubscriber(s) \/ Receive(s)
                             \/ \E n \in Names : Subscribe(s, n)
    BY <2>2, SendersSubscriber, Zenon
  <2>3. CASE \E p \in Publishers, s \in Subs : AcquireSender(p, s)
    BY <2>3, SendersAcquire, Zenon
  <2>4. CASE \E p \in Publishers : Send(p) \/ SelectDone(p) \/ PublishCancelled(p)
    BY <2>4, SendersRelease, Zenon
  <2>5. CASE \E p \in Publishers : Publish(p) \/ PublishReturns(p)
    BY <2>5, SendersPublish, Zenon
  <2>6. CASE Close \/ CloseGoesOn
    BY <2>6, SendersSubscriber, Zenon
  <2>7. CASE UNCHANGED busVars
    BY <2>7, SendersKept, Zenon DEF busVars, SendersExact, SubscriberType, ChannelClosed
  <2> QED
    BY <2>1, <2>2, <2>3, <2>4, <2>5, <2>6, <2>7, Zenon DEF BusNext, CloseStep, PublishStep
<1> QED
  BY <1>1, SendersInit, PTL DEF BusSpec

\* No publisher ever sends on a closed channel, whatever the order in which
\* subscribers are closed, replaced and published to (acquireSender, close).
THEOREM NeverSendsOnClosed == BusSpec => []NoSendOnClosedChannel
<1>1. SendersExact => NoSendOnClosedChannel
  BY Zenon DEF SendersExact
<1> QED
  BY <1>1, SendersAlways, PTL

-----------------------------------------------------------------------------

\* The inductive invariant of the map: it lists a subscriber under its own
\* name, nothing is left to Close before it is called, and a subscriber has
\* no watcher before the call of Subscribe that makes it returns.
ListedByName ==
  /\ caller \in [Subs -> Subs \cup {Nobody}]
  /\ watcher \in [Subs -> {"none", "waiting", "removing", "gone"}]
  /\ closer \in [todo : SUBSET Subs, cur : Subs \cup {Nobody}]
  /\ ~closed => closer.todo = {} /\ closer.cur = Nobody
  /\ \A s \in Subs : subscriber[s].name = Nobody => caller[s] = Nobody /\ watcher[s] = "none"
  /\ \A s \in Subs : caller[s] # Nobody => watcher[s] = "none"
  /\ \A n \in Names : subs[n] # Nobody => subscriber[subs[n]].name = n
  /\ OpenIsListed

\* At the start no subscriber has a name.
LEMMA ListingInit == BusInit => ListedByName
  BY DEF BusInit, NewSubscriber, ListedByName, OpenIsListed

\* A step that changes neither the map nor who closes what, reopens no
\* subscriber and renames none.
LEMMA ListingKept ==
  ASSUME ListedByName, SendersExact, UNCHANGED <<closed, subs, caller, watcher, closer>>,
         \A s \in Subs : /\ subscriber'[s].name = subscriber[s].name
                         /\ subscriber'[s].once = "fresh" => subscriber[s].once = "fresh"
  PROVE  ListedByName'
<1>1. ToClose' = ToClose
  BY Zenon DEF ToClose
<1>2. OpenIsListed'
  BY <1>1, Zenon DEF ListedByName, OpenIsListed, Refuses
<1>3. \A n \in Names : subs'[n] # Nobody => subscriber'[subs'[n]].name = n
  BY DEF ListedByName, SendersExact
<1> QED
  BY <1>2, <1>3, Zenon DEF ListedByName

\* Publishers, consumers and the body of close() do not touch the map.
LEMMA ListingOthers ==
  ASSUME ListedByName, SendersExact,
         \/ \E s \in Subs : CloseStep(s) \/ Receive(s)
         \/ \E p \in Publishers : PublishStep(p) \/ Publish(p) \/ PublishCancelled(p)
         \/ UNCHANGED busVars
  PROVE  ListedByName'
<1>1. UNCHANGED <<closed, subs, caller, watcher, closer>>
  BY Zenon DEF CloseStep, CloseStarts, CloseEnds, Receive, PublishStep, AcquireSender, Send,
         SelectDone, PublishReturns, Publish, PublishCancelled, busVars
<1>2. \A s \in Subs : /\ subscriber'[s].name = subscriber[s].name
                      /\ subscriber'[s].once = "fresh" => subscriber[s].once = "fresh"
  <2>1. SubscriberType /\ \A p \in Publishers : pub[p].pc = "select" => pub[p].cur \in Subs
    BY Zenon DEF SendersExact
  <2>2. CASE \E s \in Subs : CloseStep(s) \/ Receive(s)
    BY <2>1, <2>2 DEF SubscriberType, CloseStep, CloseStarts, CloseEnds, Receive
  <2>3. CASE \E p \in Publishers : Send(p)
    BY <2>1, <2>3 DEF SubscriberType, Send
  <2>4. CASE \E p \in Publishers : SelectDone(p) \/ PublishCancelled(p)
    BY <2>1, <2>4 DEF SubscriberType, SelectDone, PublishCancelled
  <2>5. CASE \E p \in Publishers, s \in Subs : AcquireSender(p, s)
    BY <2>1, <2>5 DEF SubscriberType, AcquireSender
  <2>6. CASE \/ \E p \in Publishers : PublishReturns(p) \/ Publish(p)
             \/ UNCHANGED busVars
    BY <2>6, Zenon DEF PublishReturns, Publish, busVars
  <2> QED
    BY <2>2, <2>3, <2>4, <2>5, <2>6, Zenon DEF PublishStep
<1> QED
  BY <1>1, <1>2, ListingKept, Zenon

\* Subscribe sets out to close the subscriber whose name it takes over.
LEMMA ListingSubscribe ==
  ASSUME ListedByName, SendersExact, NEW s \in Subs, NEW n \in Names, Subscribe(s, n)
  PROVE  ListedByName'
<1>1. /\ SubscriberType /\ subs \in [Names -> Subs \cup {Nobody}] /\ subscriber[s].name = Nobody
      /\ caller[s] = Nobody /\ \A m \in Names : subs[m] # s
  BY DEF SendersExact, ListedByName, Subscribe
<1>2. /\ subscriber'[s].name = n /\ \A u \in Subs : subscriber'[u].once = subscriber[u].once
      /\ \A u \in Subs \ {s} : subscriber'[u] = subscriber[u]
  BY <1>1, Zenon DEF Subscribe, SubscriberType
<1>3. /\ subs'[n] = s /\ \A m \in Names \ {n} : subs'[m] = subs[m]
      /\ caller'[s] = subs[n] /\ \A u \in Subs \ {s} : caller'[u] = caller[u]
      /\ \A u \in Subs \ {s} : watcher'[u] = watcher[u]
      /\ watcher[s] = "none" /\ watcher'[s] \in {"none", "waiting"}
      /\ subs[n] # Nobody => watcher'[s] = "none"
      /\ closer' = closer /\ closed' = closed
      /\ caller' \in [Subs -> Subs \cup {Nobody}]
      /\ watcher' \in [Subs -> {"none", "waiting", "removing", "gone"}]
  BY <1>1, Zenon DEF Subscribe, ListedByName
<1>4. /\ ToClose \subseteq ToClose'
      /\ subs[n] # Nobody => subs[n] \in ToClose'
  BY <1>1, <1>3 DEF ToClose
<1>5. OpenIsListed'
  <2> SUFFICES ASSUME NEW u \in Subs, u # s, subscriber[u].name # Nobody, subscriber[u].once = "fresh",
                      u \notin ToClose' \cup closer.todo
               PROVE  subs'[subscriber[u].name] = u
    BY <1>2, <1>3, Zenon DEF OpenIsListed, Refuses
  <2>1. subs[subscriber[u].name] = u /\ subscriber[u].name \in Names
    BY <1>1, <1>4, Zenon DEF ListedByName, OpenIsListed, Refuses, SubscriberType
  <2>2. subscriber[u].name # n
    BY <1>4, <2>1, Zenon
  <2> QED
    BY <1>3, <2>1, <2>2, Zenon
<1>6. /\ \A u \in Subs : caller'[u] # Nobody => watcher'[u] = "none"
      /\ \A u \in Subs : subscriber'[u].name = Nobody => caller'[u] = Nobody /\ watcher'[u] = "none"
      /\ \A m \in Names : subs'[m] # Nobody => subscriber'[subs'[m]].name = m
  BY <1>1, <1>2, <1>3 DEF ListedByName
<1> QED
  BY <1>3, <1>5, <1>6, Zenon DEF ListedByName

\* A call of close() that returns leaves its subscriber closed, and a watcher
\* takes away its own subscriber only.
LEMMA ListingWatch ==
  ASSUME ListedByName, SendersExact, NEW s \in Subs, WatchStep(s) \/ RemoveSubscriber(s)
  PROVE  ListedByName'
<1>1. /\ SubscriberType /\ subs \in [Names -> Subs \cup {Nobody}]
      /\ caller \in [Subs -> Subs \cup {Nobody}]
      /\ watcher \in [Subs -> {"none", "waiting", "removing", "gone"}]
  BY Zenon DEF SendersExact, ListedByName
<1>2. CASE SubscribeReturns(s)
  <2>1. /\ caller'[s] = Nobody /\ \A u \in Subs \ {s} : caller'[u] = caller[u]
        /\ \A u \in Subs \ {s} : watcher'[u] = watcher[u]
        /\ caller[s] # Nobody /\ subscriber[caller[s]].once = "done"
        /\ subscriber[s].name # Nobody /\ watcher[s] = "none"
        /\ UNCHANGED <<closed, subs, subscriber, closer>>
        /\ caller' \in [Subs -> Subs \cup {Nobody}]
        /\ watcher' \in [Subs -> {"none", "waiting", "removing", "gone"}]
    BY <1>1, <1>2, Zenon DEF SubscribeReturns, ListedByName, ChannelClosed
  <2> QED
    BY <1>1, <2>1 DEF ListedByName, OpenIsListed, ToClose, Refuses
<1>3. CASE WatcherReturns(s)
  <2>1. /\ watcher' = [watcher EXCEPT ![s] = "gone"] /\ watcher[s] # "none"
        /\ watcher[s] = "removing" => subscriber[s].once = "done"
        /\ UNCHANGED <<closed, subs, subscriber, caller, closer>>
    BY <1>3, Zenon DEF WatcherReturns, ChannelClosed
  <2> QED
    BY <1>1, <2>1, Zenon DEF ListedByName, OpenIsListed, ToClose, Refuses
<1>4. CASE RemoveSubscriber(s)
  <2>1. /\ watcher' = [watcher EXCEPT ![s] = "removing"] /\ watcher[s] = "waiting"
        /\ subscriber[s].name \in Names
        /\ subs' = [subs EXCEPT ![subscriber[s].name] = IF @ = s THEN Nobody ELSE @]
        /\ UNCHANGED <<closed, subscriber, caller, closer>>
    BY <1>1, <1>4 DEF RemoveSubscriber, ListedByName, SubscriberType
  <2>2. s \in ToClose' /\ ToClose \subseteq ToClose'
    BY <1>1, <2>1, Zenon DEF ToClose
  <2>3. OpenIsListed'
    BY <1>1, <2>1, <2>2 DEF ListedByName, OpenIsListed, Refuses, SubscriberType
  <2> QED
    BY <1>1, <2>1, <2>3, Zenon DEF ListedByName
<1> QED
  BY <1>2, <1>3, <1>4, Zenon DEF WatchStep

\* Close sets out to close every subscriber of the map, and leaves each one
\* closed behind it.
LEMMA ListingClose ==
  ASSUME ListedByName, SendersExact, Close \/ CloseGoesOn
  PROVE  ListedByName'
<1>1. /\ SubscriberType /\ subs \in [Names -> Subs \cup {Nobody}]
      /\ closer \in [todo : SUBSET Subs, cur : Subs \cup {Nobody}]
  BY Zenon DEF SendersExact, ListedByName
<1>2. CASE Close
  <2>1. /\ closer'.todo = Listed /\ closer'.cur = Nobody /\ closed' = TRUE
        /\ closer.todo = {} /\ closer.cur = Nobody
        /\ subs' = [n \in Names |-> Nobody]
        /\ Listed \in SUBSET Subs /\ closer' \in [todo : SUBSET Subs, cur : Subs \cup {Nobody}]
        /\ UNCHANGED <<subscriber, caller, watcher>>
    BY <1>1, <1>2 DEF Close, ListedByName, Listed
  <2>2. ToClose' = ToClose
    BY <2>1, Zenon DEF ToClose
  <2>3. OpenIsListed'
    BY <1>1, <2>1, <2>2 DEF ListedByName, OpenIsListed, Refuses, SubscriberType, Listed
  <2> QED
    BY <2>1, <2>3, Zenon DEF ListedByName
<1>3. CASE CloseGoesOn
  <2>1. /\ closer.todo \subseteq closer'.todo \cup {closer'.cur}
        /\ closer' \in [todo : SUBSET Subs, cur : Subs \cup {Nobody}]
        /\ closer.cur # Nobody => subscriber[closer.cur].once = "done"
        /\ closed
        /\ UNCHANGED <<closed, subs, subscriber, caller, watcher>>
    BY <1>1, <1>3 DEF CloseGoesOn, ListedByName, ChannelClosed
  <2>2. OpenIsListed'
    BY <1>1, <2>1 DEF ListedByName, OpenIsListed, ToClose, Refuses
  <2> QED
    BY <2>1, <2>2, Zenon DEF ListedByName
<1> QED
  BY <1>2, <1>3, Zenon

\* A subscriber nobody sets out to close stays in the map under its name,
\* whatever replacements, cancellations and publications interleave (Subscribe,
\* removeSubscriber, Close).
THEOREM OpenStaysListed == BusSpec => []OpenIsListed
<1>1. ListedByName /\ SendersExact /\ [BusNext]_busVars => ListedByName'
  <2> SUFFICES ASSUME ListedByName, SendersExact, [BusNext]_busVars PROVE ListedByName'
    BY Zenon
  <2>1. CASE \E s \in Subs, n \in Names : Subscribe(s, n)
    BY <2>1, ListingSubscribe, Zenon
  <2>2. CASE \E s \in Subs : WatchStep(s) \/ RemoveSubscriber(s)
    BY <2>2, ListingWatch, Zenon
  <2>3. CASE Close \/ CloseGoesOn
    BY <2>3, ListingClose, Zenon
  <2>4. CASE \/ \E s \in Subs : CloseStep(s) \/ Receive(s)
             \/ \E p \in Publishers : PublishStep(p) \/ Publish(p) \/ PublishCancelled(p)
             \/ UNCHANGED busVars
    BY <2>4, ListingOthers, Zenon
  <2> QED
    BY <2>1, <2>2, <2>3, <2>4, Zenon DEF BusNext
<1>2. ListedByName => OpenIsListed
  BY Zenon DEF ListedByName
<1> QED
  BY <1>1, <1>2, ListingInit, SendersAlways, PTL DEF BusSpec

HIDE BusAssumption


-----------------------------------------------------------------------------
(* The life of the store *)

\* The inductive invariant: the lock is held at every stage between
\* TakeLock and the closing of the table, and no task outlives that.
LockedWhileUsed ==
  /\ life \in {"out", "locked", "opened", "open", "shut", "closed"}
  /\ owner = Me <=> life \in {"locked", "opened", "open", "shut"}
  /\ life \in {"opened", "open", "shut"} => epoch = Me
  /\ life \notin {"open", "shut"} =>
       queue = <<>> /\ \A t \in Threads : thread[t].pc = "idle"

USE ProcessAssumption

\* At the start nobody holds the lock and nothing is queued.
LEMMA LockInit == Init => LockedWhileUsed
  BY DEF Init, Quiet, Resting, LockedWhileUsed

\* Construction: what fails gives the lock back.
LEMMA LockConstruction ==
  LockedWhileUsed /\ (TakeLock \/ OpenTable \/ BuildStore) => LockedWhileUsed'
  BY Zenon DEF LockedWhileUsed, TakeLock, OpenTable, BuildStore

\* A submission hands work over only while the store is open.
LEMMA LockSubmitting ==
  ASSUME LockedWhileUsed, NEW c \in Submitters, Submitting(c)
  PROVE  LockedWhileUsed'
  BY Zenon DEF LockedWhileUsed, Submitting, SubmitStep, Admit, HandOver, Undo, Attach, lifeVars

\* A thread starts what is queued only; outside open and shut nothing is.
LEMMA LockPrefetching ==
  ASSUME LockedWhileUsed, NEW t \in Threads, Prefetching(t)
  PROVE  LockedWhileUsed'
  BY Zenon DEF LockedWhileUsed, Prefetching, ThreadStep, Start, Finish, Done, lifeVars

\* close() gives the lock back when the executor is through.
LEMMA LockClosing == LockedWhileUsed /\ Closing => LockedWhileUsed'
  BY Zenon DEF LockedWhileUsed, Closing, LockAfter, Shutdown, CloseMetadata

\* Another process and a crash.
LEMMA LockEnvironment ==
  LockedWhileUsed /\ (RivalOpens \/ RivalEnds \/ Crash) => LockedWhileUsed'
  BY DEF LockedWhileUsed, RivalOpens, RivalEnds, Crash, Resting, vars

\* The database is used by its owner only: from the opening of the table to its
\* closing the process holds the lock and metadata_runtime names it, no prefetch
\* is queued or running outside that time, and a process without a store holds
\* no lock (build_store_from_config, MultiTierKVBlockStore.close).
THEOREM OwnerOnly == Spec => []UsedByOwnerOnly
<1>1. LockedWhileUsed /\ [Next]_storeVars => LockedWhileUsed'
  <2> SUFFICES ASSUME LockedWhileUsed, [Next]_storeVars PROVE LockedWhileUsed'
    BY Zenon
  <2>1. CASE TakeLock \/ OpenTable \/ BuildStore
    BY <2>1, LockConstruction, Zenon
  <2>2. CASE \E c \in Submitters : Submitting(c)
    BY <2>2, LockSubmitting, Zenon
  <2>3. CASE \E t \in Threads : Prefetching(t)
    BY <2>3, LockPrefetching, Zenon
  <2>4. CASE Closing
    BY <2>4, LockClosing, Zenon
  <2>5. CASE RivalOpens \/ RivalEnds \/ Crash
    BY <2>5, LockEnvironment, Zenon
  <2>6. CASE UNCHANGED storeVars
    BY <2>6, Zenon DEF LockedWhileUsed, storeVars, vars, lifeVars
  <2>. QED
    BY <2>1, <2>2, <2>3, <2>4, <2>5, <2>6, Zenon DEF Next
<1>2. LockedWhileUsed => UsedByOwnerOnly
  BY Zenon DEF LockedWhileUsed, UsedByOwnerOnly, Executing
<1>. QED
  BY LockInit, <1>1, <1>2, PTL DEF Spec

-----------------------------------------------------------------------------
(* The calls on the tiers *)

USE ManagerAssumption

Outcomes ==
  {"none", "hit", "miss", "present", "located", "exhausted", "prefetch", "recompute", "promoted",
   "gone", "evicted", "corrupt", "error", "target_unavailable", "lookup_unavailable",
   "load_unavailable"}

CallRecord ==
  [op : {"none", "lookup", "load", "promote", "prefetch", "store", "evict", "demote"},
   pc : {"idle", "contains", "take", "scan", "sources", "load", "store", "verify", "evict"},
   target : Tiers \cup {NoTier}, source : Tiers \cup {NoTier},
   ctx : Contexts \cup {AtRest.ctx}, todo : Seq(Tiers), located : Seq(Tiers),
   failed : BOOLEAN, out : Outcomes]

\* A call that is to write has a tier to write to, a demotion one to leave.
Placed(r) ==
  /\ r.pc \in {"contains", "take", "sources", "load", "store"} \/ (r.pc = "scan" /\ r.op # "lookup")
       => r.target \in Tiers
  /\ r.pc \in {"load", "store"} /\ r.op = "demote" => r.source \in Tiers

ManagerType ==
  /\ holds \in SUBSET Tiers /\ disturbed \in SUBSET Readers
  /\ call \in [Calls -> CallRecord] /\ \A c \in Calls : Placed(call[c])
  /\ had \in [Calls -> SUBSET Tiers] /\ \A c \in Calls : had[c] \subseteq holds
  /\ \A c \in Readers : call[c].op \notin {"store", "evict", "demote"} /\ call[c].pc # "evict"

\* Every other tier loads faster than S3 and asks for no more benefit.
S3IsSlowest ==
  /\ "s3" \in Tiers => \A t \in Tiers \ {"s3"} : LoadMs[t] < LoadMs["s3"]
  /\ Threshold <= S3Threshold

\* What holds of a reader's call r, of the tiers h that have held the block all
\* along, of the tiers hs that hold it, and of whether no tier lost it meanwhile.
Accounted(r, h, calm, hs) ==
  /\ r.pc = "idle" =>
       /\ r.out = "miss" /\ calm => h = {}
       /\ r.out = "exhausted" => h \subseteq {r.target}
       /\ r.out = "lookup_unavailable" => h = {}
       /\ r.out = "load_unavailable" /\ S3IsSlowest => h = {}
  /\ r.pc \in {"contains", "take"} =>
       /\ r.todo = LookupOrder /\ r.located = <<>> /\ r.op \in {"load", "promote", "prefetch"}
       /\ r.op # "prefetch" => r.ctx \in Contexts
  /\ r.pc = "take" => r.op # "prefetch" /\ (calm => r.target \in hs)
  /\ r.pc = "scan" =>
       /\ calm => Range(r.located) \subseteq hs
       /\ h \subseteq Range(r.todo) \cup Range(r.located) \/ (r.op = "lookup" /\ r.located # <<>>)
       /\ r.op \in {"load", "promote"} => r.ctx \in Contexts
  /\ r.pc = "load" /\ r.op # "prefetch" =>
       /\ calm => r.source \in hs
       /\ r.source = "s3" /\ S3IsSlowest => h \subseteq {"s3"}
  /\ r.pc \in {"load", "store"} /\ r.op = "prefetch" =>
       r.todo = <<>> /\ h \subseteq {r.target, r.source} \cup Range(r.located)
  /\ r.pc = "sources" =>
       r.op = "prefetch" /\ r.todo = <<>> /\ h \subseteq {r.target} \cup Range(r.located)

ManagerInv ==
  ManagerType /\ \A c \in Readers : Accounted(call[c], had[c], c \notin disturbed, holds)

\* What a step may do to the holders, as every call sees it.
Moved ==
  /\ holds' \in SUBSET Tiers /\ disturbed' \in SUBSET Readers /\ had' \in [Calls -> SUBSET Tiers]
  /\ \A d \in Calls : had'[d] \subseteq holds' /\ had'[d] \subseteq had[d]
  /\ \A d \in Readers : d \notin disturbed' => d \notin disturbed /\ holds \subseteq holds'

\* The same of every call but c.
OthersMoved(c) ==
  /\ holds' \in SUBSET Tiers /\ disturbed' \in SUBSET Readers /\ had' \in [Calls -> SUBSET Tiers]
  /\ \A d \in Calls : had'[d] \subseteq holds' /\ (d # c => had'[d] \subseteq had[d])
  /\ \A d \in Readers \ {c} : d \notin disturbed' => d \notin disturbed /\ holds \subseteq holds'

LEMMA SeqSets ==
  ASSUME NEW S, NEW s \in Seq(S)
  PROVE  /\ Range(s) \subseteq S /\ Range(<<>>) = {}
         /\ s # <<>> => /\ Head(s) \in S /\ Tail(s) \in Seq(S)
                        /\ Range(s) = {Head(s)} \cup Range(Tail(s))
         /\ \A x \in S : Append(s, x) \in Seq(S) /\ Range(Append(s, x)) = Range(s) \cup {x}
<1>1. Range(s) \subseteq S /\ Range(<<>>) = {}
  BY DEF Range
<1>2. ASSUME s # <<>>
      PROVE  Head(s) \in S /\ Tail(s) \in Seq(S) /\ Range(s) = {Head(s)} \cup Range(Tail(s))
  <2>1. Len(s) > 0 /\ Head(s) = s[1] /\ Tail(s) \in Seq(S) /\ Len(Tail(s)) = Len(s) - 1
    BY <1>2
  <2>2. \A i \in 1..Len(s) - 1 : Tail(s)[i] = s[i + 1]
    BY <1>2
  <2>3. \A i \in 1..Len(s) : i = 1 \/ (i - 1 \in 1..Len(s) - 1 /\ s[i] = Tail(s)[i - 1])
    BY <2>1, <2>2
  <2>4. DOMAIN s = 1..Len(s) /\ DOMAIN Tail(s) = 1..Len(s) - 1
    BY <2>1
  <2>5. ASSUME NEW i \in 1..Len(s)
        PROVE  s[i] \in {Head(s)} \cup Range(Tail(s))
    BY <2>1, <2>3, <2>4, Zenon DEF Range
  <2>6. ASSUME NEW i \in 1..Len(s) - 1
        PROVE  Tail(s)[i] \in Range(s)
    <3>1. i + 1 \in 1..Len(s) /\ Tail(s)[i] = s[i + 1]
      BY <2>1, <2>2
    <3> QED
      BY <2>4, <3>1, Zenon DEF Range
  <2>7. Head(s) \in Range(s) /\ Head(s) \in S
    BY <2>1, <2>4 DEF Range
  <2> QED
    BY <2>1, <2>4, <2>5, <2>6, <2>7, Zenon DEF Range
<1>3. ASSUME NEW x \in S
      PROVE  Append(s, x) \in Seq(S) /\ Range(Append(s, x)) = Range(s) \cup {x}
  <2> DEFINE a == Append(s, x)
  <2>1. a \in Seq(S) /\ DOMAIN a = 1..Len(s) + 1 /\ DOMAIN s = 1..Len(s)
    OBVIOUS
  <2>2. Len(s) \in Nat /\ a[Len(s) + 1] = x /\ \A i \in 1..Len(s) : a[i] = s[i]
    OBVIOUS
  <2> HIDE DEF a
  <2>3. ASSUME NEW i \in 1..Len(s) + 1
        PROVE  a[i] \in Range(s) \cup {x}
    <3>1. i = Len(s) + 1 \/ i \in 1..Len(s)
      BY <2>2
    <3> QED
      BY <2>1, <2>2, <3>1, Zenon DEF Range
  <2>4. x \in Range(a)
    BY <2>1, <2>2 DEF Range
  <2>5. ASSUME NEW i \in 1..Len(s)
        PROVE  s[i] \in Range(a)
    <3>1. i \in DOMAIN a /\ a[i] = s[i]
      BY <2>1, <2>2
    <3> QED
      BY <3>1, Zenon DEF Range
  <2>6. Range(a) = Range(s) \cup {x}
    BY <2>1, <2>3, <2>4, <2>5, Zenon DEF Range
  <2> QED
    BY <2>1, <2>6, Zenon DEF a
<1> QED
  BY <1>1, <1>2, <1>3, Zenon

LEMMA AppendSets ==
  ASSUME NEW S, NEW s \in Seq(S), NEW x \in S
  PROVE  Append(s, x) \in Seq(S) /\ Append(s, x) # <<>> /\ Range(Append(s, x)) = Range(s) \cup {x}
<1>1. Append(s, x) \in Seq(S) /\ Range(Append(s, x)) = Range(s) \cup {x} /\ Range(<<>>) = {}
  BY SeqSets
<1>2. x \in Range(Append(s, x))
  BY <1>1, Zenon
<1> QED
  BY <1>1, <1>2, Zenon

LEMMA OrderFacts == LookupOrder \in Seq(Tiers) /\ Range(LookupOrder) = Tiers
  BY DEF Tiers, Range

LEMMA AtRestType == AtRest \in CallRecord
<1>1. <<>> \in Seq(Tiers)
  OBVIOUS
<1> DEFINE C == Contexts \cup {AtRest.ctx}
           x == [tokens |-> 0, slo |-> NoSlo]
<1>2. x \in C
  BY Zenon DEF AtRest
<1>3. "none" \in Outcomes
  BY Zenon DEF Outcomes
<1> HIDE DEF C, x
<1>4. AtRest = [op |-> "none", pc |-> "idle", target |-> NoTier, source |-> NoTier, ctx |-> x,
                todo |-> <<>>, located |-> <<>>, failed |-> FALSE, out |-> "none"]
  BY Zenon DEF AtRest, x
<1>5. AtRest \in [op : {"none", "lookup", "load", "promote", "prefetch", "store", "evict", "demote"},
                 pc : {"idle", "contains", "take", "scan", "sources", "load", "store", "verify", "evict"},
                 target : Tiers \cup {NoTier}, source : Tiers \cup {NoTier},
                 ctx : C, todo : Seq(Tiers), located : Seq(Tiers),
                 failed : BOOLEAN, out : Outcomes]
  BY <1>1, <1>2, <1>3, <1>4, Zenon
<1> QED
  BY <1>5, Zenon DEF CallRecord, C

\* What is accounted for stays so when holders are lost.
LEMMA AccountedStays ==
  ASSUME NEW r, NEW h, NEW calm, NEW hs, Accounted(r, h, calm, hs),
         NEW h2 \in SUBSET h, NEW calm2, NEW hs2, calm2 => calm /\ hs \subseteq hs2
  PROVE  Accounted(r, h2, calm2, hs2)
  BY Zenon DEF Accounted

\* A step of one call leaves the others accounted for.
LEMMA OneMoves ==
  ASSUME ManagerInv, NEW c \in Calls, NEW r \in CallRecord, Go(c, r), OthersMoved(c), Placed(r),
         c \in Readers => /\ r.op \notin {"store", "evict", "demote"} /\ r.pc # "evict"
                          /\ Accounted(r, had'[c], c \notin disturbed', holds')
  PROVE  ManagerInv'
<1>1. call' \in [Calls -> CallRecord] /\ call'[c] = r /\ \A d \in Calls \ {c} : call'[d] = call[d]
  BY Zenon DEF ManagerInv, ManagerType, Go
<1>2. ASSUME NEW d \in Readers
      PROVE  Accounted(call'[d], had'[d], d \notin disturbed', holds')
  <2>1. CASE d = c
    BY <1>1, <2>1, Zenon
  <2>2. CASE d # c
    <3>1. d \in Calls /\ call'[d] = call[d]
      BY <1>1, <2>2, Zenon DEF Calls
    <3>2. Accounted(call[d], had[d], d \notin disturbed, holds)
      BY Zenon DEF ManagerInv
    <3>3. had'[d] \in SUBSET had[d] /\ (d \notin disturbed' => d \notin disturbed /\ holds \subseteq holds')
      BY <2>2, <3>1, Zenon DEF OthersMoved
    <3>4. Accounted(call[d], had'[d], d \notin disturbed', holds')
      BY <3>2, <3>3, AccountedStays, Zenon
    <3> QED
      BY <3>1, <3>4, Zenon
  <2> QED
    BY <2>1, <2>2, Zenon
<1>3. \A d \in Readers : call'[d].op \notin {"store", "evict", "demote"} /\ call'[d].pc # "evict"
  BY <1>1, Zenon DEF ManagerInv, ManagerType, Calls
<1>4. \A d \in Calls : Placed(call'[d])
  BY <1>1, Zenon DEF ManagerInv, ManagerType
<1>5. ManagerType'
  BY <1>1, <1>3, <1>4, Zenon DEF ManagerType, OthersMoved, Calls, Placed
<1> QED
  BY <1>2, <1>5, Zenon DEF ManagerInv, Accounted

LEMMA HoldersMove ==
  ASSUME ManagerType, NEW c \in Calls,
         \/ SameHolders
         \/ \E X : had' = [had EXCEPT ![c] = @ \ X] /\ UNCHANGED <<holds, disturbed>>
         \/ \E t : Lose(t)
         \/ \E t \in Tiers : holds' = holds \cup {t} /\ UNCHANGED <<had, disturbed>>
  PROVE  Moved
<1>1. CASE SameHolders
  BY <1>1, Zenon DEF SameHolders, ManagerType, Moved
<1>2. CASE \E X : had' = [had EXCEPT ![c] = @ \ X] /\ UNCHANGED <<holds, disturbed>>
  BY <1>2, Zenon DEF ManagerType, Moved
<1>3. CASE \E t : Lose(t)
  <2>1. PICK t : Lose(t)
    BY <1>3, Zenon
  <2>2. \A d \in Calls : had'[d] = had[d] \ {t}
    BY <2>1, Zenon DEF Lose
  <2>3. had' \in [Calls -> SUBSET Tiers]
    BY <2>1, Zenon DEF Lose, ManagerType
  <2>4. \A d \in Readers : d \notin disturbed' => d \notin disturbed /\ holds' = holds
    BY <2>1, Zenon DEF Lose
  <2> QED
    BY <2>1, <2>2, <2>3, <2>4, Zenon DEF Lose, ManagerType, Moved
<1>4. CASE \E t \in Tiers : holds' = holds \cup {t} /\ UNCHANGED <<had, disturbed>>
  BY <1>4, Zenon DEF ManagerType, Moved
<1> QED
  BY <1>1, <1>2, <1>3, <1>4, Zenon

LEMMA MovedForOthers ==
  ASSUME Moved, NEW c
  PROVE  OthersMoved(c)
  BY Zenon DEF Moved, OthersMoved

\* The fields of the record a call returns with.
LEMMA ReturnRecord ==
  ASSUME ManagerType, NEW c \in Calls, NEW out \in Outcomes, Return(c, out)
  PROVE  \E r \in CallRecord :
           /\ Go(c, r) /\ r.op = call[c].op /\ r.target = call[c].target
           /\ r.pc = "verify" \/ (r.pc = "idle" /\ r.out = out)
<1>1. call[c].op \in {"none", "lookup", "load", "promote", "prefetch", "store", "evict", "demote"}
      /\ call[c].target \in Tiers \cup {NoTier}
  BY Zenon DEF ManagerType, CallRecord
<1>2. CASE call[c].op = "promote" /\ out = "hit"
  <2> DEFINE r == [AtRest EXCEPT !.op = "promote", !.pc = "verify", !.target = call[c].target]
  <2>1. r \in CallRecord /\ r.op = call[c].op /\ r.target = call[c].target /\ r.pc = "verify"
    BY <1>1, <1>2, AtRestType, Zenon DEF CallRecord
  <2>2. Go(c, r)
    BY <1>2, Zenon DEF Return
  <2> QED
    BY <2>1, <2>2, Zenon
<1>3. CASE ~(call[c].op = "promote" /\ out = "hit")
  <2> DEFINE r == [AtRest EXCEPT !.op = call[c].op, !.target = call[c].target, !.out = out]
  <2>1. r \in CallRecord /\ r.op = call[c].op /\ r.target = call[c].target /\ r.out = out
    BY <1>1, AtRestType, Zenon DEF CallRecord
  <2>2. r.pc = "idle"
    BY Zenon DEF AtRest
  <2>3. Go(c, r)
    BY <1>3, Zenon DEF Return
  <2> QED
    BY <2>1, <2>2, <2>3, Zenon
<1> QED
  BY <1>2, <1>3, Zenon

\* A call that returns is accounted for when its outcome is.
LEMMA Returns ==
  ASSUME ManagerInv, NEW c \in Calls, NEW out \in Outcomes, Return(c, out), Moved,
         c \in Readers =>
           /\ out = "miss" /\ c \notin disturbed' => had'[c] = {}
           /\ out = "exhausted" => had'[c] \subseteq {call[c].target}
           /\ out = "lookup_unavailable" => had'[c] = {}
           /\ out = "load_unavailable" /\ S3IsSlowest => had'[c] = {}
  PROVE  ManagerInv'
<1>1. PICK r \in CallRecord : /\ Go(c, r) /\ r.op = call[c].op /\ r.target = call[c].target
                              /\ r.pc = "verify" \/ (r.pc = "idle" /\ r.out = out)
  BY ReturnRecord, Zenon DEF ManagerInv
<1>2. Placed(r) /\ r.pc # "evict"
  BY <1>1, Zenon DEF Placed
<1>3. c \in Readers => Accounted(r, had'[c], c \notin disturbed', holds')
  BY <1>1, Zenon DEF Accounted
<1>4. c \in Readers => r.op \notin {"store", "evict", "demote"}
  BY <1>1, Zenon DEF ManagerInv, ManagerType
<1> QED
  BY <1>1, <1>2, <1>3, <1>4, OneMoves, MovedForOthers, Zenon

\* A call that gives a source up is accounted for when the source is no holder.
LEMMA GivesUp ==
  ASSUME ManagerInv, NEW c \in Calls, NEW out \in Outcomes, GiveUp(c, out), Moved,
         call[c].pc \in {"take", "load", "store"},
         call[c].op = "prefetch" => call[c].source \notin had'[c],
         call[c].op # "prefetch" /\ c \in Readers =>
           /\ out = "miss" /\ c \notin disturbed' => had'[c] = {}
           /\ out \notin {"exhausted", "lookup_unavailable"}
           /\ out = "load_unavailable" /\ S3IsSlowest => had'[c] = {}
  PROVE  ManagerInv'
<1>1. CASE call[c].op # "prefetch"
  <2>1. Return(c, out)
    BY <1>1, Zenon DEF GiveUp
  <2> QED
    BY <1>1, <2>1, Returns, Zenon
<1>2. CASE call[c].op = "prefetch"
  <2> DEFINE r == [call[c] EXCEPT !.pc = "sources"]
  <2>1. Go(c, r)
    BY <1>2, Zenon DEF GiveUp
  <2>2. call[c] \in CallRecord /\ Placed(call[c])
    BY Zenon DEF ManagerInv, ManagerType
  <2>3. /\ r \in CallRecord /\ r.pc = "sources" /\ r.op = "prefetch" /\ r.target = call[c].target
        /\ r.todo = call[c].todo /\ r.located = call[c].located
    BY <1>2, <2>2, Zenon DEF CallRecord
  <2> HIDE DEF r
  <2>4. Placed(r)
    BY <2>2, <2>3, Zenon DEF Placed
  <2>5. ASSUME c \in Readers
        PROVE  Accounted(r, had'[c], c \notin disturbed', holds')
    <3>1. Accounted(call[c], had[c], c \notin disturbed, holds) /\ had'[c] \subseteq had[c]
      BY <2>5, Zenon DEF ManagerInv, Moved
    <3>2. call[c].todo = <<>> /\ had[c] \subseteq {call[c].target, call[c].source} \cup Range(call[c].located)
      BY <1>2, <3>1, Zenon DEF Accounted
    <3>3. had'[c] \subseteq {call[c].target} \cup Range(call[c].located)
      BY <1>2, <3>1, <3>2, Zenon
    <3> QED
      BY <2>3, <3>2, <3>3, Zenon DEF Accounted
  <2> QED
    BY <2>1, <2>3, <2>4, <2>5, OneMoves, MovedForOthers, Zenon
<1> QED
  BY <1>1, <1>2, Zenon

-----------------------------------------------------------------------------
\* A call begins: what holds the block now has held it all along.
LEMMA Enters ==
  ASSUME ManagerInv, NEW c \in Calls, NEW r \in CallRecord, Enter(c, r), Placed(r),
         c \in Readers => /\ r.op \notin {"store", "evict", "demote"} /\ r.pc # "evict"
                          /\ Accounted(r, holds, TRUE, holds)
  PROVE  ManagerInv'
<1>1. Go(c, r) /\ holds' = holds /\ disturbed' = disturbed \ {c}
      /\ had' = [had EXCEPT ![c] = IF c \in Readers THEN holds ELSE {}]
  BY Zenon DEF Enter
<1>2. OthersMoved(c)
  BY <1>1, Zenon DEF ManagerInv, ManagerType, OthersMoved
<1>3. ASSUME c \in Readers
      PROVE  Accounted(r, had'[c], c \notin disturbed', holds')
  <2>1. had'[c] = holds /\ holds' = holds /\ c \notin disturbed'
    BY <1>1, <1>3, Zenon DEF ManagerInv, ManagerType
  <2>2. Accounted(r, holds, TRUE, holds)
    BY <1>3, Zenon
  <2> QED
    BY <2>1, <2>2, Zenon DEF Accounted
<1> QED
  BY <1>1, <1>2, <1>3, OneMoves, Zenon

LEMMA ReadBegins ==
  ASSUME ManagerInv, NEW c \in Readers, Read(c)
  PROVE  ManagerInv'
<1>0. c \in Calls /\ holds \subseteq Tiers
  BY Zenon DEF Calls, ManagerInv, ManagerType
<1>1. CASE Lookup(c)
  <2> DEFINE r == [AtRest EXCEPT !.op = "lookup", !.pc = "scan", !.todo = LookupOrder]
  <2>1. r \in CallRecord /\ r.op = "lookup" /\ r.pc = "scan" /\ r.todo = LookupOrder
    BY AtRestType, OrderFacts, Zenon DEF CallRecord
  <2>2. r.located = <<>>
    BY Zenon DEF AtRest
  <2>3. Enter(c, r)
    BY <1>1, Zenon DEF Lookup
  <2> HIDE DEF r
  <2>4. Accounted(r, holds, TRUE, holds) /\ Placed(r)
    BY <1>0, <2>1, <2>2, OrderFacts, SeqSets, Zenon DEF Accounted, Placed
  <2> QED
    BY <1>0, <2>1, <2>3, <2>4, Enters, Zenon
<1>2. ASSUME NEW r \in CallRecord, r.op \in {"load", "promote", "prefetch"}, r.pc = "contains",
             r.target \in Tiers, r.todo = LookupOrder, r.located = <<>>,
             r.op # "prefetch" => r.ctx \in Contexts, Enter(c, r)
      PROVE  ManagerInv'
  <2>1. Accounted(r, holds, TRUE, holds) /\ Placed(r)
    BY <1>2, Zenon DEF Accounted, Placed
  <2> QED
    BY <1>0, <1>2, <2>1, Enters, Zenon
<1>3. ASSUME NEW t \in Tiers, NEW x \in Contexts, Load(c, t, x)
      PROVE  ManagerInv'
  <2> DEFINE r == [AtRest EXCEPT !.op = "load", !.pc = "contains", !.target = t, !.ctx = x,
                                 !.todo = LookupOrder]
  <2>1. /\ r \in CallRecord /\ r.op = "load" /\ r.pc = "contains" /\ r.target = t
        /\ r.ctx = x /\ r.todo = LookupOrder
    BY AtRestType, OrderFacts, Zenon DEF CallRecord
  <2>2. r.located = <<>>
    BY Zenon DEF AtRest
  <2>3. Enter(c, r)
    BY <1>3, Zenon DEF Load
  <2> HIDE DEF r
  <2> QED
    BY <1>2, <2>1, <2>2, <2>3, Zenon
<1>4. ASSUME NEW t \in Tiers, NEW x \in Contexts, Promote(c, t, x)
      PROVE  ManagerInv'
  <2> DEFINE r == [AtRest EXCEPT !.op = "promote", !.pc = "contains", !.target = t, !.ctx = x,
                                 !.todo = LookupOrder]
  <2>1. /\ r \in CallRecord /\ r.op = "promote" /\ r.pc = "contains" /\ r.target = t
        /\ r.ctx = x /\ r.todo = LookupOrder
    BY AtRestType, OrderFacts, Zenon DEF CallRecord
  <2>2. r.located = <<>>
    BY Zenon DEF AtRest
  <2>3. Enter(c, r)
    BY <1>4, Zenon DEF Promote
  <2> HIDE DEF r
  <2> QED
    BY <1>2, <2>1, <2>2, <2>3, Zenon
<1>5. ASSUME NEW t \in Tiers, Prefetch(c, t)
      PROVE  ManagerInv'
  <2> DEFINE r == [AtRest EXCEPT !.op = "prefetch", !.pc = "contains", !.target = t,
                                 !.todo = LookupOrder]
  <2>1. /\ r \in CallRecord /\ r.op = "prefetch" /\ r.pc = "contains" /\ r.target = t
        /\ r.todo = LookupOrder
    BY AtRestType, OrderFacts, Zenon DEF CallRecord
  <2>2. r.located = <<>>
    BY Zenon DEF AtRest
  <2>3. Enter(c, r)
    BY <1>5, Zenon DEF Prefetch
  <2> HIDE DEF r
  <2> QED
    BY <1>2, <2>1, <2>2, <2>3, Zenon
<1> QED
  BY <1>1, <1>3, <1>4, <1>5, Zenon DEF Read

LEMMA WriteBegins ==
  ASSUME ManagerInv, NEW c \in Writers, Write(c)
  PROVE  ManagerInv'
<1>0. c \in Calls /\ c \notin Readers
  BY Zenon DEF Calls
<1>1. ASSUME NEW r \in CallRecord, Placed(r), Enter(c, r)
      PROVE  ManagerInv'
  BY <1>0, <1>1, Enters, Zenon
<1>2. ASSUME NEW ts \in Seq(Tiers), Evict(c, ts)
      PROVE  ManagerInv'
  <2> DEFINE r == [AtRest EXCEPT !.op = "evict", !.pc = "evict", !.todo = ts]
  <2>1. r \in CallRecord /\ r.pc = "evict"
    BY AtRestType, Zenon DEF CallRecord
  <2>2. Enter(c, r)
    BY <1>2, Zenon DEF Evict
  <2> QED
    BY <1>1, <2>1, <2>2, Zenon DEF Placed
<1>3. ASSUME NEW t \in Tiers, Store(c, t)
      PROVE  ManagerInv'
  <2> DEFINE r == [AtRest EXCEPT !.op = "store", !.pc = "store", !.target = t]
  <2>1. r \in CallRecord /\ r.op = "store" /\ r.target = t
    BY AtRestType, Zenon DEF CallRecord
  <2>2. Enter(c, r)
    BY <1>3, Zenon DEF Store
  <2> QED
    BY <1>1, <2>1, <2>2, Zenon DEF Placed
<1>4. ASSUME NEW u \in Tiers, NEW t \in Tiers, Demote(c, u, t)
      PROVE  ManagerInv'
  <2> DEFINE r == [AtRest EXCEPT !.op = "demote", !.pc = "load", !.source = u, !.target = t]
  <2>1. r \in CallRecord /\ r.source = u /\ r.target = t
    BY AtRestType, Zenon DEF CallRecord
  <2>2. Enter(c, r)
    BY <1>4, Zenon DEF Demote
  <2> QED
    BY <1>1, <2>1, <2>2, Zenon DEF Placed
<1>5. LookupOrder \in Seq(Tiers) /\ \A t \in Tiers : <<t>> \in Seq(Tiers)
  BY OrderFacts
<1> QED
  BY <1>2, <1>3, <1>4, <1>5, Zenon DEF Write

-----------------------------------------------------------------------------
\* The target is tried first.
LEMMA TargetStep ==
  ASSUME ManagerInv, NEW c \in Calls,
         TargetHolds(c) \/ TargetSilent(c) \/ Take(c) \/ TakeFails(c)
  PROVE  ManagerInv'
<1>1. ManagerType /\ call[c] \in CallRecord /\ Placed(call[c]) /\ had[c] \subseteq Tiers
  BY Zenon DEF ManagerInv, ManagerType
<1>2. c \in Readers => /\ Accounted(call[c], had[c], c \notin disturbed, holds)
                       /\ call[c].op \notin {"store", "evict", "demote"}
  BY Zenon DEF ManagerInv, ManagerType
<1>3. Moved /\ had'[c] \subseteq had[c] /\ holds' = holds /\ disturbed' = disturbed
  <2>1. SameHolders \/ (Failed(c) /\ UNCHANGED <<holds, disturbed>>)
    BY Zenon DEF TargetHolds, TargetSilent, Take, TakeFails
  <2>2. Moved /\ holds' = holds /\ disturbed' = disturbed
    BY <1>1, <2>1, HoldersMove, Zenon DEF Failed, SameHolders
  <2> QED
    BY <2>2, Zenon DEF Moved
\* From the target to the scan of all tiers.
<1>4. ASSUME NEW r \in CallRecord, Go(c, r), call[c].pc \in {"contains", "take"}, r.pc = "scan",
             r.op = call[c].op, r.target = call[c].target, r.todo = call[c].todo,
             r.located = call[c].located, r.ctx = call[c].ctx
      PROVE  ManagerInv'
  <2>1. Placed(r)
    BY <1>1, <1>4, Zenon DEF Placed
  <2>2. ASSUME c \in Readers
        PROVE  Accounted(r, had'[c], c \notin disturbed', holds')
    <3>1. call[c].todo = LookupOrder /\ call[c].located = <<>>
          /\ (call[c].op # "prefetch" => call[c].ctx \in Contexts)
      BY <1>2, <1>4, <2>2, Zenon DEF Accounted
    <3>2. had'[c] \subseteq Range(r.todo) /\ Range(r.located) = {}
      BY <1>1, <1>3, <1>4, <3>1, OrderFacts, SeqSets, Zenon
    <3> QED
      BY <1>4, <3>1, <3>2, Zenon DEF Accounted
  <2> QED
    BY <1>2, <1>3, <1>4, <2>1, <2>2, OneMoves, MovedForOthers, Zenon
<1>5. ASSUME NEW out \in Outcomes \ {"miss", "exhausted", "lookup_unavailable", "load_unavailable"},
             Return(c, out)
      PROVE  ManagerInv'
  BY <1>3, <1>5, Returns, Zenon
<1>6. CASE TargetHolds(c)
  <2>1. CASE call[c].target \in holds /\ Loading(c)
    <3> DEFINE r == [call[c] EXCEPT !.pc = "take"]
    <3>1. Go(c, r) /\ call[c].pc = "contains"
      BY <1>6, <2>1, Zenon DEF TargetHolds
    <3>2. /\ r \in CallRecord /\ r.pc = "take" /\ r.op = call[c].op /\ r.target = call[c].target
          /\ r.todo = call[c].todo /\ r.located = call[c].located /\ r.ctx = call[c].ctx
      BY <1>1, Zenon DEF CallRecord
    <3> HIDE DEF r
    <3>3. Placed(r)
      BY <1>1, <3>1, <3>2, Zenon DEF Placed
    <3>4. r.op \in {"load", "promote"}
      BY <2>1, <3>2, Zenon DEF Loading
    <3>5. c \in Readers => Accounted(r, had'[c], c \notin disturbed', holds')
      BY <1>2, <1>3, <2>1, <3>1, <3>2, <3>4, Zenon DEF Accounted
    <3> QED
      BY <1>3, <3>1, <3>2, <3>3, <3>4, <3>5, OneMoves, MovedForOthers, Zenon
  <2>2. CASE call[c].target \in holds /\ ~Loading(c)
    <3>1. Return(c, "present")
      BY <1>6, <2>2, Zenon DEF TargetHolds
    <3> QED
      BY <1>5, <3>1, Zenon DEF Outcomes
  <2>3. CASE call[c].target \notin holds
    <3> DEFINE r == [call[c] EXCEPT !.pc = "scan"]
    <3>1. Go(c, r) /\ call[c].pc = "contains"
      BY <1>6, <2>3, Zenon DEF TargetHolds
    <3>2. /\ r \in CallRecord /\ r.pc = "scan" /\ r.op = call[c].op /\ r.target = call[c].target
          /\ r.todo = call[c].todo /\ r.located = call[c].located /\ r.ctx = call[c].ctx
      BY <1>1, Zenon DEF CallRecord
    <3> HIDE DEF r
    <3> QED
      BY <1>4, <3>1, <3>2, Zenon
  <2> QED
    BY <2>1, <2>2, <2>3, Zenon
<1>7. CASE (TargetSilent(c) /\ Loading(c)) \/ TakeFails(c)
  <2> DEFINE r == [call[c] EXCEPT !.pc = "scan", !.failed = TRUE]
  <2>1. Go(c, r) /\ call[c].pc \in {"contains", "take"}
    BY <1>7, Zenon DEF TargetSilent, TakeFails
  <2>2. /\ r \in CallRecord /\ r.pc = "scan" /\ r.op = call[c].op /\ r.target = call[c].target
        /\ r.todo = call[c].todo /\ r.located = call[c].located /\ r.ctx = call[c].ctx
    BY <1>1, Zenon DEF CallRecord
  <2> HIDE DEF r
  <2> QED
    BY <1>4, <2>1, <2>2, Zenon
<1>8. CASE TargetSilent(c) /\ ~Loading(c)
  <2>1. Return(c, "target_unavailable")
    BY <1>8, Zenon DEF TargetSilent
  <2> QED
    BY <1>5, <2>1, Zenon DEF Outcomes
<1>9. CASE Take(c)
  <2>1. call[c].pc = "take"
    BY <1>9, Zenon DEF Take
  <2>2. CASE call[c].target \in holds
    <3>1. Return(c, "hit")
      BY <1>9, <2>2, Zenon DEF Take
    <3> QED
      BY <1>5, <3>1, Zenon DEF Outcomes
  <2>3. CASE call[c].target \notin holds
    <3>1. Return(c, "miss")
      BY <1>9, <2>3, Zenon DEF Take
    <3>2. c \in Readers => c \in disturbed'
      BY <1>2, <1>3, <2>1, <2>3, Zenon DEF Accounted
    <3>3. "miss" \in Outcomes
      BY Zenon DEF Outcomes
    <3> QED
      BY <1>3, <3>1, <3>2, <3>3, Returns, Zenon
  <2> QED
    BY <2>2, <2>3, Zenon
<1> QED
  BY <1>6, <1>7, <1>8, <1>9, Zenon

-----------------------------------------------------------------------------
\* The scan: a tier that answered no is no holder, and one that did not answer
\* is not relied on.
LEMMA ScanStep ==
  ASSUME ManagerInv, NEW c \in Calls, Scan(c) \/ ScanFails(c) \/ Nowhere(c) \/ Found(c)
  PROVE  ManagerInv'
<1>1. ManagerType /\ call[c] \in CallRecord /\ Placed(call[c]) /\ had[c] \subseteq holds /\ holds \subseteq Tiers
  BY Zenon DEF ManagerInv, ManagerType
<1>2. c \in Readers => /\ Accounted(call[c], had[c], c \notin disturbed, holds)
                       /\ call[c].op \notin {"store", "evict", "demote"}
  BY Zenon DEF ManagerInv, ManagerType
<1>3. Moved /\ had'[c] \subseteq had[c] /\ holds' = holds /\ disturbed' = disturbed
  <2>1. SameHolders \/ (Failed(c) /\ UNCHANGED <<holds, disturbed>>)
    BY Zenon DEF Scan, ScanFails, Nowhere, Found
  <2>2. Moved /\ holds' = holds /\ disturbed' = disturbed
    BY <1>1, <2>1, HoldersMove, Zenon DEF Failed, SameHolders
  <2> QED
    BY <2>2, Zenon DEF Moved
<1> DEFINE u == call[c].todo
           l == call[c].located
<1>4. u \in Seq(Tiers) /\ l \in Seq(Tiers) /\ call[c].pc = "scan"
  BY <1>1, Zenon DEF Scan, ScanFails, Nowhere, Found, CallRecord
<1>5. c \in Readers =>
        /\ c \notin disturbed => Range(l) \subseteq holds
        /\ had[c] \subseteq Range(u) \cup Range(l) \/ (call[c].op = "lookup" /\ l # <<>>)
        /\ call[c].op \in {"load", "promote"} => call[c].ctx \in Contexts
  BY <1>2, <1>4, Zenon DEF Accounted
<1>6. ASSUME NEW r \in CallRecord, Go(c, r), r.pc = "scan",
             r.op = call[c].op, r.target = call[c].target, r.ctx = call[c].ctx,
             c \in Readers =>
               /\ c \notin disturbed => Range(r.located) \subseteq holds
               /\ had'[c] \subseteq Range(r.todo) \cup Range(r.located)
                    \/ (r.op = "lookup" /\ r.located # <<>>)
      PROVE  ManagerInv'
  <2>1. Placed(r)
    BY <1>1, <1>4, <1>6, Zenon DEF Placed
  <2>2. c \in Readers => Accounted(r, had'[c], c \notin disturbed', holds')
    BY <1>3, <1>5, <1>6, Zenon DEF Accounted
  <2> QED
    BY <1>2, <1>3, <1>6, <2>1, <2>2, OneMoves, MovedForOthers, Zenon
<1>7. CASE Scan(c) /\ Head(u) \notin holds
  <2> DEFINE r == [call[c] EXCEPT !.todo = Tail(@)]
  <2>1. u # <<>> /\ Go(c, [call[c] EXCEPT !.todo = Tail(@), !.located = l])
    BY <1>7, Zenon DEF Scan
  <2>2. Tail(u) \in Seq(Tiers) /\ Range(u) = {Head(u)} \cup Range(Tail(u))
    BY <1>4, <2>1, SeqSets, Zenon
  <2>3. /\ r \in CallRecord /\ r.pc = "scan" /\ r.op = call[c].op /\ r.target = call[c].target
        /\ r.ctx = call[c].ctx /\ r.located = l /\ r.todo = Tail(u)
        /\ r = [call[c] EXCEPT !.todo = Tail(@), !.located = l]
    BY <1>1, <1>4, <2>2, Zenon DEF CallRecord
  <2> HIDE DEF r
  <2>4. c \in Readers => had'[c] \subseteq Range(Tail(u)) \cup Range(l) \/ (call[c].op = "lookup" /\ l # <<>>)
    BY <1>1, <1>3, <1>5, <1>7, <2>2, Zenon
  <2> QED
    BY <1>5, <1>6, <2>1, <2>3, <2>4, Zenon
<1>8. CASE Scan(c) /\ Head(u) \in holds
  <2> DEFINE rest == IF call[c].op = "lookup" THEN <<>> ELSE Tail(u)
             r == [call[c] EXCEPT !.todo = rest, !.located = Append(l, Head(u))]
  <2>1. u # <<>> /\ Go(c, r)
    BY <1>8, Zenon DEF Scan
  <2>2. Head(u) \in Tiers /\ Tail(u) \in Seq(Tiers) /\ Range(u) = {Head(u)} \cup Range(Tail(u))
    BY <1>4, <2>1, SeqSets, Zenon
  <2>3. /\ Append(l, Head(u)) \in Seq(Tiers) /\ Append(l, Head(u)) # <<>>
        /\ Range(Append(l, Head(u))) = Range(l) \cup {Head(u)}
    <3>1. \A s \in Seq(Tiers), t \in Tiers :
            /\ Append(s, t) \in Seq(Tiers) /\ Append(s, t) # <<>>
            /\ Range(Append(s, t)) = Range(s) \cup {t}
      BY AppendSets, Zenon
    <3> QED
      BY <1>4, <2>2, <3>1, Zenon
  <2>4. rest \in Seq(Tiers) /\ (call[c].op # "lookup" => rest = Tail(u))
    BY <2>2
  <2> HIDE DEF rest
  <2>5. /\ r \in CallRecord /\ r.pc = "scan" /\ r.op = call[c].op /\ r.target = call[c].target
        /\ r.ctx = call[c].ctx /\ r.located = Append(l, Head(u)) /\ r.todo = rest
    BY <1>1, <1>4, <2>3, <2>4, Zenon DEF CallRecord
  <2> HIDE DEF r
  <2>6. c \in Readers /\ call[c].op # "lookup" =>
          had'[c] \subseteq Range(rest) \cup Range(Append(l, Head(u)))
    BY <1>3, <1>5, <2>2, <2>3, <2>4, Zenon
  <2>7. c \in Readers /\ c \notin disturbed => Range(Append(l, Head(u))) \subseteq holds
    BY <1>5, <1>8, <2>3, Zenon
  <2> QED
    BY <1>6, <2>1, <2>3, <2>5, <2>6, <2>7, Zenon
<1>9. CASE ScanFails(c)
  <2> DEFINE r == [call[c] EXCEPT !.todo = Tail(@), !.failed = TRUE]
  <2>1. u # <<>> /\ Go(c, r) /\ Head(u) = "s3" /\ Failed(c)
    BY <1>9, Zenon DEF ScanFails
  <2>2. Tail(u) \in Seq(Tiers) /\ Range(u) = {Head(u)} \cup Range(Tail(u))
    BY <1>4, <2>1, SeqSets, Zenon
  <2>3. /\ r \in CallRecord /\ r.pc = "scan" /\ r.op = call[c].op /\ r.target = call[c].target
        /\ r.ctx = call[c].ctx /\ r.located = l /\ r.todo = Tail(u)
    BY <1>1, <1>4, <2>2, Zenon DEF CallRecord
  <2> HIDE DEF r
  <2>4. had'[c] = had[c] \ {"s3"}
    BY <1>1, <2>1, Zenon DEF Failed, ManagerType
  <2>5. c \in Readers => had'[c] \subseteq Range(Tail(u)) \cup Range(l) \/ (call[c].op = "lookup" /\ l # <<>>)
    BY <1>5, <2>1, <2>2, <2>4, Zenon
  <2> QED
    BY <1>5, <1>6, <2>1, <2>3, <2>5, Zenon
<1>10. CASE Nowhere(c)
  <2>1. u = <<>> /\ l = <<>> /\ (Return(c, "lookup_unavailable") \/ Return(c, "miss"))
    BY <1>10, Zenon DEF Nowhere
  <2>2. PICK out \in {"lookup_unavailable", "miss"} : Return(c, out)
    BY <2>1, Zenon
  <2>3. Range(u) = {} /\ Range(l) = {}
    BY <1>4, <2>1, SeqSets, Zenon
  <2>4. c \in Readers => had'[c] = {}
    BY <1>3, <1>5, <2>1, <2>3, Zenon
  <2>5. out \in Outcomes /\ out \notin {"exhausted", "load_unavailable"}
    BY Zenon DEF Outcomes
  <2> QED
    BY <1>3, <2>2, <2>4, <2>5, Returns, Zenon
<1>11. CASE Found(c)
  <2>1. Return(c, "located") /\ "located" \in Outcomes
    BY <1>11, Zenon DEF Found, Outcomes
  <2> QED
    BY <1>3, <2>1, Returns, Zenon
<1> QED
  BY <1>7, <1>8, <1>9, <1>10, <1>11, Zenon

\* prefetch() takes the locations in turn.
LEMMA NextSourceStep ==
  ASSUME ManagerInv, NEW c \in Calls, NextSource(c)
  PROVE  ManagerInv'
<1>1. ManagerType /\ call[c] \in CallRecord /\ Placed(call[c])
  BY Zenon DEF ManagerInv, ManagerType
<1>2. c \in Readers => /\ Accounted(call[c], had[c], c \notin disturbed, holds)
  BY Zenon DEF ManagerInv
<1> DEFINE l == call[c].located
<1>3. /\ call[c].op = "prefetch" /\ call[c].todo = <<>> /\ SameHolders /\ l \in Seq(Tiers)
      /\ call[c].pc = "sources" \/ (call[c].pc = "scan" /\ l # <<>>)
  BY <1>1, Zenon DEF NextSource, CallRecord
<1>4. Moved /\ had' = had /\ holds' = holds /\ disturbed' = disturbed
  BY <1>1, <1>3, HoldersMove, Zenon DEF SameHolders
<1>5. c \in Readers => had[c] \subseteq {call[c].target} \cup Range(l)
  <2>1. Range(<<>>) = {}
    BY <1>3, SeqSets, Zenon
  <2> QED
    BY <1>2, <1>3, <2>1, Zenon DEF Accounted
<1>6. CASE l = <<>>
  <2>1. Return(c, "exhausted")
    BY <1>6, Zenon DEF NextSource
  <2>2. c \in Readers => had'[c] \subseteq {call[c].target}
    BY <1>3, <1>4, <1>5, <1>6, SeqSets, Zenon
  <2> QED
    BY <1>4, <2>1, <2>2, Returns, Zenon DEF Outcomes
<1>7. CASE l # <<>>
  <2> DEFINE p == IF Head(l) = call[c].target THEN "sources" ELSE "load"
             r == [call[c] EXCEPT !.pc = p, !.source = Head(l), !.located = Tail(l)]
  <2>1. Go(c, r)
    BY <1>7, Zenon DEF NextSource
  <2>2. Head(l) \in Tiers /\ Tail(l) \in Seq(Tiers) /\ Range(l) = {Head(l)} \cup Range(Tail(l))
    BY <1>3, <1>7, SeqSets, Zenon
  <2>3. p = "load" \/ (p = "sources" /\ Head(l) = call[c].target)
    BY Zenon
  <2> HIDE DEF p
  <2>4. /\ r \in CallRecord /\ r.pc = p /\ r.op = "prefetch" /\ r.target = call[c].target
        /\ r.source = Head(l) /\ r.located = Tail(l) /\ r.todo = <<>>
    BY <1>1, <1>3, <2>2, <2>3, Zenon DEF CallRecord
  <2> HIDE DEF r
  <2>5. Placed(r)
    BY <1>1, <1>3, <2>4, Zenon DEF Placed
  <2>6. c \in Readers => had'[c] \subseteq {r.target, r.source} \cup Range(r.located)
    BY <1>4, <1>5, <2>2, <2>4, Zenon
  <2>7. c \in Readers => Accounted(r, had'[c], c \notin disturbed', holds')
    BY <2>3, <2>4, <2>6, Zenon DEF Accounted
  <2> QED
    BY <1>4, <2>1, <2>3, <2>4, <2>5, <2>7, OneMoves, MovedForOthers, Zenon
<1> QED
  BY <1>6, <1>7, Zenon

\* The key of the sort: a set of numbers that is not empty has a least one.
LEMMA LeastOf ==
  ASSUME NEW D \in SUBSET Nat, D # {}
  PROVE  \E d \in D : \A e \in D : d <= e
<1> DEFINE R == {ss \in Nat \X Nat : ss[1] < ss[2]}
<1>1. IsWellFoundedOn(R, Nat)
  BY NatLessThanWellFounded, Zenon DEF OpToRel
<1>2. PICK d \in D : \A e \in D : ~ (<<e, d>> \in R)
  <2> HIDE DEF R
  <2> QED
    BY <1>1, WFMin, Zenon
<1>3. \A e \in D : ~ (e < d)
  BY <1>2, Zenon
<1> QED
  BY <1>3

LEMMA LeastKey ==
  ASSUME NEW I, I # {}, NEW key \in [I -> Nat]
  PROVE  \E i \in I : \A j \in I : key[i] <= key[j]
<1>1. {key[i] : i \in I} \in SUBSET Nat /\ {key[i] : i \in I} # {}
  OBVIOUS
<1>2. PICK d \in {key[i] : i \in I} : \A e \in {key[i] : i \in I} : d <= e
  <2> DEFINE D == {key[i] : i \in I}
  <2> HIDE DEF D
  <2>1. \E d \in D : \A e \in D : d <= e
    BY <1>1, LeastOf, Zenon DEF D
  <2> QED
    BY <2>1, Zenon DEF D
<1>3. PICK i \in I : d = key[i]
  BY Zenon
<1>4. \A j \in I : d <= key[j]
  BY <1>2, Zenon
<1> QED
  BY <1>3, <1>4, Zenon

LEMMA PriorityType ==
  ASSUME NEW t, NEW x
  PROVE  Priority(Action(t, x)) \in Nat
<1>1. Action(t, x) \in {"load", "prefetch", "recompute"}
  BY Zenon DEF Action
<1> QED
  BY <1>1, Zenon DEF Priority

\* The tier decide() takes comes before every other one that was located.
LEMMA DecidedFacts ==
  ASSUME NEW l \in Seq(Tiers), l # <<>>, NEW x
  PROVE  \E i \in DOMAIN l : Decided(l, x) = l[i] /\ \A j \in DOMAIN l : Before(l, i, j, x)
<1> DEFINE pri == [i \in DOMAIN l |-> Priority(Action(l[i], x))]
           ms == [i \in DOMAIN l |-> LoadMs[l[i]]]
<1>1. pri \in [DOMAIN l -> Nat]
  BY PriorityType, Zenon
<1>2. ms \in [DOMAIN l -> Nat] /\ DOMAIN l \subseteq Nat /\ DOMAIN l # {}
  <2>1. DOMAIN l = 1..Len(l) /\ Len(l) \in Nat \ {0} /\ \A i \in DOMAIN l : l[i] \in Tiers
    OBVIOUS
  <2>2. ms \in [DOMAIN l -> Nat]
    BY <2>1, Zenon
  <2>3. 1 \in DOMAIN l /\ DOMAIN l \subseteq Nat
    BY <2>1
  <2> QED
    BY <2>2, <2>3, Zenon
<1>3. \A i, j \in DOMAIN l :
        Before(l, i, j, x) <=> \/ pri[i] < pri[j]
                               \/ pri[i] = pri[j] /\ (ms[i] < ms[j] \/ (ms[i] = ms[j] /\ i <= j))
  BY Zenon DEF Before
<1> HIDE DEF pri, ms
<1>4. PICK i1 \in DOMAIN l : \A j \in DOMAIN l : pri[i1] <= pri[j]
  BY <1>1, <1>2, LeastKey, Zenon
<1> DEFINE J == {j \in DOMAIN l : pri[j] = pri[i1]}
           msJ == [j \in J |-> ms[j]]
<1>5. PICK i2 \in J : \A j \in J : ms[i2] <= ms[j]
  <2>1. msJ \in [J -> Nat] /\ J # {}
    BY <1>2, <1>4, Zenon
  <2>2. \E i \in J : \A j \in J : msJ[i] <= msJ[j]
    <3> HIDE DEF msJ, J
    <3> QED
      BY <2>1, LeastKey, Zenon
  <2> QED
    BY <2>2, Zenon
<1> DEFINE K == {j \in J : ms[j] = ms[i2]}
<1>6. PICK i3 \in K : \A j \in K : i3 <= j
  <2>1. K \in SUBSET Nat /\ K # {}
    BY <1>2, <1>5, Zenon
  <2> HIDE DEF K
  <2> QED
    BY <2>1, LeastOf, Zenon
<1>7. ASSUME NEW j \in DOMAIN l PROVE Before(l, i3, j, x)
  <2>1. i3 \in DOMAIN l /\ pri[i3] = pri[i1] /\ ms[i3] = ms[i2]
    BY Zenon
  <2>2. /\ pri[i3] <= pri[j] /\ pri[i3] \in Nat /\ pri[j] \in Nat
        /\ ms[i3] \in Nat /\ ms[j] \in Nat /\ i3 \in Nat /\ j \in Nat
    BY <1>1, <1>2, <1>4, <2>1, Zenon
  <2>3. pri[j] = pri[i3] => ms[i3] <= ms[j]
    BY <1>5, <2>1, Zenon
  <2>4. pri[j] = pri[i3] /\ ms[j] = ms[i3] => i3 <= j
    BY <1>6, <2>1, Zenon
  <2>5. \/ pri[i3] < pri[j]
        \/ pri[i3] = pri[j] /\ (ms[i3] < ms[j] \/ (ms[i3] = ms[j] /\ i3 <= j))
    <3> DEFINE p == pri[i3]
               q == pri[j]
               a == ms[i3]
               b == ms[j]
    <3>1. p \in Nat /\ q \in Nat /\ p <= q /\ a \in Nat /\ b \in Nat /\ (q = p => a <= b)
      BY <2>2, <2>3, Zenon
    <3>2. i3 \in Nat /\ j \in Nat /\ (q = p /\ b = a => i3 <= j)
      BY <2>2, <2>4, Zenon
    <3> HIDE DEF p, q, a, b
    <3>3. p < q \/ (p = q /\ (a < b \/ (a = b /\ i3 <= j)))
      BY <3>1, <3>2
    <3> QED
      BY <3>3, Zenon DEF p, q, a, b
  <2> QED
    BY <1>3, <2>1, <2>5, Zenon
<1>8. \E i \in DOMAIN l : \A j \in DOMAIN l : Before(l, i, j, x)
  BY <1>7, Zenon
<1> QED
  BY <1>8, Zenon DEF Decided

LEMMA SlowestMargin ==
  ASSUME NEW tokens \in Nat, NEW near \in Nat, NEW far \in Nat, near < far,
         ~(tokens - far <= S3Threshold), Threshold <= S3Threshold
  PROVE  ~(tokens - near <= Threshold)
OBVIOUS

LEMMA BudgetMargin ==
  ASSUME NEW slo \in Nat, NEW near \in Nat, NEW far \in Nat, near < far, ~(far + Guard > slo)
  PROVE  ~(near + Guard > slo)
OBVIOUS

\* A block worth a load from S3 is worth one from every tier that is faster.
LEMMA FasterIsLoaded ==
  ASSUME S3IsSlowest, "s3" \in Tiers, NEW t \in Tiers, t # "s3", NEW x \in Contexts,
         Action("s3", x) = "load"
  PROVE  Action(t, x) = "load" /\ LoadMs[t] < LoadMs["s3"] /\ LoadMs[t] \in Nat /\ LoadMs["s3"] \in Nat
<1>1. LoadMs[t] < LoadMs["s3"] /\ LoadMs[t] \in Nat /\ LoadMs["s3"] \in Nat /\ x.tokens \in Nat
  BY Zenon DEF S3IsSlowest
<1>2. ~(Benefit("s3", x) <= S3Threshold) /\ ~OverBudget("s3", x)
  BY Zenon DEF Action
<1>3. ~(Benefit(t, x) <= Threshold)
  BY <1>1, <1>2, SlowestMargin, Zenon DEF Benefit, S3IsSlowest
<1>4. ~OverBudget(t, x)
  <2>1. CASE x.slo = NoSlo
    BY <2>1, Zenon DEF OverBudget
  <2>2. CASE x.slo # NoSlo
    <3>1. x.slo \in Nat /\ ~(LoadMs["s3"] + Guard > x.slo)
      BY <1>2, <2>2, Zenon DEF OverBudget
    <3> QED
      BY <1>1, <3>1, BudgetMargin, Zenon DEF OverBudget
  <2> QED
    BY <2>1, <2>2, Zenon
<1>5. Action(t, x) = "load"
  BY <1>3, <1>4, Zenon DEF Action
<1> QED
  BY <1>1, <1>5, Zenon

\* So decide() takes S3 only when nothing else was located.
LEMMA S3DecidedAlone ==
  ASSUME S3IsSlowest, NEW l \in Seq(Tiers), l # <<>>, NEW x \in Contexts,
         Decided(l, x) = "s3", Action("s3", x) = "load"
  PROVE  Range(l) \subseteq {"s3"}
<1>1. PICK i \in DOMAIN l : l[i] = "s3" /\ \A j \in DOMAIN l : Before(l, i, j, x)
  BY DecidedFacts, Zenon
<1>2. \A j \in DOMAIN l : l[j] \in Tiers
  OBVIOUS
<1>3. ASSUME NEW j \in DOMAIN l, l[j] # "s3"
      PROVE  FALSE
  <2>1. "s3" \in Tiers /\ l[j] \in Tiers
    BY <1>1, <1>2, Zenon
  <2>2. /\ Action(l[j], x) = "load" /\ LoadMs[l[j]] < LoadMs["s3"]
        /\ LoadMs[l[j]] \in Nat /\ LoadMs["s3"] \in Nat
    BY <1>3, <2>1, FasterIsLoaded, Zenon
  <2>3. \/ Priority("load") < Priority("load")
        \/ LoadMs["s3"] < LoadMs[l[j]] \/ LoadMs["s3"] = LoadMs[l[j]]
    BY <1>1, <2>2, Zenon DEF Before
  <2>4. Priority("load") = 0
    BY Zenon DEF Priority
  <2> QED
    BY <2>2, <2>3, <2>4
<1> QED
  BY <1>3, Zenon DEF Range

\* load() goes by the cost model.
LEMMA DecideStep ==
  ASSUME ManagerInv, NEW c \in Calls, Decide(c)
  PROVE  ManagerInv'
<1> DEFINE l == call[c].located
           x == call[c].ctx
           t == Decided(l, x)
<1>1. ManagerType /\ call[c] \in CallRecord /\ Placed(call[c])
  BY Zenon DEF ManagerInv, ManagerType
<1>2. c \in Readers => Accounted(call[c], had[c], c \notin disturbed, holds)
  BY Zenon DEF ManagerInv
<1>3. /\ call[c].pc = "scan" /\ Loading(c) /\ call[c].todo = <<>> /\ l # <<>> /\ SameHolders
      /\ l \in Seq(Tiers)
  BY <1>1, Zenon DEF Decide, CallRecord
<1>4. Moved /\ had' = had /\ holds' = holds /\ disturbed' = disturbed
  BY <1>1, <1>3, HoldersMove, Zenon DEF SameHolders
<1>5. PICK i \in DOMAIN l : t = l[i] /\ \A j \in DOMAIN l : Before(l, i, j, x)
  BY <1>3, DecidedFacts, Zenon
<1>6. t \in Tiers /\ t \in Range(l)
  BY <1>3, <1>5 DEF Range
<1>7. CASE Action(t, x) = "load"
  <2> DEFINE r == [call[c] EXCEPT !.pc = "load", !.source = t]
  <2>1. Go(c, r)
    BY <1>7, Zenon DEF Decide
  <2>2. r \in CallRecord /\ r.pc = "load" /\ r.op = call[c].op /\ r.target = call[c].target /\ r.source = t
    BY <1>1, <1>6, Zenon DEF CallRecord
  <2>3. r.op \in {"load", "promote"}
    BY <1>3, <2>2, Zenon DEF Loading
  <2>4. ASSUME c \in Readers
        PROVE  /\ c \notin disturbed => t \in holds
               /\ t = "s3" /\ S3IsSlowest => had[c] \subseteq {"s3"}
    <3>1. /\ c \notin disturbed => Range(l) \subseteq holds
          /\ had[c] \subseteq Range(<<>>) \cup Range(l) /\ x \in Contexts
      BY <1>2, <1>3, <2>2, <2>3, <2>4, Zenon DEF Accounted
    <3>2. had[c] \subseteq Range(l)
      BY <1>3, <3>1, SeqSets, Zenon
    <3>3. t = "s3" /\ S3IsSlowest => Range(l) \subseteq {"s3"}
      BY <1>3, <1>7, <3>1, S3DecidedAlone, Zenon
    <3> QED
      BY <1>6, <3>1, <3>2, <3>3, Zenon
  <2> HIDE DEF r, t
  <2>5. Placed(r)
    BY <1>1, <1>3, <2>2, <2>3, Zenon DEF Placed
  <2>6. c \in Readers => Accounted(r, had'[c], c \notin disturbed', holds')
    BY <1>4, <2>2, <2>3, <2>4, Zenon DEF Accounted
  <2> QED
    BY <1>4, <2>1, <2>2, <2>3, <2>5, <2>6, OneMoves, MovedForOthers, Zenon
<1>8. CASE Action(t, x) # "load"
  <2>1. Return(c, Action(t, x))
    BY <1>8, Zenon DEF Decide
  <2>2. Action(t, x) \in {"prefetch", "recompute"}
    BY <1>8, Zenon DEF Action
  <2> HIDE DEF t
  <2> QED
    BY <1>4, <2>1, <2>2, Returns, Zenon DEF Outcomes
<1> QED
  BY <1>7, <1>8, Zenon

-----------------------------------------------------------------------------
\* The source is read, the target is written.
LEMMA SourceStep ==
  ASSUME ManagerInv, NEW c \in Calls, LoadSource(c) \/ Corrupt(c) \/ LoadSourceFails(c)
  PROVE  ManagerInv'
<1>1. ManagerType /\ call[c] \in CallRecord /\ Placed(call[c]) /\ had[c] \subseteq holds
  BY Zenon DEF ManagerInv, ManagerType
<1>2. c \in Readers => /\ Accounted(call[c], had[c], c \notin disturbed, holds)
                       /\ call[c].op \notin {"store", "evict", "demote"}
  BY Zenon DEF ManagerInv, ManagerType
<1>3. CASE LoadSource(c)
  <2>1. call[c].pc = "load" /\ SameHolders
    BY <1>3, Zenon DEF LoadSource
  <2>2. Moved /\ had' = had /\ holds' = holds /\ disturbed' = disturbed
    BY <1>1, <2>1, HoldersMove, Zenon DEF SameHolders
  <2>3. CASE call[c].source \notin holds
    <3>1. GiveUp(c, "miss")
      BY <1>3, <2>3, Zenon DEF LoadSource
    <3>2. call[c].source \notin had'[c]
      BY <1>1, <2>2, <2>3, Zenon
    <3>3. call[c].op # "prefetch" /\ c \in Readers => c \in disturbed'
      BY <1>2, <2>1, <2>2, <2>3, Zenon DEF Accounted
    <3>4. "miss" \in Outcomes
      BY Zenon DEF Outcomes
    <3> QED
      BY <2>1, <2>2, <3>1, <3>2, <3>3, <3>4, GivesUp, Zenon
  <2>4. CASE call[c].source \in holds /\ Loading(c) /\ call[c].source = call[c].target
    <3>1. Return(c, "hit")
      BY <1>3, <2>4, Zenon DEF LoadSource
    <3> QED
      BY <2>2, <3>1, Returns, Zenon DEF Outcomes
  <2>5. CASE call[c].source \in holds /\ ~(Loading(c) /\ call[c].source = call[c].target)
    <3> DEFINE r == [call[c] EXCEPT !.pc = "store"]
    <3>1. Go(c, r)
      BY <1>3, <2>5, Zenon DEF LoadSource
    <3>2. /\ r \in CallRecord /\ r.pc = "store" /\ r.op = call[c].op /\ r.target = call[c].target
          /\ r.source = call[c].source /\ r.located = call[c].located /\ r.todo = call[c].todo
      BY <1>1, Zenon DEF CallRecord
    <3> HIDE DEF r
    <3>3. Placed(r)
      BY <1>1, <2>1, <3>2, Zenon DEF Placed
    <3>4. c \in Readers => Accounted(r, had'[c], c \notin disturbed', holds')
      BY <1>2, <2>1, <2>2, <3>2, Zenon DEF Accounted
    <3> QED
      BY <1>2, <2>2, <3>1, <3>2, <3>3, <3>4, OneMoves, MovedForOthers, Zenon
  <2> QED
    BY <2>3, <2>4, <2>5, Zenon
<1>4. CASE Corrupt(c)
  <2> DEFINE t == IF call[c].pc = "take" THEN call[c].target ELSE call[c].source
  <2>1. call[c].pc \in {"take", "load"} /\ Lose(t) /\ GiveUp(c, "corrupt")
    BY <1>4, Zenon DEF Corrupt
  <2>2. Moved
    BY <1>1, <2>1, HoldersMove, Zenon
  <2>3. c \in Readers /\ call[c].op = "prefetch" => call[c].pc = "load"
    BY <1>2, <2>1, Zenon DEF Accounted
  <2>4. call[c].pc = "load" => call[c].source \notin had'[c]
    BY <2>1, Zenon DEF Lose
  <2>5. CASE call[c].op = "prefetch" /\ call[c].pc = "take"
    \* No reader is here, and a writer is not accounted for.
    <3> DEFINE r == [call[c] EXCEPT !.pc = "sources"]
    <3>1. Go(c, r) /\ c \notin Readers
      BY <2>1, <2>3, <2>5, Zenon DEF GiveUp
    <3>2. r \in CallRecord /\ r.target = call[c].target /\ r.pc = "sources"
      BY <1>1, Zenon DEF CallRecord
    <3>3. Placed(r)
      BY <1>1, <2>5, <3>2, Zenon DEF Placed
    <3> QED
      BY <2>2, <3>1, <3>2, <3>3, OneMoves, MovedForOthers, Zenon
  <2>6. CASE ~(call[c].op = "prefetch" /\ call[c].pc = "take")
    <3>1. call[c].op = "prefetch" => call[c].source \notin had'[c]
      BY <2>1, <2>4, <2>6, Zenon
    <3> QED
      BY <2>1, <2>2, <3>1, GivesUp, Zenon DEF Outcomes
  <2> QED
    BY <2>5, <2>6, Zenon
<1>5. CASE LoadSourceFails(c)
  <2>1. /\ call[c].pc = "load" /\ call[c].source = "s3" /\ GiveUp(c, "load_unavailable")
        /\ Failed(c) /\ UNCHANGED <<holds, disturbed>>
    BY <1>5, Zenon DEF LoadSourceFails
  <2>2. Moved
    BY <1>1, <2>1, HoldersMove, Zenon DEF Failed
  <2>3. had'[c] = had[c] \ {"s3"}
    BY <1>1, <2>1, Zenon DEF Failed, ManagerType
  <2>4. call[c].op # "prefetch" /\ c \in Readers /\ S3IsSlowest => had'[c] = {}
    BY <1>2, <2>1, <2>3, Zenon DEF Accounted
  <2> QED
    BY <2>1, <2>2, <2>3, <2>4, GivesUp, Zenon DEF Outcomes
<1> QED
  BY <1>3, <1>4, <1>5, Zenon

\* A tier raises an error: the call ends, or prefetch() goes on without the tier.
LEMMA RaiseStep ==
  ASSUME ManagerInv, NEW c \in Calls, VisitRaises(c)
  PROVE  ManagerInv'
<1>1. ManagerType /\ UNCHANGED <<holds, disturbed>>
  BY Zenon DEF ManagerInv, VisitRaises
<1>2. CASE Return(c, "error") /\ UNCHANGED had
  <2>1. Moved
    BY <1>1, <1>2, HoldersMove, Zenon DEF SameHolders
  <2> QED
    BY <1>2, <2>1, Returns, Zenon DEF Outcomes
<1>3. CASE /\ call[c].pc = "load" /\ GiveUp(c, "error")
           /\ had' = [had EXCEPT ![c] = @ \ {call[c].source}]
  <2>1. Moved
    BY <1>1, <1>3, HoldersMove, Zenon
  <2>2. call[c].source \notin had'[c]
    BY <1>1, <1>3, Zenon DEF ManagerType
  <2> QED
    BY <1>3, <2>1, <2>2, GivesUp, Zenon DEF Outcomes
<1> QED
  BY <1>2, <1>3, Zenon DEF VisitRaises

LEMMA StoreStep ==
  ASSUME ManagerInv, NEW c \in Calls,
         StoreTarget(c) \/ StoreTargetFails(c) \/ StoreTargetPending(c) \/ Verify(c)
  PROVE  ManagerInv'
<1>1. ManagerType /\ call[c] \in CallRecord /\ Placed(call[c])
  BY Zenon DEF ManagerInv, ManagerType
<1>2. c \in Readers => call[c].op \notin {"store", "evict", "demote"}
  BY Zenon DEF ManagerInv, ManagerType
<1>3. CASE StoreTarget(c)
  <2>1. /\ call[c].pc = "store" /\ holds' = holds \cup {call[c].target}
        /\ UNCHANGED <<had, disturbed>>
    BY <1>3, Zenon DEF StoreTarget
  <2>2. call[c].target \in Tiers
    BY <1>1, <2>1, Zenon DEF Placed
  <2>3. Moved
    BY <1>1, <2>1, <2>2, HoldersMove, Zenon
  <2>4. CASE call[c].op = "demote"
    <3> DEFINE r == [call[c] EXCEPT !.pc = "evict", !.todo = <<call[c].source>>]
    <3>1. Go(c, r) /\ c \notin Readers
      BY <1>2, <1>3, <2>4, Zenon DEF StoreTarget
    <3>2. call[c].source \in Tiers
      BY <1>1, <2>1, <2>4, Zenon DEF Placed
    <3>3. <<call[c].source>> \in Seq(Tiers)
      BY <3>2
    <3>4. r \in CallRecord /\ r.pc = "evict"
      BY <1>1, <3>3, Zenon DEF CallRecord
    <3>5. Placed(r)
      BY <3>4, Zenon DEF Placed
    <3> QED
      BY <2>3, <3>1, <3>4, <3>5, OneMoves, MovedForOthers, Zenon
  <2>5. CASE call[c].op # "demote"
    <3>1. Return(c, "hit")
      BY <1>3, <2>5, Zenon DEF StoreTarget
    <3> QED
      BY <2>3, <3>1, Returns, Zenon DEF Outcomes
  <2> QED
    BY <2>4, <2>5, Zenon
<1>4. CASE StoreTargetFails(c)
  <2>1. /\ call[c].pc = "store" /\ GiveUp(c, "error")
        /\ had' = [had EXCEPT ![c] = @ \ {call[c].source}] /\ UNCHANGED <<holds, disturbed>>
    BY <1>4, Zenon DEF StoreTargetFails
  <2>2. Moved
    BY <1>1, <2>1, HoldersMove, Zenon
  <2>3. call[c].source \notin had'[c]
    BY <1>1, <2>1, Zenon DEF ManagerType
  <2> QED
    BY <2>1, <2>2, <2>3, GivesUp, Zenon DEF Outcomes
<1>5. CASE StoreTargetPending(c)
  <2>1. Return(c, "error") /\ SameHolders
    BY <1>5, Zenon DEF StoreTargetPending
  <2>2. Moved
    BY <1>1, <2>1, HoldersMove, Zenon
  <2> QED
    BY <2>1, <2>2, Returns, Zenon DEF Outcomes
<1>6. CASE Verify(c)
  <2>1. (Return(c, "promoted") \/ Return(c, "gone") \/ Return(c, "error")) /\ SameHolders
    BY <1>6, Zenon DEF Verify
  <2>2. Moved
    BY <1>1, <2>1, HoldersMove, Zenon
  <2> QED
    BY <2>1, <2>2, Returns, Zenon DEF Outcomes
<1> QED
  BY <1>3, <1>4, <1>5, <1>6, Zenon

\* evict(), the last step of demote(), and a tier that makes room.
LEMMA EvictStep ==
  ASSUME ManagerInv, NEW c \in Calls, EvictNext(c) \/ EvictRefused(c) \/ EvictEnds(c)
  PROVE  ManagerInv'
<1>1. ManagerType /\ call[c] \in CallRecord
  BY Zenon DEF ManagerInv, ManagerType
<1>2. c \notin Readers /\ call[c].pc = "evict"
  BY Zenon DEF ManagerInv, ManagerType, EvictNext, EvictRefused, EvictEnds
<1>3. SameHolders \/ \E t : Lose(t)
  BY Zenon DEF EvictNext, EvictRefused, EvictEnds
<1>4. Moved
  BY <1>1, <1>3, HoldersMove, Zenon
<1> DEFINE r == [call[c] EXCEPT !.todo = Tail(@)]
<1>5. \/ call[c].todo # <<>> /\ Go(c, r)
      \/ Return(c, "error") \/ Return(c, "evicted")
  BY Zenon DEF EvictNext, EvictRefused, EvictEnds
<1>6. CASE call[c].todo # <<>> /\ Go(c, r)
  <2>1. call[c].todo \in Seq(Tiers)
    BY <1>1, Zenon DEF CallRecord
  <2>2. Tail(call[c].todo) \in Seq(Tiers)
    BY <1>6, <2>1, SeqSets, Zenon
  <2>3. r \in CallRecord /\ r.pc = "evict"
    BY <1>1, <1>2, <2>2, Zenon DEF CallRecord
  <2>4. Placed(r)
    BY <2>3, Zenon DEF Placed
  <2> QED
    BY <1>2, <1>4, <1>6, <2>3, <2>4, OneMoves, MovedForOthers, Zenon
<1>7. CASE Return(c, "error") \/ Return(c, "evicted")
  BY <1>4, <1>7, Returns, Zenon DEF Outcomes
<1> QED
  BY <1>5, <1>6, <1>7, Zenon

LEMMA RoomStep ==
  ASSUME ManagerInv, NEW t, MakeRoom(t)
  PROVE  ManagerInv'
<1>1. ManagerType /\ Lose(t) /\ call' = call
  BY Zenon DEF ManagerInv, MakeRoom
<1>2. ASSUME NEW c \in Calls PROVE Moved
  BY <1>1, HoldersMove, Zenon
<1>3. CASE Calls = {}
  BY <1>1, <1>3, Zenon DEF Lose, ManagerInv, ManagerType, Calls
<1>4. CASE Calls # {}
  <2>1. Moved
    BY <1>2, <1>4, Zenon
  <2>2. ASSUME NEW d \in Readers
        PROVE  Accounted(call'[d], had'[d], d \notin disturbed', holds')
    <3>1. d \in Calls /\ Accounted(call[d], had[d], d \notin disturbed, holds) /\ call'[d] = call[d]
      BY <1>1, Zenon DEF ManagerInv, Calls
    <3>2. had'[d] \in SUBSET had[d] /\ (d \notin disturbed' => d \notin disturbed /\ holds \subseteq holds')
      BY <2>1, <3>1, Zenon DEF Moved
    <3>3. Accounted(call[d], had'[d], d \notin disturbed', holds')
      BY <3>1, <3>2, AccountedStays, Zenon
    <3> QED
      BY <3>1, <3>3, Zenon
  <2>3. ManagerType'
    BY <1>1, <2>1, Zenon DEF ManagerType, Moved, Placed
  <2> QED
    BY <2>2, <2>3, Zenon DEF ManagerInv, Accounted
<1> QED
  BY <1>3, <1>4, Zenon

LEMMA ManagerBegins == ManagerInit => ManagerInv
<1> SUFFICES ASSUME ManagerInit PROVE ManagerInv
  BY Zenon
<1>1. /\ AtRest.pc = "idle" /\ AtRest.out = "none" /\ AtRest.op = "none"
  BY Zenon DEF AtRest
<1>2. call \in [Calls -> CallRecord] /\ \A c \in Calls : call[c] = AtRest /\ had[c] = {}
  BY AtRestType, Zenon DEF ManagerInit
<1>3. \A h, calm, hs : Accounted(AtRest, h, calm, hs) /\ Placed(AtRest)
  BY <1>1, Zenon DEF Accounted, Placed
<1>4. Readers \subseteq Calls
  BY Zenon DEF Calls
<1> QED
  BY <1>1, <1>2, <1>3, <1>4, Zenon DEF ManagerInit, ManagerInv, ManagerType

LEMMA ManagerAlways == ManagerSpec => []ManagerInv
<1>1. ManagerInv /\ [ManagerNext]_managerVars => ManagerInv'
  <2> SUFFICES ASSUME ManagerInv, [ManagerNext]_managerVars PROVE ManagerInv'
    BY Zenon
  <2>1. CASE UNCHANGED managerVars
    BY <2>1, Zenon DEF managerVars, ManagerInv, ManagerType, Accounted, Placed
  <2>2. ASSUME NEW c \in Calls, Step(c) PROVE ManagerInv'
    BY <2>2, TargetStep, ScanStep, DecideStep, NextSourceStep, SourceStep, RaiseStep, StoreStep,
       EvictStep, Zenon DEF Step
  <2> QED
    BY <2>1, <2>2, ReadBegins, WriteBegins, RoomStep, Zenon DEF ManagerNext
<1> QED
  BY <1>1, ManagerBegins, PTL DEF ManagerSpec

\* Unless a tier lost the block while the call ran, a miss of lookup() or load()
\* means that no tier had it: for any readers, writers, order and profile.
THEOREM MissIsTrue == ManagerSpec => []QuietMissIsTrue
<1>1. ManagerInv => QuietMissIsTrue
  BY Zenon DEF ManagerInv, Accounted, QuietMissIsTrue, Ended
<1> QED
  BY <1>1, ManagerAlways, PTL

\* A prefetch that ends without a promotion has tried every tier that had the
\* block all along (prefetch, _promote_from_tier).
THEOREM PrefetchIsThorough == ManagerSpec => []PrefetchTriesEverySource
<1>1. ManagerInv => PrefetchTriesEverySource
  BY Zenon DEF ManagerInv, Accounted, PrefetchTriesEverySource, Ended
<1> QED
  BY <1>1, ManagerAlways, PTL

\* With a profile in which every other tier loads faster than S3 and needs no
\* more benefit, load() blames unavailability only when no tier that answers has
\* held the block all along (decide(), the except clauses of load()).
THEOREM RecomputeIsLastResort ==
  ASSUME S3IsSlowest
  PROVE  ManagerSpec => []RecomputeOnlyWhenNothingUsable
<1>1. ManagerInv => RecomputeOnlyWhenNothingUsable
  BY Zenon DEF ManagerInv, Accounted, RecomputeOnlyWhenNothingUsable, Ended
<1> QED
  BY <1>1, ManagerAlways, PTL
=============================================================================
