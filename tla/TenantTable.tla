----------------------------- MODULE TenantTable -----------------------------
(***************************************************************************)
(* router/internal/routing/strategies.go, TenantAwareBoundedLoad: the      *)
(* routing strategy that remembers how many requests of each tenant went   *)
(* to each worker.  Pick holds the strategy's mutex while it reads and     *)
(* changes the table, so it is one action.                                 *)
(*                                                                         *)
(* Scores are doubled to be integers.  A tenant's time of last use is kept *)
(* as its age, counted up to the first value beyond the TTL.  Among equal  *)
(* scores the code takes the first candidate of the caller's list; here    *)
(* any of them.                                                            *)
(***************************************************************************)
EXTENDS Integers, FiniteSets, Functions

CONSTANTS
  Tenants,
  Pool,                 \* the workers
  MaxTenantStates,      \* 4096 by default
  TenantStateTTL,
  MaxTenantQueueSlack,  \* 2 by default
  MaxGlobalQueueSlack,  \* 4 by default
  HalveAbove,           \* 1,000,000
  Loads                 \* bound: what is known of a worker: overlap (blocks of the
                        \* request it caches), queue (QueueDepth), pressure (0..1)

ASSUME TableAssumption ==
  /\ MaxTenantStates \in Nat \ {0} /\ TenantStateTTL \in Nat /\ HalveAbove \in Nat
  /\ MaxTenantQueueSlack \in Nat \ {0} /\ MaxGlobalQueueSlack \in Nat \ {0}
  /\ IsFiniteSet(Pool)
  /\ \A r \in Loads : r.overlap \in Nat /\ r.queue \in Nat /\ r.pressure \in 0..1

VARIABLES
  assignments,  \* assignments[tenant][worker], for the tenants in the table
  lastSeen,     \* age of the tenant's last request
  decision      \* the latest RouteDecision, with what it was based on

tenantVars == <<assignments, lastSeen, decision>>

TenantInit ==
  /\ assignments = << >>
  /\ lastSeen = << >>
  /\ decision = [tenant |-> "none"]

-----------------------------------------------------------------------------
(* Helpers *)

\* The requests counted at the workers ws: the i-th one of each worker.
Counts(load, ws) == UNION {{w} \X (1..load[w]) : w \in ws}
Total(load, ws)  == Cardinality(Counts(load, ws))

\* Mutant: only one of the two maps is pruned.
PruneLastSeen ==
  [seen |-> Restrict(lastSeen, {t \in DOMAIN lastSeen : lastSeen[t] <= TenantStateTTL}),
   load |-> assignments]

\* pruneTenantState
Prune ==
  LET kept == {t \in DOMAIN lastSeen : lastSeen[t] <= TenantStateTTL}
  IN  [seen |-> Restrict(lastSeen, kept), load |-> Restrict(assignments, kept)]

\* evictOldestTenant, which takes any of the oldest.
EvictOldest(table) ==
  LET oldest == {t \in DOMAIN table.seen :
                   \A o \in DOMAIN table.seen : table.seen[o] <= table.seen[t]}
  IN  IF oldest = {} THEN {table}
      ELSE {[seen |-> Restrict(table.seen, DOMAIN table.seen \ {t}),
             load |-> Restrict(table.load, DOMAIN table.load \ {t})] : t \in oldest}

\* The tables with room for the tenant.
WithRoom(table, tenant) ==
  IF tenant \notin DOMAIN table.load /\ Cardinality(DOMAIN table.load) >= MaxTenantStates
  THEN EvictOldest(table) ELSE {table}

\* The tenant's counters, halved when there are too many requests to count, and
\* the total the limit is computed from.
Counted(table, tenant, candidates) ==
  LET load == IF tenant \in DOMAIN table.load THEN table.load[tenant] ELSE [w \in Pool |-> 0]
      half == [w \in Pool |-> load[w] \div 2]
  IN  IF Total(load, candidates) > HalveAbove
      THEN [load |-> half, total |-> Total(half, Pool), halved |-> TRUE]
      ELSE [load |-> load, total |-> Total(load, candidates), halved |-> FALSE]

\* The queue exceeds the candidates' average by more than the slack.
GlobalOverLimit(w, candidates, report) ==
  (report[w].queue - MaxGlobalQueueSlack) * Cardinality(candidates)
    > SumFunctionOnSet([v \in candidates |-> report[v].queue], candidates)

RawScore(w, counted, report) ==
  16 * report[w].overlap - 3 * report[w].queue - 6 * counted.load[w] - 4 * report[w].pressure

\* Mutant: the tenant's own load does not count.
ScoreIgnoringTenantLimit(w, candidates, counted, report) ==
  LET globalOver == GlobalOverLimit(w, candidates, report)
  IN  RawScore(w, counted, report) - (IF globalOver THEN 30 ELSE 0)

\* The score of a candidate.
Score(w, candidates, counted, report) ==
  LET tenantLimit == counted.total \div Cardinality(candidates) + MaxTenantQueueSlack
      globalOver == GlobalOverLimit(w, candidates, report)
  IN  RawScore(w, counted, report)
        - (IF counted.load[w] > tenantLimit THEN 50 ELSE 0)
        - (IF globalOver THEN 30 ELSE 0)

-----------------------------------------------------------------------------
(* Actions *)

\* Pick: `candidates' are the healthy workers, `report' what is known of them.
Pick(tenant, candidates, report) ==
  \E table \in WithRoom(Prune, tenant) :
    LET counted == Counted(table, tenant, candidates)
        score == [w \in candidates |-> Score(w, candidates, counted, report)]
    IN  \E best \in {w \in candidates : \A v \in candidates : score[v] <= score[w]} :
          /\ assignments' = [t \in DOMAIN table.load \cup {tenant} |->
                               IF t = tenant THEN [counted.load EXCEPT ![best] = @ + 1]
                                             ELSE table.load[t]]
          /\ lastSeen' = [t \in DOMAIN table.seen \cup {tenant} |->
                            IF t = tenant THEN 0 ELSE table.seen[t]]
          /\ decision' = [tenant |-> tenant, worker |-> best,
                          report |-> report, halved |-> counted.halved]

\* Time passes.
Tick ==
  /\ \E t \in DOMAIN lastSeen : lastSeen[t] <= TenantStateTTL
  /\ lastSeen' = [t \in DOMAIN lastSeen |->
                    IF lastSeen[t] <= TenantStateTTL THEN lastSeen[t] + 1 ELSE lastSeen[t]]
  /\ UNCHANGED <<assignments, decision>>

TenantNext ==
  \/ \E tenant \in Tenants, candidates \in SUBSET Pool \ {{}} :
       \E report \in [candidates -> Loads] : Pick(tenant, candidates, report)
  \/ Tick

TenantSpec == TenantInit /\ [][TenantNext]_tenantVars

-----------------------------------------------------------------------------
(* Properties *)

\* The table never outgrows MaxTenantStates, its two maps name the same
\* tenants, and no counter outgrows the threshold at which counters are halved,
\* over any sequence of requests, expiries and evictions (pruneTenantState,
\* evictOldestTenant, the halving in Pick).
TableBounded ==
  /\ DOMAIN assignments = DOMAIN lastSeen
  /\ Cardinality(DOMAIN assignments) <= MaxTenantStates
  /\ \A t \in DOMAIN assignments, w \in Pool : assignments[t][w] \in 0..HalveAbove + 1

\* What speaks for worker b rather than v, the tenant's requests aside: the
\* blocks it caches, its queue and its pressure (twice the points of Pick).
Lead(report, b, v) ==
  16 * (report[b].overlap - report[v].overlap) + 3 * (report[v].queue - report[b].queue)
    + 4 * (report[v].pressure - report[b].pressure)

\* A tenant's requests pile up on one worker only as far as its cache earns it:
\* the worker picked had no more than the tenant's average over the candidates
\* plus the slack, or its lead over every candidate within that limit (and there
\* is one) makes up for the requests it has more and for the penalty of 25
\* points, less 15 where the other one's queue is too long.  On the pick that
\* halves the counters the limit also counts the workers that are not candidates.
ShareRespected ==
  LET d == decision IN
  d.tenant # "none" =>
    LET candidates == DOMAIN d.report
        before == [assignments[d.tenant] EXCEPT ![d.worker] = @ - 1]
        limit == Total(before, IF d.halved THEN Pool ELSE candidates)
                   \div Cardinality(candidates) + MaxTenantQueueSlack
    IN  \/ before[d.worker] <= limit
        \/ /\ \E v \in candidates : before[v] <= limit
           /\ \A v \in candidates : before[v] <= limit =>
                6 * (before[d.worker] - before[v])
                  + (IF GlobalOverLimit(v, candidates, d.report) THEN 20 ELSE 50)
                  <= Lead(d.report, d.worker, v)
=============================================================================
