------------------------------- MODULE Router -------------------------------
(***************************************************************************)
(* router/internal/proxy/handler.go: the Worker registrations, the         *)
(* requests that are routed to them and the cache index (CacheIndex) that  *)
(* is purged when a Worker is retired.                                     *)
(*                                                                         *)
(* workersMu makes each of the operations on the registrations one step.   *)
(* A request takes three: it selects a Worker from a snapshot, reserves it *)
(* (reserveRoutableWorker) and releases it when the response is copied or  *)
(* has failed.  Between them anything may happen to the Worker.            *)
(*                                                                         *)
(* Abstracted: URL and topology are one identity; queue depth, active      *)
(* decode blocks and the inflight count a Worker reports are one flag      *)
(* `busy`; which routable Worker a strategy picks is left open.  Requests  *)
(* the admin API refuses (bad JSON, duplicate IDs, bad URLs, an unknown    *)
(* Worker) change nothing and have no action.                              *)
(***************************************************************************)
EXTENDS CacheIndex

CONSTANTS
  Requests,      \* the goroutines that serve requests
  Identities,    \* URL and topology of a Worker
  Reports,       \* the Worker states the control plane submits
  Unregistered,  \* the ID is not in h.workers
  NoWorker       \* the request has selected no Worker

VARIABLES
  workers,         \* h.workers
  routerInflight,  \* h.routerInflight; 0 stands for an absent entry
  req,             \* the requests
  heard            \* auxiliary, heard[w]: the events about w that were handled
                   \* since w was last retired

routerVars == <<workers, routerInflight, req>>
vars       == <<routerVars, idxVars, heard>>

Healths    == {"ready", "draining", "unhealthy", "other"}
Readinesses == {"ready", "draining", "unhealthy", "not_ready"}

\* A report may leave health and readiness empty, and its flags may disagree.
WorkerReports == [identity: Identities, health: Healths \cup {""},
                  readiness: Readinesses \cup {""}, draining: BOOLEAN, busy: BOOLEAN]

WorkerStates == [identity: Identities, health: Healths, readiness: Readinesses,
                 draining: BOOLEAN, busy: BOOLEAN]

Idle == [pc |-> "idle", worker |-> NoWorker, identity |-> NoWorker]

ASSUME RouterAssumption == /\ Reports \subseteq WorkerReports
                           /\ Unregistered \notin WorkerStates
                           /\ NoWorker \notin Workers \cup Identities
                           /\ IsFiniteSet(Requests)

-----------------------------------------------------------------------------
(* Predicates on a Worker's state *)

\* normalizeWorkerDefaults: the readiness a report leaves out.
ReadinessFor(health) ==
  CASE health = "ready"     -> "ready"
    [] health = "draining"  -> "draining"
    [] health = "unhealthy" -> "unhealthy"
    [] OTHER                -> "not_ready"

\* normalizeWorkerDefaults: one sign of draining sets all three.
Normalized(report) ==
  LET health    == IF report.health = "" THEN "ready" ELSE report.health
      readiness == IF report.readiness = "" THEN ReadinessFor(health) ELSE report.readiness
  IN  IF report.draining \/ health = "draining" \/ readiness = "draining"
        THEN [report EXCEPT !.health = "draining", !.readiness = "draining",
                            !.draining = TRUE]
        ELSE [report EXCEPT !.health = health, !.readiness = readiness]

\* WorkerState.Routable, of a normalized state.
Routable(state) == /\ ~state.draining
                   /\ state.readiness = "ready"
                   /\ state.health = "ready"

Registered(w) == workers[w] # Unregistered

\* Mutant: what the Router itself has sent is not counted.
SafeToRemoveByReport(w) == workers[w].draining /\ ~workers[w].busy

\* WorkerState.SafeToRemove
SafeToRemove(w) == /\ workers[w].draining
                   /\ ~workers[w].busy
                   /\ routerInflight[w] = 0

\* workerReplacementConflicts finds nothing to refuse.
NoConflict(next) ==
  \A w \in Workers : Registered(w) =>
    IF next[w] # Unregistered THEN next[w].identity = workers[w].identity
                              ELSE SafeToRemove(w)

-----------------------------------------------------------------------------
(* The admin API *)

\* The lists of Workers a configuration file or the control plane may give.
WorkerLists == {list \in [Workers -> Reports \cup {Unregistered}] :
                  \E w \in Workers : list[w] # Unregistered}

NormalizedList(list) ==
  [w \in Workers |-> IF list[w] = Unregistered THEN Unregistered
                                               ELSE Normalized(list[w])]

\* removedWorkerIDs
Retired(list) == {w \in Workers : Registered(w) /\ list[w] = Unregistered}

\* Mutant: the cache observations of retired Workers stay.
ReplaceWorkersUnpurged(list) ==
  /\ NoConflict(NormalizedList(list))
  /\ workers' = NormalizedList(list)
  /\ heard' = [w \in Workers |-> IF w \in Retired(list) THEN {} ELSE heard[w]]
  /\ UNCHANGED <<routerInflight, req, idxVars>>

\* handleReplaceWorkers: everything under workersMu, the purge of the retired
\* Workers' observations (one EvictWorker each) included.
ReplaceWorkers(list) ==
  /\ NoConflict(NormalizedList(list))
  /\ workers' = NormalizedList(list)
  /\ Purge(Retired(list))
  /\ heard' = [w \in Workers |-> IF w \in Retired(list) THEN {} ELSE heard[w]]
  /\ UNCHANGED <<routerInflight, req>>

\* handleWorkerDrain with drain = true
Drain(w) ==
  /\ Registered(w)
  /\ workers' = [workers EXCEPT ![w] =
       [@ EXCEPT !.health = "draining", !.readiness = "draining", !.draining = TRUE]]
  /\ UNCHANGED <<routerInflight, req, idxVars, heard>>

\* handleWorkerDrain with drain = false, whatever state the Worker was in.
Undrain(w) ==
  /\ Registered(w)
  /\ workers' = [workers EXCEPT ![w] =
       [@ EXCEPT !.health = "ready", !.readiness = "ready", !.draining = FALSE]]
  /\ UNCHANGED <<routerInflight, req, idxVars, heard>>

\* cacheIndexEvent: of the fields that are modelled only the number is restricted.
Admissible(e) == e.seq > 0

\* handleEvent.  The handler does not ask whether the Worker is registered.
HandleEvent(e) ==
  /\ Admissible(e)
  /\ ApplyEvent(e)
  /\ heard' = [heard EXCEPT ![e.worker] = @ \cup {e}]
  /\ UNCHANGED routerVars

-----------------------------------------------------------------------------
(* Requests *)

\* handleProxy up to the strategy's decision: some Worker that is routable in
\* the snapshot.
Select(r, w) ==
  /\ req[r].pc = "idle"
  /\ Registered(w) /\ Routable(workers[w])
  /\ req' = [req EXCEPT ![r] = [pc |-> "selected", worker |-> w, identity |-> NoWorker]]
  /\ UNCHANGED <<workers, routerInflight, idxVars, heard>>

\* reserveRoutableWorker succeeds.
Reserve(r) ==
  LET w == req[r].worker
  IN  /\ req[r].pc = "selected"
      /\ Registered(w) /\ Routable(workers[w])
      /\ routerInflight' = [routerInflight EXCEPT ![w] = @ + 1]
      /\ req' = [req EXCEPT ![r] = [pc |-> "proxying", worker |-> w,
                                    identity |-> workers[w].identity]]
      /\ UNCHANGED <<workers, idxVars, heard>>

\* reserveRoutableWorker fails and the client gets an error.
ReserveFails(r) ==
  LET w == req[r].worker
  IN  /\ req[r].pc = "selected"
      /\ ~(Registered(w) /\ Routable(workers[w]))
      /\ req' = [req EXCEPT ![r] = Idle]
      /\ UNCHANGED <<workers, routerInflight, idxVars, heard>>

\* releaseWorker: the last one removes the entry.
OneLess(n) == IF n <= 1 THEN 0 ELSE n - 1

\* Mutant: the entry is dropped whatever the count.
ReleaseAll(r) ==
  /\ req[r].pc = "proxying"
  /\ routerInflight' = [routerInflight EXCEPT ![req[r].worker] = 0]
  /\ req' = [req EXCEPT ![r] = Idle]
  /\ UNCHANGED <<workers, idxVars, heard>>

\* Mutant: the release finds only a Worker that a reservation would find.
ReleaseIfRoutable(r) ==
  /\ req[r].pc = "proxying"
  /\ Routable(workers[req[r].worker])
  /\ routerInflight' = [routerInflight EXCEPT ![req[r].worker] = OneLess(@)]
  /\ req' = [req EXCEPT ![r] = Idle]
  /\ UNCHANGED <<workers, idxVars, heard>>

\* proxyToWorker returns, on whichever path, and the deferred releaseWorker runs.
Release(r) ==
  /\ req[r].pc = "proxying"
  /\ routerInflight' = [routerInflight EXCEPT ![req[r].worker] = OneLess(@)]
  /\ req' = [req EXCEPT ![r] = Idle]
  /\ UNCHANGED <<workers, idxVars, heard>>

-----------------------------------------------------------------------------

\* NewHandler with the Workers of the configuration file.
Init ==
  /\ IndexInit
  /\ \E list \in WorkerLists : workers = NormalizedList(list)
  /\ routerInflight = [w \in Workers |-> 0]
  /\ req = [r \in Requests |-> Idle]
  /\ heard = [w \in Workers |-> {}]

\* The clock passes a location's ExpiresAt.
LocationExpires(b, w) == Expire(b, w) /\ UNCHANGED <<routerVars, heard>>

Next ==
  \/ \E list \in WorkerLists : ReplaceWorkers(list)
  \/ \E w \in Workers : Drain(w) \/ Undrain(w)
  \/ \E e \in Events : HandleEvent(e)
  \/ \E b \in Blocks, w \in Workers : LocationExpires(b, w)
  \/ \E r \in Requests, w \in Workers : Select(r, w)
  \/ \E r \in Requests : Reserve(r) \/ ReserveFails(r) \/ Release(r)

Spec == Init /\ [][Next]_vars

\* Every request gets to its end: the client has no timeout of its own, so this
\* asks that the Worker or the client ends the exchange.
FairSpec == /\ Spec
            /\ \A r \in Requests : WF_vars(Reserve(r) \/ ReserveFails(r) \/ Release(r))

-----------------------------------------------------------------------------
(* Properties *)

\* The Router-owned count of a Worker is the number of requests that are being
\* proxied to it, through drains, replacements and failures
\* (reserveRoutableWorker, releaseWorker; docs/design-decisions.md:81).
InflightIsExact ==
  \A w \in Workers :
    routerInflight[w] = Cardinality({r \in Requests : /\ req[r].pc = "proxying"
                                                      /\ req[r].worker = w})

\* A Worker a request is proxied to stays registered under the identity the
\* request was sent to (workerReplacementConflicts).
ProxiedWorkerStays ==
  \A r \in Requests : req[r].pc = "proxying" =>
    /\ Registered(req[r].worker)
    /\ workers[req[r].worker].identity = req[r].identity

\* What the index holds about an ID stems from events that were handled since the
\* last Worker of that ID was retired, each location from the event that stored
\* it: an ID that nobody sends events about after its removal has no location and
\* no watermark, so its next user starts afresh.  An event that comes between the
\* removal and the next registration is heard, and stays
\* (EvictWorker under workersMu; handleEvent asks for no registration).
ObservedSinceRetired ==
  \A w \in Workers :
    /\ lastSeqByWorker[w] \in {0} \cup {e.seq : e \in heard[w]}
    /\ \A b \in Blocks : Present(b, w) =>
         \E e \in heard[w] : /\ e.type = "block_stored" /\ e.block = b
                             /\ e.seq = byBlock[b][w].seq

\* A Worker that is left draining becomes free of Router-owned work, so that
\* the control plane can remove it.
DrainCompletes ==
  \A w \in Workers :
    <>[](Registered(w) /\ workers[w].draining) => <>[](routerInflight[w] = 0)
=============================================================================
