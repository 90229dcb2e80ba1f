------------------------------ MODULE CacheFeed ------------------------------
(***************************************************************************)
(* An index (CacheIndex) kept up to date by the event producers of the     *)
(* Workers, with the event-log helpers of                                  *)
(* router/internal/cacheindex/eventlog.go.                                 *)
(*                                                                         *)
(* A producer numbers its events 1, 2, ... and appends each to the event   *)
(* log; an append may fail, or leave a torn line.  On the way to the index *)
(* an event may be lost, repeated and overtaken by any other               *)
(* (docs/design-decisions.md: deliveries are out of order and duplicated). *)
(* The program may be killed at any time, also while it writes the         *)
(* snapshot.  It starts again from the snapshot, or from an empty index,   *)
(* and replays the log, or the last lines of it, while new events come in. *)
(*                                                                         *)
(* The producers and the program that restarts are the environment: the    *)
(* Router itself delivers events and purges Workers (module Router), and   *)
(* uses neither snapshots nor the log.                                     *)
(***************************************************************************)
EXTENDS CacheIndex, Sequences

CONSTANTS
  LocalBlocks,  \* the blocks that Store observes
  ShortLived,   \* the blocks whose time to live may run out
  MaxEvents,    \* bound: events per Worker
  MaxRevision,  \* bound: the local revision after which nothing is observed
  Damaged       \* the event log has a line that is not an event

VARIABLES
  feed,    \* feed[w]: the events of Worker w, in the order of their numbers
  log,     \* the event log, or Damaged
  replay,  \* the events that ReplayEventLog has read and not yet applied
  intime,  \* auxiliary, intime[w]: the events of w that were handed to the
           \* index before any later event of w, by number
  saved    \* auxiliary: intime as of the snapshot

envVars == <<feed, log, replay, intime, saved>>

feedVars == <<idxVars, envVars>>

ASSUME FeedAssumption == /\ LocalBlocks \subseteq Blocks
                         /\ ShortLived \subseteq Blocks
                         /\ MaxEvents \in Nat /\ MaxEvents < MaxInt64 /\ MaxRevision \in Nat
                         /\ Workers \X (1..MaxEvents) \subseteq EventIDs
                         /\ Damaged \notin Seq(Events)

Produced(w) == Len(feed[w])

\* What is left in a Worker's cache by those of its events whose numbers are in S.
Resident(events, S) ==
  {events[i].block : i \in
     {i \in S : /\ events[i].type = "block_stored"
                /\ \A j \in S : j > i => events[j].block # events[i].block}}

Nothing == [w \in Workers |-> {}]

-----------------------------------------------------------------------------

FeedInit == /\ IndexInit
            /\ feed = [w \in Workers |-> <<>>]
            /\ log = <<>>
            /\ replay = <<>>
            /\ intime = Nothing
            /\ saved = Nothing

\* What AppendEvent may leave of the log: the write succeeds, fails, or is torn.
\* What is appended to a torn line becomes part of it.
Appended(e) == IF log = Damaged THEN {Damaged} ELSE {Append(log, e), log, Damaged}

\* A Worker stores or drops a block; AppendEvent records it.
Produce(w, type, b) ==
  LET e == [id |-> <<w, Produced(w) + 1>>, type |-> type, block |-> b, worker |-> w,
            seq |-> Produced(w) + 1]
  IN  /\ Produced(w) < MaxEvents
      /\ feed' = [feed EXCEPT ![w] = Append(@, e)]
      /\ log' \in Appended(e)
      /\ UNCHANGED <<idxVars, replay, intime, saved>>

\* An event reaches ApplyEvent.
HandOver(e) ==
  /\ IF e.id \in appliedEventIDs THEN UNCHANGED idxVars ELSE ApplyEvent(e)
  /\ intime' = IF \A i \in intime[e.worker] : i < e.seq
                 THEN [intime EXCEPT ![e.worker] = @ \cup {e.seq}] ELSE intime

\* Some event of the producer arrives: early, late, or once more.
Deliver(w, i) ==
  /\ HandOver(feed[w][i])
  /\ UNCHANGED <<feed, log, replay, saved>>

\* Store
Observe(b, w) ==
  /\ nextSeqNo < MaxRevision
  /\ Store(b, w)
  /\ UNCHANGED envVars

Save == /\ DumpSnapshot
        /\ saved' = intime
        /\ UNCHANGED <<feed, log, replay, intime>>

Clock(b, w) == Expire(b, w) /\ UNCHANGED envVars

\* ReadEvents, and the last `limit` events of what it returns: none if a line of
\* the log cannot be read.
LastEvents(limit) ==
  CASE log = Damaged -> <<>>
    [] log # Damaged /\ 0 < limit /\ limit < Len(log) ->
         SubSeq(log, Len(log) - limit + 1, Len(log))
    [] log # Damaged /\ ~(0 < limit /\ limit < Len(log)) -> log

\* A new process reads the snapshot and the log.
RestartFromSnapshot(limit) ==
  /\ LoadSnapshot
  /\ replay' = LastEvents(limit)
  /\ intime' = saved
  /\ UNCHANGED <<feed, log, saved>>

\* A new process starts without a snapshot and reads the log.  A snapshot there
\* was may be gone: os.WriteFile truncates it first, and the program was killed
\* before it had written the new one.
RestartEmpty(limit) ==
  /\ byBlock' = [b \in Blocks |-> [w \in Workers |-> NoLocation]]
  /\ nextSeqNo' = 0
  /\ lastSeqByWorker' = [w \in Workers |-> 0]
  /\ appliedEventIDs' = {}
  /\ \/ UNCHANGED <<file, saved>>
     \/ file' = NoSnapshot /\ saved' = Nothing
  /\ replay' = LastEvents(limit)
  /\ intime' = Nothing
  /\ UNCHANGED <<feed, log>>

\* One turn of the loop in ReplayEventLog.
ReplayOne ==
  /\ replay # <<>>
  /\ HandOver(Head(replay))
  /\ replay' = Tail(replay)
  /\ UNCHANGED <<feed, log, saved>>

FeedNext ==
  \/ \E w \in Workers, b \in Blocks, type \in {"block_stored", "block_evicted"} :
       Produce(w, type, b)
  \/ \E w \in Workers : \E i \in 1..Produced(w) : Deliver(w, i)
  \/ \E w \in Workers, b \in LocalBlocks : Observe(b, w)
  \/ \E w \in Workers, b \in ShortLived : Clock(b, w)
  \/ Save
  \/ \E limit \in 0..MaxEvents : RestartFromSnapshot(limit) \/ RestartEmpty(limit)
  \/ ReplayOne

FeedSpec == FeedInit /\ [][FeedNext]_feedVars

-----------------------------------------------------------------------------
(* Properties.  An event counts if it was handed to the index before any     *)
(* later event of its Worker; with deliveries in order these are all events  *)
(* up to the watermark.                                                      *)

\* What the index shows of the feed is what the events that count have left in
\* the Worker's cache: an event that comes late or again, a restart, an old
\* snapshot, a shortened or interrupted replay and expiry never bring back a
\* block that such an event has dropped
\* (acceptEventLocked, evictLocked, RestoreSnapshot, ReplayEventLog).
NeverOverclaims ==
  \A w \in Workers, b \in Blocks \ LocalBlocks :
    Present(b, w) => b \in Resident(feed[w], intime[w])

\* Nor does any of this lose a block that the events that count have left in
\* the cache, unless its time to live may run out: only an event that a later
\* one of its Worker has overtaken is without effect
\* (storeLocationLocked, RestoreSnapshot, ReplayEventLog).
ForgetsNothing ==
  \A w \in Workers :
    Resident(feed[w], intime[w]) \ ShortLived \subseteq {b \in Blocks : Present(b, w)}

\* The watermark never runs ahead of the producer, however many local revisions
\* were assigned: the producer's next event is always taken
\* (markWorkerSeqLocked is skipped for sequence number 0; index_test.go,
\* TestSnapshotKeepsLocalRevisionOutOfProducerWatermark).
NextEventIsFresh == \A w \in Workers : lastSeqByWorker[w] <= Produced(w)
==============================================================================
