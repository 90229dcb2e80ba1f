----------------------------- MODULE CacheIndex -----------------------------
(***************************************************************************)
(* router/internal/cacheindex: index.go, eventlog.go, snapshot.go.  What   *)
(* the Router believes about which Worker holds which block.               *)
(*                                                                         *)
(* Every exported operation takes the index's mutex, so each is one        *)
(* action.  Two kinds of number order the observations: the sequence       *)
(* numbers a Worker's event producer assigns (positive, remembered per     *)
(* Worker as a watermark) and the local revisions the index itself         *)
(* assigns to an observation that comes with sequence number 0.            *)
(*                                                                         *)
(* Abstracted: a location keeps its number and whether it has expired;     *)
(* tier, tokens, locality, confidence and the other hints are left out,    *)
(* and so is the defaulting of the empty ones.  Time only shows in Expire. *)
(***************************************************************************)
EXTENDS Integers, FiniteSets, FiniteSetsExt

CONSTANTS
  Blocks,      \* BlockHash
  Workers,     \* WorkerID
  MaxInt64,    \* the largest sequence number, math.MaxInt64
  EventIDs,    \* the non-empty event IDs
  NoEventID,   \* the empty EventID
  NoLocation,  \* the worker has no location for the block
  NoSnapshot   \* no snapshot has been written

VARIABLES
  byBlock,          \* byBlock[b][w]: a Location or NoLocation
  nextSeqNo,        \* the latest local revision
  lastSeqByWorker,  \* the watermarks; 0 stands for an absent entry
  appliedEventIDs,  \* the event IDs that were consumed
  file              \* the snapshot on disk

idxVars == <<byBlock, nextSeqNo, lastSeqByWorker, appliedEventIDs, file>>

SeqNos == 0..MaxInt64

\* ordered is auxiliary: the number was assigned by the Worker's producer.
Location == [seq: SeqNos \ {0}, ordered: BOOLEAN, live: BOOLEAN]

Table == [Blocks -> [Workers -> Location \cup {NoLocation}]]

Snapshots == [byBlock: Table, nextSeqNo: SeqNos,
              lastSeqByWorker: [Workers -> SeqNos]]

Events == [id: EventIDs \cup {NoEventID}, type: {"block_stored", "block_evicted"},
           block: Blocks, worker: Workers, seq: SeqNos]

ASSUME IndexAssumption == /\ MaxInt64 \in Nat \ {0}
                          /\ NoLocation \notin Location
                          /\ NoSnapshot \notin Snapshots
                          /\ NoEventID \notin EventIDs

\* The later of two sequence numbers.
Later(m, n) == IF m > n THEN m ELSE n

Present(b, w) == byBlock[b][w] # NoLocation

\* OverlapByWorker, LocationsByWorker: reads skip what has expired.
Visible(b, w) == Present(b, w) /\ byBlock[b][w].live

SetLocation(b, w, loc) == [byBlock EXCEPT ![b] = [@ EXCEPT ![w] = loc]]

\* seqFreshLocked
SeqFresh(w, s) == s = 0 \/ s >= lastSeqByWorker[w]

-----------------------------------------------------------------------------
(* Operations on the locked index.  s = 0 asks for a local revision. *)

\* Mutant: a local revision advances the producer's watermark.
StoreLocatedMarking(b, w, s) ==
  LET bumped == IF nextSeqNo < MaxInt64 THEN nextSeqNo + 1 ELSE nextSeqNo
      seq    == IF s = 0 THEN bumped ELSE s
      loc    == [seq |-> seq, ordered |-> s > 0, live |-> TRUE]
  IN  /\ nextSeqNo' = Later(bumped, s)
      /\ byBlock' = SetLocation(b, w, loc)
      /\ lastSeqByWorker' =
           [lastSeqByWorker EXCEPT ![w] = Later(@, seq)]

\* storeLocationLocked: the revision counter moves even when the location is
\* then refused as stale; only the producer's numbers move the watermark.
StoreLocated(b, w, s) ==
  LET bumped == IF nextSeqNo < MaxInt64 THEN nextSeqNo + 1 ELSE nextSeqNo
      loc    == [seq |-> IF s = 0 THEN bumped ELSE s, ordered |-> s > 0,
                 live |-> TRUE]
  IN  /\ nextSeqNo' = Later(bumped, s)
      /\ IF SeqFresh(w, s)
           THEN /\ byBlock' = SetLocation(b, w, loc)
                /\ lastSeqByWorker' = [lastSeqByWorker EXCEPT ![w] = Later(@, s)]
           ELSE UNCHANGED <<byBlock, lastSeqByWorker>>

\* Mutant: an eviction that finds nothing to evict does not move the watermark.
EvictLocatedUnmarked(b, w, s) ==
  IF SeqFresh(w, s) /\ Present(b, w) /\ s >= byBlock[b][w].seq
    THEN /\ byBlock' = SetLocation(b, w, NoLocation)
         /\ lastSeqByWorker' = [lastSeqByWorker EXCEPT ![w] = Later(@, s)]
    ELSE UNCHANGED <<byBlock, lastSeqByWorker>>

\* evictLocked: a location with a higher number stays, and the watermark moves
\* all the same.
EvictLocated(b, w, s) ==
  IF SeqFresh(w, s)
    THEN /\ byBlock' = IF Present(b, w) /\ s >= byBlock[b][w].seq
                         THEN SetLocation(b, w, NoLocation)
                         ELSE byBlock
         /\ lastSeqByWorker' = [lastSeqByWorker EXCEPT ![w] = Later(@, s)]
    ELSE UNCHANGED <<byBlock, lastSeqByWorker>>

-----------------------------------------------------------------------------
(* The exported operations that the Router and the event producers use *)

\* Store
Store(b, w) == /\ StoreLocated(b, w, 0)
               /\ UNCHANGED <<appliedEventIDs, file>>

\* Nothing is known of these Workers any more; consumed event IDs are kept.
Purge(ws) ==
  /\ byBlock' = [b \in Blocks |-> [w \in Workers |->
                   IF w \in ws THEN NoLocation ELSE byBlock[b][w]]]
  /\ lastSeqByWorker' = [w \in Workers |-> IF w \in ws THEN 0 ELSE lastSeqByWorker[w]]
  /\ UNCHANGED <<nextSeqNo, appliedEventIDs, file>>

\* EvictWorker
EvictWorker(w) == Purge({w})

\* validateEvent, as far as the fields that are modelled can be wrong.
ValidEvent(e) == e.seq < MaxInt64

\* acceptEventLocked, once the event ID is known to be new.
AcceptEvent(e) == e.seq > 0 => e.seq > lastSeqByWorker[e.worker]

\* ApplyEvent: a valid event consumes its ID even when it is then found stale.
\* An invalid event and an event whose ID was consumed change nothing.
ApplyEvent(e) ==
  /\ ValidEvent(e)
  /\ e.id \notin appliedEventIDs
  /\ appliedEventIDs' = appliedEventIDs \cup ({e.id} \ {NoEventID})
  /\ CASE ~AcceptEvent(e) ->
            UNCHANGED <<byBlock, nextSeqNo, lastSeqByWorker>>
       [] AcceptEvent(e) /\ e.type = "block_stored" ->
            StoreLocated(e.block, e.worker, e.seq)
       [] AcceptEvent(e) /\ e.type = "block_evicted" ->
            /\ EvictLocated(e.block, e.worker, e.seq)
            /\ UNCHANGED nextSeqNo
  /\ UNCHANGED file

\* The clock passes a location's ExpiresAt.
Expire(b, w) ==
  /\ Visible(b, w)
  /\ byBlock' = SetLocation(b, w, [byBlock[b][w] EXCEPT !.live = FALSE])
  /\ UNCHANGED <<nextSeqNo, lastSeqByWorker, appliedEventIDs, file>>

\* Snapshot, DumpSnapshot: expired locations and event IDs are not written.
DumpSnapshot ==
  /\ file' = [byBlock |-> [b \in Blocks |-> [w \in Workers |->
                 IF Visible(b, w) THEN byBlock[b][w] ELSE NoLocation]],
              nextSeqNo |-> nextSeqNo,
              lastSeqByWorker |-> lastSeqByWorker]
  /\ UNCHANGED <<byBlock, nextSeqNo, lastSeqByWorker, appliedEventIDs>>

\* Mutant: the consumed event IDs survive.
LoadSnapshotKeepingIDs ==
  /\ file # NoSnapshot
  /\ byBlock' = file.byBlock
  /\ nextSeqNo' = file.nextSeqNo
  /\ lastSeqByWorker' = file.lastSeqByWorker
  /\ UNCHANGED <<appliedEventIDs, file>>

\* LoadSnapshot, RestoreSnapshot (schema 2)
LoadSnapshot ==
  /\ file # NoSnapshot
  /\ byBlock' = file.byBlock
  /\ LET listed == {l \in UNION {{file.byBlock[b][w] : w \in Workers} : b \in Blocks} :
                     l # NoLocation}
     IN  nextSeqNo' = Max({file.nextSeqNo} \cup {l.seq : l \in listed})
  /\ lastSeqByWorker' = file.lastSeqByWorker
  /\ appliedEventIDs' = {}
  /\ UNCHANGED file

-----------------------------------------------------------------------------
\* New
IndexInit ==
  /\ byBlock = [b \in Blocks |-> [w \in Workers |-> NoLocation]]
  /\ nextSeqNo = 0
  /\ lastSeqByWorker = [w \in Workers |-> 0]
  /\ appliedEventIDs = {}
  /\ file = NoSnapshot
=============================================================================
