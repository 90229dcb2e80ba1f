----------------------------- MODULE SegmentTier -----------------------------
(***************************************************************************)
(* kvstore/kvstore/nvme_tier.py, segment layout: blocks are records of     *)
(* append-only segment files, an eviction only withdraws the row, and      *)
(* compact_segments() copies the records in use to fresh files and removes *)
(* the files no row refers to.                                             *)
(*                                                                         *)
(* Steps and locking are those of module NVMeTier; _capacity_lock and      *)
(* _segment_lock are only taken inside the mutation lock.  Every record    *)
(* takes one place in its file, and the keys share one namespace directory *)
(* (files of different directories never meet).  max_bytes is out of       *)
(* reach: the evictions for room are in NVMeTier, the full disk is here.   *)
(***************************************************************************)
EXTENDS MetadataStore, Sequences, FiniteSetsExt

CONSTANTS
  Readers,         \* threads that load
  Writers,         \* threads that store, evict and compact
  NVMe,            \* this tier, a member of Tiers
  SegmentRecords,  \* segment_bytes
  DiskRecords,     \* the room on the disk
  Torn,            \* a record that was not written to its end
  None,            \* no owner of the lock, unused field
  MaxCompactions,  \* bound: compactions
  MaxIncidents     \* bound: crashes, failed calls to the system, lost files

VARIABLES
  segs,         \* the files: a function from paths to sequences of records
  mutation,     \* the thread that holds the mutation lock, or None
  call,         \* call[t]: the call that thread t executes
  compactions,  \* compactions so far; the source of compaction_id
  hit,          \* keys whose published record was in a file that was lost
  faults,       \* number of files lost from outside
  incidents     \* number of incidents of any kind

ASSUME SegmentAssumption ==
  /\ NVMe \in Tiers
  /\ IsFiniteSet(Readers \cup Writers)
  /\ None \notin Readers \cup Writers \cup Keys \cup Descriptors
  /\ Torn \notin [key : Keys, desc : Descriptors]

segVars == <<segs, mutation, call, compactions, hit, faults, incidents>>
vars    == <<mdVars, segVars>>

Threads == Readers \cup Writers

\* A path is <<compaction, number>>; compaction 0 names the files of stores.
\* A location (SegmentRef) is [path, at], the place of the record in its file.
Locations == [path : Nat \X Nat, at : Nat \ {0}]

Idle == [pc |-> "idle", op |-> "none", key |-> None,
         val |-> None,         \* payload to store or to copy
         want |-> None,        \* descriptor of the acquired row
         loc |-> None,         \* location that was looked up or written
         verdict |-> "none",
         todo |-> {},          \* `entries' of compact_segments
         left |-> {}]          \* auxiliary: the active keys it did not list

Init ==
  /\ blocks = [k \in Keys |-> [t \in Tiers |-> NoRow]]
  /\ ownerEpoch = 0 /\ open = FALSE
  /\ segs = << >>
  /\ mutation = None
  /\ call = [t \in Threads |-> Idle]
  /\ compactions = 0 /\ hit = {} /\ faults = 0 /\ incidents = 0

-----------------------------------------------------------------------------
(* Helpers *)

At(t, pc) == open /\ call[t].pc = pc

Go(t, pc) == call' = [call EXCEPT ![t].pc = pc]

MayLock(t) == mutation \in {None, t}

\* The call ends, by return or by exception; with it the outermost `with'.
Return(t) ==
  /\ call' = [call EXCEPT ![t] = Idle]
  /\ mutation' = IF mutation = t THEN None ELSE mutation

\* _location_exists
LocationExists(loc) == loc.path \in DOMAIN segs /\ loc.at <= Len(segs[loc.path])

\* _read_record, as far as the checks of its callers tell results apart.
RecordAt(loc) == IF LocationExists(loc) THEN segs[loc.path][loc.at] ELSE Torn

RecordOf(k, d) == [key |-> k, desc |-> d]

Located(k) == Active(k, NVMe) /\ LocationExists(blocks[k][NVMe].uri)

\* The paths the active rows refer to, those of readers included.
Referenced == {blocks[k][NVMe].uri.path : k \in {j \in Keys : Active(j, NVMe)}}

Used == FoldSet(LAMBDA p, n : n + Len(segs[p]), 0, DOMAIN segs)

\* _segment_path_for_append and _compact_segment_path_for_append: the last file
\* of the series while it has room, and then the next number.
PathForAppend(series) ==
  LET numbers == {p[2] : p \in {q \in DOMAIN segs : q[1] = series}}
      last    == <<series, Max(numbers)>>
  IN  IF numbers = {} THEN <<series, 0>>
      ELSE IF Len(segs[last]) < SegmentRecords THEN last
      ELSE <<series, last[2] + 1>>

\* The files after the record was written at the end of the path's file.
Appended(path, record) ==
  [p \in DOMAIN segs \cup {path} |->
     IF p # path THEN segs[p]
     ELSE IF p \in DOMAIN segs THEN Append(segs[p], record) ELSE <<record>>]

\* Where a record appended to the path begins.
EndOf(path) == [path |-> path,
                at |-> IF path \in DOMAIN segs THEN Len(segs[path]) + 1 ELSE 1]

\* Something goes wrong that is not the code's doing.
Incident == /\ incidents < MaxIncidents
            /\ incidents' = incidents + 1

\* A write fails on a full disk, or leaves a part of the record behind.
WriteFails(path) ==
  \/ Used = DiskRecords /\ UNCHANGED <<segs, incidents>>
  \/ Used < DiskRecords /\ Incident /\ segs' = Appended(path, Torn)

\* Auxiliary: whether the record that is published now was lost before.
Republished(t) == hit' = IF LocationExists(call[t].loc) THEN hit \ {call[t].key}
                                                        ELSE hit \cup {call[t].key}

-----------------------------------------------------------------------------
(* load(), with the lookup() it starts with.  The comparison with
   get_metadata() is in NVMeTier. *)

LoadCall(t, k) ==
  /\ At(t, "idle") /\ Active(k, NVMe)
  /\ call' = [call EXCEPT ![t] = [Idle EXCEPT !.pc = "exists", !.op = "load", !.key = k,
                                              !.loc = blocks[k][NVMe].uri]]
  /\ UNCHANGED <<mdVars, segs, mutation, compactions, hit, faults, incidents>>

\* The location that lookup read may be gone because the record has moved.
LoadExists(t) ==
  /\ At(t, "exists")
  /\ Go(t, IF LocationExists(call[t].loc) THEN "acquire" ELSE "stale")
  /\ UNCHANGED <<mdVars, segs, mutation, compactions, hit, faults, incidents>>

\* The second look, under the lock: a row without a record is deleted.
LoadStale(t) ==
  /\ At(t, "stale") /\ MayLock(t)
  /\ LET k == call[t].key IN
     \/ Located(k) /\ Go(t, "acquire") /\ UNCHANGED <<mdVars, mutation>>
     \/ ~Located(k) /\ Delete(k, NVMe) /\ Return(t)
     \/ ~Located(k) /\ ~(Active(k, NVMe) /\ ~Pinned(k, NVMe)) /\ Return(t) /\ UNCHANGED mdVars
  /\ UNCHANGED <<segs, compactions, hit, faults, incidents>>

\* Mutant: the pin does not join the mutation lock.
LoadAcquireUnlocked(t) ==
  /\ At(t, "acquire")
  /\ LET k == call[t].key IN
     \/ /\ Acquire(k, NVMe)
        /\ call' = [call EXCEPT ![t].pc = "read", ![t].loc = blocks[k][NVMe].uri,
                                ![t].want = blocks[k][NVMe].desc]
        /\ UNCHANGED mutation
     \/ ~Active(k, NVMe) /\ Return(t) /\ UNCHANGED mdVars
  /\ UNCHANGED <<segs, compactions, hit, faults, incidents>>

\* lookup_and_acquire
LoadAcquire(t) ==
  /\ At(t, "acquire") /\ MayLock(t)
  /\ LET k == call[t].key IN
     \/ /\ Acquire(k, NVMe)
        /\ call' = [call EXCEPT ![t].pc = "read", ![t].loc = blocks[k][NVMe].uri,
                                ![t].want = blocks[k][NVMe].desc]
        /\ UNCHANGED mutation
     \/ ~Active(k, NVMe) /\ Return(t) /\ UNCHANGED mdVars
  /\ UNCHANGED <<segs, compactions, hit, faults, incidents>>

\* A missing file is an OSError; a record of another key or payload, or the end
\* of the file, is corruption.
LoadRead(t) ==
  /\ At(t, "read")
  /\ LET loc == call[t].loc
         found == RecordAt(loc) = RecordOf(call[t].key, call[t].want)
     IN  call' = [call EXCEPT
                    ![t].pc = "release",
                    ![t].verdict = CASE found -> "ok"
                                     [] loc.path \notin DOMAIN segs -> "error"
                                     [] OTHER -> "corrupt"]
  /\ UNCHANGED <<mdVars, segs, mutation, compactions, hit, faults, incidents>>

\* The finally clause, and what follows it: a corrupt block is evicted; a
\* store that found its block already there publishes it again.
LoadRelease(t) ==
  /\ At(t, "release")
  /\ Release(call[t].key, NVMe)
  /\ CASE call[t].verdict = "corrupt" -> Go(t, "begin") /\ UNCHANGED mutation
       [] call[t].verdict = "ok" /\ call[t].val = call[t].want
            -> Go(t, "commit") /\ UNCHANGED mutation
       [] OTHER -> Return(t)
  /\ UNCHANGED <<segs, compactions, hit, faults, incidents>>

-----------------------------------------------------------------------------
(* evict(): the bytes stay where they are *)

EvictCall(t, k) ==
  /\ At(t, "idle")
  /\ call' = [call EXCEPT ![t] = [Idle EXCEPT !.pc = "begin", !.op = "evict", !.key = k]]
  /\ UNCHANGED <<mdVars, segs, mutation, compactions, hit, faults, incidents>>

EvictBegin(t) ==
  /\ At(t, "begin") /\ MayLock(t)
  /\ \/ BeginDelete(call[t].key, NVMe) /\ Go(t, "finish") /\ mutation' = t
     \/ ~CanBeginDelete(call[t].key, NVMe) /\ Return(t) /\ UNCHANGED mdVars
  /\ UNCHANGED <<segs, compactions, hit, faults, incidents>>

EvictFinish(t) ==
  /\ At(t, "finish")
  /\ FinishDelete(call[t].key, NVMe)
  /\ Return(t)
  /\ UNCHANGED <<segs, compactions, hit, faults, incidents>>

-----------------------------------------------------------------------------
(* store() *)

\* Under the lock from the first check to the return.  A block that is there is
\* loaded to compare it; a row without a record is dropped.
StoreCall(t, k, d) ==
  /\ At(t, "idle") /\ mutation = None
  /\ ~Deleting(k, NVMe) /\ DescriptorFits(k, d)
  /\ mutation' = t
  /\ \/ /\ Located(k)
        /\ call' = [call EXCEPT ![t] = [Idle EXCEPT !.pc = "exists", !.op = "store", !.key = k,
                                                    !.val = d, !.loc = blocks[k][NVMe].uri]]
        /\ UNCHANGED mdVars
     \/ /\ ~Located(k)
        /\ call' = [call EXCEPT ![t] = [Idle EXCEPT !.pc = "append", !.op = "store",
                                                    !.key = k, !.val = d]]
        /\ IF Active(k, NVMe) /\ ~Pinned(k, NVMe) THEN Delete(k, NVMe) ELSE UNCHANGED mdVars
  /\ UNCHANGED <<segs, compactions, hit, faults, incidents>>

\* _append_segment_record
StoreAppend(t) ==
  /\ At(t, "append")
  /\ LET path == PathForAppend(0) IN
     \/ /\ Used < DiskRecords
        /\ segs' = Appended(path, RecordOf(call[t].key, call[t].val))
        /\ call' = [call EXCEPT ![t].pc = "commit", ![t].loc = EndOf(path)]
        /\ UNCHANGED <<mutation, incidents>>
     \/ WriteFails(path) /\ Return(t)
  /\ UNCHANGED <<mdVars, compactions, hit, faults>>

StoreCommit(t) ==
  /\ At(t, "commit")
  /\ \/ Upsert(call[t].key, NVMe, call[t].val, call[t].loc) /\ Republished(t)
        /\ UNCHANGED incidents
     \/ Incident /\ UNCHANGED <<mdVars, hit>>
  /\ Return(t)
  /\ UNCHANGED <<segs, compactions, faults>>

-----------------------------------------------------------------------------
(* compact_segments() *)

\* The rows a compaction is to move, and the active rows it passes over.
Listed == {[key |-> k, loc |-> blocks[k][NVMe].uri] :
             k \in {j \in LruCandidates(NVMe) : Located(j)}}

PassedOver == {k \in Keys : Active(k, NVMe) /\ (k \in LruCandidates(NVMe) => ~Located(k))}

\* Under the lock to the end: the records to move are listed once.  The second
\* list, of the pinned rows, is only counted for the report.
CompactCall(t) ==
  /\ At(t, "idle") /\ mutation = None
  /\ compactions < MaxCompactions
  /\ compactions' = compactions + 1
  /\ mutation' = t
  /\ call' = [call EXCEPT ![t] =
       [Idle EXCEPT !.pc = "pin", !.op = "compact",
                    !.todo = Listed, !.left = PassedOver]]
  /\ UNCHANGED <<mdVars, segs, hit, faults, incidents>>

\* The row is still as it was listed: it changes only under the lock.
CompactPin(t) ==
  /\ At(t, "pin")
  /\ \/ \E e \in call[t].todo :
          /\ Acquire(e.key, NVMe)
          /\ call' = [call EXCEPT ![t].pc = "copy", ![t].todo = @ \ {e},
                        ![t].key = e.key, ![t].loc = e.loc,
                        ![t].val = blocks[e.key][NVMe].desc]
     \/ call[t].todo = {} /\ Go(t, "sweep") /\ UNCHANGED mdVars
  /\ UNCHANGED <<segs, mutation, compactions, hit, faults, incidents>>

\* Mutant: the copies join the files that stores append to.
CompactCopyInPlace(t) ==
  /\ At(t, "copy")
  /\ LET path   == PathForAppend(0)
         record == RecordOf(call[t].key, call[t].val)
     IN  \/ /\ RecordAt(call[t].loc) = record /\ Used < DiskRecords
            /\ segs' = Appended(path, record)
            /\ call' = [call EXCEPT ![t].pc = "publish", ![t].loc = EndOf(path)]
            /\ UNCHANGED incidents
         \/ /\ call' = [call EXCEPT ![t].pc = "unpin", ![t].verdict = "error"]
            /\ IF RecordAt(call[t].loc) = record THEN WriteFails(path)
                                                ELSE UNCHANGED <<segs, incidents>>
  /\ UNCHANGED <<mdVars, mutation, compactions, hit, faults>>

\* _read_location and _append_compacted_segment_record.  A record that fails
\* the checks, or a failed write, ends the compaction.
CompactCopy(t) ==
  /\ At(t, "copy")
  /\ LET path   == PathForAppend(compactions)
         record == RecordOf(call[t].key, call[t].val)
     IN  \/ /\ RecordAt(call[t].loc) = record /\ Used < DiskRecords
            /\ segs' = Appended(path, record)
            /\ call' = [call EXCEPT ![t].pc = "publish", ![t].loc = EndOf(path)]
            /\ UNCHANGED incidents
         \/ /\ call' = [call EXCEPT ![t].pc = "unpin", ![t].verdict = "error"]
            /\ IF RecordAt(call[t].loc) = record THEN WriteFails(path)
                                                ELSE UNCHANGED <<segs, incidents>>
  /\ UNCHANGED <<mdVars, mutation, compactions, hit, faults>>

\* upsert; an error of the database ends the compaction.
CompactPublish(t) ==
  /\ At(t, "publish")
  /\ \/ /\ Upsert(call[t].key, NVMe, call[t].val, call[t].loc)
        /\ Go(t, "unpin")
        /\ Republished(t)
        /\ UNCHANGED incidents
     \/ /\ Incident
        /\ call' = [call EXCEPT ![t].pc = "unpin", ![t].verdict = "error"]
        /\ UNCHANGED <<mdVars, hit>>
  /\ UNCHANGED <<segs, mutation, compactions, faults>>

CompactUnpin(t) ==
  /\ At(t, "unpin")
  /\ Release(call[t].key, NVMe)
  /\ IF call[t].verdict = "error" THEN Return(t) ELSE Go(t, "pin") /\ UNCHANGED mutation
  /\ UNCHANGED <<segs, compactions, hit, faults, incidents>>

\* Mutant: the rows of readers do not count as references.
SweepUnderReaders(t) ==
  /\ At(t, "sweep")
  /\ segs' = [p \in DOMAIN segs \cap {blocks[k][NVMe].uri.path : k \in LruCandidates(NVMe)} |->
                segs[p]]
  /\ Return(t)
  /\ UNCHANGED incidents
  /\ UNCHANGED <<mdVars, compactions, hit, faults>>

\* _remove_unreferenced_segment_files, one file at a time; an unlink that fails
\* ends it early.
Sweep(t) ==
  /\ At(t, "sweep")
  /\ \/ /\ \E p \in DOMAIN segs \ Referenced :
             segs' = [q \in DOMAIN segs \ {p} |-> segs[q]]
        /\ UNCHANGED <<call, mutation, incidents>>
     \/ DOMAIN segs \subseteq Referenced /\ Return(t) /\ UNCHANGED <<segs, incidents>>
     \/ Incident /\ Return(t) /\ UNCHANGED segs
  /\ UNCHANGED <<mdVars, compactions, hit, faults>>

-----------------------------------------------------------------------------
(* Environment *)

\* A segment file disappears behind the tier's back.
Fault(p) ==
  /\ Incident
  /\ segs' = [q \in DOMAIN segs \ {p} |-> segs[q]]
  /\ hit' = hit \cup {k \in Keys : Active(k, NVMe) /\ blocks[k][NVMe].uri.path = p}
  /\ faults' = faults + 1
  /\ UNCHANGED <<mdVars, mutation, call, compactions>>

\* The process ends between any two steps; table and files survive.
Crash ==
  /\ Incident
  /\ Close
  /\ call' = [t \in Threads |-> Idle]
  /\ mutation' = None
  /\ UNCHANGED <<segs, compactions, hit, faults>>

Reopen == Open /\ UNCHANGED segVars

-----------------------------------------------------------------------------
(* Specification *)

Calls ==
  \/ \E t \in Readers, k \in Keys : LoadCall(t, k)
  \/ \E t \in Writers, k \in Keys : EvictCall(t, k) \/ \E d \in Descriptors : StoreCall(t, k, d)
  \/ \E t \in Writers : CompactCall(t)

Step(t) ==
  \/ LoadExists(t) \/ LoadStale(t) \/ LoadAcquire(t) \/ LoadRead(t) \/ LoadRelease(t)
  \/ EvictBegin(t) \/ EvictFinish(t)
  \/ StoreAppend(t) \/ StoreCommit(t)
  \/ CompactPin(t) \/ CompactCopy(t) \/ CompactPublish(t) \/ CompactUnpin(t) \/ Sweep(t)

Next ==
  \/ Calls
  \/ \E t \in Threads : Step(t)
  \/ \E p \in DOMAIN segs : Fault(p)
  \/ Crash
  \/ Reopen

Spec == Init /\ [][Next]_vars

-----------------------------------------------------------------------------
(* Properties *)

\* A published block is a whole record of that key and payload, at every moment
\* of stores, evictions and compactions and after a crash at any moment, also
\* when a file name is used again, unless the file was lost
\* (_append_segment_record before upsert, upsert before the removal of files).
ReferencedIsIntact ==
  \A k \in Keys : Active(k, NVMe) /\ k \notin hit
                   => RecordAt(blocks[k][NVMe].uri) = RecordOf(k, blocks[k][NVMe].desc)

\* A load that got its pin fails only because a file was lost: no compaction
\* moves the record away under it (the comment in lookup_and_acquire).
PinnedRecordStays ==
  [][\A t \in Threads :
       call[t].pc = "read" /\ call'[t].verdict \in {"error", "corrupt"}
         => faults > 0]_vars

\* A compaction that runs to its end leaves no record on the disk that no row
\* refers to, torn records and what interrupted compactions left included, but for
\* the files of rows that it did not list: a reader had them pinned then, or the
\* record was missing (the file stays as long as such a row refers to it).
CompactionReclaims ==
  [][\A t \in Threads :
       At(t, "sweep") /\ open' /\ call'[t].pc = "idle" /\ UNCHANGED incidents
       => \A p \in DOMAIN segs : \A i \in DOMAIN segs[p] :
            \E k \in Keys : /\ Active(k, NVMe)
                            /\ blocks[k][NVMe].uri.path = p
                            /\ blocks[k][NVMe].uri.at = i \/ k \in call[t].left]_vars
=============================================================================
