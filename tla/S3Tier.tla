------------------------------- MODULE S3Tier -------------------------------
(***************************************************************************)
(* kvstore/kvstore/s3_tier.py: threads of one process that look up, load,  *)
(* store and evict blocks kept as objects of an S3 bucket, published       *)
(* through the metadata table.                                             *)
(*                                                                         *)
(* A step ends where another thread, a crash or the network can intervene. *)
(* Store and evict hold the mutation lock across their network calls;      *)
(* lookup and load do not, except for the second look at a missing object. *)
(* Any call may end in TierUnavailable.  A put or delete that did, or that *)
(* the client library repeated, may have been carried out, may never be,   *)
(* or may be carried out later (variable `late').                          *)
(*                                                                         *)
(* The body of a GET is read, while the object in the bucket is            *)
(* overwritten or deleted, and the reading may fail half-way.              *)
(*                                                                         *)
(* A payload is identified with its descriptor; the object key is a        *)
(* function of the block key, so the key stands for it.  That the client   *)
(* library raises when a body ends early is assumed.                       *)
(***************************************************************************)
EXTENDS MetadataStore

CONSTANTS
  Threads,
  S3,         \* this tier, a member of Tiers
  None,       \* no object, no owner of the lock, unused field
  MaxOpens,   \* bound: openings of the database
  MaxFaults,  \* bound: objects lost or damaged from outside
  MaxLate     \* bound: requests that are carried out late

VARIABLES
  objects,    \* objects[k]: the payload in the bucket, a damage or None
  late,       \* requests under way that nobody waits for
  delayed,    \* number of late requests so far
  mutation,   \* the thread that holds the mutation lock, or None
  call,       \* call[t]: the call that thread t executes
  disturbed,  \* keys whose object was hit by a fault or a late request since the last put
  faults      \* number of faults so far

ASSUME S3Assumption ==
  /\ S3 \in Tiers /\ Keys \subseteq Uris /\ IsFiniteSet(Threads)
  /\ None \notin Threads /\ None \notin Keys /\ None \notin Descriptors
  /\ None \notin [key: Keys, tier: Tiers, desc: Descriptors]
  /\ "bad record" \notin Descriptors

netVars == <<objects, late, delayed, disturbed>>
s3Vars  == <<objects, late, delayed, mutation, call, disturbed, faults>>
vars    == <<mdVars, s3Vars>>

\* A call of `op' on key k, with payload v to store, that stands at pc.
NewCall(pc, op, k, v) ==
  [pc |-> pc, op |-> op, key |-> k, val |-> v,
   want |-> None,        \* descriptor of the acquired row
   body |-> None,        \* what the GET of a load answers with
   verdict |-> "none"]

Idle == NewCall("idle", "none", None, None)

Init ==
  /\ blocks = [k \in Keys |-> [t \in Tiers |-> NoRow]]
  /\ ownerEpoch = 0 /\ open = FALSE
  /\ objects = [k \in Keys |-> None]
  /\ late = {} /\ delayed = 0
  /\ mutation = None
  /\ call = [t \in Threads |-> Idle]
  /\ disturbed = {} /\ faults = 0

-----------------------------------------------------------------------------
(* Records and answers of the bucket *)

\* What can be wrong with the bytes of an object, as a load notices it: they do
\* not form a record, or a well-formed record has other bytes.
Damages == {"bad record", "bad bytes"}

\* decode_record_header: JSON, version, payload length, checksum and metadata.
\* A wrong magic and a payload that is shorter or longer go with a bad header.
DecodeRecord(body) == body # "bad record"

\* Mutant: an exception of read() counts as a damaged record.
ReadBodyFailingAsCorrupt(body) == IF DecodeRecord(body) THEN {"none", "corrupt"} ELSE {"corrupt"}

\* _read_body: prefix, header, payload and the check for trailing data.  Any
\* read() may fail or break its bound; a part that is not as the record format
\* says is corruption.  The body is closed whatever happened, and what the reads
\* came to outweighs a failure to close.
ReadBody(body) ==
  LET reads == {"unavailable", IF DecodeRecord(body) THEN "none" ELSE "corrupt"}
  IN  {IF r = "none" /\ closeFails THEN "unavailable" ELSE r : r \in reads, closeFails \in BOOLEAN}

\* A HEAD finds the object, or the explicit NoSuchKey; it may also fail, or end
\* in a 404 that does not say what is missing.
HeadAnswers(k) ==
  {"unavailable", "404", IF objects[k] = None THEN "NoSuchKey" ELSE "there"}

IsNotFound(answer, allowAmbiguous) ==
  answer = "NoSuchKey" \/ (allowAmbiguous /\ answer = "404")

-----------------------------------------------------------------------------
(* Helpers *)

At(t, pc) == open /\ call[t].pc = pc

Go(t, pc) == call' = [call EXCEPT ![t].pc = pc]

MayLock(t) == mutation \in {None, t}

\* Mutant: an exception under the lock leaves it taken.
ReturnKeepingLock(t) ==
  /\ call' = [call EXCEPT ![t] = Idle]
  /\ mutation' = mutation

\* The call ends, by return or by exception; with it the outermost `with'.
Return(t) ==
  /\ call' = [call EXCEPT ![t] = Idle]
  /\ mutation' = IF mutation = t THEN None ELSE mutation

\* The client sends a put (v a payload) or a delete (v = None).  Besides what
\* happens at once, a copy of the request may be carried out late.
MaybeLate(k, v) ==
  \/ UNCHANGED <<late, delayed>>
  \/ /\ delayed < MaxLate
     /\ late' = late \cup {[key |-> k, val |-> v]}
     /\ delayed' = delayed + 1

\* What the client sees of a request that was carried out.
CarriedOut(k, v) ==
  /\ objects' = [objects EXCEPT ![k] = v]
  /\ disturbed' = disturbed \ {k}
  /\ MaybeLate(k, v)

\* The client gives up; the request was carried out or was not.
GivenUp(k, v) ==
  \/ CarriedOut(k, v)
  \/ UNCHANGED <<objects, disturbed>> /\ MaybeLate(k, v)

-----------------------------------------------------------------------------
(* lookup() and load() *)

LookupCall(t, k, op) ==
  /\ At(t, "idle") /\ Active(k, S3)
  /\ call' = [call EXCEPT ![t] = NewCall("head", op, k, None)]
  /\ UNCHANGED <<mdVars, netVars, mutation, faults>>

\* Where a call goes on when lookup has found the object.
Found(t) == IF call[t].op = "lookup" THEN Return(t)
                                     ELSE Go(t, "acquire") /\ UNCHANGED mutation

\* The optimistic HEAD: there, not there, or no answer.
Head(t) ==
  /\ At(t, "head")
  /\ \E a \in HeadAnswers(call[t].key) :
       CASE a = "there" -> Found(t)
         [] IsNotFound(a, FALSE) -> Go(t, "stale") /\ UNCHANGED mutation
         [] OTHER -> Return(t)
  /\ UNCHANGED <<mdVars, netVars, faults>>

\* Mutant: the row is deleted on the strength of the first HEAD.
HeadAgainSkipped(t) ==
  /\ At(t, "stale") /\ MayLock(t)
  /\ LET k == call[t].key IN
     /\ IF Active(k, S3) /\ ~Pinned(k, S3) THEN Delete(k, S3) ELSE UNCHANGED mdVars
     /\ IF call[t].op = "store" THEN Go(t, "put") /\ UNCHANGED mutation ELSE Return(t)
  /\ UNCHANGED <<netVars, faults>>

\* The second HEAD, under the lock.  A row without an object is deleted, unless
\* a reader holds it; a store then puts the object.
HeadAgain(t) ==
  /\ At(t, "stale") /\ MayLock(t)
  /\ LET k == call[t].key IN
     \E a \in HeadAnswers(k) :
       CASE Active(k, S3) /\ a = "there" -> Found(t) /\ UNCHANGED mdVars
         [] ~Active(k, S3) \/ IsNotFound(a, FALSE) ->
              /\ IF Active(k, S3) /\ ~Pinned(k, S3) THEN Delete(k, S3) ELSE UNCHANGED mdVars
              /\ IF call[t].op = "store" THEN Go(t, "put") /\ UNCHANGED mutation ELSE Return(t)
         [] OTHER -> Return(t) /\ UNCHANGED mdVars
  /\ UNCHANGED <<netVars, faults>>

\* Mutant: the row is looked up and not acquired.
LoadWithoutPin(t) ==
  /\ At(t, "acquire") /\ MayLock(t)
  /\ LET k == call[t].key IN
     \/ /\ Active(k, S3)
        /\ call' = [call EXCEPT ![t].pc = "get", ![t].want = blocks[k][S3].desc]
        /\ UNCHANGED mutation
     \/ ~Active(k, S3) /\ Return(t)
  /\ UNCHANGED <<mdVars, netVars, faults>>

LoadAcquire(t) ==
  /\ At(t, "acquire") /\ MayLock(t)
  /\ LET k == call[t].key IN
     \/ /\ Acquire(k, S3)
        /\ call' = [call EXCEPT ![t].pc = "get", ![t].want = blocks[k][S3].desc]
        /\ UNCHANGED mutation
     \/ ~Active(k, S3) /\ Return(t) /\ UNCHANGED mdVars
  /\ UNCHANGED <<netVars, faults>>

\* get_object: NoSuchKey, no answer or none with a body, or a body.
LoadGet(t) ==
  /\ At(t, "get")
  /\ LET o == objects[call[t].key] IN
     \/ /\ o = None
        /\ call' = [call EXCEPT ![t].pc = "release", ![t].verdict = "missing"]
     \/ call' = [call EXCEPT ![t].pc = "release", ![t].verdict = "unavailable"]
     \/ /\ o # None
        /\ call' = [call EXCEPT ![t].pc = "body", ![t].body = o]
  /\ UNCHANGED <<mdVars, netVars, mutation, faults>>

\* Reading the body touches nothing that is shared.
LoadRead(t) ==
  /\ At(t, "body")
  /\ \E r \in ReadBody(call[t].body) :
       call' = [call EXCEPT ![t].pc = IF r = "none" THEN "check" ELSE "release",
                            ![t].body = IF r = "none" THEN call[t].body ELSE None,
                            ![t].verdict = r]
  /\ UNCHANGED <<mdVars, netVars, mutation, faults>>

\* The checks of load(): key, length and checksum of the acquired location,
\* the checksum of the payload, and get_metadata() against the header.
LoadCheck(t) ==
  /\ At(t, "check")
  /\ LET k == call[t].key
         good == /\ call[t].body = call[t].want
                 /\ Active(k, S3) /\ blocks[k][S3].desc = call[t].want
     IN  call' = [call EXCEPT ![t].pc = "release", ![t].body = None,
                              ![t].verdict = IF good THEN "ok" ELSE "corrupt"]
  /\ UNCHANGED <<mdVars, netVars, mutation, faults>>

\* The load is over: what it held is gone, and the caller goes on.
GoOn(t, op, pc, v) ==
  /\ call' = [call EXCEPT ![t] = NewCall(pc, op, call[t].key, v)]
  /\ UNCHANGED mutation

\* The finally clause, and what follows it: a corrupt block is evicted; a
\* store that found its block already there publishes it again.
LoadRelease(t) ==
  /\ At(t, "release")
  /\ Release(call[t].key, S3)
  /\ CASE call[t].verdict = "corrupt" -> GoOn(t, "evict", "begin", None)
       [] call[t].verdict = "ok" /\ call[t].val = call[t].want
            -> GoOn(t, "store", "commit", call[t].val)
       [] OTHER -> Return(t)
  /\ UNCHANGED <<netVars, faults>>

-----------------------------------------------------------------------------
(* evict() *)

EvictCall(t, k) ==
  /\ At(t, "idle")
  /\ call' = [call EXCEPT ![t] = NewCall("begin", "evict", k, None)]
  /\ UNCHANGED <<mdVars, netVars, mutation, faults>>

EvictBegin(t) ==
  /\ At(t, "begin") /\ MayLock(t)
  /\ \/ BeginDelete(call[t].key, S3) /\ Go(t, "delete") /\ mutation' = t
     \/ ~CanBeginDelete(call[t].key, S3) /\ Return(t) /\ UNCHANGED mdVars
  /\ UNCHANGED <<netVars, faults>>

\* delete_object.  A failure leaves the tombstone; a bucket may also confirm a
\* delete that has no effect.
EvictDelete(t) ==
  /\ At(t, "delete")
  /\ \/ CarriedOut(call[t].key, None) /\ Go(t, "confirm") /\ UNCHANGED mutation
     \/ UNCHANGED netVars /\ Go(t, "confirm") /\ UNCHANGED mutation
     \/ GivenUp(call[t].key, None) /\ Return(t)
  /\ UNCHANGED <<mdVars, faults>>

\* The HEAD after the delete: the object must be gone.  An ambiguous 404 is
\* believed here: the bucket has just answered the delete.
EvictConfirm(t) ==
  /\ At(t, "confirm")
  /\ \E a \in HeadAnswers(call[t].key) :
       /\ a = "404" => objects[call[t].key] = None
       /\ IF IsNotFound(a, TRUE) THEN Go(t, "finish") /\ UNCHANGED mutation ELSE Return(t)
  /\ UNCHANGED <<mdVars, netVars, faults>>

EvictFinish(t) ==
  /\ At(t, "finish")
  /\ FinishDelete(call[t].key, S3)
  /\ Return(t)
  /\ UNCHANGED <<netVars, faults>>

-----------------------------------------------------------------------------
(* store() *)

\* Under the lock from the first check to the return.  A block that is there is
\* loaded to compare it.
StoreCall(t, k, d) ==
  /\ At(t, "idle") /\ mutation = None
  /\ ~Deleting(k, S3) /\ DescriptorFits(k, d)
  /\ mutation' = t
  /\ call' = [call EXCEPT ![t] = NewCall(IF Active(k, S3) THEN "head" ELSE "put", "store", k, d)]
  /\ UNCHANGED <<mdVars, netVars, faults>>

\* Mutant: a put that was given up is published all the same.
StorePutHopeful(t) ==
  /\ At(t, "put")
  /\ GivenUp(call[t].key, call[t].val) /\ Go(t, "commit") /\ UNCHANGED mutation
  /\ UNCHANGED <<mdVars, faults>>

\* put_object
StorePut(t) ==
  /\ At(t, "put")
  /\ \/ CarriedOut(call[t].key, call[t].val) /\ Go(t, "commit") /\ UNCHANGED mutation
     \/ GivenUp(call[t].key, call[t].val) /\ Return(t)
  /\ UNCHANGED <<mdVars, faults>>

\* upsert(), which may fail: the object is then an orphan.
StoreCommit(t) ==
  /\ At(t, "commit")
  /\ \/ Upsert(call[t].key, S3, call[t].val, call[t].key)
     \/ UNCHANGED mdVars
  /\ Return(t)
  /\ UNCHANGED <<netVars, faults>>

-----------------------------------------------------------------------------
(* Environment *)

\* A request nobody waits for any more is carried out.
LateRequest(r) ==
  /\ late' = late \ {r}
  /\ objects' = [objects EXCEPT ![r.key] = r.val]
  /\ disturbed' = disturbed \cup {r.key}
  /\ UNCHANGED <<mdVars, delayed, mutation, call, faults>>

\* An object disappears or is damaged behind the tier's back.
Fault(k) ==
  /\ faults < MaxFaults
  /\ objects[k] # None
  /\ \E o \in Damages \cup {None} : objects' = [objects EXCEPT ![k] = o]
  /\ disturbed' = disturbed \cup {k}
  /\ faults' = faults + 1
  /\ UNCHANGED <<mdVars, late, delayed, mutation, call>>

\* The process ends between any two steps; table and bucket survive.
Crash ==
  /\ Close
  /\ call' = [t \in Threads |-> Idle]
  /\ mutation' = None
  /\ UNCHANGED <<netVars, faults>>

Reopen ==
  /\ ownerEpoch < MaxOpens
  /\ Open
  /\ UNCHANGED s3Vars

-----------------------------------------------------------------------------
(* Specification *)

Calls(t) ==
  \E k \in Keys :
    \/ \E op \in {"lookup", "load"} : LookupCall(t, k, op)
    \/ EvictCall(t, k)
    \/ \E d \in Descriptors : StoreCall(t, k, d)

Step(t) ==
  \/ Head(t) \/ HeadAgain(t)
  \/ LoadAcquire(t) \/ LoadGet(t) \/ LoadRead(t) \/ LoadCheck(t) \/ LoadRelease(t)
  \/ EvictBegin(t) \/ EvictDelete(t) \/ EvictConfirm(t) \/ EvictFinish(t)
  \/ StorePut(t) \/ StoreCommit(t)

Next ==
  \/ \E t \in Threads : Calls(t) \/ Step(t)
  \/ \E r \in late : LateRequest(r)
  \/ \E k \in Keys : Fault(k)
  \/ Crash
  \/ Reopen

Spec == Init /\ [][Next]_vars

\* A thread in the middle of a call goes on when it can: the client's timeouts
\* end every request.  Nobody has to call, a thread that waits for the lock
\* need not ever get it, and no late request has to arrive.
FairSpec == Spec /\ \A t \in Threads : WF_vars(Step(t))

-----------------------------------------------------------------------------
(* Properties *)

\* A published block has its object in the bucket, with timeouts in puts and
\* deletes and a crash at any moment, unless a fault or a late request hit the
\* object after it was put (put_object before upsert, begin_delete before
\* delete_object, is_deleting before put_object).
PublishedHasObject ==
  \A k \in Keys : Active(k, S3) /\ k \notin disturbed
                   => objects[k] = blocks[k][S3].desc

\* A load that got its pin is sent its payload unless the bucket does not
\* answer or the object was disturbed: no eviction or overwriting store of
\* another thread gets in between, although GET holds no lock.  And only what
\* it was sent can make it call the block corrupt, which evicts it: a body that
\* fails half-way or cannot be closed never does (_read_body).
PinnedObjectStays ==
  [][\A t \in Threads :
       /\ call[t].pc = "get" /\ call'[t].pc = "body"
            => call'[t].body = call[t].want \/ call[t].key \in disturbed
       /\ call[t].pc = "get" /\ call'[t].verdict = "missing" => call[t].key \in disturbed
       /\ call[t].verdict # "corrupt" /\ call'[t].verdict = "corrupt"
            => call[t].body # call[t].want]_vars

\* The row of a block is given up only when the bucket has given up the object:
\* an eviction keeps its tombstone until a HEAD finds nothing, and a lookup
\* deletes a row only when it finds nothing under the lock.
RowOutlivesObject ==
  [][\A k \in Keys : blocks[k][S3] # NoRow /\ blocks'[k][S3] = NoRow
                      => objects[k] = None \/ k \in disturbed]_vars

\* No operation keeps the mutation lock although store() and evict() hold it
\* across network calls: the mutations of every tier would wait for ever.
LockIsReleased ==
  \A t \in Threads : (mutation = t) ~> (mutation # t)
=============================================================================
