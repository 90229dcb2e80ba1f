---------------------------- MODULE S3TierProofs ----------------------------
(***************************************************************************)
(* The bucket tier, for any number of keys, tiers, payloads, threads,      *)
(* openings, faults and late requests.                                     *)
(***************************************************************************)
EXTENDS S3Tier, TierFacts

\* The tier is one of the tiers; nothing is no thread, key or payload.
LEMMA S3Constants ==
  /\ S3 \in Tiers /\ Keys \subseteq Uris
  /\ None \notin Threads /\ None \notin Keys /\ None \notin Descriptors
  BY S3Assumption, Zenon

\* Nothing is no pin, and a bad record is no payload.
LEMMA S3Values ==
  /\ None \notin [key : Keys, tier : Tiers, desc : Descriptors]
  /\ "bad record" \notin Descriptors /\ IsFiniteSet(Threads)
  BY S3Assumption, Zenon

USE NoRowAssumption, S3Constants

Payloads == Descriptors \cup {None}

Contents == Payloads \cup Damages

PCs == {"idle", "head", "stale", "acquire", "get", "body", "check", "release", "begin",
        "delete", "confirm", "finish", "put", "commit"}

Ops == {"none", "lookup", "load", "evict", "store"}

Verdicts == {"none", "missing", "unavailable", "corrupt", "ok"}

CallRecords ==
  [pc : PCs, op : Ops, key : Keys \cup {None}, val : Payloads, want : Payloads,
   body : Contents, verdict : Verdicts]

\* The steps of a load that holds a pin.
Reading == {"get", "body", "check", "release"}

-----------------------------------------------------------------------------
(* The inductive invariant *)

WorldType ==
  /\ blocks \in Table /\ ownerEpoch \in Nat
  /\ objects \in [Keys -> Contents] /\ late \subseteq [key : Keys, val : Payloads]

TierType ==
  /\ WorldType
  /\ call \in [Threads -> CallRecords] /\ mutation \in Threads \cup {None}

\* A store has the lock, and with it the row: no tombstone, no other payload.
\* What it publishes is in the bucket.
StoreInv(t) ==
  /\ call[t].pc \in {"head", "stale", "acquire", "put", "commit"} \cup Reading
  /\ mutation = t /\ call[t].val \in Descriptors /\ ~Deleting(call[t].key, S3)
  /\ blocks[call[t].key][S3] # NoRow => blocks[call[t].key][S3].desc = call[t].val
  /\ call[t].pc \in Reading => Active(call[t].key, S3)
  /\ call[t].pc = "commit" /\ call[t].key \notin disturbed
       => objects[call[t].key] = call[t].val

\* An eviction has the lock and the tombstone, and ends when the object is gone.
EvictInv(t) ==
  /\ mutation = t /\ Deleting(call[t].key, S3)
  /\ call[t].pc = "finish" => objects[call[t].key] = None \/ call[t].key \in disturbed

CallInv(t) ==
  /\ call[t].pc # "idle" => open /\ call[t].key \in Keys
  /\ call[t].pc \in Reading => call[t].want \in Descriptors
  /\ call[t].op = "store" => StoreInv(t)
  /\ call[t].op # "store" => call[t].val = None /\ call[t].pc \notin {"put", "commit"}
  /\ call[t].pc \in {"delete", "confirm", "finish"} => EvictInv(t)

S3Inv == TierType /\ PublishedHasObject /\ \A t \in Threads : CallInv(t)

-----------------------------------------------------------------------------
(* The calls *)

\* The other calls stay as they are.
OthersStay(t) == \A u \in Threads \ {t} : call'[u] = call[u]

\* The call that is none.
LEMMA IdleIsCall == Idle \in CallRecords
<1>1. /\ None \in Payloads /\ None \in Contents /\ "none" \in Verdicts /\ "idle" \in PCs
      /\ "none" \in Ops /\ None \in Keys \cup {None}
  BY Zenon DEF Payloads, Contents, Verdicts, PCs, Ops
<1> QED
  BY <1>1, Zenon DEF Idle, NewCall, CallRecords

\* One call is replaced.
LEMMA ReplaceFacts ==
  ASSUME TierType, NEW t \in Threads, NEW STATE c, c \in CallRecords,
         call' = [call EXCEPT ![t] = c]
  PROVE  call' \in [Threads -> CallRecords] /\ OthersStay(t) /\ call'[t] = c
  BY Zenon DEF TierType, OthersStay

\* A call that begins is a call.
LEMMA NewCallIsCall ==
  ASSUME NEW pc \in PCs, NEW op \in Ops, NEW k \in Keys, NEW v \in Payloads
  PROVE  NewCall(pc, op, k, v) \in CallRecords
<1>1. None \in Payloads /\ None \in Contents /\ "none" \in Verdicts
  BY Zenon DEF Payloads, Contents, Verdicts
<1> QED
  BY <1>1, Zenon DEF NewCall, CallRecords

\* A call that ends leaves the others alone.
LEMMA ReturnFacts ==
  ASSUME TierType, NEW t \in Threads, Return(t)
  PROVE  /\ call' \in [Threads -> CallRecords] /\ OthersStay(t) /\ call'[t] = Idle
         /\ mutation' = IF mutation = t THEN None ELSE mutation
  BY IdleIsCall, ReplaceFacts, Zenon DEF Return

\* The fields of a call that a step of a load may set.
Moved(t, pc, want, body, verdict) ==
  call' = [call EXCEPT ![t] = [call[t] EXCEPT !.pc = pc, !.want = want, !.body = body,
                                              !.verdict = verdict]]

\* A call that goes on keeps its operation, key and payload.
LEMMA MovedFacts ==
  ASSUME TierType, NEW t \in Threads, NEW STATE pc, pc \in PCs, NEW STATE want, want \in Payloads,
         NEW STATE body, body \in Contents, NEW STATE verdict, verdict \in Verdicts,
         Moved(t, pc, want, body, verdict)
  PROVE  /\ call' \in [Threads -> CallRecords] /\ OthersStay(t)
         /\ call'[t].pc = pc /\ call'[t].op = call[t].op /\ call'[t].key = call[t].key
         /\ call'[t].val = call[t].val /\ call'[t].want = want
         /\ call'[t].body = body /\ call'[t].verdict = verdict
<1> DEFINE c == [call[t] EXCEPT !.pc = pc, !.want = want, !.body = body, !.verdict = verdict]
<1>1. call[t] \in CallRecords
  BY Zenon DEF TierType
<1>2. /\ c \in CallRecords
      /\ c.pc = pc /\ c.op = call[t].op /\ c.key = call[t].key /\ c.val = call[t].val
      /\ c.want = want /\ c.body = body /\ c.verdict = verdict
  BY <1>1, Zenon DEF CallRecords
<1>3. call' = [call EXCEPT ![t] = c]
  BY Zenon DEF Moved
<1> HIDE DEF c
<1> QED
  BY <1>2, <1>3, ReplaceFacts, Zenon

\* A step that only moves the program counter.
LEMMA GoMoves ==
  ASSUME TierType, NEW t \in Threads, NEW STATE pc, Go(t, pc)
  PROVE  Moved(t, pc, call[t].want, call[t].body, call[t].verdict)
<1>1. call[t] \in CallRecords /\ call \in [Threads -> CallRecords]
  BY Zenon DEF TierType
<1>2. [call[t] EXCEPT !.pc = pc]
        = [call[t] EXCEPT !.pc = pc, !.want = call[t].want, !.body = call[t].body,
                          !.verdict = call[t].verdict]
  BY <1>1, Zenon DEF CallRecords
<1>3. call' = [call EXCEPT ![t] = [call[t] EXCEPT !.pc = pc]]
  BY <1>1, Zenon DEF Go
<1> QED
  BY <1>2, <1>3, Zenon DEF Moved

\* So are the steps of a load, each with its fields.
LEMMA LoadMoves ==
  ASSUME TierType, NEW t \in Threads, NEW STATE pc, NEW STATE want, NEW STATE body, NEW STATE verdict
  PROVE  /\ call' = [call EXCEPT ![t].pc = pc, ![t].want = want]
              => Moved(t, pc, want, call[t].body, call[t].verdict)
         /\ call' = [call EXCEPT ![t].pc = pc, ![t].verdict = verdict]
              => Moved(t, pc, call[t].want, call[t].body, verdict)
         /\ call' = [call EXCEPT ![t].pc = pc, ![t].body = body]
              => Moved(t, pc, call[t].want, body, call[t].verdict)
         /\ call' = [call EXCEPT ![t].pc = pc, ![t].body = body, ![t].verdict = verdict]
              => Moved(t, pc, call[t].want, body, verdict)
<1> DEFINE c == call[t]
<1>1. c \in CallRecords /\ call \in [Threads -> CallRecords]
  BY Zenon DEF TierType
<1>2. /\ [c EXCEPT !.pc = pc, !.want = want]
           = [c EXCEPT !.pc = pc, !.want = want, !.body = c.body, !.verdict = c.verdict]
      /\ [c EXCEPT !.pc = pc, !.verdict = verdict]
           = [c EXCEPT !.pc = pc, !.want = c.want, !.body = c.body, !.verdict = verdict]
      /\ [c EXCEPT !.pc = pc, !.body = body]
           = [c EXCEPT !.pc = pc, !.want = c.want, !.body = body, !.verdict = c.verdict]
      /\ [c EXCEPT !.pc = pc, !.body = body, !.verdict = verdict]
           = [c EXCEPT !.pc = pc, !.want = c.want, !.body = body, !.verdict = verdict]
  BY <1>1, Zenon DEF CallRecords
<1>3. /\ [call EXCEPT ![t].pc = pc, ![t].want = want]
           = [call EXCEPT ![t] = [c EXCEPT !.pc = pc, !.want = want]]
      /\ [call EXCEPT ![t].pc = pc, ![t].verdict = verdict]
           = [call EXCEPT ![t] = [c EXCEPT !.pc = pc, !.verdict = verdict]]
      /\ [call EXCEPT ![t].pc = pc, ![t].body = body]
           = [call EXCEPT ![t] = [c EXCEPT !.pc = pc, !.body = body]]
      /\ [call EXCEPT ![t].pc = pc, ![t].body = body, ![t].verdict = verdict]
           = [call EXCEPT ![t] = [c EXCEPT !.pc = pc, !.body = body, !.verdict = verdict]]
  BY <1>1, Zenon
<1> QED
  BY <1>2, <1>3, Zenon DEF Moved

-----------------------------------------------------------------------------
(* What a step leaves alone *)

\* Rows keep their states and payloads, and objects change only when disturbed.
Quiet ==
  /\ RowsKept
  /\ \A k \in Keys : k \notin disturbed' => k \notin disturbed /\ objects'[k] = objects[k]

\* A step of thread t while another thread has the lock.
Apart(t) ==
  /\ OthersStay(t) /\ open' = open
  /\ mutation \notin {None, t} => mutation' = mutation /\ Quiet

\* What a quiet step keeps of a row and its object.
LEMMA QuietRow ==
  ASSUME Quiet, NEW k \in Keys
  PROVE  /\ Active(k, S3)' <=> Active(k, S3)
         /\ Deleting(k, S3)' <=> Deleting(k, S3)
         /\ blocks'[k][S3] = NoRow <=> blocks[k][S3] = NoRow
         /\ blocks[k][S3] # NoRow => blocks'[k][S3].desc = blocks[k][S3].desc
         /\ k \notin disturbed' => k \notin disturbed /\ objects'[k] = objects[k]
  BY Zenon DEF Quiet, RowsKept, Active, Deleting

\* A quiet step leaves the published blocks with their objects.
LEMMA QuietPublished ==
  ASSUME S3Inv, Quiet
  PROVE  PublishedHasObject'
<1> SUFFICES ASSUME NEW k \in Keys, Active(k, S3)', k \notin disturbed'
             PROVE  objects'[k] = blocks'[k][S3].desc
  BY Zenon DEF PublishedHasObject
<1>1. Active(k, S3) /\ k \notin disturbed /\ objects'[k] = objects[k]
  BY QuietRow, Zenon
<1>2. objects[k] = blocks[k][S3].desc
  BY <1>1, Zenon DEF S3Inv, PublishedHasObject
<1>3. blocks'[k][S3].desc = blocks[k][S3].desc
  BY <1>1, QuietRow, Zenon DEF Active
<1> QED
  BY <1>1, <1>2, <1>3, Zenon

\* A call that stands still during a quiet step.
LEMMA StillCall ==
  ASSUME NEW u \in Threads, CallInv(u), call'[u] = call[u], mutation' = mutation, open => open',
         Quiet
  PROVE  CallInv(u)'
<1> DEFINE k == call[u].key
<1>1. CASE k \in Keys
  <2>1. /\ Active(k, S3)' <=> Active(k, S3)
        /\ Deleting(k, S3)' <=> Deleting(k, S3)
        /\ blocks'[k][S3] = NoRow <=> blocks[k][S3] = NoRow
        /\ blocks[k][S3] # NoRow => blocks'[k][S3].desc = blocks[k][S3].desc
        /\ k \notin disturbed' => k \notin disturbed /\ objects'[k] = objects[k]
    BY <1>1, QuietRow, Zenon
  <2>2. StoreInv(u) => StoreInv(u)'
    BY <2>1, Zenon DEF StoreInv, Deleting, Active
  <2>3. EvictInv(u) => EvictInv(u)'
    BY <2>1, Zenon DEF EvictInv, Deleting
  <2> QED
    BY <2>2, <2>3, Zenon DEF CallInv
<1>2. CASE k \notin Keys
  <2>1. call[u].pc = "idle"
    BY <1>2, Zenon DEF CallInv
  <2>2. call[u].op # "store"
    BY <2>1, Zenon DEF CallInv, StoreInv, Reading
  <2> QED
    BY <2>1, <2>2, Zenon DEF CallInv, Reading
<1> QED
  BY <1>1, <1>2, Zenon

\* Nothing of another thread's call depends on the lock while t may have it.
LEMMA OtherCall ==
  ASSUME NEW t \in Threads, NEW u \in Threads, u # t, CallInv(u), Apart(t)
  PROVE  CallInv(u)'
<1>1. call'[u] = call[u] /\ open' = open
  BY Zenon DEF Apart, OthersStay
<1>2. CASE mutation \notin {None, t}
  <2>1. (open => open') /\ mutation' = mutation /\ Quiet
    BY <1>1, <1>2 DEF Apart
  <2> QED
    BY <1>1, <2>1, StillCall, Zenon
<1>3. CASE mutation \in {None, t}
  <2>1. mutation # u
    BY <1>3, Zenon
  <2>2. call[u].op # "store" /\ call[u].pc \notin {"delete", "confirm", "finish"}
    BY <2>1, Zenon DEF CallInv, StoreInv, EvictInv
  <2> QED
    BY <1>1, <2>2, Zenon DEF CallInv
<1> QED
  BY <1>2, <1>3, Zenon

\* What a step has to show to keep the invariant.
LEMMA Assemble ==
  ASSUME S3Inv, NEW t \in Threads, Apart(t), TierType', PublishedHasObject', CallInv(t)'
  PROVE  S3Inv'
<1>1. ASSUME NEW u \in Threads PROVE CallInv(u)'
  BY OtherCall, Zenon DEF S3Inv
<1> QED
  BY <1>1, Zenon DEF S3Inv

\* A step of the bucket, or of a client, that moves no call keeps the invariant.
LEMMA QuietKeeps ==
  ASSUME S3Inv, Quiet, call' = call, mutation' = mutation, open => open', TierType'
  PROVE  S3Inv'
<1>1. ASSUME NEW u \in Threads PROVE CallInv(u)'
  BY StillCall, Zenon DEF S3Inv
<1> QED
  BY <1>1, QuietPublished, Zenon DEF S3Inv

\* A call that is over relies on nothing.
LEMMA IdleFacts ==
  Idle.pc = "idle" /\ Idle.op = "none" /\ Idle.val = None /\ Idle.verdict = "none"
  BY Zenon DEF Idle, NewCall

\* A call that has returned.
LEMMA IdleCall ==
  ASSUME NEW t \in Threads, call'[t] = Idle
  PROVE  CallInv(t)'
<1>1. call'[t].pc = "idle" /\ call'[t].op = "none" /\ call'[t].val = None
  BY IdleFacts, Zenon
<1> QED
  BY <1>1, Zenon DEF CallInv, Reading

\* A call that goes on under the same guarantees.
LEMMA MovedCall ==
  ASSUME S3Inv, NEW t \in Threads, Quiet, mutation' = mutation, open' = open,
         call[t].pc # "idle",
         call'[t].pc \in {"stale", "acquire", "put"} \cup Reading,
         call'[t].op = call[t].op, call'[t].key = call[t].key, call'[t].val = call[t].val,
         call'[t].pc = "put" => call[t].op = "store",
         call'[t].pc \in Reading => /\ call'[t].want \in Descriptors
                                    /\ call[t].pc \in Reading \/ Active(call[t].key, S3)
  PROVE  CallInv(t)'
<1> DEFINE k == call[t].key
<1>1. CallInv(t) /\ k \in Keys /\ open
  BY Zenon DEF S3Inv, CallInv
<1>2. /\ Active(k, S3)' <=> Active(k, S3)
      /\ Deleting(k, S3)' <=> Deleting(k, S3)
      /\ blocks'[k][S3] = NoRow <=> blocks[k][S3] = NoRow
      /\ blocks[k][S3] # NoRow => blocks'[k][S3].desc = blocks[k][S3].desc
  BY <1>1, QuietRow, Zenon
<1>3. ASSUME call[t].op = "store" PROVE StoreInv(t)'
  <2>1. StoreInv(t)
    BY <1>1, <1>3, Zenon DEF CallInv
  <2>2. call'[t].pc # "commit"
    BY Zenon DEF Reading
  <2>3. call'[t].pc \in Reading => Active(k, S3)'
    BY <2>1, <1>2, Zenon DEF StoreInv
  <2>4. call'[t].pc \in {"head", "stale", "acquire", "put", "commit"} \cup Reading
    BY Zenon
  <2> QED
    BY <2>1, <2>2, <2>3, <2>4, <1>2, Zenon DEF StoreInv, Active, Deleting
<1>4. call'[t].pc \notin {"delete", "confirm", "finish", "commit", "idle"}
  BY Zenon DEF Reading
<1>5. call[t].op # "store" => call'[t].val = None /\ call'[t].pc # "put"
  BY <1>1, Zenon DEF CallInv
<1> QED
  BY <1>1, <1>3, <1>4, <1>5, Zenon DEF CallInv

-----------------------------------------------------------------------------
(* Steps of one kind *)

\* Neither the table nor the bucket is touched.
LEMMA Untouched ==
  ASSUME TierType, UNCHANGED <<mdVars, netVars>>
  PROVE  Quiet /\ WorldType' /\ open' = open
<1>1. UNCHANGED <<blocks, ownerEpoch, open, objects, late, disturbed>>
  BY Zenon DEF mdVars, netVars
<1> QED
  BY <1>1, Zenon DEF TierType, WorldType, Quiet, RowsKept

\* A call returns, in a quiet step or with the lock.
LEMMA ReturnKeeps ==
  ASSUME S3Inv, NEW t \in Threads, Return(t), open' = open, WorldType',
         Quiet \/ (mutation \in {None, t} /\ PublishedHasObject')
  PROVE  S3Inv'
<1>1. TierType /\ mutation \in Threads \cup {None}
  BY Zenon DEF S3Inv, TierType
<1>2. /\ call' \in [Threads -> CallRecords] /\ OthersStay(t) /\ call'[t] = Idle
      /\ mutation' = IF mutation = t THEN None ELSE mutation
  BY <1>1, ReturnFacts, Zenon
<1>3. TierType'
  BY <1>1, <1>2, Zenon DEF TierType
<1>4. Apart(t)
  BY <1>2, Zenon DEF Apart
<1>5. PublishedHasObject'
  BY QuietPublished, Zenon
<1>6. CallInv(t)'
  BY <1>2, IdleCall, Zenon
<1> QED
  BY <1>3, <1>4, <1>5, <1>6, Assemble, Zenon

\* A call goes on, in a quiet step that leaves the lock alone.
LEMMA MoveKeeps ==
  ASSUME S3Inv, NEW t \in Threads, Quiet, WorldType', mutation' = mutation, open' = open,
         NEW STATE pc, pc \in PCs, NEW STATE want, want \in Payloads,
         NEW STATE body, body \in Contents, NEW STATE verdict, verdict \in Verdicts,
         Moved(t, pc, want, body, verdict),
         call[t].pc # "idle", pc \in {"stale", "acquire", "put"} \cup Reading,
         pc = "put" => call[t].op = "store",
         pc \in Reading => /\ want \in Descriptors
                           /\ call[t].pc \in Reading \/ Active(call[t].key, S3)
  PROVE  S3Inv'
<1>1. TierType /\ mutation \in Threads \cup {None}
  BY Zenon DEF S3Inv, TierType
<1>2. /\ call' \in [Threads -> CallRecords] /\ OthersStay(t)
      /\ call'[t].pc = pc /\ call'[t].op = call[t].op /\ call'[t].key = call[t].key
      /\ call'[t].val = call[t].val /\ call'[t].want = want
  BY <1>1, MovedFacts
<1>3. TierType'
  BY <1>1, <1>2, Zenon DEF TierType
<1>4. Apart(t)
  BY <1>2, Zenon DEF Apart
<1>5. CallInv(t)'
  BY <1>2, MovedCall, Zenon
<1> QED
  BY <1>3, <1>4, <1>5, QuietPublished, Assemble, Zenon

\* A lookup, a load or an eviction starts.
LEMMA StartKeeps ==
  ASSUME S3Inv, NEW t \in Threads, NEW op \in {"lookup", "load", "evict"},
         NEW pc \in {"head", "begin"}, NEW STATE k, k \in Keys, open, open' = open,
         call' = [call EXCEPT ![t] = NewCall(pc, op, k, None)],
         mutation' = mutation, Quiet, WorldType'
  PROVE  S3Inv'
<1>1. TierType /\ mutation \in Threads \cup {None}
  BY Zenon DEF S3Inv, TierType
<1>2. op \in Ops /\ pc \in PCs /\ None \in Payloads
  BY Zenon DEF Ops, PCs, Payloads
<1> DEFINE c == NewCall(pc, op, k, None)
<1>3. c \in CallRecords
  BY <1>2, NewCallIsCall, Zenon
<1>4. c.pc = pc /\ c.op = op /\ c.key = k /\ c.val = None
  BY Zenon DEF NewCall
<1> HIDE DEF c
<1>5. call' \in [Threads -> CallRecords] /\ OthersStay(t) /\ call'[t] = c
  BY <1>1, <1>3, ReplaceFacts, Zenon DEF c
<1>6. TierType'
  BY <1>1, <1>5, Zenon DEF TierType
<1>7. Apart(t)
  BY <1>5, Zenon DEF Apart
<1>8. CallInv(t)'
  BY <1>4, <1>5, Zenon DEF CallInv, Reading
<1> QED
  BY <1>6, <1>7, <1>8, QuietPublished, Assemble, Zenon

-----------------------------------------------------------------------------
(* lookup() and load() *)

\* lookup() and load() begin.
LEMMA LookupCallStep ==
  ASSUME S3Inv, NEW t \in Threads, NEW k \in Keys, NEW op \in {"lookup", "load"},
         LookupCall(t, k, op)
  PROVE  S3Inv'
<1>1. TierType /\ UNCHANGED <<mdVars, netVars>> /\ mutation' = mutation
  BY Zenon DEF LookupCall, S3Inv
<1>2. open /\ call' = [call EXCEPT ![t] = NewCall("head", op, k, None)]
  BY Zenon DEF LookupCall, At
<1>3. Quiet /\ WorldType' /\ open' = open
  BY <1>1, Untouched, Zenon
<1> QED
  BY <1>1, <1>2, <1>3, StartKeeps, Zenon

\* evict() begins.
LEMMA EvictCallStep ==
  ASSUME S3Inv, NEW t \in Threads, NEW k \in Keys, EvictCall(t, k)
  PROVE  S3Inv'
<1>1. TierType /\ UNCHANGED <<mdVars, netVars>> /\ mutation' = mutation
  BY Zenon DEF EvictCall, S3Inv
<1>2. open /\ call' = [call EXCEPT ![t] = NewCall("begin", "evict", k, None)]
  BY Zenon DEF EvictCall, At
<1>3. Quiet /\ WorldType' /\ open' = open
  BY <1>1, Untouched, Zenon
<1> QED
  BY <1>1, <1>2, <1>3, StartKeeps, Zenon

\* The store takes the lock, of a row that has no other payload.
LEMMA StoreCallStep ==
  ASSUME S3Inv, NEW t \in Threads, NEW k \in Keys, NEW d \in Descriptors, StoreCall(t, k, d)
  PROVE  S3Inv'
<1>1. TierType /\ UNCHANGED <<mdVars, netVars>> /\ mutation = None /\ mutation' = t /\ open
      /\ ~Deleting(k, S3) /\ DescriptorFits(k, d)
  BY Zenon DEF StoreCall, S3Inv, At
<1> DEFINE c == NewCall(IF Active(k, S3) THEN "head" ELSE "put", "store", k, d)
<1>2. call' = [call EXCEPT ![t] = c]
  BY Zenon DEF StoreCall
<1>3. (IF Active(k, S3) THEN "head" ELSE "put") \in PCs /\ "store" \in Ops /\ d \in Payloads
  BY Zenon DEF PCs, Ops, Payloads
<1>4. c \in CallRecords
  BY <1>3, NewCallIsCall, Zenon
<1>5. c.pc \in {"head", "put"} /\ c.op = "store" /\ c.key = k /\ c.val = d
  BY Zenon DEF NewCall
<1> HIDE DEF c
<1>6. call' \in [Threads -> CallRecords] /\ OthersStay(t) /\ call'[t] = c
  BY <1>1, <1>2, <1>4, ReplaceFacts, Zenon
<1>7. Quiet /\ WorldType' /\ open' = open
  BY <1>1, Untouched, Zenon
<1>8. TierType' /\ Apart(t)
  BY <1>1, <1>6, <1>7, Zenon DEF TierType, Apart
<1>9. CallInv(t)'
  <2>1. ~Deleting(k, S3)' /\ (blocks'[k][S3] # NoRow => blocks'[k][S3].desc = d)
    <3>1. blocks[k][S3] # NoRow => blocks[k][S3].desc = d
      BY <1>1, Zenon DEF DescriptorFits
    <3> QED
      BY <1>1, <1>7, <3>1, QuietRow, Zenon
  <2>2. StoreInv(t)'
    BY <1>1, <1>5, <1>6, <2>1, Zenon DEF StoreInv, Deleting, Reading
  <2> QED
    BY <1>1, <1>5, <1>6, <1>7, <2>2, Zenon DEF CallInv, Reading
<1> QED
  BY <1>7, <1>8, <1>9, QuietPublished, Assemble, Zenon

\* The fields of a call have their types.
LEMMA FieldTypes ==
  ASSUME TierType, NEW t \in Threads
  PROVE  /\ call[t].pc \in PCs /\ call[t].op \in Ops /\ call[t].key \in Keys \cup {None}
         /\ call[t].val \in Payloads /\ call[t].want \in Payloads
         /\ call[t].body \in Contents /\ call[t].verdict \in Verdicts
<1>1. call[t] \in CallRecords
  BY Zenon DEF TierType
<1> QED
  BY <1>1, Zenon DEF CallRecords

\* A call goes on and nothing else happens.
LEMMA GoKeeps ==
  ASSUME S3Inv, NEW t \in Threads, Quiet, WorldType', mutation' = mutation, open' = open,
         call[t].pc # "idle", NEW pc \in {"stale", "acquire", "put"},
         pc = "put" => call[t].op = "store", Go(t, pc)
  PROVE  S3Inv'
<1>1. TierType
  BY Zenon DEF S3Inv
<1>2. Moved(t, pc, call[t].want, call[t].body, call[t].verdict)
  BY <1>1, GoMoves, Zenon
<1>3. pc \in PCs /\ pc \notin Reading
  BY Zenon DEF PCs, Reading
<1> QED
  BY <1>1, <1>2, <1>3, FieldTypes, MoveKeeps, Zenon

\* A call that has found its object.
LEMMA FoundKeeps ==
  ASSUME S3Inv, NEW t \in Threads, Quiet, WorldType', open' = open, call[t].pc # "idle", Found(t)
  PROVE  S3Inv'
<1>1. CASE Return(t)
  BY <1>1, ReturnKeeps, Zenon
<1>2. CASE Go(t, "acquire") /\ UNCHANGED mutation
  BY <1>2, GoKeeps, Zenon
<1> QED
  BY <1>1, <1>2, Zenon DEF Found

\* The HEAD of lookup().
LEMMA HeadStep ==
  ASSUME S3Inv, NEW t \in Threads, Head(t)
  PROVE  S3Inv'
<1>1. TierType /\ UNCHANGED <<mdVars, netVars>> /\ call[t].pc = "head"
  BY Zenon DEF Head, S3Inv, At
<1>2. Quiet /\ WorldType' /\ open' = open /\ call[t].pc # "idle"
  BY <1>1, Untouched, Zenon
<1>3. Found(t) \/ (Go(t, "stale") /\ UNCHANGED mutation) \/ Return(t)
  BY Zenon DEF Head
<1>4. CASE Found(t)
  BY <1>2, <1>4, FoundKeeps, Zenon
<1>5. CASE Go(t, "stale") /\ UNCHANGED mutation
  BY <1>2, <1>5, GoKeeps, Zenon
<1>6. CASE Return(t)
  BY <1>2, <1>6, ReturnKeeps, Zenon
<1> QED
  BY <1>3, <1>4, <1>5, <1>6, Zenon

\* A step that concerns one block.
LEMMA OneBlock ==
  ASSUME S3Inv, NEW k \in Keys, OthersKept(k, S3),
         \A j \in Keys \ {k} : j \notin disturbed' => j \notin disturbed /\ objects'[j] = objects[j],
         Active(k, S3)' /\ k \notin disturbed' => objects'[k] = blocks'[k][S3].desc
  PROVE  PublishedHasObject'
<1> SUFFICES ASSUME NEW j \in Keys, Active(j, S3)', j \notin disturbed'
             PROVE  objects'[j] = blocks'[j][S3].desc
  BY Zenon DEF PublishedHasObject
<1>1. CASE j = k
  BY <1>1, Zenon DEF Active
<1>2. CASE j # k
  <2>1. blocks'[j][S3] = blocks[j][S3]
    BY <1>2, Zenon DEF OthersKept
  <2>2. Active(j, S3) /\ j \notin disturbed /\ objects'[j] = objects[j]
    BY <1>2, <2>1, Zenon DEF Active
  <2> QED
    BY <2>1, <2>2, Zenon DEF S3Inv, PublishedHasObject
<1> QED
  BY <1>1, <1>2, Zenon

\* The row of a missing object is deleted; a store goes on to put the object.
LEMMA HeadAgainDeletes ==
  ASSUME S3Inv, NEW t \in Threads, call[t].pc = "stale", MayLock(t), Delete(call[t].key, S3),
         UNCHANGED netVars,
         IF call[t].op = "store" THEN Go(t, "put") /\ UNCHANGED mutation ELSE Return(t)
  PROVE  S3Inv'
<1>1. TierType /\ CallInv(t) /\ open /\ mutation \in Threads \cup {None} /\ WorldType
  BY Zenon DEF S3Inv, CallInv, TierType
<1>k. PICK k \in Keys : call[t].key = k
  BY Zenon DEF S3Inv, CallInv
<1>2. blocks \in Table /\ Delete(k, S3)
  BY <1>1, <1>k, Zenon DEF WorldType
<1>3. /\ blocks' \in Table /\ blocks'[k][S3] = NoRow /\ OthersKept(k, S3)
      /\ UNCHANGED <<ownerEpoch, open>>
  BY <1>1, <1>2, RemoveFacts, Zenon
<1>4. UNCHANGED <<objects, late, disturbed>>
  BY Zenon DEF netVars
<1>5. WorldType' /\ open' = open
  BY <1>1, <1>3, <1>4, Zenon DEF WorldType
<1>6. PublishedHasObject'
  <2>1. ~Active(k, S3)'
    BY <1>3, Zenon DEF Active
  <2> QED
    BY <1>1, <1>3, <1>4, <2>1, OneBlock, Zenon
<1>7. CASE Return(t)
  BY <1>5, <1>6, <1>7, ReturnKeeps, Zenon DEF MayLock
<1>8. CASE call[t].op = "store" /\ Go(t, "put") /\ UNCHANGED mutation
  <2>1. Moved(t, "put", call[t].want, call[t].body, call[t].verdict)
    BY <1>1, <1>8, GoMoves, Zenon
  <2>2. "put" \in PCs
    BY Zenon DEF PCs
  <2>3. /\ call' \in [Threads -> CallRecords] /\ OthersStay(t)
        /\ call'[t].pc = "put" /\ call'[t].op = "store" /\ call'[t].key = k
        /\ call'[t].val = call[t].val
    BY <1>1, <1>k, <1>8, <2>1, <2>2, FieldTypes, MovedFacts, Zenon
  <2>4. TierType' /\ Apart(t)
    BY <1>1, <1>5, <1>8, <2>3, Zenon DEF TierType, Apart, MayLock
  <2>5. StoreInv(t)
    BY <1>1, <1>8, Zenon DEF CallInv
  <2>6. StoreInv(t)'
    <3>1. "put" \notin Reading
      BY Zenon DEF Reading
    <3>2. ~Deleting(k, S3)'
      BY <1>3, Zenon DEF Deleting
    <3> QED
      BY <1>k, <1>3, <1>8, <2>3, <2>5, <3>1, <3>2, Zenon DEF StoreInv, Deleting
  <2>7. CallInv(t)'
    BY <1>1, <1>5, <2>3, <2>6, Zenon DEF CallInv, Reading
  <2> QED
    BY <1>6, <2>4, <2>7, Assemble, Zenon
<1> QED
  BY <1>7, <1>8, Zenon

\* The second HEAD, under the lock.
LEMMA HeadAgainStep ==
  ASSUME S3Inv, NEW t \in Threads, HeadAgain(t)
  PROVE  S3Inv'
<1> DEFINE k == call[t].key
<1>1. TierType /\ UNCHANGED netVars /\ call[t].pc = "stale" /\ MayLock(t)
  BY Zenon DEF HeadAgain, S3Inv, At
<1>2. \/ Found(t) /\ UNCHANGED mdVars
      \/ /\ Delete(k, S3) \/ UNCHANGED mdVars
         /\ IF call[t].op = "store" THEN Go(t, "put") /\ UNCHANGED mutation ELSE Return(t)
      \/ Return(t) /\ UNCHANGED mdVars
  BY Zenon DEF HeadAgain
<1>3. CASE UNCHANGED mdVars
  <2>1. Quiet /\ WorldType' /\ open' = open /\ call[t].pc # "idle"
    BY <1>1, <1>3, Untouched, Zenon
  <2>2. CASE Found(t)
    BY <2>1, <2>2, FoundKeeps, Zenon
  <2>3. CASE call[t].op = "store" /\ Go(t, "put") /\ UNCHANGED mutation
    BY <2>1, <2>3, GoKeeps, Zenon
  <2>4. CASE Return(t)
    BY <2>1, <2>4, ReturnKeeps, Zenon
  <2> QED
    BY <1>2, <2>2, <2>3, <2>4, Zenon
<1>4. CASE /\ Delete(k, S3)
           /\ IF call[t].op = "store" THEN Go(t, "put") /\ UNCHANGED mutation ELSE Return(t)
  BY <1>1, <1>4, HeadAgainDeletes, Zenon
<1> QED
  BY <1>2, <1>3, <1>4, Zenon

\* A pin is set or given back.
LEMMA PinQuiet ==
  ASSUME TierType, NEW k \in Keys, Acquire(k, S3) \/ Release(k, S3), UNCHANGED netVars
  PROVE  Quiet /\ WorldType' /\ open' = open
<1>1. blocks \in Table /\ ownerEpoch \in Nat /\ WorldType
  BY Zenon DEF TierType, WorldType
<1>2. blocks' \in Table /\ RowsKept /\ UNCHANGED <<ownerEpoch, open>>
  BY <1>1, PinFacts, Zenon
<1>3. UNCHANGED <<objects, late, disturbed>>
  BY Zenon DEF netVars
<1> QED
  BY <1>1, <1>2, <1>3, Zenon DEF WorldType, Quiet

\* load() pins its row, or finds it gone.
LEMMA LoadAcquireStep ==
  ASSUME S3Inv, NEW t \in Threads, LoadAcquire(t)
  PROVE  S3Inv'
<1>1. TierType /\ UNCHANGED netVars /\ call[t].pc = "acquire" /\ call[t].pc # "idle" /\ CallInv(t)
  BY Zenon DEF LoadAcquire, S3Inv, At
<1>2. PICK k \in Keys : call[t].key = k
  BY <1>1, Zenon DEF CallInv
<1>3. CASE /\ Acquire(k, S3)
           /\ call' = [call EXCEPT ![t].pc = "get", ![t].want = blocks[k][S3].desc]
           /\ UNCHANGED mutation
  <2>1. Quiet /\ WorldType' /\ open' = open
    BY <1>1, <1>3, PinQuiet, Zenon
  <2>2. Active(k, S3)
    BY <1>3, Zenon DEF Acquire
  <2>3. blocks[k][S3].desc \in Descriptors
    <3>1. blocks[k][S3] \in Row
      BY <1>1, <2>2 DEF TierType, WorldType, Table, Active
    <3> QED
      BY <3>1, Zenon DEF Row
  <2>4. Moved(t, "get", blocks[k][S3].desc, call[t].body, call[t].verdict)
    BY <1>1, <1>3, LoadMoves, Zenon
  <2>5. "get" \in PCs /\ "get" \in Reading /\ blocks[k][S3].desc \in Payloads
    BY <2>3, Zenon DEF PCs, Reading, Payloads
  <2> QED
    BY <1>1, <1>2, <1>3, <2>1, <2>2, <2>3, <2>4, <2>5, FieldTypes, MoveKeeps, Zenon
<1>4. CASE Return(t) /\ UNCHANGED mdVars
  BY <1>1, <1>4, Untouched, ReturnKeeps, Zenon
<1> QED
  BY <1>2, <1>3, <1>4, Zenon DEF LoadAcquire

\* A load goes on while it holds its pin.
LEMMA ReadKeeps ==
  ASSUME S3Inv, NEW t \in Threads, UNCHANGED <<mdVars, netVars, mutation>>,
         call[t].pc \in Reading,
         NEW pc \in Reading, NEW STATE body, body \in Contents, NEW STATE verdict, verdict \in Verdicts,
         Moved(t, pc, call[t].want, body, verdict)
  PROVE  S3Inv'
<1>1. TierType /\ CallInv(t) /\ mutation' = mutation
  BY Zenon DEF S3Inv
<1>2. Quiet /\ WorldType' /\ open' = open
  BY <1>1, Untouched, Zenon
<1>3. call[t].pc # "idle" /\ pc \in PCs /\ pc # "put" /\ call[t].want \in Descriptors
  BY <1>1, Zenon DEF Reading, PCs, CallInv
<1>4. call[t].want \in Payloads
  BY <1>3, Zenon DEF Payloads
<1> QED
  BY <1>1, <1>2, <1>3, <1>4, MoveKeeps, Zenon

\* The answer of the GET.
LEMMA LoadGetStep ==
  ASSUME S3Inv, NEW t \in Threads, LoadGet(t)
  PROVE  S3Inv'
<1>1. /\ TierType /\ UNCHANGED <<mdVars, netVars, mutation>> /\ call[t].pc \in Reading
      /\ CallInv(t) /\ call[t].key \in Keys
  BY Zenon DEF LoadGet, S3Inv, At, Reading, CallInv
<1> DEFINE o == objects[call[t].key]
<1>2. o \in Contents
  BY <1>1, Zenon DEF TierType, WorldType
<1>3. "release" \in Reading /\ "body" \in Reading /\ "missing" \in Verdicts /\ "unavailable" \in Verdicts
  BY Zenon DEF Reading, Verdicts
<1>4. call[t].body \in Contents /\ call[t].verdict \in Verdicts
  BY <1>1, FieldTypes, Zenon
<1>5. CASE call' = [call EXCEPT ![t].pc = "release", ![t].verdict = "missing"]
  <2>1. Moved(t, "release", call[t].want, call[t].body, "missing")
    BY <1>1, <1>5, LoadMoves, Zenon
  <2> QED
    BY <1>1, <1>3, <1>4, <2>1, ReadKeeps, Zenon
<1>6. CASE call' = [call EXCEPT ![t].pc = "release", ![t].verdict = "unavailable"]
  <2>1. Moved(t, "release", call[t].want, call[t].body, "unavailable")
    BY <1>1, <1>6, LoadMoves, Zenon
  <2> QED
    BY <1>1, <1>3, <1>4, <2>1, ReadKeeps, Zenon
<1>7. CASE call' = [call EXCEPT ![t].pc = "body", ![t].body = o]
  <2>1. Moved(t, "body", call[t].want, o, call[t].verdict)
    BY <1>1, <1>7, LoadMoves, Zenon
  <2> QED
    BY <1>1, <1>2, <1>3, <1>4, <2>1, ReadKeeps, Zenon
<1> QED
  BY <1>5, <1>6, <1>7, Zenon DEF LoadGet

\* The body is read, or breaks off.
LEMMA LoadReadStep ==
  ASSUME S3Inv, NEW t \in Threads, LoadRead(t)
  PROVE  S3Inv'
<1>1. TierType /\ UNCHANGED <<mdVars, netVars, mutation>> /\ call[t].pc \in Reading
  BY Zenon DEF LoadRead, S3Inv, At, Reading
<1>2. PICK r \in ReadBody(call[t].body) :
        call' = [call EXCEPT ![t].pc = IF r = "none" THEN "check" ELSE "release",
                             ![t].body = IF r = "none" THEN call[t].body ELSE None,
                             ![t].verdict = r]
  BY Zenon DEF LoadRead
<1> DEFINE pc == IF r = "none" THEN "check" ELSE "release"
           b == IF r = "none" THEN call[t].body ELSE None
<1>3. r \in Verdicts
  BY <1>2 DEF ReadBody, Verdicts
<1>4. pc \in Reading
  BY Zenon DEF Reading
<1>5. b \in Contents
  BY <1>1, FieldTypes, Zenon DEF Contents, Payloads
<1>6. call' = [call EXCEPT ![t].pc = pc, ![t].body = b, ![t].verdict = r]
  BY <1>2, Zenon
<1> HIDE DEF pc, b
<1>7. Moved(t, pc, call[t].want, b, r)
  BY <1>1, <1>6, LoadMoves, Zenon
<1> QED
  BY <1>1, <1>3, <1>4, <1>5, <1>7, ReadKeeps, Zenon

\* The body is compared with the row.
LEMMA LoadCheckStep ==
  ASSUME S3Inv, NEW t \in Threads, LoadCheck(t)
  PROVE  S3Inv'
<1>1. TierType /\ UNCHANGED <<mdVars, netVars, mutation>> /\ call[t].pc \in Reading
  BY Zenon DEF LoadCheck, S3Inv, At, Reading
<1>2. PICK v \in {"ok", "corrupt"} :
        call' = [call EXCEPT ![t].pc = "release", ![t].body = None, ![t].verdict = v]
  BY Zenon DEF LoadCheck
<1>3. Moved(t, "release", call[t].want, None, v)
  BY <1>1, <1>2, LoadMoves, Zenon
<1>4. "release" \in Reading /\ None \in Contents /\ v \in Verdicts
  BY Zenon DEF Reading, Contents, Payloads, Verdicts
<1> QED
  BY <1>1, <1>3, <1>4, ReadKeeps, Zenon

\* A store that found its block already there: the object is the published one.
LEMMA CommitKeeps ==
  ASSUME S3Inv, NEW t \in Threads, Quiet, WorldType', mutation' = mutation, open' = open,
         call[t].pc \in Reading, call[t].val \in Descriptors,
         call' = [call EXCEPT ![t] = NewCall("commit", "store", call[t].key, call[t].val)]
  PROVE  S3Inv'
<1>1. TierType /\ CallInv(t) /\ PublishedHasObject /\ open /\ mutation \in Threads \cup {None}
  BY Zenon DEF S3Inv, CallInv, Reading, TierType
<1>2. PICK k \in Keys : call[t].key = k
  BY <1>1, Zenon DEF CallInv, Reading
<1>3. PICK v \in Descriptors : call[t].val = v
  BY Zenon
<1>4. StoreInv(t)
  BY <1>1, <1>3, Zenon DEF CallInv
<1>5. mutation = t /\ Active(k, S3) /\ ~Deleting(k, S3) /\ blocks[k][S3].desc = v
  BY <1>2, <1>3, <1>4, Zenon DEF StoreInv, Active
<1>6. k \notin disturbed => objects[k] = v
  BY <1>1, <1>5, Zenon DEF PublishedHasObject
<1> DEFINE c == NewCall("commit", "store", k, v)
<1>7. "commit" \in PCs /\ "store" \in Ops /\ v \in Payloads
  BY Zenon DEF PCs, Ops, Payloads
<1>8. c \in CallRecords
  BY <1>7, NewCallIsCall, Zenon
<1>9. c.pc = "commit" /\ c.op = "store" /\ c.key = k /\ c.val = v
  BY Zenon DEF NewCall
<1> HIDE DEF c
<1>10. call' \in [Threads -> CallRecords] /\ OthersStay(t) /\ call'[t] = c
  BY <1>1, <1>2, <1>3, <1>8, ReplaceFacts, Zenon DEF c
<1>11. TierType' /\ Apart(t)
  BY <1>1, <1>10, Zenon DEF TierType, Apart
<1>12. CallInv(t)'
  <2>1. /\ ~Deleting(k, S3)' /\ (blocks'[k][S3] # NoRow => blocks'[k][S3].desc = v)
        /\ k \notin disturbed' => objects'[k] = v
    BY <1>5, <1>6, QuietRow, ZenonT(30)
  <2>2. StoreInv(t)'
    BY <1>5, <1>9, <1>10, <2>1, Zenon DEF StoreInv, Deleting, Reading
  <2> QED
    BY <1>1, <1>9, <1>10, <2>2, Zenon DEF CallInv, Reading
<1> QED
  BY <1>11, <1>12, QuietPublished, Assemble, Zenon

\* load() gives its pin back and goes on.
LEMMA LoadReleaseStep ==
  ASSUME S3Inv, NEW t \in Threads, LoadRelease(t)
  PROVE  S3Inv'
<1>1. TierType /\ UNCHANGED netVars /\ call[t].pc \in Reading /\ CallInv(t) /\ open
  BY Zenon DEF LoadRelease, S3Inv, At, Reading
<1>2. PICK k \in Keys : call[t].key = k
  BY <1>1, Zenon DEF CallInv, Reading
<1>3. Release(k, S3)
  BY <1>2, Zenon DEF LoadRelease
<1>4. Quiet /\ WorldType' /\ open' = open
  BY <1>1, <1>3, PinQuiet, Zenon
<1>5. CASE GoOn(t, "evict", "begin", None)
  <2>1. call' = [call EXCEPT ![t] = NewCall("begin", "evict", k, None)] /\ mutation' = mutation
    BY <1>2, <1>5, Zenon DEF GoOn
  <2> QED
    BY <1>1, <1>4, <2>1, StartKeeps, Zenon
<1>6. CASE call[t].val = call[t].want /\ GoOn(t, "store", "commit", call[t].val)
  <2>1. call[t].val \in Descriptors
    BY <1>1, <1>6, Zenon DEF CallInv
  <2>2. call' = [call EXCEPT ![t] = NewCall("commit", "store", call[t].key, call[t].val)]
        /\ mutation' = mutation
    BY <1>6, Zenon DEF GoOn
  <2> QED
    BY <1>1, <1>4, <2>1, <2>2, CommitKeeps, Zenon
<1>7. CASE Return(t)
  BY <1>4, <1>7, ReturnKeeps, Zenon
<1> QED
  BY <1>5, <1>6, <1>7, Zenon DEF LoadRelease

-----------------------------------------------------------------------------
(* evict() *)

\* A call goes on in an eviction, with the lock and the tombstone.
LEMMA EvictingKeeps ==
  ASSUME S3Inv, NEW t \in Threads, NEW k \in Keys, call[t].key = k, open, open' = open, WorldType',
         PublishedHasObject', mutation \in {None, t}, mutation' = t, Deleting(k, S3)',
         call[t].op # "store", NEW pc \in {"delete", "confirm", "finish"}, Go(t, pc),
         pc = "finish" => objects'[k] = None \/ k \in disturbed'
  PROVE  S3Inv'
<1>1. TierType /\ CallInv(t) /\ pc \in PCs /\ pc \notin Reading
  BY Zenon DEF S3Inv, PCs, Reading
<1>2. Moved(t, pc, call[t].want, call[t].body, call[t].verdict)
  BY <1>1, GoMoves, Zenon
<1>3. /\ call' \in [Threads -> CallRecords] /\ OthersStay(t)
      /\ call'[t].pc = pc /\ call'[t].op = call[t].op /\ call'[t].key = k
      /\ call'[t].val = call[t].val
  BY <1>1, <1>2, FieldTypes, MovedFacts, ZenonT(30)
<1>4. TierType' /\ Apart(t)
  BY <1>3, Zenon DEF TierType, Apart
<1>5. EvictInv(t)'
  BY <1>3, Zenon DEF EvictInv, Deleting
<1>6. call[t].val = None
  BY <1>1, Zenon DEF CallInv
<1>7. CallInv(t)'
  BY <1>1, <1>3, <1>5, <1>6, Zenon DEF CallInv
<1> QED
  BY <1>4, <1>7, Assemble, Zenon

\* evict() turns the row into a tombstone, or refuses.
LEMMA EvictBeginStep ==
  ASSUME S3Inv, NEW t \in Threads, EvictBegin(t)
  PROVE  S3Inv'
<1>1. /\ TierType /\ WorldType /\ UNCHANGED netVars /\ call[t].pc = "begin" /\ CallInv(t) /\ open
      /\ mutation \in {None, t}
  BY Zenon DEF EvictBegin, S3Inv, TierType, At, MayLock
<1>2. PICK k \in Keys : call[t].key = k
  BY <1>1, Zenon DEF CallInv
<1>3. CASE BeginDelete(k, S3) /\ Go(t, "delete") /\ mutation' = t
  <2>1. /\ blocks' \in Table /\ OthersKept(k, S3) /\ UNCHANGED <<ownerEpoch, open>>
        /\ blocks'[k][S3] # NoRow /\ blocks'[k][S3].state = "deleting"
    BY <1>1, <1>3, TombstoneFacts, Zenon DEF WorldType
  <2>2. UNCHANGED <<objects, late, disturbed>>
    BY <1>1, Zenon DEF netVars
  <2>3. WorldType' /\ Deleting(k, S3)' /\ ~Active(k, S3)'
    BY <1>1, <2>1, <2>2, Zenon DEF WorldType, Deleting, Active
  <2>4. PublishedHasObject'
    BY <2>1, <2>2, <2>3, OneBlock, ZenonT(30)
  <2>5. call[t].op # "store"
    BY <1>1, Zenon DEF CallInv, StoreInv, Reading
  <2> QED
    BY <1>1, <1>2, <1>3, <2>1, <2>3, <2>4, <2>5, EvictingKeeps, Zenon
<1>4. CASE Return(t) /\ UNCHANGED mdVars
  BY <1>1, <1>4, Untouched, ReturnKeeps, Zenon
<1> QED
  BY <1>2, <1>3, <1>4, Zenon DEF EvictBegin

\* A put or a delete of one object.
LEMMA RequestFacts ==
  ASSUME WorldType, NEW k \in Keys, NEW STATE v, v \in Payloads
  PROVE  /\ MaybeLate(k, v) => late' \subseteq [key : Keys, val : Payloads]
         /\ CarriedOut(k, v) =>
              /\ objects' \in [Keys -> Contents] /\ late' \subseteq [key : Keys, val : Payloads]
              /\ objects'[k] = v /\ k \notin disturbed'
              /\ \A j \in Keys \ {k} : /\ j \notin disturbed' => j \notin disturbed
                                       /\ objects'[j] = objects[j]
<1>1. /\ objects \in [Keys -> Contents] /\ late \subseteq [key : Keys, val : Payloads]
      /\ v \in Contents
  BY Zenon DEF WorldType, Contents
<1>2. MaybeLate(k, v) => late' \subseteq [key : Keys, val : Payloads]
  <2>1. [key |-> k, val |-> v] \in [key : Keys, val : Payloads]
    BY Zenon
  <2> HIDE DEF Payloads
  <2> QED
    BY <1>1, <2>1, Zenon DEF MaybeLate
<1>3. ASSUME CarriedOut(k, v)
      PROVE  /\ objects' \in [Keys -> Contents] /\ late' \subseteq [key : Keys, val : Payloads]
             /\ objects'[k] = v /\ k \notin disturbed'
             /\ \A j \in Keys \ {k} : /\ j \notin disturbed' => j \notin disturbed
                                      /\ objects'[j] = objects[j]
  <2>1. objects' = [objects EXCEPT ![k] = v] /\ disturbed' = disturbed \ {k} /\ MaybeLate(k, v)
    BY <1>3, Zenon DEF CarriedOut
  <2> QED
    BY <1>1, <1>2, <2>1, Zenon
<1> QED
  BY <1>2, <1>3, Zenon

\* A request for a block whose row does not contradict it, under the lock.
LEMMA RequestKeeps ==
  ASSUME S3Inv, NEW k \in Keys, NEW STATE v, v \in Payloads, CarriedOut(k, v), UNCHANGED mdVars,
         Active(k, S3) => blocks[k][S3].desc = v
  PROVE  WorldType' /\ open' = open /\ PublishedHasObject'
<1>1. WorldType /\ UNCHANGED <<blocks, ownerEpoch, open>>
  BY Zenon DEF S3Inv, TierType, mdVars
<1>2. /\ objects' \in [Keys -> Contents] /\ late' \subseteq [key : Keys, val : Payloads]
      /\ objects'[k] = v /\ k \notin disturbed'
      /\ \A j \in Keys \ {k} : /\ j \notin disturbed' => j \notin disturbed
                               /\ objects'[j] = objects[j]
  BY <1>1, RequestFacts, Zenon
<1>3. WorldType'
  BY <1>1, <1>2, Zenon DEF WorldType
<1>4. OthersKept(k, S3) /\ (Active(k, S3)' => blocks'[k][S3].desc = v)
  BY <1>1, Zenon DEF OthersKept, Active
<1>5. Active(k, S3)' /\ k \notin disturbed' => objects'[k] = blocks'[k][S3].desc
  BY <1>2, <1>4, Zenon
<1>6. PublishedHasObject'
  BY <1>2, <1>4, <1>5, OneBlock, Zenon
<1> QED
  BY <1>1, <1>3, <1>6, Zenon

\* The call gives up on a request.
LEMMA GivenUpKeeps ==
  ASSUME S3Inv, NEW t \in Threads, mutation = t, NEW k \in Keys, NEW STATE v, v \in Payloads,
         GivenUp(k, v), Return(t), UNCHANGED mdVars, Active(k, S3) => blocks[k][S3].desc = v
  PROVE  S3Inv'
<1>1. CASE CarriedOut(k, v)
  <2>1. WorldType' /\ open' = open /\ PublishedHasObject'
    BY <1>1, RequestKeeps, Zenon
  <2> QED
    BY <2>1, ReturnKeeps, Zenon
<1>2. CASE UNCHANGED <<objects, disturbed>> /\ MaybeLate(k, v)
  <2>1. WorldType /\ UNCHANGED <<blocks, ownerEpoch, open>>
    BY Zenon DEF S3Inv, TierType, mdVars
  <2>2. late' \subseteq [key : Keys, val : Payloads]
    BY <1>2, <2>1, RequestFacts, Zenon
  <2>3. WorldType' /\ Quiet /\ open' = open
    BY <1>2, <2>1, <2>2, Zenon DEF WorldType, Quiet, RowsKept
  <2> QED
    BY <2>3, ReturnKeeps, Zenon
<1> QED
  BY <1>1, <1>2, Zenon DEF GivenUp

\* What an eviction under way knows.
LEMMA Evicting ==
  ASSUME S3Inv, NEW t \in Threads, call[t].pc \in {"delete", "confirm", "finish"}
  PROVE  /\ TierType /\ WorldType /\ open /\ call[t].key \in Keys /\ call[t].op # "store" /\ EvictInv(t)
         /\ mutation = t /\ Deleting(call[t].key, S3) /\ ~Active(call[t].key, S3)
<1>1. CallInv(t) /\ TierType /\ WorldType
  BY Zenon DEF S3Inv, TierType
<1>2. call[t].pc # "idle" /\ ~StoreInv(t)
  BY Zenon DEF StoreInv, Reading
<1>3. EvictInv(t) /\ open /\ call[t].key \in Keys /\ call[t].op # "store"
  BY <1>1, <1>2, Zenon DEF CallInv
<1> QED
  BY <1>1, <1>3, Zenon DEF EvictInv, Deleting, Active

\* The DELETE, with every outcome.
LEMMA EvictDeleteStep ==
  ASSUME S3Inv, NEW t \in Threads, EvictDelete(t)
  PROVE  S3Inv'
<1>1. call[t].pc \in {"delete", "confirm", "finish"} /\ UNCHANGED mdVars
  BY Zenon DEF EvictDelete, At
<1>2. PICK k \in Keys : call[t].key = k
  BY <1>1, Evicting, Zenon
<1>3. /\ TierType /\ WorldType /\ open /\ call[t].op # "store" /\ mutation = t
      /\ Deleting(k, S3) /\ ~Active(k, S3)
  BY <1>1, <1>2, Evicting, Zenon
<1>4. Deleting(k, S3)' /\ open' = open /\ None \in Payloads
  BY <1>1, <1>3, Zenon DEF Deleting, mdVars, Payloads
<1>5. CASE CarriedOut(k, None) /\ Go(t, "confirm") /\ UNCHANGED mutation
  <2>1. WorldType' /\ PublishedHasObject'
    BY <1>1, <1>3, <1>4, <1>5, RequestKeeps, Zenon
  <2> QED
    BY <1>2, <1>3, <1>4, <1>5, <2>1, EvictingKeeps, Zenon
<1>6. CASE UNCHANGED netVars /\ Go(t, "confirm") /\ UNCHANGED mutation
  <2>1. WorldType' /\ PublishedHasObject'
    BY <1>1, <1>3, <1>6, Untouched, QuietPublished, Zenon
  <2> QED
    BY <1>2, <1>3, <1>4, <1>6, <2>1, EvictingKeeps, Zenon
<1>7. CASE GivenUp(k, None) /\ Return(t)
  BY <1>1, <1>3, <1>4, <1>7, GivenUpKeeps, Zenon
<1> QED
  BY <1>2, <1>5, <1>6, <1>7, Zenon DEF EvictDelete

\* The HEAD after the DELETE.
LEMMA EvictConfirmStep ==
  ASSUME S3Inv, NEW t \in Threads, EvictConfirm(t)
  PROVE  S3Inv'
<1>1. call[t].pc \in {"delete", "confirm", "finish"} /\ UNCHANGED <<mdVars, netVars>>
  BY Zenon DEF EvictConfirm, At
<1>2. PICK k \in Keys : call[t].key = k
  BY <1>1, Evicting, Zenon
<1>3. /\ TierType /\ WorldType /\ open /\ call[t].op # "store" /\ mutation = t
      /\ Deleting(k, S3) /\ ~Active(k, S3)
  BY <1>1, <1>2, Evicting, Zenon
<1>4. Deleting(k, S3)' /\ open' = open /\ objects' = objects
  BY <1>1, <1>3, Zenon DEF Deleting, mdVars, netVars
<1>5. WorldType' /\ Quiet
  BY <1>1, <1>3, Untouched, Zenon
<1>6. CASE objects[k] = None /\ Go(t, "finish") /\ UNCHANGED mutation
  <2>1. PublishedHasObject' /\ objects'[k] = None
    BY <1>4, <1>5, <1>6, QuietPublished, Zenon
  <2> QED
    BY <1>2, <1>3, <1>4, <1>5, <1>6, <2>1, EvictingKeeps, Zenon
<1>7. CASE Return(t)
  BY <1>4, <1>5, <1>7, ReturnKeeps, Zenon
<1>8. (objects[k] = None /\ Go(t, "finish") /\ UNCHANGED mutation) \/ Return(t)
  <2>1. PICK a \in HeadAnswers(k) :
          /\ a = "404" => objects[k] = None
          /\ IF IsNotFound(a, TRUE) THEN Go(t, "finish") /\ UNCHANGED mutation ELSE Return(t)
    BY <1>2, Zenon DEF EvictConfirm
  <2>2. a = "NoSuchKey" => objects[k] = None
    BY <2>1, Zenon DEF HeadAnswers
  <2> QED
    BY <2>1, <2>2, Zenon DEF IsNotFound
<1> QED
  BY <1>6, <1>7, <1>8, Zenon

\* evict() removes the tombstone.
LEMMA EvictFinishStep ==
  ASSUME S3Inv, NEW t \in Threads, EvictFinish(t)
  PROVE  S3Inv'
<1>1. call[t].pc \in {"delete", "confirm", "finish"} /\ UNCHANGED netVars /\ Return(t)
  BY Zenon DEF EvictFinish, At
<1>2. PICK k \in Keys : call[t].key = k
  BY <1>1, Evicting, Zenon
<1>3. WorldType /\ mutation = t
  BY <1>1, Evicting, Zenon
<1>4. FinishDelete(k, S3)
  BY <1>2, Zenon DEF EvictFinish
<1>5. /\ blocks' \in Table /\ blocks'[k][S3] = NoRow /\ OthersKept(k, S3)
      /\ UNCHANGED <<ownerEpoch, open>>
  BY <1>3, <1>4, RemoveFacts, Zenon DEF WorldType
<1>6. UNCHANGED <<objects, late, disturbed>>
  BY <1>1, Zenon DEF netVars
<1>7. WorldType' /\ open' = open /\ ~Active(k, S3)'
  BY <1>3, <1>5, <1>6, Zenon DEF WorldType, Active
<1>8. PublishedHasObject'
  BY <1>5, <1>6, <1>7, OneBlock, Zenon
<1> QED
  BY <1>1, <1>3, <1>7, <1>8, ReturnKeeps, Zenon

-----------------------------------------------------------------------------
(* store() *)

\* What a store that puts or publishes knows.
LEMMA Storing ==
  ASSUME S3Inv, NEW t \in Threads, call[t].pc \in {"put", "commit"}
  PROVE  /\ TierType /\ WorldType /\ open /\ call[t].key \in Keys /\ call[t].op = "store"
         /\ mutation = t /\ call[t].val \in Descriptors /\ ~Deleting(call[t].key, S3)
         /\ blocks[call[t].key][S3] # NoRow => blocks[call[t].key][S3].desc = call[t].val
         /\ call[t].pc = "commit" /\ call[t].key \notin disturbed
              => objects[call[t].key] = call[t].val
<1>1. CallInv(t) /\ TierType /\ WorldType
  BY Zenon DEF S3Inv, TierType
<1>2. call[t].pc # "idle"
  BY Zenon
<1>3. StoreInv(t) /\ open /\ call[t].key \in Keys /\ call[t].op = "store"
  BY <1>1, <1>2, Zenon DEF CallInv
<1> QED
  BY <1>1, <1>3, Zenon DEF StoreInv

\* The PUT, with every outcome.
LEMMA StorePutStep ==
  ASSUME S3Inv, NEW t \in Threads, StorePut(t)
  PROVE  S3Inv'
<1>1. call[t].pc \in {"put", "commit"} /\ UNCHANGED mdVars
  BY Zenon DEF StorePut, At
<1>2. PICK k \in Keys : call[t].key = k
  BY <1>1, Storing, Zenon
<1>3. PICK v \in Descriptors : call[t].val = v
  BY <1>1, Storing, Zenon
<1>4. /\ TierType /\ WorldType /\ open /\ call[t].op = "store" /\ mutation = t
      /\ ~Deleting(k, S3) /\ (blocks[k][S3] # NoRow => blocks[k][S3].desc = v)
  BY <1>1, <1>2, <1>3, Storing, Zenon
<1>5. v \in Payloads /\ (Active(k, S3) => blocks[k][S3].desc = v)
  BY <1>4, Zenon DEF Payloads, Active
<1>6. CASE CarriedOut(k, v) /\ Go(t, "commit") /\ UNCHANGED mutation
  <2>1. WorldType' /\ open' = open /\ PublishedHasObject'
    BY <1>1, <1>5, <1>6, RequestKeeps, Zenon
  <2>2. objects'[k] = v
    BY <1>4, <1>5, <1>6, RequestFacts, Zenon
  <2>3. Moved(t, "commit", call[t].want, call[t].body, call[t].verdict) /\ "commit" \in PCs
    BY <1>4, <1>6, GoMoves, Zenon DEF PCs
  <2>4. /\ call' \in [Threads -> CallRecords] /\ OthersStay(t)
        /\ call'[t].pc = "commit" /\ call'[t].op = "store" /\ call'[t].key = k
        /\ call'[t].val = v
    BY <1>2, <1>3, <1>4, <2>3, FieldTypes, MovedFacts, Zenon
  <2>5. TierType' /\ Apart(t)
    BY <1>4, <1>6, <2>1, <2>4, Zenon DEF TierType, Apart
  <2>6. StoreInv(t)'
    <3>1. blocks' = blocks /\ mutation' = t
      BY <1>1, <1>4, <1>6, Zenon DEF mdVars
    <3> QED
      BY <1>4, <2>2, <2>4, <3>1, Zenon DEF StoreInv, Deleting, Reading
  <2>7. CallInv(t)'
    BY <1>4, <2>1, <2>4, <2>6, Zenon DEF CallInv, Reading
  <2> QED
    BY <2>1, <2>5, <2>7, Assemble, Zenon
<1>7. CASE GivenUp(k, v) /\ Return(t)
  BY <1>1, <1>4, <1>5, <1>7, GivenUpKeeps, Zenon
<1> QED
  BY <1>2, <1>3, <1>6, <1>7, Zenon DEF StorePut

\* store() publishes, or fails.
LEMMA StoreCommitStep ==
  ASSUME S3Inv, NEW t \in Threads, StoreCommit(t)
  PROVE  S3Inv'
<1>1. call[t].pc \in {"put", "commit"} /\ call[t].pc = "commit" /\ UNCHANGED netVars /\ Return(t)
  BY Zenon DEF StoreCommit, At
<1>2. PICK k \in Keys : call[t].key = k
  BY <1>1, Storing, Zenon
<1>3. PICK v \in Descriptors : call[t].val = v
  BY <1>1, Storing, Zenon
<1>4. /\ TierType /\ WorldType /\ mutation = t /\ (k \notin disturbed => objects[k] = v)
  BY <1>1, <1>2, <1>3, Storing, Zenon
<1>5. CASE Upsert(k, S3, v, k)
  <2>1. /\ blocks' \in Table /\ OthersKept(k, S3) /\ UNCHANGED <<ownerEpoch, open>>
        /\ blocks'[k][S3].desc = v
    <3>1. k \in Uris
      BY Zenon
    <3> QED
      BY <1>4, <1>5, <3>1, UpsertFacts, Zenon DEF WorldType
  <2>2. UNCHANGED <<objects, late, disturbed>>
    BY <1>1, Zenon DEF netVars
  <2>3. WorldType' /\ open' = open
    BY <1>4, <2>1, <2>2, Zenon DEF WorldType
  <2>4. PublishedHasObject'
    BY <1>4, <2>1, <2>2, OneBlock, Zenon
  <2> QED
    BY <1>1, <1>4, <2>3, <2>4, ReturnKeeps, Zenon
<1>6. CASE UNCHANGED mdVars
  BY <1>1, <1>4, <1>6, Untouched, ReturnKeeps, Zenon
<1> QED
  BY <1>2, <1>3, <1>5, <1>6, Zenon DEF StoreCommit

-----------------------------------------------------------------------------
(* Environment *)

\* An object changes and is marked as disturbed.
LEMMA DisturbedKeeps ==
  ASSUME S3Inv, NEW k \in Keys, NEW STATE o, o \in Contents, objects' = [objects EXCEPT ![k] = o],
         disturbed' = disturbed \cup {k}, late' \subseteq late, UNCHANGED <<mdVars, mutation, call>>
  PROVE  S3Inv'
<1>1. TierType /\ WorldType /\ UNCHANGED <<blocks, ownerEpoch, open>>
  BY Zenon DEF S3Inv, TierType, mdVars
<1>2. WorldType'
  BY <1>1, Zenon DEF WorldType
<1>3. Quiet
  <2>1. RowsKept
    BY <1>1, Zenon DEF RowsKept
  <2>2. \A j \in Keys : j \notin disturbed' => j \notin disturbed /\ objects'[j] = objects[j]
    BY <1>1, Zenon DEF WorldType
  <2> QED
    BY <2>1, <2>2, Zenon DEF Quiet
<1>4. TierType' /\ (open => open')
  BY <1>1, <1>2, Zenon DEF TierType
<1> QED
  BY <1>3, <1>4, QuietKeeps, Zenon

\* A request that nobody waits for arrives.
LEMMA LateRequestStep ==
  ASSUME S3Inv, NEW r \in late, LateRequest(r)
  PROVE  S3Inv'
<1>1. late \subseteq [key : Keys, val : Payloads]
  BY Zenon DEF S3Inv, TierType, WorldType
<1>2. r.key \in Keys /\ r.val \in Contents
  BY <1>1, Zenon DEF Contents
<1>3. /\ objects' = [objects EXCEPT ![r.key] = r.val] /\ disturbed' = disturbed \cup {r.key}
      /\ late' \subseteq late /\ UNCHANGED <<mdVars, mutation, call>>
  BY Zenon DEF LateRequest
<1> QED
  BY <1>2, <1>3, DisturbedKeeps, Zenon

\* An object is lost or damaged.
LEMMA FaultStep ==
  ASSUME S3Inv, NEW k \in Keys, Fault(k)
  PROVE  S3Inv'
<1>1. PICK o \in Damages \cup {None} : objects' = [objects EXCEPT ![k] = o]
  BY Zenon DEF Fault
<1>2. o \in Contents
  BY Zenon DEF Contents, Payloads
<1>3. /\ disturbed' = disturbed \cup {k} /\ late' \subseteq late /\ UNCHANGED <<mdVars, mutation, call>>
  BY Zenon DEF Fault
<1> QED
  BY <1>1, <1>2, <1>3, DisturbedKeeps, Zenon

\* The process ends; its requests may still arrive.
LEMMA CrashStep ==
  ASSUME S3Inv, Crash
  PROVE  S3Inv'
<1>1. TierType /\ WorldType /\ UNCHANGED <<blocks, ownerEpoch, objects, late, disturbed>>
  BY Zenon DEF S3Inv, TierType, Crash, Close, netVars
<1>2. call' = [t \in Threads |-> Idle] /\ mutation' = None
  BY Zenon DEF Crash
<1>3. WorldType' /\ Quiet
  BY <1>1, Zenon DEF WorldType, Quiet, RowsKept
<1>4. TierType'
  BY <1>2, <1>3, IdleIsCall, Zenon DEF TierType
<1>5. ASSUME NEW t \in Threads PROVE CallInv(t)'
  <2>1. call'[t] = Idle
    BY <1>2, Zenon
  <2> QED
    BY <2>1, IdleCall, Zenon
<1> QED
  BY <1>3, <1>4, <1>5, QuietPublished, Zenon DEF S3Inv

\* A new owner opens the database.
LEMMA ReopenStep ==
  ASSUME S3Inv, Reopen
  PROVE  S3Inv'
<1>1. TierType /\ WorldType /\ Open /\ UNCHANGED <<objects, late, disturbed, mutation, call>>
  BY Zenon DEF S3Inv, TierType, Reopen, s3Vars
<1>2. blocks' \in Table /\ RowsKept /\ ownerEpoch' \in Nat
  BY <1>1, OpenFacts, Zenon DEF WorldType
<1>3. WorldType' /\ Quiet /\ (open => open')
  BY <1>1, <1>2, Zenon DEF WorldType, Quiet, Open
<1>4. TierType'
  BY <1>1, <1>3, Zenon DEF TierType
<1> QED
  BY <1>1, <1>3, <1>4, QuietKeeps, Zenon

-----------------------------------------------------------------------------
(* The invariant *)

\* The invariant holds initially.
LEMMA S3Start ==
  ASSUME Init
  PROVE  S3Inv
<1>1. blocks \in Table /\ ownerEpoch \in Nat /\ late \subseteq [key : Keys, val : Payloads]
  BY Zenon DEF Init, Table
<1>2. objects \in [Keys -> Contents]
  BY Zenon DEF Init, Contents, Payloads
<1>3. call \in [Threads -> CallRecords] /\ mutation \in Threads \cup {None}
  BY IdleIsCall, Zenon DEF Init
<1>4. TierType
  BY <1>1, <1>2, <1>3, Zenon DEF TierType, WorldType
<1>5. PublishedHasObject
  BY Zenon DEF Init, PublishedHasObject, Active
<1>6. ASSUME NEW t \in Threads PROVE CallInv(t)
  <2>1. call[t] = Idle
    BY Zenon DEF Init
  <2> QED
    BY <2>1, IdleFacts, Zenon DEF CallInv, Reading
<1> QED
  BY <1>4, <1>5, <1>6, Zenon DEF S3Inv

\* Every step keeps the invariant.
LEMMA S3Step ==
  ASSUME S3Inv, [Next]_vars
  PROVE  S3Inv'
<1>1. ASSUME NEW t \in Threads, Calls(t) PROVE S3Inv'
  BY <1>1, LookupCallStep, EvictCallStep, StoreCallStep, Zenon DEF Calls
<1>2. ASSUME NEW t \in Threads, Step(t) PROVE S3Inv'
  BY <1>2, HeadStep, HeadAgainStep, LoadAcquireStep, LoadGetStep, LoadReadStep, LoadCheckStep,
     LoadReleaseStep, EvictBeginStep, EvictDeleteStep, EvictConfirmStep, EvictFinishStep,
     StorePutStep, StoreCommitStep, Zenon DEF Step
<1>3. CASE UNCHANGED vars
  <2>1. TierType /\ UNCHANGED <<mdVars, netVars, mutation, call>>
    BY <1>3, Zenon DEF S3Inv, vars, s3Vars, netVars
  <2>2. Quiet /\ WorldType' /\ (open => open')
    BY <2>1, Untouched
  <2>3. TierType'
    BY <2>1, <2>2, Zenon DEF TierType
  <2> QED
    BY <2>1, <2>2, <2>3, QuietKeeps, Zenon
<1> QED
  BY <1>1, <1>2, <1>3, LateRequestStep, FaultStep, CrashStep, ReopenStep, Zenon DEF Next

\* The invariant holds always.
LEMMA S3Always == Spec => []S3Inv
  BY S3Start, S3Step, PTL DEF Spec

\* A published block has its object in the bucket, whatever the threads, the
\* timeouts of their puts and deletes and crashes do, unless a fault or a late
\* request hit the object after it was put (store, evict and lookup of
\* s3_tier.py under the mutation lock).
THEOREM PublishedObjectSafe == Spec => []PublishedHasObject
<1>1. S3Inv => PublishedHasObject
  BY Zenon DEF S3Inv
<1> QED
  BY <1>1, S3Always, PTL

-----------------------------------------------------------------------------
(* What the calls do to the table *)

\* One transaction on this tier's rows.  A row is given up when its object is
\* gone.
Transaction ==
  \/ UNCHANGED mdVars
  \/ \E k \in Keys : Delete(k, S3) /\ objects[k] = None
  \/ \E k \in Keys : BeginDelete(k, S3)
  \/ \E k \in Keys : FinishDelete(k, S3) /\ (objects[k] = None \/ k \in disturbed)
  \/ \E k \in Keys, d \in Descriptors : Upsert(k, S3, d, k)

\* The other calls stay, and this one holds no pin and has no verdict after the
\* step, unless it had one before.
Unpinned(t) ==
  /\ call'[t].pc \notin Reading /\ OthersStay(t)
  /\ call'[t].verdict = "none" \/ (call[t].pc \notin Reading /\ call'[t].verdict = call[t].verdict)

\* A call that goes on outside a load holds no pin.
LEMMA GoUnpinned ==
  ASSUME TierType, NEW t \in Threads, NEW pc \in PCs \ Reading, Go(t, pc), call[t].pc \notin Reading
  PROVE  Unpinned(t)
<1>1. Moved(t, pc, call[t].want, call[t].body, call[t].verdict)
  BY GoMoves, Zenon
<1> QED
  BY <1>1, FieldTypes, MovedFacts DEF Unpinned

\* A call that has ended holds no pin.
LEMMA ReturnUnpinned ==
  ASSUME TierType, NEW t \in Threads, Return(t)
  PROVE  Unpinned(t)
<1>1. Idle.pc \notin Reading /\ Idle.verdict = "none"
  BY IdleFacts, Zenon DEF Reading
<1> QED
  BY <1>1, ReturnFacts, Zenon DEF Unpinned

\* A call that begins holds no pin.
LEMMA NewUnpinned ==
  ASSUME TierType, NEW t \in Threads, NEW STATE pc, pc \in PCs \ Reading, NEW op \in Ops,
         NEW STATE k, k \in Keys, NEW STATE v, v \in Payloads,
         call' = [call EXCEPT ![t] = NewCall(pc, op, k, v)]
  PROVE  Unpinned(t)
<1> DEFINE c == NewCall(pc, op, k, v)
<1>1. c \in CallRecords
  BY NewCallIsCall, Zenon
<1>2. c.pc = pc /\ c.verdict = "none"
  BY Zenon DEF NewCall
<1> HIDE DEF c
<1>3. OthersStay(t) /\ call'[t] = c
  BY <1>1, ReplaceFacts, Zenon DEF c
<1> QED
  BY <1>2, <1>3, Zenon DEF Unpinned

\* A call that begins leaves the table alone.
LEMMA CallsTransaction ==
  ASSUME S3Inv, NEW t \in Threads, Calls(t)
  PROVE  Unpinned(t) /\ call[t].pc \notin Reading /\ UNCHANGED mdVars
<1>1. PICK k \in Keys : \/ \E op \in {"lookup", "load"} : LookupCall(t, k, op)
                         \/ EvictCall(t, k)
                         \/ \E d \in Descriptors : StoreCall(t, k, d)
  BY Zenon DEF Calls
<1>2. call[t].pc \notin Reading /\ UNCHANGED mdVars
  BY <1>1, Zenon DEF LookupCall, EvictCall, StoreCall, At, Reading
<1>3. None \in Payloads /\ Descriptors \subseteq Payloads /\ TierType
      /\ {"head", "begin", "put"} \subseteq PCs \ Reading
      /\ {"lookup", "load", "evict", "store"} \subseteq Ops
  BY Zenon DEF Payloads, S3Inv, PCs, Reading, Ops
<1>4. CASE \E op \in {"lookup", "load"} : LookupCall(t, k, op)
  <2>1. PICK op \in {"lookup", "load"} : LookupCall(t, k, op)
    BY <1>4, Zenon
  <2>2. call' = [call EXCEPT ![t] = NewCall("head", op, k, None)]
    BY <2>1, Zenon DEF LookupCall
  <2> QED
    BY <1>2, <1>3, <2>2, NewUnpinned, Zenon
<1>5. CASE EvictCall(t, k)
  <2>1. call' = [call EXCEPT ![t] = NewCall("begin", "evict", k, None)]
    BY <1>5, Zenon DEF EvictCall
  <2> QED
    BY <1>2, <1>3, <2>1, NewUnpinned, Zenon
<1>6. CASE \E d \in Descriptors : StoreCall(t, k, d)
  <2>1. PICK d \in Descriptors : StoreCall(t, k, d)
    BY <1>6, Zenon
  <2>2. PICK pc \in {"head", "put"} : call' = [call EXCEPT ![t] = NewCall(pc, "store", k, d)]
    BY <2>1, Zenon DEF StoreCall
  <2> QED
    BY <1>2, <1>3, <2>2, NewUnpinned, Zenon
<1> QED
  BY <1>1, <1>4, <1>5, <1>6, Zenon

\* The second HEAD deletes a row when it has found nothing.
LEMMA HeadAgainDeletesRow ==
  ASSUME NEW t \in Threads, HeadAgain(t), NEW k \in Keys, call[t].key = k
  PROVE  UNCHANGED mdVars \/ (Delete(k, S3) /\ objects[k] = None)
<1>1. PICK a \in HeadAnswers(k) :
        UNCHANGED mdVars \/ (IsNotFound(a, FALSE) /\ Delete(k, S3))
  BY Zenon DEF HeadAgain
<1>2. IsNotFound(a, FALSE) => objects[k] = None
  BY <1>1, Zenon DEF IsNotFound, HeadAnswers
<1> QED
  BY <1>1, <1>2, Zenon

\* The steps that hold no pin before or after.
PlainStep(t) ==
  \/ Head(t) \/ HeadAgain(t)
  \/ EvictBegin(t) \/ EvictDelete(t) \/ EvictConfirm(t) \/ EvictFinish(t)
  \/ StorePut(t) \/ StoreCommit(t)

\* The steps outside a load hold no pin.
LEMMA StepUnpinned ==
  ASSUME S3Inv, NEW t \in Threads, PlainStep(t)
  PROVE  Unpinned(t) /\ call[t].pc \notin Reading /\ call[t].pc # "idle"
<1>1. call[t].pc \notin Reading /\ call[t].pc # "idle"
  BY Zenon DEF PlainStep, Head, HeadAgain, EvictBegin, EvictDelete, EvictConfirm, EvictFinish,
         StorePut, StoreCommit, At, Reading
<1>2. {"stale", "acquire", "put", "commit", "delete", "confirm", "finish"} \subseteq PCs \ Reading
  BY Zenon DEF PCs, Reading
<1>3. \/ Return(t)
      \/ \E pc \in {"stale", "acquire", "put", "commit", "delete", "confirm", "finish"} : Go(t, pc)
  <2>1. CASE Head(t) \/ HeadAgain(t)
    BY <2>1, Zenon DEF Head, HeadAgain, Found
  <2>2. CASE EvictBegin(t) \/ EvictDelete(t)
    BY <2>2, Zenon DEF EvictBegin, EvictDelete
  <2>3. CASE EvictConfirm(t) \/ EvictFinish(t)
    BY <2>3, Zenon DEF EvictConfirm, EvictFinish
  <2>4. CASE StorePut(t) \/ StoreCommit(t)
    BY <2>4, Zenon DEF StorePut, StoreCommit
  <2> QED
    BY <2>1, <2>2, <2>3, <2>4, Zenon DEF PlainStep
<1>4. TierType
  BY Zenon DEF S3Inv
<1> QED
  BY <1>1, <1>2, <1>3, <1>4, GoUnpinned, ReturnUnpinned, Zenon

\* Each of them is one transaction at most.
LEMMA StepTransaction ==
  ASSUME S3Inv, NEW t \in Threads, PlainStep(t)
  PROVE  Transaction
<1>1. call[t].pc # "idle" /\ CallInv(t)
  BY StepUnpinned, Zenon DEF S3Inv
<1>2. PICK k \in Keys : call[t].key = k
  BY <1>1, Zenon DEF CallInv
<1>3. CASE Head(t) \/ EvictDelete(t) \/ EvictConfirm(t) \/ StorePut(t)
  BY <1>3, Zenon DEF Head, EvictDelete, EvictConfirm, StorePut, Transaction
<1>4. CASE HeadAgain(t)
  BY <1>2, <1>4, HeadAgainDeletesRow, Zenon DEF Transaction
<1>5. CASE EvictBegin(t)
  BY <1>2, <1>5, Zenon DEF EvictBegin, Transaction
<1>6. CASE EvictFinish(t)
  <2>1. call[t].pc = "finish" /\ FinishDelete(k, S3)
    BY <1>2, <1>6, Zenon DEF EvictFinish, At
  <2>2. objects[k] = None \/ k \in disturbed
    BY <1>2, <2>1, Evicting, Zenon DEF EvictInv
  <2> QED
    BY <2>1, <2>2, Zenon DEF Transaction
<1>7. CASE StoreCommit(t)
  <2>1. call[t].pc = "commit"
    BY <1>7, Zenon DEF StoreCommit, At
  <2>2. PICK v \in Descriptors : call[t].val = v
    BY <2>1, Storing, Zenon
  <2>3. Upsert(k, S3, v, k) \/ UNCHANGED mdVars
    BY <1>2, <1>7, <2>2, Zenon DEF StoreCommit
  <2> QED
    BY <2>3, Zenon DEF Transaction
<1> QED
  BY <1>3, <1>4, <1>5, <1>6, <1>7, Zenon DEF PlainStep

\* A load gets its pin, or finds the block gone.
LEMMA AcquireFacts ==
  ASSUME S3Inv, NEW t \in Threads, LoadAcquire(t), NEW k \in Keys, call[t].key = k
  PROVE  /\ call[t].pc \notin Reading /\ OthersStay(t)
         /\ \/ UNCHANGED mdVars /\ Unpinned(t)
            \/ /\ Acquire(k, S3) /\ blocks[k][S3].desc \in Descriptors
               /\ call'[t].pc = "get" /\ call'[t].key = k /\ call'[t].want = blocks[k][S3].desc
               /\ call'[t].verdict = call[t].verdict
<1>1. TierType /\ WorldType /\ call[t].pc \notin Reading
  BY Zenon DEF S3Inv, TierType, LoadAcquire, At, Reading
<1>2. CASE Return(t) /\ UNCHANGED mdVars
  BY <1>1, <1>2, ReturnUnpinned, Zenon DEF Unpinned
<1>3. CASE /\ Acquire(k, S3)
           /\ call' = [call EXCEPT ![t].pc = "get", ![t].want = blocks[k][S3].desc]
  <2>1. blocks[k][S3] \in Row
    BY <1>1, <1>3 DEF WorldType, Table, Acquire, Active
  <2>2. blocks[k][S3].desc \in Descriptors /\ blocks[k][S3].desc \in Payloads /\ "get" \in PCs
    BY <2>1, Zenon DEF Row, Payloads, PCs
  <2>3. Moved(t, "get", blocks[k][S3].desc, call[t].body, call[t].verdict)
    BY <1>1, <1>3, LoadMoves, ZenonT(30)
  <2>4. /\ OthersStay(t) /\ call'[t].pc = "get" /\ call'[t].key = k
        /\ call'[t].want = blocks[k][S3].desc /\ call'[t].verdict = call[t].verdict
    BY <1>1, <2>2, <2>3, FieldTypes, MovedFacts
  <2> QED
    BY <1>1, <1>3, <2>2, <2>4, Zenon
<1> QED
  BY <1>2, <1>3, Zenon DEF LoadAcquire

\* What the steps of a load with a pin do to its call.
LEMMA GetFacts ==
  ASSUME S3Inv, NEW t \in Threads, LoadGet(t)
  PROVE  /\ OthersStay(t) /\ call[t].pc = "get" /\ call'[t].pc \in Reading
         /\ call'[t].key = call[t].key /\ call'[t].want = call[t].want
         /\ \/ /\ call'[t].pc = "release" /\ call'[t].verdict \in {"missing", "unavailable"}
               /\ call'[t].verdict = "missing" => objects[call[t].key] = None
            \/ /\ call'[t].pc = "body" /\ call'[t].body = objects[call[t].key]
               /\ call'[t].verdict = call[t].verdict
<1>1. TierType /\ call[t].pc = "get" /\ call[t].key \in Keys
  BY Zenon DEF LoadGet, At, S3Inv, CallInv
<1> DEFINE o == objects[call[t].key]
<1>2. o \in Contents
  BY <1>1, Zenon DEF TierType, WorldType
<1>3. /\ "release" \in PCs /\ "body" \in PCs /\ "missing" \in Verdicts /\ "unavailable" \in Verdicts
      /\ "release" \in Reading /\ "body" \in Reading
  BY Zenon DEF PCs, Verdicts, Reading
<1>4. call[t].body \in Contents /\ call[t].verdict \in Verdicts /\ call[t].want \in Payloads
  BY <1>1, FieldTypes, Zenon
<1>5. CASE o = None /\ call' = [call EXCEPT ![t].pc = "release", ![t].verdict = "missing"]
  <2>1. Moved(t, "release", call[t].want, call[t].body, "missing")
    BY <1>1, <1>5, LoadMoves, ZenonT(30)
  <2>2. /\ OthersStay(t) /\ call'[t].pc = "release" /\ call'[t].key = call[t].key
        /\ call'[t].want = call[t].want /\ call'[t].verdict = "missing"
    BY <1>1, <1>3, <1>4, <2>1, MovedFacts
  <2> QED
    BY <1>1, <1>3, <1>5, <2>2, Zenon
<1>6. CASE call' = [call EXCEPT ![t].pc = "release", ![t].verdict = "unavailable"]
  <2>1. Moved(t, "release", call[t].want, call[t].body, "unavailable")
    BY <1>1, <1>6, LoadMoves, Zenon
  <2>2. /\ OthersStay(t) /\ call'[t].pc = "release" /\ call'[t].key = call[t].key
        /\ call'[t].want = call[t].want /\ call'[t].verdict = "unavailable"
    BY <1>1, <1>3, <1>4, <2>1, MovedFacts
  <2> QED
    BY <1>1, <1>3, <2>2, Zenon
<1>7. CASE call' = [call EXCEPT ![t].pc = "body", ![t].body = o]
  <2>1. Moved(t, "body", call[t].want, o, call[t].verdict)
    BY <1>1, <1>7, LoadMoves, Zenon
  <2>2. /\ OthersStay(t) /\ call'[t].pc = "body" /\ call'[t].key = call[t].key
        /\ call'[t].want = call[t].want /\ call'[t].body = o /\ call'[t].verdict = call[t].verdict
    BY <1>1, <1>2, <1>3, <1>4, <2>1, MovedFacts
  <2> QED
    BY <1>1, <1>3, <2>2, Zenon
<1> QED
  BY <1>5, <1>6, <1>7, Zenon DEF LoadGet

\* What reading the body does to the call.
LEMMA ReadFacts ==
  ASSUME S3Inv, NEW t \in Threads, LoadRead(t)
  PROVE  /\ OthersStay(t) /\ call[t].pc = "body" /\ call'[t].pc \in Reading
         /\ call'[t].key = call[t].key /\ call'[t].want = call[t].want
         /\ call'[t].verdict = "corrupt" => call[t].body = "bad record"
         /\ call'[t].verdict # "missing"
         /\ call'[t].verdict # "none" => call'[t].pc = "release"
<1>1. TierType /\ call[t].pc = "body"
  BY Zenon DEF LoadRead, S3Inv, At
<1>2. PICK r \in ReadBody(call[t].body) :
        call' = [call EXCEPT ![t].pc = IF r = "none" THEN "check" ELSE "release",
                             ![t].body = IF r = "none" THEN call[t].body ELSE None,
                             ![t].verdict = r]
  BY Zenon DEF LoadRead
<1> DEFINE pc == IF r = "none" THEN "check" ELSE "release"
           b == IF r = "none" THEN call[t].body ELSE None
<1>3. r \in Verdicts
  BY <1>2 DEF ReadBody, Verdicts
<1>9. r # "missing"
  BY <1>2 DEF ReadBody
<1>10. r = "corrupt" => call[t].body = "bad record"
  <2>1. r = "corrupt" => ~DecodeRecord(call[t].body)
    BY <1>2 DEF ReadBody
  <2> QED
    BY <2>1, Zenon DEF DecodeRecord
<1>4. pc \in Reading /\ pc \in PCs /\ pc \in {"check", "release"}
      /\ (r # "none" => pc = "release")
  BY Zenon DEF Reading, PCs
<1>5. b \in Contents /\ call[t].want \in Payloads
  BY <1>1, FieldTypes, Zenon DEF Contents, Payloads
<1>6. call' = [call EXCEPT ![t].pc = pc, ![t].body = b, ![t].verdict = r]
  BY <1>2, Zenon
<1> HIDE DEF pc, b
<1>7. Moved(t, pc, call[t].want, b, r)
  BY <1>1, <1>6, LoadMoves, Zenon
<1>8. /\ OthersStay(t) /\ call'[t].pc = pc /\ call'[t].key = call[t].key
      /\ call'[t].want = call[t].want /\ call'[t].verdict = r
  BY <1>1, <1>3, <1>4, <1>5, <1>7, MovedFacts
<1> QED
  BY <1>1, <1>4, <1>8, <1>9, <1>10, Zenon

\* What comparing the body does to the call.
LEMMA CheckFacts ==
  ASSUME S3Inv, NEW t \in Threads, LoadCheck(t)
  PROVE  /\ OthersStay(t) /\ call[t].pc = "check" /\ call'[t].pc \in Reading
         /\ call'[t].pc = "release"
         /\ call'[t].key = call[t].key /\ call'[t].want = call[t].want
         /\ call'[t].verdict \in {"ok", "corrupt"}
         /\ call'[t].verdict = "corrupt" =>
              \/ call[t].body # call[t].want \/ ~Active(call[t].key, S3)
              \/ blocks[call[t].key][S3].desc # call[t].want
<1>1. TierType /\ call[t].pc = "check"
  BY Zenon DEF LoadCheck, S3Inv, At
<1> DEFINE good == /\ call[t].body = call[t].want
                   /\ Active(call[t].key, S3) /\ blocks[call[t].key][S3].desc = call[t].want
           v == IF good THEN "ok" ELSE "corrupt"
<1>2. call' = [call EXCEPT ![t].pc = "release", ![t].body = None, ![t].verdict = v]
  BY Zenon DEF LoadCheck
<1>3. v \in {"ok", "corrupt"} /\ (v = "corrupt" => ~good)
  BY Zenon
<1> HIDE DEF v
<1>4. Moved(t, "release", call[t].want, None, v)
  BY <1>1, <1>2, LoadMoves, Zenon
<1>5. /\ "release" \in Reading /\ "release" \in PCs /\ None \in Contents /\ v \in Verdicts
      /\ call[t].want \in Payloads
  BY <1>1, <1>3, FieldTypes, Zenon DEF Reading, PCs, Contents, Payloads, Verdicts
<1>6. /\ OthersStay(t) /\ call'[t].pc = "release" /\ call'[t].key = call[t].key
      /\ call'[t].want = call[t].want /\ call'[t].verdict = v
  BY <1>1, <1>4, <1>5, MovedFacts
<1> QED
  BY <1>1, <1>3, <1>5, <1>6, Zenon

\* What the release does to table and call.
LEMMA ReleaseFacts ==
  ASSUME S3Inv, NEW t \in Threads, LoadRelease(t), NEW k \in Keys, call[t].key = k
  PROVE  /\ call[t].pc = "release" /\ Release(k, S3) /\ Unpinned(t)
<1>1. TierType /\ call[t].pc = "release" /\ Release(k, S3)
  BY Zenon DEF S3Inv, LoadRelease, At
<1>2. /\ "begin" \in PCs \ Reading /\ "commit" \in PCs \ Reading /\ "evict" \in Ops
      /\ "store" \in Ops /\ None \in Payloads /\ call[t].val \in Payloads
  BY <1>1, FieldTypes, Zenon DEF PCs, Reading, Ops, Payloads
<1>3. CASE GoOn(t, "evict", "begin", None)
  <2>1. call' = [call EXCEPT ![t] = NewCall("begin", "evict", k, None)]
    BY <1>3, Zenon DEF GoOn
  <2> QED
    BY <1>1, <1>2, <2>1, NewUnpinned, Zenon
<1>4. CASE GoOn(t, "store", "commit", call[t].val)
  <2>1. call' = [call EXCEPT ![t] = NewCall("commit", "store", k, call[t].val)]
    BY <1>4, Zenon DEF GoOn
  <2> QED
    BY <1>1, <1>2, <2>1, NewUnpinned, Zenon
<1>5. CASE Return(t)
  BY <1>1, <1>5, ReturnUnpinned, Zenon
<1> QED
  BY <1>3, <1>4, <1>5, Zenon DEF LoadRelease

-----------------------------------------------------------------------------
(* The end of a row *)

\* A transaction gives a row up only when the object is gone or disturbed.
LEMMA TransactionGivesUp ==
  ASSUME S3Inv, Transaction, NEW k \in Keys, blocks[k][S3] # NoRow, blocks'[k][S3] = NoRow
  PROVE  objects[k] = None \/ k \in disturbed
<1>1. blocks \in Table /\ ownerEpoch \in Nat
  BY Zenon DEF S3Inv, TierType, WorldType
<1>2. CASE \E j \in Keys : Delete(j, S3) /\ objects[j] = None
  <2>1. PICK j \in Keys : OthersKept(j, S3) /\ objects[j] = None
    BY <1>1, <1>2, RemoveFacts, Zenon
  <2> QED
    BY <2>1, Zenon DEF OthersKept
<1>3. CASE \E j \in Keys : BeginDelete(j, S3)
  <2>1. PICK j \in Keys : OthersKept(j, S3) /\ blocks'[j][S3] # NoRow
    BY <1>1, <1>3, TombstoneFacts, Zenon
  <2> QED
    BY <2>1, Zenon DEF OthersKept
<1>4. CASE \E j \in Keys : FinishDelete(j, S3) /\ (objects[j] = None \/ j \in disturbed)
  <2>1. PICK j \in Keys : OthersKept(j, S3) /\ (objects[j] = None \/ j \in disturbed)
    BY <1>1, <1>4, RemoveFacts, Zenon
  <2> QED
    BY <2>1, Zenon DEF OthersKept
<1>5. CASE \E j \in Keys, d \in Descriptors : Upsert(j, S3, d, j)
  <2>1. PICK j \in Keys, d \in Descriptors : Upsert(j, S3, d, j)
    BY <1>5, Zenon
  <2>2. OthersKept(j, S3) /\ blocks'[j][S3] # NoRow
    BY <1>1, <2>1, UpsertFacts, Zenon
  <2> QED
    BY <2>2, Zenon DEF OthersKept
<1>6. CASE UNCHANGED mdVars
  BY <1>6, Zenon DEF mdVars
<1> QED
  BY <1>2, <1>3, <1>4, <1>5, <1>6, Zenon DEF Transaction

\* A pin, its release and the steps between them.
LoadStep(t) ==
  LoadAcquire(t) \/ LoadGet(t) \/ LoadRead(t) \/ LoadCheck(t) \/ LoadRelease(t)

\* A load gives no row up.
LEMMA LoadKeepsRows ==
  ASSUME S3Inv, NEW t \in Threads, LoadStep(t)
  PROVE  RowsKept
<1>1. CallInv(t) /\ blocks \in Table /\ ownerEpoch \in Nat
  BY Zenon DEF S3Inv, TierType, WorldType
<1>2. call[t].pc # "idle"
  BY Zenon DEF LoadStep, LoadAcquire, LoadGet, LoadRead, LoadCheck, LoadRelease, At
<1>3. PICK k \in Keys : call[t].key = k
  BY <1>1, <1>2, Zenon DEF CallInv
<1>4. Acquire(k, S3) \/ Release(k, S3) \/ UNCHANGED mdVars
  BY <1>3, Zenon DEF LoadStep, LoadAcquire, LoadGet, LoadRead, LoadCheck, LoadRelease
<1>5. CASE UNCHANGED mdVars
  BY <1>5, Zenon DEF mdVars, RowsKept
<1> QED
  BY <1>1, <1>4, <1>5, PinFacts, Zenon

\* The row of a block is given up only when the bucket has given up the object
\* (evict() keeps its tombstone until a HEAD finds nothing, and lookup() deletes
\* a row only when it finds nothing under the lock).
THEOREM RowOutlives == Spec => RowOutlivesObject
<1> DEFINE Outlives == \A k \in Keys : blocks[k][S3] # NoRow /\ blocks'[k][S3] = NoRow
                                        => objects[k] = None \/ k \in disturbed
<1>1. S3Inv /\ [Next]_vars => [Outlives]_vars
  <2> SUFFICES ASSUME S3Inv, Next, NEW k \in Keys, blocks[k][S3] # NoRow, blocks'[k][S3] = NoRow
               PROVE  objects[k] = None \/ k \in disturbed
    BY Zenon DEF vars
  <2>1. ~RowsKept /\ ~UNCHANGED mdVars
    BY Zenon DEF RowsKept, mdVars
  <2>2. ASSUME NEW t \in Threads, Calls(t) PROVE FALSE
    BY <2>1, <2>2, CallsTransaction, Zenon
  <2>3. ASSUME NEW t \in Threads, Step(t) PROVE objects[k] = None \/ k \in disturbed
    <3>1. LoadStep(t) \/ PlainStep(t)
      BY <2>3, Zenon DEF Step, LoadStep, PlainStep
    <3> QED
      BY <2>1, <3>1, LoadKeepsRows, StepTransaction, TransactionGivesUp, Zenon
  <2>4. CASE (\E r \in late : LateRequest(r)) \/ (\E j \in Keys : Fault(j)) \/ Crash
    BY <2>1, <2>4, Zenon DEF LateRequest, Fault, Crash, Close, mdVars
  <2>5. CASE Reopen
    BY <2>1, <2>5, OpenFacts, Zenon DEF Reopen, S3Inv, TierType, WorldType
  <2> QED
    BY <2>2, <2>3, <2>4, <2>5, Zenon DEF Next
<1> QED
  BY <1>1, S3Always, PTL DEF Spec, RowOutlivesObject

-----------------------------------------------------------------------------
(* Verdicts *)

\* A step of a load that keeps its pin.
ReadStep(t) == LoadGet(t) \/ LoadRead(t) \/ LoadCheck(t)

\* The three steps of reading leave the table alone.
LEMMA ReadStepFacts ==
  ASSUME S3Inv, NEW t \in Threads, ReadStep(t)
  PROVE  /\ UNCHANGED mdVars /\ OthersStay(t)
         /\ call[t].pc \in Reading /\ call'[t].pc \in Reading
         /\ call'[t].key = call[t].key /\ call'[t].want = call[t].want
<1>1. UNCHANGED mdVars
  BY Zenon DEF ReadStep, LoadGet, LoadRead, LoadCheck
<1>2. {"get", "body", "check"} \subseteq Reading
  BY Zenon DEF Reading
<1> QED
  BY <1>1, <1>2, GetFacts, ReadFacts, CheckFacts, Zenon DEF ReadStep

\* A call has a verdict only on its way to the release.
VerdictInv == \A t \in Threads : call[t].pc # "release" => call[t].verdict = "none"

\* Every step keeps it so.
LEMMA VerdictStep ==
  ASSUME S3Inv, VerdictInv, [Next]_vars
  PROVE  VerdictInv'
<1>1. ASSUME NEW t \in Threads, Unpinned(t) PROVE VerdictInv'
  <2>1. "release" \in Reading
    BY Zenon DEF Reading
  <2> QED
    BY <1>1, <2>1, Zenon DEF Unpinned, OthersStay, VerdictInv
<1>2. ASSUME NEW t \in Threads, Calls(t) PROVE VerdictInv'
  BY <1>1, <1>2, CallsTransaction, Zenon
<1>3. ASSUME NEW t \in Threads, PlainStep(t) PROVE VerdictInv'
  BY <1>1, <1>3, StepUnpinned, Zenon
<1>4. ASSUME NEW t \in Threads, LoadAcquire(t) \/ LoadRelease(t) PROVE VerdictInv'
  <2>1. call[t].pc \in {"acquire", "release"} /\ CallInv(t)
    BY <1>4, Zenon DEF LoadAcquire, LoadRelease, At, S3Inv
  <2>2. PICK k \in Keys : call[t].key = k
    BY <2>1, Zenon DEF CallInv
  <2>3. CASE Unpinned(t)
    BY <1>1, <2>3, Zenon
  <2>4. CASE LoadAcquire(t) /\ ~Unpinned(t)
    <3>1. call[t].pc = "acquire"
      BY <2>4, Zenon DEF LoadAcquire, At
    <3>2. OthersStay(t) /\ call'[t].verdict = call[t].verdict
      BY <2>2, <2>4, AcquireFacts, Zenon
    <3> QED
      BY <3>1, <3>2, Zenon DEF VerdictInv, OthersStay
  <2> QED
    BY <1>4, <2>2, <2>3, <2>4, ReleaseFacts, Zenon
<1>5. ASSUME NEW t \in Threads, ReadStep(t) PROVE VerdictInv'
  <2>1. OthersStay(t)
    BY <1>5, ReadStepFacts, Zenon
  <2>2. call'[t].pc # "release" => call'[t].verdict = "none"
    <3>1. CASE LoadGet(t)
      BY <3>1, GetFacts, Zenon DEF VerdictInv
    <3>2. CASE LoadRead(t) \/ LoadCheck(t)
      BY <3>2, ReadFacts, CheckFacts, Zenon
    <3> QED
      BY <1>5, <3>1, <3>2, Zenon DEF ReadStep
  <2> QED
    BY <2>1, <2>2, Zenon DEF VerdictInv, OthersStay
<1>6. CASE UNCHANGED call
  BY <1>6, Zenon DEF VerdictInv
<1>7. CASE Crash
  BY <1>7, IdleFacts, Zenon DEF Crash, VerdictInv
<1>8. CASE \E t \in Threads : Step(t)
  BY <1>3, <1>4, <1>5, <1>8, Zenon DEF Step, PlainStep, ReadStep
<1> QED
  BY <1>2, <1>6, <1>7, <1>8, Zenon DEF Next, LateRequest, Fault, Reopen, vars, s3Vars

\* It is always so.
LEMMA VerdictAlways == Spec => []VerdictInv
<1>1. Init => VerdictInv
  BY IdleFacts, Zenon DEF Init, VerdictInv
<1> QED
  BY <1>1, VerdictStep, S3Always, PTL DEF Spec

-----------------------------------------------------------------------------
(* What a step does to one call *)

\* What a step can do to the call of a thread.
LEMMA CallMoves ==
  ASSUME S3Inv, Next, NEW t \in Threads
  PROVE  \/ call'[t] = call[t] \/ call'[t] = Idle
         \/ Unpinned(t)
         \/ ReadStep(t)
         \/ call[t].pc \notin Reading /\ call'[t].verdict = call[t].verdict
<1>1. ASSUME NEW u \in Threads, OthersStay(u), u # t PROVE call'[t] = call[t]
  BY <1>1, Zenon DEF OthersStay
<1>2. ASSUME NEW u \in Threads, Calls(u) PROVE Unpinned(u)
  BY <1>2, CallsTransaction, Zenon
<1>3. ASSUME NEW u \in Threads, PlainStep(u) PROVE Unpinned(u)
  BY <1>3, StepUnpinned, Zenon
<1>4. ASSUME NEW u \in Threads, LoadAcquire(u) \/ LoadRelease(u)
      PROVE  /\ OthersStay(u)
             /\ Unpinned(u) \/ (call[u].pc \notin Reading /\ call'[u].verdict = call[u].verdict)
  <2>1. call[u].pc # "idle" /\ CallInv(u)
    BY <1>4, Zenon DEF LoadAcquire, LoadRelease, At, S3Inv
  <2>2. PICK k \in Keys : call[u].key = k
    BY <2>1, Zenon DEF CallInv
  <2> QED
    BY <1>4, <2>2, AcquireFacts, ReleaseFacts, Zenon DEF Unpinned
<1>5. ASSUME NEW u \in Threads, ReadStep(u) PROVE OthersStay(u)
  BY <1>5, ReadStepFacts, Zenon
<1>6. ASSUME NEW u \in Threads, Calls(u) \/ Step(u)
      PROVE  \/ call'[t] = call[t] \/ Unpinned(t) \/ ReadStep(t)
             \/ call[t].pc \notin Reading /\ call'[t].verdict = call[t].verdict
  <2>1. \/ Calls(u) \/ PlainStep(u) \/ ReadStep(u) \/ LoadAcquire(u) \/ LoadRelease(u)
    BY <1>6, Zenon DEF Step, PlainStep, ReadStep
  <2>2. OthersStay(u)
    BY <1>2, <1>3, <1>4, <1>5, <2>1, Zenon DEF Unpinned
  <2>3. CASE u # t
    BY <1>1, <2>2, <2>3, Zenon
  <2>4. CASE u = t
    BY <1>2, <1>3, <1>4, <2>1, <2>4, Zenon
  <2> QED
    BY <2>3, <2>4, Zenon
<1>7. CASE (\E r \in late : LateRequest(r)) \/ (\E k \in Keys : Fault(k)) \/ Reopen
  BY <1>7, Zenon DEF LateRequest, Fault, Reopen, s3Vars
<1>8. CASE Crash
  BY <1>8, Zenon DEF Crash
<1> QED
  BY <1>6, <1>7, <1>8, Zenon DEF Next

-----------------------------------------------------------------------------
(* What a step does to the pins *)

\* The row that each thread has pinned.
Held ==
  [t \in Threads |-> IF call[t].pc \in Reading
                     THEN [key |-> call[t].key, tier |-> S3, desc |-> call[t].want]
                     ELSE None]

\* The pin of a load, as a record of MetadataClients.
LEMMA HoldFacts ==
  ASSUME NEW k \in Keys, NEW d \in Descriptors
  PROVE  /\ [key |-> k, tier |-> S3, desc |-> d] # None
         /\ [key |-> k, tier |-> S3, desc |-> d].key = k
         /\ [key |-> k, tier |-> S3, desc |-> d].tier = S3
         /\ [key |-> k, tier |-> S3, desc |-> d].desc = d
<1>1. [key |-> k, tier |-> S3, desc |-> d] \in [key : Keys, tier : Tiers, desc : Descriptors]
  BY Zenon
<1> QED
  BY <1>1, S3Values, Zenon

\* The pin of a thread that reads the bucket.
LEMMA HeldFacts ==
  ASSUME S3Inv, NEW t \in Threads, call[t].pc \in Reading
  PROVE  /\ call[t].key \in Keys /\ call[t].want \in Descriptors
         /\ Held[t] # None /\ Held[t].key = call[t].key /\ Held[t].tier = S3
         /\ Held[t].desc = call[t].want
<1>1. CallInv(t) /\ call[t].pc # "idle"
  BY Zenon DEF S3Inv, Reading
<1>2. PICK k \in Keys, d \in Descriptors : call[t].key = k /\ call[t].want = d
  BY <1>1, Zenon DEF CallInv
<1>3. Held[t] = [key |-> k, tier |-> S3, desc |-> d]
  BY <1>2, ZenonT(30) DEF Held
<1>4. Held[t] # None /\ Held[t].key = k /\ Held[t].tier = S3 /\ Held[t].desc = d
  BY <1>3, HoldFacts, SMTT(30)
<1> QED
  BY <1>2, <1>4, Zenon

\* A thread that holds no pin before and after keeps the pins as they are.
LEMMA HeldKept ==
  ASSUME NEW t \in Threads, call'[t].pc \notin Reading, OthersStay(t), call[t].pc \notin Reading
  PROVE  Held' = Held
<1>1. \A u \in Threads : u # t => call'[u] = call[u]
  BY Zenon DEF OthersStay
<1> QED
  BY <1>1, Zenon DEF Held

PinsStay == Transaction /\ Held' = Held

PinTaken(t, k) ==
  /\ Acquire(k, S3) /\ Held[t] = None
  /\ Held' = [Held EXCEPT ![t] = [key |-> k, tier |-> S3, desc |-> blocks[k][S3].desc]]

PinGiven(t, k) ==
  /\ Release(k, S3) /\ Held[t] # None /\ Held[t].key = k /\ Held[t].tier = S3
  /\ Held' = [Held EXCEPT ![t] = None]

\* A load takes its pin when acquire() lets it.
LEMMA AcquirePins ==
  ASSUME S3Inv, NEW t \in Threads, LoadAcquire(t)
  PROVE  PinsStay \/ \E k \in Keys : PinTaken(t, k)
<1>1. call[t].pc # "idle" /\ CallInv(t)
  BY Zenon DEF LoadAcquire, At, S3Inv
<1>2. PICK k \in Keys : call[t].key = k
  BY <1>1, Zenon DEF CallInv
<1>3. call[t].pc \notin Reading /\ OthersStay(t)
  BY <1>2, AcquireFacts, Zenon
<1>4. CASE UNCHANGED mdVars /\ Unpinned(t)
  BY <1>3, <1>4, HeldKept, Zenon DEF PinsStay, Transaction, Unpinned
<1>5. CASE /\ Acquire(k, S3)
           /\ call'[t].pc = "get" /\ call'[t].key = k /\ call'[t].want = blocks[k][S3].desc
  <2>1. Held[t] = None /\ "get" \in Reading
    BY <1>3, Zenon DEF Held, Reading
  <2>2. \A u \in Threads : u # t => call'[u] = call[u]
    BY <1>3, Zenon DEF OthersStay
  <2>3. Held' = [Held EXCEPT ![t] = [key |-> k, tier |-> S3, desc |-> blocks[k][S3].desc]]
    BY <1>5, <2>1, <2>2, Zenon DEF Held
  <2> QED
    BY <1>5, <2>1, <2>3, Zenon DEF PinTaken
<1> QED
  BY <1>2, <1>4, <1>5, AcquireFacts, Zenon

\* It gives the pin back in its finally clause.
LEMMA ReleasePins ==
  ASSUME S3Inv, NEW t \in Threads, LoadRelease(t)
  PROVE  \E k \in Keys : PinGiven(t, k)
<1>1. call[t].pc \in Reading
  BY Zenon DEF LoadRelease, At, Reading
<1>2. PICK k \in Keys : call[t].key = k
  BY <1>1, HeldFacts, Zenon
<1>3. Release(k, S3) /\ Unpinned(t)
  BY <1>2, ReleaseFacts, Zenon
<1>4. Held[t] # None /\ Held[t].key = k /\ Held[t].tier = S3
  BY <1>1, <1>2, HeldFacts, Zenon
<1>5. Held' = [Held EXCEPT ![t] = None]
  <2>1. \A u \in Threads : u # t => call'[u] = call[u]
    BY <1>3, Zenon DEF Unpinned, OthersStay
  <2> QED
    BY <1>3, <2>1, ZenonT(30) DEF Held, Unpinned
<1> QED
  BY <1>3, <1>4, <1>5, Zenon DEF PinGiven

\* What a step does to the pins: nothing, one is taken, one is given back, or
\* the process ends or starts.
LEMMA NextPins ==
  ASSUME S3Inv, [Next]_vars
  PROVE  \/ PinsStay
         \/ \E t \in Threads, k \in Keys : PinTaken(t, k) \/ PinGiven(t, k)
         \/ Crash /\ Held' = [t \in Threads |-> None]
         \/ Reopen /\ Held' = Held
<1> DEFINE Pins == PinsStay \/ \E t \in Threads, k \in Keys : PinTaken(t, k) \/ PinGiven(t, k)
<1>1. ASSUME NEW t \in Threads, Calls(t) PROVE PinsStay
  BY <1>1, CallsTransaction, HeldKept, Zenon DEF PinsStay, Unpinned, Transaction
<1>2. ASSUME NEW t \in Threads, PlainStep(t) PROVE PinsStay
  BY <1>2, StepUnpinned, StepTransaction, HeldKept, Zenon DEF PinsStay, Unpinned
<1>3. ASSUME NEW t \in Threads, ReadStep(t) PROVE PinsStay
  <2>1. /\ UNCHANGED mdVars /\ OthersStay(t)
        /\ call[t].pc \in Reading /\ call'[t].pc \in Reading
        /\ call'[t].key = call[t].key /\ call'[t].want = call[t].want
    BY <1>3, ReadStepFacts, ZenonT(30)
  <2>2. Held' = Held
    BY <2>1, Zenon DEF Held, OthersStay
  <2> QED
    BY <2>1, <2>2, Zenon DEF PinsStay, Transaction
<1>4. ASSUME NEW t \in Threads, Step(t) PROVE Pins
  BY <1>2, <1>3, <1>4, AcquirePins, ReleasePins, Zenon DEF Step, PlainStep, ReadStep
<1>5. ASSUME UNCHANGED <<mdVars, call>> PROVE PinsStay
  BY <1>5, Zenon DEF PinsStay, Held, Transaction
<1>6. CASE (\E r \in late : LateRequest(r)) \/ (\E k \in Keys : Fault(k)) \/ UNCHANGED vars
  BY <1>5, <1>6, Zenon DEF LateRequest, Fault, vars, s3Vars
<1>7. CASE Crash
  <2>1. Held' = [t \in Threads |-> None]
    BY <1>7, IdleFacts, Zenon DEF Crash, Held, Reading
  <2> QED
    BY <1>7, <2>1, Zenon
<1>8. CASE Reopen
  <2>1. Held' = Held
    BY <1>8, Zenon DEF Reopen, s3Vars, Held
  <2> QED
    BY <1>8, <2>1, Zenon
<1> QED
  BY <1>1, <1>4, <1>6, <1>7, <1>8, Zenon DEF Next

-----------------------------------------------------------------------------
(* What a pin is worth to a load *)

\* The row of every load with a pin is published as it was when it was pinned.
HeldIsPublished ==
  \A t \in Threads : Held[t] # None =>
    Active(Held[t].key, Held[t].tier) /\ blocks[Held[t].key][Held[t].tier].desc = Held[t].desc

\* The row of a load with a pin stays, and with it an undisturbed object.
LEMMA PinnedRow ==
  ASSUME S3Inv, HeldIsPublished, NEW t \in Threads, call[t].pc \in Reading
  PROVE  /\ Active(call[t].key, S3) /\ blocks[call[t].key][S3].desc = call[t].want
         /\ call[t].want \in Descriptors
         /\ call[t].key \notin disturbed => objects[call[t].key] = call[t].want
<1>1. PICK k \in Keys, d \in Descriptors : call[t].key = k /\ call[t].want = d
  BY HeldFacts, Zenon
<1>2. Held[t] # None /\ Held[t].key = k /\ Held[t].tier = S3 /\ Held[t].desc = d
  BY <1>1, HeldFacts, Zenon
<1>3. Active(k, S3) /\ blocks[k][S3].desc = d
  BY <1>2, Zenon DEF HeldIsPublished
<1>4. k \notin disturbed => objects[k] = d
  BY <1>3, Zenon DEF S3Inv, PublishedHasObject
<1> QED
  BY <1>1, <1>3, <1>4, Zenon

\* So the bucket sends it that payload, and only another one is corrupt.
LEMMA LoadIsSent ==
  ASSUME S3Inv, VerdictInv, HeldIsPublished, Next, NEW t \in Threads
  PROVE  /\ call[t].pc = "get" /\ call'[t].pc = "body"
              => call'[t].body = call[t].want \/ call[t].key \in disturbed
         /\ call[t].pc = "get" /\ call'[t].verdict = "missing" => call[t].key \in disturbed
         /\ call[t].verdict # "corrupt" /\ call'[t].verdict = "corrupt"
              => call[t].body # call[t].want
<1>1. /\ call[t].pc = "get" => call[t].verdict = "none" /\ call[t].pc \in Reading
      /\ "body" \in Reading /\ Idle.pc = "idle" /\ Idle.verdict = "none"
  BY IdleFacts, Zenon DEF VerdictInv, Reading
<1>2. CASE ~ReadStep(t)
  BY <1>1, <1>2, CallMoves, Zenon DEF Unpinned
<1>3. CASE ReadStep(t)
  <2>1. /\ Active(call[t].key, S3) /\ blocks[call[t].key][S3].desc = call[t].want
        /\ call[t].want \in Descriptors
        /\ call[t].key \notin disturbed => objects[call[t].key] = call[t].want
    BY <1>3, ReadStepFacts, PinnedRow, Zenon
  <2>2. CASE LoadGet(t)
    BY <1>1, <2>1, <2>2, GetFacts, Zenon
  <2>3. CASE LoadRead(t)
    <3>1. call[t].pc = "body" /\ (call'[t].verdict = "corrupt" => call[t].body = "bad record")
      BY <2>3, ReadFacts, Zenon
    <3>2. call[t].want # "bad record"
      BY <2>1, S3Values, Zenon
    <3> QED
      BY <3>1, <3>2, Zenon
  <2>4. CASE LoadCheck(t)
    <3>1. /\ call[t].pc = "check"
          /\ call'[t].verdict = "corrupt" =>
               \/ call[t].body # call[t].want \/ ~Active(call[t].key, S3)
               \/ blocks[call[t].key][S3].desc # call[t].want
      BY <2>4, CheckFacts, Zenon
    <3> QED
      BY <2>1, <3>1, Zenon
  <2> QED
    BY <1>3, <2>2, <2>3, <2>4, Zenon DEF ReadStep
<1> QED
  BY <1>2, <1>3, Zenon

-----------------------------------------------------------------------------
(* The tier is a client of the table *)

Proved == INSTANCE MetadataClientsProofs
            WITH Readers <- Threads, NotHeld <- None, held <- Held

\* The transactions of the clients are the tier's.
LEMMA SameTransactions ==
  ASSUME NEW k \in Keys
  PROVE  /\ Acquire(k, S3) => Proved!Acquire(k, S3)
         /\ Release(k, S3) => Proved!Release(k, S3)
         /\ Delete(k, S3) => Proved!Write(k, S3)
         /\ BeginDelete(k, S3) => Proved!Write(k, S3)
         /\ FinishDelete(k, S3) => Proved!Write(k, S3)
         /\ \A d \in Descriptors : Upsert(k, S3, d, k) => Proved!Write(k, S3)
<1>1. Acquire(k, S3) => Proved!Acquire(k, S3)
  BY Zenon DEF Acquire, Proved!Acquire, Active, Proved!Active, SetRow, Proved!SetRow,
     KeptInFlight, Proved!KeptInFlight
<1>2. Release(k, S3) => Proved!Release(k, S3)
  BY Zenon DEF Release, Proved!Release, SetRow, Proved!SetRow
<1>3. /\ Delete(k, S3) => Proved!Delete(k, S3)
      /\ FinishDelete(k, S3) => Proved!FinishDelete(k, S3)
  BY Zenon DEF Delete, Proved!Delete, FinishDelete, Proved!FinishDelete, Active, Proved!Active,
     Deleting, Proved!Deleting, Pinned, Proved!Pinned, SetRow, Proved!SetRow
<1>4. BeginDelete(k, S3) => Proved!BeginDelete(k, S3)
  BY Zenon DEF BeginDelete, Proved!BeginDelete, CanBeginDelete, Proved!CanBeginDelete,
     Active, Proved!Active, Pinned, Proved!Pinned, SetRow, Proved!SetRow
<1>5. ASSUME NEW d \in Descriptors, Upsert(k, S3, d, k) PROVE Proved!Upsert(k, S3, d, k)
  BY <1>5, ZenonT(30) DEF Upsert, Proved!Upsert, CanUpsert, Proved!CanUpsert, DescriptorFits,
     Proved!DescriptorFits, Deleting, Proved!Deleting, SetRow, Proved!SetRow,
     KeptInFlight, Proved!KeptInFlight
<1>6. k \in Uris
  BY Zenon
<1> QED
  BY <1>1, <1>2, <1>3, <1>4, <1>5, <1>6, Zenon DEF Proved!Write

ClientStep == [Proved!Next]_(Proved!clientVars)

\* Every step of the tier is a step of a client, or none.
LEMMA NextClient ==
  ASSUME S3Inv, [Next]_vars PROVE ClientStep
<1>1. CASE PinsStay
  <2>1. CASE UNCHANGED mdVars
    BY <1>1, <2>1, Zenon DEF PinsStay, ClientStep, Proved!clientVars, mdVars
  <2>2. ASSUME NEW k \in Keys, Proved!Write(k, S3) PROVE ClientStep
    BY <1>1, <2>2, Zenon DEF PinsStay, ClientStep, Proved!Next
  <2> QED
    BY <1>1, <2>1, <2>2, SameTransactions, Zenon DEF PinsStay, Transaction
<1>2. ASSUME NEW t \in Threads, NEW k \in Keys, PinTaken(t, k) \/ PinGiven(t, k)
      PROVE  ClientStep
  <2>1. Proved!AcquireBy(t, k, S3) \/ Proved!ReleaseBy(t)
    BY <1>2, SameTransactions, Zenon DEF PinTaken, PinGiven, Proved!AcquireBy, Proved!ReleaseBy
  <2> QED
    BY <2>1, Zenon DEF ClientStep, Proved!Next
<1>3. CASE Crash /\ Held' = [t \in Threads |-> None]
  <2>1. Proved!StopOwner
    BY <1>3, Zenon DEF Crash, Close, Proved!StopOwner, Proved!Close
  <2> QED
    BY <2>1, Zenon DEF ClientStep, Proved!Next
<1>4. CASE Reopen /\ Held' = Held
  <2>1. Proved!StartOwner
    BY <1>4, Zenon DEF Reopen, Open, ClearedCounters, Proved!StartOwner, Proved!Open,
       Proved!ClearedCounters
  <2> QED
    BY <2>1, Zenon DEF ClientStep, Proved!Next
<1> QED
  BY <1>1, <1>2, <1>3, <1>4, NextPins, Zenon

\* Threads that look up, load, store and evict through the bucket use the table
\* as MetadataClients describes: they pin before they read, give every pin back
\* once, and change the table by its transactions only.
THEOREM S3ImplementsClients == Spec => Proved!Spec
<1>1. Init => Proved!Init
  <2>1. Init => Held = [t \in Threads |-> None]
    BY IdleFacts, Zenon DEF Init, Held, Reading
  <2> QED
    BY <2>1, Zenon DEF Init, Proved!Init
<1>2. S3Inv /\ [Next]_vars => [Proved!Next]_(Proved!clientVars)
  BY NextClient, Zenon DEF ClientStep
<1> QED
  BY <1>1, <1>2, S3Always, PTL DEF Spec, Proved!Spec

\* AcquiredSafe of the clients, for this tier.
LEMMA HeldStaysPublished == Spec => []HeldIsPublished
<1>1. Proved!IsFiniteSet(Threads) /\ None \notin Proved!Hold /\ None \notin Descriptors
  BY S3Values, Zenon DEF Proved!Hold, Proved!IsFiniteSet, IsFiniteSet
<1>2. NoRow \notin Proved!Row
  BY Zenon DEF Row, Proved!Row
<1>3. Proved!AcquiredStaysPublished => HeldIsPublished
  BY Zenon DEF Proved!AcquiredStaysPublished, HeldIsPublished, Proved!Active, Active
<1> QED
  BY <1>1, <1>2, <1>3, S3ImplementsClients, Proved!AcquiredSafe, PTL

\* A load that got its pin is sent its payload unless the bucket does not
\* answer or the object was disturbed, and only what it was sent makes it call
\* the block corrupt (load() and _read_body()).
THEOREM PinnedObjectSafe == Spec => PinnedObjectStays
<1> DEFINE Stays ==
      \A t \in Threads :
        /\ call[t].pc = "get" /\ call'[t].pc = "body"
             => call'[t].body = call[t].want \/ call[t].key \in disturbed
        /\ call[t].pc = "get" /\ call'[t].verdict = "missing" => call[t].key \in disturbed
        /\ call[t].verdict # "corrupt" /\ call'[t].verdict = "corrupt"
             => call[t].body # call[t].want
<1>1. S3Inv /\ VerdictInv /\ HeldIsPublished /\ [Next]_vars => [Stays]_vars
  <2>1. S3Inv /\ VerdictInv /\ HeldIsPublished /\ Next => Stays
    BY LoadIsSent, Zenon
  <2> QED
    BY <2>1, Zenon
<1> QED
  BY <1>1, S3Always, VerdictAlways, HeldStaysPublished, PTL DEF Spec, PinnedObjectStays
=============================================================================
