----------------------------- MODULE Prefetcher -----------------------------
(***************************************************************************)
(* kvstore/kvstore/prefetch.py on its thread pool, and                     *)
(* MultiTierKVBlockStore.close(), which must not take the metadata store   *)
(* away from a prefetch that is still running.  StoreLifecycle puts the    *)
(* construction of the store and its rivals around it.                     *)
(*                                                                         *)
(* Submitters are the threads whose load() chose to prefetch.  A submission *)
(* is three steps: the entry in _seen under the lock, the hand-over to the *)
(* executor, and add_done_callback, which calls _done in the submitter     *)
(* itself when the task is already over.  What a task does to the tiers is *)
(* left out: it uses the metadata store while it runs, and it may fail.    *)
(*                                                                         *)
(* The executor is the library's: it refuses work once it is shut down,    *)
(* still runs what it has accepted, and shutdown(wait=True) returns when   *)
(* its threads, callbacks included, are through.                           *)
(***************************************************************************)
EXTENDS Integers, FiniteSets, Sequences

CONSTANTS
  Works,       \* pairs of BlockKey and target tier
  Submitters,  \* threads in submit()
  Threads,     \* the executor's threads, max_workers of them
  MaxQueue,    \* max_queue
  Idle         \* a thread has nothing to do

VARIABLES
  seen,       \* _seen
  sub,        \* the submitters
  queue,      \* tasks the executor has accepted and not started
  thread,     \* the executor's threads
  attached,   \* futures with a done callback
  finished,   \* futures that ended before they had one
  life        \* of the store: open, shut (the executor refuses), closed (the
              \* metadata store, too); StoreLifecycle has the stages before

vars == <<seen, sub, queue, thread, attached, finished, life>>

ASSUME PrefetcherAssumption == /\ MaxQueue \in Nat \ {0}
                               /\ Idle \notin Works
                               /\ IsFiniteSet(Works)

Resting == [pc |-> "idle", work |-> Idle]

-----------------------------------------------------------------------------
(* submit *)

\* The first critical section, for work that is neither a duplicate nor over
\* the limit.  The other two answers change only counters.
Admit(c, w) ==
  /\ sub[c].pc = "idle"
  /\ w \notin seen
  /\ Cardinality(seen) < MaxQueue
  /\ seen' = seen \cup {w}
  /\ sub' = [sub EXCEPT ![c] = [pc |-> "handover", work |-> w]]
  /\ UNCHANGED <<queue, thread, attached, finished, life>>

\* executor.submit accepts the task, or raises because it is shut down.
HandOver(c) ==
  /\ sub[c].pc = "handover"
  /\ IF life = "open"
       THEN /\ queue' = Append(queue, sub[c].work)
            /\ sub' = [sub EXCEPT ![c].pc = "attach"]
       ELSE /\ sub' = [sub EXCEPT ![c].pc = "undo"]
            /\ UNCHANGED queue
  /\ UNCHANGED <<seen, thread, attached, finished, life>>

\* Mutant: the entry of work that was refused stays.
NoUndo(c) ==
  /\ sub[c].pc = "undo"
  /\ sub' = [sub EXCEPT ![c] = Resting]
  /\ UNCHANGED <<seen, queue, thread, attached, finished, life>>

\* except BaseException: the entry is taken back and the error goes on.
Undo(c) ==
  /\ sub[c].pc = "undo"
  /\ seen' = seen \ {sub[c].work}
  /\ sub' = [sub EXCEPT ![c] = Resting]
  /\ UNCHANGED <<queue, thread, attached, finished, life>>

\* add_done_callback: the callback is stored, or called at once.
Attach(c) ==
  LET w == sub[c].work
  IN  /\ sub[c].pc = "attach"
      /\ IF w \in finished
           THEN /\ finished' = finished \ {w}
                /\ seen' = seen \ {w}
                /\ UNCHANGED attached
           ELSE /\ attached' = attached \cup {w}
                /\ UNCHANGED <<seen, finished>>
      /\ sub' = [sub EXCEPT ![c] = Resting]
      /\ UNCHANGED <<queue, thread, life>>

-----------------------------------------------------------------------------
(* The executor *)

\* A thread takes the oldest task; _run_one begins.
Start(t) ==
  /\ thread[t].pc = "idle"
  /\ queue # <<>>
  /\ thread' = [thread EXCEPT ![t] = [pc |-> "running", work |-> Head(queue)]]
  /\ queue' = Tail(queue)
  /\ UNCHANGED <<seen, sub, attached, finished, life>>

\* _run_one returns or raises.
Finish(t) ==
  LET w == thread[t].work
  IN  /\ thread[t].pc = "running"
      /\ IF w \in attached
           THEN /\ thread' = [thread EXCEPT ![t].pc = "callback"]
                /\ attached' = attached \ {w}
                /\ UNCHANGED finished
           ELSE /\ thread' = [thread EXCEPT ![t] = Resting]
                /\ finished' = finished \cup {w}
                /\ UNCHANGED attached
      /\ UNCHANGED <<seen, sub, queue, life>>

\* _done in the executor's thread.
Done(t) ==
  /\ thread[t].pc = "callback"
  /\ seen' = seen \ {thread[t].work}
  /\ thread' = [thread EXCEPT ![t] = Resting]
  /\ UNCHANGED <<sub, queue, attached, finished, life>>

-----------------------------------------------------------------------------
(* MultiTierKVBlockStore.close, under _close_lock *)

\* Prefetcher.shutdown begins.
Shutdown ==
  /\ life = "open"
  /\ life' = "shut"
  /\ UNCHANGED <<seen, sub, queue, thread, attached, finished>>

\* Mutant: shutdown(wait=False).
CloseMetadataAtOnce ==
  /\ life = "shut"
  /\ life' = "closed"
  /\ UNCHANGED <<seen, sub, queue, thread, attached, finished>>

\* shutdown(wait=True) has returned and the metadata store is closed.
CloseMetadata ==
  /\ life = "shut"
  /\ queue = <<>>
  /\ \A t \in Threads : thread[t].pc = "idle"
  /\ life' = "closed"
  /\ UNCHANGED <<seen, sub, queue, thread, attached, finished>>

-----------------------------------------------------------------------------

SubmitStep(c) == HandOver(c) \/ Undo(c) \/ Attach(c)
ThreadStep(t) == Start(t) \/ Finish(t) \/ Done(t)

\* No prefetch has been submitted.
Quiet == /\ seen = {}
         /\ sub = [c \in Submitters |-> Resting]
         /\ queue = <<>>
         /\ thread = [t \in Threads |-> Resting]
         /\ attached = {}
         /\ finished = {}

Executing  == {thread[t].work : t \in {t \in Threads : thread[t].pc # "idle"}}

\* Work that was admitted comes to an end and can then be submitted again.
WorkLeavesSeen == \A w \in Works : (w \in seen) ~> (w \notin seen)
=============================================================================
