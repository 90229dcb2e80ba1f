--------------------------- MODULE StoreLifecycle ---------------------------
(***************************************************************************)
(* The life of a store from kvstore/kvstore/factory.py to                  *)
(* MultiTierKVBlockStore.close(): the owner lock of the database, the      *)
(* opening of the table, the construction of the tiers, the prefetches     *)
(* that use it all in the background, and another process that wants the   *)
(* same database.                                                          *)
(*                                                                         *)
(* The lock is the kernel's flock: one holder, no waiting, released when   *)
(* its process ends.  A construction that fails may be tried again; a      *)
(* closed store is not opened again by this process.                       *)
(***************************************************************************)
EXTENDS Prefetcher

CONSTANTS
  Me, Rival,   \* the process of the store, another process
  None,        \* the lock is free, no epoch was ever written
  MaxCrashes   \* bound: ends of the process without close()

ASSUME ProcessAssumption == Me # Rival /\ Me # None /\ Rival # None

VARIABLES
  owner,       \* holder of the owner lock
  epoch,       \* whose epoch metadata_runtime names
  crashes      \* number of crashes so far

lifeVars == <<owner, epoch, crashes>>
storeVars == <<vars, lifeVars>>

Init ==
  /\ Quiet
  /\ life = "out"
  /\ owner = None /\ epoch = None /\ crashes = 0

-----------------------------------------------------------------------------
(* Construction *)

\* MetadataStore.__init__ gets the lock; without it the call fails.
TakeLock ==
  /\ life = "out"
  /\ owner = None
  /\ owner' = Me /\ life' = "locked"
  /\ UNCHANGED <<seen, sub, queue, thread, attached, finished, epoch, crashes>>

\* The schema is there and the pins of dead owners are cleared, in the
\* transaction that writes the epoch; or an exception gives the lock back.
OpenTable ==
  /\ life = "locked"
  /\ \/ epoch' = Me /\ life' = "opened" /\ UNCHANGED owner
     \/ owner' = None /\ life' = "out" /\ UNCHANGED epoch
  /\ UNCHANGED <<seen, sub, queue, thread, attached, finished, crashes>>

\* _build_store constructs tiers, cost model and manager, or fails: then
\* build_store_from_config closes the table.
BuildStore ==
  /\ life = "opened"
  /\ \/ life' = "open" /\ UNCHANGED owner
     \/ life' = "out" /\ owner' = None
  /\ UNCHANGED <<seen, sub, queue, thread, attached, finished, epoch, crashes>>

-----------------------------------------------------------------------------
(* Use and close *)

\* Mutant: MetadataStore.close() closes the table only.
LockKept == owner

\* MetadataStore.close() gives the lock back when it has closed the table.
LockAfter == IF life = "shut" /\ life' = "closed" THEN None ELSE owner

Submitting(c) ==
  /\ life \in {"open", "shut", "closed"}
  /\ SubmitStep(c) \/ \E w \in Works : Admit(c, w)
  /\ UNCHANGED lifeVars

Prefetching(t) == ThreadStep(t) /\ UNCHANGED lifeVars

Closing ==
  /\ Shutdown \/ CloseMetadata
  /\ owner' = LockAfter
  /\ UNCHANGED <<epoch, crashes>>

-----------------------------------------------------------------------------
(* Environment *)

\* The other process opens and closes its store.
RivalOpens ==
  /\ owner = None
  /\ owner' = Rival /\ epoch' = Rival
  /\ UNCHANGED <<vars, crashes>>

RivalEnds ==
  /\ owner = Rival
  /\ owner' = None
  /\ UNCHANGED <<vars, epoch, crashes>>

Crash ==
  /\ life # "out" /\ crashes < MaxCrashes
  /\ seen' = {} /\ queue' = <<>> /\ attached' = {} /\ finished' = {}
  /\ sub' = [c \in Submitters |-> Resting]
  /\ thread' = [t \in Threads |-> Resting]
  /\ life' = "out"
  /\ owner' = IF owner = Me THEN None ELSE owner
  /\ crashes' = crashes + 1
  /\ UNCHANGED epoch

-----------------------------------------------------------------------------
(* Specification *)

Next ==
  \/ TakeLock \/ OpenTable \/ BuildStore
  \/ \E c \in Submitters : Submitting(c)
  \/ \E t \in Threads : Prefetching(t)
  \/ Closing
  \/ RivalOpens \/ RivalEnds
  \/ Crash

\* Threads that can run do run and a task ends; nobody has to build, submit or
\* close, and the other process need not give the database up.
Spec ==
  /\ Init /\ [][Next]_storeVars
  /\ \A c \in Submitters : WF_storeVars(SubmitStep(c) /\ UNCHANGED lifeVars)
  /\ \A t \in Threads : WF_storeVars(Prefetching(t))
  /\ WF_storeVars(CloseMetadata /\ Closing)

-----------------------------------------------------------------------------
(* Properties *)

\* The database is used by its owner only.  From the opening of the table to
\* its closing the process holds the lock and metadata_runtime names it; no
\* prefetch is queued or running outside that time, also not one that was
\* handed over while close() was waiting; and a process that has no store,
\* because a construction failed or because it was closed, holds no lock
\* (build_store_from_config, MultiTierKVBlockStore.close).
UsedByOwnerOnly ==
  /\ life \in {"opened", "open", "shut"} => owner = Me /\ epoch = Me
  /\ queue # <<>> \/ Executing # {} => life \in {"open", "shut"}
  /\ life \in {"out", "closed"} => owner # Me

\* close() ends, with prefetches queued, running and being handed over, and
\* the database is free for another process.
CloseFreesDatabase == life = "shut" ~> owner # Me
=============================================================================
