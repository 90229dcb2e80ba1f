------------------------------ MODULE EventBus ------------------------------
(***************************************************************************)
(* router/internal/cacheindex/eventbus.go: the in-process event bus.       *)
(*                                                                         *)
(* Goroutines: publishers, callers of Subscribe, the watcher that each     *)
(* Subscribe starts, and the caller of Close.  A critical section of b.mu  *)
(* or of a subscriber's mu is one step, so is one case of a select.  A     *)
(* subscriber's sync.Once goes from fresh to running (done is closed, new  *)
(* senders are refused) to done (the channel is closed); every other       *)
(* caller of its close() waits for that.                                   *)
(*                                                                         *)
(* Abstracted: messages are only counted.  Subscribers are distinct        *)
(* objects; a name may be taken over by a later one.  Calls on a closed    *)
(* bus return at once and have no action.                                  *)
(***************************************************************************)
EXTENDS Integers, FiniteSets

CONSTANTS
  Names,       \* subscriber names
  MaxSubs,     \* bound: inMemorySubscriber objects
  Publishers,  \* goroutines in Publish
  BufferSize,  \* of each channel
  Nobody       \* no subscriber

VARIABLES
  closed,      \* b.closed
  subs,        \* b.subs
  subscriber,  \* the fields of the subscribers
  caller,      \* caller[s]: the call of Subscribe that made s
  watcher,     \* watcher[s]: the goroutine that Subscribe started for s
  closer,      \* the call of Close
  pub          \* the calls of Publish

busVars == <<closed, subs, subscriber, caller, watcher, closer, pub>>

\* The subscribers, in the order in which Subscribe makes them.
Subs == 1..MaxSubs

ASSUME BusAssumption == /\ BufferSize \in Nat \ {0} /\ MaxSubs \in Nat
                        /\ Nobody \notin Subs \cup Names
                        /\ IsFiniteSet(Publishers)

\* todo: what is left of the snapshot of the subscribers; cur: the one the
\* select is about.
NoPublication == [pc |-> "idle", todo |-> {}, cur |-> Nobody]

\* once: sync.Once; name: the argument of Subscribe.
NewSubscriber == [once |-> "fresh", senders |-> 0, buffered |-> 0, name |-> Nobody]

Listed == {subs[n] : n \in Names} \ {Nobody}

Refuses(s)       == subscriber[s].once # "fresh"
ChannelClosed(s) == subscriber[s].once = "done"

\* The subscribers whose close() some goroutine has reached.
ToClose == {s \in Subs : \/ \E t \in Subs : caller[t] = s
                         \/ watcher[s] = "removing"
                         \/ s = closer.cur}

-----------------------------------------------------------------------------
(* inMemorySubscriber.close *)

\* The first caller runs the body: closed and done are set under mu.
CloseStarts(s) ==
  /\ s \in ToClose
  /\ subscriber[s].once = "fresh"
  /\ subscriber' = [subscriber EXCEPT ![s].once = "running"]
  /\ UNCHANGED <<closed, subs, caller, watcher, closer, pub>>

\* Mutant: senders.Wait() is missing.
CloseEndsEarly(s) ==
  /\ subscriber[s].once = "running"
  /\ subscriber' = [subscriber EXCEPT ![s].once = "done"]
  /\ UNCHANGED <<closed, subs, caller, watcher, closer, pub>>

\* senders.Wait() has returned; the channel is closed.
CloseEnds(s) ==
  /\ subscriber[s].once = "running"
  /\ subscriber[s].senders = 0
  /\ subscriber' = [subscriber EXCEPT ![s].once = "done"]
  /\ UNCHANGED <<closed, subs, caller, watcher, closer, pub>>

-----------------------------------------------------------------------------
(* Subscribe, its watcher, and the consumer *)

\* Subscribe takes the name over; an old subscriber is closed outside the lock.
Subscribe(s, n) ==
  /\ ~closed
  /\ subscriber[s].name = Nobody /\ \A t \in 1..s - 1 : subscriber[t].name # Nobody
  /\ subscriber' = [subscriber EXCEPT ![s].name = n]
  /\ subs' = [subs EXCEPT ![n] = s]
  /\ caller' = [caller EXCEPT ![s] = subs[n]]
  /\ watcher' = [watcher EXCEPT ![s] = IF subs[n] = Nobody THEN "waiting" ELSE @]
  /\ UNCHANGED <<closed, closer, pub>>

\* old.close() has returned: the watcher is started.
SubscribeReturns(s) ==
  /\ caller[s] # Nobody
  /\ ChannelClosed(caller[s])
  /\ caller' = [caller EXCEPT ![s] = Nobody]
  /\ watcher' = [watcher EXCEPT ![s] = "waiting"]
  /\ UNCHANGED <<closed, subs, subscriber, closer, pub>>

\* Mutant: whoever has the name now is removed.
RemoveSubscriberByName(s) ==
  /\ watcher[s] = "waiting"
  /\ subs' = [subs EXCEPT ![subscriber[s].name] = Nobody]
  /\ watcher' = [watcher EXCEPT ![s] = "removing"]
  /\ UNCHANGED <<closed, subscriber, caller, closer, pub>>

\* The subscriber's context has ended, which only the watcher sees.
\* removeSubscriber: the entry goes only if it is still this subscriber's.
RemoveSubscriber(s) ==
  /\ watcher[s] = "waiting"
  /\ subs' = [subs EXCEPT ![subscriber[s].name] = IF @ = s THEN Nobody ELSE @]
  /\ watcher' = [watcher EXCEPT ![s] = "removing"]
  /\ UNCHANGED <<closed, subscriber, caller, closer, pub>>

\* The watcher is told that its subscriber was closed, or has closed it.
WatcherReturns(s) ==
  /\ \/ watcher[s] = "waiting" /\ Refuses(s)
     \/ watcher[s] = "removing" /\ ChannelClosed(s)
  /\ watcher' = [watcher EXCEPT ![s] = "gone"]
  /\ UNCHANGED <<closed, subs, subscriber, caller, closer, pub>>

\* The consumer takes a message, also from a closed channel.
Receive(s) ==
  /\ subscriber[s].buffered > 0
  /\ subscriber' = [subscriber EXCEPT ![s].buffered = @ - 1]
  /\ UNCHANGED <<closed, subs, caller, watcher, closer, pub>>

-----------------------------------------------------------------------------
(* Close *)

Close ==
  /\ ~closed
  /\ closed' = TRUE
  /\ closer' = [todo |-> Listed, cur |-> Nobody]
  /\ subs' = [n \in Names |-> Nobody]
  /\ UNCHANGED <<subscriber, caller, watcher, pub>>

\* The loop of Close goes to its next subscriber, or returns.
CloseGoesOn ==
  /\ closer.cur # Nobody => ChannelClosed(closer.cur)
  /\ \/ \E s \in closer.todo :
          closer' = [todo |-> closer.todo \ {s}, cur |-> s]
     \/ /\ closer.todo = {} /\ closer.cur # Nobody
        /\ closer' = [closer EXCEPT !.cur = Nobody]
  /\ UNCHANGED <<closed, subs, subscriber, caller, watcher, pub>>

-----------------------------------------------------------------------------
(* Publish *)

\* The subscribers of the moment are copied under b.mu.
Publish(p) ==
  /\ pub[p].pc = "idle"
  /\ ~closed
  /\ pub' = [pub EXCEPT ![p] = [pc |-> "loop", todo |-> Listed, cur |-> Nobody]]
  /\ UNCHANGED <<closed, subs, subscriber, caller, watcher, closer>>

\* acquireSender, in the order the map is ranged over.
AcquireSender(p, s) ==
  /\ pub[p].pc = "loop"
  /\ s \in pub[p].todo
  /\ IF Refuses(s)
       THEN /\ pub' = [pub EXCEPT ![p].todo = @ \ {s}]
            /\ UNCHANGED subscriber
       ELSE /\ pub' = [pub EXCEPT ![p] = [pc |-> "select", todo |-> @.todo \ {s}, cur |-> s]]
            /\ subscriber' = [subscriber EXCEPT ![s].senders = @ + 1]
  /\ UNCHANGED <<closed, subs, caller, watcher, closer>>

\* case sub.ch <- msg
Send(p) ==
  LET s == pub[p].cur
  IN  /\ pub[p].pc = "select"
      /\ subscriber[s].buffered < BufferSize
      /\ pub' = [pub EXCEPT ![p].pc = "loop", ![p].cur = Nobody]
      /\ subscriber' = [subscriber EXCEPT ![s].buffered = @ + 1, ![s].senders = @ - 1]
      /\ UNCHANGED <<closed, subs, caller, watcher, closer>>

\* Mutant: the select has no case for done.
NoSelectDone(p) == FALSE /\ UNCHANGED busVars

\* case <-sub.done
SelectDone(p) ==
  LET s == pub[p].cur
  IN  /\ pub[p].pc = "select"
      /\ Refuses(s)
      /\ pub' = [pub EXCEPT ![p].pc = "loop", ![p].cur = Nobody]
      /\ subscriber' = [subscriber EXCEPT ![s].senders = @ - 1]
      /\ UNCHANGED <<closed, subs, caller, watcher, closer>>

\* case <-ctx.Done(): the rest of the subscribers gets nothing.
PublishCancelled(p) ==
  LET s == pub[p].cur
  IN  /\ pub[p].pc = "select"
      /\ pub' = [pub EXCEPT ![p] = NoPublication]
      /\ subscriber' = [subscriber EXCEPT ![s].senders = @ - 1]
      /\ UNCHANGED <<closed, subs, caller, watcher, closer>>

\* Publish returns nil.
PublishReturns(p) ==
  /\ pub[p].pc = "loop"
  /\ pub[p].todo = {}
  /\ pub' = [pub EXCEPT ![p] = NoPublication]
  /\ UNCHANGED <<closed, subs, subscriber, caller, watcher, closer>>

-----------------------------------------------------------------------------

BusInit ==
  /\ closed = FALSE
  /\ subs = [n \in Names |-> Nobody]
  /\ subscriber = [s \in Subs |-> NewSubscriber]
  /\ caller = [s \in Subs |-> Nobody]
  /\ watcher = [s \in Subs |-> "none"]
  /\ closer = [todo |-> {}, cur |-> Nobody]
  /\ pub = [p \in Publishers |-> NoPublication]

\* The steps goroutines take by themselves.
CloseStep(s) == CloseStarts(s) \/ CloseEnds(s)
WatchStep(s) == SubscribeReturns(s) \/ WatcherReturns(s)

PublishStep(p) == \/ \E s \in Subs : AcquireSender(p, s)
                  \/ Send(p) \/ SelectDone(p)
                  \/ PublishReturns(p)

BusNext ==
  \/ \E s \in Subs : \/ CloseStep(s) \/ WatchStep(s)
                     \/ RemoveSubscriber(s) \/ Receive(s)
                     \/ \E n \in Names : Subscribe(s, n)
  \/ Close
  \/ CloseGoesOn
  \/ \E p \in Publishers : PublishStep(p) \/ Publish(p) \/ PublishCancelled(p)

BusSpec == BusInit /\ [][BusNext]_busVars

\* Goroutines that can run do run.  Nobody has to receive, to cancel a context
\* or to close the bus.
FairBusSpec == /\ BusSpec
            /\ \A s \in Subs : WF_busVars(CloseStep(s)) /\ WF_busVars(WatchStep(s))
            /\ WF_busVars(CloseGoesOn)
            /\ \A p \in Publishers : WF_busVars(PublishStep(p))

-----------------------------------------------------------------------------
(* Properties *)

\* A select that may send never finds its channel closed, which would panic:
\* close() waits for the senders it let in (acquireSender, close).
NoSendOnClosedChannel ==
  \A p \in Publishers : pub[p].pc = "select" => ~ChannelClosed(pub[p].cur)

\* A subscriber that nobody has set out to close is in the map under its name,
\* so it goes on to receive and Close will find it: the watcher of a replaced
\* subscriber does not take its successor away (removeSubscriber).
OpenIsListed ==
  \A s \in Subs :
    subscriber[s].name # Nobody /\ ~Refuses(s) /\ s \notin ToClose \cup closer.todo
      => subs[subscriber[s].name] = s

\* A subscriber that someone sets out to close gets closed, with publishers
\* blocked on its full channel and no consumer to help (close, Publish).
CloseTerminates ==
  \A s \in Subs : (s \in ToClose \cup closer.todo) ~> ChannelClosed(s)
=============================================================================
