---------------------------- MODULE RouterProofs ----------------------------
(***************************************************************************)
(* The safety properties of the Worker registrations (module Router) and   *)
(* of the index behind the event producers (module CacheFeed), for any     *)
(* number of Workers, requests, blocks and events.                         *)
(***************************************************************************)
EXTENDS Router, CacheFeed, FiniteSetTheorems, WellFoundedInduction, TLAPS

USE IndexAssumption, FeedAssumption

-----------------------------------------------------------------------------
(* The feed *)

\* The events of the feed are numbered by their places, and nothing else is in
\* the log or on its way to be replayed.
OfFeed(events, e) ==
  /\ e.worker \in Workers /\ e.seq \in DOMAIN events[e.worker]
  /\ events[e.worker][e.seq] = e

LogIsFeed ==
  /\ \A w \in Workers : \A i \in DOMAIN feed[w] :
       feed[w][i].worker = w /\ feed[w][i].seq = i /\ feed[w][i].id = <<w, i>>
  /\ log # Damaged => \A p \in DOMAIN log : OfFeed(feed, log[p])
  /\ \A p \in DOMAIN replay : OfFeed(feed, replay[p])

\* What a table says of w, with watermark n, is what the events of w whose numbers
\* are in S have left; n is the greatest of these numbers.
SoundFor(events, table, n, S, w) ==
  /\ S \subseteq DOMAIN events
  /\ n \in S \cup {0} /\ \A i \in S : i <= n
  /\ \A b \in Blocks \ LocalBlocks : table[b][w] # NoLocation =>
       table[b][w].seq <= n /\ b \in Resident(events, S)
  /\ \A b \in Blocks \ ShortLived : table[b][w] # NoLocation => table[b][w].live
  /\ \A b \in Resident(events, S) \ ShortLived : b \in Blocks /\ table[b][w] # NoLocation

Sound(table, last, count) == \A w \in Workers : SoundFor(feed[w], table, last[w], count[w], w)

FeedType ==
  /\ feed \in [Workers -> Seq(Events)] /\ log \in Seq(Events) \cup {Damaged}
  /\ replay \in Seq(Events)
  /\ intime \in [Workers -> SUBSET Nat] /\ saved \in [Workers -> SUBSET Nat]
  /\ byBlock \in Table /\ nextSeqNo \in SeqNos /\ lastSeqByWorker \in [Workers -> SeqNos]
  /\ file # NoSnapshot => file \in Snapshots

\* The index and the snapshot are sound, and a consumed event ID is below the
\* watermark.
IndexIsSound ==
  /\ Sound(byBlock, lastSeqByWorker, intime)
  /\ file # NoSnapshot => Sound(file.byBlock, file.lastSeqByWorker, saved)
  /\ \A w \in Workers, i \in Nat : <<w, i>> \in appliedEventIDs => i <= lastSeqByWorker[w]

FeedInv == FeedType /\ LogIsFeed /\ IndexIsSound

-----------------------------------------------------------------------------
(* Facts about the cache of a Worker *)

\* A block is in the cache when the last event about it stored it.
LEMMA ResidentMeans ==
  ASSUME NEW events, NEW S, NEW b
  PROVE  b \in Resident(events, S) <=>
           \E i \in S :
             /\ events[i].type = "block_stored" /\ events[i].block = b
             /\ \A j \in S : j > i => events[j].block # b
  BY Zenon DEF Resident

\* One more event, later than the others, changes what it is about.
LEMMA ResidentStep ==
  ASSUME NEW events, NEW S \in SUBSET Nat, NEW n \in Nat, \A i \in S : i < n
  PROVE  /\ \A b : b # events[n].block =>
              (b \in Resident(events, S \cup {n}) <=> b \in Resident(events, S))
         /\ events[n].block \in Resident(events, S \cup {n}) <=> events[n].type = "block_stored"
<1>1. \A i \in S : i \in Nat /\ n > i /\ ~(i > n) /\ ~(n > n)
  OBVIOUS
<1>0. ~(n > n)
  OBVIOUS
<1>2. ASSUME NEW b, b # events[n].block
      PROVE  b \in Resident(events, S \cup {n}) <=> b \in Resident(events, S)
  BY <1>1, <1>2, ResidentMeans
<1>3. events[n].block \in Resident(events, S \cup {n}) <=> events[n].type = "block_stored"
  <2>1. ASSUME events[n].type = "block_stored" PROVE events[n].block \in Resident(events, S \cup {n})
    <3>1. \A j \in S \cup {n} : j > n => events[j].block # events[n].block
      BY <1>0, <1>1, Zenon
    <3> QED
      BY <2>1, <3>1, Zenon DEF Resident
  <2>2. ASSUME events[n].block \in Resident(events, S \cup {n}) PROVE events[n].type = "block_stored"
    <3>1. PICK i \in S \cup {n} :
            /\ events[i].type = "block_stored" /\ events[i].block = events[n].block
            /\ \A j \in S \cup {n} : j > i => events[j].block # events[n].block
      BY <2>2, Zenon DEF Resident
    <3>2. ~(n > i) /\ n \in S \cup {n}
      BY <3>1, Zenon
    <3> QED
      BY <1>1, <3>1, <3>2, Zenon
  <2> QED
    BY <2>1, <2>2, Zenon
<1> QED
  BY <1>2, <1>3, Zenon

\* Without events the cache is empty.
LEMMA ResidentAtFirst == ASSUME NEW events PROVE Resident(events, {}) = {}
  BY Zenon DEF Resident

\* A later event does not change what the earlier ones left.
LEMMA ResidentAppend ==
  ASSUME NEW events, NEW more, NEW S, \A i \in S : more[i] = events[i]
  PROVE  Resident(more, S) = Resident(events, S)
<1>1. \A b : b \in Resident(more, S) <=> b \in Resident(events, S)
  BY ResidentMeans
<1> QED
  BY <1>1, Zenon

-----------------------------------------------------------------------------
(* What the operations do to the index *)

\* One location is replaced.
LEMMA LocationSet ==
  ASSUME byBlock \in Table, NEW b \in Blocks, NEW w \in Workers,
         NEW loc \in Location \cup {NoLocation}, byBlock' = SetLocation(b, w, loc)
  PROVE  /\ byBlock' \in Table /\ byBlock'[b][w] = loc
         /\ \A c \in Blocks, v \in Workers : c # b \/ v # w => byBlock'[c][v] = byBlock[c][v]
  BY Zenon DEF SetLocation, Table

\* The local revisions stay in their range.
LEMMA RevisionType ==
  ASSUME NEW n \in SeqNos, NEW s \in SeqNos
  PROVE  /\ (IF n < MaxInt64 THEN n + 1 ELSE n) \in SeqNos \ {0}
         /\ Later(IF n < MaxInt64 THEN n + 1 ELSE n, s) \in SeqNos
  BY DEF SeqNos, Later

\* What ApplyEvent does to the index: nothing, or what the event says.
LEMMA ApplyFacts ==
  ASSUME byBlock \in Table, nextSeqNo \in SeqNos, lastSeqByWorker \in [Workers -> SeqNos],
         NEW e \in Events, e.seq > 0, ApplyEvent(e)
  PROVE  /\ byBlock' \in Table /\ nextSeqNo' \in SeqNos
         /\ lastSeqByWorker' \in [Workers -> SeqNos] /\ file' = file
         /\ appliedEventIDs' \subseteq appliedEventIDs \cup {e.id}
         /\ \A v \in Workers \ {e.worker} :
              /\ lastSeqByWorker'[v] = lastSeqByWorker[v]
              /\ \A b \in Blocks : byBlock'[b][v] = byBlock[b][v]
         /\ e.seq <= lastSeqByWorker[e.worker] => UNCHANGED <<byBlock, lastSeqByWorker>>
         /\ e.seq > lastSeqByWorker[e.worker] =>
              /\ lastSeqByWorker'[e.worker] = e.seq
              /\ \A b \in Blocks \ {e.block} : byBlock'[b][e.worker] = byBlock[b][e.worker]
              /\ byBlock'[e.block][e.worker] =
                   IF e.type = "block_stored"
                   THEN [seq |-> e.seq, ordered |-> TRUE, live |-> TRUE]
                   ELSE IF /\ Present(e.block, e.worker)
                           /\ e.seq >= byBlock[e.block][e.worker].seq
                   THEN NoLocation ELSE byBlock[e.block][e.worker]
<1> DEFINE w == e.worker
           b == e.block
           s == e.seq
<1>1. /\ w \in Workers /\ b \in Blocks /\ s \in Nat /\ s > 0
      /\ e.type \in {"block_stored", "block_evicted"}
      /\ file' = file /\ appliedEventIDs' \subseteq appliedEventIDs \cup {e.id}
  BY DEF Events, SeqNos, ApplyEvent
<1>5. nextSeqNo' \in SeqNos
  <2>1. UNCHANGED nextSeqNo \/ StoreLocated(b, w, s)
    BY <1>1, Zenon DEF ApplyEvent
  <2>2. s \in SeqNos
    BY Zenon DEF Events
  <2> QED
    BY <2>1, <2>2, RevisionType, Zenon DEF StoreLocated
<1>2. lastSeqByWorker[w] \in Nat /\ s \in SeqNos \ {0} /\ (AcceptEvent(e) <=> s > lastSeqByWorker[w])
  BY <1>1 DEF AcceptEvent, Events, SeqNos
<1>3. CASE ~AcceptEvent(e)
  <2>1. UNCHANGED <<byBlock, lastSeqByWorker>>
    BY <1>3, Zenon DEF ApplyEvent
  <2> QED
    BY <1>1, <1>2, <1>3, <1>5, <2>1, Zenon
<1>4. CASE AcceptEvent(e)
  <2>1. SeqFresh(w, s) /\ Later(lastSeqByWorker[w], s) = s
    BY <1>1, <1>2, <1>4 DEF SeqFresh, Later
  <2>2. ASSUME lastSeqByWorker' = [lastSeqByWorker EXCEPT ![w] = Later(@, s)]
        PROVE  /\ lastSeqByWorker' \in [Workers -> SeqNos] /\ lastSeqByWorker'[w] = s
               /\ \A v \in Workers \ {w} : lastSeqByWorker'[v] = lastSeqByWorker[v]
    BY <1>1, <1>2, <2>1, <2>2, Zenon
  <2>3. CASE e.type = "block_stored"
    <3> DEFINE loc == [seq |-> s, ordered |-> TRUE, live |-> TRUE]
    <3>1. StoreLocated(b, w, s)
      BY <1>4, <2>3, Zenon DEF ApplyEvent
    <3>2. /\ byBlock' = SetLocation(b, w, loc)
          /\ lastSeqByWorker' = [lastSeqByWorker EXCEPT ![w] = Later(@, s)]
      <4>1. s # 0 /\ (s > 0) = TRUE
        BY <1>1
      <4> HIDE DEF s
      <4> QED
        BY <2>1, <3>1, <4>1, Zenon DEF StoreLocated
    <3>6. loc \in Location \cup {NoLocation}
      BY <1>2, Zenon DEF Location
    <3> HIDE DEF loc
    <3>3. /\ byBlock' \in Table /\ byBlock'[b][w] = loc
          /\ \A c \in Blocks, v \in Workers : c # b \/ v # w => byBlock'[c][v] = byBlock[c][v]
      BY <1>1, <3>2, <3>6, LocationSet
    <3>4. byBlock'[b][w] =
            IF e.type = "block_stored" THEN [seq |-> s, ordered |-> TRUE, live |-> TRUE]
            ELSE IF Present(b, w) /\ s >= byBlock[b][w].seq
            THEN NoLocation ELSE byBlock[b][w]
      BY <2>3, <3>3, Zenon DEF loc
    <3>5. /\ lastSeqByWorker' \in [Workers -> SeqNos] /\ lastSeqByWorker'[w] = s
          /\ \A v \in Workers \ {w} : lastSeqByWorker'[v] = lastSeqByWorker[v]
          /\ \A v \in Workers \ {w} : \A c \in Blocks : byBlock'[c][v] = byBlock[c][v]
          /\ \A c \in Blocks \ {b} : byBlock'[c][w] = byBlock[c][w]
          /\ ~(s <= lastSeqByWorker[w])
      BY <1>1, <1>2, <1>4, <2>2, <3>2, <3>3, SMTT(30)
    <3> QED
      BY <1>1, <1>5, <3>3, <3>4, <3>5, Zenon
  <2>4. CASE e.type = "block_evicted"
    <3>1. /\ byBlock' = IF Present(b, w) /\ s >= byBlock[b][w].seq
                        THEN SetLocation(b, w, NoLocation) ELSE byBlock
          /\ lastSeqByWorker' = [lastSeqByWorker EXCEPT ![w] = Later(@, s)]
      BY <1>4, <2>1, <2>4, Zenon DEF ApplyEvent, EvictLocated
    <3>2. CASE Present(b, w) /\ s >= byBlock[b][w].seq
      <4>1. byBlock' = SetLocation(b, w, NoLocation)
        BY <3>1, <3>2, Zenon
      <4>2. /\ byBlock' \in Table /\ byBlock'[b][w] = NoLocation
            /\ \A c \in Blocks, v \in Workers : c # b \/ v # w => byBlock'[c][v] = byBlock[c][v]
        BY <1>1, <4>1, LocationSet, Zenon
      <4> QED
        BY <1>1, <1>2, <1>4, <1>5, <2>2, <2>4, <3>1, <3>2, <4>2
    <3>3. CASE ~(Present(b, w) /\ s >= byBlock[b][w].seq)
      <4>1. byBlock' = byBlock /\ byBlock' \in Table
        BY <3>1, <3>3, Zenon
      <4> QED
        BY <1>1, <1>2, <1>4, <1>5, <2>2, <2>4, <3>1, <3>3, <4>1, SMTT(30)
    <3> QED
      BY <3>2, <3>3, Zenon
  <2> QED
    BY <1>1, <2>3, <2>4, Zenon
<1> QED
  BY <1>3, <1>4, Zenon

\* The events of the feed are events.
LEMMA FeedEvents ==
  ASSUME FeedInv, NEW w \in Workers, NEW n \in DOMAIN feed[w]
  PROVE  /\ feed[w] \in Seq(Events) /\ feed[w][n] \in Events
         /\ feed[w][n].worker = w /\ feed[w][n].seq = n /\ feed[w][n].id = <<w, n>>
         /\ n \in Nat /\ n > 0 /\ n <= Len(feed[w])
<1>1. feed[w] \in Seq(Events)
  BY Zenon DEF FeedInv, FeedType
<1>2. feed[w][n] \in Events /\ n \in Nat /\ n > 0 /\ n <= Len(feed[w])
  BY <1>1
<1> QED
  BY <1>1, <1>2, Zenon DEF FeedInv, LogIsFeed

\* Table U is table T after event n of Worker w.
TakesEvent(events, T, U, n, w) ==
  LET b == events[n].block
  IN  /\ \A c \in Blocks \ {b} : U[c][w] = T[c][w]
      /\ U[b][w] = IF events[n].type = "block_stored"
                   THEN [seq |-> n, ordered |-> TRUE, live |-> TRUE]
                   ELSE IF T[b][w] # NoLocation /\ n >= T[b][w].seq
                   THEN NoLocation ELSE T[b][w]

\* What an event later than all before it leaves is sound.
LEMMA EventSound ==
  ASSUME NEW events \in Seq(Events), NEW n \in DOMAIN events, n < MaxInt64,
         NEW w \in Workers, NEW m \in Nat, n > m, NEW S, NEW T, NEW U,
         \A b \in Blocks : T[b][w] # NoLocation => T[b][w].seq \in Nat,
         SoundFor(events, T, m, S, w), TakesEvent(events, T, U, n, w)
  PROVE  SoundFor(events, U, n, S \cup {n}, w)
<1> DEFINE c == events[n].block
           new == [seq |-> n, ordered |-> TRUE, live |-> TRUE]
           R == Resident(events, S)
           Q == Resident(events, S \cup {n})
<1>1. /\ c \in Blocks /\ events[n].type \in {"block_stored", "block_evicted"}
      /\ n \in Nat /\ n > 0 /\ S \subseteq Nat /\ \A i \in S : i < n /\ i <= n
  <2>1. events[n] \in Events /\ n \in Nat /\ n > 0 /\ DOMAIN events \subseteq Nat
    OBVIOUS
  <2>2. S \subseteq DOMAIN events /\ \A i \in S : i <= m
    BY Zenon DEF SoundFor
  <2>3. c \in Blocks /\ events[n].type \in {"block_stored", "block_evicted"}
    BY <2>1, Zenon DEF Events
  <2>4. S \subseteq Nat
    BY <2>1, <2>2, Zenon
  <2>5. \A i \in S : i < n /\ i <= n
    BY <2>1, <2>2, <2>4
  <2> QED
    BY <2>1, <2>3, <2>4, <2>5, Zenon
<1>0. /\ \A b \in Blocks \ {c} : U[b][w] = T[b][w]
      /\ U[c][w] = IF events[n].type = "block_stored" THEN new
                   ELSE IF T[c][w] # NoLocation /\ n >= T[c][w].seq
                   THEN NoLocation ELSE T[c][w]
  BY Zenon DEF TakesEvent
<1>2. new # NoLocation /\ new.seq = n /\ new.live
  <2>1. n \in SeqNos \ {0}
    BY <1>1 DEF SeqNos
  <2>2. new \in Location
    BY <2>1, Zenon DEF Location
  <2> QED
    BY <2>2, Zenon
<1>3. /\ \A b : b # c => (b \in Q <=> b \in R)
      /\ c \in Q <=> events[n].type = "block_stored"
  BY <1>1, ResidentStep, Zenon
<1>4. /\ \A b \in Blocks \ LocalBlocks : T[b][w] # NoLocation => n >= T[b][w].seq /\ b \in R
      /\ \A b \in Blocks \ LocalBlocks : T[b][w] # NoLocation => T[b][w].seq <= n
      /\ \A b \in Blocks \ ShortLived : T[b][w] # NoLocation => T[b][w].live
      /\ \A b \in R \ ShortLived : b \in Blocks /\ T[b][w] # NoLocation
  <2>1. /\ \A b \in Blocks \ LocalBlocks : T[b][w] # NoLocation => T[b][w].seq <= m /\ b \in R
        /\ \A b \in Blocks \ ShortLived : T[b][w] # NoLocation => T[b][w].live
        /\ \A b \in R \ ShortLived : b \in Blocks /\ T[b][w] # NoLocation
    BY Zenon DEF SoundFor
  <2>2. \A s \in Nat : s <= m => n >= s /\ s <= n
    BY <1>1
  <2> QED
    BY <2>1, <2>2, Zenon
<1>5. /\ S \cup {n} \subseteq DOMAIN events /\ n \in (S \cup {n}) \cup {0}
      /\ \A i \in S \cup {n} : i <= n
  <2>1. n <= n
    BY <1>1
  <2> QED
    BY <1>1, <2>1, Zenon DEF SoundFor
<1> HIDE DEF c, new, R, Q
<1>6. /\ \A b \in Blocks \ LocalBlocks : U[b][w] # NoLocation => U[b][w].seq <= n /\ b \in Q
      /\ \A b \in Blocks \ ShortLived : U[b][w] # NoLocation => U[b][w].live
      /\ \A b \in Q \ ShortLived : b \in Blocks /\ U[b][w] # NoLocation
  <2>1. CASE events[n].type = "block_stored"
    <3>1. U[c][w] = new /\ c \in Q /\ n <= n
      BY <1>0, <1>1, <1>3, <2>1
    <3> QED
      BY <1>0, <1>1, <1>2, <1>3, <1>4, <3>1, ZenonT(30)
  <2>2. CASE events[n].type = "block_evicted"
    <3>1. c \notin Q /\ (U[c][w] = NoLocation \/ U[c][w] = T[c][w])
      BY <1>0, <1>3, <2>2, Zenon
    <3>2. c \notin LocalBlocks => U[c][w] = NoLocation
      BY <1>0, <1>1, <1>4, <2>2, Zenon
    <3> QED
      BY <1>0, <1>1, <1>3, <1>4, <3>1, <3>2, ZenonT(30)
  <2> QED
    BY <1>1, <2>1, <2>2, Zenon
<1> QED
  BY <1>5, <1>6, Zenon DEF SoundFor, Q

\* What one event of the feed that is handed over leaves is sound: it is above
\* the watermark exactly when it is later than all before it.
LEMMA HandedSound ==
  ASSUME FeedInv, NEW w \in Workers, NEW n \in DOMAIN feed[w], HandOver(feed[w][n]),
         UNCHANGED <<feed, saved>>
  PROVE  /\ IndexIsSound' /\ byBlock' \in Table /\ nextSeqNo' \in SeqNos
         /\ lastSeqByWorker' \in [Workers -> SeqNos] /\ file' = file
         /\ intime' \in [Workers -> SUBSET Nat]
<1> DEFINE e == feed[w][n]
<1>1. /\ feed[w] \in Seq(Events) /\ e \in Events /\ e.worker = w /\ e.seq = n /\ e.id = <<w, n>>
      /\ n \in Nat /\ n > 0 /\ n <= Len(feed[w])
  BY FeedEvents, Zenon
<1>2. /\ byBlock \in Table /\ nextSeqNo \in SeqNos /\ lastSeqByWorker \in [Workers -> SeqNos]
      /\ intime \in [Workers -> SUBSET Nat]
      /\ \A v \in Workers : lastSeqByWorker[v] \in Nat
  BY DEF FeedInv, FeedType, SeqNos
<1>3. SoundFor(feed[w], byBlock, lastSeqByWorker[w], intime[w], w)
  BY Zenon DEF FeedInv, IndexIsSound, Sound
<1>4. (\A i \in intime[w] : i < n) <=> n > lastSeqByWorker[w]
  <2>1. /\ lastSeqByWorker[w] \in intime[w] \cup {0} /\ \A i \in intime[w] : i <= lastSeqByWorker[w]
        /\ intime[w] \subseteq Nat /\ lastSeqByWorker[w] \in Nat
    BY <1>2, <1>3, Zenon DEF SoundFor
  <2> QED
    BY <1>1, <2>1
<1>5. intime' = IF n > lastSeqByWorker[w] THEN [intime EXCEPT ![w] = @ \cup {n}] ELSE intime
  BY <1>1, <1>4, Zenon DEF HandOver
<1>6. /\ byBlock' \in Table /\ nextSeqNo' \in SeqNos
      /\ lastSeqByWorker' \in [Workers -> SeqNos] /\ file' = file
      /\ appliedEventIDs' \subseteq appliedEventIDs \cup {<<w, n>>}
      /\ \A v \in Workers \ {w} :
           /\ lastSeqByWorker'[v] = lastSeqByWorker[v]
           /\ \A b \in Blocks : byBlock'[b][v] = byBlock[b][v]
      /\ n <= lastSeqByWorker[w] => UNCHANGED <<byBlock, lastSeqByWorker>>
      /\ n > lastSeqByWorker[w] =>
           /\ lastSeqByWorker'[w] = n /\ n < MaxInt64
           /\ TakesEvent(feed[w], byBlock, byBlock', n, w)
  <2>1. CASE e.id \in appliedEventIDs
    <3>1. n <= lastSeqByWorker[w] /\ ~(n > lastSeqByWorker[w])
      <4>1. n <= lastSeqByWorker[w]
        <5>1. \A v \in Workers, i \in Nat : <<v, i>> \in appliedEventIDs => i <= lastSeqByWorker[v]
          BY Zenon DEF FeedInv, IndexIsSound
        <5>2. <<w, n>> \in appliedEventIDs /\ n \in Nat
          BY <1>1, <2>1, Zenon
        <5> QED
          BY <5>1, <5>2, Zenon
      <4> QED
        BY <1>1, <1>2, <4>1
    <3>2. UNCHANGED <<byBlock, nextSeqNo, lastSeqByWorker, appliedEventIDs, file>>
      BY <2>1, Zenon DEF HandOver, idxVars
    <3> QED
      BY <1>2, <3>1, <3>2, Zenon
  <2>2. CASE e.id \notin appliedEventIDs
    <3>1. ApplyEvent(e) /\ e.seq > 0 /\ n < MaxInt64
      BY <1>1, <2>2, Zenon DEF HandOver, ApplyEvent, ValidEvent
    <3> HIDE DEF e
    <3>2. /\ byBlock' \in Table /\ nextSeqNo' \in SeqNos
          /\ lastSeqByWorker' \in [Workers -> SeqNos] /\ file' = file
          /\ appliedEventIDs' \subseteq appliedEventIDs \cup {e.id}
          /\ \A v \in Workers \ {e.worker} :
               /\ lastSeqByWorker'[v] = lastSeqByWorker[v]
               /\ \A b \in Blocks : byBlock'[b][v] = byBlock[b][v]
          /\ e.seq <= lastSeqByWorker[e.worker] => UNCHANGED <<byBlock, lastSeqByWorker>>
          /\ e.seq > lastSeqByWorker[e.worker] =>
               /\ lastSeqByWorker'[e.worker] = e.seq
               /\ \A b \in Blocks \ {e.block} : byBlock'[b][e.worker] = byBlock[b][e.worker]
               /\ byBlock'[e.block][e.worker] =
                    IF e.type = "block_stored"
                    THEN [seq |-> e.seq, ordered |-> TRUE, live |-> TRUE]
                    ELSE IF /\ Present(e.block, e.worker)
                            /\ e.seq >= byBlock[e.block][e.worker].seq
                    THEN NoLocation ELSE byBlock[e.block][e.worker]
      BY <1>1, <1>2, <3>1, ApplyFacts, Zenon
    <3>3. n > lastSeqByWorker[w] => TakesEvent(feed[w], byBlock, byBlock', n, w)
      BY <1>1, <3>2, Zenon DEF TakesEvent, Present, e
    <3> QED
      BY <1>1, <3>1, <3>2, <3>3, Zenon
  <2> QED
    BY <2>1, <2>2, Zenon
<1> HIDE DEF e
<1>7. SoundFor(feed[w], byBlock', lastSeqByWorker'[w], intime'[w], w)
  <2>1. CASE n <= lastSeqByWorker[w]
    <3>1. ~(n > lastSeqByWorker[w])
      BY <1>1, <1>2, <2>1
    <3> QED
      BY <1>3, <1>5, <1>6, <2>1, <3>1, Zenon
  <2>2. CASE n > lastSeqByWorker[w]
    <3>1. intime'[w] = intime[w] \cup {n}
      <4>1. intime' = [intime EXCEPT ![w] = @ \cup {n}]
        BY <1>5, <2>2, Zenon
      <4> QED
        BY <1>2, <4>1, Zenon
    <3>2. \A b \in Blocks : byBlock[b][w] # NoLocation => byBlock[b][w].seq \in Nat
      <4>1. \A b \in Blocks : byBlock[b][w] # NoLocation => byBlock[b][w] \in Location
        BY <1>2 DEF Table
      <4> QED
        BY <4>1 DEF Location, SeqNos
    <3>3. SoundFor(feed[w], byBlock', n, intime[w] \cup {n}, w)
      BY <1>1, <1>2, <1>3, <1>6, <2>2, <3>2, EventSound, Zenon
    <3> QED
      BY <1>6, <2>2, <3>1, <3>3, Zenon
  <2> QED
    BY <1>1, <1>2, <2>1, <2>2
<1>8. ASSUME NEW v \in Workers, v # w
      PROVE  SoundFor(feed[v], byBlock', lastSeqByWorker'[v], intime'[v], v)
  <2>1. SoundFor(feed[v], byBlock, lastSeqByWorker[v], intime[v], v)
    BY Zenon DEF FeedInv, IndexIsSound, Sound
  <2>2. /\ lastSeqByWorker'[v] = lastSeqByWorker[v] /\ intime'[v] = intime[v]
        /\ \A b \in Blocks : byBlock'[b][v] = byBlock[b][v]
    BY <1>2, <1>5, <1>6, <1>8, Zenon
  <2> QED
    BY <2>1, <2>2, Zenon DEF SoundFor
<1>9. Sound(byBlock, lastSeqByWorker, intime)'
  BY <1>7, <1>8, Zenon DEF Sound
<1>10. ASSUME NEW v \in Workers, NEW i \in Nat, <<v, i>> \in appliedEventIDs'
       PROVE  i <= lastSeqByWorker'[v]
  <2>0. \A u \in Workers : lastSeqByWorker'[u] \in Nat
    BY <1>6 DEF SeqNos
  <2>1. CASE <<v, i>> = <<w, n>>
    <3>1. v = w /\ i = n
      BY <2>1, Zenon
    <3>2. CASE n > lastSeqByWorker[w]
      BY <1>1, <1>6, <3>1, <3>2
    <3>3. CASE n <= lastSeqByWorker[w]
      BY <1>6, <3>1, <3>3, Zenon
    <3> QED
      BY <1>1, <1>2, <3>2, <3>3
  <2>2. CASE <<v, i>> # <<w, n>>
    <3>1. <<v, i>> \in appliedEventIDs
      BY <1>6, <1>10, <2>2, Zenon
    <3>2. i <= lastSeqByWorker[v]
      BY <3>1, Zenon DEF FeedInv, IndexIsSound
    <3>3. lastSeqByWorker[v] <= lastSeqByWorker'[v]
      <4>1. CASE v # w
        BY <1>2, <1>6, <4>1
      <4>2. CASE v = w /\ n > lastSeqByWorker[w]
        BY <1>1, <1>2, <1>6, <4>2
      <4>3. CASE v = w /\ n <= lastSeqByWorker[w]
        BY <1>2, <1>6, <4>3
      <4> QED
        BY <1>1, <1>2, <4>1, <4>2, <4>3
    <3> QED
      BY <1>2, <2>0, <3>2, <3>3
  <2> QED
    BY <2>1, <2>2, Zenon
<1>11. (file # NoSnapshot => Sound(file.byBlock, file.lastSeqByWorker, saved))'
  <2>1. file # NoSnapshot => Sound(file.byBlock, file.lastSeqByWorker, saved)
    BY Zenon DEF FeedInv, IndexIsSound
  <2> QED
    BY <1>6, <2>1, Zenon DEF Sound
<1>12. intime' \in [Workers -> SUBSET Nat]
  BY <1>1, <1>2, <1>5, Zenon
<1> QED
  BY <1>6, <1>9, <1>10, <1>11, <1>12, Zenon DEF IndexIsSound, Sound

-----------------------------------------------------------------------------
(* The steps *)

\* What is replayed is of the feed as long as the feed and the log are.
LEMMA LogKept ==
  ASSUME LogIsFeed, UNCHANGED <<feed, log>>,
         replay' = replay \/ \A p \in DOMAIN replay' : OfFeed(feed, replay'[p])
  PROVE  LogIsFeed'
<1>1. /\ \A w \in Workers : \A i \in DOMAIN feed[w] :
           feed[w][i].worker = w /\ feed[w][i].seq = i /\ feed[w][i].id = <<w, i>>
      /\ log # Damaged => \A p \in DOMAIN log : OfFeed(feed, log[p])
      /\ \A p \in DOMAIN replay' : OfFeed(feed, replay'[p])
  BY Zenon DEF LogIsFeed
<1>2. (\A w \in Workers : \A i \in DOMAIN feed[w] :
         feed[w][i].worker = w /\ feed[w][i].seq = i /\ feed[w][i].id = <<w, i>>)'
  BY <1>1, Zenon
<1>3. (log # Damaged => \A p \in DOMAIN log : OfFeed(feed, log[p]))'
  BY <1>1
<1>4. (\A p \in DOMAIN replay : OfFeed(feed, replay[p]))'
  BY <1>1
<1> QED
  BY <1>2, <1>3, <1>4, Zenon DEF LogIsFeed

\* An event that is delivered, in whatever order.
LEMMA DeliverStep ==
  ASSUME NEW w \in Workers, NEW i \in 1..Produced(w) PROVE FeedInv /\ Deliver(w, i) => FeedInv'
<1> SUFFICES ASSUME FeedInv, Deliver(w, i) PROVE FeedInv'
  BY Zenon
<1>1. HandOver(feed[w][i]) /\ UNCHANGED <<feed, log, replay, saved>>
  BY Zenon DEF Deliver
<1>2. i \in DOMAIN feed[w]
  <2>1. feed[w] \in Seq(Events)
    BY Zenon DEF FeedInv, FeedType
  <2> QED
    BY <2>1 DEF Produced
<1>3. /\ IndexIsSound' /\ byBlock' \in Table /\ nextSeqNo' \in SeqNos
      /\ lastSeqByWorker' \in [Workers -> SeqNos] /\ file' = file
      /\ intime' \in [Workers -> SUBSET Nat]
  BY <1>1, <1>2, HandedSound, Zenon
<1>4. FeedType'
  BY <1>1, <1>3, Zenon DEF FeedInv, FeedType
<1>5. LogIsFeed'
  BY <1>1, LogKept, Zenon DEF FeedInv
<1> QED
  BY <1>3, <1>4, <1>5, Zenon DEF FeedInv

\* An event that is replayed.
LEMMA ReplayStep == FeedInv /\ ReplayOne => FeedInv'
<1> SUFFICES ASSUME FeedInv, ReplayOne PROVE FeedInv'
  BY Zenon
<1> DEFINE e == Head(replay)
<1>1. /\ replay # <<>> /\ HandOver(e) /\ replay' = Tail(replay) /\ UNCHANGED <<feed, log, saved>>
  BY Zenon DEF ReplayOne
<1>2. replay \in Seq(Events) /\ \A p \in DOMAIN replay : OfFeed(feed, replay[p])
  BY Zenon DEF FeedInv, FeedType, LogIsFeed
<1>3. e = replay[1] /\ 1 \in DOMAIN replay
  BY <1>1, <1>2
<1>4. /\ replay' \in Seq(Events)
      /\ \A p \in DOMAIN replay' : p + 1 \in DOMAIN replay /\ replay'[p] = replay[p + 1]
  BY <1>1, <1>2
<1> HIDE DEF e
<1>5. e.worker \in Workers /\ e.seq \in DOMAIN feed[e.worker] /\ feed[e.worker][e.seq] = e
  BY <1>2, <1>3, Zenon DEF OfFeed
<1>6. /\ IndexIsSound' /\ byBlock' \in Table /\ nextSeqNo' \in SeqNos
      /\ lastSeqByWorker' \in [Workers -> SeqNos] /\ file' = file
      /\ intime' \in [Workers -> SUBSET Nat]
  <2>1. PICK w \in Workers : \E n \in DOMAIN feed[w] : feed[w][n] = e
    BY <1>5, Zenon
  <2>3. PICK n \in DOMAIN feed[w] : feed[w][n] = e
    BY <2>1, Zenon
  <2>2. HandOver(feed[w][n])
    BY <1>1, <2>3, Zenon
  <2> QED
    BY <1>1, <2>2, HandedSound, Zenon
<1>7. FeedType'
  BY <1>1, <1>4, <1>6, Zenon DEF FeedInv, FeedType
<1>8. LogIsFeed'
  <2>1. \A p \in DOMAIN replay' : OfFeed(feed, replay'[p])
    BY <1>2, <1>4, Zenon
  <2> QED
    BY <1>1, <2>1, LogKept, Zenon DEF FeedInv
<1> QED
  BY <1>6, <1>7, <1>8, Zenon DEF FeedInv

\* What leaves the feed and the watermarks alone.
LEMMA QuietKeeps ==
  ASSUME FeedInv, UNCHANGED <<feed, log, replay, intime>>, lastSeqByWorker' = lastSeqByWorker,
         saved' \in [Workers -> SUBSET Nat],
         byBlock' \in Table, nextSeqNo' \in SeqNos, (file # NoSnapshot => file \in Snapshots)',
         IndexIsSound'
  PROVE  FeedInv'
<1>1. FeedType'
  BY Zenon DEF FeedInv, FeedType
<1>2. LogIsFeed'
  BY LogKept, Zenon DEF FeedInv
<1> QED
  BY <1>1, <1>2, Zenon DEF FeedInv

\* A local observation only changes the location of a local block.
LEMMA ObserveStep ==
  ASSUME NEW w \in Workers, NEW b \in LocalBlocks
  PROVE  FeedInv /\ Observe(b, w) => FeedInv'
<1> SUFFICES ASSUME FeedInv, Observe(b, w) PROVE FeedInv'
  BY Zenon
<1> DEFINE n == IF nextSeqNo < MaxInt64 THEN nextSeqNo + 1 ELSE nextSeqNo
           loc == [seq |-> n, ordered |-> FALSE, live |-> TRUE]
<1>1. byBlock \in Table /\ nextSeqNo \in SeqNos /\ lastSeqByWorker \in [Workers -> SeqNos]
  BY Zenon DEF FeedInv, FeedType
<1>2. n \in SeqNos \ {0} /\ Later(n, 0) \in SeqNos
  <2>1. 0 \in SeqNos
    BY DEF SeqNos
  <2> QED
    BY <1>1, <2>1, RevisionType, Zenon
<1>3. /\ nextSeqNo' = Later(n, 0) /\ byBlock' = SetLocation(b, w, loc)
      /\ lastSeqByWorker' = [lastSeqByWorker EXCEPT ![w] = Later(@, 0)]
      /\ UNCHANGED <<appliedEventIDs, file>> /\ UNCHANGED envVars
  <2>1. (0 > 0) = FALSE
    OBVIOUS
  <2> QED
    BY <2>1, Zenon DEF Observe, Store, StoreLocated, SeqFresh
<1>4. lastSeqByWorker' = lastSeqByWorker
  <2>1. Later(lastSeqByWorker[w], 0) = lastSeqByWorker[w]
    BY <1>1 DEF Later, SeqNos
  <2> QED
    BY <1>1, <1>3, <2>1, Zenon
<1>5. loc \in Location /\ loc # NoLocation /\ loc.live
  <2>1. loc \in Location /\ loc.live
    BY <1>2, Zenon DEF Location
  <2> QED
    BY <2>1, Zenon
<1> HIDE DEF n, loc
<1>6. /\ byBlock' \in Table /\ byBlock'[b][w] = loc
      /\ \A c \in Blocks, v \in Workers : c # b \/ v # w => byBlock'[c][v] = byBlock[c][v]
  BY <1>1, <1>3, <1>5, LocationSet
<1>7. UNCHANGED <<feed, log, replay, intime, saved>>
  BY <1>3, Zenon DEF envVars
<1>8. ASSUME NEW v \in Workers
      PROVE  SoundFor(feed[v], byBlock', lastSeqByWorker[v], intime[v], v)
  <2>1. SoundFor(feed[v], byBlock, lastSeqByWorker[v], intime[v], v)
    BY Zenon DEF FeedInv, IndexIsSound, Sound
  <2>2. \A c \in Blocks \ LocalBlocks : byBlock'[c][v] = byBlock[c][v]
    BY <1>6, Zenon
  <2>3. \A c \in Blocks : byBlock'[c][v] = byBlock[c][v] \/ byBlock'[c][v] = loc
    BY <1>6, Zenon
  <2> QED
    BY <1>5, <2>1, <2>2, <2>3, Zenon DEF SoundFor
<1>9. IndexIsSound'
  BY <1>3, <1>4, <1>7, <1>8, ZenonT(30) DEF FeedInv, IndexIsSound, Sound
<1>10. saved' \in [Workers -> SUBSET Nat]
  BY <1>7, Zenon DEF FeedInv, FeedType
<1>11. (file # NoSnapshot => file \in Snapshots)'
  BY <1>3, Zenon DEF FeedInv, FeedType
<1> QED
  BY <1>2, <1>3, <1>4, <1>6, <1>7, <1>9, <1>10, <1>11, QuietKeeps, Zenon

\* The clock only passes the time to live of a short-lived block.
LEMMA ClockStep ==
  ASSUME NEW w \in Workers, NEW b \in ShortLived
  PROVE  FeedInv /\ Clock(b, w) => FeedInv'
<1> SUFFICES ASSUME FeedInv, Clock(b, w) PROVE FeedInv'
  BY Zenon
<1> DEFINE loc == [byBlock[b][w] EXCEPT !.live = FALSE]
<1>1. byBlock \in Table /\ nextSeqNo \in SeqNos /\ lastSeqByWorker \in [Workers -> SeqNos]
  BY Zenon DEF FeedInv, FeedType
<1>2. /\ byBlock[b][w] # NoLocation /\ byBlock' = SetLocation(b, w, loc)
      /\ UNCHANGED <<nextSeqNo, lastSeqByWorker, appliedEventIDs, file>> /\ UNCHANGED envVars
  BY Zenon DEF Clock, Expire, Visible, Present
<1>3. loc \in Location /\ loc.seq = byBlock[b][w].seq
  <2>1. byBlock[b][w] \in Location
    BY <1>1, <1>2 DEF Table
  <2> QED
    BY <2>1, Zenon DEF Location
<1>4. loc # NoLocation
  BY <1>3, ZenonT(30)
<1> HIDE DEF loc
<1>5. /\ byBlock' \in Table /\ byBlock'[b][w] = loc
      /\ \A c \in Blocks, v \in Workers : c # b \/ v # w => byBlock'[c][v] = byBlock[c][v]
  BY <1>1, <1>2, <1>3, LocationSet
<1>6. UNCHANGED <<feed, log, replay, intime, saved>>
  BY <1>2, Zenon DEF envVars
<1>7. ASSUME NEW v \in Workers
      PROVE  SoundFor(feed[v], byBlock', lastSeqByWorker[v], intime[v], v)
  <2>1. SoundFor(feed[v], byBlock, lastSeqByWorker[v], intime[v], v)
    BY Zenon DEF FeedInv, IndexIsSound, Sound
  <2>2. \A c \in Blocks \ ShortLived : byBlock'[c][v] = byBlock[c][v]
    BY <1>5, Zenon
  <2>3. \A c \in Blocks : /\ byBlock'[c][v] = NoLocation <=> byBlock[c][v] = NoLocation
                          /\ byBlock'[c][v].seq = byBlock[c][v].seq
    BY <1>2, <1>3, <1>4, <1>5, Zenon
  <2> QED
    BY <2>1, <2>2, <2>3, ZenonT(30) DEF SoundFor
<1>8. IndexIsSound'
  BY <1>2, <1>6, <1>7, ZenonT(30) DEF FeedInv, IndexIsSound, Sound
<1>9. saved' \in [Workers -> SUBSET Nat]
  BY <1>6, Zenon DEF FeedInv, FeedType
<1>10. (file # NoSnapshot => file \in Snapshots)' /\ nextSeqNo' \in SeqNos
  BY <1>2, Zenon DEF FeedInv, FeedType
<1> QED
  BY <1>2, <1>5, <1>6, <1>8, <1>9, <1>10, QuietKeeps, Zenon

\* The snapshot leaves out what has expired, and nothing else.
LEMMA SaveStep == FeedInv /\ Save => FeedInv'
<1> SUFFICES ASSUME FeedInv, Save PROVE FeedInv'
  BY Zenon
<1> DEFINE kept == [b \in Blocks |-> [w \in Workers |->
                      IF Visible(b, w) THEN byBlock[b][w] ELSE NoLocation]]
<1>1. byBlock \in Table /\ nextSeqNo \in SeqNos /\ lastSeqByWorker \in [Workers -> SeqNos]
  BY Zenon DEF FeedInv, FeedType
<1>2. /\ file' = [byBlock |-> kept, nextSeqNo |-> nextSeqNo, lastSeqByWorker |-> lastSeqByWorker]
      /\ UNCHANGED <<byBlock, nextSeqNo, lastSeqByWorker, appliedEventIDs>>
      /\ saved' = intime /\ UNCHANGED <<feed, log, replay, intime>>
  BY Zenon DEF Save, DumpSnapshot
<1>3. kept \in Table
  BY <1>1, Zenon DEF Table
<1>4. \A b \in Blocks, w \in Workers :
        kept[b][w] = IF byBlock[b][w] # NoLocation /\ byBlock[b][w].live
                     THEN byBlock[b][w] ELSE NoLocation
  BY Zenon DEF Visible, Present
<1> HIDE DEF kept
<1>5. file' \in Snapshots /\ file'.byBlock = kept /\ file'.lastSeqByWorker = lastSeqByWorker
  BY <1>1, <1>2, <1>3, Zenon DEF Snapshots
<1>6. saved' \in [Workers -> SUBSET Nat]
  BY <1>2, Zenon DEF FeedInv, FeedType
<1>7. ASSUME NEW w \in Workers
      PROVE  SoundFor(feed[w], kept, lastSeqByWorker[w], intime[w], w)
  <2>1. SoundFor(feed[w], byBlock, lastSeqByWorker[w], intime[w], w)
    BY Zenon DEF FeedInv, IndexIsSound, Sound
  <2>2. \A b \in Blocks : kept[b][w] # NoLocation => kept[b][w] = byBlock[b][w]
    BY <1>4, Zenon
  <2>3. \A b \in Blocks \ ShortLived : byBlock[b][w] # NoLocation => kept[b][w] = byBlock[b][w]
    BY <1>4, <2>1, Zenon DEF SoundFor
  <2> QED
    BY <2>1, <2>2, <2>3, Zenon DEF SoundFor
<1>8. IndexIsSound'
  BY <1>2, <1>5, <1>7, Zenon DEF FeedInv, IndexIsSound, Sound
<1> QED
  BY <1>1, <1>2, <1>5, <1>6, <1>8, QuietKeeps, Zenon

\* A set of sequence numbers has a greatest one.
LEMMA GreatestSeqNo ==
  ASSUME NEW S, S \subseteq SeqNos, S # {} PROVE Max(S) \in SeqNos
<1> DEFINE R == {ss \in Nat \X Nat : ss[1] < ss[2]}
           D == {MaxInt64 - x : x \in S}
<1>1. IsWellFoundedOn(R, Nat)
  BY NatLessThanWellFounded, Zenon DEF OpToRel
<1>2. D \subseteq Nat /\ D # {}
  <2>1. \A x \in S : x \in Nat /\ MaxInt64 - x \in Nat
    BY DEF SeqNos
  <2>2. PICK x \in S : TRUE
    BY Zenon
  <2>3. MaxInt64 - x \in D
    BY Zenon
  <2> QED
    BY <2>1, <2>3, Zenon
<1>3. PICK d \in D : \A c \in D : ~ (<<c, d>> \in R)
  <2> HIDE DEF R, D
  <2> QED
    BY <1>1, <1>2, WFMin, Zenon
<1>4. PICK x \in S : d = MaxInt64 - x
  BY Zenon
<1>5. \A y \in S : x >= y
  <2> SUFFICES ASSUME NEW y \in S PROVE x >= y
    BY Zenon
  <2>1. ~ (MaxInt64 - y < MaxInt64 - x)
    BY <1>2, <1>3, <1>4, Zenon
  <2> QED
    BY <2>1 DEF SeqNos
<1> QED
  BY <1>5, Zenon DEF Max

\* What ReplayEventLog reads is in the log.
LEMMA ReadFromLog ==
  ASSUME FeedInv, NEW limit \in 0..MaxEvents
  PROVE  /\ LastEvents(limit) \in Seq(Events)
         /\ \A p \in DOMAIN LastEvents(limit) : OfFeed(feed, LastEvents(limit)[p])
<1>1. CASE log = Damaged
  <2>1. LastEvents(limit) = <<>>
    BY <1>1, Zenon DEF LastEvents
  <2>2. <<>> \in Seq(Events) /\ DOMAIN <<>> = {}
    OBVIOUS
  <2> QED
    BY <2>1, <2>2, Zenon
<1>2. CASE log # Damaged /\ ~(0 < limit /\ limit < Len(log))
  <2>1. LastEvents(limit) = log
    BY <1>2, Zenon DEF LastEvents
  <2> QED
    BY <1>2, <2>1, Zenon DEF FeedInv, FeedType, LogIsFeed
<1>3. CASE log # Damaged /\ 0 < limit /\ limit < Len(log)
  <2> DEFINE n == Len(log) - limit
             rest == SubSeq(log, n + 1, Len(log))
  <2>1. LastEvents(limit) = rest
    BY <1>3, Zenon DEF LastEvents
  <2>2. log \in Seq(Events) /\ \A p \in DOMAIN log : OfFeed(feed, log[p])
    BY <1>3, Zenon DEF FeedInv, FeedType, LogIsFeed
  <2>3. /\ rest \in Seq(Events)
        /\ \A p \in DOMAIN rest : n + p \in DOMAIN log /\ rest[p] = log[n + p]
    BY <1>3, <2>2
  <2> HIDE DEF rest, n
  <2> QED
    BY <2>1, <2>2, <2>3, Zenon
<1> QED
  BY <1>1, <1>2, <1>3, Zenon

\* A restart from the snapshot.
LEMMA RestartStep ==
  ASSUME NEW limit \in 0..MaxEvents
  PROVE  FeedInv /\ RestartFromSnapshot(limit) => FeedInv'
<1> SUFFICES ASSUME FeedInv, RestartFromSnapshot(limit) PROVE FeedInv'
  BY Zenon
<1>1. /\ file # NoSnapshot /\ byBlock' = file.byBlock
      /\ lastSeqByWorker' = file.lastSeqByWorker /\ appliedEventIDs' = {}
      /\ replay' = LastEvents(limit) /\ intime' = saved
      /\ UNCHANGED <<file, feed, log, saved>>
  BY Zenon DEF RestartFromSnapshot, LoadSnapshot
<1>2. /\ file \in Snapshots /\ file.byBlock \in Table /\ file.nextSeqNo \in SeqNos
      /\ file.lastSeqByWorker \in [Workers -> SeqNos]
  BY <1>1, Zenon DEF FeedInv, FeedType, Snapshots
<1>3. nextSeqNo' \in SeqNos
  <2> DEFINE listed == {l \in UNION {{file.byBlock[b][w] : w \in Workers} : b \in Blocks} :
                          l # NoLocation}
             S == {file.nextSeqNo} \cup {l.seq : l \in listed}
  <2>1. nextSeqNo' = Max(S)
    BY Zenon DEF RestartFromSnapshot, LoadSnapshot
  <2>2. listed \subseteq Location
    BY <1>2 DEF Table
  <2>3. S \subseteq SeqNos /\ S # {}
    BY <1>2, <2>2, Zenon DEF Location
  <2> HIDE DEF S
  <2> QED
    BY <2>1, <2>3, GreatestSeqNo, Zenon
<1>4. /\ LastEvents(limit) \in Seq(Events)
      /\ \A p \in DOMAIN LastEvents(limit) : OfFeed(feed, LastEvents(limit)[p])
  BY ReadFromLog, Zenon
<1>5. FeedType'
  BY <1>1, <1>2, <1>3, <1>4, Zenon DEF FeedInv, FeedType
<1>6. LogIsFeed'
  <2>1. \A p \in DOMAIN replay' : OfFeed(feed, replay'[p])
    BY <1>1, <1>4, Zenon
  <2> QED
    BY <1>1, <2>1, LogKept, Zenon DEF FeedInv
<1>7. IndexIsSound'
  BY <1>1, Zenon DEF FeedInv, IndexIsSound, Sound
<1> QED
  BY <1>5, <1>6, <1>7, Zenon DEF FeedInv

\* An empty table and watermarks of 0 are sound.
LEMMA EmptySound ==
  ASSUME NEW events, NEW T, NEW w \in Workers, NEW n, NEW S, n = 0, S = {},
         \A b \in Blocks : T[b][w] = NoLocation
  PROVE  SoundFor(events, T, n, S, w)
  BY ResidentAtFirst, Zenon DEF SoundFor

\* A restart without a snapshot.
LEMMA RestartEmptyStep ==
  ASSUME NEW limit \in 0..MaxEvents
  PROVE  FeedInv /\ RestartEmpty(limit) => FeedInv'
<1> SUFFICES ASSUME FeedInv, RestartEmpty(limit) PROVE FeedInv'
  BY Zenon
<1>1. /\ byBlock' = [b \in Blocks |-> [w \in Workers |-> NoLocation]]
      /\ nextSeqNo' = 0 /\ lastSeqByWorker' = [w \in Workers |-> 0]
      /\ appliedEventIDs' = {}
      /\ UNCHANGED <<file, saved>> \/ (file' = NoSnapshot /\ saved' = Nothing)
      /\ replay' = LastEvents(limit) /\ intime' = Nothing
      /\ UNCHANGED <<feed, log>>
  BY Zenon DEF RestartEmpty
<1>2. 0 \in SeqNos
  BY DEF SeqNos
<1>3. /\ byBlock' \in Table /\ lastSeqByWorker' \in [Workers -> SeqNos]
      /\ Nothing \in [Workers -> SUBSET Nat]
  BY <1>1, <1>2, Zenon DEF Table, Nothing
<1>4. /\ LastEvents(limit) \in Seq(Events)
      /\ \A p \in DOMAIN LastEvents(limit) : OfFeed(feed, LastEvents(limit)[p])
  BY ReadFromLog, Zenon
<1>5. FeedType'
  <2>1. saved' \in [Workers -> SUBSET Nat] /\ (file # NoSnapshot => file \in Snapshots)'
    BY <1>1, <1>3, Zenon DEF FeedInv, FeedType
  <2> QED
    BY <1>1, <1>2, <1>3, <1>4, <2>1, Zenon DEF FeedInv, FeedType
<1>6. LogIsFeed'
  <2>1. \A p \in DOMAIN replay' : OfFeed(feed, replay'[p])
    BY <1>1, <1>4, Zenon
  <2> QED
    BY <1>1, <2>1, LogKept, Zenon DEF FeedInv
<1>7. IndexIsSound'
  <2>1. ASSUME NEW w \in Workers
        PROVE  SoundFor(feed'[w], byBlock', lastSeqByWorker'[w], intime'[w], w)
    <3>1. /\ \A b \in Blocks : byBlock'[b][w] = NoLocation
          /\ lastSeqByWorker'[w] = 0 /\ intime'[w] = {}
      BY <1>1, Zenon DEF Nothing
    <3> QED
      BY <3>1, EmptySound, Zenon
  <2>2. (file # NoSnapshot => Sound(file.byBlock, file.lastSeqByWorker, saved))'
    <3>1. file # NoSnapshot => Sound(file.byBlock, file.lastSeqByWorker, saved)
      BY Zenon DEF FeedInv, IndexIsSound
    <3> QED
      BY <1>1, <3>1, Zenon DEF Sound
  <2> QED
    BY <1>1, <2>1, <2>2, Zenon DEF IndexIsSound, Sound
<1> QED
  BY <1>5, <1>6, <1>7, Zenon DEF FeedInv

\* A new event comes after all others of its Worker.
LEMMA ProduceStep ==
  ASSUME NEW w \in Workers, NEW b \in Blocks, NEW type \in {"block_stored", "block_evicted"}
  PROVE  FeedInv /\ Produce(w, type, b) => FeedInv'
<1> SUFFICES ASSUME FeedInv, Produce(w, type, b) PROVE FeedInv'
  BY Zenon
<1> DEFINE n == Len(feed[w]) + 1
           e == [id |-> <<w, n>>, type |-> type, block |-> b, worker |-> w, seq |-> n]
<1>1. /\ Len(feed[w]) < MaxEvents /\ feed' = [feed EXCEPT ![w] = Append(@, e)]
      /\ log' \in Appended(e)
      /\ UNCHANGED <<byBlock, nextSeqNo, lastSeqByWorker, appliedEventIDs, file>>
      /\ UNCHANGED <<replay, intime, saved>>
  BY Zenon DEF Produce, Produced, idxVars
<1>2. feed \in [Workers -> Seq(Events)] /\ log \in Seq(Events) \cup {Damaged}
  BY Zenon DEF FeedInv, FeedType
<1>3. e \in Events /\ e.worker = w /\ e.seq = n /\ e.id = <<w, n>> /\ n \in Nat
  <2>1. n \in Nat /\ n \in 1..MaxEvents
    BY <1>1, <1>2
  <2>2. n \in SeqNos /\ <<w, n>> \in EventIDs
    BY <2>1, SMTT(30) DEF SeqNos
  <2> QED
    BY <2>1, <2>2, Zenon DEF Events
<1> HIDE DEF e
<1>4. /\ feed' \in [Workers -> Seq(Events)]
      /\ feed'[w] = Append(feed[w], e) /\ \A v \in Workers \ {w} : feed'[v] = feed[v]
  BY <1>1, <1>2, <1>3
<1>5. /\ DOMAIN feed'[w] = DOMAIN feed[w] \cup {n} /\ feed'[w][n] = e
      /\ \A i \in DOMAIN feed[w] : feed'[w][i] = feed[w][i] /\ i # n
  <2>1. feed[w] \in Seq(Events)
    BY <1>2, Zenon
  <2> QED
    BY <1>3, <1>4, <2>1
<1> HIDE DEF n
<1>6. \A v \in Workers : /\ DOMAIN feed[v] \subseteq DOMAIN feed'[v]
                         /\ \A i \in DOMAIN feed[v] : feed'[v][i] = feed[v][i]
  BY <1>4, <1>5, Zenon
<1>7. OfFeed(feed', e) /\ \A d : OfFeed(feed, d) => OfFeed(feed', d)
  <2>1. OfFeed(feed', e)
    <3>1. n \in DOMAIN feed'[w] /\ feed'[w][n] = e
      BY <1>5, Zenon
    <3> QED
      BY <1>3, <3>1, Zenon DEF OfFeed
  <2>2. ASSUME NEW d, OfFeed(feed, d) PROVE OfFeed(feed', d)
    BY <1>6, <2>2, Zenon DEF OfFeed
  <2> QED
    BY <2>1, <2>2, Zenon
<1>8. /\ log' \in Seq(Events) \cup {Damaged}
      /\ log' # Damaged => \A p \in DOMAIN log' : OfFeed(feed', log'[p])
  <2>1. CASE log' = Damaged
    BY <2>1, Zenon
  <2>2. CASE log' = log
    BY <1>2, <1>7, <2>2, Zenon DEF FeedInv, LogIsFeed
  <2>3. CASE log # Damaged /\ log' = Append(log, e)
    <3>1. log \in Seq(Events) /\ \A p \in DOMAIN log : OfFeed(feed, log[p])
      BY <1>2, <2>3, Zenon DEF FeedInv, LogIsFeed
    <3>2. /\ log' \in Seq(Events)
          /\ \A p \in DOMAIN log' : log'[p] = e \/ (p \in DOMAIN log /\ log'[p] = log[p])
      BY <1>3, <2>3, <3>1
    <3> QED
      BY <1>7, <3>1, <3>2, Zenon
  <2> QED
    BY <1>1, <2>1, <2>2, <2>3, Zenon DEF Appended
<1>9. FeedType'
  BY <1>1, <1>4, <1>8, Zenon DEF FeedInv, FeedType
<1>10. LogIsFeed'
  <2>1. ASSUME NEW v \in Workers, NEW i \in DOMAIN feed'[v]
        PROVE  feed'[v][i].worker = v /\ feed'[v][i].seq = i /\ feed'[v][i].id = <<v, i>>
    <3>1. CASE i \in DOMAIN feed[v]
      <4>1. feed'[v][i] = feed[v][i]
        BY <1>6, <3>1, Zenon
      <4>2. feed[v][i].worker = v /\ feed[v][i].seq = i /\ feed[v][i].id = <<v, i>>
        BY <3>1, Zenon DEF FeedInv, LogIsFeed
      <4> QED
        BY <4>1, <4>2, Zenon
    <3>2. CASE v = w /\ i = n
      BY <1>3, <1>5, <3>2, Zenon
    <3> QED
      BY <1>4, <1>5, <3>1, <3>2, Zenon
  <2>2. \A p \in DOMAIN replay' : OfFeed(feed', replay'[p])
    BY <1>1, <1>7, Zenon DEF FeedInv, LogIsFeed
  <2> QED
    BY <1>8, <2>1, <2>2, Zenon DEF LogIsFeed
<1>11. ASSUME NEW v \in Workers, NEW T, NEW m, NEW S, SoundFor(feed[v], T, m, S, v)
       PROVE  SoundFor(feed'[v], T, m, S, v)
  <2>1. S \subseteq DOMAIN feed[v]
    BY <1>11, Zenon DEF SoundFor
  <2>2. \A i \in S : feed'[v][i] = feed[v][i]
    BY <1>6, <2>1, Zenon
  <2>3. Resident(feed'[v], S) = Resident(feed[v], S)
    BY <2>2, ResidentAppend, Zenon
  <2>4. S \subseteq DOMAIN feed'[v]
    BY <1>6, <2>1, Zenon
  <2> QED
    BY <1>11, <2>3, <2>4, Zenon DEF SoundFor
<1>12. IndexIsSound'
  <2>1. Sound(byBlock, lastSeqByWorker, intime)'
    BY <1>1, <1>11, Zenon DEF FeedInv, IndexIsSound, Sound
  <2>2. (file # NoSnapshot => Sound(file.byBlock, file.lastSeqByWorker, saved))'
    BY <1>1, <1>11, Zenon DEF FeedInv, IndexIsSound, Sound
  <2> QED
    BY <1>1, <2>1, <2>2, Zenon DEF FeedInv, IndexIsSound
<1> QED
  BY <1>9, <1>10, <1>12, Zenon DEF FeedInv

\* The invariant holds initially.
LEMMA FeedStart == FeedInit => FeedInv
<1> SUFFICES ASSUME FeedInit PROVE FeedInv
  BY Zenon
<1>1. /\ byBlock = [b \in Blocks |-> [w \in Workers |-> NoLocation]]
      /\ nextSeqNo = 0 /\ lastSeqByWorker = [w \in Workers |-> 0]
      /\ appliedEventIDs = {} /\ file = NoSnapshot
      /\ feed = [w \in Workers |-> <<>>] /\ log = <<>> /\ replay = <<>>
      /\ intime = [w \in Workers |-> {}] /\ saved = [w \in Workers |-> {}]
  BY Zenon DEF FeedInit, IndexInit, Nothing
<1>2. 0 \in SeqNos /\ <<>> \in Seq(Events) /\ DOMAIN <<>> = {}
  BY DEF SeqNos
<1>3. FeedType
  BY <1>1, <1>2, Zenon DEF FeedType, Table
<1>4. LogIsFeed
  BY <1>1, <1>2, Zenon DEF LogIsFeed
<1>5. ASSUME NEW w \in Workers PROVE SoundFor(feed[w], byBlock, lastSeqByWorker[w], intime[w], w)
  <2>1. /\ \A b \in Blocks : byBlock[b][w] = NoLocation
        /\ lastSeqByWorker[w] = 0 /\ intime[w] = {}
    BY <1>1, Zenon
  <2> QED
    BY <2>1, EmptySound, Zenon
<1>6. IndexIsSound
  BY <1>1, <1>5, Zenon DEF IndexIsSound, Sound
<1> QED
  BY <1>3, <1>4, <1>6, Zenon DEF FeedInv

\* Every step keeps the invariant.
LEMMA FeedStep == FeedInv /\ [FeedNext]_feedVars => FeedInv'
<1> SUFFICES ASSUME FeedInv, [FeedNext]_feedVars PROVE FeedInv'
  BY Zenon
<1>1. CASE \E w \in Workers, b \in Blocks, type \in {"block_stored", "block_evicted"} :
             Produce(w, type, b)
  BY <1>1, ProduceStep, Zenon
<1>2. CASE \E w \in Workers : \E i \in 1..Produced(w) : Deliver(w, i)
  BY <1>2, DeliverStep, Zenon
<1>3. CASE \E w \in Workers, b \in LocalBlocks : Observe(b, w)
  BY <1>3, ObserveStep, Zenon
<1>4. CASE \E w \in Workers, b \in ShortLived : Clock(b, w)
  BY <1>4, ClockStep, Zenon
<1>5. CASE Save
  BY <1>5, SaveStep, Zenon
<1>6. CASE \E limit \in 0..MaxEvents : RestartFromSnapshot(limit) \/ RestartEmpty(limit)
  BY <1>6, RestartStep, RestartEmptyStep, Zenon
<1>7. CASE ReplayOne
  BY <1>7, ReplayStep, Zenon
<1>8. CASE UNCHANGED feedVars
  <2>1. /\ UNCHANGED <<byBlock, nextSeqNo, lastSeqByWorker, appliedEventIDs, file>>
        /\ UNCHANGED <<feed, log, replay, intime, saved>>
    BY <1>8, Zenon DEF feedVars, idxVars, envVars
  <2>2. /\ byBlock' \in Table /\ nextSeqNo' \in SeqNos
        /\ (file # NoSnapshot => file \in Snapshots)'
        /\ saved' \in [Workers -> SUBSET Nat]
    BY <2>1, Zenon DEF FeedInv, FeedType
  <2>3. IndexIsSound'
    BY <2>1, Zenon DEF FeedInv, IndexIsSound, Sound
  <2> QED
    BY <2>1, <2>2, <2>3, QuietKeeps, Zenon
<1> QED
  BY <1>1, <1>2, <1>3, <1>4, <1>5, <1>6, <1>7, <1>8, Zenon DEF FeedNext

\* The invariant holds always.
LEMMA FeedAlways == FeedSpec => []FeedInv
  BY FeedStart, FeedStep, PTL DEF FeedSpec

\* Whatever order the events arrive in, what the index shows of the feed is what
\* the events that count have left in the Worker's cache
\* (acceptEventLocked, evictLocked, RestoreSnapshot, ReplayEventLog).
THEOREM FeedNeverOverclaims == FeedSpec => []NeverOverclaims
<1>1. FeedInv => NeverOverclaims
  BY ZenonT(30) DEF FeedInv, IndexIsSound, Sound, SoundFor, NeverOverclaims, Present
<1> QED
  BY <1>1, FeedAlways, PTL

\* Only an event that a later one of its Worker has overtaken is without effect
\* (storeLocationLocked, RestoreSnapshot, ReplayEventLog).
THEOREM FeedForgetsNothing == FeedSpec => []ForgetsNothing
<1>1. FeedInv => ForgetsNothing
  BY Zenon DEF FeedInv, IndexIsSound, Sound, SoundFor, ForgetsNothing, Present
<1> QED
  BY <1>1, FeedAlways, PTL

\* Local revisions never push the watermark past the producer, however many of
\* them are assigned (markWorkerSeqLocked).
THEOREM FeedNextIsFresh == FeedSpec => []NextEventIsFresh
<1>1. FeedInv => NextEventIsFresh
  <2> SUFFICES ASSUME FeedInv, NEW w \in Workers PROVE lastSeqByWorker[w] <= Produced(w)
    BY Zenon DEF NextEventIsFresh
  <2>1. feed[w] \in Seq(Events) /\ lastSeqByWorker[w] \in DOMAIN feed[w] \cup {0}
    BY Zenon DEF FeedInv, FeedType, IndexIsSound, Sound, SoundFor
  <2> QED
    BY <2>1 DEF Produced
<1> QED
  BY <1>1, FeedAlways, PTL

-----------------------------------------------------------------------------
(* The registrations of the Workers *)

HIDE FeedAssumption
USE RouterAssumption

\* The requests that are being proxied to w.
Proxying(w) == {r \in Requests : req[r].pc = "proxying" /\ req[r].worker = w}

RequestType ==
  /\ req \in [Requests -> [pc : {"idle", "selected", "proxying"},
                           worker : Workers \cup {NoWorker},
                           identity : Identities \cup {NoWorker}]]
  /\ \A r \in Requests : req[r].pc # "idle" => req[r].worker \in Workers

RegistrationType == workers \in [Workers -> WorkerStates \cup {Unregistered}]

\* The inductive invariant of the requests.  ProxiedWorkerStays needs
\* InflightIsExact: it is the count that keeps a Worker from being retired.
RequestInv ==
  /\ RequestType /\ RegistrationType
  /\ routerInflight \in [Workers -> Nat]
  /\ InflightIsExact
  /\ ProxiedWorkerStays

\* The set of the requests is finite: one more or one less counts by one.
LEMMA CountingRequests ==
  ASSUME NEW A \in SUBSET Requests, NEW r \in Requests
  PROVE  /\ r \notin A => Cardinality(A \cup {r}) = Cardinality(A) + 1
         /\ r \in A => Cardinality(A \ {r}) = Cardinality(A) - 1
         /\ Cardinality(A) \in Nat
         /\ Cardinality(A) = 0 <=> A = {}
<1>1. IsFiniteSet(A)
  BY FS_Subset, Zenon
<1> QED
  BY <1>1, FS_AddElement, FS_RemoveElement, FS_CardinalityType, FS_EmptySet, Zenon

\* The count in terms of Proxying.
LEMMA InflightCounts ==
  InflightIsExact <=> \A w \in Workers : routerInflight[w] = Cardinality(Proxying(w))
  BY Zenon DEF InflightIsExact, Proxying

\* normalizeWorkerDefaults leaves no field empty.
LEMMA NormalizedStates ==
  ASSUME NEW list \in WorkerLists
  PROVE  /\ NormalizedList(list) \in [Workers -> WorkerStates \cup {Unregistered}]
         /\ \A w \in Workers : NormalizedList(list)[w] = Unregistered <=> list[w] = Unregistered
<1>1. ASSUME NEW report \in WorkerReports PROVE Normalized(report) \in WorkerStates
  <2> DEFINE health    == IF report.health = "" THEN "ready" ELSE report.health
             readiness == IF report.readiness = "" THEN ReadinessFor(health)
                                                    ELSE report.readiness
  <2>1. health \in Healths /\ readiness \in Readinesses
    BY Zenon DEF WorkerReports, Healths, Readinesses, ReadinessFor
  <2> QED
    BY <2>1, Zenon DEF Normalized, WorkerReports, WorkerStates, Healths, Readinesses
<1> QED
  BY <1>1, Zenon DEF NormalizedList, WorkerLists

\* At the start no request is served.
LEMMA RequestInit == Init => RequestInv
<1> SUFFICES ASSUME Init PROVE RequestInv
  BY Zenon
<1>1. \A w \in Workers : Proxying(w) = {}
  BY Zenon DEF Init, Idle, Proxying
<1>2. InflightIsExact
  BY <1>1, InflightCounts, FS_EmptySet, Zenon DEF Init
<1>3. RegistrationType
  BY NormalizedStates, Zenon DEF Init, RegistrationType
<1> QED
  BY <1>2, <1>3, Zenon DEF Init, Idle, RequestInv, RequestType, ProxiedWorkerStays

\* A Worker with requests is neither retired nor given another identity.
LEMMA RequestReplace ==
  ASSUME RequestInv, NEW list \in WorkerLists, ReplaceWorkers(list)
  PROVE  RequestInv'
<1>1. /\ workers' = NormalizedList(list) /\ NoConflict(workers')
      /\ UNCHANGED <<routerInflight, req>>
  BY Zenon DEF ReplaceWorkers
<1>2. RegistrationType'
  BY <1>1, NormalizedStates, Zenon DEF RegistrationType
<1>3. ASSUME NEW r \in Requests, req[r].pc = "proxying"
      PROVE  routerInflight[req[r].worker] # 0
  <2>1. PICK w \in Workers : w = req[r].worker
    BY <1>3, Zenon DEF RequestInv, RequestType
  <2>2. Proxying(w) \in SUBSET Requests /\ r \in Proxying(w)
    BY <1>3, <2>1, Zenon DEF Proxying
  <2> QED
    BY <2>1, <2>2, CountingRequests, InflightCounts, Zenon DEF RequestInv
<1>4. ProxiedWorkerStays'
  BY <1>1, <1>3, Zenon DEF RequestInv, RequestType, ProxiedWorkerStays, Registered, NoConflict,
                    SafeToRemove
<1> QED
  BY <1>1, <1>2, <1>4, Zenon DEF RequestInv, RequestType, InflightIsExact

\* Draining changes flags only.
LEMMA DrainFacts ==
  ASSUME RegistrationType, NEW w \in Workers, Drain(w) \/ Undrain(w)
  PROVE  /\ RegistrationType'
         /\ \A v \in Workers : /\ Registered(v)' <=> Registered(v)
                               /\ workers'[v].identity = workers[v].identity
<1>1. workers[w] \in WorkerStates /\ workers \in [Workers -> WorkerStates \cup {Unregistered}]
  BY Zenon DEF RegistrationType, Registered, Drain, Undrain
<1>2. PICK state \in WorkerStates : /\ workers' = [workers EXCEPT ![w] = state]
                                   /\ state.identity = workers[w].identity
  <2>1. ASSUME NEW h \in {"ready", "draining"}, NEW x \in BOOLEAN
        PROVE  /\ [workers[w] EXCEPT !.health = h, !.readiness = h, !.draining = x] \in WorkerStates
               /\ [workers[w] EXCEPT !.health = h, !.readiness = h, !.draining = x].identity
                    = workers[w].identity
    BY <1>1, Zenon DEF WorkerStates, Healths, Readinesses
  <2>2. CASE Drain(w)
    <3> DEFINE state == [workers[w] EXCEPT !.health = "draining", !.readiness = "draining",
                                           !.draining = TRUE]
    <3>1. workers' = [workers EXCEPT ![w] = state]
      BY <2>2, Zenon DEF Drain
    <3>2. state \in WorkerStates /\ state.identity = workers[w].identity
      BY <2>1, Zenon
    <3> HIDE DEF state
    <3> QED
      BY <3>1, <3>2, Zenon
  <2>3. CASE Undrain(w)
    <3> DEFINE state == [workers[w] EXCEPT !.health = "ready", !.readiness = "ready",
                                           !.draining = FALSE]
    <3>1. workers' = [workers EXCEPT ![w] = state]
      BY <2>3, Zenon DEF Undrain
    <3>2. state \in WorkerStates /\ state.identity = workers[w].identity
      BY <2>1, Zenon
    <3> HIDE DEF state
    <3> QED
      BY <3>1, <3>2, Zenon
  <2> QED
    BY <2>2, <2>3, Zenon
<1> QED
  BY <1>1, <1>2, Zenon DEF RegistrationType, Registered

\* Draining leaves the requests alone.
LEMMA RequestDrain ==
  ASSUME RequestInv, NEW w \in Workers, Drain(w) \/ Undrain(w)
  PROVE  RequestInv'
<1>1. UNCHANGED <<routerInflight, req>>
  BY Zenon DEF Drain, Undrain
<1> QED
  BY <1>1, DrainFacts, Zenon DEF RequestInv, RequestType, InflightIsExact, ProxiedWorkerStays

\* Selecting a Worker and giving it up count nothing.
LEMMA RequestSelect ==
  ASSUME RequestInv, NEW r \in Requests,
         (\E w \in Workers : Select(r, w)) \/ ReserveFails(r)
  PROVE  RequestInv'
<1>1. /\ RequestType' /\ UNCHANGED <<workers, routerInflight>>
      /\ req[r].pc # "proxying" /\ req'[r].pc # "proxying"
      /\ \A q \in Requests \ {r} : req'[q] = req[q]
  <2>1. RequestType
    BY Zenon DEF RequestInv
  <2>2. ASSUME NEW w \in Workers, Select(r, w)
        PROVE  /\ req' = [req EXCEPT ![r] = [pc |-> "selected", worker |-> w,
                                             identity |-> NoWorker]]
               /\ req[r].pc = "idle" /\ UNCHANGED <<workers, routerInflight>>
    BY <2>2, Zenon DEF Select
  <2>3. CASE \E w \in Workers : Select(r, w)
    BY <2>1, <2>2, <2>3 DEF RequestType
  <2>4. CASE ReserveFails(r)
    <3>1. /\ req' = [req EXCEPT ![r] = [pc |-> "idle", worker |-> NoWorker,
                                       identity |-> NoWorker]]
          /\ req[r].pc = "selected" /\ UNCHANGED <<workers, routerInflight>>
      BY <2>4, Zenon DEF ReserveFails, Idle
    <3> QED
      BY <2>1, <3>1, Zenon DEF RequestType
  <2> QED
    BY <2>3, <2>4, Zenon
<1>2. \A w \in Workers : Proxying(w)' = Proxying(w)
  BY <1>1, Zenon DEF Proxying
<1>3. InflightIsExact'
  BY <1>1, <1>2, Zenon DEF RequestInv, InflightIsExact, Proxying
<1> QED
  BY <1>1, <1>3, Zenon DEF RequestInv, RegistrationType, ProxiedWorkerStays, Registered

\* A reservation counts one request more, of a Worker that is registered.
LEMMA RequestReserve ==
  ASSUME RequestInv, NEW r \in Requests, Reserve(r)
  PROVE  RequestInv'
<1>1. PICK w \in Workers : w = req[r].worker /\ req[r].pc = "selected"
  BY Zenon DEF RequestInv, RequestType, Reserve
<1>2. /\ Registered(w) /\ workers' = workers
      /\ routerInflight' = [routerInflight EXCEPT ![w] = @ + 1]
      /\ req' = [req EXCEPT ![r] = [pc |-> "proxying", worker |-> w,
                                    identity |-> workers[w].identity]]
  BY <1>1, Zenon DEF Reserve
<1>3. workers[w].identity \in Identities
  BY <1>2, Zenon DEF RequestInv, RegistrationType, Registered, WorkerStates
<1>4. /\ RequestType' /\ \A q \in Requests \ {r} : req'[q] = req[q]
      /\ req'[r].pc = "proxying" /\ req'[r].worker = w
      /\ req'[r].identity = workers[w].identity
  BY <1>2, <1>3, Zenon DEF RequestInv, RequestType
<1>5. /\ Proxying(w)' = Proxying(w) \cup {r} /\ r \notin Proxying(w)
      /\ \A v \in Workers \ {w} : Proxying(v)' = Proxying(v)
      /\ Proxying(w) \in SUBSET Requests
  BY <1>1, <1>4, Zenon DEF Proxying
<1>6. Cardinality(Proxying(w)') = Cardinality(Proxying(w)) + 1
  <2>1. Cardinality(Proxying(w) \cup {r}) = Cardinality(Proxying(w)) + 1
    BY <1>5, CountingRequests, Zenon
  <2> QED
    BY <1>5, <2>1, Zenon
<1>7. \A v \in Workers : routerInflight'[v] = Cardinality(Proxying(v)')
  BY <1>2, <1>5, <1>6, InflightCounts, Zenon DEF RequestInv
<1>8. InflightIsExact'
  BY <1>7, Zenon DEF InflightIsExact, Proxying
<1>9. ProxiedWorkerStays'
  BY <1>2, <1>4, Zenon DEF RequestInv, ProxiedWorkerStays, Registered
<1> QED
  BY <1>2, <1>4, <1>8, <1>9 DEF RequestInv, RegistrationType

\* releaseWorker takes back exactly what the reservation counted.
LEMMA RequestRelease ==
  ASSUME RequestInv, NEW r \in Requests, Release(r)
  PROVE  RequestInv'
<1>1. PICK w \in Workers : w = req[r].worker /\ req[r].pc = "proxying"
  BY Zenon DEF RequestInv, RequestType, Release
<1>2. /\ workers' = workers
      /\ routerInflight' = [routerInflight EXCEPT ![w] = OneLess(@)]
      /\ req' = [req EXCEPT ![r] = Idle]
  BY <1>1, Zenon DEF Release
<1>3. /\ RequestType' /\ \A q \in Requests \ {r} : req'[q] = req[q]
      /\ req'[r].pc = "idle"
  BY <1>2, Zenon DEF RequestInv, RequestType, Idle
<1>4. /\ Proxying(w)' = Proxying(w) \ {r} /\ r \in Proxying(w)
      /\ \A v \in Workers \ {w} : Proxying(v)' = Proxying(v)
      /\ Proxying(w) \in SUBSET Requests
  BY <1>1, <1>3, Zenon DEF Proxying
<1>5. /\ Cardinality(Proxying(w)') = Cardinality(Proxying(w)) - 1
      /\ Cardinality(Proxying(w)) # 0 /\ Cardinality(Proxying(w)) \in Nat
  <2>1. Cardinality(Proxying(w) \ {r}) = Cardinality(Proxying(w)) - 1
    BY <1>4, CountingRequests, Zenon
  <2>2. Cardinality(Proxying(w)) \in Nat /\ (Cardinality(Proxying(w)) = 0 <=> Proxying(w) = {})
    BY <1>4, CountingRequests, Zenon
  <2> QED
    BY <1>4, <2>1, <2>2, Zenon
<1>6. routerInflight[w] = Cardinality(Proxying(w))
  BY InflightCounts, Zenon DEF RequestInv
<1>7. OneLess(routerInflight[w]) = Cardinality(Proxying(w)')
  BY <1>5, <1>6 DEF OneLess
<1>8. \A v \in Workers : routerInflight'[v] = Cardinality(Proxying(v)')
  BY <1>2, <1>4, <1>7, InflightCounts, Zenon DEF RequestInv
<1>9. InflightIsExact'
  BY <1>8, Zenon DEF InflightIsExact, Proxying
<1>10. routerInflight' \in [Workers -> Nat]
  BY <1>2, <1>5, <1>6, <1>7 DEF RequestInv, OneLess
<1>11. ProxiedWorkerStays'
  BY <1>2, <1>3, Zenon DEF RequestInv, ProxiedWorkerStays, Registered
<1> QED
  BY <1>2, <1>3, <1>9, <1>10, <1>11, Zenon DEF RequestInv, RegistrationType

\* The invariant of the requests holds throughout.
LEMMA RequestAlways == Spec => []RequestInv
<1>1. RequestInv /\ [Next]_vars => RequestInv'
  <2> SUFFICES ASSUME RequestInv, [Next]_vars PROVE RequestInv'
    BY Zenon
  <2>1. CASE \E list \in WorkerLists : ReplaceWorkers(list)
    BY <2>1, RequestReplace, Zenon
  <2>2. CASE \E w \in Workers : Drain(w) \/ Undrain(w)
    BY <2>2, RequestDrain, Zenon
  <2>3. CASE \E r \in Requests : (\E w \in Workers : Select(r, w)) \/ ReserveFails(r)
    BY <2>3, RequestSelect, Zenon
  <2>4. CASE \E r \in Requests : Reserve(r)
    BY <2>4, RequestReserve, Zenon
  <2>5. CASE \E r \in Requests : Release(r)
    BY <2>5, RequestRelease, Zenon
  <2>6. CASE UNCHANGED routerVars
    BY <2>6, Zenon DEF routerVars, RequestInv, RequestType, RegistrationType, InflightIsExact,
                ProxiedWorkerStays, Registered
  <2>7. ASSUME NEW e \in Events, HandleEvent(e) PROVE UNCHANGED routerVars
    BY <2>7, Zenon DEF HandleEvent
  <2> QED
    BY <2>1, <2>2, <2>3, <2>4, <2>5, <2>6, <2>7, Zenon DEF Next, vars, LocationExpires
<1> QED
  BY <1>1, RequestInit, PTL DEF Spec

\* The Router-owned count of a Worker is the number of requests proxied to it
\* (reserveRoutableWorker, releaseWorker).
THEOREM InflightExact == Spec => []InflightIsExact
<1>1. RequestInv => InflightIsExact
  BY Zenon DEF RequestInv
<1> QED
  BY <1>1, RequestAlways, PTL

\* No replacement takes a Worker away from a request that is being proxied to
\* it (workerReplacementConflicts).
THEOREM ProxiedStays == Spec => []ProxiedWorkerStays
<1>1. RequestInv => ProxiedWorkerStays
  BY Zenon DEF RequestInv
<1> QED
  BY <1>1, RequestAlways, PTL

-----------------------------------------------------------------------------

\* What a watermark and the locations of w in a table stem from.
StemsFrom(events, table, n, w) ==
  /\ n \in {0} \cup {e.seq : e \in events}
  /\ \A b \in Blocks : table[b][w] # NoLocation =>
       \E e \in events : /\ e.type = "block_stored" /\ e.block = b
                         /\ e.seq = table[b][w].seq

\* The inductive invariant of the observations.
ObservedInv ==
  /\ byBlock \in Table /\ nextSeqNo \in SeqNos
  /\ lastSeqByWorker \in [Workers -> SeqNos]
  /\ heard \in [Workers -> SUBSET Events]
  /\ \A w \in Workers : StemsFrom(heard[w], byBlock, lastSeqByWorker[w], w)

\* More events, and locations that keep their numbers, change nothing in this.
LEMMA StemsKept ==
  ASSUME NEW E, NEW F, E \subseteq F, NEW T, NEW U, NEW n, NEW w \in Workers,
         StemsFrom(E, T, n, w),
         \A b \in Blocks : U[b][w] # NoLocation => /\ T[b][w] # NoLocation
                                                   /\ U[b][w].seq = T[b][w].seq
  PROVE  StemsFrom(F, U, n, w)
  BY DEF StemsFrom

\* A replacement forgets the Workers it retires in the same step.
LEMMA ObservedReplace ==
  ASSUME ObservedInv, NEW list \in WorkerLists, ReplaceWorkers(list)
  PROVE  ObservedInv'
<1>1. /\ byBlock' = [b \in Blocks |-> [w \in Workers |->
                       IF w \in Retired(list) THEN NoLocation ELSE byBlock[b][w]]]
      /\ lastSeqByWorker' = [w \in Workers |->
                       IF w \in Retired(list) THEN 0 ELSE lastSeqByWorker[w]]
      /\ heard' = [w \in Workers |-> IF w \in Retired(list) THEN {} ELSE heard[w]]
      /\ nextSeqNo' = nextSeqNo
  BY Zenon DEF ReplaceWorkers, Purge
<1>2. 0 \in SeqNos
  BY DEF SeqNos
<1>3. /\ byBlock' \in Table /\ lastSeqByWorker' \in [Workers -> SeqNos]
      /\ heard' \in [Workers -> SUBSET Events]
  BY <1>1, <1>2, Zenon DEF ObservedInv, Table
<1>4. ASSUME NEW w \in Workers
      PROVE  StemsFrom(heard'[w], byBlock', lastSeqByWorker'[w], w)
  <2>1. CASE w \in Retired(list)
    <3>1. lastSeqByWorker'[w] = 0 /\ \A b \in Blocks : byBlock'[b][w] = NoLocation
      BY <1>1, <2>1, Zenon
    <3> QED
      BY <3>1, Zenon DEF StemsFrom
  <2>2. CASE w \notin Retired(list)
    <3>1. /\ lastSeqByWorker'[w] = lastSeqByWorker[w] /\ heard'[w] = heard[w]
          /\ \A b \in Blocks : byBlock'[b][w] = byBlock[b][w]
      BY <1>1, <2>2, Zenon
    <3>2. StemsFrom(heard[w], byBlock, lastSeqByWorker[w], w)
      BY Zenon DEF ObservedInv
    <3> QED
      BY <3>1, <3>2, StemsKept
  <2> QED
    BY <2>1, <2>2, Zenon
<1> QED
  BY <1>1, <1>3, <1>4, Zenon DEF ObservedInv

\* An event about w accounts for what it changes, whether or not w is registered.
LEMMA ObservedEvent ==
  ASSUME ObservedInv, NEW e \in Events, HandleEvent(e)
  PROVE  ObservedInv'
<1> DEFINE w == e.worker
<1>1. /\ w \in Workers /\ e.block \in Blocks /\ e.seq \in Nat /\ e.seq > 0
      /\ byBlock \in Table /\ nextSeqNo \in SeqNos /\ lastSeqByWorker \in [Workers -> SeqNos]
      /\ heard \in [Workers -> SUBSET Events]
      /\ ApplyEvent(e) /\ heard' = [heard EXCEPT ![w] = @ \cup {e}]
  BY DEF HandleEvent, Admissible, Events, SeqNos, ObservedInv
<1>2. /\ byBlock' \in Table /\ nextSeqNo' \in SeqNos
      /\ lastSeqByWorker' \in [Workers -> SeqNos]
      /\ \A v \in Workers \ {w} :
           /\ lastSeqByWorker'[v] = lastSeqByWorker[v]
           /\ \A b \in Blocks : byBlock'[b][v] = byBlock[b][v]
      /\ e.seq <= lastSeqByWorker[w] => UNCHANGED <<byBlock, lastSeqByWorker>>
      /\ e.seq > lastSeqByWorker[w] =>
           /\ lastSeqByWorker'[w] = e.seq
           /\ \A b \in Blocks \ {e.block} : byBlock'[b][w] = byBlock[b][w]
           /\ byBlock'[e.block][w] =
                IF e.type = "block_stored" THEN [seq |-> e.seq, ordered |-> TRUE, live |-> TRUE]
                ELSE IF Present(e.block, w) /\ e.seq >= byBlock[e.block][w].seq
                THEN NoLocation ELSE byBlock[e.block][w]
  BY <1>1, ApplyFacts, ZenonT(30)
<1>3. /\ heard' \in [Workers -> SUBSET Events] /\ heard'[w] = heard[w] \cup {e}
      /\ \A v \in Workers \ {w} : heard'[v] = heard[v]
  BY <1>1, Zenon
<1>4. lastSeqByWorker[w] \in Nat
  BY <1>1 DEF SeqNos
<1> HIDE DEF w
<1>5. ASSUME NEW v \in Workers
      PROVE  StemsFrom(heard'[v], byBlock', lastSeqByWorker'[v], v)
  <2>0. StemsFrom(heard[v], byBlock, lastSeqByWorker[v], v)
    BY Zenon DEF ObservedInv
  <2>1. CASE v # w
    <3>1. /\ lastSeqByWorker'[v] = lastSeqByWorker[v] /\ heard'[v] = heard[v]
          /\ \A b \in Blocks : byBlock'[b][v] = byBlock[b][v]
      BY <1>2, <1>3, <2>1, Zenon
    <3> QED
      BY <2>0, <3>1, StemsKept
  <2>2. CASE v = w /\ e.seq <= lastSeqByWorker[w]
    <3>1. /\ lastSeqByWorker'[v] = lastSeqByWorker[v] /\ heard[v] \subseteq heard'[v]
          /\ \A b \in Blocks : byBlock'[b][v] = byBlock[b][v]
      BY <1>2, <1>3, <2>2, Zenon
    <3> QED
      BY <2>0, <3>1, StemsKept
  <2>3. CASE v = w /\ e.seq > lastSeqByWorker[w]
    <3>1. lastSeqByWorker'[v] = e.seq /\ e \in heard'[v] /\ heard[v] \subseteq heard'[v]
      BY <1>2, <1>3, <2>3, Zenon
    <3>2. \A b \in Blocks : byBlock'[b][v] # NoLocation =>
            \/ byBlock'[b][v] = byBlock[b][v]
            \/ /\ e.type = "block_stored" /\ e.block = b
               /\ e.seq = byBlock'[b][v].seq
      <4> SUFFICES ASSUME NEW b \in Blocks, byBlock'[b][v] # NoLocation,
                          byBlock'[b][v] # byBlock[b][v]
                   PROVE  /\ e.type = "block_stored" /\ e.block = b
                          /\ e.seq = byBlock'[b][v].seq
        BY Zenon
      <4>1. b = e.block
        BY <1>2, <2>3, Zenon
      <4>2. e.type = "block_stored" /\ byBlock'[b][v] = [seq |-> e.seq, ordered |-> TRUE, live |-> TRUE]
        BY <1>2, <2>3, <4>1
      <4> QED
        BY <4>1, <4>2
    <3> QED
      BY <2>0, <3>1, <3>2 DEF StemsFrom
  <2> QED
    BY <1>1, <1>4, <2>1, <2>2, <2>3
<1> QED
  BY <1>2, <1>3, <1>5, Zenon DEF ObservedInv

\* A location that expires keeps its number.
LEMMA ObservedExpire ==
  ASSUME ObservedInv, NEW b \in Blocks, NEW w \in Workers, LocationExpires(b, w)
  PROVE  ObservedInv'
<1> DEFINE loc == [byBlock[b][w] EXCEPT !.live = FALSE]
<1>1. /\ UNCHANGED <<nextSeqNo, lastSeqByWorker, heard>>
      /\ byBlock \in Table /\ byBlock[b][w] # NoLocation
      /\ byBlock' = SetLocation(b, w, loc)
  BY Zenon DEF ObservedInv, LocationExpires, Expire, Visible, Present
<1>2. loc \in Location /\ loc.seq = byBlock[b][w].seq
  <2>1. byBlock[b][w] \in Location
    BY <1>1, Zenon DEF Table
  <2> QED
    BY <2>1, Zenon DEF Location
<1> HIDE DEF loc
<1>3. /\ byBlock' \in Table /\ byBlock'[b][w] = loc
      /\ \A c \in Blocks, v \in Workers : c # b \/ v # w => byBlock'[c][v] = byBlock[c][v]
  BY <1>1, <1>2, LocationSet, Zenon
<1>4. \A c \in Blocks, v \in Workers : /\ byBlock'[c][v] # NoLocation => byBlock[c][v] # NoLocation
                                       /\ byBlock'[c][v].seq = byBlock[c][v].seq
  BY <1>1, <1>2, <1>3, Zenon
<1>5. \A v \in Workers : StemsFrom(heard[v], byBlock', lastSeqByWorker[v], v)
  BY <1>4, StemsKept DEF ObservedInv
<1> QED
  BY <1>1, <1>3, <1>5, Zenon DEF ObservedInv

\* What is known of an ID stems from events since its last Worker was retired
\* (EvictWorker under workersMu).
THEOREM ObservedOnlySinceRetired == Spec => []ObservedSinceRetired
<1>1. Init => ObservedInv
  <2>1. 0 \in SeqNos
    BY DEF SeqNos
  <2> QED
    BY <2>1 DEF Init, IndexInit, ObservedInv, Table, StemsFrom
<1>2. ObservedInv /\ [Next]_vars => ObservedInv'
  <2> SUFFICES ASSUME ObservedInv, [Next]_vars PROVE ObservedInv'
    BY Zenon
  <2>1. CASE \E list \in WorkerLists : ReplaceWorkers(list)
    BY <2>1, ObservedReplace, Zenon
  <2>2. CASE \E e \in Events : HandleEvent(e)
    BY <2>2, ObservedEvent, Zenon
  <2>3. CASE \E b \in Blocks, w \in Workers : LocationExpires(b, w)
    BY <2>3, ObservedExpire, Zenon
  <2>4. CASE UNCHANGED <<idxVars, heard>>
    BY <2>4, Zenon DEF idxVars, ObservedInv
  <2>5. ASSUME \/ \E w \in Workers : Drain(w) \/ Undrain(w)
               \/ \E r \in Requests, w \in Workers : Select(r, w)
               \/ \E r \in Requests : Reserve(r) \/ ReserveFails(r) \/ Release(r)
               \/ UNCHANGED vars
        PROVE  UNCHANGED <<idxVars, heard>>
    BY <2>5, Zenon DEF Drain, Undrain, Select, Reserve, ReserveFails, Release, vars
  <2> QED
    BY <2>1, <2>2, <2>3, <2>4, <2>5, Zenon DEF Next
<1>3. ObservedInv => ObservedSinceRetired
  BY Zenon DEF ObservedInv, ObservedSinceRetired, StemsFrom, Present
<1> QED
  BY <1>1, <1>2, <1>3, PTL DEF Spec
=============================================================================
