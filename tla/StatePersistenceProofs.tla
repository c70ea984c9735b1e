----------------------- MODULE StatePersistenceProofs -----------------------
(***************************************************************************)
(* Proofs about StatePersistence for any components, changes, callers,     *)
(* buffer size and bounds: what a crash leaves on disk is a generation     *)
(* the store committed, and it has every change that was acknowledged.     *)
(***************************************************************************)
EXTENDS StatePersistence, SequenceTheorems, TLAPS

-----------------------------------------------------------------------------
(* The inductive invariant. *)

\* Event e has every component that changed in those of its revisions that are
\* newer than n.
CoversFrom(e, l, n) ==
  \A r \in DOMAIN l :
    n < r /\ e.base < r /\ r <= e.revision => l[r] \subseteq e.components

\* It has all that the worker has not come by yet.
Covers(e) == CoversFrom(e, log, worker.covered)

\* The newest revision that was put into the channel.
Sent == IF publishing = Published THEN Len(log) ELSE Len(log) - 1

\* The revision after which the channel continues.
Frontier == IF events = <<>> THEN Sent ELSE events[1].base

\* The channel is a gapless and growing series of revisions.
QueueIsOrdered ==
  /\ \A i \in DOMAIN events :
       /\ worker.covered < events[i].revision
       /\ events[i].revision <= Sent
       /\ Covers(events[i])
  /\ \A i, j \in DOMAIN events : i < j => events[i].revision < events[j].revision
  /\ \A i \in DOMAIN events : i > 1 => events[i].base = events[i - 1].revision
  /\ events # <<>> => events[Len(events)].revision = Sent

\* What the channel no longer has, the worker has seen or the publisher holds.
NothingIsLost ==
  /\ worker.covered <= Sent
  /\ Frontier <= larger(worker.covered, publishing.held.revision)
  /\ publishing.held.base <= worker.covered /\ publishing.held.revision <= Sent
  /\ Covers(publishing.held)

ChannelIsSound == worker.status # "done" => QueueIsOrdered /\ NothingIsLost

\* A publisher that found the buffer full sends the newest revision.
PublisherHasTheNewest ==
  publishing # Published =>
    /\ Len(log) > 0
    /\ publishing.event.base = Len(log) - 1
    /\ publishing.event.revision = Len(log)
    /\ log[Len(log)] \subseteq publishing.event.components

\* The batch is newer than everything written or acknowledged before it.
BatchIsNewest ==
  worker.latest # 0 =>
    /\ worker.persisted < worker.latest
    /\ \A r \in acked : r <= worker.latest
    /\ \A m \in stable \cup {disk, cached} : m.revision <= worker.latest

CountersAgree ==
  /\ worker.covered <= Len(log)
  /\ worker.latest <= worker.covered
  /\ worker.persisted <= worker.covered
  /\ \A r \in acked : r >= 1 /\ r <= worker.covered
  /\ worker.timer => worker.latest # 0

ManifestsAgree ==
  /\ disk \in stable
  /\ \A m \in stable : m.revision <= disk.revision
  /\ \A m \in stable \cup {disk, cached} :
       m.revision <= worker.covered /\ \A c \in Components : m.files[c] <= m.revision

\* The component's change of revision r is in the batch.
Batched(c, r) == c \in worker.dirty /\ r <= worker.latest

\* A change the worker has seen is in the manifest the next save builds on, or
\* in the batch.
SeenIsKept ==
  \A c \in Components, r \in 1 .. worker.covered :
    r \in skipped \/ Kept(manifest, c, r) \/ Batched(c, r)

\* The same for the changes of this process and every manifest a crash may
\* leave; without the batch for those the worker counts as persisted.
SeenSurvives ==
  \A m \in stable, c \in Components : \A r \in worker.baseline + 1 .. worker.covered :
    r \in skipped \/ Kept(m, c, r) \/ (Batched(c, r) /\ r > worker.persisted)

-----------------------------------------------------------------------------
(* What the operators return. *)

All == Components \cup {Transient}

Workers ==
  [status : {"select", "draining", "done"}, baseline : Revisions, covered : Revisions,
   persisted : Revisions, dirty : SUBSET Components, latest : Revisions, timer : BOOLEAN,
   request : Callers \cup {NoCaller}, wanted : Revisions]

CallerStates == [state : {"idle", "publishing", "asking", "waiting"}, revision : Revisions]

Publishers == [by : Callers \cup {NoCaller}, event : Event, held : Event]

LEMMA Numbers == /\ Revisions \subseteq Nat /\ 0 \in Revisions
                 /\ \A x, y \in Revisions : larger(x, y) \in Revisions
  BY BoundsAssumption DEF Revisions, larger

LEMMA NoEventIsEvent == NoEvent \in Event /\ Published \in Publishers
  BY Numbers DEF NoEvent, Event, Published, Publishers

LEMMA CoalescedIsEvent ==
  ASSUME NEW q \in Event, NEW e \in Event
  PROVE  /\ coalesced(q, e) \in Event
         /\ q = NoEvent => coalesced(q, e) = e
         /\ q # NoEvent => /\ coalesced(q, e).components = q.components \cup e.components
                           /\ coalesced(q, e).base = q.base
                           /\ coalesced(q, e).revision = larger(e.revision, q.revision)
<1>1. q # NoEvent => coalesced(q, e) = [components |-> q.components \cup e.components,
                                        base |-> q.base,
                                        revision |-> larger(e.revision, q.revision)]
  BY DEF coalesced, mergeEventMetadata, larger
<1>2. q = NoEvent => coalesced(q, e) = e
  BY DEF coalesced
<1>3. /\ q.components \cup e.components \subseteq Components \cup {Transient}
      /\ q.base \in Revisions /\ larger(e.revision, q.revision) \in Revisions
  BY Numbers DEF Event
<1> QED  BY <1>1, <1>2, <1>3 DEF Event

LEMMA StartedFields ==
  ASSUME NEW r \in Revisions
  PROVE  /\ started(r) \in Workers
         /\ started(r).status = "select" /\ started(r).baseline = r
         /\ started(r).covered = r /\ started(r).persisted = 0
         /\ started(r).dirty = {} /\ started(r).latest = 0 /\ started(r).timer = FALSE
  BY Numbers DEF started, Workers

LEMMA ObserveFields ==
  ASSUME NEW w \in Workers, NEW e \in Event
  PROVE  LET durable == e.components \ {Transient}
             v == observe(w, e)
         IN  /\ v \in Workers
             /\ v.status = w.status /\ v.baseline = w.baseline
             /\ v.persisted = w.persisted
             /\ v.covered = larger(w.covered, e.revision)
             /\ v.dirty = w.dirty \cup durable
             /\ durable = {} => v.latest = w.latest /\ v.timer = w.timer
             /\ durable # {} => v.latest = larger(w.latest, e.revision) /\ v.timer = TRUE
<1> DEFINE durable == e.components \ {Transient}
<1>1. durable \subseteq Components
  BY DEF Event
<1>2. w.covered \in Revisions /\ w.latest \in Revisions /\ e.revision \in Revisions
  BY DEF Workers, Event
<1>3. larger(w.covered, e.revision) \in Revisions /\ larger(w.latest, e.revision) \in Revisions
  BY <1>2, Numbers
<1>4. CASE durable = {}
  <2>1. observe(w, e) = [w EXCEPT !.covered = larger(w.covered, e.revision)]
    BY <1>4 DEF observe, accumulate
  <2> QED  BY <1>3, <1>4, <2>1 DEF Workers
<1>5. CASE durable # {}
  <2>1. observe(w, e) = [w EXCEPT !.dirty = w.dirty \cup durable,
                                  !.latest = larger(w.latest, e.revision), !.timer = TRUE,
                                  !.covered = larger(w.covered, e.revision)]
    BY <1>5 DEF observe, accumulate, Workers
  <2>2. w.dirty \cup durable \in SUBSET Components
    BY <1>1 DEF Workers
  <2> QED  BY <1>3, <1>5, <2>1, <2>2 DEF Workers
<1> QED  BY <1>4, <1>5

LEMMA FlushedFields ==
  ASSUME NEW w \in Workers, w.latest <= w.covered, w.persisted < w.latest
  PROVE  LET v == flushed(w)
         IN  /\ v \in Workers
             /\ v.status = w.status /\ v.baseline = w.baseline /\ v.covered = w.covered
             /\ v.request = w.request /\ v.wanted = w.wanted
             /\ v.persisted = w.latest
             /\ v.dirty = {} /\ v.latest = 0 /\ v.timer = FALSE
<1>1. {w.covered, w.latest, w.persisted} \subseteq Revisions
  BY DEF Workers
<1>2. larger(w.persisted, IF w.covered < w.latest THEN w.covered ELSE w.latest) = w.latest
  <2>1. w.covered \in Nat /\ w.latest \in Nat /\ w.persisted \in Nat
    BY <1>1, Numbers
  <2> QED  BY <2>1 DEF larger
<1>3. flushed(w) = [w EXCEPT !.dirty = {}, !.latest = 0, !.timer = FALSE,
                             !.persisted = w.latest]
  BY <1>2 DEF flushed
<1> QED  BY <1>1, <1>3, Numbers DEF Workers


-----------------------------------------------------------------------------
(* The channel. *)

\* The part of the state the channel's invariant is about.
ChannelTypeOK ==
  /\ log \in Seq(SUBSET All) /\ Len(log) \in Revisions
  /\ publishing \in Publishers
  /\ events \in Seq(Event) /\ Len(events) <= Buffer
  /\ worker \in Workers

ChannelInv == ChannelTypeOK /\ ChannelIsSound /\ PublisherHasTheNewest

LEMMA ChannelNumbers ==
  ASSUME ChannelTypeOK
  PROVE  /\ Len(log) \in Nat /\ worker.covered \in Nat /\ Buffer \in Nat \ {0}
         /\ publishing.held \in Event /\ publishing.event \in Event
         /\ \A e \in Event : e.base \in Nat /\ e.revision \in Nat /\ e.components \in SUBSET All
         /\ \A i \in DOMAIN events : events[i] \in Event
<1>1. Len(log) \in Nat /\ worker.covered \in Nat /\ Buffer \in Nat \ {0}
  BY Numbers, BoundsAssumption DEF ChannelTypeOK, Workers
<1>2. publishing.held \in Event /\ publishing.event \in Event
  BY DEF ChannelTypeOK, Publishers
<1>3. \A e \in Event : e.base \in Nat /\ e.revision \in Nat /\ e.components \in SUBSET All
  BY Numbers DEF Event, All
<1>4. \A i \in DOMAIN events : events[i] \in Event
  BY DEF ChannelTypeOK
<1> QED  BY <1>1, <1>2, <1>3, <1>4

LEMMA PublishedFields ==
  /\ Published.held = NoEvent /\ NoEvent.base = 0 /\ NoEvent.revision = 0
  /\ Published.event = NoEvent
  BY DEF Published, NoEvent

\* The publisher of a revision that fits, or of one that finds the channel full.
LEMMA PublishChannel ==
  ASSUME ChannelInv, NEW p \in Callers \cup {NoCaller}, NEW S \in Changes, publish(p, S)
  PROVE  ChannelInv'
<1> DEFINE n == Len(log)
           e == [components |-> S, base |-> n, revision |-> n + 1]
<1>1. S \in SUBSET All
  BY ChangesAssumption DEF All
<1>2. /\ publishing = Published /\ n < MaxRevision /\ log' = Append(log, S)
      /\ worker' = worker
  BY DEF publish
<1>3. ChannelTypeOK /\ n \in Nat /\ worker.covered \in Nat
  BY ChannelNumbers DEF ChannelInv
<1>4. /\ log' \in Seq(SUBSET All) /\ Len(log') = n + 1 /\ log'[n + 1] = S
      /\ DOMAIN log' = 1 .. n + 1 /\ \A r \in 1 .. n : log'[r] = log[r]
      /\ DOMAIN log = 1 .. n
  BY <1>1, <1>2, <1>3 DEF ChannelTypeOK
<1>5. e \in Event /\ n + 1 \in Revisions
  BY <1>1, <1>2, <1>3, BoundsAssumption DEF Event, Revisions, All
<1>6. e.components = S /\ e.base = n /\ e.revision = n + 1
  OBVIOUS
<1>7. Sent = n
  BY <1>2 DEF Sent
<1> HIDE DEF n, e
<1>8. \A x \in Event : x.revision <= n /\ Covers(x) => CoversFrom(x, log', worker.covered)
  BY <1>2, <1>3, <1>4, ChannelNumbers DEF Covers, CoversFrom
<1>9. CASE worker.status # "done" /\ Len(events) < Buffer
  <2>1. events' = Append(events, e) /\ publishing' = Published
    BY <1>2, <1>9 DEF publish, e, n
  <2>2. Sent' = n + 1
    BY <1>4, <2>1 DEF Sent
  <2>3. QueueIsOrdered /\ NothingIsLost
    BY <1>9 DEF ChannelInv, ChannelIsSound
  <2> DEFINE k == Len(events)
  <2>4. /\ k \in Nat /\ DOMAIN events = 1 .. k /\ DOMAIN events' = 1 .. k + 1
        /\ Len(events') = k + 1 /\ events'[k + 1] = e
        /\ \A i \in 1 .. k : events'[i] = events[i] /\ events[i] \in Event
        /\ events' \in Seq(Event)
    BY <1>3, <1>5, <2>1 DEF ChannelTypeOK
  <2>5. ChannelTypeOK'
    BY <1>2, <1>3, <1>4, <1>5, <1>9, <2>1, <2>4, ChannelNumbers, NoEventIsEvent
       DEF ChannelTypeOK
  <2>6. CoversFrom(e, log', worker.covered)
    BY <1>3, <1>4, <1>6 DEF CoversFrom
  <2>7. QueueIsOrdered'
    <3> HIDE DEF k
    <3>1. \A i \in 1 .. k :
            /\ worker.covered < events[i].revision /\ events[i].revision <= n
            /\ events[i].revision \in Nat /\ Covers(events[i])
      BY <1>3, <1>7, <2>3, <2>4, ChannelNumbers DEF QueueIsOrdered
    <3>2. \A i \in 1 .. k + 1 : i \in 1 .. k \/ i = k + 1
      BY <2>4
    <3>3. ASSUME NEW i \in 1 .. k + 1
          PROVE  /\ worker.covered < events'[i].revision /\ events'[i].revision <= n + 1
                 /\ CoversFrom(events'[i], log', worker.covered)
      <4>1. CASE i \in 1 .. k
        BY <1>3, <1>8, <2>4, <3>1, <4>1
      <4>2. CASE i = k + 1
        BY <1>3, <1>6, <1>7, <2>3, <2>4, <2>6, <4>2 DEF NothingIsLost
      <4> QED  BY <3>2, <4>1, <4>2
    <3>4. ASSUME NEW i \in 1 .. k + 1, NEW j \in 1 .. k + 1, i < j
          PROVE  events'[i].revision < events'[j].revision
      <4>1. i \in 1 .. k
        BY <2>4, <3>4
      <4>2. CASE j \in 1 .. k
        BY <2>3, <2>4, <3>4, <4>1, <4>2 DEF QueueIsOrdered
      <4>3. CASE j = k + 1
        BY <1>3, <1>6, <2>4, <3>1, <4>1, <4>3
      <4> QED  BY <3>2, <4>2, <4>3
    <3>5. ASSUME NEW i \in 1 .. k + 1, i > 1
          PROVE  events'[i].base = events'[i - 1].revision
      <4>1. i - 1 \in 1 .. k
        BY <2>4, <3>5
      <4>2. CASE i \in 1 .. k
        BY <2>3, <2>4, <3>5, <4>1, <4>2 DEF QueueIsOrdered
      <4>3. CASE i = k + 1
        <5>1. i - 1 = k /\ events # <<>>
          BY <2>4, <3>5, <4>1, <4>3 DEF k
        <5>2. events[k].revision = n
          BY <1>7, <2>3, <5>1 DEF QueueIsOrdered, k
        <5> QED  BY <1>6, <2>4, <4>1, <4>3, <5>1, <5>2
      <4> QED  BY <3>2, <4>2, <4>3
    <3> QED  BY <1>2, <1>6, <2>2, <2>4, <3>3, <3>4, <3>5 DEF QueueIsOrdered, Covers
  <2>8. NothingIsLost'
    <3>1. worker.covered <= n /\ Covers(NoEvent)' /\ events' # <<>>
      BY <1>2, <1>3, <1>4, <1>7, <2>3, <2>4, PublishedFields
         DEF NothingIsLost, Covers, CoversFrom, NoEvent
    <3>2. Frontier' = Frontier
      BY <1>6, <1>7, <2>4, <3>1 DEF Frontier
    <3> QED  BY <1>2, <1>3, <2>1, <2>2, <2>3, <3>1, <3>2, PublishedFields DEF NothingIsLost
  <2> QED  BY <2>1, <2>5, <2>7, <2>8 DEF ChannelInv, ChannelIsSound, PublisherHasTheNewest
<1>10. CASE worker.status # "done" /\ Len(events) = Buffer
  <2>1. /\ publishing' = [by |-> p, event |-> e, held |-> NoEvent] /\ events' = events
    BY <1>2, <1>3, <1>10, ChannelNumbers DEF publish, e, n
  <2>2. publishing'.event = e /\ publishing'.held = NoEvent /\ publishing' # Published
    BY <1>3, <1>6, <2>1, PublishedFields
  <2>3. Sent' = n /\ Frontier' = Frontier
    BY <1>3, <1>4, <1>7, <2>1, <2>2 DEF Sent, Frontier
  <2>4. QueueIsOrdered /\ NothingIsLost
    BY <1>10 DEF ChannelInv, ChannelIsSound
  <2>5. ChannelTypeOK'
    BY <1>2, <1>3, <1>4, <1>5, <2>1, NoEventIsEvent DEF ChannelTypeOK, Publishers
  <2>6. QueueIsOrdered'
    BY <1>2, <1>3, <1>7, <1>8, <2>1, <2>3, <2>4, ChannelNumbers
       DEF QueueIsOrdered, Covers
  <2>7. NothingIsLost'
    <3>1. Covers(NoEvent)'
      BY <1>4, PublishedFields DEF Covers, CoversFrom, NoEvent
    <3> QED  BY <1>2, <1>7, <2>2, <2>3, <2>4, <3>1, PublishedFields DEF NothingIsLost
  <2> QED  BY <1>3, <1>4, <1>6, <2>2, <2>5, <2>6, <2>7
           DEF ChannelInv, ChannelIsSound, PublisherHasTheNewest
<1>11. CASE worker.status = "done"
  <2>1. events' = events /\ publishing' = Published
    BY <1>2, <1>11 DEF publish
  <2> QED  BY <1>2, <1>3, <1>4, <1>5, <1>11, <2>1, NoEventIsEvent
           DEF ChannelInv, ChannelTypeOK, ChannelIsSound, PublisherHasTheNewest
<1> QED  BY <1>9, <1>10, <1>11 DEF publish

\* The first event leaves the channel: the others keep their order.
LEMMA TailIsOrdered ==
  ASSUME ChannelTypeOK, events # <<>>, events' = Tail(events)
  PROVE  /\ events[1] \in Event /\ Head(events) = events[1]
         /\ events' \in Seq(Event) /\ Len(events') <= Buffer /\ Len(events) \in Nat \ {0}
         /\ Len(events') = Len(events) - 1
         /\ DOMAIN events = 1 .. Len(events) /\ DOMAIN events' = 1 .. Len(events) - 1
         /\ \A i \in DOMAIN events' : events'[i] = events[i + 1] /\ i + 1 \in DOMAIN events
<1>1. events \in Seq(Event) /\ Len(events) \in Nat \ {0} /\ Len(events) <= Buffer
  BY DEF ChannelTypeOK
<1>2. /\ events' \in Seq(Event) /\ Len(events') = Len(events) - 1
      /\ \A i \in 1 .. Len(events) - 1 : events'[i] = events[i + 1]
  BY <1>1
<1> QED  BY <1>1, <1>2, ChannelNumbers DEF ChannelTypeOK

\* drainQueued: the publisher holds what it takes.
LEMMA DrainChannel ==
  ASSUME ChannelInv, drainQueued
  PROVE  ChannelInv'
<1> DEFINE e == Head(events)
           h == coalesced(publishing.held, e)
<1>1. /\ publishing # Published /\ events # <<>> /\ events' = Tail(events)
      /\ log' = log /\ worker' = worker
  BY DEF drainQueued
<1>2. ChannelTypeOK /\ publishing.held \in Event /\ e \in Event
  BY <1>1, ChannelNumbers, TailIsOrdered DEF ChannelInv
<1>3. h \in Event
  BY <1>2, CoalescedIsEvent
<1>4. /\ publishing' \in Publishers /\ publishing'.event = publishing.event
      /\ publishing'.held = h
  BY <1>2, <1>3 DEF drainQueued, ChannelTypeOK, Publishers
<1>5. publishing' # Published /\ Sent' = Sent
  <2>1. Len(log) > 0 /\ publishing.event.revision = Len(log)
    BY <1>1 DEF ChannelInv, PublisherHasTheNewest
  <2>2. publishing' # Published
    BY <1>4, <2>1, PublishedFields
  <2> QED  BY <1>1, <2>2 DEF Sent
<1>6. ChannelTypeOK'
  BY <1>1, <1>2, <1>4, TailIsOrdered DEF ChannelTypeOK
<1>7. PublisherHasTheNewest'
  BY <1>1, <1>4 DEF ChannelInv, PublisherHasTheNewest
<1>8. ASSUME worker.status # "done"  PROVE QueueIsOrdered' /\ NothingIsLost'
  <2>1. QueueIsOrdered /\ NothingIsLost
    BY <1>8 DEF ChannelInv, ChannelIsSound
  <2> DEFINE k == Len(events)
  <2>2. /\ e = events[1] /\ k \in Nat \ {0} /\ Len(events') = k - 1
        /\ DOMAIN events = 1 .. k /\ DOMAIN events' = 1 .. k - 1
        /\ \A i \in 1 .. k - 1 : events'[i] = events[i + 1] /\ i + 1 \in 1 .. k
    BY <1>1, <1>2, TailIsOrdered
  <2>3. /\ Len(log) \in Nat /\ worker.covered \in Nat
        /\ \A x \in Event : x.base \in Nat /\ x.revision \in Nat
    BY <1>2, ChannelNumbers
  <2> HIDE DEF e, h, k
  <2>4. QueueIsOrdered'
    <3>1. \A i \in 1 .. k - 1 :
            /\ worker.covered < events'[i].revision /\ events'[i].revision <= Sent
            /\ Covers(events[i + 1]) /\ events'[i] = events[i + 1]
      BY <2>1, <2>2 DEF QueueIsOrdered
    <3>2. \A i, j \in 1 .. k - 1 : i < j => events'[i].revision < events'[j].revision
      <4> TAKE i \in 1 .. k - 1, j \in 1 .. k - 1
      <4>1. /\ i + 1 \in DOMAIN events /\ j + 1 \in DOMAIN events
            /\ i < j => i + 1 < j + 1
        BY <2>2
      <4>2. i < j => events[i + 1].revision < events[j + 1].revision
        BY <2>1, <4>1 DEF QueueIsOrdered
      <4> QED  BY <2>2, <4>2
    <3>3. \A i \in 1 .. k - 1 : i > 1 => events'[i].base = events'[i - 1].revision
      <4> TAKE i \in 1 .. k - 1
      <4>1. i > 1 => i - 1 \in 1 .. k - 1 /\ (i - 1) + 1 = i /\ (i + 1) - 1 = i
        BY <2>2
      <4>2. events[i + 1].base = events[i].revision
        BY <2>1, <2>2 DEF QueueIsOrdered
      <4> QED  BY <2>2, <4>1, <4>2
    <3>4. events' # <<>> => events'[k - 1].revision = Sent
      <4>1. events' # <<>> => k - 1 \in 1 .. k - 1 /\ (k - 1) + 1 = k
        BY <1>6, <2>2 DEF ChannelTypeOK
      <4> QED  BY <1>1, <2>1, <2>2, <4>1 DEF QueueIsOrdered, k
    <3> QED  BY <1>1, <1>5, <2>2, <3>1, <3>2, <3>3, <3>4 DEF QueueIsOrdered, Covers
  <2>5. Frontier' = e.revision
    BY <1>1, <1>5, <2>1, <2>2 DEF QueueIsOrdered, Frontier, k
  <2>6. /\ e.base <= larger(worker.covered, publishing.held.revision)
        /\ publishing.held.base <= worker.covered
        /\ publishing.held.revision <= Sent /\ e.revision <= Sent
        /\ Covers(publishing.held) /\ Covers(e)
    BY <1>1, <2>1, <2>2 DEF QueueIsOrdered, NothingIsLost, Frontier
  <2>7. /\ e.revision <= larger(worker.covered, h.revision) /\ h.base <= worker.covered
        /\ h.revision <= Sent /\ Covers(h)
    <3>1. CASE publishing.held = NoEvent
      <4>1. h = e
        BY <1>2, <3>1, CoalescedIsEvent DEF h
      <4> QED  BY <1>2, <2>3, <2>6, <3>1, <4>1, PublishedFields DEF larger
    <3>2. CASE publishing.held # NoEvent
      <4>1. /\ h.components = publishing.held.components \cup e.components
            /\ h.base = publishing.held.base
            /\ h.revision = larger(e.revision, publishing.held.revision)
        BY <1>2, <3>2, CoalescedIsEvent DEF h
      <4>2. Covers(h)
        BY <1>2, <2>3, <2>6, <4>1 DEF Covers, CoversFrom, larger
      <4> QED  BY <1>2, <2>3, <2>6, <4>1, <4>2 DEF larger
    <3> QED  BY <3>1, <3>2
  <2> QED  BY <1>1, <1>4, <1>5, <2>1, <2>4, <2>5, <2>7 DEF NothingIsLost, Covers
<1> QED  BY <1>1, <1>6, <1>7, <1>8 DEF ChannelInv, ChannelIsSound

\* sendCoalesced: the channel continues with the one merged event.
LEMMA SendChannel ==
  ASSUME ChannelInv, sendCoalesced
  PROVE  ChannelInv'
<1> DEFINE e == publishing.event
           h == coalesced(publishing.held, e)
<1>1. /\ publishing # Published /\ events = <<>> /\ events' = <<h>> /\ publishing' = Published
      /\ log' = log /\ worker' = worker
  BY DEF sendCoalesced
<1>2. ChannelTypeOK /\ publishing.held \in Event /\ e \in Event
  BY ChannelNumbers DEF ChannelInv
<1>3. h \in Event
  BY <1>2, CoalescedIsEvent
<1>4. /\ events' \in Seq(Event) /\ Len(events') = 1 /\ DOMAIN events' = {1}
      /\ events'[1] = h /\ events' # <<>>
  BY <1>1, <1>3
<1>5. ChannelTypeOK'
  BY <1>1, <1>2, <1>4, NoEventIsEvent, ChannelNumbers DEF ChannelTypeOK
<1>6. ASSUME worker.status # "done"  PROVE QueueIsOrdered' /\ NothingIsLost'
  <2>1. /\ Len(log) > 0 /\ e.base = Len(log) - 1 /\ e.revision = Len(log)
        /\ log[Len(log)] \subseteq e.components
    BY <1>1 DEF ChannelInv, PublisherHasTheNewest
  <2>2. Sent = Len(log) - 1 /\ Sent' = Len(log) /\ Frontier = Sent
    BY <1>1 DEF Sent, Frontier
  <2>3. /\ worker.covered <= Len(log) - 1
        /\ Len(log) - 1 <= larger(worker.covered, publishing.held.revision)
        /\ publishing.held.base <= worker.covered /\ Covers(publishing.held)
    BY <1>6, <2>2 DEF ChannelInv, ChannelIsSound, NothingIsLost
  <2>4. /\ Len(log) \in Nat /\ worker.covered \in Nat /\ DOMAIN log = 1 .. Len(log)
        /\ \A x \in Event : x.base \in Nat /\ x.revision \in Nat
    BY <1>2, ChannelNumbers DEF ChannelTypeOK
  <2>5. publishing.held.revision <= Len(log)
    BY <1>2, <1>6, <2>2, <2>4 DEF ChannelInv, ChannelIsSound, NothingIsLost
  <2> HIDE DEF e, h
  <2>6. h.base <= worker.covered /\ h.revision = Len(log) /\ Covers(h)
    <3>1. CASE publishing.held = NoEvent
      <4>1. h = e
        BY <1>2, <3>1, CoalescedIsEvent DEF h
      <4> QED  BY <2>1, <2>3, <2>4, <3>1, <4>1, PublishedFields DEF larger, Covers, CoversFrom
    <3>2. CASE publishing.held # NoEvent
      <4>1. /\ h.components = publishing.held.components \cup e.components
            /\ h.base = publishing.held.base
            /\ h.revision = larger(e.revision, publishing.held.revision)
        BY <1>2, <3>2, CoalescedIsEvent DEF h
      <4>2. h.revision = Len(log)
        BY <1>2, <2>1, <2>4, <2>5, <4>1 DEF larger
      <4>3. \A r \in 1 .. Len(log) :
              r > worker.covered => r <= publishing.held.revision \/ r = Len(log)
        BY <1>2, <2>3, <2>4 DEF larger
      <4>4. Covers(h)
        BY <1>2, <2>1, <2>3, <2>4, <4>1, <4>2, <4>3 DEF Covers, CoversFrom
      <4> QED  BY <2>3, <4>1, <4>2, <4>4
    <3> QED  BY <3>1, <3>2
  <2>7. QueueIsOrdered'
    BY <1>1, <1>4, <2>2, <2>3, <2>4, <2>6 DEF QueueIsOrdered, Covers
  <2>8. Frontier' <= worker.covered
    BY <1>4, <2>6 DEF Frontier
  <2> QED  BY <1>1, <1>3, <2>2, <2>3, <2>4, <2>6, <2>7, <2>8, PublishedFields, <1>4
           DEF NothingIsLost, larger, Covers, CoversFrom, Frontier
<1> QED  BY <1>1, <1>5, <1>6 DEF ChannelInv, ChannelIsSound, PublisherHasTheNewest

\* take: the worker has seen the revisions of the first event.
LEMMA TakeChannel ==
  ASSUME ChannelInv, take, worker.status # "done"
  PROVE  /\ ChannelInv'
         /\ Head(events) \in Event /\ Covers(Head(events))
         /\ worker.covered < Head(events).revision /\ Head(events).revision <= Len(log)
         /\ worker'.covered = Head(events).revision
<1> DEFINE e == Head(events)
           k == Len(events)
<1>1. /\ events # <<>> /\ events' = Tail(events) /\ log' = log /\ publishing' = publishing
      /\ worker' = observe(worker, e)
  BY DEF take
<1>2. ChannelTypeOK /\ worker \in Workers /\ QueueIsOrdered /\ NothingIsLost
  BY DEF ChannelInv, ChannelTypeOK, ChannelIsSound
<1>3. /\ e = events[1] /\ e \in Event /\ k \in Nat \ {0} /\ Len(events') = k - 1
      /\ DOMAIN events = 1 .. k /\ DOMAIN events' = 1 .. k - 1
      /\ \A i \in 1 .. k - 1 : events'[i] = events[i + 1] /\ i + 1 \in 1 .. k
  BY <1>1, <1>2, TailIsOrdered
<1>4. worker' \in Workers /\ worker'.covered = larger(worker.covered, e.revision)
  BY <1>1, <1>2, <1>3, ObserveFields
<1>5. /\ Len(log) \in Nat /\ worker.covered \in Nat
      /\ \A x \in Event : x.base \in Nat /\ x.revision \in Nat
  BY <1>2, ChannelNumbers
<1>6. /\ worker.covered < e.revision /\ e.revision <= Sent /\ Covers(e)
      /\ Sent <= Len(log) /\ Sent \in Int
  BY <1>2, <1>3, <1>5 DEF QueueIsOrdered, Sent
<1>7. worker'.covered = e.revision
  BY <1>3, <1>4, <1>5, <1>6 DEF larger
<1>8. ChannelTypeOK'
  BY <1>1, <1>2, <1>4, TailIsOrdered DEF ChannelTypeOK
<1>9. Sent' = Sent
  BY <1>1 DEF Sent
<1> HIDE DEF e, k
<1>10. \A x : Covers(x) => CoversFrom(x, log, e.revision)
  BY <1>2, <1>3, <1>5, <1>6 DEF Covers, CoversFrom, ChannelTypeOK
<1>11. QueueIsOrdered'
  <2>1. \A i \in 1 .. k - 1 :
          /\ e.revision < events'[i].revision /\ events'[i].revision <= Sent
          /\ CoversFrom(events'[i], log, e.revision)
    <3> TAKE i \in 1 .. k - 1
    <3>1. 1 < i + 1 /\ i + 1 \in 1 .. k /\ 1 \in 1 .. k
      BY <1>3
    <3>2. /\ events[1].revision < events[i + 1].revision /\ events[i + 1].revision <= Sent
          /\ Covers(events[i + 1])
      BY <1>2, <1>3, <3>1 DEF QueueIsOrdered
    <3> QED  BY <1>3, <1>10, <3>2
  <2>2. \A i, j \in 1 .. k - 1 : i < j => events'[i].revision < events'[j].revision
    <3> TAKE i \in 1 .. k - 1, j \in 1 .. k - 1
    <3>1. /\ i + 1 \in DOMAIN events /\ j + 1 \in DOMAIN events
          /\ i < j => i + 1 < j + 1
      BY <1>3
    <3>2. i < j => events[i + 1].revision < events[j + 1].revision
      BY <1>2, <3>1 DEF QueueIsOrdered
    <3> QED  BY <1>3, <3>2
  <2>3. \A i \in 1 .. k - 1 : i > 1 => events'[i].base = events'[i - 1].revision
    <3> TAKE i \in 1 .. k - 1
    <3>1. i > 1 => i - 1 \in 1 .. k - 1 /\ (i - 1) + 1 = i /\ (i + 1) - 1 = i
      BY <1>3
    <3>2. events[i + 1].base = events[i].revision
      BY <1>2, <1>3 DEF QueueIsOrdered
    <3> QED  BY <1>3, <3>1, <3>2
  <2>4. events' # <<>> => events'[k - 1].revision = Sent
    <3>1. events' # <<>> => k - 1 \in 1 .. k - 1 /\ (k - 1) + 1 = k
      BY <1>3, <1>8 DEF ChannelTypeOK
    <3> QED  BY <1>1, <1>2, <1>3, <3>1 DEF QueueIsOrdered, k
  <2> QED  BY <1>1, <1>3, <1>7, <1>9, <2>1, <2>2, <2>3, <2>4 DEF QueueIsOrdered, Covers
<1>12. NothingIsLost'
  <2>1. Frontier' = e.revision
    BY <1>1, <1>2, <1>3, <1>9 DEF QueueIsOrdered, Frontier, k
  <2>2. publishing.held.base <= e.revision
    BY <1>2, <1>3, <1>5, <1>6, ChannelNumbers DEF NothingIsLost
  <2>3. e.revision <= larger(e.revision, publishing.held.revision)
    BY <1>2, <1>3, <1>5, ChannelNumbers DEF larger
  <2> QED  BY <1>1, <1>2, <1>6, <1>7, <1>9, <1>10, <2>1, <2>2, <2>3 DEF NothingIsLost, Covers
<1>13. PublisherHasTheNewest'
  BY <1>1 DEF ChannelInv, PublisherHasTheNewest
<1>14. e.revision <= Len(log)
  BY <1>3, <1>5, <1>6
<1> QED  BY <1>3, <1>6, <1>7, <1>8, <1>11, <1>12, <1>13, <1>14 DEF ChannelInv, ChannelIsSound, e

\* A step that leaves the channel alone, the worker's last one included.
LEMMA QuietChannel ==
  ASSUME ChannelInv, UNCHANGED <<log, publishing, events>>, worker' \in Workers,
         worker'.covered = worker.covered, worker'.status # "done" => worker.status # "done"
  PROVE  ChannelInv'
<1>1. ChannelTypeOK'
  BY DEF ChannelInv, ChannelTypeOK
<1>2. Sent' = Sent /\ Frontier' = Frontier
  BY DEF Sent, Frontier
<1>3. QueueIsOrdered => QueueIsOrdered'
  BY <1>2 DEF QueueIsOrdered, Covers
<1>4. NothingIsLost => NothingIsLost'
  BY <1>2 DEF NothingIsLost, Covers
<1> QED  BY <1>1, <1>3, <1>4 DEF ChannelInv, ChannelIsSound, PublisherHasTheNewest

\* A new process begins with an empty channel behind what it loaded.
LEMMA RestartChannel ==
  ASSUME NEW n \in Revisions, log' \in Seq(SUBSET All), Len(log') = n,
         publishing' = Published, events' = <<>>, worker' = started(n)
  PROVE  ChannelInv'
<1>1. worker' \in Workers /\ worker'.covered = n /\ n \in Nat
  BY StartedFields, Numbers
<1>2. ChannelTypeOK'
  BY <1>1, NoEventIsEvent, BoundsAssumption DEF ChannelTypeOK
<1>3. Sent' = n /\ Frontier' = n
  BY DEF Sent, Frontier
<1>4. QueueIsOrdered'
  BY DEF QueueIsOrdered
<1>5. CoversFrom(NoEvent, log', n)
  BY <1>2, PublishedFields DEF CoversFrom, ChannelTypeOK, NoEvent
<1>6. NothingIsLost'
  BY <1>1, <1>3, <1>5, PublishedFields DEF NothingIsLost, larger, Covers
<1> QED  BY <1>2, <1>4, <1>6 DEF ChannelInv, ChannelIsSound, PublisherHasTheNewest

LEMMA InitChannel ==
  ASSUME Init  PROVE ChannelInv
<1>1. /\ worker \in Workers /\ worker.covered = 0 /\ log = <<>> /\ publishing = Published
      /\ events = <<>>
  BY StartedFields, Numbers DEF Init
<1>2. ChannelTypeOK
  BY <1>1, Numbers, NoEventIsEvent, BoundsAssumption DEF ChannelTypeOK
<1>3. Sent = 0 /\ Frontier = 0
  BY <1>1 DEF Sent, Frontier
<1>4. QueueIsOrdered
  BY <1>1 DEF QueueIsOrdered
<1>5. Covers(NoEvent)
  BY <1>1 DEF Covers, CoversFrom
<1>6. NothingIsLost
  BY <1>1, <1>3, <1>5, PublishedFields DEF NothingIsLost, larger
<1> QED  BY <1>1, <1>2, <1>4, <1>6 DEF ChannelInv, ChannelIsSound, PublisherHasTheNewest


-----------------------------------------------------------------------------
(* The disk. *)

DiskTypeOK ==
  /\ log \in Seq(SUBSET All) /\ Len(log) \in Revisions /\ worker \in Workers
  /\ cached \in Manifest /\ disk \in Manifest /\ stable \subseteq Manifest
  /\ acked \subseteq Revisions

FilesArePresent == \A m \in stable \cup {disk} : FilesOf(m) \subseteq present

GenerationIsWhole ==
  \A m \in stable \cup {disk}, c \in Components :
    \A r \in 1 .. m.revision : r \in skipped \/ Kept(m, c, r)

DiskInv ==
  /\ DiskTypeOK /\ BatchIsNewest /\ CountersAgree /\ ManifestsAgree
  /\ SeenIsKept /\ SeenSurvives /\ GenerationIsWhole /\ AcknowledgedUnlessSkipped

LEMMA DiskNumbers ==
  ASSUME DiskTypeOK
  PROVE  /\ Len(log) \in Nat /\ DOMAIN log = 1 .. Len(log)
         /\ worker.covered \in Nat /\ worker.latest \in Nat /\ worker.persisted \in Nat
         /\ worker.baseline \in Nat /\ worker.latest \in Revisions
         /\ \A m \in Manifest : /\ m.revision \in Nat
                                /\ \A c \in Components : m.files[c] \in Nat
         /\ manifest \in Manifest /\ manifest \in {disk, cached}
<1>1. Len(log) \in Nat /\ DOMAIN log = 1 .. Len(log)
  BY Numbers DEF DiskTypeOK
<1>2. /\ worker.covered \in Nat /\ worker.latest \in Nat /\ worker.persisted \in Nat
      /\ worker.baseline \in Nat /\ worker.latest \in Revisions
  BY Numbers DEF DiskTypeOK, Workers
<1>3. \A m \in Manifest : m.revision \in Nat /\ \A c \in Components : m.files[c] \in Nat
  BY Numbers DEF Manifest
<1> QED  BY <1>1, <1>2, <1>3 DEF DiskTypeOK, manifest

\* The manifest that a save writes has every change the worker has seen.
LEMMA NextIsWhole ==
  ASSUME DiskInv, worker.latest # 0
  PROVE  /\ next \in Manifest /\ next # NoManifest /\ next.revision = worker.latest
         /\ \A c \in Components : next.files[c] <= worker.latest
         /\ \A c \in Components, r \in 1 .. worker.covered :
              r \in skipped \/ Kept(next, c, r)
<1> DEFINE f == [c \in Components |-> IF c \in dirtyComponents THEN worker.latest
                                                              ELSE manifest.files[c]]
<1>1. DiskTypeOK
  BY DEF DiskInv
<1>2. next.revision = worker.latest /\ next.files = f
  BY DEF next
<1>3. manifest \in Manifest /\ manifest.files \in [Components -> Revisions]
  BY <1>1, DiskNumbers DEF Manifest
<1>4. next \in Manifest
  <2>1. f \in [Components -> Revisions]
    BY <1>1, <1>3, DiskNumbers
  <2> HIDE DEF f
  <2> QED  BY <1>1, <2>1, DiskNumbers DEF next, Manifest, f
<1>5. next # NoManifest
  BY <1>2 DEF NoManifest
<1>6. \A c \in Components : manifest.files[c] <= worker.latest /\ manifest.files[c] \in Nat
  BY <1>1, <1>3, DiskNumbers DEF DiskInv, BatchIsNewest, ManifestsAgree
<1>7. \A c \in Components : f[c] = IF c \in dirtyComponents THEN worker.latest
                                                             ELSE manifest.files[c]
  OBVIOUS
<1> HIDE DEF f
<1>8. \A c \in Components : f[c] <= worker.latest
  <2>1. worker.latest \in Nat
    BY <1>1, DiskNumbers
  <2> TAKE c \in Components
  <2>2. f[c] = worker.latest \/ f[c] = manifest.files[c]
    BY <1>7
  <2> QED  BY <1>6, <2>1, <2>2
<1>9. ASSUME NEW c \in Components, NEW r \in 1 .. worker.covered, r \notin skipped, c \in log[r]
      PROVE  f[c] >= r
  <2>1. manifest.files[c] >= r \/ (c \in worker.dirty /\ r <= worker.latest)
    BY <1>9 DEF DiskInv, SeenIsKept, Kept, Batched
  <2>2. CASE c \in dirtyComponents
    <3>1. f[c] = worker.latest
      BY <1>7, <2>2
    <3> QED  BY <1>1, <1>6, <2>1, <3>1, DiskNumbers
  <2>3. CASE c \notin dirtyComponents
    <3>1. f[c] = manifest.files[c]
      BY <1>7, <2>3
    <3>2. c \notin worker.dirty
      BY <2>3 DEF dirtyComponents
    <3> QED  BY <2>1, <3>1, <3>2
  <2> QED  BY <2>2, <2>3
<1> QED  BY <1>2, <1>4, <1>5, <1>8, <1>9 DEF Kept

\* A flush that succeeds, with or without a caller to tell.
LEMMA SaveSucceedsDisk ==
  ASSUME DiskInv, SaveSucceeds, worker.latest # 0, UNCHANGED <<log, skipped>>,
         worker' \in Workers, worker'.covered = worker.covered,
         worker'.baseline = worker.baseline, worker'.persisted = worker.latest,
         worker'.latest = 0, worker'.timer = FALSE,
         NEW x \in Revisions, x <= worker.covered,
         acked' \in {acked, acked \cup (worker.baseline + 1 .. x)}
  PROVE  DiskInv'
<1> DEFINE n == next
<1>1. DiskTypeOK
  BY DEF DiskInv
<1>2. /\ worker.covered \in Nat /\ worker.latest \in Nat /\ worker.persisted \in Nat
      /\ worker.baseline \in Nat /\ x \in Nat
  BY <1>1, DiskNumbers, Numbers
<1>3. /\ n \in Manifest /\ n # NoManifest /\ n.revision = worker.latest
      /\ \A c \in Components : n.files[c] <= worker.latest
      /\ \A c \in Components, r \in 1 .. worker.covered :
           r \in skipped \/ (c \in log[r] => n.files[c] >= r)
  BY NextIsWhole DEF Kept
<1>4. cached' = n /\ disk' = n /\ stable' = {n}
  BY DEF SaveSucceeds
<1> HIDE DEF n
<1>5. manifest' = n
  BY <1>3, <1>4 DEF manifest
<1>6. \A r \in acked' : r \in Revisions /\ r >= 1 /\ r <= worker.covered
  BY <1>1, <1>2, BoundsAssumption DEF DiskInv, CountersAgree, DiskTypeOK, Revisions
<1>7. DiskTypeOK'
  BY <1>1, <1>3, <1>4, <1>6 DEF DiskTypeOK
<1>8. worker.latest <= worker.covered /\ worker.covered <= Len(log)
  BY DEF DiskInv, CountersAgree
<1>9. BatchIsNewest' /\ CountersAgree' /\ ManifestsAgree'
  BY <1>2, <1>3, <1>4, <1>6, <1>8 DEF BatchIsNewest, CountersAgree, ManifestsAgree
<1>10. SeenIsKept' /\ SeenSurvives'
  BY <1>2, <1>3, <1>4, <1>5 DEF SeenIsKept, SeenSurvives, Kept
<1>11. GenerationIsWhole'
  BY <1>2, <1>3, <1>4, <1>8 DEF GenerationIsWhole, Kept
<1>12. AcknowledgedUnlessSkipped'
  <2>1. \A r \in acked' : r \in Nat
    BY <1>6, Numbers
  <2>2. \A r \in acked' : r \in 1 .. worker.covered
    BY <1>2, <1>6, <2>1
  <2> QED  BY <1>3, <1>4, <2>2 DEF AcknowledgedUnlessSkipped, Kept
<1> QED  BY <1>7, <1>9, <1>10, <1>11, <1>12 DEF DiskInv

\* A flush that fails: the batch stays, and the directory may have either
\* manifest.
LEMMA SaveFailsDisk ==
  ASSUME DiskInv, SaveFails, worker.latest # 0, UNCHANGED <<log, skipped, acked>>,
         worker' \in Workers, worker'.covered = worker.covered,
         worker'.baseline = worker.baseline, worker'.persisted = worker.persisted,
         worker'.latest = worker.latest, worker'.dirty = worker.dirty
  PROVE  DiskInv'
<1> DEFINE n == next
<1>1. DiskTypeOK
  BY DEF DiskInv
<1>2. /\ worker.covered \in Nat /\ worker.latest \in Nat /\ worker.persisted \in Nat
      /\ worker.baseline \in Nat
  BY <1>1, DiskNumbers
<1>3. /\ n \in Manifest /\ n # NoManifest /\ n.revision = worker.latest
      /\ \A c \in Components : n.files[c] <= worker.latest
      /\ \A c \in Components, r \in 1 .. worker.covered :
           r \in skipped \/ (c \in log[r] => n.files[c] >= r)
  BY NextIsWhole DEF Kept
<1>4. /\ cached' = cached
      /\ \/ disk' = disk /\ stable' = stable
         \/ disk' = n /\ stable' = stable \cup {n}
  BY DEF SaveFails
<1> HIDE DEF n
<1>5. manifest' \in {manifest, n}
  BY <1>3, <1>4 DEF manifest
<1>6. \A m \in stable' : m \in stable \/ m = n
  BY <1>4
<1>7. disk' \in {disk, n}
  BY <1>4
<1>8. DiskTypeOK'
  BY <1>1, <1>3, <1>4 DEF DiskTypeOK
<1>9. worker.latest <= worker.covered /\ worker.persisted < worker.latest
  BY DEF DiskInv, CountersAgree, BatchIsNewest
<1>10. BatchIsNewest' /\ CountersAgree'
  BY <1>2, <1>3, <1>4, <1>6, <1>7 DEF DiskInv, BatchIsNewest, CountersAgree
<1>11. ManifestsAgree'
  <2>1. \A m \in stable : m.revision <= worker.latest
    BY DEF DiskInv, BatchIsNewest
  <2> QED  BY <1>2, <1>3, <1>4, <1>9, <2>1 DEF DiskInv, ManifestsAgree
<1>12. SeenIsKept'
  BY <1>3, <1>5 DEF DiskInv, SeenIsKept, Kept, Batched
<1>13. SeenSurvives'
  <2> SUFFICES ASSUME NEW m \in stable', NEW c \in Components,
                      NEW r \in worker.baseline + 1 .. worker.covered
               PROVE  \/ r \in skipped \/ (c \in log[r] => m.files[c] >= r)
                      \/ c \in worker.dirty /\ r <= worker.latest /\ r > worker.persisted
    BY DEF SeenSurvives, Kept, Batched
  <2>1. CASE m \in stable
    BY <2>1 DEF DiskInv, SeenSurvives, Kept, Batched
  <2>2. CASE m = n
    BY <1>2, <1>3, <2>2
  <2> QED  BY <1>6, <2>1, <2>2
<1>14. GenerationIsWhole'
  BY <1>2, <1>3, <1>6, <1>7, <1>9 DEF DiskInv, GenerationIsWhole, Kept
<1>15. AcknowledgedUnlessSkipped'
  <2>1. \A r \in acked : r \in Nat /\ r >= 1 /\ r <= worker.covered
    BY <1>1, Numbers DEF DiskInv, CountersAgree, DiskTypeOK
  <2>2. \A r \in acked : r \in 1 .. worker.covered
    BY <1>2, <2>1
  <2> QED  BY <1>3, <1>6, <2>2 DEF DiskInv, AcknowledgedUnlessSkipped, Kept
<1> QED  BY <1>8, <1>10, <1>11, <1>12, <1>13, <1>14, <1>15 DEF DiskInv

\* A step that writes nothing.  What it acknowledges was persisted, or nothing
\* durable is pending.
LEMMA QuietDisk ==
  ASSUME DiskInv, UNCHANGED <<log, skipped, cached, disk, stable>>,
         worker' \in Workers, worker'.covered = worker.covered,
         worker'.baseline = worker.baseline, worker'.persisted = worker.persisted,
         worker'.latest = worker.latest, worker'.dirty = worker.dirty,
         worker'.timer => worker.timer,
         NEW x \in Revisions, x <= worker.covered,
         x <= worker.persisted \/ worker.latest = 0,
         acked' \in {acked, acked \cup (worker.baseline + 1 .. x)}
  PROVE  DiskInv'
<1>1. DiskTypeOK
  BY DEF DiskInv
<1>2. /\ worker.covered \in Nat /\ worker.latest \in Nat /\ worker.persisted \in Nat
      /\ worker.baseline \in Nat /\ x \in Nat
  BY <1>1, DiskNumbers, Numbers
<1>3. \A r \in acked' : r \in acked \/ r \in worker.baseline + 1 .. x
  OBVIOUS
<1>4. \A r \in acked' : r \in Revisions /\ r >= 1 /\ r <= worker.covered
  BY <1>1, <1>2, <1>3, BoundsAssumption DEF DiskInv, CountersAgree, DiskTypeOK, Revisions
<1>5. DiskTypeOK'
  BY <1>1, <1>4 DEF DiskTypeOK
<1>6. BatchIsNewest'
  BY <1>2, <1>3 DEF DiskInv, BatchIsNewest
<1>7. CountersAgree' /\ ManifestsAgree'
  BY <1>4 DEF DiskInv, CountersAgree, ManifestsAgree
<1>8. SeenIsKept' /\ SeenSurvives' /\ GenerationIsWhole'
  BY DEF DiskInv, SeenIsKept, SeenSurvives, GenerationIsWhole, Kept, Batched, manifest
<1>9. AcknowledgedUnlessSkipped'
  <2> SUFFICES ASSUME NEW m \in stable, NEW c \in Components,
                      NEW r \in worker.baseline + 1 .. x
               PROVE  r \in skipped \/ Kept(m, c, r)
    BY <1>3 DEF DiskInv, AcknowledgedUnlessSkipped, Kept
  <2>1. r \in worker.baseline + 1 .. worker.covered /\ r >= 1
    BY <1>2
  <2>2. r \in skipped \/ Kept(m, c, r) \/ (r <= worker.latest /\ r > worker.persisted)
    BY <2>1 DEF DiskInv, SeenSurvives, Batched
  <2> QED  BY <1>2, <2>1, <2>2
<1> QED  BY <1>5, <1>6, <1>7, <1>8, <1>9 DEF DiskInv

\* A new revision is beyond everything the worker has seen.
LEMMA PublishDisk ==
  ASSUME DiskInv, NEW p \in Callers \cup {NoCaller}, NEW S \in Changes, publish(p, S)
  PROVE  DiskInv'
<1>1. /\ Len(log) < MaxRevision /\ log' = Append(log, S)
      /\ UNCHANGED <<worker, cached, disk, stable, acked, skipped>>
  BY DEF publish
<1>2. DiskTypeOK /\ S \in SUBSET All
  BY ChangesAssumption DEF DiskInv, All
<1>3. Len(log) \in Nat /\ worker.covered \in Nat
  BY <1>2, DiskNumbers
<1>4. /\ log' \in Seq(SUBSET All) /\ Len(log') = Len(log) + 1
      /\ \A r \in 1 .. Len(log) : log'[r] = log[r]
  BY <1>1, <1>2 DEF DiskTypeOK
<1>5. Len(log') \in Revisions
  BY <1>1, <1>3, <1>4, BoundsAssumption DEF Revisions
<1>6. worker.covered <= Len(log)
  BY DEF DiskInv, CountersAgree
<1>7. \A r \in 1 .. worker.covered : log'[r] = log[r]
  BY <1>3, <1>4, <1>6
<1>8. DiskTypeOK'
  BY <1>1, <1>2, <1>4, <1>5 DEF DiskTypeOK
<1>9. BatchIsNewest' /\ CountersAgree' /\ ManifestsAgree'
  BY <1>1, <1>3, <1>4, <1>6 DEF DiskInv, BatchIsNewest, CountersAgree, ManifestsAgree
<1>10. SeenIsKept'
  BY <1>1, <1>7 DEF DiskInv, SeenIsKept, Kept, Batched, manifest
<1>11. SeenSurvives'
  <2>1. \A r \in worker.baseline + 1 .. worker.covered : r \in 1 .. worker.covered
    BY <1>2, DiskNumbers
  <2> QED  BY <1>1, <1>7, <2>1 DEF DiskInv, SeenSurvives, Kept, Batched
<1>12. GenerationIsWhole'
  <2>1. \A m \in stable \cup {disk} : \A r \in 1 .. m.revision : r \in 1 .. worker.covered
    BY <1>2, <1>3, DiskNumbers DEF DiskInv, ManifestsAgree, DiskTypeOK
  <2> QED  BY <1>1, <1>7, <2>1 DEF DiskInv, GenerationIsWhole, Kept
<1>13. AcknowledgedUnlessSkipped'
  <2>1. \A r \in acked : r \in Nat /\ r >= 1 /\ r <= worker.covered
    BY <1>2, Numbers DEF DiskInv, CountersAgree, DiskTypeOK
  <2>2. \A r \in acked : r \in 1 .. worker.covered
    BY <1>3, <2>1
  <2> QED  BY <1>1, <1>7, <2>2 DEF DiskInv, AcknowledgedUnlessSkipped, Kept
<1> QED  BY <1>8, <1>9, <1>10, <1>11, <1>12, <1>13 DEF DiskInv

\* The worker takes an event: its durable components join the batch, and the
\* revisions before it that the worker has not seen count as skipped.
LEMMA TakeDisk ==
  ASSUME ChannelInv, DiskInv, take, worker.status # "done"
  PROVE  DiskInv'
<1> DEFINE e == Head(events)
           durable == e.components \ {Transient}
<1>1. /\ worker' = observe(worker, e)
      /\ skipped' = skipped \cup (worker.covered + 1 .. e.base)
      /\ UNCHANGED <<log, cached, disk, stable, acked>>
  BY DEF take
<1>2. /\ e \in Event /\ Covers(e) /\ worker.covered < e.revision /\ e.revision <= Len(log)
      /\ worker'.covered = e.revision
  BY TakeChannel
<1>3. DiskTypeOK /\ worker \in Workers
  BY DEF DiskInv, DiskTypeOK
<1>4. /\ worker' \in Workers /\ worker'.baseline = worker.baseline
      /\ worker'.persisted = worker.persisted /\ worker'.dirty = worker.dirty \cup durable
      /\ durable = {} => worker'.latest = worker.latest /\ worker'.timer = worker.timer
      /\ durable # {} => worker'.latest = larger(worker.latest, e.revision)
  BY <1>1, <1>2, <1>3, ObserveFields
<1>5. /\ Len(log) \in Nat /\ DOMAIN log = 1 .. Len(log) /\ worker.covered \in Nat
      /\ worker.latest \in Nat /\ worker.persisted \in Nat /\ worker.baseline \in Nat
      /\ e.revision \in Nat /\ e.base \in Nat
  BY <1>2, <1>3, DiskNumbers, Numbers DEF Event
<1>6. worker.latest <= worker.covered /\ worker.persisted <= worker.covered
  BY DEF DiskInv, CountersAgree
<1>7. durable # {} => worker'.latest = e.revision
  BY <1>2, <1>4, <1>5, <1>6 DEF larger
<1> HIDE DEF e
<1>8. DiskTypeOK'
  BY <1>1, <1>3, <1>4 DEF DiskTypeOK
<1>9. \A r \in acked : r \in Nat
  BY <1>3, Numbers DEF DiskTypeOK
<1>10. \A m \in stable \cup {disk, cached} : m.revision \in Nat
  BY <1>3, DiskNumbers DEF DiskTypeOK
<1>11. BatchIsNewest'
  <2>1. CASE durable = {}
    BY <1>1, <1>4, <2>1 DEF DiskInv, BatchIsNewest
  <2>2. CASE durable # {}
    BY <1>1, <1>2, <1>4, <1>5, <1>6, <1>7, <1>9, <1>10, <2>2
       DEF DiskInv, BatchIsNewest, CountersAgree, ManifestsAgree
  <2> QED  BY <2>1, <2>2
<1>12. CountersAgree'
  BY <1>1, <1>2, <1>4, <1>5, <1>6, <1>7, <1>9 DEF DiskInv, CountersAgree
<1>13. ManifestsAgree'
  BY <1>1, <1>2, <1>5, <1>10 DEF DiskInv, ManifestsAgree
<1>14. ASSUME NEW c \in Components, NEW r \in 1 .. e.revision, r \notin skipped', c \in log[r],
              ~(r \in 1 .. worker.covered)
       PROVE  c \in worker'.dirty /\ r <= worker'.latest /\ r > worker.persisted
  <2>1. r > worker.covered /\ r > e.base /\ r \in DOMAIN log
    BY <1>1, <1>2, <1>5, <1>14
  <2>2. c \in durable
    BY <1>2, <1>14, <2>1, ChangesAssumption DEF Covers, CoversFrom
  <2> QED  BY <1>4, <1>5, <1>6, <1>7, <2>1, <2>2
<1>15. /\ worker.dirty \subseteq worker'.dirty /\ worker.latest <= worker'.latest
       /\ skipped \subseteq skipped' /\ worker'.latest \in Nat
  BY <1>1, <1>2, <1>4, <1>5, <1>6, <1>7
<1>16. SeenIsKept'
  <2> SUFFICES ASSUME NEW c \in Components, NEW r \in 1 .. e.revision, r \notin skipped',
                      c \in log[r]
               PROVE  manifest.files[c] >= r \/ (c \in worker'.dirty /\ r <= worker'.latest)
    BY <1>1, <1>2 DEF SeenIsKept, Kept, Batched, manifest
  <2>1. CASE r \in 1 .. worker.covered
    <3>1. manifest.files[c] >= r \/ (c \in worker.dirty /\ r <= worker.latest)
      BY <1>15, <2>1 DEF DiskInv, SeenIsKept, Kept, Batched
    <3> QED  BY <1>5, <1>15, <3>1
  <2> QED  BY <1>14, <2>1
<1>17. SeenSurvives'
  <2> SUFFICES ASSUME NEW m \in stable, NEW c \in Components,
                      NEW r \in worker.baseline + 1 .. e.revision, r \notin skipped', c \in log[r]
               PROVE  \/ m.files[c] >= r
                      \/ c \in worker'.dirty /\ r <= worker'.latest /\ r > worker.persisted
    BY <1>1, <1>2, <1>4 DEF SeenSurvives, Kept, Batched
  <2>1. r \in 1 .. e.revision
    BY <1>5
  <2>2. CASE r \in 1 .. worker.covered
    <3>1. r \in worker.baseline + 1 .. worker.covered
      BY <1>5, <2>2
    <3>2. \/ m.files[c] >= r
          \/ c \in worker.dirty /\ r <= worker.latest /\ r > worker.persisted
      BY <1>15, <3>1 DEF DiskInv, SeenSurvives, Kept, Batched
    <3> QED  BY <1>5, <1>15, <3>2
  <2> QED  BY <1>14, <2>1, <2>2
<1>18. GenerationIsWhole' /\ AcknowledgedUnlessSkipped'
  BY <1>1, <1>15 DEF DiskInv, GenerationIsWhole, AcknowledgedUnlessSkipped, Kept
<1> QED  BY <1>8, <1>11, <1>12, <1>13, <1>16, <1>17, <1>18 DEF DiskInv

\* A new process: the log is what the manifest's files hold, which any other
\* manifest that may still come back agrees with.
LEMMA CrashDisk ==
  ASSUME DiskInv, CrashRestart
  PROVE  /\ DiskInv' /\ log' \in [1 .. disk'.revision -> SUBSET All] /\ Len(log') = disk'.revision
         /\ disk'.revision \in Revisions
<1> DEFINE n == disk'.revision
<1>1. /\ log' = loaded(disk') /\ worker' = started(n) /\ cached' = NoManifest
      /\ acked' = acked \cap (1 .. n) /\ skipped' = skipped \cap (1 .. n)
      /\ disk' \in stable /\ stable' \subseteq stable
      /\ disk' \in stable' /\ \A m \in stable' : m.revision <= n
  <2>1. /\ log' = loaded(disk') /\ worker' = started(n) /\ cached' = NoManifest
        /\ acked' = acked \cap (1 .. n) /\ skipped' = skipped \cap (1 .. n)
        /\ \/ disk' = disk /\ stable' = stable
           \/ disk' \in stable /\ stable' = {disk'}
    BY DEF CrashRestart
  <2>2. disk \in stable /\ \A m \in stable : m.revision <= disk.revision
    BY DEF DiskInv, ManifestsAgree
  <2>3. \A m \in stable : m.revision \in Nat
    BY DiskNumbers DEF DiskInv, DiskTypeOK
  <2> QED  BY <2>1, <2>2, <2>3
<1>2. DiskTypeOK /\ disk' \in Manifest
  BY <1>1 DEF DiskInv, DiskTypeOK
<1>3. n \in Revisions /\ n \in Nat /\ n <= worker.covered
  BY <1>1, <1>2, Numbers DEF Manifest, DiskInv, ManifestsAgree
<1>4. /\ Len(log) \in Nat /\ DOMAIN log = 1 .. Len(log) /\ worker.covered \in Nat
      /\ worker.covered <= Len(log) /\ \A r \in 1 .. Len(log) : log[r] \in SUBSET All
  BY <1>2, DiskNumbers DEF DiskInv, CountersAgree, DiskTypeOK
<1>5. /\ log' \in [1 .. n -> SUBSET All]
      /\ \A r \in 1 .. n : log'[r] = {c \in log[r] \cap Components : r <= disk'.files[c]}
  BY <1>1, <1>3, <1>4 DEF loaded, All
<1>6. log' \in Seq(SUBSET All) /\ Len(log') = n
  <2>1. log' \in Seq(SUBSET All)
    BY <1>3, <1>5
  <2>2. DOMAIN log' = 1 .. n
    BY <1>5
  <2> QED  BY <1>3, <2>1, <2>2
<1>7. /\ worker' \in Workers /\ worker'.baseline = n /\ worker'.covered = n
      /\ worker'.persisted = 0 /\ worker'.dirty = {} /\ worker'.latest = 0
      /\ worker'.timer = FALSE
  BY <1>1, <1>3, StartedFields
<1>8. /\ NoManifest \in Manifest /\ NoManifest.revision = 0
      /\ \A c \in Components : NoManifest.files[c] = 0
  BY Numbers DEF NoManifest, Manifest
<1> HIDE DEF n
<1>9. DiskTypeOK'
  BY <1>1, <1>2, <1>3, <1>6, <1>7, <1>8 DEF DiskTypeOK
<1>10. \A r \in acked' : r \in 1 .. n /\ r \in acked
  BY <1>1
<1>11. BatchIsNewest' /\ CountersAgree'
  BY <1>3, <1>6, <1>7, <1>10 DEF BatchIsNewest, CountersAgree
<1>12. ManifestsAgree'
  <2>1. \A m \in stable : \A c \in Components : m.files[c] <= m.revision
    BY DEF DiskInv, ManifestsAgree
  <2>2. \A m \in stable' \cup {disk', NoManifest} :
          m.revision <= n /\ \A c \in Components : m.files[c] <= m.revision
    BY <1>1, <1>3, <1>8, <2>1
  <2>3. \A m \in stable' : m.revision <= disk'.revision
    BY <1>1 DEF n
  <2> QED  BY <1>1, <1>7, <2>2, <2>3 DEF ManifestsAgree
<1>13. \A c \in Components, r \in 1 .. n : c \in log'[r] => disk'.files[c] >= r /\ c \in log[r]
  BY <1>2, <1>3, <1>5, DiskNumbers
<1>14. SeenIsKept'
  <2>1. manifest' = disk'
    BY <1>1 DEF manifest
  <2> QED  BY <1>7, <1>13, <2>1 DEF SeenIsKept, Kept
<1>15. SeenSurvives'
  <2>1. n + 1 .. n = {}
    BY <1>3
  <2> QED  BY <1>7, <2>1 DEF SeenSurvives
<1>16. GenerationIsWhole'
  <2> SUFFICES ASSUME NEW m \in stable', NEW c \in Components, NEW r \in 1 .. m.revision
               PROVE  r \in skipped' \/ (c \in log'[r] => m.files[c] >= r)
    BY <1>1 DEF GenerationIsWhole, Kept
  <2>1. m \in stable /\ m.revision \in Nat /\ m.revision <= n
    BY <1>1, <1>2, DiskNumbers DEF DiskTypeOK
  <2>2. r \in 1 .. n
    BY <1>3, <2>1
  <2>3. r \in skipped \/ (c \in log[r] => m.files[c] >= r)
    BY <2>1 DEF DiskInv, GenerationIsWhole, Kept
  <2> QED  BY <1>1, <1>13, <2>2, <2>3 DEF n
<1>17. AcknowledgedUnlessSkipped'
  <2> SUFFICES ASSUME NEW m \in stable', NEW c \in Components, NEW r \in acked'
               PROVE  r \in skipped' \/ (c \in log'[r] => m.files[c] >= r)
    BY DEF AcknowledgedUnlessSkipped, Kept
  <2>1. r \in skipped \/ (c \in log[r] => m.files[c] >= r)
    BY <1>1, <1>10 DEF DiskInv, AcknowledgedUnlessSkipped, Kept
  <2> QED  BY <1>1, <1>10, <1>13, <2>1 DEF n
<1>18. DiskInv'
  BY <1>9, <1>11, <1>12, <1>14, <1>15, <1>16, <1>17 DEF DiskInv
<1> QED  BY <1>3, <1>5, <1>6, <1>18 DEF n

-----------------------------------------------------------------------------
(* Every step. *)

\* The rest of the state has its type.
RestTypeOK ==
  /\ caller \in [Callers -> CallerStates]
  /\ present \subseteq Components \X Revisions
  /\ stopping \in BOOLEAN
  /\ skipped \subseteq Revisions
  /\ faults \in 0 .. MaxFaults

Inv == ChannelInv /\ DiskInv /\ FilesArePresent /\ RestTypeOK

\* A save adds the files of the next manifest before anything else happens.
LEMMA SavesFiles ==
  ASSUME DiskInv, FilesArePresent, RestTypeOK, worker.latest # 0,
         SaveSucceeds \/ SaveFails
  PROVE  FilesArePresent' /\ present' \subseteq Components \X Revisions
<1> DEFINE n == next
<1>1. n \in Manifest
  BY NextIsWhole
<1>2. FilesOf(n) \subseteq Components \X Revisions
  BY <1>1 DEF FilesOf, Manifest
<1>3. CASE SaveSucceeds
  <2>1. /\ FilesOf(n) \subseteq present' /\ present' \subseteq present \cup FilesOf(n)
        /\ disk' = n /\ stable' = {n}
    BY <1>3 DEF SaveSucceeds
  <2> HIDE DEF n
  <2> QED  BY <1>2, <2>1 DEF FilesArePresent, RestTypeOK, FilesOf
<1>4. CASE SaveFails
  <2>1. /\ present' = present \cup FilesOf(n) /\ disk' \in {disk, n}
        /\ \A m \in stable' : m \in stable \/ m = n
    BY <1>4 DEF SaveFails
  <2> HIDE DEF n
  <2> QED  BY <1>2, <2>1 DEF FilesArePresent, RestTypeOK, FilesOf
<1> QED  BY <1>3, <1>4

\* The worker's steps; a flush needs a batch.
LEMMA WorkerStep ==
  ASSUME Inv, Worker
  PROVE  Inv'
<1>1. /\ ChannelInv /\ DiskInv /\ FilesArePresent /\ RestTypeOK
      /\ worker \in Workers
  BY DEF Inv, DiskInv, DiskTypeOK
<1>2. /\ Idle \in CallerStates /\ 0 \in Revisions /\ worker.wanted \in Revisions
      /\ worker.covered \in Nat
  BY <1>1, Numbers DEF Idle, CallerStates, Workers
<1>3. /\ worker.timer => worker.latest # 0
      /\ worker.latest # 0 => worker.latest <= worker.covered /\ worker.persisted < worker.latest
  BY <1>1 DEF DiskInv, CountersAgree, BatchIsNewest
<1>4. ASSUME take, worker.status # "done"  PROVE Inv'
  <2>1. ChannelInv' /\ DiskInv'
    BY <1>1, <1>4, TakeChannel, TakeDisk
  <2>2. skipped' \subseteq Revisions
    <3>1. skipped' = skipped \cup (worker.covered + 1 .. Head(events).base)
      BY <1>4 DEF take
    <3>2. Head(events) \in Event
      BY <1>1, <1>4, TakeChannel
    <3>3. Head(events).base \in Revisions
      BY <3>2 DEF Event
    <3>4. worker.covered + 1 .. Head(events).base \subseteq Revisions
      BY <1>2, <3>3, BoundsAssumption DEF Revisions
    <3> QED  BY <1>1, <3>1, <3>4 DEF RestTypeOK
  <2> QED  BY <1>1, <1>4, <2>1, <2>2 DEF Inv, take, FilesArePresent, FilesOf, RestTypeOK
<1>5. ASSUME NEW p \in Callers, saveStateEvent(p)  PROVE Inv'
  <2>1. caller' \in [Callers -> CallerStates] /\ caller[p].revision \in Revisions
    BY <1>1, <1>5 DEF saveStateEvent, RestTypeOK, CallerStates
  <2>2. /\ worker' \in Workers /\ worker'.status # "done" /\ worker.status # "done"
        /\ worker'.covered = worker.covered /\ worker'.baseline = worker.baseline
        /\ worker'.persisted = worker.persisted /\ worker'.latest = worker.latest
        /\ worker'.dirty = worker.dirty /\ worker'.timer = worker.timer
    BY <1>1, <1>5, <2>1 DEF saveStateEvent, Workers
  <2>3. UNCHANGED <<log, publishing, events, cached, disk, stable, present, stopping, acked,
                    skipped, faults>>
    BY <1>5 DEF saveStateEvent
  <2>4. ChannelInv'
    BY <1>1, <2>2, <2>3, QuietChannel
  <2>5. DiskInv'
    <3>1. 0 <= worker.covered /\ (0 <= worker.persisted \/ worker.latest = 0)
      BY <1>1, <1>2, DiskNumbers DEF DiskInv
    <3> QED  BY <1>1, <1>2, <2>2, <2>3, <3>1, QuietDisk
  <2> QED  BY <1>1, <2>1, <2>3, <2>4, <2>5 DEF Inv, FilesArePresent, FilesOf, RestTypeOK
<1>6. ASSUME NEW w \in Workers, NEW ok \in BOOLEAN, answer(w, ok)
      PROVE  /\ caller' \in [Callers -> CallerStates] /\ worker' \in Workers
             /\ worker'.status = "select" /\ worker'.covered = w.covered
             /\ worker'.baseline = w.baseline /\ worker'.persisted = w.persisted
             /\ worker'.latest = w.latest /\ worker'.dirty = w.dirty /\ worker'.timer = w.timer
             /\ acked' \in {acked, acked \cup (w.baseline + 1 .. w.wanted)}
             /\ ~ok => acked' = acked
             /\ UNCHANGED <<log, publishing, events, stopping, skipped>>
  <2>1. caller' \in [Callers -> CallerStates]
    BY <1>1, <1>2, <1>6 DEF answer, RestTypeOK
  <2>2. /\ worker' \in Workers
        /\ worker'.status = "select" /\ worker'.covered = w.covered
        /\ worker'.baseline = w.baseline /\ worker'.persisted = w.persisted
        /\ worker'.latest = w.latest /\ worker'.dirty = w.dirty /\ worker'.timer = w.timer
    BY <1>2, <1>6 DEF answer, Workers
  <2>3. /\ acked' \in {acked, acked \cup (w.baseline + 1 .. w.wanted)}
        /\ ~ok => acked' = acked
        /\ UNCHANGED <<log, publishing, events, stopping, skipped>>
    BY <1>6 DEF answer
  <2> QED  BY <2>1, <2>2, <2>3
<1>7. ASSUME NEW ok \in BOOLEAN, answer(worker, ok), worker.status = "draining",
             ok => /\ worker.covered >= worker.wanted
                   /\ worker.persisted >= worker.wanted \/ worker.latest = 0,
             UNCHANGED <<cached, disk, stable, present, faults>>
      PROVE  Inv'
  <2>1. ChannelInv'
    BY <1>1, <1>6, <1>7, QuietChannel
  <2>2. DiskInv'
    <3> DEFINE x == IF ok THEN worker.wanted ELSE 0
    <3>1. /\ x \in Revisions /\ x <= worker.covered
          /\ x <= worker.persisted \/ worker.latest = 0
      BY <1>1, <1>2, <1>7, DiskNumbers, Numbers DEF DiskInv
    <3>2. acked' \in {acked, acked \cup (worker.baseline + 1 .. x)}
      BY <1>1, <1>6, <1>7
    <3> HIDE DEF x
    <3> QED  BY <1>1, <1>6, <1>7, <3>1, <3>2, QuietDisk
  <2> QED  BY <1>1, <1>6, <1>7, <2>1, <2>2 DEF Inv, FilesArePresent, FilesOf, RestTypeOK
<1>8. ASSUME worker.latest # 0, SaveSucceeds, UNCHANGED faults,
             UNCHANGED <<log, publishing, events, stopping, skipped>>,
             worker.status # "done", worker' \in Workers, caller' \in [Callers -> CallerStates],
             worker'.covered = worker.covered, worker'.baseline = worker.baseline,
             worker'.persisted = worker.latest, worker'.latest = 0, worker'.timer = FALSE,
             NEW x \in Revisions, x <= worker.covered,
             acked' \in {acked, acked \cup (worker.baseline + 1 .. x)}
      PROVE  Inv'
  <2>1. ChannelInv'
    BY <1>1, <1>8, QuietChannel
  <2>2. DiskInv'
    BY <1>1, <1>8, SaveSucceedsDisk
  <2> QED  BY <1>1, <1>8, <2>1, <2>2, SavesFiles DEF Inv, RestTypeOK
<1>9. ASSUME worker.latest # 0, SaveFails,
             UNCHANGED <<log, publishing, events, stopping, skipped, acked>>,
             worker.status # "done", worker' \in Workers, caller' \in [Callers -> CallerStates],
             worker'.covered = worker.covered, worker'.baseline = worker.baseline,
             worker'.persisted = worker.persisted, worker'.latest = worker.latest,
             worker'.dirty = worker.dirty
      PROVE  Inv'
  <2>1. ChannelInv'
    BY <1>1, <1>9, QuietChannel
  <2>2. DiskInv'
    BY <1>1, <1>9, SaveFailsDisk
  <2>3. faults' \in 0 .. MaxFaults
    BY <1>1, <1>9, BoundsAssumption DEF SaveFails, RestTypeOK
  <2> QED  BY <1>1, <1>9, <2>1, <2>2, <2>3, SavesFiles DEF Inv, RestTypeOK
<1> DEFINE v == flushed(worker)
<1>10. worker.latest # 0 =>
         /\ v \in Workers
         /\ v.status = worker.status /\ v.baseline = worker.baseline
         /\ v.covered = worker.covered /\ v.wanted = worker.wanted
         /\ v.persisted = worker.latest /\ v.dirty = {} /\ v.latest = 0 /\ v.timer = FALSE
  BY <1>1, <1>3, FlushedFields
<1> HIDE DEF v
<1>11. CASE Observe \/ forceDrains
  BY <1>4, <1>11 DEF Observe, forceDrains
<1>12. CASE forceAcknowledges
  BY <1>7, <1>12 DEF forceAcknowledges, Drained
<1>13. CASE forceStops
  BY <1>7, <1>13 DEF forceStops
<1>14. CASE forceFlushes
  <2>1. /\ worker.status = "draining" /\ worker.covered >= worker.wanted /\ worker.latest # 0
        /\ \/ SaveSucceeds /\ answer(v, TRUE) /\ UNCHANGED faults
           \/ SaveFails /\ answer(worker, FALSE)
    BY <1>14 DEF forceFlushes, Drained, v
  <2>2. CASE SaveSucceeds /\ answer(v, TRUE) /\ UNCHANGED faults
    <3>1. worker.wanted <= worker.covered
      BY <1>2, <2>1, Numbers
    <3> QED  BY <1>2, <1>6, <1>8, <1>10, <2>1, <2>2, <3>1
  <2>3. CASE SaveFails /\ answer(worker, FALSE)
    BY <1>1, <1>6, <1>9, <2>1, <2>3
  <2> QED  BY <2>1, <2>2, <2>3
<1>15. ASSUME worker.status = "select", worker.latest # 0, SaveSucceeds, UNCHANGED faults,
              worker' \in {v, [v EXCEPT !.status = "done"]},
              UNCHANGED <<log, publishing, events, caller, stopping, acked, skipped>>
       PROVE  Inv'
  <2>1. /\ worker' \in Workers /\ worker'.covered = worker.covered
        /\ worker'.baseline = worker.baseline /\ worker'.persisted = worker.latest
        /\ worker'.latest = 0 /\ worker'.timer = FALSE
    BY <1>10, <1>15 DEF Workers
  <2>2. caller' \in [Callers -> CallerStates] /\ 0 <= worker.covered
    BY <1>1, <1>2, <1>15 DEF RestTypeOK
  <2> QED  BY <1>2, <1>8, <1>15, <2>1, <2>2
<1>16. ASSUME worker.status = "select", worker.latest # 0, SaveFails,
              worker' \in {worker, [worker EXCEPT !.status = "done", !.timer = FALSE]},
              UNCHANGED <<log, publishing, events, caller, stopping, acked, skipped>>
       PROVE  Inv'
  <2>1. /\ worker' \in Workers /\ worker'.covered = worker.covered
        /\ worker'.baseline = worker.baseline /\ worker'.persisted = worker.persisted
        /\ worker'.latest = worker.latest /\ worker'.dirty = worker.dirty
    BY <1>1, <1>16 DEF Workers
  <2>2. caller' \in [Callers -> CallerStates]
    BY <1>1, <1>16 DEF RestTypeOK
  <2> QED  BY <1>9, <1>16, <2>1, <2>2
<1>17. CASE timerFires
  BY <1>3, <1>15, <1>16, <1>17 DEF timerFires, v
<1>18. CASE workerStops
  <2>1. ASSUME worker' = [worker EXCEPT !.status = "done", !.timer = FALSE],
               UNCHANGED <<cached, disk, stable, present, faults>>
        PROVE  Inv'
    <3>1. /\ worker' \in Workers /\ worker'.status = "done" /\ worker'.timer = FALSE
          /\ worker'.covered = worker.covered /\ worker'.baseline = worker.baseline
          /\ worker'.persisted = worker.persisted /\ worker'.latest = worker.latest
          /\ worker'.dirty = worker.dirty
      BY <1>1, <2>1 DEF Workers
    <3>2. UNCHANGED <<log, publishing, events, caller, stopping, acked, skipped>>
      BY <1>18 DEF workerStops
    <3>3. ChannelInv'
      BY <1>1, <3>1, <3>2, QuietChannel
    <3>4. 0 <= worker.covered /\ (0 <= worker.persisted \/ worker.latest = 0)
      BY <1>1, <1>2, DiskNumbers DEF DiskInv
    <3>5. DiskInv'
      BY <1>1, <1>2, <2>1, <3>1, <3>2, <3>4, QuietDisk
    <3> QED  BY <1>1, <2>1, <3>2, <3>3, <3>5 DEF Inv, FilesArePresent, FilesOf, RestTypeOK
  <2> QED  BY <1>15, <1>16, <1>18, <2>1 DEF workerStops, v
<1> QED  BY <1>5, <1>11, <1>12, <1>13, <1>14, <1>17, <1>18 DEF Worker

LEMMA InvInit ==
  ASSUME Init
  PROVE  Inv
<1>1. /\ log = <<>> /\ worker \in Workers /\ worker.covered = 0 /\ worker.baseline = 0
      /\ worker.persisted = 0 /\ worker.latest = 0 /\ worker.timer = FALSE
      /\ disk = NoManifest /\ cached = NoManifest /\ stable = {NoManifest}
      /\ acked = {} /\ skipped = {} /\ present = {}
  BY StartedFields, Numbers DEF Init
<1>2. /\ NoManifest \in Manifest /\ NoManifest.revision = 0
      /\ \A c \in Components : NoManifest.files[c] = 0
  BY Numbers DEF NoManifest, Manifest
<1>3. ChannelInv
  BY InitChannel
<1>4. DiskTypeOK
  BY <1>1, <1>2, Numbers DEF DiskTypeOK
<1>5. BatchIsNewest /\ CountersAgree /\ ManifestsAgree
  BY <1>1, <1>2 DEF BatchIsNewest, CountersAgree, ManifestsAgree
<1>6. 1 .. 0 = {} /\ 0 + 1 .. 0 = {}
  OBVIOUS
<1>7. SeenIsKept /\ SeenSurvives
  BY <1>1, <1>6 DEF SeenIsKept, SeenSurvives
<1>8. GenerationIsWhole /\ AcknowledgedUnlessSkipped
  BY <1>1, <1>2, <1>6 DEF GenerationIsWhole, AcknowledgedUnlessSkipped
<1>9. FilesArePresent
  BY <1>1, <1>2 DEF FilesArePresent, FilesOf
<1>10. RestTypeOK
  <2>1. Idle \in CallerStates
    BY Numbers DEF CallerStates, Idle
  <2>2. caller \in [Callers -> CallerStates]
    BY <2>1 DEF Init
  <2>3. stopping \in BOOLEAN
    BY DEF Init
  <2>4. faults \in 0 .. MaxFaults
    BY BoundsAssumption DEF Init
  <2> QED  BY <1>1, <2>2, <2>3, <2>4 DEF RestTypeOK
<1> QED  BY <1>3, <1>4, <1>5, <1>7, <1>8, <1>9, <1>10 DEF Inv, DiskInv

LEMMA InvStep ==
  ASSUME Inv, [Next]_vars
  PROVE  Inv'
<1>1. /\ ChannelInv /\ DiskInv /\ FilesArePresent /\ RestTypeOK /\ worker \in Workers
      /\ Len(log) + 1 \in Nat
  BY Numbers DEF Inv, DiskInv, DiskTypeOK
<1>2. Idle \in CallerStates /\ 0 \in Revisions
  BY Numbers DEF Idle, CallerStates
<1>3. ASSUME NEW p \in Callers \cup {NoCaller}, NEW S \in Changes, publish(p, S)
      PROVE  Inv'
  <2>1. ChannelInv' /\ DiskInv'
    BY <1>1, <1>3, PublishChannel, PublishDisk
  <2>2. UNCHANGED <<disk, stable, present, stopping, skipped, faults>>
    BY <1>3 DEF publish
  <2>3. caller' \in [Callers -> CallerStates]
    <3> DEFINE n == Len(log) + 1
               c1 == [state |-> "publishing", revision |-> n]
               c2 == [[caller EXCEPT ![p] = c1] EXCEPT ![p].state = "asking"]
    <3>1. n \in Revisions
      BY <1>1, <1>3, BoundsAssumption DEF publish, Revisions
    <3>2. c1 \in CallerStates
      BY <3>1 DEF CallerStates
    <3>3. [caller EXCEPT ![p] = c1] \in [Callers -> CallerStates]
      BY <1>1, <3>2 DEF RestTypeOK
    <3>4. c2 \in [Callers -> CallerStates]
      BY <1>1, <3>1, <3>3 DEF RestTypeOK, CallerStates
    <3>5. caller' \in {caller, [caller EXCEPT ![p] = c1], c2}
      BY <1>3 DEF publish
    <3> HIDE DEF c1, c2
    <3> QED  BY <1>1, <3>3, <3>4, <3>5 DEF RestTypeOK
  <2> QED  BY <1>1, <2>1, <2>2, <2>3 DEF Inv, FilesArePresent, FilesOf, RestTypeOK
<1>4. CASE Publisher
  <2>1. ChannelInv'
    BY <1>1, <1>4, DrainChannel, SendChannel DEF Publisher
  <2>2. UNCHANGED <<log, worker, cached, disk, stable, present, stopping, acked, skipped, faults>>
    BY <1>4 DEF Publisher, drainQueued, sendCoalesced
  <2>3. caller' \in [Callers -> CallerStates]
    BY <1>1, <1>4 DEF Publisher, drainQueued, sendCoalesced, returned, RestTypeOK, CallerStates
  <2>4. DiskInv'
    <3>1. 0 <= worker.covered /\ (0 <= worker.persisted \/ worker.latest = 0)
      BY <1>1, DiskNumbers DEF DiskInv
    <3> QED  BY <1>1, <1>2, <2>2, <3>1, QuietDisk
  <2> QED  BY <1>1, <2>1, <2>2, <2>3, <2>4 DEF Inv, FilesArePresent, FilesOf, RestTypeOK
<1>5. CASE Worker
  BY <1>5, WorkerStep
<1>6. ASSUME UNCHANGED <<log, publishing, events, worker, cached, disk, stable, present, acked,
                         skipped, faults>>,
             caller' \in [Callers -> CallerStates], stopping' \in BOOLEAN
      PROVE  Inv'
  <2>1. ChannelInv'
    BY <1>1, <1>6, QuietChannel
  <2>2. 0 <= worker.covered /\ (0 <= worker.persisted \/ worker.latest = 0)
    BY <1>1, DiskNumbers DEF DiskInv
  <2>3. DiskInv'
    BY <1>1, <1>2, <1>6, <2>2, QuietDisk
  <2> QED  BY <1>1, <1>6, <2>1, <2>3 DEF Inv, FilesArePresent, FilesOf, RestTypeOK
<1>7. ASSUME NEW p \in Callers, saveStateEventCancelled(p) \/ saveStateEventStopped(p)
      PROVE  Inv'
  BY <1>1, <1>2, <1>6, <1>7
     DEF saveStateEventCancelled, saveStateEventStopped, leave, RestTypeOK
<1>8. CASE Shutdown
  BY <1>1, <1>6, <1>8 DEF Shutdown, RestTypeOK
<1>9. CASE CrashRestart
  <2>1. DiskInv'
    BY <1>1, <1>9, CrashDisk
  <2>2. ChannelInv'
    <3>1. log' \in Seq(SUBSET All) /\ Len(log') = disk'.revision /\ disk'.revision \in Revisions
      BY <1>1, <1>9, <2>1, CrashDisk DEF DiskInv, DiskTypeOK
    <3>2. publishing' = Published /\ events' = <<>> /\ worker' = started(disk'.revision)
      BY <1>9 DEF CrashRestart
    <3> QED  BY <3>1, <3>2, RestartChannel
  <2>3. FilesArePresent'
    <3>1. present' = present /\ disk' \in stable \cup {disk} /\ stable' \subseteq stable
      BY <1>9 DEF CrashRestart
    <3> QED  BY <1>1, <3>1 DEF FilesArePresent, FilesOf
  <2>4. RestTypeOK'
    <3>1. caller' \in [Callers -> CallerStates]
      BY <1>2, <1>9 DEF CrashRestart
    <3>2. stopping' \in BOOLEAN
      BY <1>9 DEF CrashRestart
    <3>3. faults' \in 0 .. MaxFaults
      BY <1>1, <1>9, BoundsAssumption DEF CrashRestart, RestTypeOK
    <3>4. present' = present /\ skipped' \subseteq skipped
      BY <1>9 DEF CrashRestart
    <3> QED  BY <1>1, <3>1, <3>2, <3>3, <3>4 DEF RestTypeOK
  <2> QED  BY <2>1, <2>2, <2>3, <2>4 DEF Inv
<1>10. CASE UNCHANGED vars
  BY <1>1, <1>6, <1>10 DEF vars, RestTypeOK
<1> QED  BY <1>3, <1>4, <1>5, <1>7, <1>8, <1>9, <1>10 DEF Next

LEMMA Invariant == Spec => []Inv
  BY InvInit, InvStep, PTL DEF Spec

-----------------------------------------------------------------------------
(* The theorems. *)

\* Every variable keeps its type: the channel stays within its buffer, the log
\* within its bound, and a manifest names a file of a known revision for every
\* component.
THEOREM TypeCorrect == Spec => []TypeOK
<1>1. ASSUME Inv  PROVE TypeOK
  <2>1. /\ ChannelTypeOK /\ DiskTypeOK /\ RestTypeOK
    BY <1>1 DEF Inv, ChannelInv, DiskInv
  <2>2. \E n \in Revisions : log \in [1 .. n -> SUBSET (Components \cup {Transient})]
    <3>1. log \in [1 .. Len(log) -> SUBSET All] /\ Len(log) \in Revisions
      BY <2>1 DEF ChannelTypeOK
    <3> QED  BY <3>1 DEF All
  <2> QED  BY <2>1, <2>2 DEF TypeOK, ChannelTypeOK, DiskTypeOK, RestTypeOK, Publishers,
              Workers, CallerStates
<1>2. Inv => TypeOK
  BY <1>1
<1> QED  BY <1>2, Invariant, PTL

\* saveComponentSnapshot and the recovery after a crash: whatever manifest the
\* disk is left with, its files exist and together hold one generation that the
\* store committed, but for changes the worker passed over.
THEOREM RecoversAGeneration == Spec => []RecoveryIsAGeneration
<1>1. Inv => RecoveryIsAGeneration
  BY DEF Inv, DiskInv, FilesArePresent, GenerationIsWhole, RecoveryIsAGeneration
<1> QED  BY <1>1, Invariant, PTL

\* force and flush: a revision that saveStateEvent acknowledged is in every
\* manifest a crash may leave, with all earlier ones of its process, but for
\* changes the worker passed over.
THEOREM AcknowledgedSurvives == Spec => []AcknowledgedUnlessSkipped
<1>1. Inv => AcknowledgedUnlessSkipped
  BY DEF Inv, DiskInv
<1> QED  BY <1>1, Invariant, PTL
=============================================================================
