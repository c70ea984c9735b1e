-------------------------- MODULE ExecutionProofs --------------------------
(***************************************************************************)
(* Proofs about Execution for any operations, classes, lanes, awaiters,    *)
(* delays and bounds: the admission slots, the lane locks and the receipt  *)
(* stream keep their promises whatever the goroutines interleave.          *)
(***************************************************************************)
EXTENDS Execution, SequenceTheorems, TLAPS

-----------------------------------------------------------------------------
(* The inductive invariant. *)

\* A lock of observation time t has not run out.
Runs(t) == t # Never /\ now < t + LockTicks

\* The histories tell the truth about the locks, and until the last lock of a
\* lane runs out it stands in the state, and on disk if it got there: neither a
\* coordinator's write nor a review nor a restart opens the lane.
LaneStands(l) ==
  /\ Standing(lock[l]) => lock[l].observedAt = incident[l]
  /\ Standing(saved[l]) => saved[l].observedAt = durable[l]
  /\ durable[l] <= incident[l] /\ incident[l] <= now
  /\ Runs(incident[l]) => Standing(lock[l])
  /\ Runs(durable[l]) => Standing(saved[l])

LocksStand == \A l \in Lanes : LaneStands(l)

\* Where an operation without an admission never is.
AdmittedPoints == {"admission", "loop", "select", "aborting", "unwind", "releasing",
                   "restarting"}

AdmissionIsAsked == \A o \in Ops : pc[o] \in AdmittedPoints => Admitted(o)

\* An operation in the queue sleeps in acquire and has not been granted.
WaitersWait ==
  \A o \in Waiting(waiters) : pc[o] \in {"loop", "select"} /\ o \notin ready

\* A granted operation has its slot, a slot belongs to a granted operation,
\* and whoever runs under an admission was granted it.
SlotsAreGranted ==
  /\ \A o \in ready : /\ pc[o] \in {"loop", "select"} \cup Holding
                      /\ Admitted(o) /\ held[Class(o)] = o
  /\ \A c \in Classes : held[c] # NoOp => held[c] \in ready /\ Class(held[c]) = c
  /\ \A o \in Ops : pc[o] \in Holding /\ Admitted(o) => o \in ready

\* A sleeper that was neither granted nor cancelled is in the queue, where the
\* next release finds it.
SleepersAreQueued ==
  \A o \in Ops : pc[o] \in {"loop", "select"} /\ o \notin ready \cup ctxDone =>
    o \in Waiting(waiters)

SlotInv ==
  /\ now \in Instants /\ pc \in [Ops -> Points] /\ AdmissionTypeOK
  /\ AdmissionIsAsked /\ WaitersWait /\ SlotsAreGranted /\ SleepersAreQueued
  /\ SleepersHaveAWaker

\* The lane of a command in the router's queue was not closed meanwhile by an
\* operation of the command's own class.
QueuedBeforeLock ==
  \A o \in Ops :
    /\ pc[o] = "queued" /\ Admitted(o) /\ ~laneOpen(o)
    => Class(lock[Lane[o]].op) # Class(o)

IInv ==
  /\ TypeOK /\ SlotInv /\ LocksStand /\ AwaitMissesNothing
  /\ QueuedBeforeLock /\ NoSendBehindOwnClass
-----------------------------------------------------------------------------
(* The receipt stream. *)

\* A receipt that ends the wait of an Await for operation t: the final one, or
\* one whose gap makes Await read the operation again.
Marks(r, t) == (r.op = t /\ Terminal(r.status)) \/ (r.op # t /\ r.gap)
Marked(ch, t) == \E i \in DOMAIN ch : Marks(ch[i], t)

LEMMA MissesNothingMarked ==
  AwaitMissesNothing <=>
    \A a \in Awaiters : await[a] = "waiting" /\ Terminal(status[Target[a]]) =>
      Marked(channel[a], Target[a])
  BY DEF AwaitMissesNothing, Marked, Marks

\* What publishLocked leaves in a channel: the new receipt is the last one, it
\* carries the gap if anything was dropped, and otherwise nothing is lost.
LEMMA DeliveredChannel ==
  ASSUME NEW ch \in Seq(Receipts), Len(ch) <= Buffer, NEW r \in Receipts,
         NEW raced \in BOOLEAN
  PROVE  LET d == delivered(ch, r, raced)
         IN  /\ d \in Seq(Receipts) /\ Len(d) <= Buffer /\ Len(d) >= 1
             /\ d[Len(d)].op = r.op /\ d[Len(d)].status = r.status
             /\ \/ d[Len(d)].gap
                \/ Len(d) = Len(ch) + 1 /\ \A i \in 1..Len(ch) : d[i] = ch[i]
<1> DEFINE g == [r EXCEPT !.gap = TRUE]
<1>1. g \in Receipts /\ g.op = r.op /\ g.status = r.status /\ g.gap
  BY DEF Receipts
<1>2. CASE Len(ch) < Buffer /\ (ch = << >> \/ ~raced)
  <2>1. delivered(ch, r, raced) = Append(ch, r)
    BY <1>2 DEF delivered
  <2> QED  BY <1>2, <2>1, BufferAssumption
<1>3. CASE ~(Len(ch) < Buffer /\ (ch = << >> \/ ~raced))
  <2>1. delivered(ch, r, raced) = Append(Tail(ch), g)
    BY <1>3 DEF delivered
  <2>2. ch # << >>
    BY <1>3, BufferAssumption
  <2>3. Tail(ch) \in Seq(Receipts) /\ Len(Tail(ch)) = Len(ch) - 1
    BY <2>2
  <2>4. /\ Append(Tail(ch), g) \in Seq(Receipts) /\ Len(Append(Tail(ch), g)) = Len(ch)
        /\ Append(Tail(ch), g)[Len(ch)] = g /\ Len(ch) \in Nat /\ Len(ch) >= 1
    BY <1>1, <2>2, <2>3
  <2> HIDE DEF g
  <2> QED  BY <1>1, <2>1, <2>4
<1> QED  BY <1>2, <1>3

LEMMA DeliveredMarks ==
  ASSUME NEW ch \in Seq(Receipts), Len(ch) <= Buffer, NEW r \in Receipts,
         NEW raced \in BOOLEAN, NEW t,
         IF r.op = t THEN Terminal(r.status) ELSE Marked(ch, t)
  PROVE  Marked(delivered(ch, r, raced), t)
<1> DEFINE d == delivered(ch, r, raced)
<1>1. /\ d \in Seq(Receipts) /\ Len(d) >= 1
      /\ d[Len(d)].op = r.op /\ d[Len(d)].status = r.status
      /\ \/ d[Len(d)].gap
         \/ Len(d) = Len(ch) + 1 /\ \A i \in 1..Len(ch) : d[i] = ch[i]
  BY DeliveredChannel
<1> SUFFICES Marked(d, t)
  OBVIOUS
<1> HIDE DEF d
<1>2. /\ DOMAIN d = 1..Len(d) /\ DOMAIN ch = 1..Len(ch) /\ Len(d) \in Nat /\ Len(ch) \in Nat
      /\ Len(d) \in DOMAIN d
  BY <1>1
<1>3. CASE Marks(d[Len(d)], t)
  BY <1>2, <1>3, Zenon DEF Marked
<1>4. CASE ~Marks(d[Len(d)], t)
  <2>1. r.op # t /\ ~d[Len(d)].gap
    BY <1>1, <1>4 DEF Marks
  <2>2. PICK i \in 1..Len(ch) : Marks(ch[i], t)
    BY <1>2, <2>1 DEF Marked
  <2>3. Len(d) = Len(ch) + 1 /\ \A j \in 1..Len(ch) : d[j] = ch[j]
    BY <1>1, <2>1, Zenon
  <2>4. i \in DOMAIN d /\ d[i] = ch[i]
    BY <1>2, <2>2, <2>3
  <2> QED  BY <2>2, <2>4 DEF Marked
<1> QED  BY <1>3, <1>4

\* publish keeps the types and leaves no Await without its mark.
LEMMA PublishStream ==
  ASSUME StreamTypeOK, AwaitMissesNothing, NEW o \in Ops, NEW s \in Statuses, publish(o, s)
  PROVE  StreamTypeOK' /\ AwaitMissesNothing'
<1> DEFINE r == [op |-> o, status |-> s, gap |-> FALSE]
<1>1. r \in Receipts
  BY DEF Receipts
<1>2. /\ status' = [status EXCEPT ![o] = s] /\ evicted' \subseteq evicted /\ UNCHANGED await
  BY DEF publish
<1>3. PICK raced \in SUBSET Awaiters : channel' =
        [a \in Awaiters |-> IF Subscribed(a) THEN delivered(channel[a], r, a \in raced)
                           ELSE channel[a]]
  BY DEF publish
<1>4. ASSUME NEW a \in Awaiters
      PROVE  channel'[a] = IF Subscribed(a) THEN delivered(channel[a], r, a \in raced)
                           ELSE channel[a]
  BY <1>3
<1>5. channel' = [a \in Awaiters |-> channel'[a]]
  BY <1>3
<1> HIDE DEF r
<1>6. ASSUME NEW a \in Awaiters
      PROVE  channel'[a] \in Seq(Receipts) /\ Len(channel'[a]) <= Buffer
  <2>1. channel[a] \in Seq(Receipts) /\ Len(channel[a]) <= Buffer
    BY DEF StreamTypeOK
  <2>2. (a \in raced) \in BOOLEAN
    OBVIOUS
  <2>3. /\ delivered(channel[a], r, a \in raced) \in Seq(Receipts)
        /\ Len(delivered(channel[a], r, a \in raced)) <= Buffer
    BY <1>1, <2>1, <2>2, DeliveredChannel
  <2> QED  BY <1>4, <2>1, <2>3
<1>7. StreamTypeOK'
  BY <1>2, <1>5, <1>6 DEF StreamTypeOK
<1>8. ASSUME NEW a \in Awaiters, await[a] = "waiting", Terminal(status'[Target[a]])
      PROVE  Marked(channel'[a], Target[a])
  <2>1. channel'[a] = delivered(channel[a], r, a \in raced) /\ (a \in raced) \in BOOLEAN
    BY <1>4, <1>8 DEF Subscribed
  <2>2. channel[a] \in Seq(Receipts) /\ Len(channel[a]) <= Buffer
    BY DEF StreamTypeOK
  <2>3. Target[a] = o => Terminal(s)
    BY <1>2, <1>8, TargetAssumption DEF StreamTypeOK
  <2>4. Target[a] # o => Marked(channel[a], Target[a])
    BY <1>2, <1>8, TargetAssumption, MissesNothingMarked DEF StreamTypeOK
  <2>5. r.op = o /\ r.status = s
    BY DEF r
  <2> QED  BY <1>1, <2>1, <2>2, <2>3, <2>4, <2>5, DeliveredMarks
<1>9. AwaitMissesNothing'
  BY <1>2, <1>8 DEF AwaitMissesNothing, Marked, Marks
<1> QED  BY <1>7, <1>9

\* The steps of Await: the receipt it takes was not a mark, or it leaves.
LEMMA AwaitStream ==
  ASSUME StreamTypeOK, AwaitMissesNothing, NEW a \in Awaiters,
         subscribe(a) \/ firstRead(a) \/ receive(a) \/ abandon(a)
  PROVE  StreamTypeOK' /\ AwaitMissesNothing'
<1> DEFINE t == Target[a]
<1>1. UNCHANGED <<status, evicted>>
  BY DEF subscribe, firstRead, receive, abandon
<1>2. \A b \in Awaiters \ {a} : await'[b] = await[b] /\ channel'[b] = channel[b]
  BY DEF subscribe, firstRead, receive, abandon, leave, StreamTypeOK
<1>3. /\ await' = [await EXCEPT ![a] = await'[a]]
      /\ channel' = [channel EXCEPT ![a] = channel'[a]]
      /\ await'[a] \in AwaitStates
      /\ channel'[a] \in {channel[a], << >>} \cup
           (IF channel[a] # << >> THEN {Tail(channel[a])} ELSE {})
  BY DEF subscribe, firstRead, receive, abandon, leave, StreamTypeOK, AwaitStates
<1>4. StreamTypeOK'
  <2>1. channel[a] \in Seq(Receipts) /\ Len(channel[a]) <= Buffer
    BY DEF StreamTypeOK
  <2>2. channel'[a] \in Seq(Receipts) /\ Len(channel'[a]) <= Buffer
    <3>1. CASE channel'[a] = channel[a]
      BY <2>1, <3>1
    <3>2. CASE channel'[a] = << >>
      BY <3>2, BufferAssumption
    <3>3. CASE channel[a] # << >> /\ channel'[a] = Tail(channel[a])
      BY <2>1, <3>3, BufferAssumption
    <3> QED  BY <1>3, <3>1, <3>2, <3>3
  <2> QED  BY <1>1, <1>2, <1>3, <2>2 DEF StreamTypeOK
<1>5. ASSUME await'[a] = "waiting", Terminal(status[t])
      PROVE  Marked(channel'[a], t)
  <2>1. CASE subscribe(a) \/ abandon(a)
    BY <1>5, <2>1 DEF subscribe, abandon, leave, StreamTypeOK
  <2>2. CASE firstRead(a)
    BY <1>5, <2>2 DEF firstRead, leave, StreamTypeOK
  <2>3. CASE receive(a)
    <3>1. /\ channel[a] # << >> /\ await[a] = "waiting" /\ channel'[a] = Tail(channel[a])
          /\ ~Marks(Head(channel[a]), t)
      BY <1>5, <2>3 DEF receive, leave, StreamTypeOK, Marks
    <3>2. channel[a] \in Seq(Receipts)
      BY DEF StreamTypeOK
    <3>3. PICK i \in DOMAIN channel[a] : Marks(channel[a][i], t)
      BY <1>5, <3>1, MissesNothingMarked DEF Marked
    <3>4. i \in 2..Len(channel[a])
      BY <3>1, <3>2, <3>3
    <3>5. i - 1 \in DOMAIN Tail(channel[a]) /\ Tail(channel[a])[i - 1] = channel[a][i]
      BY <3>1, <3>2, <3>4
    <3> QED  BY <3>1, <3>3, <3>5 DEF Marked
  <2> QED  BY <2>1, <2>2, <2>3
<1>6. AwaitMissesNothing'
  BY <1>1, <1>2, <1>5 DEF AwaitMissesNothing, Marked, Marks
<1> QED  BY <1>4, <1>6

-----------------------------------------------------------------------------
(* The lane locks. *)

LEMMA LaneNumbers ==
  ASSUME now \in Instants, LaneTypeOK
  PROVE  /\ now \in Int /\ LockTicks \in Int /\ LockTicks > 0
         /\ \A k \in Locks : k.observedAt \in Int
         /\ \A l \in Lanes : /\ lock[l] \in Locks /\ saved[l] \in Locks
                             /\ incident[l] \in Int /\ durable[l] \in Int
<1>1. \A k \in Locks : k.observedAt \in Int
  BY MaxTimeAssumption DEF Locks, Instants
<1>2. \A l \in Lanes : lock[l] \in Locks /\ saved[l] \in Locks
  BY DEF LaneTypeOK
<1>3. \A l \in Lanes : incident[l] \in Int /\ durable[l] \in Int
  BY MaxTimeAssumption DEF LaneTypeOK, Instants, Never
<1> QED  BY <1>1, <1>2, <1>3, MaxTimeAssumption, LockTicksAssumption DEF Instants

\* A lane whose last lock has not run out is closed, and a lane whose last
\* durable lock has not run out has the same lock in the state.
LEMMA RunsIsActive ==
  ASSUME now \in Instants, LaneTypeOK, NEW l \in Lanes, LaneStands(l)
  PROVE  /\ Runs(incident[l]) => Active(lock[l], now)
         /\ Runs(durable[l]) => Runs(incident[l])
<1>1. /\ now \in Int /\ LockTicks \in Int
      /\ incident[l] \in Int /\ durable[l] \in Int
  BY LaneNumbers
<1>2. Runs(durable[l]) => Runs(incident[l])
  <2>1. durable[l] \in Instants \cup {Never} /\ incident[l] \in Instants \cup {Never}
    BY DEF LaneTypeOK
  <2> QED  BY <1>1, <2>1, MaxTimeAssumption DEF Runs, LaneStands, Instants, Never
<1> QED  BY <1>1, <1>2 DEF LaneStands, Runs, Active

\* What a save of one of two contents leaves at a lane, whatever it reports.
LEMMA SavedLane ==
  ASSUME NEW contents, onDisk(contents), NEW l \in Lanes
  PROVE  /\ \E disk \in contents : saved' = disk
         /\ durable'[l] = IF Standing(saved'[l]) THEN saved'[l].observedAt ELSE durable[l]
  BY DEF onDisk

\* A step that leaves the clock and the history of a lane alone, and both the
\* lock of the state and the one on disk as they were, equal to the state's, or,
\* when the last one has run out, not standing.
LEMMA SaveStands ==
  ASSUME now \in Instants, LaneTypeOK, NEW l \in Lanes, LaneStands(l),
         now' = now, incident'[l] = incident[l],
         lock'[l] = lock[l] \/ (~Standing(lock'[l]) /\ ~Active(lock[l], now)),
         durable'[l] = IF Standing(saved'[l]) THEN saved'[l].observedAt ELSE durable[l],
         \/ saved'[l] = saved[l]
         \/ saved'[l] = lock[l]
         \/ ~Standing(saved'[l]) /\ ~Active(lock[l], now)
  PROVE  LaneStands(l)'
<1>1. /\ now \in Int /\ LockTicks \in Int
      /\ incident[l] \in Int /\ durable[l] \in Int
  BY LaneNumbers
<1>2. /\ Runs(incident[l]) => Active(lock[l], now)
      /\ Runs(durable[l]) => Runs(incident[l])
  BY RunsIsActive
<1>3. /\ Standing(lock'[l]) => lock'[l] = lock[l]
      /\ Runs(incident[l]) => lock'[l] = lock[l]
  BY <1>2
<1>4. /\ Standing(lock'[l]) => lock'[l].observedAt = incident'[l]
      /\ incident'[l] <= now'
      /\ Runs(incident[l])' => Standing(lock'[l])
  BY <1>3 DEF LaneStands, Runs
<1>5. CASE Standing(saved'[l])
  <2>1. durable'[l] = saved'[l].observedAt /\ durable'[l] \in {durable[l], incident[l]}
    BY <1>5 DEF LaneStands
  <2> QED  BY <1>1, <1>4, <1>5, <2>1 DEF LaneStands
<1>6. CASE ~Standing(saved'[l])
  <2>1. durable'[l] = durable[l]
    BY <1>6
  <2>2. ~Runs(durable[l])
    BY <1>2, <1>6 DEF LaneStands, Active
  <2> QED  BY <1>4, <1>6, <2>1, <2>2 DEF LaneStands, Runs
<1> QED  BY <1>5, <1>6

\* What the disk and its history hold after a save.
LEMMA OnDiskTypes ==
  ASSUME LaneTypeOK, NEW contents \in SUBSET [Lanes -> Locks], onDisk(contents)
  PROVE  saved' \in [Lanes -> Locks] /\ durable' \in [Lanes -> Instants \cup {Never}]
<1>1. saved' \in [Lanes -> Locks]
  BY DEF onDisk
<1>2. \A l \in Lanes : saved'[l].observedAt \in Instants
  BY <1>1 DEF Locks
<1> QED  BY <1>1, <1>2 DEF onDisk, LaneTypeOK

\* Every kind of step on the locks keeps the types and LocksStand, and makes
\* no lock active other than that of a rejected operation.
LEMMA GuardRejectionLanes ==
  ASSUME now \in Instants, LaneTypeOK, LocksStand, NEW o \in Ops, guardRejection(o), now' = now
  PROVE  /\ LaneTypeOK' /\ LocksStand'
         /\ \A l \in Lanes : lock'[l] = lock[l] \/ lock'[l].op = o
<1> DEFINE l == Lane[o]
           k == [op |-> o, observedAt |-> now, cleared |-> FALSE]
<1>1. CASE l = NoLane \/ ~laneOpen(o)
  BY <1>1 DEF guardRejection, laneVars, LaneTypeOK, LocksStand, LaneStands, Runs
<1>2. CASE ~(l = NoLane \/ ~laneOpen(o))
  <2>1. l \in Lanes /\ ~Active(lock[l], now)
    BY <1>2, LaneAssumption DEF laneOpen
  <2>2. k \in Locks /\ k.op = o /\ ~k.cleared /\ k.observedAt = now
    BY DEF Locks
  <2> HIDE DEF k
  <2>3. /\ lock' = [lock EXCEPT ![l] = k]
        /\ onDisk({saved, lock'})
        /\ incident' = [incident EXCEPT ![l] = now]
        /\ UNCHANGED base
    BY <1>2 DEF guardRejection, writeLaneLock, persisted, k
  <2>4. lock' \in [Lanes -> Locks]
    BY <2>1, <2>2, <2>3 DEF LaneTypeOK
  <2>5. incident' \in [Lanes -> Instants \cup {Never}]
    BY <2>1, <2>3 DEF LaneTypeOK
  <2>6. LaneTypeOK'
    BY <2>3, <2>4, <2>5, OnDiskTypes DEF LaneTypeOK
  <2>7. ASSUME NEW m \in Lanes \ {l}  PROVE LaneStands(m)'
    <3>1. lock'[m] = lock[m] /\ incident'[m] = incident[m] /\ saved'[m] \in {saved[m], lock[m]}
      BY <2>1, <2>3, SavedLane DEF LaneTypeOK
    <3>2. durable'[m] = IF Standing(saved'[m]) THEN saved'[m].observedAt ELSE durable[m]
      BY <2>3, SavedLane
    <3>3. LaneStands(m)
      BY DEF LocksStand
    <3> QED  BY <3>1, <3>2, <3>3, SaveStands
  <2>8. LaneStands(l)'
    <3>1. lock'[l] = k /\ incident'[l] = now /\ saved'[l] \in {saved[l], k}
      BY <2>1, <2>3, SavedLane DEF LaneTypeOK
    <3>2. durable'[l] = IF Standing(saved'[l]) THEN saved'[l].observedAt ELSE durable[l]
      BY <2>1, <2>3, SavedLane
    <3>3. Standing(k)
      BY <2>2, OpsAssumption DEF Standing
    <3>4. ~Runs(durable[l]) /\ durable[l] <= now /\ (Standing(saved[l]) => saved[l].observedAt = durable[l])
      <4>1. LaneStands(l)
        BY <2>1 DEF LocksStand
      <4>2. durable[l] \in Instants \cup {Never}
        BY <2>1 DEF LaneTypeOK
      <4> QED  BY <2>1, <4>1, <4>2, RunsIsActive, LaneNumbers DEF LaneStands
    <3> QED  BY <2>1, <2>2, <3>1, <3>2, <3>3, <3>4, LaneNumbers DEF LaneStands, Runs
  <2>9. \A m \in Lanes : lock'[m] = lock[m] \/ lock'[m].op = o
    BY <2>1, <2>2, <2>3 DEF LaneTypeOK
  <2> QED  BY <2>6, <2>7, <2>8, <2>9 DEF LocksStand
<1> QED  BY <1>1, <1>2

LEMMA ClearLockLanes ==
  ASSUME now \in Instants, LaneTypeOK, LocksStand, NEW l \in Lanes, NEW o \in Ops,
         clearLock(l, o), now' = now
  PROVE  /\ LaneTypeOK' /\ LocksStand'
         /\ \A m \in Lanes : lock'[m] = lock[m] \/ lock'[m].cleared
<1> DEFINE k == [lock[l] EXCEPT !.cleared = TRUE]
           review == [lock EXCEPT ![l] = k]
<1>1. lock[l] \in Locks /\ k \in Locks /\ k.cleared
  BY DEF LaneTypeOK, Locks
<1> HIDE DEF k
<1>2. /\ ~Active(lock[l], now) /\ UNCHANGED <<base, incident>>
      /\ lock' \in {lock, review}
      /\ onDisk({saved, review}) \/ onDisk({saved, lock, review})
  BY DEF clearLock, writeLaneLock, persisted, k
<1>3. review \in [Lanes -> Locks] /\ lock \in [Lanes -> Locks] /\ saved \in [Lanes -> Locks]
  BY <1>1 DEF LaneTypeOK
<1>4. LaneTypeOK'
  BY <1>2, <1>3, OnDiskTypes DEF LaneTypeOK
<1>5. \A m \in Lanes : lock'[m] = lock[m] \/ lock'[m].cleared
  BY <1>1, <1>2, <1>3
<1>6. ASSUME NEW m \in Lanes  PROVE LaneStands(m)'
  <2>1. saved' \in {saved, lock, review}
    BY <1>2 DEF onDisk
  <2>2. durable'[m] = IF Standing(saved'[m]) THEN saved'[m].observedAt ELSE durable[m]
    BY <1>2, SavedLane
  <2>3. review[m] = lock[m] \/ (~Standing(review[m]) /\ ~Active(lock[m], now))
    BY <1>1, <1>2, <1>3 DEF Standing
  <2>4. LaneStands(m) /\ incident'[m] = incident[m]
    BY <1>2 DEF LocksStand
  <2> HIDE DEF review
  <2> QED  BY <1>2, <2>1, <2>2, <2>3, <2>4, SaveStands
<1> QED  BY <1>4, <1>5, <1>6 DEF LocksStand

LEMMA CoordinatorLanes ==
  ASSUME LaneTypeOK, LocksStand, NEW l \in Lanes, viewAutomation(l) \/ commitAutomation(l),
         now' = now
  PROVE  LaneTypeOK' /\ LocksStand' /\ UNCHANGED lock
<1>1. UNCHANGED <<lock, saved, incident, durable>>
  <2>1. CASE commitAutomation(l)
    BY <2>1 DEF commitAutomation, LaneTypeOK
  <2> QED  BY <2>1 DEF viewAutomation
<1>2. base' \in [Lanes -> {<<k>> : k \in Locks} \cup {NoView}]
  BY DEF viewAutomation, commitAutomation, LaneTypeOK
<1> QED  BY <1>1, <1>2 DEF LaneTypeOK, LocksStand, LaneStands, Runs

LEMMA FlushLanes ==
  ASSUME now \in Instants, LaneTypeOK, LocksStand, flushState, now' = now
  PROVE  LaneTypeOK' /\ LocksStand' /\ UNCHANGED lock
<1>1. onDisk({lock}) /\ UNCHANGED <<lock, base, incident>>
  BY DEF flushState
<1>2. LaneTypeOK'
  BY <1>1, OnDiskTypes DEF LaneTypeOK
<1>3. ASSUME NEW l \in Lanes  PROVE LaneStands(l)'
  <2>1. saved'[l] = lock[l]
    BY <1>1 DEF onDisk
  <2>2. durable'[l] = IF Standing(saved'[l]) THEN saved'[l].observedAt ELSE durable[l]
    BY <1>1, SavedLane
  <2> QED  BY <1>1, <2>1, <2>2, SaveStands DEF LocksStand
<1> QED  BY <1>1, <1>2, <1>3 DEF LocksStand

\* A restart takes the last durable lock for the last lock.
LEMMA RestartLanes ==
  ASSUME now \in Instants, LaneTypeOK, LocksStand, restartLanes, now' = now
  PROVE  LaneTypeOK' /\ LocksStand'
<1>1. \A k \in Locks : refreshed(k) \in Locks
  BY DEF refreshed, Locks
<1>2. /\ lock' = [l \in Lanes |-> refreshed(saved[l])] /\ onDisk({saved, lock'})
      /\ base' = [l \in Lanes |-> NoView] /\ incident' = durable
  BY DEF restartLanes, persisted
<1>3. lock' \in [Lanes -> Locks] /\ saved \in [Lanes -> Locks]
  BY <1>1, <1>2 DEF LaneTypeOK
<1>4. LaneTypeOK'
  BY <1>2, <1>3, OnDiskTypes DEF LaneTypeOK
<1>5. ASSUME NEW l \in Lanes  PROVE LaneStands(l)'
  <2>1. /\ lock'[l] = refreshed(saved[l]) /\ incident'[l] = durable[l]
        /\ saved'[l] \in {saved[l], lock'[l]}
    BY <1>2, SavedLane
  <2>2. durable'[l] = IF Standing(saved'[l]) THEN saved'[l].observedAt ELSE durable[l]
    BY <1>2, SavedLane
  <2>3. /\ now \in Int /\ LockTicks \in Int /\ saved[l].observedAt \in Int
        /\ incident[l] \in Int /\ durable[l] \in Int
    BY LaneNumbers
  <2>4. lock'[l] = saved[l] \/ (~Standing(lock'[l]) /\ ~Active(saved[l], now))
    BY <2>1, <2>3 DEF refreshed, Standing, Active
  <2>5. /\ Standing(saved[l]) => saved[l].observedAt = durable[l]
        /\ durable[l] <= now
        /\ Runs(durable[l]) => Active(saved[l], now)
    BY <2>3 DEF LocksStand, LaneStands, Runs, Active
  <2>6. durable'[l] = durable[l]
    BY <2>1, <2>2, <2>4, <2>5
  <2>7. /\ Standing(lock'[l]) => lock'[l].observedAt = durable[l]
        /\ Standing(saved'[l]) => saved'[l].observedAt = durable[l]
        /\ Runs(durable[l]) => Standing(lock'[l]) /\ Standing(saved'[l])
    BY <2>1, <2>4, <2>5 DEF Active
  <2> QED  BY <2>1, <2>3, <2>5, <2>6, <2>7 DEF LaneStands, Runs
<1> QED  BY <1>4, <1>5 DEF LocksStand

-----------------------------------------------------------------------------
(* The admission manager. *)

LEMMA EffectiveWeightIsInt ==
  ASSUME NEW w \in Nat, NEW s \in Nat, NEW t \in Nat, NEW r,
         r.weight = w, r.submittedAt = s
  PROVE  effectiveWeight(r, t) \in Int
<1> DEFINE age == IF t > s THEN t - s ELSE 0
           bonus == age \div AgingTicks
<1>1. age \in Nat
  OBVIOUS
<1>2. bonus \in Int
  BY <1>1, AgingAssumption
<1> HIDE DEF bonus
<1>3. effectiveWeight(r, t) = w + (IF bonus > MaxBonus THEN MaxBonus ELSE bonus)
  BY DEF effectiveWeight, bonus
<1> QED  BY <1>2, <1>3, AgingAssumption

\* admissionWaiterBefore never puts two waiters before each other.
LEMMA BeforeIsAsymmetric ==
  ASSUME AdmissionTypeOK, now \in Instants, NEW ws \in [Ops -> Nat],
         NEW o \in Ops, NEW p \in Ops, before(waiter(ws, o), waiter(ws, p), now)
  PROVE  ~before(waiter(ws, p), waiter(ws, o), now)
<1> DEFINE l == waiter(ws, o)
           r == waiter(ws, p)
<1>1. now \in Nat /\ \A q \in Ops : submittedAt[q] \in Nat
  BY MaxTimeAssumption DEF AdmissionTypeOK, Instants
<1>2. \A q \in Ops : /\ Request[q].tier \in Int /\ Request[q].deadline \in Nat
                     /\ Request[q].weight \in Nat /\ Request[q].priority \in Nat
  BY RequestAssumption DEF RequestFields, Tiers
<1>3. /\ l.tier \in Int /\ l.deadline \in Nat /\ l.weight \in Nat /\ l.priority \in Nat
      /\ l.submittedAt \in Nat /\ l.id \in Nat
      /\ r.tier \in Int /\ r.deadline \in Nat /\ r.weight \in Nat /\ r.priority \in Nat
      /\ r.submittedAt \in Nat /\ r.id \in Nat
  BY <1>1, <1>2 DEF waiter
<1> HIDE DEF l, r
<1>4. effectiveWeight(l, now) \in Int /\ effectiveWeight(r, now) \in Int
  BY <1>1, <1>3, EffectiveWeightIsInt
<1>5. before(l, r, now) => ~before(r, l, now)
  BY <1>3, <1>4 DEF before, deadlineBefore
<1> QED  BY <1>5 DEF l, r

\* What dispatchLocked does: it drops the cancelled waiters and grants some of
\* the others, each the free slot of its own class, one per class.
Grants(G, ws, h, r) ==
  /\ waiters' = Without(ws, ctxDone \cup G) /\ ready' = r \cup G
  /\ held' \in [Classes -> Ops \cup {NoOp}]
  /\ \A o \in G : /\ o \in Waiting(ws) /\ o \notin ctxDone /\ Class(o) \in Classes
                  /\ h[Class(o)] = NoOp /\ held'[Class(o)] = o
  /\ \A c \in Classes : \/ held'[c] = h[c]
                        \/ h[c] = NoOp /\ held'[c] \in G /\ Class(held'[c]) = c

LEMMA DispatchGrants ==
  ASSUME AdmissionTypeOK, now \in Instants, NEW ws \in [Ops -> Nat],
         NEW h \in [Classes -> Ops \cup {NoOp}], NEW r \in SUBSET Ops,
         dispatchLocked(ws, h, r)
  PROVE  \E G \in SUBSET Ops : Grants(G, ws, h, r)
<1> DEFINE live == Without(ws, ctxDone)
           sel(c) == selected(live, h, c)
           G == UNION {sel(c) : c \in Classes}
<1>1. live \in [Ops -> Nat] /\ Waiting(live) = Waiting(ws) \ ctxDone
  BY DEF Without, Waiting, NoWaiter
<1> HIDE DEF live
<1>2. ASSUME NEW c \in Classes
      PROVE  /\ sel(c) \subseteq {o \in Waiting(live) : Class(o) = c}
             /\ sel(c) # {} => h[c] = NoOp
             /\ \A o, p \in sel(c) : o = p
  <2> DEFINE mine == {o \in Waiting(live) : Class(o) = c}
  <2>1. CASE h[c] # NoOp \/ availableAt[c] > now
    BY <2>1 DEF selected
  <2>2. CASE ~(h[c] # NoOp \/ availableAt[c] > now)
    <3>1. sel(c) = {o \in mine : \A p \in mine \ {o} :
                                   before(waiter(live, o), waiter(live, p), now)}
      BY <2>2 DEF selected
    <3>2. mine \subseteq Ops
      BY DEF Waiting
    <3> HIDE DEF mine
    <3>3. ASSUME NEW o \in sel(c), NEW p \in sel(c), o # p  PROVE FALSE
      <4>1. /\ o \in Ops /\ p \in Ops
            /\ before(waiter(live, o), waiter(live, p), now)
            /\ before(waiter(live, p), waiter(live, o), now)
        BY <3>1, <3>2, <3>3
      <4> QED  BY <1>1, <4>1, BeforeIsAsymmetric
    <3> QED  BY <2>2, <3>1, <3>3 DEF mine
  <2> QED  BY <2>1, <2>2
<1>3. /\ waiters' = Without(live, G) /\ ready' = r \cup G
      /\ held' = [c \in Classes |-> IF sel(c) # {} THEN CHOOSE o \in sel(c) : TRUE ELSE h[c]]
  BY DEF dispatchLocked, live
<1> HIDE DEF sel
<1>4. /\ G \in SUBSET Ops
      /\ \A o \in G : o \in Waiting(live) /\ Class(o) \in Classes /\ o \in sel(Class(o))
  <2>1. \A o \in G : \E c \in Classes : o \in sel(c)
    OBVIOUS
  <2> QED  BY <1>2, <2>1 DEF Waiting
<1>5. ASSUME NEW c \in Classes, NEW o \in sel(c)
      PROVE  held'[c] = o /\ h[c] = NoOp /\ o \in G /\ Class(o) = c
  <2>1. (CHOOSE p \in sel(c) : TRUE) \in sel(c)
    OBVIOUS
  <2>2. held'[c] = CHOOSE p \in sel(c) : TRUE
    BY <1>3
  <2>3. held'[c] = o
    BY <1>2, <2>1, <2>2
  <2> QED  BY <1>2, <2>3
<1>6. \A c \in Classes : sel(c) = {} => held'[c] = h[c]
  BY <1>3
<1>7. waiters' = Without(ws, ctxDone \cup G)
  BY <1>3 DEF Without, live
<1>8. \A c \in Classes : \/ held'[c] = h[c]
                         \/ h[c] = NoOp /\ held'[c] \in G /\ Class(held'[c]) = c
  BY <1>5, <1>6
<1>9. held' \in [Classes -> Ops \cup {NoOp}]
  <2>1. \A c \in Classes : held'[c] \in Ops \cup {NoOp}
    BY <1>4, <1>8
  <2> QED  BY <1>3, <2>1
<1>10. \A o \in G : /\ o \in Waiting(ws) /\ o \notin ctxDone /\ Class(o) \in Classes
                    /\ h[Class(o)] = NoOp /\ held'[Class(o)] = o
  BY <1>1, <1>4, <1>5
<1>11. Grants(G, ws, h, r)
  BY <1>3, <1>7, <1>8, <1>9, <1>10 DEF Grants
<1> HIDE DEF G
<1> QED  BY <1>4, <1>11

-----------------------------------------------------------------------------
(* The admission slots in the operation loop. *)

Asleep == {"loop", "select"}

LEMMA ClassOfAdmitted ==
  ASSUME NEW o \in Ops, Admitted(o)
  PROVE  Class(o) \in Classes
  BY RequestAssumption DEF Admitted, Class, RequestFields

\* An operation moves on while it stays outside of acquire, with its slot or
\* without one.
LEMMA MoveSlots ==
  ASSUME SlotInv, NEW o \in Ops, NEW x \in Points, pc' = [pc EXCEPT ![o] = x],
         pc[o] \notin Asleep, x \notin Asleep, x \in AdmittedPoints => Admitted(o),
         Admitted(o) => (x \in Holding <=> pc[o] \in Holding),
         submittedAt' \in [Ops -> Instants], now' = now,
         UNCHANGED <<held, nextID, waiters, ready, notify, timer, availableAt, ctxDone>>
  PROVE  SlotInv'
<1> USE DEF SlotInv
<1>1. now' \in Instants /\ pc' \in [Ops -> Points] /\ AdmissionTypeOK'
  BY DEF AdmissionTypeOK
<1>2. pc'[o] = x /\ \A p \in Ops \ {o} : pc'[p] = pc[p]
  OBVIOUS
<1>3. AdmissionIsAsked'
  BY <1>2 DEF AdmissionIsAsked, Admitted, Class
<1>4. WaitersWait'
  BY <1>2 DEF WaitersWait, Waiting, Asleep
<1>5. SlotsAreGranted'
  <2>1. o \in ready => pc[o] \in Holding /\ Admitted(o)
    BY DEF SlotsAreGranted, Asleep
  <2>2. ready \subseteq Ops
    BY DEF AdmissionTypeOK
  <2> QED  BY <1>2, <2>1, <2>2 DEF SlotsAreGranted, Admitted, Class, Asleep
<1>6. SleepersAreQueued'
  BY <1>2 DEF SleepersAreQueued, Waiting, Asleep
<1>7. SleepersHaveAWaker'
  BY <1>2 DEF SleepersHaveAWaker, Sleeps, Asleep, Class
<1> QED  BY <1>1, <1>3, <1>4, <1>5, <1>6, <1>7

\* The lane of a class is moved by the operation that has the class's slot.
LEMMA SendSlots ==
  ASSUME SlotInv, NEW o \in Ops, Send(o)
  PROVE  SlotInv'
<1> USE DEF SlotInv
<1>1. /\ pc[o] = "queued" /\ pc' = [pc EXCEPT ![o] = "response"] /\ now' = now
      /\ availableAt' = [c \in Classes |->
                           IF c = Class(o) THEN Capped(now + PaceTicks) ELSE availableAt[c]]
      /\ UNCHANGED <<held, nextID, waiters, ready, notify, timer, submittedAt, ctxDone>>
  BY DEF Send, goto
<1>2. pc'[o] = "response" /\ \A p \in Ops \ {o} : pc'[p] = pc[p]
  BY <1>1
<1>3. now' \in Instants /\ pc' \in [Ops -> Points]
  BY <1>1 DEF Points, Holding
<1>4. Capped(now + PaceTicks) \in Instants
  BY MaxTimeAssumption, ExecutionBounds DEF Capped, Instants
<1>5. AdmissionTypeOK'
  BY <1>1, <1>4 DEF AdmissionTypeOK
<1>6. AdmissionIsAsked' /\ WaitersWait' /\ SleepersAreQueued'
  BY <1>1, <1>2 DEF AdmissionIsAsked, Admitted, Class, AdmittedPoints, WaitersWait, Waiting,
     SleepersAreQueued
<1>7. SlotsAreGranted'
  BY <1>1, <1>2, ClassOfAdmitted DEF SlotsAreGranted, AdmissionTypeOK, Admitted, Class, Holding
<1>8. SleepersHaveAWaker'
  <2> SUFFICES ASSUME NEW p \in Ops, Sleeps(p)'
               PROVE  (held[Class(p)] # NoOp \/ availableAt[Class(p)] <= now)'
    BY DEF SleepersHaveAWaker
  <2>1. p # o /\ Sleeps(p) /\ Admitted(p) /\ Class(p) \in Classes
    BY <1>1, <1>2, ClassOfAdmitted DEF Sleeps, AdmissionIsAsked, AdmittedPoints
  <2>2. CASE Class(p) = Class(o)
    <3>1. o \in ready /\ held[Class(o)] = o
      BY <1>1, <2>1, <2>2 DEF SlotsAreGranted, Admitted, Holding
    <3> QED  BY <1>1, <2>2, <3>1, OpsAssumption DEF Class
  <2>3. CASE Class(p) # Class(o)
    BY <1>1, <2>1, <2>3 DEF SleepersHaveAWaker, Class
  <2> QED  BY <2>2, <2>3
<1> QED  BY <1>3, <1>5, <1>6, <1>7, <1>8

\* A dispatch by a waiter, new or woken by its timer: whoever is granted gets
\* a free slot, everybody else stays in the queue.
LEMMA DispatchSlots ==
  ASSUME SlotInv, NEW o \in Ops, NEW ws \in [Ops -> Nat], dispatchLocked(ws, held, ready),
         \/ pc[o] = "admission" /\ Waiting(ws) = Waiting(waiters) \cup {o}
         \/ pc[o] = "select" /\ Waiting(ws) = Waiting(waiters),
         pc' = [pc EXCEPT ![o] = "loop"],
         nextID' \in Nat, timer' \in [Ops -> Instants \cup {NoTimer}],
         \A p \in Ops \ {o} : timer'[p] = timer[p],
         UNCHANGED <<now, notify, submittedAt, availableAt, ctxDone>>
  PROVE  SlotInv'
<1> USE DEF SlotInv
<1>1. ready \in SUBSET Ops /\ held \in [Classes -> Ops \cup {NoOp}] /\ ctxDone \in SUBSET Ops
  BY DEF AdmissionTypeOK
<1>2. PICK G \in SUBSET Ops : Grants(G, ws, held, ready)
  BY <1>1, DispatchGrants
<1> USE DEF Grants
<1>3. pc'[o] = "loop" /\ pc' \in [Ops -> Points] /\ \A p \in Ops \ {o} : pc'[p] = pc[p]
  BY DEF Points
<1>4. waiters' \in [Ops -> Nat] /\ Waiting(waiters') = Waiting(ws) \ (ctxDone \cup G)
  BY <1>2 DEF Without, Waiting, NoWaiter
<1>5. now' \in Instants /\ AdmissionTypeOK'
  BY <1>1, <1>2, <1>4 DEF AdmissionTypeOK
<1>6. AdmissionIsAsked'
  BY <1>3 DEF AdmissionIsAsked, AdmittedPoints, Admitted, Class
<1>7. \A p \in Waiting(ws) : p \in Ops /\ p \notin ready /\ pc'[p] \in Asleep
  <2>1. pc[o] = "admission" => o \notin ready
    BY DEF SlotsAreGranted, Holding
  <2>2. \A p \in Waiting(waiters) : p \in Ops
    BY DEF Waiting
  <2> QED  BY <1>3, <2>1, <2>2 DEF WaitersWait, Asleep
<1>8. WaitersWait'
  BY <1>2, <1>4, <1>7 DEF WaitersWait, Asleep
<1>9. SlotsAreGranted'
  <2>1. ASSUME NEW p \in ready'
        PROVE  /\ pc'[p] \in Asleep \cup Holding
               /\ Admitted(p) /\ held'[Class(p)] = p
    <3>1. CASE p \in G
      BY <1>2, <1>7, <3>1, NoClassAssumption DEF Admitted
    <3>2. CASE p \in ready
      <4>1. /\ p \in Ops /\ pc[p] \in Asleep \cup Holding /\ Admitted(p)
            /\ held[Class(p)] = p /\ p # NoOp
        BY <1>1, <3>2, OpsAssumption DEF SlotsAreGranted, Asleep
      <4>2. held'[Class(p)] = p
        BY <1>2, <4>1, ClassOfAdmitted
      <4>3. pc'[p] \in Asleep \cup Holding
        BY <1>3, <4>1 DEF Asleep
      <4> QED  BY <4>1, <4>2, <4>3
    <3> QED  BY <1>2, <3>1, <3>2
  <2>2. ASSUME NEW c \in Classes, held'[c] # NoOp
        PROVE  held'[c] \in ready' /\ Class(held'[c]) = c
    BY <1>2, <2>2 DEF SlotsAreGranted
  <2>3. ASSUME NEW p \in Ops, pc'[p] \in Holding, Admitted(p)  PROVE p \in ready'
    BY <1>2, <1>3, <2>3 DEF SlotsAreGranted, Holding
  <2> QED  BY <2>1, <2>2, <2>3 DEF SlotsAreGranted, Asleep, Admitted, Class
<1>10. SleepersAreQueued'
  <2> SUFFICES ASSUME NEW p \in Ops, pc'[p] \in Asleep, p \notin ready', p \notin ctxDone
               PROVE  p \in Waiting(waiters')
    BY DEF SleepersAreQueued, Asleep
  <2>1. p \in Waiting(ws)
    BY <1>2, <1>3 DEF SleepersAreQueued, Asleep
  <2> QED  BY <1>2, <1>4, <2>1
<1>11. SleepersHaveAWaker'
  <2> SUFFICES ASSUME NEW p \in Ops, Sleeps(p)'
               PROVE  (held[Class(p)] # NoOp \/ availableAt[Class(p)] <= now)'
    BY DEF SleepersHaveAWaker
  <2>1. p # o /\ Sleeps(p)
    BY <1>2, <1>3 DEF Sleeps
  <2>2. Class(p) \in Classes
    BY <2>1, ClassOfAdmitted DEF Sleeps, AdmissionIsAsked, AdmittedPoints
  <2>3. held[Class(p)] # NoOp \/ availableAt[Class(p)] <= now
    BY <2>1 DEF SleepersHaveAWaker
  <2>4. held[Class(p)] # NoOp => held'[Class(p)] # NoOp
    BY <1>2, <2>2
  <2> QED  BY <2>3, <2>4 DEF Class
<1> QED  BY <1>3, <1>5, <1>6, <1>8, <1>9, <1>10, <1>11

LEMMA AcquireSlots ==
  ASSUME SlotInv, NEW o \in Ops, Acquire(o)
  PROVE  SlotInv'
<1> DEFINE ws == [waiters EXCEPT ![o] = nextID + 1]
<1>1. nextID \in Nat /\ waiters \in [Ops -> Nat] /\ timer \in [Ops -> Instants \cup {NoTimer}]
  BY DEF SlotInv, AdmissionTypeOK
<1>2. ws \in [Ops -> Nat] /\ Waiting(ws) = Waiting(waiters) \cup {o}
  BY <1>1 DEF Waiting, NoWaiter
<1>3. /\ pc[o] = "admission" /\ dispatchLocked(ws, held, ready) /\ nextID' = nextID + 1
      /\ pc' = [pc EXCEPT ![o] = "loop"]
      /\ UNCHANGED <<now, notify, timer, submittedAt, availableAt, ctxDone>>
  BY DEF Acquire, acquire, goto
<1> HIDE DEF ws
<1>4. /\ nextID' \in Nat /\ timer' \in [Ops -> Instants \cup {NoTimer}]
      /\ \A p \in Ops \ {o} : timer'[p] = timer[p]
  BY <1>1, <1>3
<1> QED  BY <1>1, <1>2, <1>3, <1>4, DispatchSlots

LEMMA SelectTimerSlots ==
  ASSUME SlotInv, NEW o \in Ops, SelectTimer(o)
  PROVE  SlotInv'
<1>1. nextID \in Nat /\ waiters \in [Ops -> Nat] /\ timer \in [Ops -> Instants \cup {NoTimer}]
  BY DEF SlotInv, AdmissionTypeOK
<1>2. /\ pc[o] = "select" /\ dispatchLocked(waiters, held, ready)
      /\ timer' = [timer EXCEPT ![o] = NoTimer] /\ pc' = [pc EXCEPT ![o] = "loop"]
      /\ UNCHANGED <<now, nextID, notify, submittedAt, availableAt, ctxDone>>
  BY DEF SelectTimer, timerFires, goto
<1>3. timer' \in [Ops -> Instants \cup {NoTimer}] /\ \A p \in Ops \ {o} : timer'[p] = timer[p]
  BY <1>1, <1>2
<1> QED  BY <1>1, <1>2, <1>3, DispatchSlots

\* A release: the slot is free for the grant that follows, and everybody who
\* still waits is notified.
LEMMA ReleaseSlots ==
  ASSUME SlotInv, NEW o \in Ops, release(o), now' = now,
         NEW x \in {"gate", "ending", "done", "resuming"}, pc' = [pc EXCEPT ![o] = x]
  PROVE  SlotInv'
<1> USE DEF SlotInv
<1> DEFINE freed == [c \in Classes |-> IF held[c] = o THEN NoOp ELSE held[c]]
           ws == Without(waiters, {o})
           r == ready \ {o}
<1>1. /\ held \in [Classes -> Ops \cup {NoOp}] /\ ready \in SUBSET Ops
      /\ waiters \in [Ops -> Nat] /\ ctxDone \in SUBSET Ops
  BY DEF AdmissionTypeOK
<1>2. /\ freed \in [Classes -> Ops \cup {NoOp}] /\ r \in SUBSET Ops /\ ws \in [Ops -> Nat]
      /\ Waiting(ws) = Waiting(waiters) \ {o}
  BY <1>1 DEF Without, Waiting, NoWaiter
<1>3. /\ dispatchLocked(ws, freed, r) /\ notify' = (notify \cup Waiting(waiters')) \ {o}
      /\ timer' = [timer EXCEPT ![o] = NoTimer]
      /\ UNCHANGED <<nextID, submittedAt, availableAt, ctxDone>>
  BY DEF release
<1>4. \A c \in Classes : freed[c] = IF held[c] = o THEN NoOp ELSE held[c]
  OBVIOUS
<1>5. r = ready \ {o}
  OBVIOUS
<1> HIDE DEF freed, ws, r
<1>6. PICK G \in SUBSET Ops : Grants(G, ws, freed, r)
  BY <1>2, <1>3, DispatchGrants
<1> USE DEF Grants
<1>7. pc'[o] = x /\ pc' \in [Ops -> Points] /\ \A p \in Ops \ {o} : pc'[p] = pc[p]
  BY DEF Points
<1>8. /\ waiters' \in [Ops -> Nat]
      /\ Waiting(waiters') = Waiting(waiters) \ ({o} \cup ctxDone \cup G)
  BY <1>2, <1>6 DEF Without, Waiting, NoWaiter
<1>9. now' \in Instants /\ AdmissionTypeOK'
  <2>1. ready' \subseteq Ops
    BY <1>2, <1>6
  <2>2. notify' \subseteq Ops
    BY <1>3 DEF AdmissionTypeOK, Waiting
  <2>3. timer' \in [Ops -> Instants \cup {NoTimer}]
    BY <1>3 DEF AdmissionTypeOK
  <2>4. held' \in [Classes -> Ops \cup {NoOp}]
    BY <1>2, <1>6
  <2>5. nextID' \in Nat /\ ctxDone' \subseteq Ops
    BY <1>1, <1>3 DEF AdmissionTypeOK
  <2>6. submittedAt' \in [Ops -> Instants] /\ availableAt' \in [Classes -> Instants]
    BY <1>3 DEF AdmissionTypeOK
  <2> HIDE DEF Grants, SlotInv
  <2> QED  BY <1>8, <2>1, <2>2, <2>3, <2>4, <2>5, <2>6 DEF AdmissionTypeOK, SlotInv
<1>10. AdmissionIsAsked'
  BY <1>7 DEF AdmissionIsAsked, AdmittedPoints, Admitted, Class
<1>11. \A p \in Waiting(waiters) \ {o} : p \in Ops /\ p \notin ready /\ pc'[p] \in Asleep
  BY <1>7 DEF WaitersWait, Waiting, Asleep
<1>12. WaitersWait'
  BY <1>5, <1>6, <1>8, <1>11 DEF WaitersWait, Asleep
<1>13. SlotsAreGranted'
  <2>1. ASSUME NEW p \in ready'
        PROVE  /\ pc'[p] \in Asleep \cup Holding
               /\ Admitted(p) /\ held'[Class(p)] = p
    <3>1. CASE p \in G
      BY <1>2, <1>6, <1>11, <3>1, NoClassAssumption DEF Admitted
    <3>2. CASE p \in ready \ {o}
      <4>1. /\ p \in Ops /\ pc[p] \in Asleep \cup Holding /\ Admitted(p)
            /\ held[Class(p)] = p /\ p # NoOp /\ p # o
        BY <1>1, <3>2, OpsAssumption DEF SlotsAreGranted, Asleep
      <4>2. freed[Class(p)] = p
        BY <1>4, <4>1, ClassOfAdmitted
      <4>3. held'[Class(p)] = p
        BY <1>6, <4>1, <4>2, ClassOfAdmitted
      <4> QED  BY <1>7, <4>1, <4>3
    <3> QED  BY <1>5, <1>6, <3>1, <3>2
  <2>2. ASSUME NEW c \in Classes, held'[c] # NoOp
        PROVE  held'[c] \in ready' /\ Class(held'[c]) = c
    <3>1. CASE held'[c] = freed[c]
      BY <1>4, <1>5, <1>6, <2>2, <3>1 DEF SlotsAreGranted
    <3> QED  BY <1>6, <3>1
  <2>3. ASSUME NEW p \in Ops, pc'[p] \in Holding, Admitted(p)  PROVE p \in ready'
    BY <1>5, <1>6, <1>7, <2>3 DEF SlotsAreGranted, Holding
  <2> QED  BY <2>1, <2>2, <2>3 DEF SlotsAreGranted, Asleep, Admitted, Class
<1>14. SleepersAreQueued'
  <2> SUFFICES ASSUME NEW p \in Ops, pc'[p] \in Asleep, p \notin ready', p \notin ctxDone
               PROVE  p \in Waiting(waiters')
    BY <1>3 DEF SleepersAreQueued, Asleep
  <2>1. p # o /\ pc[p] \in Asleep
    BY <1>7 DEF Asleep
  <2>2. p \notin ready /\ p \notin G
    BY <1>5, <1>6, <2>1
  <2>3. p \in Waiting(waiters)
    BY <2>1, <2>2 DEF SleepersAreQueued, Asleep
  <2> QED  BY <1>8, <2>1, <2>2, <2>3
<1>15. SleepersHaveAWaker'
  <2> SUFFICES ASSUME NEW p \in Ops, Sleeps(p)'
               PROVE  FALSE
    BY DEF SleepersHaveAWaker
  <2>1. p # o /\ p \notin Waiting(waiters')
    BY <1>3, <1>7 DEF Sleeps
  <2>2. p \in Waiting(waiters')
    BY <1>14 DEF Sleeps, SleepersAreQueued
  <2> QED  BY <2>1, <2>2
<1> QED  BY <1>7, <1>9, <1>10, <1>12, <1>13, <1>14, <1>15

\* The rest of the loop of acquire: the head that sets the timer, a received
\* notification, and a grant that is taken.
LEMMA LoopSlots ==
  ASSUME SlotInv, NEW o \in Ops,
         \/ NextWake(o) \/ SelectNotified(o)
         \/ SelectReady(o) /\ o \notin ctxDone
  PROVE  SlotInv'
<1> USE DEF SlotInv
<1>1. PICK y \in {"loop", "select", "claims"} : pc' = [pc EXCEPT ![o] = y]
  BY DEF NextWake, SelectNotified, SelectReady, goto
<1>2. /\ pc[o] \in Asleep /\ (y = "claims" => o \in ready)
      /\ UNCHANGED <<now, held, nextID, waiters, ready, submittedAt, availableAt, ctxDone>>
  BY <1>1 DEF NextWake, nextWake, SelectNotified, notified, SelectReady, goto, Asleep
<1>3. notify' \subseteq notify /\ \A p \in notify : p \in notify' \/ p = o
  BY DEF NextWake, nextWake, SelectNotified, notified, SelectReady
<1>4. Admitted(o) /\ Class(o) \in Classes
  BY <1>2, ClassOfAdmitted DEF AdmissionIsAsked, AdmittedPoints, Asleep
<1>5. /\ timer' \in [Ops -> Instants \cup {NoTimer}]
      /\ \A p \in Ops \ {o} : timer'[p] = timer[p]
  <2>1. availableAt[Class(o)] \in Instants /\ timer \in [Ops -> Instants \cup {NoTimer}]
    BY <1>4 DEF AdmissionTypeOK
  <2>2. \/ timer' = [timer EXCEPT ![o] = NoTimer]
        \/ timer' = [timer EXCEPT ![o] = availableAt[Class(o)]]
    BY DEF NextWake, nextWake, SelectNotified, notified, SelectReady
  <2> QED  BY <2>1, <2>2
<1>6. pc'[o] = y /\ pc' \in [Ops -> Points] /\ \A p \in Ops \ {o} : pc'[p] = pc[p]
  BY <1>1 DEF Points, Holding
<1>7. now' \in Instants /\ AdmissionTypeOK'
  BY <1>2, <1>3, <1>5 DEF AdmissionTypeOK
<1>8. AdmissionIsAsked'
  BY <1>4, <1>6 DEF AdmissionIsAsked, Admitted, Class
<1>9. WaitersWait'
  BY <1>2, <1>6 DEF WaitersWait, Waiting
<1>10. SlotsAreGranted'
  BY <1>1, <1>2, <1>4, <1>6 DEF SlotsAreGranted, Admitted, Class, Asleep, Holding
<1>11. SleepersAreQueued'
  BY <1>2, <1>6 DEF SleepersAreQueued, Waiting, Asleep
<1>12. ASSUME Sleeps(o)'
       PROVE  held[Class(o)] # NoOp \/ availableAt[Class(o)] <= now
  <2>1. NextWake(o)
    BY <1>6, <1>12 DEF Sleeps, SelectNotified, SelectReady, goto
  <2>2. /\ timer'[o] = NoTimer /\ o \notin ready /\ o \notin ctxDone
    BY <1>2, <1>12 DEF Sleeps
  <2>3. availableAt[Class(o)] # NoTimer
    BY <1>4, MaxTimeAssumption DEF AdmissionTypeOK, Instants, NoTimer
  <2> QED  BY <2>1, <2>2, <2>3 DEF NextWake, nextWake, AdmissionTypeOK
<1>13. SleepersHaveAWaker'
  BY <1>2, <1>3, <1>5, <1>6, <1>12 DEF SleepersHaveAWaker, Sleeps, Class
<1> QED  BY <1>6, <1>7, <1>8, <1>9, <1>10, <1>11, <1>13

LEMMA CancelSlots ==
  ASSUME SlotInv, NEW o \in Ops, Cancel(o)
  PROVE  SlotInv'
<1> USE DEF SlotInv
<1>1. /\ ctxDone' = ctxDone \cup {o}
      /\ UNCHANGED <<now, pc, held, nextID, waiters, ready, notify, timer, submittedAt,
                     availableAt>>
  BY DEF Cancel, execVars
<1>2. AdmissionTypeOK'
  BY <1>1 DEF AdmissionTypeOK
<1>3. AdmissionIsAsked' /\ WaitersWait' /\ SlotsAreGranted' /\ SleepersAreQueued'
  BY <1>1 DEF AdmissionIsAsked, WaitersWait, SlotsAreGranted, SleepersAreQueued, Waiting,
     Admitted, Class
<1>4. SleepersHaveAWaker'
  BY <1>1 DEF SleepersHaveAWaker, Sleeps, Class
<1> QED  BY <1>1, <1>2, <1>3, <1>4

\* Time passes, or somebody else moves.
LEMMA OthersSlots ==
  ASSUME SlotInv, UNCHANGED <<pc, admissionVars>>, now' = now \/ Tick
  PROVE  SlotInv'
<1> USE DEF SlotInv, admissionVars
<1>1. now' \in Instants /\ now' >= now
  BY MaxTimeAssumption DEF Tick, Instants
<1>2. /\ AdmissionTypeOK' /\ AdmissionIsAsked' /\ WaitersWait'
      /\ SlotsAreGranted' /\ SleepersAreQueued'
  BY DEF AdmissionTypeOK, AdmissionIsAsked, WaitersWait, SlotsAreGranted, SleepersAreQueued,
     Waiting, Admitted, Class
<1>3. SleepersHaveAWaker'
  <2>1. ASSUME NEW o \in Ops, Sleeps(o)  PROVE availableAt[Class(o)] \in Int
    BY <2>1, ClassOfAdmitted, MaxTimeAssumption DEF Sleeps, AdmissionIsAsked, AdmittedPoints,
       AdmissionTypeOK, Instants
  <2>2. now \in Int /\ now' \in Int
    BY <1>1, MaxTimeAssumption DEF Instants
  <2> QED  BY <1>1, <2>1, <2>2 DEF SleepersHaveAWaker, Sleeps, Class
<1> QED  BY <1>1, <1>2, <1>3

LEMMA CrashSlots ==
  ASSUME SlotInv, CrashRestart
  PROVE  SlotInv'
<1> USE DEF SlotInv
<1>1. /\ held' = [c \in Classes |-> NoOp] /\ nextID' = 0 /\ waiters' = [o \in Ops |-> NoWaiter]
      /\ ready' = {} /\ notify' = {} /\ ctxDone' = {} /\ timer' = [o \in Ops |-> NoTimer]
      /\ availableAt' = [c \in Classes |-> 0] /\ UNCHANGED <<now, submittedAt>>
  BY DEF CrashRestart
<1>2. pc' = [o \in Ops |-> IF pc[o] = "new" THEN "new" ELSE "done"]
  BY DEF CrashRestart
<1>3. pc' \in [Ops -> Points] /\ \A o \in Ops : pc'[o] \in {"new", "done"}
  BY <1>2 DEF Points
<1>4. AdmissionTypeOK'
  BY <1>1, MaxTimeAssumption DEF AdmissionTypeOK, NoWaiter, Instants
<1>5. AdmissionIsAsked' /\ WaitersWait' /\ SleepersAreQueued' /\ SleepersHaveAWaker'
  BY <1>1, <1>3 DEF AdmissionIsAsked, AdmittedPoints, WaitersWait, Waiting, NoWaiter,
     SleepersAreQueued, SleepersHaveAWaker, Sleeps
<1>6. SlotsAreGranted'
  BY <1>1, <1>3 DEF SlotsAreGranted, Holding
<1> QED  BY <1>1, <1>3, <1>4, <1>5, <1>6

-----------------------------------------------------------------------------
(* Every step of the engine. *)

\* Steps of an operation outside of acquire that leave the admission manager
\* alone; a publication is the only thing they do to the stream.
Moves(o) ==
  \/ Submit(o) \/ Gate(o) \/ Barred(o) \/ ClaimsGranted(o) \/ Permit(o) \/ Yield(o)
  \/ Stale(o) \/ Succeeded(o) \/ Resend(o) \/ Failed(o) \/ Rejected(o) \/ Fail(o)
  \/ Resume(o) \/ Complete(o)

LEMMA MoveStep ==
  ASSUME SlotInv, NEW o \in Ops, Moves(o)
  PROVE  SlotInv'
<1> USE DEF SlotInv
<1>1. /\ UNCHANGED <<now, held, nextID, waiters, ready, notify, timer, availableAt, ctxDone>>
      /\ submittedAt' \in [Ops -> Instants]
  BY DEF Moves, Submit, Gate, Barred, ClaimsGranted, Permit, Yield, Stale, Succeeded, Resend,
     Failed, Rejected, Fail, Resume, Complete, admissionVars, AdmissionTypeOK
<1>2. PICK x \in Points :
        /\ pc' = [pc EXCEPT ![o] = x]
        /\ pc[o] \notin Asleep /\ x \notin Asleep
        /\ x \in AdmittedPoints => Admitted(o)
        /\ Admitted(o) => (x \in Holding <=> pc[o] \in Holding)
  <2> USE DEF goto, Points, Holding, Asleep, AdmittedPoints
  <2>1. CASE Submit(o) \/ ClaimsGranted(o) \/ Complete(o) \/ Resume(o)
    BY <2>1 DEF Submit, ClaimsGranted, Complete, Resume
  <2>2. CASE Gate(o) \/ Barred(o)
    BY <2>2 DEF Gate, Barred, proceed
  <2>3. CASE Resend(o) \/ Failed(o) \/ Rejected(o)
    BY <2>3 DEF Resend, Failed, Rejected, failure
  <2>4. CASE Permit(o) \/ Yield(o) \/ Stale(o) \/ Succeeded(o)
    BY <2>4 DEF Permit, Yield, Stale, Succeeded, restarted, ended
  <2>5. CASE Fail(o)
    BY <2>5 DEF Fail, AdmissionIsAsked
  <2> QED  BY <2>1, <2>2, <2>3, <2>4, <2>5 DEF Moves
<1> QED  BY <1>1, <1>2, MoveSlots

\* A step of an operation.
Moving(o) == Submit(o) \/ OpStep(o) \/ ClaimsRetry(o) \/ Resend(o) \/ Cancel(o)

\* What a step of an operation leaves alone outside of the admission manager.
LEMMA Footprint ==
  ASSUME NEW o \in Ops, Moving(o)
  PROVE  /\ now' = now
         /\ UNCHANGED laneVars \/ Rejected(o)
         /\ UNCHANGED streamVars \/ \E s \in Statuses : publish(o, s)
         /\ behind' = behind \/ Send(o)
         /\ UNCHANGED botLocked
         /\ UNCHANGED turns \/ takeTurn
<1> USE DEF books, execVars
<1>1. CASE Submit(o) \/ ClaimsGranted(o) \/ Fail(o) \/ Resume(o) \/ Complete(o)
  BY <1>1 DEF Submit, ClaimsGranted, Fail, Resume, Complete, Statuses
<1>2. CASE Gate(o) \/ Barred(o)
  BY <1>2 DEF Gate, Barred, proceed, Statuses
<1>3. CASE Acquire(o) \/ NextWake(o) \/ SelectNotified(o) \/ SelectTimer(o)
  BY <1>3 DEF Acquire, NextWake, SelectNotified, SelectTimer
<1>4. CASE SelectReady(o) \/ SelectCancelled(o) \/ ClaimsRetry(o) \/ Cancel(o)
  BY <1>4 DEF SelectReady, SelectCancelled, ClaimsRetry, Cancel
<1>5. CASE Permit(o) \/ Yield(o) \/ Stale(o) \/ Send(o) \/ Resend(o)
  BY <1>5 DEF Permit, Yield, Stale, Send, Resend
<1>6. CASE Succeeded(o) \/ Failed(o) \/ Rejected(o) \/ Release(o)
  BY <1>6 DEF Succeeded, Failed, Rejected, Release
<1> QED  BY <1>1, <1>2, <1>3, <1>4, <1>5, <1>6 DEF Moving, OpStep

\* A step that is not an operation's, nor a restart.
Surroundings ==
  TimePasses \/ BotLock \/ Coordinate \/ LaneStep \/ StreamStep \/ (\E a \in Awaiters : AwaitStep(a))

LEMMA Steps ==
  ASSUME [Next]_vars
  PROVE  (\E o \in Ops : Moving(o)) \/ Surroundings \/ CrashRestart \/ UNCHANGED vars
  BY DEF Next, Moving, Surroundings

\* What the surroundings leave alone: the operations, and the admission manager.
LEMMA SurroundingsFootprint ==
  ASSUME Surroundings
  PROVE  /\ UNCHANGED <<pc, behind, admissionVars>>
         /\ now' = now \/ TimePasses
         /\ UNCHANGED laneVars \/ Coordinate \/ LaneStep
         /\ UNCHANGED streamVars \/ StreamStep \/ \E a \in Awaiters : AwaitStep(a)
         /\ botLocked' \in {botLocked, ~botLocked}
         /\ UNCHANGED turns \/ takeTurn
<1> USE DEF execVars
<1>1. CASE TimePasses \/ BotLock
  BY <1>1 DEF TimePasses, BotLock
<1>2. CASE Coordinate \/ LaneStep
  BY <1>2 DEF Coordinate, LaneStep
<1>3. CASE StreamStep \/ \E a \in Awaiters : AwaitStep(a)
  BY <1>3 DEF StreamStep, AwaitStep
<1> QED  BY <1>1, <1>2, <1>3 DEF Surroundings

LEMMA SlotStep ==
  ASSUME SlotInv, [Next]_vars
  PROVE  SlotInv'
<1>1. ASSUME NEW o \in Ops, Moving(o)  PROVE SlotInv'
  <2>1. CASE Moves(o)
    BY <2>1, MoveStep
  <2>2. CASE Acquire(o)
    BY <2>2, AcquireSlots
  <2>3. CASE SelectTimer(o)
    BY <2>3, SelectTimerSlots
  <2>4. CASE Send(o)
    BY <2>4, SendSlots
  <2>5. CASE \/ NextWake(o) \/ SelectNotified(o)
             \/ SelectReady(o) /\ o \notin ctxDone
    BY <2>5, LoopSlots
  <2>6. CASE \/ SelectReady(o) /\ o \in ctxDone
             \/ SelectCancelled(o) \/ ClaimsRetry(o) \/ Release(o)
    <3>1. release(o) /\ UNCHANGED now
      BY <2>6 DEF SelectReady, SelectCancelled, ClaimsRetry, Release
    <3>2. \E x \in {"gate", "ending", "done", "resuming"} : pc' = [pc EXCEPT ![o] = x]
      BY <2>6 DEF SelectReady, SelectCancelled, ClaimsRetry, Release, goto
    <3> QED  BY <3>1, <3>2, ReleaseSlots
  <2>7. CASE Cancel(o)
    BY <2>7, CancelSlots
  <2> QED  BY <1>1, <2>1, <2>2, <2>3, <2>4, <2>5, <2>6, <2>7 DEF Moving, Moves, OpStep
<1>2. CASE CrashRestart
  BY <1>2, CrashSlots
<1>3. CASE Surroundings \/ UNCHANGED vars
  <2>1. UNCHANGED <<pc, admissionVars>> /\ (now' = now \/ Tick)
    BY <1>3, SurroundingsFootprint DEF TimePasses, vars, execVars
  <2> QED  BY <2>1, OthersSlots
<1> QED  BY <1>1, <1>2, <1>3, Steps

\* Every step either leaves the stream alone, publishes a receipt, is a step
\* of an Await, an eviction or a restart.
LEMMA StreamStepInv ==
  ASSUME StreamTypeOK, AwaitMissesNothing, [Next]_vars
  PROVE  StreamTypeOK' /\ AwaitMissesNothing'
<1>1. ASSUME NEW o \in Ops, NEW s \in Statuses, publish(o, s)
      PROVE  StreamTypeOK' /\ AwaitMissesNothing'
  BY <1>1, PublishStream
<1>2. CASE UNCHANGED streamVars
  BY <1>2 DEF streamVars, StreamTypeOK, AwaitMissesNothing
<1>3. ASSUME NEW o \in Ops, evict(o)  PROVE StreamTypeOK' /\ AwaitMissesNothing'
  BY <1>3 DEF evict, StreamTypeOK, AwaitMissesNothing
<1>4. ASSUME NEW a \in Awaiters, subscribe(a) \/ firstRead(a) \/ receive(a) \/ abandon(a)
      PROVE  StreamTypeOK' /\ AwaitMissesNothing'
  BY <1>4, AwaitStream
<1>5. CASE CrashRestart
  <2>1. /\ await' = [a \in Awaiters |-> "idle"] /\ channel' = [a \in Awaiters |-> << >>]
        /\ evicted' = {}
        /\ status' = [o \in Ops |-> IF pc[o] = "new" THEN "none" ELSE "ended"]
    BY <1>5 DEF CrashRestart
  <2>2. AwaitMissesNothing'
    BY <2>1 DEF AwaitMissesNothing
  <2>3. StreamTypeOK'
    BY <2>1, BufferAssumption DEF StreamTypeOK, AwaitStates, Statuses
  <2> QED  BY <2>2, <2>3
<1>6. ASSUME NEW o \in Ops, Moving(o)  PROVE StreamTypeOK' /\ AwaitMissesNothing'
  BY <1>1, <1>2, <1>6, Footprint
<1>7. CASE Surroundings
  <2>1. CASE StreamStep
    BY <1>3, <1>4, <2>1, TargetAssumption DEF StreamStep
  <2>2. ASSUME NEW a \in Awaiters, AwaitStep(a)  PROVE StreamTypeOK' /\ AwaitMissesNothing'
    BY <1>4, <2>2 DEF AwaitStep
  <2> QED  BY <1>2, <1>7, <2>1, <2>2, SurroundingsFootprint
<1> QED  BY <1>2, <1>5, <1>6, <1>7, Steps DEF vars

\* Every step either leaves the locks alone, or is one of the lane steps.
LEMMA LaneStepInv ==
  ASSUME now \in Instants, LaneTypeOK, LocksStand, [Next]_vars
  PROVE  LaneTypeOK' /\ LocksStand'
<1>1. CASE UNCHANGED laneVars /\ now' = now
  BY <1>1 DEF laneVars, LaneTypeOK, LocksStand, LaneStands, Runs
<1>2. ASSUME NEW o \in Ops, Moving(o)  PROVE LaneTypeOK' /\ LocksStand'
  BY <1>1, <1>2, Footprint, GuardRejectionLanes DEF Rejected
<1>3. CASE Surroundings
  <2>1. CASE Coordinate \/ LaneStep
    <3>1. now' = now
      BY <2>1 DEF Coordinate, LaneStep
    <3> QED  BY <2>1, <3>1, CoordinatorLanes, FlushLanes, ClearLockLanes DEF Coordinate, LaneStep
  <2>2. CASE TimePasses
    <3>1. UNCHANGED laneVars /\ now' = now + 1
      BY <2>2 DEF TimePasses, Tick
    <3> QED  BY <3>1, LaneNumbers DEF laneVars, LaneTypeOK, LocksStand, LaneStands, Runs
  <2> QED  BY <1>1, <1>3, <2>1, <2>2, SurroundingsFootprint
<1>4. CASE CrashRestart
  BY <1>4, RestartLanes DEF CrashRestart
<1>5. CASE UNCHANGED vars
  BY <1>1, <1>5 DEF vars
<1> QED  BY <1>2, <1>3, <1>4, <1>5, Steps

\* The slot of a class keeps two of its operations from running at once.
LEMMA OneHolder ==
  ASSUME SlotInv, NEW o \in Ops, NEW p \in Ops, pc[o] \in Holding, pc[p] \in Holding,
         Admitted(o), Class(o) = Class(p)
  PROVE  o = p
  BY DEF SlotInv, SlotsAreGranted, Admitted

\* How the lock of a lane can come to be active: it was, or it is the lock of
\* the operation that is rejected in this step.
LEMMA NewLocks ==
  ASSUME IInv, [Next]_vars, ~CrashRestart, NEW l \in Lanes, Active(lock'[l], now')
  PROVE  \/ lock'[l] = lock[l] /\ Active(lock[l], now)
         \/ \E p \in Ops : Rejected(p) /\ lock'[l].op = p
<1>1. now \in Instants /\ LaneTypeOK /\ LocksStand
  BY DEF IInv, TypeOK
<1>2. CASE UNCHANGED lock /\ now' = now
  BY <1>2
<1>3. ASSUME NEW o \in Ops, Moving(o)
      PROVE  (UNCHANGED lock /\ now' = now) \/ (now' = now /\ Rejected(o))
  BY <1>3, Footprint DEF laneVars
<1>4. ASSUME NEW o \in Ops, Rejected(o), now' = now
      PROVE  lock'[l] = lock[l] \/ lock'[l].op = o
  BY <1>1, <1>4, GuardRejectionLanes DEF Rejected
<1>5. CASE Surroundings
  <2>1. CASE Coordinate \/ LaneStep
    <3>1. now' = now
      BY <2>1 DEF Coordinate, LaneStep
    <3>2. CASE flushState \/ Coordinate
      BY <1>1, <1>2, <3>1, <3>2, CoordinatorLanes, FlushLanes DEF Coordinate
    <3>3. ASSUME NEW m \in Lanes, NEW o \in Ops, clearLock(m, o)
          PROVE  lock'[l] = lock[l] \/ lock'[l].cleared
      BY <1>1, <3>1, <3>3, ClearLockLanes
    <3> QED  BY <2>1, <3>1, <3>2, <3>3 DEF LaneStep, Active, Standing
  <2>2. CASE TimePasses
    <3>1. lock' = lock /\ now' = now + 1
      BY <2>2 DEF TimePasses, Tick, laneVars
    <3>2. now \in Int /\ LockTicks \in Int /\ lock[l].observedAt \in Int
      BY <1>1, LaneNumbers
    <3> QED  BY <3>1, <3>2 DEF Active
  <2> QED  BY <1>2, <1>5, <2>1, <2>2, SurroundingsFootprint DEF laneVars
<1>6. CASE UNCHANGED vars
  BY <1>2, <1>6 DEF vars, laneVars
<1> QED  BY <1>2, <1>3, <1>4, <1>5, <1>6, Steps

\* Where the command of an operation in the router's queue comes from.
LEMMA NewlyQueued ==
  ASSUME SlotInv, [Next]_vars, NEW o \in Ops, pc'[o] = "queued"
  PROVE  pc[o] = "queued" \/ Permit(o)
<1>1. pc \in [Ops -> Points]
  BY DEF SlotInv
<1>2. CASE UNCHANGED pc
  BY <1>2
<1>3. ASSUME NEW p \in Ops, Moving(p), ~Permit(p)
      PROVE  UNCHANGED pc \/ \E x \in Points \ {"queued"} : pc' = [pc EXCEPT ![p] = x]
  <2> USE DEF goto, Points, Holding
  <2>1. CASE Submit(p) \/ Gate(p) \/ Barred(p) \/ ClaimsGranted(p)
    BY <2>1 DEF Submit, Gate, Barred, proceed, ClaimsGranted
  <2>2. CASE Fail(p) \/ Complete(p) \/ Resume(p) \/ Release(p) \/ ClaimsRetry(p)
    BY <2>2 DEF Fail, Complete, Resume, Release, ClaimsRetry
  <2>3. CASE \/ Acquire(p) \/ NextWake(p) \/ SelectReady(p) \/ SelectCancelled(p)
             \/ SelectNotified(p) \/ SelectTimer(p)
    BY <2>3 DEF Acquire, NextWake, SelectReady, SelectCancelled, SelectNotified, SelectTimer
  <2>4. CASE \/ Yield(p) \/ Stale(p) \/ Send(p) \/ Succeeded(p) \/ Resend(p) \/ Failed(p)
             \/ Rejected(p)
    BY <2>4 DEF Yield, Stale, Send, Succeeded, Resend, Failed, Rejected, failure, ended, restarted
  <2>5. CASE Cancel(p)
    BY <2>5 DEF Cancel, execVars
  <2> QED  BY <1>3, <2>1, <2>2, <2>3, <2>4, <2>5 DEF Moving, OpStep
<1>4. ASSUME NEW p \in Ops, Permit(p)  PROVE p = o \/ pc'[o] = pc[o]
  BY <1>1, <1>4 DEF Permit, goto
<1>5. CASE CrashRestart
  BY <1>5 DEF CrashRestart
<1>6. CASE Surroundings \/ UNCHANGED vars
  BY <1>2, <1>6, SurroundingsFootprint DEF vars, execVars
<1> QED  BY <1>1, <1>2, <1>3, <1>4, <1>5, <1>6, Steps

\* A lock that appears while a command waits in the router's queue is not
\* from the command's class: the rejected operation would have its slot.
LEMMA QueuedStep ==
  ASSUME IInv, [Next]_vars
  PROVE  QueuedBeforeLock'
<1> SUFFICES ASSUME NEW o \in Ops, pc'[o] = "queued", Admitted(o), ~laneOpen(o)'
             PROVE  Class(lock'[Lane[o]].op) # Class(o)
  BY DEF QueuedBeforeLock, Admitted, Class
<1>1. Lane[o] \in Lanes /\ Active(lock'[Lane[o]], now')
  BY DEF laneOpen
<1>2. ~CrashRestart
  BY DEF CrashRestart
<1>3. pc[o] = "queued" \/ Permit(o)
  BY NewlyQueued DEF IInv
<1>4. CASE Permit(o)
  <2>1. UNCHANGED <<now, lock>> /\ laneOpen(o)
    BY <1>4 DEF Permit, laneVars
  <2> QED  BY <1>1, <2>1 DEF laneOpen
<1>5. CASE pc[o] = "queued"
  <2>1. CASE lock'[Lane[o]] = lock[Lane[o]] /\ Active(lock[Lane[o]], now)
    BY <1>1, <1>5, <2>1 DEF IInv, QueuedBeforeLock, laneOpen
  <2>2. ASSUME NEW p \in Ops, Rejected(p), lock'[Lane[o]].op = p, Class(p) = Class(o)
        PROVE  FALSE
    <3>1. pc[p] = "response"
      BY <2>2 DEF Rejected
    <3>2. o = p
      BY <1>5, <2>2, <3>1, OneHolder DEF IInv, Holding
    <3> QED  BY <1>5, <3>1, <3>2
  <2> QED  BY <1>1, <1>2, <2>1, <2>2, NewLocks
<1> QED  BY <1>3, <1>4, <1>5

LEMMA BehindStep ==
  ASSUME IInv, [Next]_vars
  PROVE  NoSendBehindOwnClass' /\ behind' \subseteq Ops \X Ops
<1>1. CASE behind' = behind
  BY <1>1 DEF IInv, TypeOK, NoSendBehindOwnClass, Class
<1>2. ASSUME NEW o \in Ops, Send(o)
      PROVE  NoSendBehindOwnClass' /\ behind' \subseteq Ops \X Ops
  <2> DEFINE p == lock[Lane[o]].op
  <2>1. CASE laneOpen(o)
    BY <1>1, <1>2, <2>1 DEF Send
  <2>2. CASE ~laneOpen(o)
    <3>1. behind' = behind \cup {<<o, p>>}
      BY <1>2, <2>2 DEF Send
    <3>2. p \in Ops
      BY <2>2 DEF laneOpen, Active, Standing, IInv, TypeOK, LaneTypeOK, Locks
    <3>3. Class(o) = NoClass \/ Class(o) # Class(p)
      BY <1>2, <2>2 DEF Send, IInv, QueuedBeforeLock, Admitted
    <3> QED  BY <3>1, <3>2, <3>3 DEF IInv, TypeOK, NoSendBehindOwnClass, Class
  <2> QED  BY <2>1, <2>2
<1>3. ASSUME NEW o \in Ops, Moving(o)
      PROVE  NoSendBehindOwnClass' /\ behind' \subseteq Ops \X Ops
  BY <1>1, <1>2, <1>3, Footprint
<1>4. CASE Surroundings \/ CrashRestart \/ UNCHANGED vars
  BY <1>1, <1>4, SurroundingsFootprint DEF CrashRestart, vars, execVars
<1> QED  BY <1>3, <1>4, Steps

LEMMA BooksStep ==
  ASSUME IInv, [Next]_vars
  PROVE  turns' \in 0..MaxTurns /\ botLocked' \in BOOLEAN
<1>1. turns \in 0..MaxTurns /\ botLocked \in BOOLEAN
  BY DEF IInv, TypeOK
<1>2. UNCHANGED turns \/ takeTurn
  BY Steps, Footprint, SurroundingsFootprint DEF CrashRestart, vars, execVars
<1>3. botLocked' \in BOOLEAN
  BY <1>1, Steps, Footprint, SurroundingsFootprint DEF CrashRestart, vars, execVars
<1> QED  BY <1>1, <1>2, <1>3, ExecutionBounds DEF takeTurn

-----------------------------------------------------------------------------
(* The theorems. *)

LEMMA InvInit ==
  ASSUME Init
  PROVE  IInv
<1>1. now \in Instants
  BY MaxTimeAssumption DEF Init, Instants
<1>2. AdmissionTypeOK
  BY <1>1 DEF Init, AdmissionInit, AdmissionTypeOK, NoWaiter
<1>3. NoLock \in Locks
  BY <1>1 DEF Init, NoLock, Locks
<1>4. LaneTypeOK
  BY <1>3 DEF Init, LaneInit, LaneTypeOK
<1>5. StreamTypeOK
  BY BufferAssumption DEF Init, StreamInit, StreamTypeOK, Statuses, AwaitStates
<1>6. TypeOK
  <2>1. pc \in [Ops -> Points]
    BY DEF Init, Points
  <2>2. behind \subseteq Ops \X Ops
    BY DEF Init
  <2>3. botLocked \in BOOLEAN
    BY DEF Init
  <2>4. turns \in 0..MaxTurns
    BY ExecutionBounds DEF Init
  <2> QED  BY <1>1, <1>2, <1>4, <1>5, <2>1, <2>2, <2>3, <2>4 DEF TypeOK
<1>7. Waiting(waiters) = {}
  BY DEF Init, AdmissionInit, Waiting, NoWaiter
<1>8. \A o \in Ops : pc[o] = "new"
  BY DEF Init
<1>9. SlotsAreGranted
  BY <1>8 DEF Init, AdmissionInit, SlotsAreGranted, Holding
<1>10. SlotInv
  BY <1>1, <1>2, <1>6, <1>7, <1>8, <1>9 DEF SlotInv, TypeOK, AdmissionIsAsked,
     AdmittedPoints, WaitersWait, SleepersAreQueued, SleepersHaveAWaker, Sleeps
<1>11. LocksStand
  BY <1>1, MaxTimeAssumption DEF Init, LaneInit, LocksStand, LaneStands, Runs, NoLock, Standing, Never,
     Instants
<1>12. AwaitMissesNothing
  BY DEF Init, StreamInit, AwaitMissesNothing
<1>13. QueuedBeforeLock /\ NoSendBehindOwnClass
  BY <1>8 DEF Init, QueuedBeforeLock, NoSendBehindOwnClass
<1> QED  BY <1>6, <1>10, <1>11, <1>12, <1>13 DEF IInv

LEMMA InvStep ==
  ASSUME IInv, [Next]_vars
  PROVE  IInv'
<1>1. SlotInv'
  BY SlotStep DEF IInv
<1>2. StreamTypeOK' /\ AwaitMissesNothing'
  BY StreamStepInv DEF IInv, TypeOK
<1>3. LaneTypeOK' /\ LocksStand'
  BY LaneStepInv DEF IInv, TypeOK
<1>4. TypeOK'
  BY <1>1, <1>2, <1>3, BehindStep, BooksStep DEF TypeOK, SlotInv
<1> QED  BY <1>1, <1>2, <1>3, <1>4, QueuedStep, BehindStep DEF IInv

LEMMA Invariant == Spec => []IInv
  BY InvInit, InvStep, PTL DEF Spec

\* Every variable keeps its type: the slots name operations, a receipt channel
\* never outgrows its buffer, the clock and the counters keep their bounds.
THEOREM TypeCorrect == Spec => []TypeOK
<1>1. IInv => TypeOK
  BY DEF IInv
<1> QED  BY <1>1, Invariant, PTL

\* acquire, the select behind it and release: the slot of a class belongs to
\* exactly the operation that runs under it, whatever cancellation, late grant
\* or retry comes between, and no waiter of a free class whose lane is closed
\* sleeps with nothing to wake it.
THEOREM SlotsStaySound == Spec => []SlotsAreSound
<1>1. ASSUME IInv  PROVE SlotMatchesHolder
  <2> SUFFICES ASSUME NEW o \in Ops, Admitted(o)
               PROVE  /\ pc[o] \in Holding => held[Class(o)] = o
                      /\ held[Class(o)] = o =>
                           pc[o] \in Holding \/ (pc[o] \in {"loop", "select"} /\ o \in ready)
    BY DEF SlotMatchesHolder
  <2>1. SlotsAreGranted
    BY <1>1 DEF IInv, SlotInv
  <2>2. pc[o] \in Holding => held[Class(o)] = o
    BY <2>1 DEF SlotsAreGranted
  <2>3. held[Class(o)] = o => o \in ready
    BY <2>1, ClassOfAdmitted, OpsAssumption DEF SlotsAreGranted
  <2>4. o \in ready => pc[o] \in {"loop", "select"} \cup Holding
    BY <2>1 DEF SlotsAreGranted
  <2> QED  BY <2>2, <2>3, <2>4
<1>2. IInv => SlotsAreSound
  BY <1>1 DEF IInv, SlotInv, SlotsAreSound
<1> QED  BY <1>2, Invariant, PTL

\* recordGuardRejection before release: a command is never written on a lane
\* that an operation of its own admission class has locked.
THEOREM ClassNeverSendsBehindItself == Spec => []NoSendBehindOwnClass
<1>1. IInv => NoSendBehindOwnClass
  BY DEF IInv
<1> QED  BY <1>1, Invariant, PTL

\* The lane locks in the state and on disk: a rejection closes its lane for its
\* whole duration, saved or not, and across a restart if its lock had reached
\* the disk, whatever the coordinator writes, a review of an older lock clears,
\* the disk refuses and a later save leaves out.
THEOREM SavedLocksClose == Spec => []LockOutlivesRestart
<1>1. ASSUME IInv  PROVE LockOutlivesRestart
  <2> SUFFICES ASSUME NEW l \in Lanes, incident[l] # Never, now < incident[l] + LockTicks
               PROVE  Active(lock[l], now)
    BY DEF LockOutlivesRestart
  <2>1. now \in Instants /\ LaneTypeOK /\ LaneStands(l)
    BY <1>1 DEF IInv, TypeOK, LocksStand
  <2> QED  BY <2>1, RunsIsActive DEF Runs
<1>2. IInv => LockOutlivesRestart
  BY <1>1
<1> QED  BY <1>2, Invariant, PTL

\* publishLocked and Await: an Await in its loop never sleeps over the end of
\* its operation, however full its channel was and whatever was dropped.
THEOREM AwaitsMissNothing == Spec => []AwaitMissesNothing
<1>1. IInv => AwaitMissesNothing
  BY DEF IInv
<1> QED  BY <1>1, Invariant, PTL
=============================================================================
