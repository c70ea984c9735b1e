------------------------- MODULE SessionController -------------------------
(***************************************************************************)
(* The session controller (Session/Controller.go) over the background      *)
(* transport: Start, Stop and Reconnect, the runs that read the            *)
(* transport's statuses and frames, the ingest queue of each run with its  *)
(* worker, and the session record in the state store that decides which    *)
(* frames may be committed (Ingest/Pipeline.go, commitFrameGuarded).       *)
(*                                                                         *)
(* Start and Stop hold lifecycleMu, so one caller is enough.  A run of the *)
(* controller is a number; its context is over exactly when live is        *)
(* another one.  Runs of the controller and of the transport are counted   *)
(* apart: a parked transport is started again under a live run.  A read of *)
(* the transport's status and the use of what was read are two steps.      *)
(***************************************************************************)
EXTENDS DirectTransport

CONSTANTS
    IngestLimit     \* ingestQueueFrameLimit

ASSUME ControllerAssumption == IngestLimit \in Nat \ {0}

VARIABLES
    session,    \* gameState.Session in the store
    live,       \* the run that controller.cancel belongs to
    opened,     \* runs of the controller so far
    lpc,        \* where the caller of Start or Stop is
    seen,       \* the status that caller is about to apply
    cpc,        \* run -> where its loop is
    held,       \* run -> what its loop received, with the status it read
    queue,      \* run -> its ingest queue
    closed,     \* runs whose ingest queue is closed
    wpc,        \* run -> where its ingest worker is
    work,       \* run -> the frame its worker is about to commit
    committed,  \* history: the frames committed, in order
    outcome     \* history: frame -> what became of it

callVars == <<live, opened, lpc, seen>>
loopVars == <<cpc, held>>
queueVars == <<queue, closed>>
workVars == <<wpc, work>>
endVars == <<committed, outcome>>
vars == <<transportVars, session, callVars, loopVars, queueVars, workVars, endVars>>

Opened == 1..MaxEvents
Observed == [seq : 1..MaxFrames, gen : Nat, epoch : Nat]
InHand == [frame : Frame \cup {NoFrame}, status : Status \cup {NoStatus}]
Nothing == [frame |-> NoFrame, status |-> NoStatus]

TypeOK ==
    /\ TransportTypeOK
    /\ session \in [gen : Nat, ready : BOOLEAN, at : Nat, epoch : Nat]
    /\ live \in {NoRun} \cup Opened /\ opened \in 0..MaxEvents
    /\ lpc \in {"idle", "failed", "ran", "stopped", "apply"}
    /\ seen \in Status \cup {NoStatus}
    /\ cpc \in [Opened -> {"none", "select", "accept", "done"}]
    /\ held \in [Opened -> InHand]
    /\ queue \in [Opened -> Seq(Observed)]
    /\ \A c \in Opened : Len(queue[c]) <= IngestLimit
    /\ closed \subseteq Opened
    /\ wpc \in [Opened -> {"none", "pop", "commit"}]
    /\ work \in [Opened -> Observed \cup {NoFrame}]
    /\ committed \in Seq(1..MaxFrames)
    /\ outcome \in [1..MaxFrames -> {"pending", "committed", "stopped", "stale", "refused"}]

Init ==
    /\ TransportInit
    /\ session = [gen |-> 0, ready |-> FALSE, at |-> 0, epoch |-> 0]
    /\ live = NoRun /\ opened = 0
    /\ lpc = "idle" /\ seen = NoStatus
    /\ cpc = [c \in Opened |-> "none"]
    /\ held = [c \in Opened |-> Nothing]
    /\ queue = [c \in Opened |-> <<>>]
    /\ closed = {}
    /\ wpc = [c \in Opened |-> "none"]
    /\ work = [c \in Opened |-> NoFrame]
    /\ committed = <<>>
    /\ outcome = [f \in 1..MaxFrames |-> "pending"]

-----------------------------------------------------------------------------
(* applyStatus and acceptFrameGeneration                                   *)

\* Mutant: the time of a status is not compared.
Applied_AnyTime(s) ==
    LET gen == IF s.gen = 0 THEN session.gen ELSE s.gen
        begins == s.ready /\ (~session.ready \/ gen # session.gen)
    IN IF gen < session.gen THEN session
       ELSE [gen |-> gen, ready |-> s.ready, at |-> s.at,
             epoch |-> IF begins THEN session.epoch + 1 ELSE session.epoch]

\* The session record after applyStatus(s).  A status of an older connection,
\* or an older status of the same one, is ignored; becoming ready begins a new
\* session generation (epoch).
Applied(s) ==
    LET gen == IF s.gen = 0 THEN session.gen ELSE s.gen
        ignored == gen < session.gen \/ (s.at < session.at /\ gen <= session.gen)
        begins == s.ready /\ (~session.ready \/ gen # session.gen)
    IN IF ignored THEN session
       ELSE [gen |-> gen, ready |-> s.ready, at |-> s.at,
             epoch |-> IF begins THEN session.epoch + 1 ELSE session.epoch]

\* Mutant: the store is not told of the connection of a frame.
SessionFor_Stored(f, s) == session

\* A frame whose connection the store does not know yet brings the transport's
\* status to the store before it is accepted.
SessionFor(f, s) ==
    IF s.gen = f.gen /\ session.gen # f.gen THEN Applied(s) ELSE session

Accepted(f, s) == s.gen \in {0, f.gen} /\ SessionFor(f, s).gen = f.gen

\* What a dropped frame is dropped for: it belongs to another connection than
\* the transport's, or it is refused although it does not.
Stale(f) == IF f.gen # status.gen \/ reset THEN "stale" ELSE "refused"

Settle(f, why) == outcome' = [outcome EXCEPT ![f.seq] = why]

-----------------------------------------------------------------------------
(* Start, Stop and Reconnect                                               *)

CallerGoes(from, to) == lpc = from /\ lpc' = to

Called == Event /\ Free(Caller)

Elsewhere == <<loopVars, queueVars, workVars, endVars>>

\* Start: the run is stored, the store is told that it is starting, and the
\* transport starts or fails to; nobody else publishes while no run is live.
Start ==
    LET starting == [status EXCEPT !.state = "starting", !.at = clock]
    IN /\ lpc = "idle"
       /\ Called
       /\ live = NoRun
       /\ opened' = opened + 1
       /\ live' = opened + 1
       /\ session' = Applied(starting)
       /\ \/ CallerGoes("idle", "ran") /\ startRun
          \/ CallerGoes("idle", "failed") /\ (startUnavailable \/ startParked)
       /\ UNCHANGED <<seen, Elsewhere>>

\* transport.Start failed: the run is dropped and the status is applied.
abandonRun ==
    /\ CallerGoes("failed", "idle")
    /\ Free(Caller)
    /\ live' = NoRun
    /\ session' = Applied(status)
    /\ UNCHANGED <<transportVars, opened, seen, Elsewhere>>

goRun ==
    /\ CallerGoes("ran", "apply")
    /\ Free(Caller)
    /\ cpc' = [cpc EXCEPT ![live] = "select"]
    /\ wpc' = [wpc EXCEPT ![live] = "pop"]
    /\ seen' = status
    /\ UNCHANGED <<transportVars, session, live, opened, held, queueVars, work, endVars>>

applySeen ==
    /\ CallerGoes("apply", "idle")
    /\ session' = Applied(seen)
    /\ seen' = NoStatus
    /\ UNCHANGED <<transportVars, live, opened, Elsewhere>>

\* Start while a run is live: a transport that parked itself starts again.
Restart ==
    /\ CallerGoes("idle", "idle")
    /\ Called
    /\ live # NoRun
    /\ status.state \in {"error", "unavailable"} /\ current = NoRun
    /\ \/ startUnavailable
       \/ startParked
       \/ startRun
    /\ UNCHANGED <<session, live, opened, seen, Elsewhere>>

\* The goroutine that watches the context closes the ingest queue of the run
\* that ends and discards what is in it.
closeAndTakePending(c) ==
    /\ closed' = closed \cup {c}
    /\ queue' = [queue EXCEPT ![c] = <<>>]
    /\ outcome' = [f \in 1..MaxFrames |->
                     IF \E i \in DOMAIN queue[c] : queue[c][i].seq = f
                     THEN "stopped" ELSE outcome[f]]

\* The run's context is cancelled, the router is reset and the transport stops.
Stop ==
    /\ CallerGoes("idle", "stopped")
    /\ Called
    /\ live' = NoRun
    /\ transportStop
    /\ IF live = NoRun THEN UNCHANGED <<queueVars, outcome>> ELSE closeAndTakePending(live)
    /\ UNCHANGED <<session, opened, seen, loopVars, workVars, committed>>

\* transport.Stop returned; nobody publishes until the next Start.
stopReturns ==
    /\ CallerGoes("stopped", "idle")
    /\ Free(Caller)
    /\ session' = Applied(status)
    /\ UNCHANGED <<transportVars, live, opened, seen, Elsewhere>>

\* Reconnect is Stop, this and Start.
ClearReconnectHold ==
    /\ lpc = "idle" /\ live = NoRun
    /\ parked /\ ~force /\ force' = TRUE
    /\ UNCHANGED <<statusVars, current, begun, parked, tpc, conn, events, outboxVars,
                   session, callVars, Elsewhere>>

-----------------------------------------------------------------------------
(* run: the loop                                                           *)

LoopGoes(c, from, to) == cpc[c] = from /\ cpc' = [cpc EXCEPT ![c] = to]

receiveStatus(c) ==
    /\ cpc[c] = "select"
    /\ statuses # <<>>
    /\ statuses' = Tail(statuses)
    /\ session' = Applied(Head(statuses))
    /\ UNCHANGED <<clock, status, posting, reset, overtaken, runVars, outboxVars, callVars, Elsewhere>>

receiveFrame(c) ==
    /\ LoopGoes(c, "select", "accept")
    /\ frames # <<>>
    /\ held' = [held EXCEPT ![c] = [frame |-> Head(frames), status |-> status]]
    /\ frames' = Tail(frames)
    /\ UNCHANGED <<statusVars, runVars, outbox, received, paused, wake, lease, fpc, head,
                   session, callVars, queueVars, workVars, endVars>>

\* An accepted frame is shown to the wire watchers (observeFrame), remembers the
\* session it was observed in, and is pushed into the ingest queue once there is
\* room (the code observes it before it waits for the room; here it waits first).
\* A queue that is closed ends the loop.
accept(c) ==
    LET f == held[c].frame s == held[c].status
        observed == [seq |-> f.seq, gen |-> f.gen, epoch |-> session'.epoch]
    IN /\ cpc[c] = "accept"
       /\ c \in closed \/ Len(queue[c]) < IngestLimit
       /\ session' = SessionFor(f, s)
       /\ held' = [held EXCEPT ![c] = Nothing]
       /\ CASE ~Accepted(f, s) ->
                 /\ LoopGoes(c, "accept", "select")
                 /\ Settle(f, Stale(f))
                 /\ UNCHANGED queue
            [] Accepted(f, s) /\ c \in closed ->
                 /\ LoopGoes(c, "accept", "done")
                 /\ Settle(f, "stopped")
                 /\ UNCHANGED queue
            [] OTHER ->
                 /\ LoopGoes(c, "accept", "select")
                 /\ queue' = [queue EXCEPT ![c] = Append(@, observed)]
                 /\ UNCHANGED outcome
       /\ UNCHANGED <<transportVars, callVars, closed, workVars, committed>>

-----------------------------------------------------------------------------
(* run: the ingest worker                                                  *)

WorkerGoes(c, from, to) == wpc[c] = from /\ wpc' = [wpc EXCEPT ![c] = to]

\* The worker takes a frame and accepts it once more; the next step commits it.
pop(c) ==
    LET f == Head(queue[c])
    IN /\ wpc[c] = "pop"
       /\ queue[c] # <<>>
       /\ queue' = [queue EXCEPT ![c] = Tail(@)]
       /\ session' = IF live = c THEN SessionFor(f, status) ELSE session
       /\ IF live = c /\ Accepted(f, status)
          THEN /\ WorkerGoes(c, "pop", "commit")
               /\ work' = [work EXCEPT ![c] = f]
               /\ UNCHANGED outcome
          ELSE /\ Settle(f, IF live # c THEN "stopped" ELSE Stale(f))
               /\ UNCHANGED workVars
       /\ UNCHANGED <<transportVars, callVars, loopVars, closed, committed>>

\* validateObserved and the guard, inside the store's update.
MayCommit(c) ==
    LET f == work[c]
    IN /\ live = c
       /\ session.gen = f.gen
       /\ f.epoch > 0 => f.epoch = session.epoch
       /\ status.gen \in {0, f.gen}

commitFrameGuarded(c) ==
    LET f == work[c]
    IN /\ WorkerGoes(c, "commit", "pop")
       /\ work' = [work EXCEPT ![c] = NoFrame]
       /\ IF MayCommit(c)
          THEN Settle(f, "committed") /\ committed' = Append(committed, f.seq)
          ELSE Settle(f, IF live # c THEN "stopped" ELSE Stale(f)) /\ UNCHANGED committed
       /\ UNCHANGED <<transportVars, session, callVars, loopVars, queueVars>>

-----------------------------------------------------------------------------
Call ==
    abandonRun \/ goRun \/ applySeen \/ stopReturns

Loop(c) ==
    receiveStatus(c) \/ receiveFrame(c) \/ accept(c)

Worker(c) == pop(c) \/ commitFrameGuarded(c)

ByTransport == UNCHANGED <<session, callVars, Elsewhere>>

Transport ==
    /\ \/ \E r \in Runs : TransportStep(r)
       \/ \E a \in DOMAIN posting : enqueueStatus(a)
    /\ ByTransport

Next ==
    \/ Start \/ Stop \/ Restart \/ ClearReconnectHold
    \/ Call
    \/ \E c \in Opened : Loop(c) \/ Worker(c)
    \/ Transport

\* Goroutines that can go on do; nobody has to call, and neither a login, a
\* frame nor a failure has to come.
Fairness ==
    /\ WF_vars(Call)
    /\ \A c \in Opened :
          /\ WF_vars(Loop(c) /\ (live = c \/ cpc[c] = "accept"))
          /\ WF_vars(Worker(c))
    /\ \A r \in Runs :
          /\ WF_vars(RunStep(r) /\ ByTransport)
          /\ WF_vars(Forwarder(r) /\ ByTransport)
    /\ \A a \in {Caller} \cup Runs : WF_vars(enqueueStatus(a) /\ ByTransport)

Spec == Init /\ [][Next]_vars /\ Fairness

-----------------------------------------------------------------------------
(* Properties                                                              *)

\* Frames are committed once each and in the order in which the transport
\* received them, across immediate restarts with two forwarders and two loops
\* at work.
FramesInOrder ==
    \A i, j \in DOMAIN committed : i < j => committed[i] < committed[j]

\* No frame of the connection the transport is on is refused as one of another
\* connection, unless a failed Start had reset the transport's generation.
CurrentFramesAreAccepted ==
    \A f \in DOMAIN outcome : outcome[f] # "refused"

\* A frame that was received is committed or given up for a reason; it stays
\* where it is only while the session is stopped or parked.
FramesAreSettled ==
    \A f \in 1..MaxFrames :
        received >= f ~> (outcome[f] # "pending" \/ live = NoRun \/ current = NoRun)

\* Once the transport settles, the session in the store says what it says,
\* unless a failed Start reset the generation, or a goroutine of a stopped run, late with
\* its own status, took a newer one's place in a full channel.
SessionFollowsTransport ==
    <>[](\/ reset \/ overtaken
         \/ /\ session.ready = status.ready
            /\ status.gen \in {0, session.gen})

=============================================================================
