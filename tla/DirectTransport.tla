--------------------------- MODULE DirectTransport ---------------------------
(***************************************************************************)
(* The background transport (Session/DirectWebSocketTransport.go) and its  *)
(* frame outbox (DirectFrameOutbox.go): the runs that Start begins and     *)
(* Stop ends, the status each of them publishes, the connection generation *)
(* of a login, and the forwarders that move received frames into the       *)
(* channel the session controller reads.                                   *)
(*                                                                         *)
(* A run is a number; the one whose cancel function is stored is current,  *)
(* so that the context of run r is over exactly when current # r.  (The    *)
(* controller cancels a run's parent context a moment before it calls      *)
(* Stop; until Stop a run that noticed it only returns.)  ChangedAt is the *)
(* number of statuses stamped so far.  What a status says in words, the    *)
(* delays between attempts and the login exchange are left out; a frame is *)
(* its place in the outbox's sequence and its connection generation.       *)
(***************************************************************************)
EXTENDS Integers, Sequences, FiniteSets

CONSTANTS
    MaxRuns,        \* bound: runs of the transport
    MaxEvents,      \* bound: calls of the controller, and failures
    MaxFrames,      \* bound: frames received
    StatusBuffer,   \* capacity of transport.statuses
    FrameBuffer,    \* capacity of transport.frames
    PauseAt,        \* directOutboxPauseBytes, in frames
    ResumeBelow     \* directOutboxResumeBytes, in frames

ASSUME TransportAssumption ==
    /\ {MaxRuns, MaxEvents, MaxFrames} \subseteq Nat
    /\ {StatusBuffer, FrameBuffer, PauseAt, ResumeBelow} \subseteq Nat \ {0}
    /\ ResumeBelow <= PauseAt

VARIABLES
    clock,      \* the latest ChangedAt
    status,     \* transport.status
    posting,    \* actor -> the status it stored and has not enqueued yet
    statuses,   \* the channel of statuses
    reset,      \* history: the status lost the generation of a connection
    overtaken,  \* history: the full channel lost a status to an older one
    current,    \* the run that transport.cancel belongs to
    begun,      \* runs begun
    parked,     \* parkedFailure or parkedRetryAt holds
    force,      \* forceNextStart
    tpc,        \* run -> where its loop is
    conn,       \* run -> the generation of its connection
    outbox,     \* the outbox's queue of frames
    received,   \* frames pushed so far: the outbox's nextSeq
    paused,     \* outbox.paused
    wake,       \* the token in outbox.wake
    lease,      \* the run whose forwarder has the lease
    fpc,        \* run -> where its forwarder is
    head,       \* run -> the frame its forwarder has read
    frames,     \* the channel of frames
    events      \* calls of Start and Stop, and failures, so far

statusVars == <<clock, status, posting, statuses, reset, overtaken>>
runVars    == <<current, begun, parked, force, tpc, conn, events>>
outboxVars == <<outbox, received, paused, wake, lease, fpc, head, frames>>
transportVars == <<statusVars, runVars, outboxVars>>

Runs == 1..MaxRuns
NoRun == 0
Caller == 0             \* the goroutine in Start or Stop, as an actor that posts
NoStatus == [state |-> "none"]
States == {"stopped", "starting", "connected", "reconnecting",
           "error", "released", "unavailable"}
Status == [state : States, ready : BOOLEAN, gen : Nat, at : Nat]
Frame == [seq : 1..MaxFrames, gen : Nat]
NoFrame == [seq |-> 0]

TransportTypeOK ==
    /\ clock \in Nat /\ events \in 0..MaxEvents
    /\ status \in Status
    /\ posting \in [{Caller} \cup Runs -> Status \cup {NoStatus}]
    /\ statuses \in Seq(Status) /\ Len(statuses) <= StatusBuffer /\ {reset, overtaken} \subseteq BOOLEAN
    /\ current \in {NoRun} \cup Runs /\ begun \in 0..MaxRuns
    /\ parked \in BOOLEAN /\ force \in BOOLEAN
    /\ tpc \in [Runs -> {"none", "dial", "serve", "failed", "park", "done"}]
    /\ conn \in [Runs -> Nat]
    /\ outbox \in Seq(Frame) /\ received \in 0..MaxFrames
    /\ paused \in BOOLEAN /\ wake \in BOOLEAN
    /\ lease \in {NoRun} \cup Runs
    /\ fpc \in [Runs -> {"none", "lease", "wait", "send", "sent", "done"}]
    /\ head \in [Runs -> Frame \cup {NoFrame}]
    /\ frames \in Seq(Frame) /\ Len(frames) <= FrameBuffer

TransportInit ==
    /\ clock = 0 /\ events = 0
    /\ status = [state |-> "stopped", ready |-> FALSE, gen |-> 0, at |-> 0]
    /\ posting = [a \in {Caller} \cup Runs |-> NoStatus]
    /\ statuses = <<>> /\ reset = FALSE /\ overtaken = FALSE
    /\ current = NoRun /\ begun = 0
    /\ parked = FALSE /\ force = FALSE
    /\ tpc = [r \in Runs |-> "none"]
    /\ conn = [r \in Runs |-> 0]
    /\ outbox = <<>> /\ received = 0
    /\ paused = FALSE /\ wake = FALSE
    /\ lease = NoRun
    /\ fpc = [r \in Runs |-> "none"]
    /\ head = [r \in Runs |-> NoFrame]
    /\ frames = <<>>

Free(a) == posting[a] = NoStatus

Event == events < MaxEvents /\ events' = events + 1

-----------------------------------------------------------------------------
(* Statuses                                                                *)

\* prepareStatus and the critical section of publishStatus: the status is
\* stamped and stored under the mutex, and enqueued after it.
publishGeneration(a, s, ready, gen) ==
    /\ clock' = clock + 1
    /\ status' = [state |-> s, ready |-> ready, gen |-> gen, at |-> clock + 1]
    /\ posting' = [posting EXCEPT ![a] = status']
    /\ reset' = (reset \/ gen < status.gen)
    /\ UNCHANGED <<statuses, overtaken>>

\* A status without a generation keeps the one of the status it replaces.
publishStatus(a, s) == publishGeneration(a, s, FALSE, status.gen)

Full == Len(statuses) = StatusBuffer

\* A full channel loses its oldest status.  The second attempt to send may find
\* the place taken by another goroutine that was enqueueing too.
enqueueStatus(a) ==
    /\ ~Free(a)
    /\ \/ /\ statuses' = Append(IF Full THEN Tail(statuses) ELSE statuses, posting[a])
          /\ overtaken' = (overtaken \/ (Full /\ Head(statuses).at > posting[a].at))
       \/ /\ Full
          /\ \E b \in DOMAIN posting \ {a} : ~Free(b)
          /\ statuses' = Tail(statuses)
          /\ overtaken' = TRUE
    /\ posting' = [posting EXCEPT ![a] = NoStatus]
    /\ UNCHANGED <<clock, status, reset, runVars, outboxVars>>

-----------------------------------------------------------------------------
(* Start and Stop, called by the controller one at a time                  *)

\* The saved login cannot be used: the status is replaced without its
\* generation, and Start fails.
startUnavailable ==
    /\ parked' = FALSE /\ force' = FALSE
    /\ publishGeneration(Caller, "unavailable", FALSE, 0)
    /\ UNCHANGED <<current, begun, tpc, conn, outboxVars>>

\* The same login has failed before, or its retry time has not come.
startParked ==
    /\ parked /\ ~force
    /\ UNCHANGED <<statusVars, current, begun, parked, force, tpc, conn, outboxVars>>

startRun ==
    /\ begun < MaxRuns
    /\ begun' = begun + 1
    /\ current' = begun + 1
    /\ parked' = FALSE /\ force' = FALSE
    /\ tpc' = [tpc EXCEPT ![begun + 1] = "dial"]
    /\ fpc' = [fpc EXCEPT ![begun + 1] = "lease"]
    /\ publishStatus(Caller, "starting")
    /\ UNCHANGED <<conn, outbox, received, paused, wake, lease, head, frames>>

\* The context of the current run ends.  A run or a forwarder that can do nothing
\* any more but return does so in this step; a forwarder in its send, and a run
\* that serves or has a status to enqueue, do it later.
EndCurrent(at) ==
    LET over(r, pc, last) == r = current /\ pc[r] \in last
    IN /\ current' = NoRun
       /\ tpc' = [r \in Runs |-> IF over(r, tpc, at) /\ Free(r) THEN "done" ELSE tpc[r]]
       /\ fpc' = [r \in Runs |-> IF over(r, fpc, {"lease", "wait"}) THEN "done" ELSE fpc[r]]
       /\ lease' = IF lease = current /\ lease # NoRun /\ fpc'[lease] = "done" THEN NoRun ELSE lease

transportStop ==
    /\ EndCurrent({"dial", "failed", "park"})
    /\ publishStatus(Caller, "stopped")
    /\ UNCHANGED <<begun, parked, force, conn, outbox, received, paused, wake, head, frames>>

-----------------------------------------------------------------------------
(* A run                                                                   *)

\* Start begins the run's goroutines after it has enqueued its status.
Begun(r) == current = r => Free(Caller)

RunGoes(r, from, to) ==
    /\ tpc[r] = from
    /\ Free(r)
    /\ tpc' = [tpc EXCEPT ![r] = to]

\* isCurrent fails, or publishRunStatus refuses the status of a run that was
\* stopped: the run ends without a trace.
runEnds(r) ==
    /\ current # r
    /\ \E p \in {"dial", "failed", "park"} : RunGoes(r, p, "done")
    /\ UNCHANGED <<statusVars, current, begun, parked, force, conn, events, outboxVars>>

\* connectAndServe: the login succeeded and the connection gets the next
\* generation.  The statuses on the way there repeat the one before them.
connected(r) ==
    /\ current = r
    /\ Begun(r)
    /\ RunGoes(r, "dial", "serve")
    /\ conn' = [conn EXCEPT ![r] = status.gen + 1]
    /\ publishGeneration(r, "connected", TRUE, conn'[r])
    /\ UNCHANGED <<current, begun, parked, force, events, outboxVars>>

\* Mutant: push does not signal the forwarder.
deliver_Silent(r) ==
    /\ tpc[r] = "serve" /\ Free(r)
    /\ ~paused
    /\ received < MaxFrames
    /\ received' = received + 1
    /\ outbox' = Append(outbox, [seq |-> received + 1, gen |-> conn[r]])
    /\ paused' = (Len(outbox') >= PauseAt)
    /\ UNCHANGED <<statusVars, runVars, wake, lease, fpc, head, frames>>

\* deliverInbound: outbox.push of a frame the reader takes, which it does while
\* the outbox is not paused; a record of a sent frame or of one buffered during
\* the login is pushed at such a moment too (the code does not ask).  A run whose
\* context is over may still take what was read before it.
deliver(r) ==
    /\ tpc[r] = "serve" /\ Free(r)
    /\ ~paused
    /\ received < MaxFrames
    /\ received' = received + 1
    /\ outbox' = Append(outbox, [seq |-> received + 1, gen |-> conn[r]])
    /\ paused' = (Len(outbox') >= PauseAt)
    /\ wake' = TRUE
    /\ UNCHANGED <<statusVars, runVars, lease, fpc, head, frames>>

\* Dialling, the login, the socket or the stalled ingest fails.
attemptEnds(r) ==
    /\ current = r /\ Begun(r)
    /\ \E p \in {"dial", "serve"} : RunGoes(r, p, "failed")
    /\ Event
    /\ conn' = [conn EXCEPT ![r] = 0]
    /\ UNCHANGED <<statusVars, current, begun, parked, force, outboxVars>>

reconnect(r) ==
    /\ current = r
    /\ RunGoes(r, "failed", "dial")
    /\ publishStatus(r, "reconnecting")
    /\ UNCHANGED <<current, begun, parked, force, conn, events, outboxVars>>

\* A login that retrying cannot fix, or the release policy: the obstacle is
\* published and the run gives up its place.
publishPark(r) ==
    /\ current = r
    /\ RunGoes(r, "failed", "park")
    /\ \E s \in {"error", "released"} : publishStatus(r, s)
    /\ UNCHANGED <<current, begun, parked, force, conn, events, outboxVars>>

release(r) ==
    /\ current = r
    /\ tpc[r] = "park" /\ Free(r)
    /\ EndCurrent({"park"})
    /\ parked' = TRUE
    /\ UNCHANGED <<statusVars, begun, force, conn, events, outbox, received, paused, wake, head, frames>>

-----------------------------------------------------------------------------
(* forward, the goroutine that empties the outbox                          *)

Unforwarded == <<statusVars, runVars, received>>

\* The top of the forwarder's loop, in the step that leads to it: it returns and
\* gives the lease back, waits for a frame, or sends the first one.
ForwarderLoops(r, q) ==
    /\ fpc' = [fpc EXCEPT ![r] = IF current # r THEN "done"
                                 ELSE IF q = <<>> THEN "wait" ELSE "send"]
    /\ head' = [head EXCEPT ![r] = IF fpc'[r] = "send" THEN Head(q) ELSE NoFrame]
    /\ lease' = IF current # r THEN NoRun ELSE r

\* Mutant: forwarders do not wait for each other.
takeLease_Shared(r) ==
    /\ Begun(r)
    /\ fpc[r] = "lease"
    /\ ForwarderLoops(r, outbox)
    /\ UNCHANGED <<Unforwarded, outbox, paused, wake, frames>>

takeLease(r) ==
    /\ Begun(r)
    /\ fpc[r] = "lease" /\ lease = NoRun
    /\ ForwarderLoops(r, outbox)
    /\ UNCHANGED <<Unforwarded, outbox, paused, wake, frames>>

awake(r) ==
    /\ fpc[r] = "wait"
    /\ wake /\ wake' = FALSE
    /\ ForwarderLoops(r, outbox)
    /\ UNCHANGED <<Unforwarded, outbox, paused, frames>>

\* The select may choose the send although the context is over.
sendFrame(r) ==
    /\ fpc[r] = "send"
    /\ Len(frames) < FrameBuffer
    /\ frames' = Append(frames, head[r])
    /\ fpc' = [fpc EXCEPT ![r] = "sent"]
    /\ UNCHANGED <<Unforwarded, outbox, paused, wake, lease, head>>

sendCancelled(r) ==
    /\ fpc[r] = "send" /\ current # r
    /\ ForwarderLoops(r, outbox)
    /\ UNCHANGED <<Unforwarded, outbox, paused, wake, frames>>

\* remove takes the head away if it is still the frame that was sent.
remove(r) ==
    /\ fpc[r] = "sent"
    /\ outbox' = IF outbox # <<>> /\ Head(outbox) = head[r] THEN Tail(outbox) ELSE outbox
    /\ paused' = (paused /\ (outbox' = outbox \/ Len(outbox') >= ResumeBelow))
    /\ ForwarderLoops(r, outbox')
    /\ UNCHANGED <<Unforwarded, wake, frames>>

-----------------------------------------------------------------------------
RunStep(r) == runEnds(r) \/ reconnect(r) \/ publishPark(r) \/ release(r)

Forwarder(r) ==
    takeLease(r) \/ awake(r) \/ sendFrame(r) \/ sendCancelled(r) \/ remove(r)

TransportStep(r) ==
    RunStep(r) \/ connected(r) \/ deliver(r) \/ attemptEnds(r) \/ Forwarder(r)

=============================================================================
