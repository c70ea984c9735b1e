--------------------------- MODULE OutboundRouter ---------------------------
(***************************************************************************)
(* The outbound router (Server/Outbound/Router.go): every command that the *)
(* engine sends to the game passes through two paced lanes and one worker  *)
(* goroutine.  Send blocks until the command has an outcome; the outcome   *)
(* decides whether the engine compensates ("definitive": nothing reached   *)
(* the game) or asks for reconciliation ("indeterminate").                 *)
(*                                                                         *)
(* Actors: one goroutine per Send call, the worker (run/next/dispatch), a  *)
(* Reset or close that settles the commands it took, and the transport.    *)
(* Steps are the critical sections of router.mu and the reads and writes   *)
(* other actors can observe between them.                                  *)
(***************************************************************************)
EXTENDS Integers, FiniteSetsExt

CONSTANTS
    Commands,       \* Send calls, each made once
    Lane(_),        \* "command" or "attack" (cra payloads)
    Priority(_),    \* metadata.Priority
    DeadlineRank(_),\* order of metadata.Deadline; NoDeadline is "none"
    MaxPriority,    \* Outbound.MaximumPriority
    MaxQueued,      \* MaximumQueuedPerLane
    PacedLanes,     \* lanes whose CommandDelay or AttackDelay is positive
    Cancellable,    \* commands whose caller may give up while it waits
    MayReset,       \* whether the session controller may reset the queues
    MayShutDown     \* whether Close or the parent context may end the router

Lanes == {"command", "attack"}
NoDeadline == 0
NoCommand == "no command"

ASSUME CommandsAssumption == NoCommand \notin Commands
ASSUME LaneAssumption == \A c \in Commands : Lane(c) \in Lanes
ASSUME RankAssumption ==
    /\ PacedLanes \subseteq Lanes /\ Cancellable \subseteq Commands
    /\ MaxPriority \in Nat /\ MaxQueued \in Nat /\ MayReset \in BOOLEAN /\ MayShutDown \in BOOLEAN
    /\ \A c \in Commands : Priority(c) \in 1..MaxPriority /\ DeadlineRank(c) \in Nat

VARIABLES
    pc,          \* where each Send call is
    outcome,     \* what it returned
    result,      \* the one-slot result channel of its queuedCommand
    queue,       \* the queued commands (both lanes)
    ticket,      \* queuedCommand.id of a queued command, otherwise 0
    aged,        \* AgedPriority of a queued command, otherwise 0
    overdue,     \* live commands whose metadata.Deadline has passed
    ctxDone,     \* commands whose caller context is done
    cmdDone,     \* commands whose own context was cancelled
    inFlight,    \* router.inFlight
    worker,      \* phase of the worker goroutine
    current,     \* the command it is dispatching
    verdict,     \* the error dispatch will report for it
    stamped,     \* commands whose dispatchedAt is set
    written,     \* commands the game may have received
    paced,       \* lanes with a nextAllowed entry from the last dispatch
    cooling,     \* lanes whose delay since the last send has not elapsed
    taken,       \* commands a Reset or close took and has not settled yet
    notify,      \* the one-slot notify channel
    closed,      \* router.closed
    routerDone   \* router.ctx is done

callerVars == <<pc, outcome, result, ctxDone>>
queueVars  == <<queue, ticket, aged, overdue>>
workerVars == <<inFlight, worker, current, verdict, stamped, written>>
paceVars   == <<paced, cooling>>
endVars    == <<taken, cmdDone, notify, closed, routerDone>>
vars == <<callerVars, queueVars, workerVars, paceVars, endVars>>

Verdicts == {"none", "sent", "definitive", "indeterminate"}
WorkerPhases == {"next", "await notify", "await timer", "check", "stamp",
                 "transport", "write", "record", "finish", "stopped"}

TypeOK ==
    /\ pc \in [Commands -> {"start", "select", "drain", "done"}]
    /\ outcome \in [Commands -> Verdicts \cup {"closed"}]
    /\ result \in [Commands -> Verdicts]
    /\ queue \subseteq Commands
    /\ ticket \in [Commands -> Nat]
    /\ aged \in [Commands -> 0..MaxPriority]
    /\ overdue \subseteq Commands
    /\ ctxDone \subseteq Commands
    /\ cmdDone \subseteq Commands
    /\ inFlight \subseteq Commands
    /\ worker \in WorkerPhases
    /\ current \in Commands \cup {NoCommand}
    /\ verdict \in Verdicts
    /\ stamped \subseteq Commands
    /\ written \subseteq Commands
    /\ paced \subseteq Lanes
    /\ cooling \subseteq Lanes
    /\ taken \in [Commands -> {"no", "taken", "cancelled"}]
    /\ notify \in BOOLEAN
    /\ closed \in BOOLEAN
    /\ routerDone \in BOOLEAN

Init ==
    /\ pc = [c \in Commands |-> "start"]
    /\ outcome = [c \in Commands |-> "none"]
    /\ result = [c \in Commands |-> "none"]
    /\ queue = {}
    /\ ticket = [c \in Commands |-> 0]
    /\ aged = [c \in Commands |-> 0]
    /\ overdue = {}
    /\ ctxDone = {}
    /\ cmdDone = {}
    /\ inFlight = {}
    /\ worker = "next"
    /\ current = NoCommand
    /\ verdict = "none"
    /\ stamped = {}
    /\ written = {}
    /\ paced = {}
    /\ cooling = {}
    /\ taken = [c \in Commands |-> "no"]
    /\ notify = FALSE
    /\ closed = FALSE
    /\ routerDone = FALSE

-----------------------------------------------------------------------------
(* Helpers                                                                 *)

\* A command's context derives from the caller's.
ContextDone(c) == c \in ctxDone \/ c \in cmdDone

\* completeQueuedCommand: the first result stays in the one-slot channel.
Completed(res, S, v) ==
    [c \in Commands |-> IF c \in S /\ res[c] = "none" THEN v ELSE res[c]]

\* Only the order of the queued ids matters: a command that leaves the queue
\* takes its place in it along.
Requeued(q) ==
    /\ queue' = q
    /\ ticket' = [c \in Commands |-> IF c \in q THEN ticket[c] ELSE 0]
    /\ aged' = [c \in Commands |-> IF c \in q THEN aged[c] ELSE 0]

Return(c, v) ==
    /\ pc' = [pc EXCEPT ![c] = "done"]
    /\ outcome' = [outcome EXCEPT ![c] = v]

\* queuedCommandBeforeAt.
queuedCommandBefore(c, d) ==
    \/ aged[c] > aged[d]
    \/ /\ aged[c] = aged[d]
       /\ DeadlineRank(c) # DeadlineRank(d)
       /\ DeadlineRank(c) # NoDeadline
       /\ DeadlineRank(d) = NoDeadline \/ DeadlineRank(c) < DeadlineRank(d)
    \/ /\ aged[c] = aged[d]
       /\ DeadlineRank(c) = DeadlineRank(d)
       /\ ticket[c] < ticket[d]

\* nextAllowed[lane] lies in the future.
LaneWaits(lane) == lane \in paced /\ lane \in cooling

-----------------------------------------------------------------------------
(* Send, on the caller's goroutine                                         *)

\* The checks before enqueue: a finished context, an empty, undecodable or
\* refused payload (an invalid support army), a socket that is not ready.
refuse(c) ==
    /\ pc[c] = "start"
    /\ Return(c, "definitive")
    /\ UNCHANGED <<result, ctxDone, queueVars, workerVars, paceVars, endVars>>

\* Mutant: the worker is not signalled.
enqueue_NoSignal(c) ==
    /\ pc[c] = "start"
    /\ IF closed \/ Cardinality({d \in queue : Lane(d) = Lane(c)}) >= MaxQueued
       THEN Return(c, "definitive") /\ UNCHANGED <<queue, ticket, aged>>
       ELSE /\ pc' = [pc EXCEPT ![c] = "select"]
            /\ queue' = queue \cup {c}
            /\ ticket' = [ticket EXCEPT ![c] = 1 + Max({ticket[d] : d \in Commands})]
            /\ aged' = [aged EXCEPT ![c] = Priority(c)]
            /\ UNCHANGED outcome
    /\ UNCHANGED <<result, ctxDone, overdue, workerVars, paceVars, endVars>>

\* enqueue refuses when the router is closed or the lane is full; otherwise
\* the command is appended and the worker is signalled.
enqueue(c) ==
    /\ pc[c] = "start"
    /\ IF closed \/ Cardinality({d \in queue : Lane(d) = Lane(c)}) >= MaxQueued
       THEN Return(c, "definitive") /\ UNCHANGED <<queue, ticket, aged, notify>>
       ELSE /\ pc' = [pc EXCEPT ![c] = "select"]
            /\ notify' = TRUE
            /\ queue' = queue \cup {c}
            /\ ticket' = [ticket EXCEPT ![c] = 1 + Max({ticket[d] : d \in Commands})]
            /\ aged' = [aged EXCEPT ![c] = Priority(c)]
            /\ UNCHANGED outcome
    /\ UNCHANGED <<result, ctxDone, overdue, workerVars, paceVars, taken, cmdDone,
                   closed, routerDone>>

\* Either select of Send receives the result.
receiveResult(c) ==
    /\ pc[c] \in {"select", "drain"}
    /\ result[c] # "none"
    /\ Return(c, result[c])
    /\ UNCHANGED <<result, ctxDone, queueVars, workerVars, paceVars, endVars>>

\* The caller's context is done: a command still queued is removed, any other
\* one is waited for.
callerCancelled(c) ==
    /\ pc[c] = "select"
    /\ c \in ctxDone
    /\ IF c \in queue
       THEN /\ Return(c, "definitive")
            /\ Requeued(queue \ {c})
            /\ overdue' = overdue \ {c}
            /\ cmdDone' = cmdDone \cup {c}
            /\ notify' = TRUE
       ELSE /\ pc' = [pc EXCEPT ![c] = "drain"]
            /\ UNCHANGED <<outcome, queueVars, cmdDone, notify>>
    /\ UNCHANGED <<result, ctxDone, workerVars, paceVars, taken, closed, routerDone>>

\* Either select sees router.ctx.Done and returns closedError.  The engine
\* reads it like any unmarked error; "closed" only tells the branch apart.
routerEnded(c) ==
    /\ pc[c] \in {"select", "drain"}
    /\ routerDone
    /\ Return(c, "closed")
    /\ UNCHANGED <<result, ctxDone, queueVars, workerVars, paceVars, endVars>>

\* Environment: the caller gives up.
CancelCaller(c) ==
    /\ c \in Cancellable
    /\ pc[c] = "select"
    /\ c \notin ctxDone
    /\ ctxDone' = ctxDone \cup {c}
    /\ UNCHANGED <<pc, outcome, result, queueVars, workerVars, paceVars, endVars>>

-----------------------------------------------------------------------------
(* The worker: next                                                        *)

Expired == {c \in queue : ContextDone(c) \/ c \in overdue}

Selectable == {c \in queue \ Expired : ~LaneWaits(Lane(c))}

\* One pass of next(): expired commands are completed with their context's
\* error, then the best command of the lanes that are allowed is taken.
next ==
    /\ worker = "next"
    /\ ~closed
    /\ result' = Completed(result, Expired, "definitive")
    /\ cmdDone' = cmdDone \cup Expired
    /\ overdue' = overdue \ Expired
    /\ IF Selectable # {}
       THEN \E c \in Selectable :
              /\ \A d \in Selectable \ {c} : queuedCommandBefore(c, d)
              /\ Requeued((queue \ Expired) \ {c})
              /\ inFlight' = inFlight \cup {c}
              /\ current' = c
              /\ worker' = "check"
       ELSE /\ Requeued(queue \ Expired)
            /\ worker' = IF queue' = {} THEN "await notify" ELSE "await timer"
            /\ UNCHANGED <<inFlight, current>>
    /\ UNCHANGED <<pc, outcome, ctxDone, verdict, stamped, written, paceVars,
                   taken, notify, closed, routerDone>>

nextClosed ==
    /\ worker = "next"
    /\ closed
    /\ worker' = "stopped"
    /\ UNCHANGED <<callerVars, queueVars, inFlight, current, verdict, stamped,
                   written, paceVars, endVars>>

\* The two selects of next(): a signal or the timer starts another pass, the
\* router's context ends the worker.
wake ==
    /\ \/ /\ worker \in {"await notify", "await timer"}
          /\ notify
          /\ notify' = FALSE
          /\ worker' = "next"
       \/ /\ worker = "await timer"
          /\ queue = {} \/ \E c \in queue : ~LaneWaits(Lane(c)) \/ c \in overdue
          /\ worker' = "next"
          /\ UNCHANGED notify
       \/ /\ worker \in {"await notify", "await timer"}
          /\ routerDone
          /\ worker' = "stopped"
          /\ UNCHANGED notify
    /\ UNCHANGED <<callerVars, queueVars, inFlight, current, verdict, stamped,
                   written, paceVars, taken, cmdDone, closed, routerDone>>

-----------------------------------------------------------------------------
(* The worker: dispatch                                                    *)

Step(phase) ==
    /\ worker' = phase
    /\ UNCHANGED <<callerVars, queueVars, inFlight, current, paceVars, endVars>>

\* The checks of dispatch: context and deadline first, then the gate, Ready
\* and the final dispatch validation, any of which may refuse.
check ==
    /\ worker = "check"
    /\ \/ verdict' = "definitive" /\ Step("finish")
       \/ /\ ~ContextDone(current) /\ current \notin overdue
          /\ UNCHANGED verdict
          /\ Step("stamp")
    /\ UNCHANGED <<stamped, written>>

\* dispatchedAt is written without router.mu.
stamp ==
    /\ worker = "stamp"
    /\ stamped' = stamped \cup {current}
    /\ UNCHANGED <<verdict, written>>
    /\ Step("transport")

\* Transport.Send before the write: connection generation, readiness and the
\* repeated validation may refuse; the context is read after dispatchedAt.
transportCheck ==
    /\ worker = "transport"
    /\ \/ verdict' = "definitive" /\ Step("finish")
       \/ ~ContextDone(current) /\ UNCHANGED verdict /\ Step("write")
    /\ UNCHANGED <<stamped, written>>

\* The physical write.  The lane's delay counts from dispatchedAt, so it may
\* be over by now; a command that a Reset has taken starts none.
writeOk ==
    /\ worker = "write"
    /\ written' = written \cup {current}
    /\ verdict' = "sent"
    /\ worker' = "record"
    /\ \E late \in BOOLEAN :
          cooling' = IF late \/ current \notin inFlight \/ Lane(current) \notin PacedLanes
                     THEN cooling
                     ELSE cooling \cup {Lane(current)}
    /\ paced' = paced \ {Lane(current)}
    /\ UNCHANGED <<callerVars, queueVars, inFlight, current, stamped, endVars>>

\* A failed write may have reached the game; both transports mark it.
writeFailed ==
    /\ worker = "write"
    /\ \E reached \in BOOLEAN :
          written' = IF reached THEN written \cup {current} ELSE written
    /\ verdict' = "indeterminate"
    /\ UNCHANGED stamped
    /\ Step("finish")

\* The page refused the payload before its socket saw it.
writeRejected ==
    /\ worker = "write"
    /\ verdict' = "definitive"
    /\ UNCHANGED <<stamped, written>>
    /\ Step("finish")

\* Mutant: every dispatch paces the command lane.
recordDispatch_WrongLane ==
    /\ worker = "record"
    /\ worker' = "finish"
    /\ paced' = IF current \in inFlight THEN paced \cup {"command"} ELSE paced
    /\ UNCHANGED <<callerVars, queueVars, inFlight, current, verdict, stamped,
                   written, cooling, endVars>>

\* recordDispatch: the lane is paced unless a Reset took the command.
recordDispatch ==
    /\ worker = "record"
    /\ worker' = "finish"
    /\ paced' = IF current \in inFlight THEN paced \cup {Lane(current)} ELSE paced
    /\ UNCHANGED <<callerVars, queueVars, inFlight, current, verdict, stamped,
                   written, cooling, endVars>>

finish ==
    /\ worker = "finish"
    /\ worker' = "next"
    /\ inFlight' = inFlight \ {current}
    /\ result' = Completed(result, {current}, verdict)
    /\ cmdDone' = cmdDone \cup {current}
    /\ current' = NoCommand
    /\ verdict' = "none"
    /\ overdue' = overdue \ {current}
    /\ UNCHANGED <<pc, outcome, ctxDone, queue, ticket, aged, stamped, written,
                   paceVars, taken, notify, closed, routerDone>>

-----------------------------------------------------------------------------
(* Reset and close                                                         *)

takeAllLocked ==
    /\ taken' = [c \in Commands |-> IF c \in queue \cup inFlight THEN "taken" ELSE taken[c]]
    /\ Requeued({})
    /\ overdue' = overdue \cap {current}
    /\ inFlight' = {}
    /\ notify' = (notify \/ queue \cup inFlight = {})

\* Reset's critical section.  With nothing to settle it signals at once.
Reset ==
    /\ MayReset
    /\ takeAllLocked
    /\ paced' = {}
    /\ cooling' = {}
    /\ UNCHANGED <<callerVars, worker, current, verdict,
                   stamped, written, cmdDone, closed, routerDone>>

\* closeWithError's critical section, called by Close or by the goroutine
\* that waits for the router's context.
closeWithError ==
    /\ MayShutDown
    /\ ~closed
    /\ closed' = TRUE
    /\ takeAllLocked
    /\ UNCHANGED <<callerVars, worker, current, verdict,
                   stamped, written, paceVars, cmdDone, routerDone>>

\* router.ctx ends: the parent is cancelled, or Close gets to its cancel().
endRouter ==
    /\ MayShutDown
    /\ ~routerDone
    /\ closed => \A c \in Commands : taken[c] = "no"
    /\ routerDone' = TRUE
    /\ UNCHANGED <<callerVars, queueVars, workerVars, paceVars, taken, cmdDone,
                   notify, closed>>

\* Mutant: a taken command keeps its context.
settleCancel_Forgotten(c) ==
    /\ taken[c] = "taken"
    /\ taken' = [taken EXCEPT ![c] = "cancelled"]
    /\ UNCHANGED <<callerVars, queueVars, workerVars, paceVars, cmdDone, notify,
                   closed, routerDone>>

\* The settling loop of Reset and closeWithError: first command.cancel() ...
settleCancel(c) ==
    /\ taken[c] = "taken"
    /\ taken' = [taken EXCEPT ![c] = "cancelled"]
    /\ cmdDone' = cmdDone \cup {c}
    /\ UNCHANGED <<callerVars, queueVars, workerVars, paceVars, notify, closed, routerDone>>

\* ... then the unsynchronised read of dispatchedAt.  It races with the
\* worker's write until the worker has passed the transport's context check,
\* which orders the two: before that the read may return either value.
settleComplete(c) ==
    /\ taken[c] = "cancelled"
    /\ taken' = [taken EXCEPT ![c] = "no"]
    /\ \E seen \in IF current = c /\ worker = "transport" THEN BOOLEAN ELSE {c \in stamped} :
          result' = Completed(result, {c}, IF seen THEN "indeterminate" ELSE "definitive")
    /\ notify' = (notify \/ \A d \in Commands : taken'[d] = "no")
    /\ UNCHANGED <<pc, outcome, ctxDone, queueVars, workerVars, paceVars, cmdDone,
                   closed, routerDone>>

-----------------------------------------------------------------------------
(* Time                                                                    *)

DeadlinePasses(c) ==
    /\ c \in queue \cup inFlight
    /\ DeadlineRank(c) # NoDeadline
    /\ c \notin overdue
    /\ overdue' = overdue \cup {c}
    /\ UNCHANGED <<callerVars, queue, ticket, aged, workerVars, paceVars, endVars>>

DelayElapses(lane) ==
    /\ lane \in cooling
    /\ cooling' = cooling \ {lane}
    /\ UNCHANGED <<callerVars, queueVars, workerVars, paced, endVars>>

Age ==
    /\ \E c \in queue : aged[c] < MaxPriority
    /\ aged' = [c \in Commands |-> IF c \in queue /\ aged[c] < MaxPriority
                                   THEN aged[c] + 1 ELSE aged[c]]
    /\ UNCHANGED <<callerVars, queue, ticket, overdue, workerVars, paceVars, endVars>>

-----------------------------------------------------------------------------
Caller(c) ==
    \/ refuse(c) \/ enqueue(c) \/ receiveResult(c)
    \/ callerCancelled(c) \/ routerEnded(c)

Worker ==
    \/ next \/ nextClosed \/ wake \/ check \/ stamp \/ transportCheck
    \/ writeOk \/ writeFailed \/ writeRejected \/ recordDispatch \/ finish

Settle(c) == settleCancel(c) \/ settleComplete(c)

Next ==
    \/ \E c \in Commands : Caller(c) \/ CancelCaller(c) \/ Settle(c) \/ DeadlinePasses(c)
    \/ Worker
    \/ Reset \/ closeWithError \/ endRouter
    \/ \E lane \in Lanes : DelayElapses(lane)
    \/ Age

\* Goroutines keep running and time passes; nobody has to cancel, reset or
\* close.  A parent context that ends is followed by closeWithError.
Fairness ==
    /\ \A c \in Commands : WF_vars(Caller(c)) /\ WF_vars(Settle(c))
    /\ WF_vars(Worker)
    /\ \A lane \in Lanes : WF_vars(DelayElapses(lane))
    /\ WF_vars(routerDone /\ closeWithError)

Spec == Init /\ [][Next]_vars /\ Fairness

-----------------------------------------------------------------------------
(* Properties                                                              *)

\* What Send returns tells the engine what it may do next.  An error without
\* the indeterminate mark proves that the command never reaches the game, now
\* or later (the engine compensates on it); success means it was written; and
\* a command that was reset or closed while it only sat in the queue is never
\* reported as possibly sent (its reservations are given back).  The error of
\* the router.ctx.Done branch tells nothing: it is returned for queued and
\* for written commands alike.
OutcomeTellsTheWire ==
    \A c \in Commands :
       /\ outcome[c] = "definitive" => c \notin written
       /\ outcome[c] = "sent" => c \in written
       /\ outcome[c] = "indeterminate" => c \in stamped

\* Two physical sends on one lane are separated by the lane's delay, unless
\* the queue was reset between them.
PacedSends ==
    [][writeOk => Lane(current) \notin cooling]_vars

\* Every Send call returns, whatever is reset, closed, cancelled or lost.
EverySendReturns ==
    \A c \in Commands : pc[c] # "start" ~> pc[c] = "done"

=============================================================================
