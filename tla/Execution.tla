----------------------------- MODULE Execution -----------------------------
(***************************************************************************)
(* Engine.run (Server/Intent/Engine.go) as the composition of the          *)
(* admission manager, the lane locks and the receipt stream: an operation  *)
(* passes the lane's gate, waits for its admission slot, then (bounded)    *)
(* for its claims, checks the lane again, is written by the router, and    *)
(* judges the answer; callers of Await watch its receipts.  The bot lock   *)
(* (Session.SetAutomationLocked, or the player at the game) pauses it, an  *)
(* answer may be one that is retried, and a stale plan is made again.      *)
(* Claims, the router and the durable rows have modules of their own; here *)
(* a plan has one step, a claim is granted or times out, and a write moves *)
(* the lane's next opening.                                                *)
(***************************************************************************)
EXTENDS Admission, LaneSafety, ReceiptStream

CONSTANTS
    PaceTicks,     \* the delay between two sends of a paced lane
    Cancellable,   \* operations that may be cancelled
    MaxTurns       \* bound on the turns a run takes: replans, resends, claim waits that
                   \* end without the claims, closings of the bot lock, updates of the
                   \* coordinator

ASSUME ExecutionBounds ==
    /\ PaceTicks \in Nat /\ MaxTurns \in Nat
    /\ Cancellable \subseteq Ops

VARIABLES
    pc,        \* where each operation's goroutine is
    behind,    \* <<o, p>>: o was written while p's lock closed its lane
    botLocked, \* the session's automation lock
    turns

execVars == <<pc, behind, botLocked, turns>>
\* All of them but pc.
books == <<behind, botLocked, turns>>
vars == <<now, admissionVars, laneVars, streamVars, execVars>>

\* From the grant of the admission slot until its release.
Holding == {"claims", "permit", "queued", "response", "aborting", "unwind", "releasing",
            "restarting"}
Points == {"new", "gate", "barred", "admission", "loop", "select", "ending", "resuming", "done"}
          \cup Holding

TypeOK ==
    /\ now \in Instants
    /\ AdmissionTypeOK /\ LaneTypeOK /\ StreamTypeOK
    /\ pc \in [Ops -> Points]
    /\ behind \subseteq Ops \X Ops
    /\ botLocked \in BOOLEAN
    /\ turns \in 0..MaxTurns

Init ==
    /\ now = 0
    /\ AdmissionInit /\ LaneInit /\ StreamInit
    /\ pc = [o \in Ops |-> "new"]
    /\ behind = {} /\ botLocked = FALSE /\ turns = 0

takeTurn == turns < MaxTurns /\ turns' = turns + 1
goto(o, p) == pc' = [pc EXCEPT ![o] = p]

\* engine.fail, from under an admission or without one.
failure(o) == IF Admitted(o) THEN "aborting" ELSE "ending"

\* Ends that give the slot back before they are published: of the operation,
\* and of an attempt after which it starts over.
ended(o) == IF Admitted(o) THEN "releasing" ELSE "ending"
restarted(o) == IF Admitted(o) THEN "restarting" ELSE "resuming"

\* YieldsToAutomationLock and AutomationLockedFor: automation, the scheduler
\* and background work wait while the bot is locked.
automationLocked(o) == Request[o].tier < 4 /\ botLocked

-----------------------------------------------------------------------------
(* The operation loop                                                      *)

\* Submit: the accepted receipt is published and the operation starts.
Submit(o) ==
    /\ pc[o] = "new"
    /\ goto(o, "gate")
    /\ submittedAt' = [submittedAt EXCEPT ![o] = now]
    /\ publish(o, "active")
    /\ UNCHANGED <<now, held, nextID, waiters, ready, notify, timer, availableAt, ctxDone,
                   laneVars, books>>

\* The gate is passed: on to the admission manager with a queued receipt, or
\* to the claims when the plan asks for no admission.
proceed(o) ==
    IF Admitted(o) THEN goto(o, "admission") /\ publish(o, "active")
    ELSE goto(o, "claims") /\ UNCHANGED streamVars

\* The head of the loop: cancelled, refused by the planner, the gate or the
\* lane's lock, or through; the application's gate keeps back who yields to the
\* bot lock.
Gate(o) ==
    /\ pc[o] = "gate"
    /\ \/ goto(o, "ending") /\ UNCHANGED streamVars
       \/ /\ o \notin ctxDone /\ laneOpen(o)
          /\ IF automationLocked(o) THEN goto(o, "barred") /\ UNCHANGED streamVars
             ELSE proceed(o)
    /\ UNCHANGED <<now, admissionVars, laneVars, books>>

\* WaitForActorAutomationUnlocked: until the bot is unlocked, or cancelled.
Barred(o) ==
    /\ pc[o] = "barred"
    /\ \/ o \in ctxDone /\ goto(o, "ending") /\ UNCHANGED streamVars
       \/ ~automationLocked(o) /\ proceed(o)
    /\ UNCHANGED <<now, admissionVars, laneVars, books>>

Acquire(o) ==
    /\ pc[o] = "admission"
    /\ acquire(o)
    /\ goto(o, "loop")
    /\ UNCHANGED <<now, laneVars, streamVars, books>>

NextWake(o) ==
    /\ pc[o] = "loop"
    /\ nextWake(o)
    /\ goto(o, "select")
    /\ UNCHANGED <<now, laneVars, streamVars, books>>

\* The select of acquire: granted (and released again when the context is done),
\* cancelled, notified, or the timer.
SelectReady(o) ==
    /\ pc[o] = "select" /\ o \in ready
    /\ IF o \in ctxDone
       THEN release(o) /\ goto(o, "ending")
       ELSE /\ goto(o, "claims")
            /\ timer' = [timer EXCEPT ![o] = NoTimer]
            /\ UNCHANGED <<held, nextID, waiters, ready, notify, submittedAt, availableAt, ctxDone>>
    /\ UNCHANGED <<now, laneVars, streamVars, books>>

SelectCancelled(o) ==
    /\ pc[o] = "select" /\ o \in ctxDone
    /\ release(o)
    /\ goto(o, "ending")
    /\ UNCHANGED <<now, laneVars, streamVars, books>>

SelectNotified(o) ==
    /\ pc[o] = "select"
    /\ notified(o)
    /\ goto(o, "loop")
    /\ UNCHANGED <<now, laneVars, streamVars, books>>

SelectTimer(o) ==
    /\ pc[o] = "select"
    /\ timerFires(o)
    /\ goto(o, "loop")
    /\ UNCHANGED <<now, laneVars, streamVars, books>>

\* The claims are granted and the running receipt is published.
ClaimsGranted(o) ==
    /\ pc[o] = "claims" /\ o \notin ctxDone
    /\ goto(o, "permit")
    /\ publish(o, "active")
    /\ UNCHANGED <<now, admissionVars, laneVars, books>>

\* admissionClaimTimeout passes, or the plan made under the claims asks for
\* others: the slot is given back before the operation starts over.
ClaimsRetry(o) ==
    /\ pc[o] = "claims" /\ o \notin ctxDone /\ Admitted(o)
    /\ takeTurn
    /\ release(o)
    /\ goto(o, "gate")
    /\ UNCHANGED <<now, laneVars, streamVars, behind, botLocked>>

\* MUTANT: the loop's check of the lane is trusted.
Permit_Unchecked(o) ==
    /\ pc[o] = "permit" /\ ~automationLocked(o)
    /\ goto(o, "queued")
    /\ UNCHANGED <<now, admissionVars, laneVars, streamVars, books>>

\* The gate before a step and the dispatch permit behind it: the lane is
\* checked once more, then the command is handed to the router.
Permit(o) ==
    /\ pc[o] = "permit" /\ laneOpen(o) /\ ~automationLocked(o)
    /\ goto(o, "queued")
    /\ UNCHANGED <<now, admissionVars, laneVars, streamVars, books>>

\* MUTANT: the slot is kept over the pause.
Yield_KeepsSlot(o) ==
    /\ pc[o] \in {"permit", "queued"} /\ automationLocked(o)
    /\ goto(o, "resuming")
    /\ UNCHANGED <<now, admissionVars, laneVars, streamVars, books>>

\* The gate before a step or before a resend, or the router's gate, finds the
\* bot locked: the attempt is given up.
Yield(o) ==
    /\ pc[o] \in {"permit", "queued"} /\ automationLocked(o)
    /\ goto(o, restarted(o))
    /\ UNCHANGED <<now, admissionVars, laneVars, streamVars, books>>

\* ErrPlanStale from the permit, the guard of a resend or the answer: the plan
\* is made again, or the operation fails when this was so maximumStaleReplans
\* times (any time may be the one too many).
Stale(o) ==
    /\ pc[o] \in {"permit", "response"}
    /\ \/ /\ takeTurn
          /\ goto(o, restarted(o))
       \/ goto(o, ended(o)) /\ UNCHANGED turns
    /\ UNCHANGED <<now, admissionVars, laneVars, streamVars, behind, botLocked>>

\* The router writes the command when its lane is open and sets the lane's
\* next opening.
Send(o) ==
    /\ pc[o] = "queued"
    /\ Admitted(o) => availableAt[Class(o)] <= now
    /\ ~automationLocked(o)
    /\ goto(o, "response")
    /\ availableAt' = [c \in Classes |->
                         IF c = Class(o) THEN Capped(now + PaceTicks) ELSE availableAt[c]]
    /\ behind' = IF laneOpen(o) THEN behind ELSE behind \cup {<<o, lock[Lane[o]].op>>}
    /\ UNCHANGED <<now, held, nextID, waiters, ready, notify, timer, submittedAt, ctxDone,
                   laneVars, streamVars, botLocked, turns>>

\* The answer: success, one of the codes the step retries, a failure that
\* closes no lane, or an unclassified rejection.
Succeeded(o) ==
    /\ pc[o] = "response"
    /\ goto(o, ended(o))
    /\ UNCHANGED <<now, admissionVars, laneVars, streamVars, books>>

\* The loop of retries: the gate and the guard once more, then another dispatch
\* of the same step.
Resend(o) ==
    /\ pc[o] = "response"
    /\ takeTurn
    /\ goto(o, "permit")
    /\ UNCHANGED <<now, admissionVars, laneVars, streamVars, behind, botLocked>>

\* A cancelled context, a planner, a gate, a guard or the router that refuses,
\* the lane's lock, a whitelisted code, or an answer that does not come.
Failed(o) ==
    /\ pc[o] \in {"claims", "permit", "queued", "response"}
    /\ goto(o, failure(o))
    /\ UNCHANGED <<now, admissionVars, laneVars, streamVars, books>>

Rejected(o) ==
    /\ pc[o] = "response"
    /\ guardRejection(o)
    /\ goto(o, failure(o))
    /\ UNCHANGED <<now, admissionVars, streamVars, books>>

\* engine.fail publishes the final receipt; the deferred releaseAdmission runs
\* afterwards.
Fail(o) ==
    /\ pc[o] = "aborting"
    /\ publish(o, "ended")
    /\ goto(o, "unwind")
    /\ UNCHANGED <<now, admissionVars, laneVars, books>>

\* A success, a pause, a replan and the last of the stale plans give the slot
\* back first and are published afterwards.
Release(o) ==
    /\ pc[o] \in {"unwind", "releasing", "restarting"}
    /\ release(o)
    /\ goto(o, CASE pc[o] = "unwind" -> "done"
                 [] pc[o] = "releasing" -> "ending"
                 [] pc[o] = "restarting" -> "resuming")
    /\ UNCHANGED <<now, laneVars, streamVars, books>>

\* The paused or the planning receipt, and back to the head of the loop.
Resume(o) ==
    /\ pc[o] = "resuming"
    /\ publish(o, "active")
    /\ goto(o, "gate")
    /\ UNCHANGED <<now, admissionVars, laneVars, books>>

\* The final receipt of an operation that has no slot (any more).
Complete(o) ==
    /\ pc[o] = "ending"
    /\ publish(o, "ended")
    /\ goto(o, "done")
    /\ UNCHANGED <<now, admissionVars, laneVars, books>>

-----------------------------------------------------------------------------
(* The environment                                                         *)

\* Engine.Cancel, or the application shutting down.
Cancel(o) ==
    /\ o \in Cancellable \ ctxDone
    /\ pc[o] \notin {"new", "done"}
    /\ ctxDone' = ctxDone \cup {o}
    /\ UNCHANGED <<now, held, nextID, waiters, ready, notify, timer, submittedAt, availableAt,
                   laneVars, streamVars, execVars>>

\* Session.SetAutomationLocked, or direct traffic of the player and its end.
BotLock ==
    /\ \/ ~botLocked /\ takeTurn
       \/ botLocked /\ UNCHANGED turns
    /\ botLocked' = ~botLocked
    /\ UNCHANGED <<now, admissionVars, laneVars, streamVars, pc, behind>>

TimePasses ==
    /\ Tick
    /\ UNCHANGED <<admissionVars, laneVars, streamVars, execVars>>

\* The coordinator, the persistence worker and a reviewer work on the locks.
Coordinate ==
    /\ \/ takeTurn /\ \E l \in Lanes : viewAutomation(l)
       \/ UNCHANGED turns /\ \E l \in Lanes : commitAutomation(l)
    /\ UNCHANGED <<now, admissionVars, streamVars, pc, behind, botLocked>>

LaneStep ==
    /\ flushState \/ \E l \in Lanes, o \in Ops : clearLock(l, o)
    /\ UNCHANGED <<now, admissionVars, streamVars, execVars>>

AwaitStep(a) ==
    /\ subscribe(a) \/ firstRead(a) \/ receive(a)
    /\ UNCHANGED <<now, admissionVars, laneVars, execVars>>

StreamStep ==
    /\ \/ \E a \in Awaiters : abandon(a)
       \/ \E a \in Awaiters : pc[Target[a]] = "done" /\ evict(Target[a])
    /\ UNCHANGED <<now, admissionVars, laneVars, execVars>>

\* The process dies and a new one starts: the locks come back from disk and the
\* bot lock from the settings, what was executing is recovered as ended, nobody
\* waits.
CrashRestart ==
    /\ takeTurn
    /\ held' = [c \in Classes |-> NoOp]
    /\ nextID' = 0 /\ waiters' = [o \in Ops |-> NoWaiter]
    /\ ready' = {} /\ notify' = {} /\ ctxDone' = {}
    /\ timer' = [o \in Ops |-> NoTimer]
    /\ availableAt' = [c \in Classes |-> 0]
    /\ restartLanes
    /\ pc' = [o \in Ops |-> IF pc[o] = "new" THEN "new" ELSE "done"]
    /\ status' = [o \in Ops |-> IF pc[o] = "new" THEN "none" ELSE "ended"]
    /\ evicted' = {}
    /\ await' = [a \in Awaiters |-> "idle"]
    /\ channel' = [a \in Awaiters |-> << >>]
    /\ UNCHANGED <<now, submittedAt, behind, botLocked>>

OpStep(o) ==
    \/ Gate(o) \/ Barred(o) \/ Acquire(o) \/ NextWake(o)
    \/ SelectReady(o) \/ SelectCancelled(o) \/ SelectNotified(o) \/ SelectTimer(o)
    \/ ClaimsGranted(o) \/ Permit(o) \/ Yield(o) \/ Stale(o) \/ Send(o)
    \/ Succeeded(o) \/ Failed(o) \/ Rejected(o)
    \/ Fail(o) \/ Release(o) \/ Resume(o) \/ Complete(o)

Next ==
    \/ \E o \in Ops : Submit(o) \/ OpStep(o) \/ ClaimsRetry(o) \/ Resend(o) \/ Cancel(o)
    \/ TimePasses \/ BotLock
    \/ Coordinate \/ LaneStep
    \/ \E a \in Awaiters : AwaitStep(a)
    \/ StreamStep
    \/ CrashRestart

\* Goroutines are scheduled, time passes, the game answers or the wait for the
\* answer times out.  Nobody is obliged to submit, cancel, review or unlock.
Fairness ==
    /\ \A o \in Ops : WF_vars(OpStep(o))
    /\ \A a \in Awaiters : WF_vars((firstRead(a) \/ receive(a))
                                   /\ UNCHANGED <<now, admissionVars, laneVars, execVars>>)
    /\ WF_vars(TimePasses)

Spec == Init /\ [][Next]_vars /\ Fairness
-----------------------------------------------------------------------------
(* Properties                                                              *)

\* The slot of a class belongs to exactly the operation that runs under it:
\* no cancellation, late grant or retry leaves a slot behind with a finished
\* operation (everybody else would wait forever), and none lets two
\* operations launch attacks at the same time.
SlotMatchesHolder ==
    \A o \in Ops : Admitted(o) =>
        /\ pc[o] \in Holding => held[Class(o)] = o
        /\ held[Class(o)] = o =>
             pc[o] \in Holding \/ (pc[o] \in {"loop", "select"} /\ o \in ready)

\* A waiter that sleeps with nothing to wake it.
Sleeps(o) ==
    /\ pc[o] = "select" /\ timer[o] = NoTimer
    /\ o \notin ready \cup notify \cup ctxDone

\* A waiter of a free class whose lane is still closed has a timer or a
\* notification coming: the manager's only other wake-ups are releases, and
\* there is nobody to release.
SleepersHaveAWaker ==
    \A o \in Ops : Sleeps(o) =>
        held[Class(o)] # NoOp \/ availableAt[Class(o)] <= now

\* The admission slot is neither leaked, shared nor slept on.
SlotsAreSound == SlotMatchesHolder /\ SleepersHaveAWaker

\* The case nextWakeLocked leaves open: the lane opened between dispatchLocked
\* and nextWakeLocked, so neither granted the slot nor set a timer.
Stranded(o) == Sleeps(o) /\ held[Class(o)] = NoOp

\* An operation at the gate of a locked bot.
KeptBack(o) == pc[o] = "barred" /\ automationLocked(o)

\* No command is written while its lane is closed by an operation of the same
\* admission class: the slot is kept until the rejection is recorded, so the
\* next operation's check sees the lock although the check precedes the queue.
NoSendBehindOwnClass ==
    \A p \in behind : Class(p[1]) = NoClass \/ Class(p[1]) # Class(p[2])

\* A rejection closes its lane for its whole duration: within its process
\* whether the lock was saved or not, and across a restart if it had reached
\* the disk, whatever the coordinator writes, a reviewer clears, a later save
\* leaves out and the disk refuses.
LockOutlivesRestart ==
    \A l \in Lanes :
        incident[l] # Never /\ now < incident[l] + LockTicks => Active(lock[l], now)

\* An Await in its loop never sleeps over the end of its operation: the final
\* receipt, or a gap that makes it read again, is in its channel.
AwaitMissesNothing ==
    \A a \in Awaiters :
        await[a] = "waiting" /\ Terminal(status[Target[a]]) =>
            \E i \in DOMAIN channel[a] :
                LET r == channel[a][i]
                IN (r.op = Target[a] /\ Terminal(r.status)) \/ (r.op # Target[a] /\ r.gap)

\* Every Await returns, although its operation or the one ahead of it is paused,
\* planned again or sent again: it gets its slot, its claims and its answer, and
\* the receipt of the end arrives.  Excepted are an operation that is itself
\* stranded for good or kept back by a bot that stays locked (one that waits
\* behind it is not), and an Await whose second read found nothing.
AwaitsReturn ==
    \A a \in Awaiters :
        \/ await[a] = "waiting" ~> await[a] # "waiting"
        \/ <>[]Stranded(Target[a])
        \/ <>[]KeptBack(Target[a])
=============================================================================
