------------------------ MODULE OutboundRouterProofs ------------------------
(***************************************************************************)
(* Proofs about OutboundRouter for any set of commands, lanes' delays,     *)
(* priorities and queue limit: what Send returns tells what the game can   *)
(* have received, and two sends of a lane keep its delay apart.            *)
(***************************************************************************)
EXTENDS OutboundRouter, TLAPS

-----------------------------------------------------------------------------
(* The inductive invariant. *)

\* The functions and the worker's variables have the shape the steps rely on.
\* The queue order (ticket, aged) and the flags play no part in the argument.
Shape ==
  /\ pc \in [Commands -> {"start", "select", "drain", "done"}]
  /\ outcome \in [Commands -> Verdicts \cup {"closed"}]
  /\ result \in [Commands -> Verdicts]
  /\ queue \subseteq Commands
  /\ inFlight \subseteq Commands
  /\ worker \in WorkerPhases
  /\ verdict \in Verdicts
  /\ taken \in [Commands -> {"no", "taken", "cancelled"}]

\* The phases of dispatch up to the physical write, and all of them.
BeforeWrite == {"check", "stamp", "transport", "write"}
Dispatching == BeforeWrite \cup {"record", "finish"}

\* The worker has a command exactly while it dispatches one, and starts each
\* dispatch without a verdict.
WorkerHasItsCommand ==
  /\ worker \in Dispatching => current \in Commands
  /\ worker \notin Dispatching => current = NoCommand /\ verdict = "none"

\* A Send call that has not enqueued its command is known to nobody.
StartIsUntouched ==
  \A c \in Commands : pc[c] = "start" =>
    /\ c \notin queue /\ c \notin inFlight /\ c # current
    /\ c \notin stamped /\ taken[c] = "no"

\* A command is queued, or dispatched, or taken: never two of them.
QueuedIsUntouched ==
  \A c \in queue : c # current /\ c \notin stamped /\ taken[c] = "no"

\* The settling loop has cancelled the command before it reads dispatchedAt.
CancelledIsDone ==
  \A c \in Commands : taken[c] = "cancelled" => c \in cmdDone

\* What the dispatch in progress has done to its command.
DispatchIsOrdered ==
  /\ written \subseteq stamped
  /\ worker \in BeforeWrite => verdict = "none" /\ current \notin written
  /\ worker \in {"transport", "write", "record"} => current \in stamped
  /\ verdict = "definitive" => worker = "finish" /\ current \notin written
  /\ verdict = "sent" => current \in written
  /\ verdict = "indeterminate" => current \in stamped

\* The command was not written and no later step can write it.
Dead(c) ==
  /\ pc[c] # "start" /\ c \notin queue /\ c \notin written
  /\ current = c => /\ worker # "write"
                    /\ worker \in BeforeWrite => ContextDone(c)

\* What a verdict claims about a command holds, in the result channel and in
\* what Send returned.
Truthful(c, v) ==
  /\ v = "definitive" => Dead(c)
  /\ v = "sent" => c \in written
  /\ v = "indeterminate" => c \in stamped

VerdictsAreTruthful ==
  \A c \in Commands : Truthful(c, result[c]) /\ Truthful(c, outcome[c])

IInv ==
  /\ Shape /\ WorkerHasItsCommand /\ StartIsUntouched /\ QueuedIsUntouched
  /\ CancelledIsDone /\ DispatchIsOrdered /\ VerdictsAreTruthful

\* Pacing: the lane of a command on its way to the wire is not cooling, and
\* a cooling lane is paced, or will be by the recordDispatch under way, or no
\* command is selected any more.
PaceInv ==
  /\ worker \in BeforeWrite => Lane(current) \notin cooling
  /\ \A lane \in cooling :
       \/ lane \in paced
       \/ closed
       \/ worker = "record" /\ current \in inFlight /\ lane = Lane(current)

-----------------------------------------------------------------------------
(* Every step preserves the invariant. *)

\* Steps of the clock, the contexts and the waiting worker: no command moves.
Quiet ==
  \/ UNCHANGED vars \/ nextClosed \/ wake \/ endRouter \/ Age
  \/ \E lane \in Lanes : DelayElapses(lane)
  \/ \E c \in Commands : CancelCaller(c) \/ DeadlinePasses(c)

LEMMA QuietStep ==
  ASSUME IInv, Quiet
  PROVE  IInv'
<1> USE CommandsAssumption DEF
      IInv, Shape, WorkerHasItsCommand, BeforeWrite, Dispatching,
      WorkerPhases, Verdicts, Quiet, vars, nextClosed, wake, endRouter, Age,
      DelayElapses, CancelCaller, DeadlinePasses, callerVars, queueVars,
      workerVars, paceVars, endVars
<1>1. Shape' /\ WorkerHasItsCommand'
  OBVIOUS
<1>2. StartIsUntouched' /\ QueuedIsUntouched' /\ CancelledIsDone'
  BY DEF StartIsUntouched, QueuedIsUntouched, CancelledIsDone
<1>3. DispatchIsOrdered'
  BY DEF DispatchIsOrdered
<1>4. VerdictsAreTruthful'
  BY DEF VerdictsAreTruthful, Truthful, Dead, ContextDone, DispatchIsOrdered,
     StartIsUntouched, QueuedIsUntouched
<1> QED  BY <1>1, <1>2, <1>3, <1>4

\* Send returns: a refusal concerns a command nobody has seen, a result was
\* truthful in the channel, and closedError claims nothing.
LEMMA ReturnStep ==
  ASSUME IInv, NEW k \in Commands,
         refuse(k) \/ receiveResult(k) \/ routerEnded(k)
  PROVE  IInv'
<1> USE CommandsAssumption DEF
      IInv, Shape, WorkerHasItsCommand, BeforeWrite, Dispatching,
      WorkerPhases, Verdicts, refuse, receiveResult, routerEnded, Return,
      callerVars, queueVars, workerVars, paceVars, endVars
<1>1. Shape' /\ WorkerHasItsCommand'
  OBVIOUS
<1>2. StartIsUntouched' /\ QueuedIsUntouched' /\ CancelledIsDone'
  BY DEF StartIsUntouched, QueuedIsUntouched, CancelledIsDone
<1>3. DispatchIsOrdered'
  BY DEF DispatchIsOrdered
<1>4. VerdictsAreTruthful'
  <2> USE DEF VerdictsAreTruthful, Truthful, Dead, ContextDone,
              DispatchIsOrdered, StartIsUntouched, QueuedIsUntouched
  <2>1. CASE refuse(k)
    BY <2>1
  <2>2. CASE receiveResult(k)
    BY <2>2
  <2>3. CASE routerEnded(k)
    BY <2>3
  <2> QED  BY <2>1, <2>2, <2>3
<1> QED  BY <1>1, <1>2, <1>3, <1>4

\* The worker moves its command to the wire; nobody else's command is touched.
\* A command that is dead has its context done, so transportCheck refuses it.
LEMMA DispatchStep ==
  ASSUME IInv, \/ check \/ stamp \/ transportCheck \/ writeFailed
         \/ writeRejected \/ recordDispatch
  PROVE  IInv'
<1> USE CommandsAssumption DEF
      IInv, Shape, WorkerHasItsCommand, BeforeWrite, Dispatching,
      WorkerPhases, Verdicts, check, stamp, transportCheck, writeFailed,
      writeRejected, recordDispatch, Step, callerVars, queueVars,
      workerVars, paceVars, endVars
<1>1. Shape' /\ WorkerHasItsCommand'
  OBVIOUS
<1>2. StartIsUntouched' /\ QueuedIsUntouched' /\ CancelledIsDone'
  BY DEF StartIsUntouched, QueuedIsUntouched, CancelledIsDone
<1>3. DispatchIsOrdered'
  BY DEF DispatchIsOrdered
<1>4. VerdictsAreTruthful'
  <2> USE DEF VerdictsAreTruthful, Truthful, Dead, ContextDone,
              DispatchIsOrdered, StartIsUntouched, QueuedIsUntouched
  <2>1. CASE check
    BY <2>1
  <2>2. CASE stamp
    BY <2>2
  <2>3. CASE transportCheck
    BY <2>3
  <2>4. CASE writeFailed
    BY <2>4
  <2>5. CASE writeRejected
    BY <2>5
  <2>6. CASE recordDispatch
    BY <2>6
  <2> QED  BY <2>1, <2>2, <2>3, <2>4, <2>5, <2>6
<1> QED  BY <1>1, <1>2, <1>3, <1>4

\* A command that is written is not dead: the worker is about to write it.
LEMMA WriteStep ==
  ASSUME IInv, writeOk
  PROVE  IInv'
<1> USE CommandsAssumption DEF
      IInv, Shape, WorkerHasItsCommand, BeforeWrite, Dispatching,
      WorkerPhases, Verdicts, writeOk, callerVars, queueVars, workerVars,
      paceVars, endVars
<1>1. Shape' /\ WorkerHasItsCommand'
  OBVIOUS
<1>2. StartIsUntouched' /\ QueuedIsUntouched' /\ CancelledIsDone'
  BY DEF StartIsUntouched, QueuedIsUntouched, CancelledIsDone
<1>3. DispatchIsOrdered'
  BY DEF DispatchIsOrdered
<1>4. VerdictsAreTruthful'
  BY DEF VerdictsAreTruthful, Truthful, Dead, ContextDone, DispatchIsOrdered,
     StartIsUntouched, QueuedIsUntouched
<1> QED  BY <1>1, <1>2, <1>3, <1>4

LEMMA FinishStep ==
  ASSUME IInv, finish
  PROVE  IInv'
<1> USE CommandsAssumption DEF
      IInv, Shape, WorkerHasItsCommand, BeforeWrite, Dispatching,
      WorkerPhases, Verdicts, finish, Completed, callerVars, queueVars,
      workerVars, paceVars, endVars
<1>1. Shape' /\ WorkerHasItsCommand'
  OBVIOUS
<1>2. StartIsUntouched' /\ QueuedIsUntouched' /\ CancelledIsDone'
  BY DEF StartIsUntouched, QueuedIsUntouched, CancelledIsDone
<1>3. DispatchIsOrdered'
  BY DEF DispatchIsOrdered
<1>4. VerdictsAreTruthful'
  BY DEF VerdictsAreTruthful, Truthful, Dead, ContextDone, DispatchIsOrdered,
     StartIsUntouched, QueuedIsUntouched
<1> QED  BY <1>1, <1>2, <1>3, <1>4

\* Reset and close take commands; the worker keeps the one it dispatches.
LEMMA TakeStep ==
  ASSUME IInv, Reset \/ closeWithError
  PROVE  IInv'
<1> USE DEF IInv, Shape, WorkerHasItsCommand, BeforeWrite, Dispatching
<1>1. /\ taken' = [c \in Commands |->
                     IF c \in queue \cup inFlight THEN "taken" ELSE taken[c]]
      /\ queue' = {} /\ inFlight' = {}
      /\ UNCHANGED <<pc, outcome, result, ctxDone, worker, current, verdict, stamped,
                     written, cmdDone>>
  BY DEF Reset, closeWithError, takeAllLocked, Requeued, callerVars
<1>2. Shape' /\ WorkerHasItsCommand'
  BY <1>1
<1>3. StartIsUntouched'
  BY <1>1 DEF StartIsUntouched
<1>4. QueuedIsUntouched' /\ CancelledIsDone'
  BY <1>1 DEF QueuedIsUntouched, CancelledIsDone
<1>5. DispatchIsOrdered'
  BY <1>1 DEF DispatchIsOrdered
<1>6. VerdictsAreTruthful'
  BY <1>1 DEF VerdictsAreTruthful, Truthful, Dead, ContextDone
<1> QED  BY <1>2, <1>3, <1>4, <1>5, <1>6

LEMMA SettleCancelStep ==
  ASSUME IInv, NEW k \in Commands, settleCancel(k)
  PROVE  IInv'
<1> USE CommandsAssumption DEF
      IInv, Shape, WorkerHasItsCommand, BeforeWrite, Dispatching,
      WorkerPhases, Verdicts, settleCancel, callerVars, queueVars,
      workerVars, paceVars, endVars
<1>1. Shape' /\ WorkerHasItsCommand'
  OBVIOUS
<1>2. StartIsUntouched' /\ QueuedIsUntouched' /\ CancelledIsDone'
  BY DEF StartIsUntouched, QueuedIsUntouched, CancelledIsDone
<1>3. DispatchIsOrdered'
  BY DEF DispatchIsOrdered
<1>4. VerdictsAreTruthful'
  BY DEF VerdictsAreTruthful, Truthful, Dead, ContextDone, DispatchIsOrdered,
     StartIsUntouched, QueuedIsUntouched
<1> QED  BY <1>1, <1>2, <1>3, <1>4

\* The settling loop reports by dispatchedAt: a command it sees unstamped is
\* cancelled, so the worker cannot write it any more.
LEMMA SettleCompleteStep ==
  ASSUME IInv, NEW k \in Commands, settleComplete(k)
  PROVE  IInv'
<1> USE CommandsAssumption DEF
      IInv, Shape, WorkerHasItsCommand, BeforeWrite, Dispatching,
      WorkerPhases, Verdicts, callerVars, queueVars, workerVars, paceVars
<1>1. PICK v \in {"indeterminate", "definitive"} :
        /\ result' = Completed(result, {k}, v)
        /\ v = "indeterminate" => k \in stamped
        /\ v = "definitive" => k \notin stamped \/ (current = k /\ worker = "transport")
  BY DEF settleComplete, DispatchIsOrdered
<1>2. /\ taken[k] = "cancelled" /\ taken' = [taken EXCEPT ![k] = "no"]
      /\ UNCHANGED <<pc, outcome, ctxDone, queueVars, workerVars, cmdDone>>
  BY DEF settleComplete
<1>3. Shape' /\ WorkerHasItsCommand'
  BY <1>1, <1>2 DEF Completed
<1>4. StartIsUntouched' /\ QueuedIsUntouched' /\ CancelledIsDone'
  BY <1>2 DEF StartIsUntouched, QueuedIsUntouched, CancelledIsDone
<1>5. DispatchIsOrdered'
  BY <1>2 DEF DispatchIsOrdered
<1>6. Truthful(k, v)
  BY <1>1, <1>2 DEF Truthful, Dead, ContextDone, DispatchIsOrdered, StartIsUntouched,
     QueuedIsUntouched, CancelledIsDone
<1>7. VerdictsAreTruthful'
  BY <1>1, <1>2, <1>6 DEF VerdictsAreTruthful, Truthful, Dead, ContextDone, Completed
<1> QED  BY <1>3, <1>4, <1>5, <1>7

\* A command enters the queue once, from its own Send call.
LEMMA EnqueueStep ==
  ASSUME IInv, NEW k \in Commands, enqueue(k)
  PROVE  IInv'
<1> USE CommandsAssumption DEF
      IInv, Shape, WorkerHasItsCommand, BeforeWrite, Dispatching,
      WorkerPhases, Verdicts, workerVars, paceVars
<1>1. /\ pc[k] = "start"
      /\ \/ Return(k, "definitive") /\ UNCHANGED queue
         \/ /\ pc' = [pc EXCEPT ![k] = "select"]
            /\ queue' = queue \cup {k}
            /\ UNCHANGED outcome
      /\ UNCHANGED <<result, ctxDone, workerVars, taken, cmdDone>>
  BY DEF enqueue
<1>2. Shape' /\ WorkerHasItsCommand'
  BY <1>1 DEF Return
<1>3. StartIsUntouched' /\ QueuedIsUntouched' /\ CancelledIsDone'
  BY <1>1 DEF Return, StartIsUntouched, QueuedIsUntouched, CancelledIsDone
<1>4. DispatchIsOrdered'
  BY <1>1 DEF DispatchIsOrdered
<1>5. VerdictsAreTruthful'
  <2> USE DEF VerdictsAreTruthful, Truthful, Dead, ContextDone, DispatchIsOrdered,
              StartIsUntouched
  <2>1. CASE Return(k, "definitive") /\ UNCHANGED queue
    BY <1>1, <2>1 DEF Return
  <2>2. CASE queue' = queue \cup {k} /\ UNCHANGED outcome
    BY <1>1, <2>2 DEF Return
  <2> QED  BY <1>1, <2>1, <2>2
<1> QED  BY <1>2, <1>3, <1>4, <1>5

\* A cancelled caller removes its command from the queue, where the worker
\* has not touched it, or goes on waiting for it.
LEMMA CallerCancelledStep ==
  ASSUME IInv, NEW k \in Commands, callerCancelled(k)
  PROVE  IInv'
<1> USE CommandsAssumption DEF
      IInv, Shape, WorkerHasItsCommand, BeforeWrite, Dispatching,
      WorkerPhases, Verdicts, queueVars, workerVars, paceVars
<1>1. /\ pc[k] = "select"
      /\ \/ k \in queue /\ Return(k, "definitive") /\ queue' = queue \ {k}
         \/ pc' = [pc EXCEPT ![k] = "drain"] /\ UNCHANGED <<outcome, queue>>
      /\ cmdDone \subseteq cmdDone'
      /\ UNCHANGED <<result, ctxDone, workerVars, taken>>
  BY DEF callerCancelled, Requeued
<1>2. Shape' /\ WorkerHasItsCommand'
  BY <1>1 DEF Return
<1>3. StartIsUntouched' /\ QueuedIsUntouched' /\ CancelledIsDone'
  BY <1>1 DEF Return, StartIsUntouched, QueuedIsUntouched, CancelledIsDone
<1>4. DispatchIsOrdered'
  BY <1>1 DEF DispatchIsOrdered
<1>5. VerdictsAreTruthful'
  <2> USE DEF VerdictsAreTruthful, Truthful, Dead, ContextDone, DispatchIsOrdered,
              QueuedIsUntouched
  <2>1. CASE k \in queue /\ Return(k, "definitive") /\ queue' = queue \ {k}
    BY <1>1, <2>1 DEF Return
  <2>2. CASE pc' = [pc EXCEPT ![k] = "drain"] /\ UNCHANGED <<outcome, queue>>
    BY <1>1, <2>2
  <2> QED  BY <1>1, <2>1, <2>2
<1> QED  BY <1>2, <1>3, <1>4, <1>5

\* next() reports the expired commands and takes another one to dispatch.
LEMMA NextStep ==
  ASSUME IInv, next
  PROVE  IInv'
<1> USE CommandsAssumption DEF
      IInv, Shape, WorkerHasItsCommand, BeforeWrite, Dispatching,
      WorkerPhases, Verdicts, paceVars
<1> DEFINE E == Expired
<1>1. /\ E \subseteq queue
      /\ result' = Completed(result, E, "definitive")
      /\ cmdDone' = cmdDone \cup E
  BY DEF next, Expired
<1>2. /\ queue' \subseteq queue \ E
      /\ \/ \E c \in (queue \ E) \ queue' :
               inFlight' = inFlight \cup {c} /\ current' = c /\ worker' = "check"
         \/ /\ worker' \in {"await notify", "await timer"}
            /\ UNCHANGED <<inFlight, current>>
  <2>1. CASE Selectable # {}
    <3>1. PICK c \in Selectable :
            /\ queue' = (queue \ E) \ {c}
            /\ inFlight' = inFlight \cup {c} /\ current' = c /\ worker' = "check"
      BY <2>1 DEF next, Requeued
    <3>2. c \in queue \ E
      BY DEF Selectable
    <3> QED  BY <3>1, <3>2
  <2>2. CASE Selectable = {}
    <3>1. Requeued(queue \ E) /\ UNCHANGED <<inFlight, current>>
      BY <2>2 DEF next
    <3>2. worker' \in {"await notify", "await timer"}
      BY <2>2 DEF next
    <3> QED  BY <3>1, <3>2 DEF Requeued
  <2> QED  BY <2>1, <2>2
<1> HIDE DEF E
<1>3. /\ worker = "next"
      /\ UNCHANGED <<pc, outcome, ctxDone, verdict, stamped, written, taken>>
  BY DEF next
<1>4. Shape' /\ WorkerHasItsCommand'
  BY <1>1, <1>2, <1>3 DEF Completed
<1>5. StartIsUntouched' /\ QueuedIsUntouched' /\ CancelledIsDone'
  <2>1. StartIsUntouched'
    BY <1>2, <1>3 DEF StartIsUntouched
  <2>2. QueuedIsUntouched'
    BY <1>2, <1>3 DEF QueuedIsUntouched
  <2>3. CancelledIsDone'
    BY <1>1, <1>3 DEF CancelledIsDone
  <2> QED  BY <2>1, <2>2, <2>3
<1>6. DispatchIsOrdered'
  BY <1>2, <1>3 DEF DispatchIsOrdered, QueuedIsUntouched
<1>7. VerdictsAreTruthful'
  <2> SUFFICES ASSUME NEW c \in Commands
               PROVE  Truthful(c, result[c])' /\ Truthful(c, outcome[c])'
    BY DEF VerdictsAreTruthful
  <2>1. ASSUME Dead(c)  PROVE Dead(c)'
    BY <1>1, <1>2, <1>3, <2>1 DEF Dead, ContextDone
  <2>2. ASSUME c \in E  PROVE Dead(c)'
    BY <1>1, <1>2, <1>3, <2>2 DEF Dead, DispatchIsOrdered, StartIsUntouched, QueuedIsUntouched
  <2>3. \/ result'[c] = result[c]
        \/ result'[c] = "definitive" /\ c \in E
    BY <1>1 DEF Completed
  <2> QED
    BY <1>3, <2>1, <2>2, <2>3 DEF VerdictsAreTruthful, Truthful
<1> QED  BY <1>4, <1>5, <1>6, <1>7

LEMMA InvInit == Init => IInv
  BY CommandsAssumption DEF Init, IInv, Shape, WorkerHasItsCommand, StartIsUntouched,
     QueuedIsUntouched, CancelledIsDone, DispatchIsOrdered, VerdictsAreTruthful, Truthful,
     BeforeWrite, Dispatching, WorkerPhases, Verdicts

LEMMA InvStep == IInv /\ [Next]_vars => IInv'
<1> SUFFICES ASSUME IInv, [Next]_vars  PROVE IInv'
  OBVIOUS
<1>1. ASSUME NEW c \in Commands, Caller(c)  PROVE IInv'
  BY <1>1, ReturnStep, EnqueueStep, CallerCancelledStep DEF Caller
<1>2. ASSUME NEW c \in Commands, Settle(c)  PROVE IInv'
  BY <1>2, SettleCancelStep, SettleCompleteStep DEF Settle
<1>3. CASE Worker
  BY <1>3, QuietStep, DispatchStep, WriteStep, FinishStep, NextStep
     DEF Worker, Quiet
<1>4. CASE Reset \/ closeWithError
  BY <1>4, TakeStep
<1>5. CASE Quiet
  BY <1>5, QuietStep
<1> QED  BY <1>1, <1>2, <1>3, <1>4, <1>5 DEF Next, Quiet

-----------------------------------------------------------------------------
(* What Send returns. *)

\* OutcomeTellsTheWire holds for any commands, lanes and limits: the error the
\* engine compensates on (completeQueuedCommand with a definitive error, a
\* refusal, a removed command) is only returned for a command that is not on
\* the wire and cannot get there, and success only for a written one.
THEOREM OutcomeIsTruthful == Spec => []OutcomeTellsTheWire
<1>1. IInv => OutcomeTellsTheWire
  BY DEF IInv, OutcomeTellsTheWire, VerdictsAreTruthful, Truthful, Dead
<1> QED  BY <1>1, InvInit, InvStep, PTL DEF Spec

-----------------------------------------------------------------------------
(* Pacing. *)

LEMMA PaceStep ==
  ASSUME IInv, PaceInv, [Next]_vars
  PROVE  PaceInv'
<1> USE DEF PaceInv, BeforeWrite
<1>1. CASE UNCHANGED <<worker, current, inFlight, cooling, paced, closed>>
  BY <1>1
<1>2. CASE next
  <2>1. worker = "next" /\ ~closed /\ UNCHANGED <<cooling, paced, closed>>
    BY <1>2 DEF next, paceVars
  <2>2. \/ worker' = "check" /\ \E c \in Selectable : current' = c
        \/ worker' \in {"await notify", "await timer"}
    BY <1>2 DEF next
  <2>3. \A c \in Selectable : Lane(c) \notin paced \/ Lane(c) \notin cooling
    BY DEF Selectable, LaneWaits
  <2> QED  BY <2>1, <2>2, <2>3
<1>3. CASE nextClosed \/ wake
  <2>1. worker \notin BeforeWrite \cup {"record"} /\ worker' \in {"next", "stopped"}
    BY <1>3 DEF nextClosed, wake
  <2>2. UNCHANGED <<cooling, paced, closed>>
    BY <1>3 DEF nextClosed, wake, paceVars, endVars
  <2> QED  BY <2>1, <2>2
<1>4. CASE check \/ stamp \/ transportCheck \/ writeFailed \/ writeRejected
  BY <1>4 DEF check, stamp, transportCheck, writeFailed, writeRejected, Step, paceVars,
     endVars
<1>5. CASE writeOk
  BY <1>5 DEF writeOk, endVars
<1>6. CASE recordDispatch
  BY <1>6 DEF recordDispatch, endVars
<1>7. CASE finish
  BY <1>7 DEF finish, paceVars
<1>8. CASE Reset
  BY <1>8 DEF Reset
<1>9. CASE closeWithError
  BY <1>9 DEF closeWithError, paceVars
<1>10. CASE \E lane \in Lanes : DelayElapses(lane)
  BY <1>10 DEF DelayElapses, workerVars, endVars
<1>11. CASE \/ UNCHANGED vars \/ endRouter \/ Age
            \/ \E c \in Commands : Caller(c) \/ CancelCaller(c) \/ Settle(c)
                                             \/ DeadlinePasses(c)
  <2>1. UNCHANGED <<workerVars, paceVars, closed>>
    BY <1>11 DEF endRouter, Age, Caller, CancelCaller, Settle, DeadlinePasses, refuse,
       enqueue, receiveResult, callerCancelled, routerEnded, settleCancel, settleComplete,
       vars, endVars
  <2> QED  BY <2>1, <1>1 DEF workerVars, paceVars
<1> QED
  BY <1>2, <1>3, <1>4, <1>5, <1>6, <1>7, <1>8, <1>9, <1>10, <1>11 DEF Next, Worker

\* PacedSends holds for any commands and any lanes with a delay: selection
\* (nextAllowed in next) and the update after the write (recordDispatch) are
\* separate critical sections, and neither a Reset nor a close between them
\* lets a second send of the lane through before the delay is over.
THEOREM SendsArePaced == Spec => PacedSends
<1>1. Init => PaceInv
  BY DEF Init, PaceInv, BeforeWrite
<1>2. PaceInv => (writeOk => Lane(current) \notin cooling)
  BY DEF PaceInv, BeforeWrite, writeOk
<1> QED  BY <1>1, <1>2, PaceStep, InvInit, InvStep, PTL DEF Spec, PacedSends
=============================================================================
