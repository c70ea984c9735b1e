------------------------------ MODULE Handover ------------------------------
(***************************************************************************)
(* Server/Accounts: moving one hosted account between worker cells with    *)
(* the settings-only switch (HandoverFence.go, LocalProfileSwitch.go,      *)
(* ControlFence.go, the parts of Orchestrator.go and Supervisor.go they    *)
(* use).  Every cell keeps three journals, each a file replaced by rename  *)
(* and then fsynced with its directory: the source fence, the binding of   *)
(* the local profile, and the controller epoch.  The memory copy is set    *)
(* first and stays when the write fails.                                   *)
(*                                                                         *)
(* The controller that commits placements is a service outside the         *)
(* repository.  It is modelled from Docs/BetaWorkerHandover.md and from    *)
(* the requests the cells accept: it stops the source, reserves the        *)
(* destination, commits the next placement epoch, activates, reconciles.   *)
(* Every request it has ever had reason to send may reach a cell at any    *)
(* time, again or never, from any controller that ever held the lead;      *)
(* every response may be lost.                                             *)
(***************************************************************************)
EXTENDS Naturals, FiniteSets, Sequences

CONSTANTS
  Cells,       \* worker cells
  NoCell,      \* none of them
  MaxEpoch,    \* bound on placement epochs
  MaxControl,  \* bound on controller epochs
  MaxFaults    \* bound on crashes, failed writes, lost responses, late stop
               \* requests and safety locks together

ASSUME CellsAssumption ==
  /\ NoCell \notin Cells /\ IsFiniteSet(Cells)
  /\ MaxEpoch \in Nat \ {0} /\ MaxControl \in Nat \ {0} /\ MaxFaults \in Nat

VARIABLES
  owner,     \* controller: owner[e] is the cell placement epoch e was given to
  phase,     \* controller: how far the departure of the last epoch is
  dest,      \* controller: the destination of that departure
  control,   \* controller: the epoch of the controller that holds the lead
  fence, fenceDisk,      \* per cell: the source fence; the contents a crash may leave
  binding, bindingDisk,  \* per cell: the local profile binding; likewise
  ctl, ctlDisk,          \* per cell: the controller high-water mark; likewise
  revision,  \* per cell: the desired revision last accepted (memory only)
  assigned,  \* per cell: the placement epoch in orchestrator.runtimes, 0 if none
  app,       \* per cell: the runtime in supervisor.accounts or .stopping
  last,      \* the cell and the placement epoch of the last runtime started
  busy,      \* per cell: the stop request that holds the control lock, 0 if none
  draining,  \* per cell: a drain goroutine of Reconcile has not run yet
  lock,      \* per cell: an automation of the local profile has an active safety lock
  obeyed,    \* per cell: the controller epoch of the last command carried out
  faults     \* how many of the bounded faults have happened

controller == <<owner, phase, dest, control>>
journals == <<fence, fenceDisk, binding, bindingDisk>>
fences == <<ctl, ctlDisk, obeyed>>
runtime == <<revision, assigned, app, last, draining>>
vars == <<controller, journals, fences, runtime, busy, lock, faults>>

Epochs == 1..MaxEpoch
NoFence == [epoch |-> 0, stopped |-> FALSE]
NoBinding == [epoch |-> 0, active |-> FALSE]
Fences == [epoch : 0..MaxEpoch, stopped : BOOLEAN]
Bindings == [epoch : 0..MaxEpoch, active : BOOLEAN]

TypeOK ==
  /\ owner \in Seq(Cells) /\ Len(owner) \in Epochs
  /\ phase \in {"placed", "stopping", "stopped", "prepared"}
  /\ dest \in Cells \cup {NoCell}
  /\ control \in 1..MaxControl
  /\ fence \in [Cells -> Fences] /\ fenceDisk \in [Cells -> SUBSET Fences]
  /\ binding \in [Cells -> Bindings] /\ bindingDisk \in [Cells -> SUBSET Bindings]
  /\ ctl \in [Cells -> 0..MaxControl] /\ ctlDisk \in [Cells -> SUBSET (0..MaxControl)]
  /\ obeyed \in [Cells -> 0..MaxControl]
  /\ revision \in [Cells -> 0..MaxEpoch]
  /\ assigned \in [Cells -> 0..MaxEpoch]
  /\ app \in [Cells -> {"none", "running", "stopping"}]
  /\ last \in [epoch : 0..MaxEpoch, cell : Cells \cup {NoCell}]
  /\ busy \in [Cells -> 0..MaxEpoch]
  /\ draining \in [Cells -> BOOLEAN]
  /\ lock \in [Cells -> BOOLEAN]
  /\ faults \in 0..MaxFaults

Init ==
  /\ \E c \in Cells : owner = <<c>>
  /\ phase = "placed" /\ dest = NoCell /\ control = 1
  /\ fence = [c \in Cells |-> NoFence] /\ fenceDisk = [c \in Cells |-> {NoFence}]
  /\ binding = [c \in Cells |-> NoBinding] /\ bindingDisk = [c \in Cells |-> {NoBinding}]
  /\ ctl = [c \in Cells |-> 0] /\ ctlDisk = [c \in Cells |-> {0}]
  /\ obeyed = [c \in Cells |-> 0]
  /\ revision = [c \in Cells |-> 0]
  /\ assigned = [c \in Cells |-> 0]
  /\ app = [c \in Cells |-> "none"]
  /\ last = [epoch |-> 0, cell |-> NoCell]
  /\ busy = [c \in Cells |-> 0]
  /\ draining = [c \in Cells |-> FALSE]
  /\ lock = [c \in Cells |-> FALSE]
  /\ faults = 0

-----------------------------------------------------------------------------
(* The controller and the requests it may have under way. *)

Placed == Len(owner)

\* The departure of epoch e has been asked for; its source has acknowledged
\* the stop; its destination; and the next epoch has been committed.
Departing(e) == e \in 1..Placed /\ (e < Placed \/ phase # "placed")
Stopped(e) == e \in 1..Placed /\ (e < Placed \/ phase \in {"stopped", "prepared"})
Target(e) == IF e < Placed THEN owner[e + 1] ELSE dest
Committed(e) == e \in 1..Placed - 1

Depart(c) ==
  /\ phase = "placed" /\ Placed < MaxEpoch /\ c # owner[Placed]
  /\ phase' = "stopping" /\ dest' = c
  /\ UNCHANGED <<owner, control, journals, fences, runtime, busy, lock, faults>>

Commit ==
  /\ phase = "prepared"
  /\ owner' = Append(owner, dest) /\ phase' = "placed" /\ dest' = NoCell
  /\ UNCHANGED <<control, journals, fences, runtime, busy, lock, faults>>

Takeover ==
  /\ control < MaxControl
  /\ control' = control + 1
  /\ UNCHANGED <<owner, phase, dest, journals, fences, runtime, busy, lock, faults>>

\* n of the bounded faults happen.
Faults(n) == faults + n <= MaxFaults /\ faults' = faults + n

\* The response to the request that moves the departure of e on either
\* reaches the controller or is lost.
Answer(e, from, to) ==
  /\ IF e = Placed /\ phase = from
     THEN \/ phase' = to /\ Faults(0)
          \/ phase' = phase /\ Faults(1)
     ELSE phase' = phase /\ Faults(0)
  /\ UNCHANGED <<owner, dest, control>>

-----------------------------------------------------------------------------
(* The journals. *)

\* A write that fails leaves the old file, or the new one without the
\* directory entry being durable: a crash may then leave either.
FailedWrite(disk, new) == {disk, disk \cup {new}}

\* The journal is not rewritten for a fence the memory already holds.
saveSourceFence_Cached(c, f) ==
  /\ fence' = [fence EXCEPT ![c] = f]
  /\ fenceDisk' = IF fence[c] = f THEN fenceDisk ELSE [fenceDisk EXCEPT ![c] = {f}]
  /\ UNCHANGED <<binding, bindingDisk>>

saveSourceFence(c, f) ==
  /\ fence' = [fence EXCEPT ![c] = f]
  /\ fenceDisk' = [fenceDisk EXCEPT ![c] = {f}]
  /\ UNCHANGED <<binding, bindingDisk>>

saveSourceFenceFails(c, f) ==
  /\ fence' = [fence EXCEPT ![c] = f]
  /\ \E d \in FailedWrite(fenceDisk[c], f) : fenceDisk' = [fenceDisk EXCEPT ![c] = d]
  /\ UNCHANGED <<binding, bindingDisk>>

saveLocalProfileBinding(c, b) ==
  /\ binding' = [binding EXCEPT ![c] = b]
  /\ bindingDisk' = [bindingDisk EXCEPT ![c] = {b}]
  /\ UNCHANGED <<fence, fenceDisk>>

saveLocalProfileBindingFails(c, b) ==
  /\ binding' = [binding EXCEPT ![c] = b]
  /\ \E d \in FailedWrite(bindingDisk[c], b) : bindingDisk' = [bindingDisk EXCEPT ![c] = d]
  /\ UNCHANGED <<fence, fenceDisk>>

\* The journal is not rewritten for an epoch the memory already holds.
withControlFence_Cached(c, k) ==
  /\ busy[c] = 0
  /\ k >= ctl[c]
  /\ ctl' = [ctl EXCEPT ![c] = k]
  /\ ctlDisk' = IF k > ctl[c] THEN [ctlDisk EXCEPT ![c] = {k}] ELSE ctlDisk
  /\ obeyed' = [obeyed EXCEPT ![c] = k]

\* The mark that is kept is the first epoch to accept.
withControlFence_OffByOne(c, k) ==
  /\ busy[c] = 0
  /\ k >= ctl[c]
  /\ ctl' = [ctl EXCEPT ![c] = k + 1]
  /\ ctlDisk' = [ctlDisk EXCEPT ![c] = {k + 1}]
  /\ obeyed' = [obeyed EXCEPT ![c] = k]

\* withControlFence: the request holds the cell's control lock, is not older
\* than the high-water mark, and has written its own epoch before its handler
\* runs.  Epoch 0 stands for a legacy request without the header.
withControlFence(c, k) ==
  /\ busy[c] = 0
  /\ k >= ctl[c]
  /\ ctl' = [ctl EXCEPT ![c] = k]
  /\ ctlDisk' = IF k > 0 THEN [ctlDisk EXCEPT ![c] = {k}] ELSE ctlDisk
  /\ obeyed' = [obeyed EXCEPT ![c] = k]

ControlFenceFails(c, k) ==
  /\ busy[c] = 0
  /\ k > 0 /\ k >= ctl[c]
  /\ Faults(1)
  /\ ctl' = [ctl EXCEPT ![c] = k]
  /\ \E d \in FailedWrite(ctlDisk[c], k) : ctlDisk' = [ctlDisk EXCEPT ![c] = d]
  /\ UNCHANGED <<controller, journals, obeyed, runtime, busy, lock>>

\* POST control-fence, and every request whose handler refuses it: only the
\* high-water mark moves.
ClaimControl(c, k) ==
  /\ withControlFence(c, k)
  /\ UNCHANGED <<controller, journals, runtime, busy, lock, faults>>

-----------------------------------------------------------------------------
(* Ownership on a cell. *)

\* The bound generation is active and has not departed since.
activeLocalProfile(c) == binding[c].active /\ fence[c].epoch < binding[c].epoch

runtimeHandoverFenced(c) ==
  IF binding[c].epoch > 0 THEN ~activeLocalProfile(c) ELSE fence[c].epoch > 0

\* The assignment may name any epoch of the bound account.
validateLocalAssignment_AnyEpoch(c, e) == binding[c].epoch > 0 => activeLocalProfile(c)

validateLocalAssignment(c, e) ==
  binding[c].epoch > 0 => activeLocalProfile(c) /\ binding[c].epoch = e

\* RemoveAccount, as far as it goes before it waits for the application.
RemoveAccount(c) == IF app[c] = "running" THEN [app EXCEPT ![c] = "stopping"] ELSE app

-----------------------------------------------------------------------------
(* prepareSourceHandover: stop the source. *)

\* The fence a stop of epoch e publishes, and whether the cell lets it: the
\* same departure again, or the first one of the generation that runs here.
stopFence(c, e) == [epoch |-> e, stopped |-> fence[c].epoch = e /\ fence[c].stopped]

mayStop(c, e) ==
  /\ activeLocalProfile(c) => binding[c].epoch = e
  /\ \/ fence[c].epoch = e
     \/ /\ fence[c].epoch = 0 \/ activeLocalProfile(c)
        /\ assigned[c] = e /\ app[c] = "running" /\ ~lock[c]

PrepareSourceHandover(c, e, k) ==
  /\ Departing(e) /\ c = owner[e]
  /\ withControlFence(c, k) /\ mayStop(c, e)
  /\ \/ /\ saveSourceFence(c, stopFence(c, e))
        /\ app' = RemoveAccount(c)
        /\ busy' = [busy EXCEPT ![c] = e]
        /\ Faults(IF e = Placed /\ phase = "stopping" THEN 0 ELSE 1)
     \/ /\ saveSourceFenceFails(c, stopFence(c, e))
        /\ UNCHANGED <<app, busy>>
        /\ Faults(1)
  /\ UNCHANGED <<controller, revision, assigned, last, draining, lock>>

\* The stop is acknowledged while the runtime is still stopping.
StopVerified_Early(c) ==
  /\ busy[c] > 0 /\ ~lock[c]
  /\ LET f == [epoch |-> busy[c], stopped |-> TRUE]
     IN saveSourceFence(c, f) /\ Answer(busy[c], "stopping", "stopped")
  /\ busy' = [busy EXCEPT ![c] = 0]
  /\ UNCHANGED <<fences, runtime, lock>>

\* The flushed safety lock is not looked at.
StopVerified_Unlocked(c) ==
  /\ busy[c] > 0 /\ app[c] = "none"
  /\ LET f == [epoch |-> busy[c], stopped |-> TRUE]
     IN saveSourceFence(c, f) /\ Answer(busy[c], "stopping", "stopped")
  /\ busy' = [busy EXCEPT ![c] = 0]
  /\ UNCHANGED <<fences, runtime, lock>>

\* The profile directory is released and no flushed lock is active: the stop
\* is recorded and acknowledged.
StopVerified(c) ==
  /\ busy[c] > 0 /\ app[c] = "none" /\ ~lock[c]
  /\ LET f == [epoch |-> busy[c], stopped |-> TRUE]
     IN \/ saveSourceFence(c, f) /\ Answer(busy[c], "stopping", "stopped")
        \/ saveSourceFenceFails(c, f) /\ UNCHANGED controller /\ Faults(1)
  /\ busy' = [busy EXCEPT ![c] = 0]
  /\ UNCHANGED <<fences, runtime, lock>>

\* The caller's deadline ends while the runtime is still stopping, or the
\* flushed state shows a lock: an error, and the fence stays.
StopRefused(c) ==
  /\ busy[c] > 0 /\ (app[c] = "stopping" \/ lock[c])
  /\ busy' = [busy EXCEPT ![c] = 0]
  /\ UNCHANGED <<controller, journals, fences, runtime, lock, faults>>

-----------------------------------------------------------------------------
(* PrepareLocalProfile and ActivateLocalProfile: the destination. *)

\* A reservation is given once: a retry of the request is refused.
mayReserve_Once(c, e) ==
  /\ binding[c].epoch > 0 =>
       /\ binding[c].epoch < e /\ binding[c].active
       /\ fence[c].stopped /\ fence[c].epoch >= binding[c].epoch
  /\ app[c] = "none"
  /\ fence[c].epoch > 0 => fence[c].stopped /\ fence[c].epoch < e

\* The reservation of an earlier request, or a new one after everything this
\* cell ever ran of the account has stopped.
mayReserve(c, e) ==
  \/ binding[c].epoch = e + 1 /\ ~binding[c].active
  \/ /\ binding[c].epoch > 0 =>
          /\ binding[c].epoch < e /\ binding[c].active
          /\ fence[c].stopped /\ fence[c].epoch >= binding[c].epoch
     /\ app[c] = "none"
     /\ fence[c].epoch > 0 => fence[c].stopped /\ fence[c].epoch < e

PrepareLocalProfile(c, e, k) ==
  /\ Stopped(e) /\ c = Target(e)
  /\ withControlFence(c, k) /\ mayReserve(c, e)
  /\ LET b == [epoch |-> e + 1, active |-> FALSE]
     IN \/ saveLocalProfileBinding(c, b) /\ Answer(e, "stopped", "prepared")
        \/ saveLocalProfileBindingFails(c, b) /\ UNCHANGED controller /\ Faults(1)
  /\ UNCHANGED <<runtime, busy, lock>>

ActivateLocalProfile(c, e, k) ==
  /\ Committed(e) /\ c = owner[e + 1]
  /\ withControlFence(c, k)
  /\ binding[c].epoch = e + 1 /\ fence[c].epoch < e + 1
  /\ LET b == [epoch |-> e + 1, active |-> TRUE]
     IN \/ saveLocalProfileBinding(c, b) /\ Faults(0)
        \/ saveLocalProfileBindingFails(c, b) /\ Faults(1)
  /\ UNCHANGED <<controller, runtime, busy, lock>>

-----------------------------------------------------------------------------
(* Reconcile at desired revision e: the cells' assignments as of placement   *)
(* epoch e.  During a departure the account may be named in preserveRuntimes *)
(* instead.  Revision e stands for all the desired revisions the controller  *)
(* used while e was its last placement, taken as fresh in any order.         *)

Desired(c, e) == IF owner[e] = c THEN e ELSE 0

Accept(c, e, a) ==
  /\ revision' = [revision EXCEPT ![c] = e]
  /\ assigned' = [assigned EXCEPT ![c] = a]

\* A new assignment is given a runtime (AddAccount, refused while the account
\* still runs or stops here); one that is known already keeps what there is.
ReconcileAssigned(c, e, k) ==
  /\ e \in 1..Placed /\ Desired(c, e) = e
  /\ withControlFence(c, k)
  /\ e >= revision[c]
  /\ validateLocalAssignment(c, e) /\ ~runtimeHandoverFenced(c)
  /\ assigned[c] <= e
  /\ \/ assigned[c] > 0 /\ UNCHANGED <<app, last>>
     \/ /\ assigned[c] = 0 /\ app[c] = "none"
        /\ app' = [app EXCEPT ![c] = "running"]
        /\ last' = [epoch |-> e, cell |-> c]
  /\ Accept(c, e, e)
  /\ UNCHANGED <<controller, journals, draining, busy, lock, faults>>

ReconcileRemoved(c, e, k) ==
  /\ e \in 1..Placed /\ Desired(c, e) = 0
  /\ withControlFence(c, k)
  /\ e >= revision[c]
  /\ Accept(c, e, 0)
  /\ draining' = [draining EXCEPT ![c] = @ \/ assigned[c] > 0]
  /\ UNCHANGED <<controller, journals, app, last, busy, lock, faults>>

ReconcilePreserved(c, e, k) ==
  /\ Departing(e)
  /\ withControlFence(c, k)
  /\ e >= revision[c]
  /\ Accept(c, e, assigned[c])
  /\ UNCHANGED <<controller, journals, app, last, draining, busy, lock, faults>>

\* The goroutine drainRuntime starts: RemoveAccount of whatever runs here now.
Drain(c) ==
  /\ draining[c]
  /\ draining' = [draining EXCEPT ![c] = FALSE]
  /\ app' = RemoveAccount(c)
  /\ UNCHANGED <<controller, journals, fences, revision, assigned, last, busy, lock, faults>>

\* releaseStoppedAccount: the application has finished and its profile
\* directory is free.
releaseStoppedAccount(c) ==
  /\ app[c] = "stopping"
  /\ app' = [app EXCEPT ![c] = "none"]
  /\ UNCHANGED <<controller, journals, fences, revision, assigned, last, draining, busy, lock, faults>>

-----------------------------------------------------------------------------
(* The environment of a cell. *)

\* A rejection of the game locks an automation lane; a response still in
\* flight can do so while the runtime stops.
SafetyLock(c) ==
  /\ app[c] # "none" /\ ~lock[c]
  /\ Faults(1)
  /\ lock' = [lock EXCEPT ![c] = TRUE]
  /\ UNCHANGED <<controller, journals, fences, runtime, busy>>

LockExpires(c) ==
  /\ lock[c]
  /\ lock' = [lock EXCEPT ![c] = FALSE]
  /\ UNCHANGED <<controller, journals, fences, runtime, busy, faults>>

\* The process of a cell dies and starts again from its journals.
CrashRestart(c) ==
  /\ Faults(1)
  /\ \E f \in fenceDisk[c], b \in bindingDisk[c], k \in ctlDisk[c] :
       /\ fence' = [fence EXCEPT ![c] = f] /\ fenceDisk' = [fenceDisk EXCEPT ![c] = {f}]
       /\ binding' = [binding EXCEPT ![c] = b] /\ bindingDisk' = [bindingDisk EXCEPT ![c] = {b}]
       /\ ctl' = [ctl EXCEPT ![c] = k] /\ ctlDisk' = [ctlDisk EXCEPT ![c] = {k}]
  /\ revision' = [revision EXCEPT ![c] = 0]
  /\ assigned' = [assigned EXCEPT ![c] = 0]
  /\ app' = [app EXCEPT ![c] = "none"]
  /\ draining' = [draining EXCEPT ![c] = FALSE]
  /\ busy' = [busy EXCEPT ![c] = 0]
  /\ UNCHANGED <<controller, obeyed, last, lock>>

-----------------------------------------------------------------------------

\* A handover request carries a controller epoch; other requests may be
\* legacy ones without it.
Request(c, e, k) ==
  \/ PrepareSourceHandover(c, e, k)
  \/ PrepareLocalProfile(c, e, k)
  \/ ActivateLocalProfile(c, e, k)
  \/ ControlFenceFails(c, k)
  \/ ClaimControl(c, k)

Reconcile(c, e, k) ==
  \/ ReconcileAssigned(c, e, k)
  \/ ReconcileRemoved(c, e, k)
  \/ ReconcilePreserved(c, e, k)

Next ==
  \/ Commit \/ Takeover
  \/ \E c \in Cells :
       \/ Depart(c) \/ StopVerified(c) \/ StopRefused(c)
       \/ Drain(c) \/ releaseStoppedAccount(c)
       \/ SafetyLock(c) \/ LockExpires(c) \/ CrashRestart(c)
       \/ \E e \in Epochs, k \in 1..control : Request(c, e, k)
       \/ \E e \in Epochs, k \in 0..control : Reconcile(c, e, k)

\* The controller retries the request its departure waits for, and the
\* reconcile of its last placement, with its own epoch until they succeed and
\* a response arrives; a cell's goroutines make progress and its locks expire.
Fairness ==
  /\ WF_vars(Commit)
  /\ \A c \in Cells :
       /\ WF_vars(StopVerified(c)) /\ WF_vars(StopRefused(c))
       /\ WF_vars(Drain(c)) /\ WF_vars(releaseStoppedAccount(c))
       /\ WF_vars(LockExpires(c))
       /\ WF_vars(PrepareSourceHandover(c, Placed, control) /\ busy'[c] # 0)
       /\ WF_vars(StopVerified(c) /\ phase' = "stopped")
       /\ WF_vars(PrepareLocalProfile(c, Placed, control) /\ phase' = "prepared")
       /\ WF_vars(ActivateLocalProfile(c, Placed - 1, control))
       /\ WF_vars(ReconcileAssigned(c, Placed, control))

Spec == Init /\ [][Next]_vars /\ Fairness

-----------------------------------------------------------------------------
(* Properties. *)

\* The account never has two runtimes: whatever is lost, repeated, late or
\* from a deposed controller, whichever journal write fails and whenever a
\* cell dies, the destination runs only after the source is gone for good
\* (HandoverFence.go:194-355 with LocalProfileSwitch.go and Reconcile).
OneRuntime == \A c, d \in Cells : app[c] # "none" /\ app[d] # "none" => c = d

\* A departure is not a way around a safety lock: while an automation lane of
\* the account is locked on one cell, no other cell runs the account
\* (HandoverFence.go:255-263, 327-341).
CooldownFollowsAccount ==
  \A c, d \in Cells : c # d /\ lock[c] => app[d] # "running"

\* A stop the controller has built on is durable: no crash of the source can
\* bring back a state in which that epoch, or an earlier one, runs again
\* (saveSourceFenceLocked and the retry of a failed write).
AcknowledgedStopHolds ==
  \A e \in 1..MaxEpoch :
    Stopped(e) => \A f \in fenceDisk[owner[e]] :
                    f.epoch >= e /\ (f.epoch = e => f.stopped)

\* A cell never obeys a controller older than one it has obeyed, across
\* crashes and failed writes of the controller journal (ControlFence.go:85-153).
ControlNeverRegresses == [][\A c \in Cells : obeyed'[c] >= obeyed[c]]_vars

\* The last placement is assigned on its cell without a runtime: Reconcile
\* has left an assignment of an earlier stay alone, or a late drain removed
\* the runtime of the new stay.
Suppressed ==
  LET c == owner[Placed]
  IN assigned[c] = Placed /\ app[c] # "running" /\ fence[c].epoch < Placed

\* Every departure that starts ends with the next placement committed, and
\* every placement gets its runtime or departs again, unless Reconcile has
\* taken the assignment without building one.
HandoversFinish ==
  \/ /\ phase # "placed" ~> phase = "placed"
     /\ phase = "placed" ~> (phase # "placed" \/ app[owner[Placed]] = "running")
  \/ <>[]Suppressed

\* The assignment of a returning account builds its runtime, as
\* ActivateTargetProfile takes care of for imported profiles.
ReturnIsBuilt ==
  [][\A c \in Cells : assigned[c] # assigned'[c] /\ assigned'[c] > 0 => app'[c] = "running"]_vars

\* The promise of the protocol, with the account's runtime as the runner and
\* the epoch it was started for as its generation.
Abstract == INSTANCE SingleOwner WITH
  runner <- IF last.cell # NoCell /\ app[last.cell] # "none" THEN last.cell ELSE NoCell,
  generation <- last.epoch,
  home <- last.cell

\* The cells implement SingleOwner.
ImplementsSingleOwner == Abstract!Spec
=============================================================================
