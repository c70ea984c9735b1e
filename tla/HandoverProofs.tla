--------------------------- MODULE HandoverProofs ---------------------------
(***************************************************************************)
(* Proofs about Handover for any number of cells, epochs, controllers and  *)
(* faults: the account never has two runtimes, and a stop the controller   *)
(* has built on survives every crash.                                      *)
(***************************************************************************)
EXTENDS Handover, SequenceTheorems, TLAPS

-----------------------------------------------------------------------------
(* The inductive invariant. *)

\* Only the cell of the last placement holds a runtime, and only until its
\* stop is acknowledged.
RunsWherePlaced ==
  \A c \in Cells : app[c] # "none" =>
    c = owner[Placed] /\ phase \in {"placed", "stopping"}

\* A stop request in progress has published its fence.
BusyIsFenced ==
  \A c \in Cells : busy[c] > 0 =>
    /\ busy[c] = fence[c].epoch
    /\ Departing(busy[c]) /\ owner[busy[c]] = c

\* A fence that keeps epoch e and every earlier one from running.
Holds(f, e) == f.epoch >= e /\ (f.epoch = e => f.stopped)

\* An acknowledged stop is held in memory and in whatever a crash leaves.
StopsHold ==
  \A e \in Epochs : Stopped(e) =>
    Holds(fence[owner[e]], e) /\ \A f \in fenceDisk[owner[e]] : Holds(f, e)

\* A departure leaves room for the epoch it ends in, and has a destination.
DepartureIsBounded == phase # "placed" => Placed < MaxEpoch /\ dest \in Cells

IInv ==
  /\ TypeOK /\ DepartureIsBounded
  /\ RunsWherePlaced /\ BusyIsFenced /\ StopsHold

-----------------------------------------------------------------------------
(* Facts about the controller's epochs. *)

LEMMA OwnerIsACell ==
  ASSUME TypeOK, NEW e \in 1..Placed
  PROVE  owner[e] \in Cells
  BY DEF TypeOK, Placed

LEMMA StoppedIsDeparting ==
  ASSUME TypeOK, NEW e \in Epochs, Stopped(e)
  PROVE  e \in 1..Placed /\ owner[e] \in Cells
  BY OwnerIsACell DEF Stopped

-----------------------------------------------------------------------------
(* Type correctness. *)

LEMMA TypeInit == Init => TypeOK /\ DepartureIsBounded
  BY CellsAssumption DEF Init, TypeOK, DepartureIsBounded, Epochs, Fences, Bindings,
     NoFence, NoBinding, Placed

\* A cell's journals after a save keep their types.
LEMMA SaveFenceType ==
  ASSUME TypeOK, NEW c \in Cells, NEW f \in Fences,
         saveSourceFence(c, f) \/ saveSourceFenceFails(c, f)
  PROVE  /\ fence' \in [Cells -> Fences] /\ fenceDisk' \in [Cells -> SUBSET Fences]
         /\ binding' = binding /\ bindingDisk' = bindingDisk
  <1>1. fence' = [fence EXCEPT ![c] = f]
    BY DEF saveSourceFence, saveSourceFenceFails
  <1>2. PICK d \in {{f}, fenceDisk[c], fenceDisk[c] \cup {f}} : fenceDisk' = [fenceDisk EXCEPT ![c] = d]
    BY DEF saveSourceFence, saveSourceFenceFails, FailedWrite
  <1>3. fenceDisk[c] \in SUBSET Fences
    BY DEF TypeOK
  <1>4. d \in SUBSET Fences
    BY <1>2, <1>3
  <1> QED BY <1>1, <1>2, <1>4 DEF TypeOK, saveSourceFence, saveSourceFenceFails

LEMMA SaveBindingType ==
  ASSUME TypeOK, NEW c \in Cells, NEW b \in Bindings,
         saveLocalProfileBinding(c, b) \/ saveLocalProfileBindingFails(c, b)
  PROVE  /\ binding' \in [Cells -> Bindings] /\ bindingDisk' \in [Cells -> SUBSET Bindings]
         /\ fence' = fence /\ fenceDisk' = fenceDisk
  <1>1. binding' = [binding EXCEPT ![c] = b]
    BY DEF saveLocalProfileBinding, saveLocalProfileBindingFails
  <1>2. PICK d \in {{b}, bindingDisk[c], bindingDisk[c] \cup {b}} : bindingDisk' = [bindingDisk EXCEPT ![c] = d]
    BY DEF saveLocalProfileBinding, saveLocalProfileBindingFails, FailedWrite
  <1>3. bindingDisk[c] \in SUBSET Bindings
    BY DEF TypeOK
  <1>4. d \in SUBSET Bindings
    BY <1>2, <1>3
  <1> QED BY <1>1, <1>2, <1>4 DEF TypeOK, saveLocalProfileBinding, saveLocalProfileBindingFails

LEMMA ControlType ==
  ASSUME TypeOK, NEW c \in Cells, NEW k \in 0..control, withControlFence(c, k)
  PROVE  /\ ctl' \in [Cells -> 0..MaxControl] /\ ctlDisk' \in [Cells -> SUBSET (0..MaxControl)]
         /\ obeyed' \in [Cells -> 0..MaxControl]
  <1>1. k \in 0..MaxControl
    BY CellsAssumption DEF TypeOK
  <1> QED BY <1>1 DEF TypeOK, withControlFence

LEMMA FaultsType ==
  ASSUME TypeOK, Faults(0) \/ Faults(1)
  PROVE  faults' \in 0..MaxFaults
  BY CellsAssumption DEF TypeOK, Faults

LEMMA AnswerType ==
  ASSUME TypeOK, NEW e, NEW from \in {"stopping", "stopped"}, NEW to \in {"stopped", "prepared"},
         Answer(e, from, to)
  PROVE  /\ owner' = owner /\ dest' = dest /\ control' = control
         /\ phase' \in {phase, to}
         /\ phase' # phase => e = Placed /\ phase = from
         /\ faults' \in 0..MaxFaults
  BY FaultsType DEF Answer

LEMMA TypeStep ==
  ASSUME TypeOK, DepartureIsBounded, [Next]_vars
  PROVE  TypeOK' /\ DepartureIsBounded'
  <1> USE CellsAssumption DEF controller, journals, fences, runtime
  <1>1. CASE UNCHANGED vars
    BY <1>1 DEF vars, TypeOK, DepartureIsBounded, Placed
  <1>2. CASE Commit
    <2>1. owner' = Append(owner, dest) /\ dest \in Cells /\ Placed < MaxEpoch
      BY <1>2 DEF Commit, DepartureIsBounded
    <2>2. owner' \in Seq(Cells) /\ Len(owner') \in Epochs
      <3>1. owner \in Seq(Cells) /\ Placed \in 1..MaxEpoch
        BY DEF TypeOK, Epochs, Placed
      <3>2. owner' \in Seq(Cells) /\ Len(owner') = Placed + 1
        BY <2>1, <3>1, AppendProperties DEF Placed
      <3> QED BY <2>1, <3>1, <3>2 DEF Epochs
    <2> QED BY <1>2, <2>2 DEF Commit, TypeOK, DepartureIsBounded
  <1>3. CASE Takeover
    <2>1. control' \in 1..MaxControl
      <3>1. control \in 1..MaxControl
        BY DEF TypeOK
      <3> QED BY <1>3, <3>1 DEF Takeover
    <2>2. UNCHANGED <<owner, phase, dest, journals, fences, runtime, busy, lock, faults>>
      BY <1>3 DEF Takeover
    <2> QED BY <2>1, <2>2 DEF TypeOK, DepartureIsBounded, Placed
  <1>4. ASSUME NEW c \in Cells, Depart(c) PROVE TypeOK' /\ DepartureIsBounded'
    BY <1>4 DEF Depart, TypeOK, DepartureIsBounded, Placed
  <1>5. ASSUME NEW c \in Cells, StopVerified(c) PROVE TypeOK' /\ DepartureIsBounded'
    <2> DEFINE f == [epoch |-> busy[c], stopped |-> TRUE]
    <2>1. f \in Fences
      BY DEF Fences, TypeOK
    <2>2. saveSourceFence(c, f) \/ saveSourceFenceFails(c, f)
      BY <1>5 DEF StopVerified
    <2>3. /\ owner' = owner /\ dest' = dest /\ control' = control
          /\ phase' \in {phase, "stopped"} /\ (phase' # phase => phase = "stopping")
          /\ faults' \in 0..MaxFaults
      <3>1. CASE Answer(busy[c], "stopping", "stopped")
        BY <3>1, AnswerType
      <3>2. CASE UNCHANGED controller /\ Faults(1)
        BY <3>2, FaultsType
      <3> QED BY <1>5, <3>1, <3>2 DEF StopVerified
    <2>4. busy' \in [Cells -> 0..MaxEpoch]
      BY <1>5 DEF StopVerified, TypeOK
    <2> HIDE DEF f
    <2>5. UNCHANGED <<fences, runtime, lock>>
      BY <1>5 DEF StopVerified
    <2> QED BY <2>1, <2>2, <2>3, <2>4, <2>5, SaveFenceType DEF TypeOK, DepartureIsBounded, Placed
  <1>6. ASSUME NEW c \in Cells, StopRefused(c) PROVE TypeOK' /\ DepartureIsBounded'
    <2>1. busy' \in [Cells -> 0..MaxEpoch]
      BY <1>6 DEF StopRefused, TypeOK
    <2> QED BY <1>6, <2>1 DEF StopRefused, TypeOK, DepartureIsBounded, Placed
  <1>7. ASSUME NEW c \in Cells, Drain(c) PROVE TypeOK' /\ DepartureIsBounded'
    BY <1>7 DEF Drain, RemoveAccount, TypeOK, DepartureIsBounded, Placed
  <1>8. ASSUME NEW c \in Cells, releaseStoppedAccount(c) PROVE TypeOK' /\ DepartureIsBounded'
    BY <1>8 DEF releaseStoppedAccount, TypeOK, DepartureIsBounded, Placed
  <1>9. ASSUME NEW c \in Cells, SafetyLock(c) PROVE TypeOK' /\ DepartureIsBounded'
    BY <1>9, FaultsType DEF SafetyLock, TypeOK, DepartureIsBounded, Placed
  <1>10. ASSUME NEW c \in Cells, LockExpires(c) PROVE TypeOK' /\ DepartureIsBounded'
    BY <1>10 DEF LockExpires, TypeOK, DepartureIsBounded, Placed
  <1>11. ASSUME NEW c \in Cells, CrashRestart(c) PROVE TypeOK' /\ DepartureIsBounded'
    <2>1. PICK f \in fenceDisk[c], b \in bindingDisk[c], k \in ctlDisk[c] :
            /\ fence' = [fence EXCEPT ![c] = f] /\ fenceDisk' = [fenceDisk EXCEPT ![c] = {f}]
            /\ binding' = [binding EXCEPT ![c] = b] /\ bindingDisk' = [bindingDisk EXCEPT ![c] = {b}]
            /\ ctl' = [ctl EXCEPT ![c] = k] /\ ctlDisk' = [ctlDisk EXCEPT ![c] = {k}]
      BY <1>11 DEF CrashRestart
    <2>2. f \in Fences /\ b \in Bindings /\ k \in 0..MaxControl
      BY DEF TypeOK
    <2>3. /\ fence' \in [Cells -> Fences] /\ fenceDisk' \in [Cells -> SUBSET Fences]
          /\ binding' \in [Cells -> Bindings] /\ bindingDisk' \in [Cells -> SUBSET Bindings]
          /\ ctl' \in [Cells -> 0..MaxControl] /\ ctlDisk' \in [Cells -> SUBSET (0..MaxControl)]
      BY <2>1, <2>2 DEF TypeOK
    <2>4. /\ revision' \in [Cells -> 0..MaxEpoch] /\ assigned' \in [Cells -> 0..MaxEpoch]
          /\ busy' \in [Cells -> 0..MaxEpoch] /\ draining' \in [Cells -> BOOLEAN]
          /\ app' \in [Cells -> {"none", "running", "stopping"}]
      <3>1. 0 \in 0..MaxEpoch /\ FALSE \in BOOLEAN
        OBVIOUS
      <3>2. /\ revision' = [revision EXCEPT ![c] = 0] /\ assigned' = [assigned EXCEPT ![c] = 0]
            /\ busy' = [busy EXCEPT ![c] = 0] /\ draining' = [draining EXCEPT ![c] = FALSE]
            /\ app' = [app EXCEPT ![c] = "none"]
        BY <1>11 DEF CrashRestart
      <3>3. draining' \in [Cells -> BOOLEAN]
        BY <3>2, Zenon DEF TypeOK
      <3>4. /\ revision' \in [Cells -> 0..MaxEpoch] /\ assigned' \in [Cells -> 0..MaxEpoch]
            /\ busy' \in [Cells -> 0..MaxEpoch]
        BY <3>1, <3>2 DEF TypeOK
      <3>5. app' \in [Cells -> {"none", "running", "stopping"}]
        BY <3>2 DEF TypeOK
      <3> QED BY <3>3, <3>4, <3>5
    <2> QED BY <1>11, <2>3, <2>4, FaultsType DEF CrashRestart, TypeOK, DepartureIsBounded, Placed
  <1>12. ASSUME NEW c \in Cells, NEW e \in Epochs, NEW k \in 1..control, Request(c, e, k)
         PROVE  TypeOK' /\ DepartureIsBounded'
    <2>0. k \in 0..control /\ k \in 0..MaxControl
      BY DEF TypeOK
    <2>1. CASE PrepareSourceHandover(c, e, k)
      <3>1. stopFence(c, e) \in Fences
        BY DEF stopFence, Fences, Epochs, TypeOK
      <3>2. saveSourceFence(c, stopFence(c, e)) \/ saveSourceFenceFails(c, stopFence(c, e))
        BY <2>1 DEF PrepareSourceHandover
      <3>3. Faults(0) \/ Faults(1)
        BY <2>1 DEF PrepareSourceHandover
      <3>4. /\ app' \in [Cells -> {"none", "running", "stopping"}]
            /\ busy' \in [Cells -> 0..MaxEpoch]
        <4>1. RemoveAccount(c) \in [Cells -> {"none", "running", "stopping"}]
          BY DEF RemoveAccount, TypeOK
        <4>2. [busy EXCEPT ![c] = e] \in [Cells -> 0..MaxEpoch]
          BY DEF TypeOK, Epochs
        <4>3. app' \in {app, RemoveAccount(c)} /\ busy' \in {busy, [busy EXCEPT ![c] = e]}
          BY <2>1 DEF PrepareSourceHandover
        <4>4. app \in [Cells -> {"none", "running", "stopping"}] /\ busy \in [Cells -> 0..MaxEpoch]
          BY DEF TypeOK
        <4> QED BY <4>1, <4>2, <4>3, <4>4
      <3> QED BY <2>0, <2>1, <3>1, <3>2, <3>3, <3>4, SaveFenceType, FaultsType, ControlType
           DEF PrepareSourceHandover, TypeOK, DepartureIsBounded, Placed
    <2>2. CASE PrepareLocalProfile(c, e, k)
      <3> DEFINE b == [epoch |-> e + 1, active |-> FALSE]
      <3>1. e < MaxEpoch
        <4>1. Placed \in 1..MaxEpoch
          BY DEF TypeOK, Placed, Epochs
        <4>2. e \in 1..Placed /\ (e < Placed \/ phase # "placed")
          BY <2>2 DEF PrepareLocalProfile, Stopped
        <4> QED BY <4>1, <4>2 DEF DepartureIsBounded
      <3>2. b \in Bindings
        BY <3>1 DEF Bindings, Epochs
      <3>3. saveLocalProfileBinding(c, b) \/ saveLocalProfileBindingFails(c, b)
        BY <2>2 DEF PrepareLocalProfile
      <3>4. /\ owner' = owner /\ dest' = dest /\ control' = control
            /\ phase' \in {phase, "prepared"} /\ (phase' # phase => phase = "stopped")
            /\ faults' \in 0..MaxFaults
        <4>1. CASE Answer(e, "stopped", "prepared")
          BY <4>1, AnswerType
        <4>2. CASE UNCHANGED controller /\ Faults(1)
          BY <4>2, FaultsType
        <4> QED BY <2>2, <4>1, <4>2 DEF PrepareLocalProfile
      <3>5. UNCHANGED <<runtime, busy, lock>> /\ withControlFence(c, k)
        BY <2>2 DEF PrepareLocalProfile
      <3> HIDE DEF b
      <3> QED BY <2>0, <3>2, <3>3, <3>4, <3>5, SaveBindingType, ControlType
           DEF TypeOK, DepartureIsBounded, Placed
    <2>3. CASE ActivateLocalProfile(c, e, k)
      <3> DEFINE b == [epoch |-> e + 1, active |-> TRUE]
      <3>1. b \in Bindings
        BY <2>3 DEF ActivateLocalProfile, Committed, Bindings, Epochs, TypeOK, Placed
      <3>2. saveLocalProfileBinding(c, b) \/ saveLocalProfileBindingFails(c, b)
        BY <2>3 DEF ActivateLocalProfile
      <3>3. /\ UNCHANGED <<controller, runtime, busy, lock>> /\ withControlFence(c, k)
            /\ Faults(0) \/ Faults(1)
        BY <2>3 DEF ActivateLocalProfile
      <3> HIDE DEF b
      <3> QED BY <2>0, <3>1, <3>2, <3>3, SaveBindingType, ControlType, FaultsType
           DEF TypeOK, DepartureIsBounded, Placed
    <2>4. CASE ControlFenceFails(c, k)
      <3>1. PICK d \in {ctlDisk[c], ctlDisk[c] \cup {k}} : ctlDisk' = [ctlDisk EXCEPT ![c] = d]
        BY <2>4 DEF ControlFenceFails, FailedWrite
      <3>2. d \in SUBSET (0..MaxControl)
        <4>1. ctlDisk[c] \in SUBSET (0..MaxControl)
          BY DEF TypeOK
        <4> QED BY <4>1, <2>0
      <3>3. ctlDisk' \in [Cells -> SUBSET (0..MaxControl)]
        BY <3>1, <3>2 DEF TypeOK
      <3> QED BY <2>0, <2>4, <3>3, FaultsType
           DEF ControlFenceFails, TypeOK, DepartureIsBounded, Placed
    <2>5. CASE ClaimControl(c, k)
      BY <2>0, <2>5, ControlType DEF ClaimControl, TypeOK, DepartureIsBounded, Placed
    <2> QED BY <1>12, <2>1, <2>2, <2>3, <2>4, <2>5 DEF Request
  <1>13. ASSUME NEW c \in Cells, NEW e \in Epochs, NEW k \in 0..control, Reconcile(c, e, k)
         PROVE  TypeOK' /\ DepartureIsBounded'
    <2>0. /\ revision' \in [Cells -> 0..MaxEpoch] /\ assigned' \in [Cells -> 0..MaxEpoch]
          /\ app' \in [Cells -> {"none", "running", "stopping"}]
          /\ last' \in [epoch : 0..MaxEpoch, cell : Cells \cup {NoCell}]
          /\ draining' \in [Cells -> BOOLEAN]
      <3>1. PICK a \in {e, 0, assigned[c]} : Accept(c, e, a)
        BY <1>13 DEF Reconcile, ReconcileAssigned, ReconcileRemoved, ReconcilePreserved
      <3>2. e \in 0..MaxEpoch /\ a \in 0..MaxEpoch
        <4>1. e \in 0..MaxEpoch /\ 0 \in 0..MaxEpoch
          BY DEF Epochs
        <4>2. assigned[c] \in 0..MaxEpoch
          BY DEF TypeOK
        <4> QED BY <3>1, <4>1, <4>2
      <3>3. revision' \in [Cells -> 0..MaxEpoch] /\ assigned' \in [Cells -> 0..MaxEpoch]
        BY <3>1, <3>2 DEF Accept, TypeOK
      <3>4. app' \in {app, [app EXCEPT ![c] = "running"]} /\ last' \in {last, [epoch |-> e, cell |-> c]}
        BY <1>13 DEF Reconcile, ReconcileAssigned, ReconcileRemoved, ReconcilePreserved
      <3>5. draining' \in [Cells -> BOOLEAN]
        BY <1>13 DEF Reconcile, ReconcileAssigned, ReconcileRemoved, ReconcilePreserved, TypeOK
      <3>6. app' \in [Cells -> {"none", "running", "stopping"}]
        BY <3>4 DEF TypeOK
      <3>7. last' \in [epoch : 0..MaxEpoch, cell : Cells \cup {NoCell}]
        BY <3>2, <3>4 DEF TypeOK
      <3> QED BY <3>3, <3>5, <3>6, <3>7
    <2>1. CASE ReconcileAssigned(c, e, k)
      BY <2>0, <2>1, ControlType DEF ReconcileAssigned, TypeOK, DepartureIsBounded, Placed
    <2>2. CASE ReconcileRemoved(c, e, k)
      BY <2>0, <2>2, ControlType DEF ReconcileRemoved, TypeOK, DepartureIsBounded, Placed
    <2>3. CASE ReconcilePreserved(c, e, k)
      BY <2>0, <2>3, ControlType DEF ReconcilePreserved, TypeOK, DepartureIsBounded, Placed
    <2> QED BY <1>13, <2>1, <2>2, <2>3 DEF Reconcile
  <1> QED
    BY <1>1, <1>2, <1>3, <1>4, <1>5, <1>6, <1>7, <1>8, <1>9, <1>10, <1>11, <1>12, <1>13 DEF Next

-----------------------------------------------------------------------------
(* The inductive step. *)

\* A step that touches neither the fences nor the controller's placement, and
\* builds no runtime, keeps the invariant.
LEMMA Quiet ==
  ASSUME IInv, owner' = owner, phase' = phase, fence' = fence, fenceDisk' = fenceDisk,
         \A c \in Cells : app'[c] # "none" => app[c] # "none",
         \A c \in Cells : busy'[c] \in {busy[c], 0}
  PROVE  RunsWherePlaced' /\ BusyIsFenced' /\ StopsHold'
  <1>1. RunsWherePlaced'
    BY DEF IInv, RunsWherePlaced, Placed
  <1>2. BusyIsFenced'
    BY DEF IInv, BusyIsFenced, Departing, Placed
  <1>3. StopsHold'
    BY DEF IInv, StopsHold, Stopped, Placed, Holds
  <1> QED BY <1>1, <1>2, <1>3

\* The fence a stop publishes holds every stop the fence before it held.
LEMMA StopFenceHolds ==
  ASSUME IInv, NEW c \in Cells, NEW e \in Epochs, mayStop(c, e),
         NEW x \in Epochs, Stopped(x), owner[x] = c
  PROVE  Holds(stopFence(c, e), x)
  <1>1. Holds(fence[c], x)
    BY DEF IInv, StopsHold
  <1>2. fence[c] \in Fences /\ binding[c] \in Bindings
    BY DEF IInv, TypeOK
  <1>3. CASE fence[c].epoch = e
    BY <1>1, <1>3 DEF Holds, stopFence
  <1>4. CASE fence[c].epoch # e
    <2>1. fence[c].epoch = 0 \/ (fence[c].epoch < binding[c].epoch /\ binding[c].epoch = e)
      BY <1>4 DEF mayStop, activeLocalProfile
    <2>2. fence[c].epoch < e /\ x < e
      BY <1>1, <1>2, <2>1 DEF Holds, Fences, Bindings, Epochs
    <2> QED BY <1>2, <2>2 DEF Holds, stopFence, Epochs
  <1> QED BY <1>3, <1>4

\* Saving such a fence, or failing to, keeps every acknowledged stop.
LEMMA SaveHolds ==
  ASSUME IInv, NEW c \in Cells, NEW f \in Fences,
         saveSourceFence(c, f) \/ saveSourceFenceFails(c, f),
         \A x \in Epochs : Stopped(x) /\ owner[x] = c => Holds(f, x),
         NEW x \in Epochs, Stopped(x)
  PROVE  Holds(fence'[owner[x]], x) /\ \A g \in fenceDisk'[owner[x]] : Holds(g, x)
  <1>1. owner[x] \in Cells
    BY StoppedIsDeparting DEF IInv
  <1>2. Holds(fence[owner[x]], x) /\ \A g \in fenceDisk[owner[x]] : Holds(g, x)
    BY DEF IInv, StopsHold
  <1>3. fence' = [fence EXCEPT ![c] = f] /\ fence \in [Cells -> Fences]
    BY DEF saveSourceFence, saveSourceFenceFails, IInv, TypeOK
  <1>4. PICK d \in {{f}, fenceDisk[c], fenceDisk[c] \cup {f}} :
          fenceDisk' = [fenceDisk EXCEPT ![c] = d]
    BY DEF saveSourceFence, saveSourceFenceFails, FailedWrite
  <1>5. fenceDisk \in [Cells -> SUBSET Fences]
    BY DEF IInv, TypeOK
  <1>6. CASE owner[x] # c
    BY <1>1, <1>2, <1>3, <1>4, <1>5, <1>6
  <1>7. CASE owner[x] = c
    <2>1. Holds(f, x)
      BY <1>7
    <2>2. fence'[c] = f /\ fenceDisk'[c] = d
      BY <1>3, <1>4, <1>5
    <2> QED BY <1>2, <1>4, <1>7, <2>1, <2>2
  <1> QED BY <1>6, <1>7

LEMMA StopStep ==
  ASSUME IInv, NEW c \in Cells, NEW e \in Epochs, NEW k, PrepareSourceHandover(c, e, k)
  PROVE  RunsWherePlaced' /\ BusyIsFenced' /\ StopsHold'
  <1> DEFINE f == stopFence(c, e)
  <1>1. f \in Fences /\ f.epoch = e
    BY DEF stopFence, Fences, Epochs
  <1>2. saveSourceFence(c, f) \/ saveSourceFenceFails(c, f)
    BY DEF PrepareSourceHandover
  <1>3. owner' = owner /\ phase' = phase /\ Departing(e) /\ owner[e] = c
    BY DEF PrepareSourceHandover, controller
  <1>4. \A x \in Epochs : Stopped(x) /\ owner[x] = c => Holds(f, x)
    BY StopFenceHolds DEF PrepareSourceHandover
  <1>5. StopsHold'
    <2> HIDE DEF f
    <2>1. \A x \in Epochs : Stopped(x)' => Stopped(x)
      BY <1>3 DEF Stopped, Placed
    <2> QED BY <1>1, <1>2, <1>3, <1>4, <2>1, SaveHolds DEF StopsHold
  <1>6. RunsWherePlaced'
    <2>1. \A d \in Cells : app'[d] # "none" => app[d] # "none"
      BY DEF PrepareSourceHandover, RemoveAccount, IInv, TypeOK
    <2> QED BY <1>3, <2>1 DEF IInv, RunsWherePlaced, Placed
  <1>7. BusyIsFenced'
    <2>1. busy[c] = 0
      BY DEF PrepareSourceHandover, withControlFence
    <2>2. fence' = [fence EXCEPT ![c] = f] /\ fence \in [Cells -> Fences]
      BY <1>2 DEF saveSourceFence, saveSourceFenceFails, IInv, TypeOK
    <2>3. busy' \in {busy, [busy EXCEPT ![c] = e]} /\ busy \in [Cells -> 0..MaxEpoch]
      BY DEF PrepareSourceHandover, IInv, TypeOK
    <2>4. \A d \in Cells \ {c} : busy'[d] = busy[d] /\ fence'[d] = fence[d]
      BY <2>2, <2>3
    <2>5. busy'[c] \in {0, e} /\ fence'[c].epoch = e
      BY <1>1, <2>1, <2>2, <2>3
    <2>6. \A x : Departing(x)' <=> Departing(x)
      BY <1>3 DEF Departing, Placed
    <2> QED BY <1>3, <2>4, <2>5, <2>6 DEF IInv, BusyIsFenced
  <1> QED BY <1>5, <1>6, <1>7

LEMMA VerifiedStep ==
  ASSUME IInv, NEW c \in Cells, StopVerified(c)
  PROVE  RunsWherePlaced' /\ BusyIsFenced' /\ StopsHold'
  <1> DEFINE e == busy[c]
             f == [epoch |-> e, stopped |-> TRUE]
  <1>1. /\ e \in Epochs /\ e = fence[c].epoch /\ e \in 1..Placed /\ owner[e] = c
        /\ app[c] = "none"
    BY DEF StopVerified, IInv, BusyIsFenced, Departing, TypeOK, Epochs
  <1>2. f \in Fences /\ fence[c] \in Fences
    BY <1>1 DEF Fences, Epochs, IInv, TypeOK
  <1>3. saveSourceFence(c, f) \/ saveSourceFenceFails(c, f)
    BY DEF StopVerified
  <1>4. \A x \in Epochs : x <= e => Holds(f, x)
    BY <1>1 DEF Holds, Epochs
  <1>5. \A x \in Epochs : Stopped(x) /\ owner[x] = c => Holds(f, x)
    BY <1>1, <1>2, <1>4 DEF IInv, StopsHold, Holds, Fences, Epochs
  <1>6. \/ phase' = phase /\ owner' = owner
        \/ /\ phase = "stopping" /\ phase' = "stopped" /\ owner' = owner
           /\ e = Placed /\ saveSourceFence(c, f)
    BY DEF StopVerified, Answer, controller
  <1>7. app' = app /\ owner' = owner
    BY <1>6 DEF StopVerified, runtime
  <1>8. fence' = [fence EXCEPT ![c] = f] /\ fence \in [Cells -> Fences]
    BY <1>3 DEF saveSourceFence, saveSourceFenceFails, IInv, TypeOK
  <1>9. RunsWherePlaced'
    <2>1. CASE phase' = phase
      BY <1>7, <2>1 DEF IInv, RunsWherePlaced, Placed
    <2>2. CASE phase' # phase
      BY <1>1, <1>6, <1>7, <2>2 DEF IInv, RunsWherePlaced, Placed
    <2> QED BY <2>1, <2>2
  <1>10. BusyIsFenced'
    <2>1. busy' = [busy EXCEPT ![c] = 0] /\ busy \in [Cells -> 0..MaxEpoch]
      BY DEF StopVerified, IInv, TypeOK
    <2>2. \A d \in Cells \ {c} : busy'[d] = busy[d] /\ fence'[d] = fence[d]
      BY <1>8, <2>1
    <2>3. \A x : Departing(x) => Departing(x)'
      BY <1>6, <1>7 DEF Departing, Placed
    <2> QED BY <1>7, <2>1, <2>2, <2>3 DEF IInv, BusyIsFenced
  <1>11. StopsHold'
    <2> SUFFICES ASSUME NEW x \in Epochs, Stopped(x)'
                 PROVE  (Holds(fence[owner[x]], x) /\ \A g \in fenceDisk[owner[x]] : Holds(g, x))'
      BY DEF StopsHold
    <2>1. CASE Stopped(x)
      <3> HIDE DEF f
      <3> QED BY <1>2, <1>3, <1>5, <1>7, <2>1, SaveHolds
    <2>2. CASE ~Stopped(x)
      <3>1. x = e /\ saveSourceFence(c, f)
        <4>1. Placed' = Placed /\ Placed \in Nat
          BY <1>7 DEF Placed, IInv, TypeOK
        <4>2. x \in 1..Placed /\ (x < Placed \/ phase' \in {"stopped", "prepared"})
          BY <4>1 DEF Stopped
        <4>3. ~(x < Placed) /\ phase \notin {"stopped", "prepared"}
          BY <2>2, <4>2 DEF Stopped
        <4>4. x = Placed /\ phase' # phase
          BY <4>1, <4>2, <4>3
        <4> QED BY <1>6, <4>4
      <3>2. owner'[x] = c /\ Holds(f, x)
        <4>1. owner'[x] = c
          BY <1>1, <1>7, <3>1
        <4>2. Holds(f, x)
          BY <3>1 DEF Holds, Epochs
        <4> QED BY <4>1, <4>2
      <3>3. fenceDisk \in [Cells -> SUBSET Fences]
        BY DEF IInv, TypeOK
      <3>4. fence'[c] = f /\ fenceDisk'[c] = {f}
        BY <1>8, <3>1, <3>3 DEF saveSourceFence
      <3> HIDE DEF f
      <3> QED BY <3>2, <3>4 DEF Holds
    <2> QED BY <2>1, <2>2
  <1> QED BY <1>9, <1>10, <1>11

LEMMA CommitStep ==
  ASSUME IInv, Commit
  PROVE  RunsWherePlaced' /\ BusyIsFenced' /\ StopsHold'
  <1>1. /\ phase = "prepared" /\ phase' = "placed" /\ owner' = Append(owner, dest)
        /\ app' = app /\ busy' = busy /\ fence' = fence /\ fenceDisk' = fenceDisk
    BY DEF Commit, runtime, journals
  <1>2. owner \in Seq(Cells) /\ dest \in Cells /\ Placed \in Nat
    BY <1>1 DEF IInv, TypeOK, DepartureIsBounded, Placed
  <1>3. Placed' = Placed + 1 /\ \A e \in 1..Placed : owner'[e] = owner[e]
    BY <1>1, <1>2, AppendProperties DEF Placed
  <1>4. RunsWherePlaced'
    BY <1>1 DEF IInv, RunsWherePlaced
  <1>5. \A e : Departing(e) => Departing(e)' /\ e \in 1..Placed
    BY <1>1, <1>2, <1>3 DEF Departing
  <1>6. BusyIsFenced'
    BY <1>1, <1>3, <1>5 DEF IInv, BusyIsFenced
  <1>7. \A e \in Epochs : Stopped(e)' => Stopped(e) /\ e \in 1..Placed
    BY <1>1, <1>2, <1>3 DEF Stopped, Epochs
  <1>8. StopsHold'
    BY <1>1, <1>3, <1>7 DEF IInv, StopsHold, Holds
  <1> QED BY <1>4, <1>6, <1>8

LEMMA DepartStep ==
  ASSUME IInv, NEW c \in Cells, Depart(c)
  PROVE  RunsWherePlaced' /\ BusyIsFenced' /\ StopsHold'
  <1>1. /\ phase = "placed" /\ phase' = "stopping" /\ owner' = owner
        /\ app' = app /\ busy' = busy /\ fence' = fence /\ fenceDisk' = fenceDisk
    BY DEF Depart, runtime, journals
  <1>2. RunsWherePlaced'
    BY <1>1 DEF IInv, RunsWherePlaced, Placed
  <1>3. BusyIsFenced'
    BY <1>1 DEF IInv, BusyIsFenced, Departing, Placed
  <1>4. StopsHold'
    BY <1>1 DEF IInv, StopsHold, Stopped, Placed, Holds
  <1> QED BY <1>2, <1>3, <1>4

LEMMA ReserveStep ==
  ASSUME IInv, NEW c \in Cells, NEW e \in Epochs, NEW k, PrepareLocalProfile(c, e, k)
  PROVE  RunsWherePlaced' /\ BusyIsFenced' /\ StopsHold'
  <1>1. /\ owner' = owner /\ app' = app /\ busy' = busy
        /\ fence' = fence /\ fenceDisk' = fenceDisk
        /\ phase' = phase \/ (phase = "stopped" /\ phase' = "prepared")
    BY DEF PrepareLocalProfile, runtime, controller, Answer, saveLocalProfileBinding,
           saveLocalProfileBindingFails
  <1>2. RunsWherePlaced'
    BY <1>1 DEF IInv, RunsWherePlaced, Placed
  <1>3. BusyIsFenced'
    BY <1>1 DEF IInv, BusyIsFenced, Departing, Placed
  <1>4. StopsHold'
    BY <1>1 DEF IInv, StopsHold, Stopped, Placed, Holds
  <1> QED BY <1>2, <1>3, <1>4

\* A reconcile that assigns epoch e is refused once the stop of e has been
\* acknowledged: the runtime it builds is one of the last placement.
LEMMA AssignedIsPlaced ==
  ASSUME IInv, NEW c \in Cells, NEW e \in Epochs, NEW k, ReconcileAssigned(c, e, k)
  PROVE  e = Placed /\ owner[Placed] = c /\ phase \in {"placed", "stopping"}
  <1>1. /\ e \in 1..Placed /\ owner[e] = c
        /\ validateLocalAssignment(c, e) /\ ~runtimeHandoverFenced(c)
    BY DEF ReconcileAssigned, Desired, Epochs
  <1>2. ~Stopped(e)
    <2> SUFFICES ASSUME Stopped(e) PROVE FALSE
      OBVIOUS
    <2>1. fence[c].epoch >= e
      BY <1>1 DEF IInv, StopsHold, Holds
    <2>2. fence[c] \in Fences /\ binding[c] \in Bindings
      BY DEF IInv, TypeOK
    <2> QED BY <1>1, <2>1, <2>2 DEF validateLocalAssignment, runtimeHandoverFenced,
              activeLocalProfile, Fences, Bindings, Epochs
  <1>3. Placed \in Nat /\ phase \in {"placed", "stopping", "stopped", "prepared"}
    BY DEF IInv, TypeOK, Placed
  <1> QED BY <1>1, <1>2, <1>3 DEF Stopped

LEMMA AssignStep ==
  ASSUME IInv, NEW c \in Cells, NEW e \in Epochs, NEW k, ReconcileAssigned(c, e, k)
  PROVE  RunsWherePlaced' /\ BusyIsFenced' /\ StopsHold'
  <1>1. /\ owner' = owner /\ phase' = phase /\ busy' = busy
        /\ fence' = fence /\ fenceDisk' = fenceDisk
        /\ app' \in {app, [app EXCEPT ![c] = "running"]}
    BY DEF ReconcileAssigned, controller, journals
  <1>2. RunsWherePlaced'
    BY <1>1, AssignedIsPlaced DEF IInv, TypeOK, RunsWherePlaced, Placed
  <1>3. BusyIsFenced'
    BY <1>1 DEF IInv, BusyIsFenced, Departing, Placed
  <1>4. StopsHold'
    BY <1>1 DEF IInv, StopsHold, Stopped, Placed, Holds
  <1> QED BY <1>2, <1>3, <1>4

LEMMA CrashStep ==
  ASSUME IInv, NEW c \in Cells, CrashRestart(c)
  PROVE  RunsWherePlaced' /\ BusyIsFenced' /\ StopsHold'
  <1>1. PICK f \in fenceDisk[c] :
          fence' = [fence EXCEPT ![c] = f] /\ fenceDisk' = [fenceDisk EXCEPT ![c] = {f}]
    BY DEF CrashRestart
  <1>2. /\ owner' = owner /\ phase' = phase
        /\ app' = [app EXCEPT ![c] = "none"] /\ busy' = [busy EXCEPT ![c] = 0]
    BY DEF CrashRestart, controller
  <1>3. /\ app \in [Cells -> {"none", "running", "stopping"}] /\ busy \in [Cells -> 0..MaxEpoch]
        /\ fence \in [Cells -> Fences] /\ fenceDisk \in [Cells -> SUBSET Fences]
    BY DEF IInv, TypeOK
  <1>4. RunsWherePlaced'
    BY <1>2, <1>3 DEF IInv, RunsWherePlaced, Placed
  <1>5. BusyIsFenced'
    <2>1. busy'[c] = 0 /\ \A d \in Cells \ {c} : busy'[d] = busy[d] /\ fence'[d] = fence[d]
      BY <1>1, <1>2, <1>3
    <2> QED BY <1>2, <2>1 DEF IInv, BusyIsFenced, Departing, Placed
  <1>6. StopsHold'
    <2>1. fence'[c] = f /\ fenceDisk'[c] = {f}
      BY <1>1, <1>3
    <2>2. \A d \in Cells \ {c} : fence'[d] = fence[d] /\ fenceDisk'[d] = fenceDisk[d]
      BY <1>1, <1>3
    <2>3. \A x \in Epochs : Stopped(x)' => Stopped(x) /\ owner[x] \in Cells
      BY <1>2, StoppedIsDeparting DEF Stopped, Placed, IInv
    <2> QED BY <1>1, <1>2, <2>1, <2>2, <2>3 DEF IInv, StopsHold, Holds
  <1> QED BY <1>4, <1>5, <1>6

LEMMA InvStep ==
  ASSUME IInv, [Next]_vars
  PROVE  IInv'
  <1> USE DEF controller, journals, fences, runtime
  <1>0. TypeOK' /\ DepartureIsBounded'
    BY TypeStep DEF IInv
  <1> SUFFICES RunsWherePlaced' /\ BusyIsFenced' /\ StopsHold'
    BY <1>0 DEF IInv
  <1>1. CASE UNCHANGED vars
    BY <1>1, Quiet DEF vars
  <1>2. CASE Takeover
    BY <1>2, Quiet DEF Takeover
  <1>3. ASSUME NEW c \in Cells,
               StopRefused(c) \/ Drain(c) \/ releaseStoppedAccount(c) \/ SafetyLock(c) \/ LockExpires(c)
        PROVE  RunsWherePlaced' /\ BusyIsFenced' /\ StopsHold'
    <2>1. owner' = owner /\ phase' = phase /\ fence' = fence /\ fenceDisk' = fenceDisk
      BY <1>3 DEF StopRefused, Drain, releaseStoppedAccount, SafetyLock, LockExpires
    <2>2. \A d \in Cells : app'[d] # "none" => app[d] # "none"
      BY <1>3 DEF StopRefused, Drain, releaseStoppedAccount, SafetyLock, LockExpires,
                  RemoveAccount, IInv, TypeOK
    <2>3. \A d \in Cells : busy'[d] \in {busy[d], 0}
      BY <1>3 DEF StopRefused, Drain, releaseStoppedAccount, SafetyLock, LockExpires, IInv, TypeOK
    <2> QED BY <2>1, <2>2, <2>3, Quiet
  <1>4. ASSUME NEW c \in Cells, NEW e \in Epochs, NEW k,
               \/ ActivateLocalProfile(c, e, k) \/ ControlFenceFails(c, k) \/ ClaimControl(c, k)
               \/ ReconcileRemoved(c, e, k) \/ ReconcilePreserved(c, e, k)
        PROVE  RunsWherePlaced' /\ BusyIsFenced' /\ StopsHold'
    <2>1. /\ owner' = owner /\ phase' = phase /\ fence' = fence /\ fenceDisk' = fenceDisk
          /\ app' = app /\ busy' = busy
      BY <1>4 DEF ActivateLocalProfile, saveLocalProfileBinding, saveLocalProfileBindingFails,
                  ControlFenceFails, ClaimControl, ReconcileRemoved, ReconcilePreserved
    <2> QED BY <2>1, Quiet
  <1>5. ASSUME NEW c \in Cells, NEW e \in Epochs, NEW k, Request(c, e, k) \/ Reconcile(c, e, k)
        PROVE  RunsWherePlaced' /\ BusyIsFenced' /\ StopsHold'
    BY <1>4, <1>5, StopStep, ReserveStep, AssignStep DEF Request, Reconcile
  <1> QED
    BY <1>1, <1>2, <1>3, <1>5, CommitStep, DepartStep, VerifiedStep, CrashStep DEF Next

LEMMA InvInit == Init => IInv
  <1> SUFFICES ASSUME Init PROVE RunsWherePlaced /\ BusyIsFenced /\ StopsHold
    BY TypeInit DEF IInv
  <1>1. RunsWherePlaced /\ BusyIsFenced
    BY DEF Init, RunsWherePlaced, BusyIsFenced
  <1>2. \A e \in Epochs : ~Stopped(e)
    BY DEF Init, Stopped, Placed, Epochs
  <1> QED BY <1>1, <1>2 DEF StopsHold

LEMMA Invariance == Spec => []IInv
  BY InvInit, InvStep, PTL DEF Spec

-----------------------------------------------------------------------------
(* The theorems. *)

\* The values the model keeps for the controller, the cells and their
\* journals always have their types.
THEOREM TypeCorrect == Spec => []TypeOK
  <1>1. IInv => TypeOK
    BY DEF IInv
  <1> QED BY <1>1, Invariance, PTL

\* Whatever the controller repeats, whichever journal write fails and whenever
\* a cell dies, the account never has runtimes on two cells.
THEOREM OneRuntimeTheorem == Spec => []OneRuntime
  <1>1. IInv => OneRuntime
    BY DEF IInv, RunsWherePlaced, OneRuntime
  <1> QED BY <1>1, Invariance, PTL

\* A stop the controller has built on is held by every content a crash of the
\* source may leave in its fence journal.
THEOREM AcknowledgedStopTheorem == Spec => []AcknowledgedStopHolds
  <1>1. IInv => AcknowledgedStopHolds
    BY DEF IInv, StopsHold, Holds, AcknowledgedStopHolds, Epochs
  <1> QED BY <1>1, Invariance, PTL

-----------------------------------------------------------------------------
(* The controller fence. *)

\* No mark a cell holds, or may find after a crash, is below the last epoch
\* it obeyed.
MarksHold ==
  \A c \in Cells : obeyed[c] <= ctl[c] /\ \A k \in ctlDisk[c] : obeyed[c] <= k

\* A request that passes the fence.
LEMMA PassedFence ==
  ASSUME TypeOK, MarksHold, NEW c \in Cells, NEW k \in 0..control, withControlFence(c, k)
  PROVE  MarksHold' /\ \A d \in Cells : obeyed'[d] >= obeyed[d]
  <1>1. /\ obeyed \in [Cells -> 0..MaxControl] /\ ctl \in [Cells -> 0..MaxControl]
        /\ ctlDisk \in [Cells -> SUBSET (0..MaxControl)] /\ k \in Nat
    <2>1. k \in Nat
      OBVIOUS
    <2> QED BY <2>1 DEF TypeOK
  <1>2. /\ obeyed' = [obeyed EXCEPT ![c] = k] /\ ctl' = [ctl EXCEPT ![c] = k] /\ k >= ctl[c]
        /\ ctlDisk' = ctlDisk \/ ctlDisk' = [ctlDisk EXCEPT ![c] = {k}]
        /\ k = 0 \/ ctlDisk' = [ctlDisk EXCEPT ![c] = {k}]
    <2>1. k = 0 \/ k > 0
      BY <1>1
    <2> QED BY <2>1 DEF withControlFence
  <1>3. ctl[c] \in Nat /\ obeyed[c] \in Nat /\ obeyed[c] <= ctl[c]
    BY <1>1 DEF MarksHold
  <1>4. \A d \in Cells \ {c} :
          obeyed'[d] = obeyed[d] /\ ctl'[d] = ctl[d] /\ ctlDisk'[d] = ctlDisk[d]
    BY <1>1, <1>2
  <1>5. obeyed'[c] = k /\ ctl'[c] = k /\ k >= obeyed[c]
    BY <1>1, <1>2, <1>3
  <1>6. \A j \in ctlDisk'[c] : k <= j
    <2>1. CASE k = 0
      <3>1. ctlDisk'[c] \in {ctlDisk[c], {k}}
        BY <1>1, <1>2
      <3> QED BY <1>1, <2>1, <3>1
    <2>2. CASE k # 0
      BY <1>1, <1>2, <2>2
    <2> QED BY <2>1, <2>2
  <1>7. \A d \in Cells : obeyed[d] \in Nat
    BY <1>1
  <1> QED BY <1>4, <1>5, <1>6, <1>7 DEF MarksHold

LEMMA MarksStep ==
  ASSUME TypeOK, MarksHold, [Next]_vars
  PROVE  MarksHold' /\ \A d \in Cells : obeyed'[d] >= obeyed[d]
  <1> USE DEF controller, journals, fences, runtime
  <1>0. /\ obeyed \in [Cells -> 0..MaxControl] /\ ctl \in [Cells -> 0..MaxControl]
        /\ ctlDisk \in [Cells -> SUBSET (0..MaxControl)]
    BY DEF TypeOK
  <1>1. CASE UNCHANGED fences
    BY <1>0, <1>1 DEF MarksHold
  <1>2. ASSUME NEW c \in Cells, CrashRestart(c)
        PROVE  MarksHold' /\ \A d \in Cells : obeyed'[d] >= obeyed[d]
    <2>1. PICK k \in ctlDisk[c] :
            ctl' = [ctl EXCEPT ![c] = k] /\ ctlDisk' = [ctlDisk EXCEPT ![c] = {k}]
      BY <1>2 DEF CrashRestart
    <2>2. obeyed' = obeyed
      BY <1>2 DEF CrashRestart
    <2> QED BY <1>0, <2>1, <2>2 DEF MarksHold
  <1>3. ASSUME NEW c \in Cells, NEW k \in 1..control, ControlFenceFails(c, k)
        PROVE  MarksHold' /\ \A d \in Cells : obeyed'[d] >= obeyed[d]
    <2>1. PICK s \in {ctlDisk[c], ctlDisk[c] \cup {k}} : ctlDisk' = [ctlDisk EXCEPT ![c] = s]
      BY <1>3 DEF ControlFenceFails, FailedWrite
    <2>2. ctl' = [ctl EXCEPT ![c] = k] /\ obeyed' = obeyed /\ k >= ctl[c]
      BY <1>3 DEF ControlFenceFails
    <2>3. obeyed[c] <= k /\ \A j \in s : obeyed[c] <= j
      <3>1. obeyed[c] \in Nat /\ ctl[c] \in Nat /\ k \in Nat /\ obeyed[c] <= ctl[c]
        BY <1>0, CellsAssumption DEF MarksHold, TypeOK
      <3>2. \A j \in ctlDisk[c] : obeyed[c] <= j
        BY DEF MarksHold
      <3>3. obeyed[c] <= k
        BY <2>2, <3>1
      <3> QED BY <2>1, <3>2, <3>3
    <2> QED BY <1>0, <2>1, <2>2, <2>3 DEF MarksHold
  <1>4. ASSUME NEW c \in Cells, NEW e \in Epochs, NEW k \in 0..control,
               withControlFence(c, k) \/ (k > 0 /\ ControlFenceFails(c, k))
        PROVE  MarksHold' /\ \A d \in Cells : obeyed'[d] >= obeyed[d]
    <2>1. k > 0 => k \in 1..control
      BY DEF TypeOK
    <2> QED BY <1>3, <1>4, <2>1, PassedFence
  <1>5. ASSUME NEW c \in Cells, NEW e \in Epochs, NEW k \in 1..control, Request(c, e, k)
        PROVE  MarksHold' /\ \A d \in Cells : obeyed'[d] >= obeyed[d]
    <2>1. k \in 0..control /\ k > 0
      BY DEF TypeOK
    <2> QED BY <1>4, <1>5, <2>1 DEF Request, PrepareSourceHandover, PrepareLocalProfile,
              ActivateLocalProfile, ClaimControl
  <1>6. ASSUME NEW c \in Cells, NEW e \in Epochs, NEW k \in 0..control, Reconcile(c, e, k)
        PROVE  MarksHold' /\ \A d \in Cells : obeyed'[d] >= obeyed[d]
    BY <1>4, <1>6 DEF Reconcile, ReconcileAssigned, ReconcileRemoved, ReconcilePreserved
  <1>7. CASE UNCHANGED vars
    BY <1>1, <1>7 DEF vars
  <1>8. CASE Commit \/ Takeover
    BY <1>1, <1>8 DEF Commit, Takeover
  <1>9. ASSUME NEW c \in Cells,
               \/ Depart(c) \/ StopVerified(c) \/ StopRefused(c) \/ Drain(c)
               \/ releaseStoppedAccount(c) \/ SafetyLock(c) \/ LockExpires(c)
        PROVE  MarksHold' /\ \A d \in Cells : obeyed'[d] >= obeyed[d]
    <2>1. ctl' = ctl /\ ctlDisk' = ctlDisk /\ obeyed' = obeyed
      BY <1>9 DEF Depart, StopVerified, StopRefused, Drain, releaseStoppedAccount, SafetyLock,
                  LockExpires
    <2> QED BY <1>1, <2>1
  <1> QED BY <1>2, <1>5, <1>6, <1>7, <1>8, <1>9 DEF Next

\* A cell never obeys a controller older than one it has obeyed, through any
\* number of crashes and failed writes of the controller journal.
THEOREM ControlTheorem == Spec => ControlNeverRegresses
  <1>1. Init => MarksHold
    BY DEF Init, MarksHold
  <1>2. TypeOK /\ MarksHold /\ [Next]_vars => MarksHold'
    BY MarksStep
  <1>3. TypeOK /\ MarksHold /\ [Next]_vars => [\A c \in Cells : obeyed'[c] >= obeyed[c]]_vars
    BY MarksStep
  <1> QED BY <1>1, <1>2, <1>3, TypeCorrect, PTL DEF Spec, ControlNeverRegresses

-----------------------------------------------------------------------------
(* The refinement. *)

\* The last runtime started is of a placement up to the last one, on its
\* cell; whatever runs is that runtime, of the last placement.
LastIsOwned ==
  /\ last.epoch <= Placed
  /\ last.epoch = Placed => last.cell = owner[Placed]
  /\ \A c \in Cells : app[c] # "none" => c = last.cell /\ last.epoch = Placed

\* The runtime of SingleOwner that a state shows.
Runner == IF last.cell # NoCell /\ app[last.cell] # "none" THEN last.cell ELSE NoCell

\* Steps that start nothing leave the last runtime as it was; what they end is
\* gone.
LEMMA Unstarted ==
  ASSUME IInv, LastIsOwned, owner' = owner, last' = last,
         \A c \in Cells : app'[c] # "none" => app[c] # "none"
  PROVE  LastIsOwned'
  BY DEF LastIsOwned, Placed

\* Every step starts the runtime of the last placement, or starts nothing.
LEMMA StartOrNot ==
  ASSUME IInv, [Next]_vars
  PROVE  \/ \E c \in Cells, e \in Epochs, k \in 0..control :
              ReconcileAssigned(c, e, k) /\ assigned[c] = 0
         \/ Commit
         \/ /\ owner' = owner /\ last' = last
            /\ \A c \in Cells : app'[c] # "none" => app[c] # "none"
  <1> DEFINE Rest == /\ owner' = owner /\ last' = last
                     /\ \A c \in Cells : app'[c] # "none" => app[c] # "none"
  <1> USE DEF controller, journals, fences, runtime
  <1>0. app \in [Cells -> {"none", "running", "stopping"}]
    BY DEF IInv, TypeOK
  <1>1. CASE UNCHANGED vars
    BY <1>1 DEF vars
  <1>2. CASE Takeover
    BY <1>2 DEF Takeover
  <1>3. ASSUME NEW c \in Cells,
               \/ Depart(c) \/ StopVerified(c) \/ StopRefused(c) \/ SafetyLock(c) \/ LockExpires(c)
        PROVE  Rest
    BY <1>3 DEF Depart, StopVerified, StopRefused, SafetyLock, LockExpires, Answer
  <1>4. ASSUME NEW c \in Cells, Drain(c) \/ releaseStoppedAccount(c) \/ CrashRestart(c)
        PROVE  Rest
    BY <1>0, <1>4 DEF Drain, releaseStoppedAccount, CrashRestart, RemoveAccount
  <1>5. ASSUME NEW c \in Cells, NEW e \in Epochs, NEW k, Request(c, e, k)
        PROVE  Rest
    <2>1. CASE PrepareSourceHandover(c, e, k)
      BY <1>0, <2>1 DEF PrepareSourceHandover, RemoveAccount
    <2>2. CASE \/ PrepareLocalProfile(c, e, k) \/ ActivateLocalProfile(c, e, k)
               \/ ControlFenceFails(c, k) \/ ClaimControl(c, k)
      BY <2>2 DEF PrepareLocalProfile, ActivateLocalProfile, ControlFenceFails, ClaimControl, Answer
    <2> QED BY <1>5, <2>1, <2>2 DEF Request
  <1>6. ASSUME NEW c \in Cells, NEW e \in Epochs, NEW k \in 0..control, Reconcile(c, e, k)
        PROVE  Rest \/ (ReconcileAssigned(c, e, k) /\ assigned[c] = 0)
    BY <1>6 DEF Reconcile, ReconcileAssigned, ReconcileRemoved, ReconcilePreserved
  <1> QED BY <1>1, <1>2, <1>3, <1>4, <1>5, <1>6 DEF Next

LEMMA LastStep ==
  ASSUME IInv, LastIsOwned, [Next]_vars
  PROVE  LastIsOwned'
  <1>1. CASE Commit
    <2>1. /\ app' = app /\ last' = last /\ owner' = Append(owner, dest) /\ phase = "prepared"
      BY <1>1 DEF Commit, runtime
    <2>2. Placed \in Nat /\ Placed' = Placed + 1 /\ last.epoch \in Nat
      BY <2>1, AppendProperties DEF IInv, TypeOK, DepartureIsBounded, Placed
    <2>3. \A c \in Cells : app[c] = "none"
      BY <2>1 DEF IInv, RunsWherePlaced
    <2> QED BY <2>1, <2>2, <2>3 DEF LastIsOwned
  <1>2. ASSUME NEW c \in Cells, NEW e \in Epochs, NEW k \in 0..control,
               ReconcileAssigned(c, e, k), assigned[c] = 0
        PROVE  LastIsOwned'
    <2>1. e = Placed /\ owner[Placed] = c /\ Placed' = Placed /\ owner' = owner
      BY <1>2, AssignedIsPlaced DEF ReconcileAssigned, controller, Placed
    <2>2. last' = [epoch |-> e, cell |-> c] /\ app' = [app EXCEPT ![c] = "running"] /\ e \in Nat
      BY <1>2 DEF ReconcileAssigned, Epochs, IInv, TypeOK
    <2>3. \A d \in Cells \ {c} : app'[d] = "none"
      BY <2>1, <2>2 DEF IInv, RunsWherePlaced, TypeOK
    <2> QED BY <2>1, <2>2, <2>3 DEF LastIsOwned
  <1> QED BY <1>1, <1>2, StartOrNot, Unstarted

LEMMA AbstractStep ==
  ASSUME IInv, LastIsOwned, LastIsOwned', [Next]_vars
  PROVE  [Abstract!Next]_(Abstract!vars)
  <1>0. /\ app \in [Cells -> {"none", "running", "stopping"}]
        /\ last \in [epoch : 0..MaxEpoch, cell : Cells \cup {NoCell}] /\ NoCell \notin Cells
    BY CellsAssumption DEF IInv, TypeOK
  <1>1. ASSUME NEW c \in Cells, NEW e \in Epochs, NEW k \in 0..control,
               ReconcileAssigned(c, e, k), assigned[c] = 0
        PROVE  Abstract!Next
    <2>1. e = Placed /\ owner[Placed] = c
      BY <1>1, AssignedIsPlaced
    <2>2. /\ last' = [epoch |-> e, cell |-> c] /\ app' = [app EXCEPT ![c] = "running"]
          /\ app[c] = "none"
      BY <1>1 DEF ReconcileAssigned
    <2>3. \A d \in Cells : app[d] = "none"
      BY <2>1, <2>2 DEF IInv, RunsWherePlaced
    <2>4. e \in Nat \ {0} /\ e >= last.epoch /\ (e = last.epoch => c = last.cell)
      BY <1>0, <2>1, CellsAssumption DEF LastIsOwned, Epochs
    <2>5. Runner = NoCell /\ Runner' = c
      BY <1>0, <2>2, <2>3 DEF Runner
    <2>6. Abstract!Start(c)
      BY <2>2, <2>4, <2>5 DEF Abstract!Start, Runner
    <2> QED BY <2>6 DEF Abstract!Next
  <1>2. ASSUME last' = last, \A c \in Cells : app'[c] # "none" => app[c] # "none"
        PROVE  [Abstract!Next]_(Abstract!vars)
    <2>1. Runner' \in {Runner, NoCell}
      BY <1>0, <1>2 DEF Runner
    <2>2. CASE Runner' = Runner
      BY <1>2, <2>2 DEF Abstract!vars, Runner
    <2>3. CASE Runner' # Runner
      <3>1. Abstract!Stop
        BY <1>2, <2>1, <2>3 DEF Abstract!Stop, Runner
      <3> QED BY <3>1 DEF Abstract!Next
    <2> QED BY <2>2, <2>3
  <1>3. CASE Commit
    BY <1>2, <1>3 DEF Commit, runtime
  <1> QED BY <1>1, <1>2, <1>3, StartOrNot

\* The cells, the journals and the controller together implement SingleOwner:
\* one runtime, growing generations, each on one cell.
THEOREM RefinementTheorem == Spec => ImplementsSingleOwner
  <1>1. Init => LastIsOwned /\ Abstract!Init
    BY DEF Init, LastIsOwned, Abstract!Init, Placed
  <1>2. IInv /\ LastIsOwned /\ [Next]_vars => LastIsOwned'
    BY LastStep
  <1>3. IInv /\ LastIsOwned /\ LastIsOwned' /\ [Next]_vars => [Abstract!Next]_(Abstract!vars)
    BY AbstractStep
  <1> QED BY <1>1, <1>2, <1>3, Invariance, PTL DEF Spec, ImplementsSingleOwner, Abstract!Spec

-----------------------------------------------------------------------------
(* The safety locks. *)

\* Only the profile of the last placement is locked, and only until its stop
\* is acknowledged.
LockedWherePlaced ==
  \A c \in Cells : lock[c] => c = owner[Placed] /\ phase \in {"placed", "stopping"}

LEMMA LockStep ==
  ASSUME IInv, LockedWherePlaced, [Next]_vars
  PROVE  LockedWherePlaced'
  <1> USE DEF controller, journals, fences, runtime
  <1>0. lock \in [Cells -> BOOLEAN]
    BY DEF IInv, TypeOK
  <1>1. CASE lock' = lock /\ owner' = owner /\ (phase' = phase \/ (phase = "placed" /\ phase' = "stopping"))
    BY <1>1 DEF LockedWherePlaced, Placed
  <1>2. CASE Commit
    BY <1>2 DEF Commit, LockedWherePlaced
  <1>3. ASSUME NEW c \in Cells, StopVerified(c) PROVE LockedWherePlaced'
    <2>1. lock' = lock /\ owner' = owner /\ ~lock[c] /\ owner[busy[c]] = c
      BY <1>3 DEF StopVerified, Answer, IInv, BusyIsFenced
    <2>2. CASE phase' = phase
      BY <2>1, <2>2 DEF LockedWherePlaced, Placed
    <2>3. CASE phase' # phase
      <3>1. busy[c] = Placed
        BY <1>3, <2>3 DEF StopVerified, Answer
      <3>2. \A d \in Cells : ~lock[d]
        BY <2>1, <3>1 DEF LockedWherePlaced
      <3> QED BY <2>1, <3>2 DEF LockedWherePlaced
    <2> QED BY <2>2, <2>3
  <1>4. ASSUME NEW c \in Cells, SafetyLock(c) PROVE LockedWherePlaced'
    <2>1. c = owner[Placed] /\ phase \in {"placed", "stopping"}
      BY <1>4 DEF SafetyLock, IInv, RunsWherePlaced
    <2> QED BY <1>0, <1>4, <2>1 DEF SafetyLock, LockedWherePlaced, Placed
  <1>5. ASSUME NEW c \in Cells, LockExpires(c) PROVE LockedWherePlaced'
    BY <1>0, <1>5 DEF LockExpires, LockedWherePlaced, Placed
  <1>6. ASSUME NEW c \in Cells, NEW e, NEW k, PrepareLocalProfile(c, e, k) PROVE LockedWherePlaced'
    <2>1. /\ lock' = lock /\ owner' = owner
          /\ phase' = phase \/ (phase = "stopped" /\ phase' = "prepared")
      BY <1>6 DEF PrepareLocalProfile, Answer
    <2> QED BY <2>1 DEF LockedWherePlaced, Placed
  <1>7. ASSUME NEW c \in Cells, NEW e, NEW k, Request(c, e, k) \/ Reconcile(c, e, k)
        PROVE  LockedWherePlaced'
    BY <1>1, <1>6, <1>7 DEF Request, Reconcile, PrepareSourceHandover, ActivateLocalProfile,
       ControlFenceFails, ClaimControl, ReconcileAssigned, ReconcileRemoved, ReconcilePreserved
  <1>8. ASSUME NEW c \in Cells,
               \/ Depart(c) \/ StopRefused(c) \/ Drain(c) \/ releaseStoppedAccount(c) \/ CrashRestart(c)
        PROVE  LockedWherePlaced'
    BY <1>1, <1>8 DEF Depart, StopRefused, Drain, releaseStoppedAccount, CrashRestart
  <1>9. CASE UNCHANGED vars \/ Takeover
    BY <1>1, <1>9 DEF vars, Takeover
  <1> QED BY <1>2, <1>3, <1>4, <1>5, <1>7, <1>8, <1>9 DEF Next

\* A handover is never a way around a live safety lock: while the profile on
\* one cell is locked, no other cell runs the account.
THEOREM CooldownTheorem == Spec => []CooldownFollowsAccount
  <1>1. Init => LockedWherePlaced
    BY DEF Init, LockedWherePlaced
  <1>2. IInv /\ LockedWherePlaced /\ [Next]_vars => LockedWherePlaced'
    BY LockStep
  <1>3. IInv /\ LockedWherePlaced => CooldownFollowsAccount
    BY DEF IInv, RunsWherePlaced, LockedWherePlaced, CooldownFollowsAccount
  <1> QED BY <1>1, <1>2, <1>3, Invariance, PTL DEF Spec
=============================================================================
