----------------------------- MODULE LaneSafety -----------------------------
(***************************************************************************)
(* Server/Intent/LaneSafety.go and Server/State/AutomationSafety.go: an    *)
(* unclassified rejection closes the automation lane it came from for 30   *)
(* minutes.  The lock is a field of the lane's automation record, which    *)
(* the automation coordinator rewrites too, and is saved with the account  *)
(* profile.  laneSafety.mu makes a check, a guarded rejection and a review *)
(* one step each: apply to the state, then persist.  persist is the save   *)
(* of the state worker, which may report an error for what it wrote and    *)
(* acknowledge what it did not (StatePersistence, AcknowledgedIsDurable):  *)
(* its answer says nothing of the disk.                                    *)
(***************************************************************************)
EXTENDS Runtime

CONSTANTS
    Lanes,       \* automation lanes
    NoLane,      \* the lane of a request that is not an automation's
    Lane,        \* requestLane: [Ops -> Lanes \cup {NoLane}]
    LockTicks    \* AutomationSafetyLockDuration

ASSUME LaneAssumption == Lane \in [Ops -> Lanes \cup {NoLane}] /\ NoLane \notin Lanes
ASSUME LockTicksAssumption == LockTicks \in Nat \ {0}

VARIABLES
    lock,      \* Automations[lane].SafetyLock in the state store
    saved,     \* the same field in the account profile on disk
    base,      \* <<the coordinator's view of the field>>, or NoView
    incident,  \* observation time of the last lock this process has for a lane
    durable    \* observation time of the last lock that reached the disk

laneVars == <<lock, saved, base, incident, durable>>

Never == -1
NoView == << >>
Locks == [op : Ops \cup {NoOp}, observedAt : Instants, cleared : BOOLEAN]
NoLock == [op |-> NoOp, observedAt |-> 0, cleared |-> FALSE]

\* A lock nobody has cleared, and AutomationSafetyLock.Active at instant t.
Standing(k) == k.op # NoOp /\ ~k.cleared
Active(k, t) == Standing(k) /\ t < k.observedAt + LockTicks

LaneTypeOK ==
    /\ lock \in [Lanes -> Locks]
    /\ saved \in [Lanes -> Locks]
    /\ base \in [Lanes -> {<<k>> : k \in Locks} \cup {NoView}]
    /\ {incident, durable} \subseteq [Lanes -> Instants \cup {Never}]

LaneInit ==
    /\ lock = [l \in Lanes |-> NoLock]
    /\ saved = lock
    /\ base = [l \in Lanes |-> NoView]
    /\ incident = [l \in Lanes |-> Never]
    /\ durable = incident

-----------------------------------------------------------------------------
\* checkLaneSafety lets the request through.
laneOpen(o) ==
    Lane[o] \in Lanes => ~Active(lock[Lane[o]], now)

\* The disk holds one of these contents now.
onDisk(contents) ==
    /\ saved' \in contents
    /\ durable' = [l \in Lanes |->
                     IF Standing(saved'[l]) THEN saved'[l].observedAt ELSE durable[l]]

\* The disk after a persist of the new locks, whatever it reports.
persisted(locks) == onDisk({saved, locks})

\* writeLaneLock: the state, then the disk.
writeLaneLock(l, k) ==
    /\ lock' = [lock EXCEPT ![l] = k]
    /\ persisted(lock')

\* guardRejection of an unclassified rejection: the lane's active lock stands,
\* otherwise this operation's lock is written, saved or not.
guardRejection(o) ==
    LET l == Lane[o] IN
    IF l = NoLane \/ ~laneOpen(o) THEN UNCHANGED laneVars
    ELSE /\ writeLaneLock(l, [op |-> o, observedAt |-> now, cleared |-> FALSE])
         /\ incident' = [incident EXCEPT ![l] = now]
         /\ UNCHANGED base

\* ClearAutomationLaneLock(l, o), a review of the incident of operation o: it
\* is refused while the lock is active, and the lock is put back when the save
\* of the cleared one is reported as failed (and saved once more).
clearLock(l, o) ==
    LET original == lock[l]
        reviewed == [original EXCEPT !.cleared = TRUE]
    IN /\ original.op = o /\ o # NoOp /\ ~original.cleared
       /\ ~Active(original, now)
       /\ \/ writeLaneLock(l, reviewed)
          \/ lock' = lock /\ onDisk({saved, lock, [lock EXCEPT ![l] = reviewed]})
       /\ UNCHANGED <<base, incident>>

\* applyAutomationUpdates of the coordinator, first half: the view its updates
\* are computed from.
viewAutomation(l) ==
    /\ base[l] = NoView
    /\ base' = [base EXCEPT ![l] = <<lock[l]>>]
    /\ UNCHANGED <<lock, saved, incident, durable>>

\* MUTANT: the record computed from the view is stored whatever is there now.
commitAutomation_Stale(l) ==
    /\ base[l] # NoView
    /\ lock' = [lock EXCEPT ![l] = base[l][1]]
    /\ base' = [base EXCEPT ![l] = NoView]
    /\ UNCHANGED <<saved, incident, durable>>

\* Second half: the record computed from the view is stored if the record has
\* not moved since, and is computed again from what is stored otherwise.
commitAutomation(l) ==
    /\ base[l] # NoView
    /\ lock' = [lock EXCEPT ![l] = IF @ = base[l][1] THEN base[l][1] ELSE @]
    /\ base' = [base EXCEPT ![l] = NoView]
    /\ UNCHANGED <<saved, incident, durable>>

\* The state persistence worker saves the automations with its next flush.
flushState ==
    /\ saved # lock
    /\ onDisk({lock})
    /\ UNCHANGED <<lock, base, incident>>

\* A new process: the state is what was saved, and RefreshAutomationLaneLocks
\* clears the expired locks and saves; when that fails, startup is aborted.
refreshed(k) ==
    IF k.op # NoOp /\ now >= k.observedAt + LockTicks THEN [k EXCEPT !.cleared = TRUE] ELSE k

restartLanes ==
    /\ lock' = [l \in Lanes |-> refreshed(saved[l])]
    /\ persisted(lock')
    /\ base' = [l \in Lanes |-> NoView]
    /\ incident' = durable
=============================================================================
