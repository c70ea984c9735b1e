----------------------------- MODULE Operations -----------------------------
(***************************************************************************)
(* The life of one intent operation in the engine (Server/Intent/Engine.go,*)
(* OperationStore.go, Drain.go): reservation by idempotency key, execution,*)
(* the durable row in SQLite, the bounded in-memory receipt history, drain *)
(* and restart.  All operations here are mutating ("durable" in the code). *)
(*                                                                         *)
(* Actors: submitters run prepare and execute, readers run Operation(id).  *)
(* A step is one critical section of engine.mu together with the database  *)
(* call before it, except where another actor can come between the two:    *)
(* the final Save and its publication, and the read of Operation(id).      *)
(* A plan has Steps steps that count as progress, and between them steps    *)
(* with the policy ResumeRebuild, which every attempt sends anew.           *)
(* Admission, claims and the protocol of one dispatch have modules of their *)
(* own.                                                                     *)
(***************************************************************************)
EXTENDS Integers, Sequences, FiniteSets

CONSTANTS
    Submitters,    \* goroutines that call Submit or run SubmitDetached
    Readers,       \* goroutines that call Operation(id)
    Ids,           \* operation ids chosen by clients
    Bodies,        \* request fingerprints
    Steps,         \* how many steps a plan has
    MemoryLimit,   \* operationMemoryLimit
    HistoryLimit,  \* operationHistoryLimit
    MaxDispatches, \* bound on the sends of a step that stand
    MaxCrashes     \* bound on restarts

Actors == Submitters \cup Readers
NoBody == "no body"
NoId == "no id"

ASSUME ActorsAssumption == Submitters \cap Readers = {}
ASSUME NamesAssumption == NoBody \notin Bodies /\ NoId \notin Ids
ASSUME BoundsAssumption ==
    /\ {Steps, MemoryLimit, HistoryLimit, MaxDispatches} \subseteq Nat \ {0}
    /\ MaxCrashes \in Nat

VARIABLES
    pc,          \* where each actor is
    target,      \* the id it works on
    body,        \* the fingerprint of its request
    progress,    \* completedSteps: how many steps its execution completed
    outcome,     \* the terminal status its execution will record
    fetched,     \* the row a reader took from the store
    memory,      \* engine.operations: status per id
    hashes,      \* engine.requestHashes
    order,       \* engine.operationOrder, oldest first
    marked,      \* engine.durableOperations
    active,      \* engine.active
    row,         \* the durable rows: status and fingerprint
    drain,       \* "open", "draining" (engine.draining) or "drained"
    dispatched,  \* history: ids of which anything was sent
    standing,    \* history: sends per id and step that stand: acknowledged,
                 \* refused for good or of unknown outcome
    applied,     \* history: steps the game acknowledged, per id
    decided,     \* history: outcomes executions reached per id
    pruned,      \* history: ids whose rows were pruned at a restart
    crashes

engineVars == <<memory, hashes, order, marked, active>>
actorVars == <<pc, target, body, progress, outcome, fetched>>
historyVars == <<dispatched, standing, applied, decided, pruned, crashes>>
vars == <<actorVars, engineVars, row, drain, historyVars>>

Open == {"planning", "running", "paused"}
\* "failed" stands for failed and cancelled, "partial" for partially_succeeded.
Terminal == {"succeeded", "failed", "partial", "indeterminate"}
Definite == Terminal \ {"indeterminate"}
Statuses == Open \cup Terminal \cup {"none"}
NoRow == [status |-> "none", body |-> NoBody]
Rows == [status : Statuses, body : Bodies \cup {NoBody}]
\* Between prepare's registration and execute's deferred unregisterActive:
\* the operations engine.inflight counts.
Executing == {"active", "running", "closing", "publishing", "unsaved",
              "retracting", "leaving"}

TypeOK ==
    /\ pc \in [Actors -> {"idle", "reserved", "lookup", "fetched"} \cup Executing]
    /\ target \in [Actors -> Ids \cup {NoId}]
    /\ body \in [Actors -> Bodies \cup {NoBody}]
    /\ progress \in [Actors -> 0..Steps]
    /\ outcome \in [Actors -> Terminal \cup {"none"}]
    /\ fetched \in [Actors -> Rows]
    /\ memory \in [Ids -> Statuses]
    /\ hashes \in [Ids -> Bodies \cup {NoBody}]
    /\ order \in Seq(Ids)
    /\ marked \subseteq Ids
    /\ active \subseteq Ids
    /\ row \in [Ids -> Rows]
    /\ drain \in {"open", "draining", "drained"}
    /\ dispatched \subseteq Ids
    /\ standing \in [Ids -> [1..Steps -> 0..MaxDispatches]]
    /\ applied \in [Ids -> 0..Steps]
    /\ decided \in [Ids -> SUBSET Terminal]
    /\ pruned \subseteq Ids
    /\ crashes \in 0..MaxCrashes

Init ==
    /\ pc = [a \in Actors |-> "idle"]
    /\ target = [a \in Actors |-> NoId]
    /\ body = [a \in Actors |-> NoBody]
    /\ progress = [a \in Actors |-> 0]
    /\ outcome = [a \in Actors |-> "none"]
    /\ fetched = [a \in Actors |-> NoRow]
    /\ memory = [i \in Ids |-> "none"]
    /\ hashes = [i \in Ids |-> NoBody]
    /\ order = <<>>
    /\ marked = {}
    /\ active = {}
    /\ row = [i \in Ids |-> NoRow]
    /\ drain = "open"
    /\ dispatched = {}
    /\ standing = [i \in Ids |-> [k \in 1..Steps |-> 0]]
    /\ applied = [i \in Ids |-> 0]
    /\ decided = [i \in Ids |-> {}]
    /\ pruned = {}
    /\ crashes = 0

-----------------------------------------------------------------------------
(* The in-memory history: cacheOperationLocked, evictOperationHistoryLocked *)

Positions(ord, S) == {k \in 1..Len(ord) : ord[k] \in S}

\* The ids one eviction pass drops: oldest first, active ones are rotated to
\* the back instead, until MemoryLimit receipts are left.
Evicted(ord) ==
    LET idle == Positions(ord, Ids \ active)
    IN  {ord[k] : k \in {j \in idle :
            Cardinality({l \in idle : l < j}) < Len(ord) - MemoryLimit}}

\* operationOrder after the pass: what was behind the last evicted id, then
\* the active ids that were rotated past.
Rotated(ord, gone) ==
    LET Kept(i) == i \notin gone
        last == CHOOSE k \in Positions(ord, gone) : \A l \in Positions(ord, gone) : l <= k
    IN  IF gone = {} THEN ord
        ELSE SubSeq(ord, last + 1, Len(ord)) \o SelectSeq(SubSeq(ord, 1, last), Kept)

\* Cache status (and fingerprint) for id i, with marks the new value of
\* durableOperations, then evict.
cacheOperationLocked(i, status, hash, marks) ==
    LET ord  == IF \E k \in DOMAIN order : order[k] = i THEN order ELSE Append(order, i)
        gone == Evicted(ord)
    IN  /\ memory' = [j \in Ids |-> IF j \in gone THEN "none"
                                    ELSE IF j = i THEN status ELSE memory[j]]
        /\ hashes' = [j \in Ids |-> IF j \in gone THEN NoBody
                                    ELSE IF j = i THEN hash ELSE hashes[j]]
        /\ marked' = marks \ gone
        /\ order' = Rotated(ord, gone)

\* publishLocked: the fingerprint is left as it is.
publishLocked(i, status) == cacheOperationLocked(i, status, hashes[i], marked)

-----------------------------------------------------------------------------
(* prepare                                                                 *)

Free(a) ==
    /\ pc' = [pc EXCEPT ![a] = "idle"]
    /\ target' = [target EXCEPT ![a] = NoId]
    /\ body' = [body EXCEPT ![a] = NoBody]
    /\ progress' = [progress EXCEPT ![a] = 0]
    /\ outcome' = [outcome EXCEPT ![a] = "none"]
    /\ fetched' = [fetched EXCEPT ![a] = NoRow]

\* reserveOperation for a new id.  prepare holds admissionMu for reading from
\* here until the operation is active.  A known id is answered at once with
\* its receipt, or refused when the fingerprint differs: nothing changes.
reserveOperation(a, i, b) ==
    /\ pc[a] = "idle"
    /\ drain = "open"
    /\ memory[i] = "none"
    /\ pc' = [pc EXCEPT ![a] = "reserved"]
    /\ target' = [target EXCEPT ![a] = i]
    /\ body' = [body EXCEPT ![a] = b]
    /\ cacheOperationLocked(i, "planning", b, marked)
    /\ UNCHANGED <<progress, outcome, fetched, active, row, drain, historyVars>>

\* registerActive: the second submission of an id that is running answers
\* with Operation(id).
registerActive(a) ==
    /\ pc[a] = "reserved"
    /\ IF target[a] \in active
       THEN pc' = [pc EXCEPT ![a] = "lookup"] /\ UNCHANGED active
       ELSE pc' = [pc EXCEPT ![a] = "active"] /\ active' = active \cup {target[a]}
    /\ UNCHANGED <<target, body, progress, outcome, fetched, memory, hashes, order,
                   marked, row, drain, historyVars>>

-----------------------------------------------------------------------------
(* execute                                                                 *)

Decide(a, status) ==
    /\ outcome' = [outcome EXCEPT ![a] = status]
    /\ decided' = [decided EXCEPT ![target[a]] = @ \cup {status}]

\* MUTANT: the partial status is not assigned.
FailureAfter_Unset(done) == IF done > 0 THEN "running" ELSE "failed"

\* failAfterProgress: a definitive failure after completed steps is partial.
FailureAfter(done) == IF done > 0 THEN "partial" ELSE "failed"

\* The lane check, planning, the gate before claims, admission or claims end
\* the operation: execute calls fail, whatever was completed before a pause.
failWhilePlanning(a) ==
    /\ pc[a] = "active"
    /\ pc' = [pc EXCEPT ![a] = "closing"]
    /\ Decide(a, "failed")
    /\ UNCHANGED <<target, body, progress, fetched, engineVars, row, drain,
                   dispatched, standing, applied, pruned, crashes>>

\* The gate before a step or the step itself fails before its dispatch.
failBeforeDispatch(a) ==
    /\ pc[a] = "running"
    /\ pc' = [pc EXCEPT ![a] = "closing"]
    /\ Decide(a, FailureAfter(progress[a]))
    /\ UNCHANGED <<target, body, progress, fetched, engineVars, row, drain,
                   dispatched, standing, applied, pruned, crashes>>

\* reserveDurableOperation, then update to "running".  An id that is marked
\* durable skips the store.
skipReserve(a) ==
    /\ pc[a] = "active"
    /\ target[a] \in marked
    /\ pc' = [pc EXCEPT ![a] = "running"]
    /\ publishLocked(target[a], "running")
    /\ UNCHANGED <<target, body, progress, outcome, fetched, active, row, drain, historyVars>>

\* The row is inserted, in phase "dispatching", and the id marked.
reserveDurableOperation(a) ==
    /\ pc[a] = "active"
    /\ target[a] \notin marked
    /\ row[target[a]] = NoRow
    /\ row' = [row EXCEPT ![target[a]] = [status |-> "running", body |-> body[a]]]
    /\ pc' = [pc EXCEPT ![a] = "running"]
    /\ cacheOperationLocked(target[a], "running", hashes[target[a]], marked \cup {target[a]})
    /\ UNCHANGED <<target, body, progress, outcome, fetched, active, drain, historyVars>>

\* MUTANT: execution continues although Reserve found a row.
adoptExisting_Continues(a) ==
    /\ pc[a] = "active"
    /\ target[a] \notin marked
    /\ row[target[a]] # NoRow
    /\ row[target[a]].body = body[a]
    /\ pc' = [pc EXCEPT ![a] = "running"]
    /\ cacheOperationLocked(target[a], row[target[a]].status, body[a], marked \cup {target[a]})
    /\ UNCHANGED <<target, body, progress, outcome, fetched, active, row, drain, historyVars>>

\* The same request has a row already: it is cached and returned, and nothing
\* is published.
adoptExisting(a) ==
    /\ pc[a] = "active"
    /\ target[a] \notin marked
    /\ row[target[a]] # NoRow
    /\ row[target[a]].body = body[a]
    /\ pc' = [pc EXCEPT ![a] = "leaving"]
    /\ cacheOperationLocked(target[a], row[target[a]].status, body[a], marked \cup {target[a]})
    /\ UNCHANGED <<target, body, progress, outcome, fetched, active, row, drain, historyVars>>

\* MUTANT: the error of Reserve is ignored.
persistenceFailure_Ignored(a) ==
    /\ pc[a] = "active"
    /\ target[a] \notin marked
    /\ pc' = [pc EXCEPT ![a] = "running"]
    /\ publishLocked(target[a], "running")
    /\ UNCHANGED <<target, body, progress, outcome, fetched, active, row, drain, historyVars>>

\* Reserve fails: I/O, or the row belongs to another request.  "failed" is
\* published and not saved.
persistenceFailure(a) ==
    /\ pc[a] = "active"
    /\ target[a] \notin marked
    /\ pc' = [pc EXCEPT ![a] = "leaving"]
    /\ publishLocked(target[a], "failed")
    /\ UNCHANGED <<target, body, progress, outcome, fetched, active, row, drain, historyVars>>

\* pause: the automation lock makes the operation yield before a dispatch.
\* "paused" is a durable checkpoint; the loop then starts over, and steps that
\* were completed are skipped.
pause(a) ==
    /\ pc[a] \in {"active", "running"}
    /\ pc' = [pc EXCEPT ![a] = "active"]
    /\ publishLocked(target[a], "paused")
    /\ \/ row' = IF target[a] \in marked THEN [row EXCEPT ![target[a]].status = "paused"] ELSE row
       \/ UNCHANGED row   \* Save failed; pause ignores it
    /\ UNCHANGED <<target, body, progress, outcome, fetched, active, drain, historyVars>>

\* The attempt ends stale with no step completed: the loop plans again.
\* "planning" is not a durable checkpoint.
planAgain(a) ==
    /\ progress[a] = 0
    /\ pc' = [pc EXCEPT ![a] = "active"]
    /\ publishLocked(target[a], "planning")

\* The plan is found stale before a dispatch.  maximumStaleReplans is left
\* open: the last replan is failBeforeDispatch.
replan(a) ==
    /\ pc[a] = "running"
    /\ planAgain(a)
    /\ UNCHANGED <<target, body, progress, outcome, fetched, active, row, drain, historyVars>>

\* A refusal that lets the engine send the step again: a code of the step's
\* ResponseRetry (the loop goes round; its gate and its guard are the other
\* actions of a running operation), or a stale code while no step is completed.
refusedForNow(a) ==
    \/ UNCHANGED <<pc, engineVars>>
    \/ planAgain(a) /\ UNCHANGED active

\* MUTANT: retryableStepResponse does not ask whether the outcome is unknown.
notAcknowledged_Retries(a) ==
    UNCHANGED <<pc, outcome, decided, engineVars>>

\* A refusal for good, or an outcome nobody knows, ends the operation.
notAcknowledged(a) ==
    /\ pc' = [pc EXCEPT ![a] = "closing"]
    /\ \E status \in {FailureAfter(progress[a]), "indeterminate"} : Decide(a, status)
    /\ UNCHANGED engineVars

\* The next step that counts is completed; the last one is a success.
acknowledged(a) ==
    LET k == progress[a] + 1
    IN  /\ progress' = [progress EXCEPT ![a] = k]
        /\ applied' = [applied EXCEPT ![target[a]] = IF k > @ THEN k ELSE @]
        /\ IF k = Steps
           THEN pc' = [pc EXCEPT ![a] = "closing"] /\ Decide(a, "succeeded")
           ELSE UNCHANGED <<pc, outcome, decided>>
        /\ UNCHANGED engineVars

\* A step is sent, and the game refuses it for now.
dispatchRefused(a) ==
    /\ pc[a] = "running"
    /\ dispatched' = dispatched \cup {target[a]}
    /\ refusedForNow(a)
    /\ UNCHANGED <<target, body, progress, outcome, fetched, row, drain, standing,
                   applied, decided, pruned, crashes>>

\* A ResumeRebuild step is sent: an acknowledged one is no progress.
dispatchRebuild(a) ==
    /\ pc[a] = "running"
    /\ dispatched' = dispatched \cup {target[a]}
    /\ UNCHANGED <<pc, outcome, decided, engineVars>> \/ notAcknowledged(a)
    /\ UNCHANGED <<target, body, progress, fetched, row, drain, standing, applied,
                   pruned, crashes>>

\* The next step that counts is sent, and the send stands.
dispatch(a) ==
    LET k == progress[a] + 1
    IN  /\ pc[a] = "running"
        /\ standing[target[a]][k] < MaxDispatches
        /\ dispatched' = dispatched \cup {target[a]}
        /\ standing' = [standing EXCEPT ![target[a]][k] = @ + 1]
        /\ acknowledged(a) \/ (notAcknowledged(a) /\ UNCHANGED <<progress, applied>>)
        /\ UNCHANGED <<target, body, fetched, row, drain, pruned, crashes>>

\* update with the final receipt, first half: Save when the id is marked.
\* Only the failed save of a success is noticed.
saveFinal(a) ==
    LET i == target[a]
        unsaved == i \in marked /\ outcome[a] = "succeeded"
    IN  /\ pc[a] = "closing"
        /\ \/ /\ pc' = [pc EXCEPT ![a] = "publishing"]
              /\ row' = IF i \in marked THEN [row EXCEPT ![i].status = outcome[a]] ELSE row
           \/ /\ i \in marked
              /\ pc' = [pc EXCEPT ![a] = IF unsaved THEN "unsaved" ELSE "publishing"]
              /\ UNCHANGED row
        /\ UNCHANGED <<target, body, progress, outcome, fetched, engineVars, drain, historyVars>>

\* The final update, second half.
publishFinal(a) ==
    /\ pc[a] \in {"publishing", "unsaved"}
    /\ pc' = [pc EXCEPT ![a] = IF @ = "unsaved" THEN "retracting" ELSE "leaving"]
    /\ publishLocked(target[a], outcome[a])
    /\ UNCHANGED <<target, body, progress, outcome, fetched, active, row, drain, historyVars>>

\* The success that could not be saved is published again as indeterminate.
retract(a) ==
    /\ pc[a] = "retracting"
    /\ pc' = [pc EXCEPT ![a] = "leaving"]
    /\ publishLocked(target[a], "indeterminate")
    /\ UNCHANGED <<target, body, progress, outcome, fetched, active, row, drain, historyVars>>

\* execute's deferred unregisterActive.
unregisterActive(a) ==
    /\ pc[a] = "leaving"
    /\ active' = active \ {target[a]}
    /\ Free(a)
    /\ UNCHANGED <<memory, hashes, order, marked, row, drain, historyVars>>

-----------------------------------------------------------------------------
(* Operation(id)                                                           *)

startLookup(r, i) ==
    /\ pc[r] = "idle"
    /\ pc' = [pc EXCEPT ![r] = "lookup"]
    /\ target' = [target EXCEPT ![r] = i]
    /\ UNCHANGED <<body, progress, outcome, fetched, engineVars, row, drain, historyVars>>

\* A receipt in memory answers; otherwise the store is read without the lock.
lookup(a) ==
    /\ pc[a] = "lookup"
    /\ IF memory[target[a]] # "none" \/ row[target[a]] = NoRow
       THEN Free(a)
       ELSE /\ pc' = [pc EXCEPT ![a] = "fetched"]
            /\ fetched' = [fetched EXCEPT ![a] = row[target[a]]]
            /\ UNCHANGED <<target, body, progress, outcome>>
    /\ UNCHANGED <<engineVars, row, drain, historyVars>>

\* The row is marked durable and cached, whatever happened in between.
cacheFetched(a) ==
    /\ pc[a] = "fetched"
    /\ cacheOperationLocked(target[a], fetched[a].status, fetched[a].body, marked \cup {target[a]})
    /\ Free(a)
    /\ UNCHANGED <<active, row, drain, historyVars>>

-----------------------------------------------------------------------------
(* Drain.go                                                                *)

\* MUTANT: admissionMu is not taken for writing.
beginDrain_NoWait ==
    /\ drain = "open"
    /\ drain' = "draining"
    /\ UNCHANGED <<actorVars, engineVars, row, historyVars>>

\* FinishOpen closes admission under the write lock of admissionMu, which
\* waits for every prepare that is past its own check.
beginDrain ==
    /\ drain = "open"
    /\ \A a \in Submitters : pc[a] \notin {"reserved", "lookup", "fetched"}
    /\ drain' = "draining"
    /\ UNCHANGED <<actorVars, engineVars, row, historyVars>>

\* FinishOpen finds engine.inflight at zero and returns, admission closed.
finishDrain ==
    /\ drain = "draining"
    /\ \A a \in Submitters : pc[a] \notin Executing
    /\ drain' = "drained"
    /\ UNCHANGED <<actorVars, engineVars, row, historyVars>>

\* A failed wait, or the owner, restores admission.
ResumeAdmission ==
    /\ drain # "open"
    /\ drain' = "open"
    /\ UNCHANGED <<actorVars, engineVars, row, historyVars>>

-----------------------------------------------------------------------------
(* Restart: OpenOperationStore prunes, Recover settles the open rows, and  *)
(* SetOperationStore loads the memory window                               *)

AtMost(S, limit) == IF Cardinality(S) > limit THEN limit ELSE Cardinality(S)

\* MUTANT: an interrupted operation counts as failed.
Recovered_Failed(r) ==
    IF r.status \in Open THEN [r EXCEPT !.status = "failed"] ELSE r

\* Recover: a row that was not terminal may have been dispatched.
Recovered(r) ==
    IF r.status \in Open THEN [r EXCEPT !.status = "indeterminate"] ELSE r

\* pruneTerminalHistory keeps HistoryLimit terminal rows, chosen by their time
\* of update, which is abstracted to any choice.
pruneTerminalHistory(lost) ==
    LET terminal == {i \in Ids : row[i].status \in Terminal}
    IN  /\ lost \subseteq terminal
        /\ Cardinality(terminal \ lost) = AtMost(terminal, HistoryLimit)

\* The memory window: the most recently reserved rows, oldest first.
loadRecent(rows) ==
    LET stored == {i \in Ids : rows[i] # NoRow}
    IN  \E ord \in [1..AtMost(stored, MemoryLimit) -> stored] :
          /\ \A k, l \in DOMAIN ord : k # l => ord[k] # ord[l]
          /\ LET window == {ord[k] : k \in DOMAIN ord}
             IN  /\ order' = ord
                 /\ memory' = [i \in Ids |-> IF i \in window THEN rows[i].status ELSE "none"]
                 /\ hashes' = [i \in Ids |-> IF i \in window THEN rows[i].body ELSE NoBody]
                 /\ marked' = window

\* The process dies and starts again.
CrashAndRecover ==
    /\ crashes < MaxCrashes
    /\ crashes' = crashes + 1
    /\ \E lost \in SUBSET Ids :
          /\ pruneTerminalHistory(lost)
          /\ row' = [i \in Ids |-> IF i \in lost THEN NoRow ELSE Recovered(row[i])]
          /\ pruned' = pruned \cup lost
    /\ loadRecent(row')
    /\ active' = {}
    /\ drain' = "open"
    /\ pc' = [a \in Actors |-> "idle"]
    /\ target' = [a \in Actors |-> NoId]
    /\ body' = [a \in Actors |-> NoBody]
    /\ progress' = [a \in Actors |-> 0]
    /\ outcome' = [a \in Actors |-> "none"]
    /\ fetched' = [a \in Actors |-> NoRow]
    /\ UNCHANGED <<dispatched, standing, applied, decided>>

-----------------------------------------------------------------------------
Execute(a) ==
    \/ registerActive(a) \/ failWhilePlanning(a) \/ skipReserve(a)
    \/ reserveDurableOperation(a) \/ adoptExisting(a) \/ persistenceFailure(a)
    \/ pause(a) \/ replan(a) \/ failBeforeDispatch(a)
    \/ dispatch(a) \/ dispatchRefused(a) \/ dispatchRebuild(a)
    \/ saveFinal(a) \/ publishFinal(a) \/ retract(a) \/ unregisterActive(a)

Next ==
    \/ \E a \in Submitters :
          \/ \E i \in Ids, b \in Bodies : reserveOperation(a, i, b)
          \/ Execute(a)
    \/ \E r \in Readers, i \in Ids : startLookup(r, i)
    \/ \E a \in Actors : lookup(a) \/ cacheFetched(a)
    \/ beginDrain \/ finishDrain \/ ResumeAdmission
    \/ CrashAndRecover

Spec == Init /\ [][Next]_vars

-----------------------------------------------------------------------------
(* Properties                                                              *)

\* The idempotency key works: whatever is paused, planned again, evicted,
\* drained or lost in a crash, a step that counts as progress is sent again
\* only after the game refused every earlier send of it with a retry or a stale
\* code.  A step that was acknowledged, or whose outcome is unknown, is never
\* sent again under its id, until the id's row is pruned from the durable
\* history (execute, reserveOperation and reserveDurableOperation).
AtMostOnce ==
    \A i \in Ids \ pruned : \A k \in 1..Steps : standing[i][k] <= 1

\* Nobody is at an id that another actor is about to mark or to execute on old
\* knowledge: a lookup of its evicted receipt stands between the read of the
\* row and the mark (Operation), or a reservation was evicted and made again
\* before the first one registered (reserveOperation, registerActive).
Uncrossed ==
    \A a \in Submitters : \A b \in Actors \ {a} :
        /\ pc[a] \in Executing \cup {"reserved"}
        /\ pc[b] \in {"reserved", "fetched"}
        => target[a] # target[b]

\* What the engine does give when receipts are evicted: no step is sent again
\* without the game's refusal as long as no two actors cross there.
AtMostOnceUnlessCrossed == []Uncrossed => []AtMostOnce

\* Write-ahead: nothing is dispatched before the store holds a row, and until
\* an execution decides the outcome the row claims no definite one, so that
\* recovery reads it as "possibly dispatched" (reserveDurableOperation, pause,
\* Recover).
WriteAhead ==
    \A i \in Ids \ pruned :
        i \in dispatched =>
            /\ row[i] # NoRow
            /\ decided[i] = {} => row[i].status \notin Definite

\* The store never claims an outcome that no execution reached: a success has
\* all its steps acknowledged, a partial success some, and a definite outcome
\* was decided by an execution and is never made up by Recover.
RowsAreTruthful ==
    \A i \in Ids :
        /\ row[i].status = "succeeded" => applied[i] = Steps
        /\ row[i].status = "partial" => applied[i] > 0
        /\ row[i].status \in Definite => row[i].status \in decided[i]

\* Closing admission is airtight: when FinishOpen has returned, no operation
\* is registered or executing, those being admitted as it started included.
DrainedIsIdle ==
    drain = "drained" => active = {} /\ \A a \in Submitters : pc[a] \notin Executing \cup {"reserved"}

=============================================================================
