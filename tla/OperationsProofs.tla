-------------------------- MODULE OperationsProofs --------------------------
(***************************************************************************)
(* Proofs about Operations, for every value of its constants: write-ahead  *)
(* of the durable row, the airtight drain, truthful rows, and dispatch at  *)
(* most once.  Of the memory history they need that an eviction can only   *)
(* shrink durableOperations (CacheShrinks) and takes the mark together     *)
(* with the receipt (CacheKeepsMarks).  The last section is about a memory *)
(* window that holds every id, where nothing is ever evicted.              *)
(***************************************************************************)
EXTENDS Operations, FiniteSetTheorems, TLAPS

\* The part of the type invariant that the proofs use: operationOrder and the
\* contents of the memory window are left out.
Typed ==
    /\ pc \in [Actors -> {"idle", "reserved", "lookup", "fetched"} \cup Executing]
    /\ target \in [Actors -> Ids \cup {NoId}]
    /\ body \in [Actors -> Bodies \cup {NoBody}]
    /\ outcome \in [Actors -> Terminal \cup {"none"}]
    /\ marked \subseteq Ids
    /\ active \subseteq Ids
    /\ row \in [Ids -> Rows]
    /\ dispatched \subseteq Ids
    /\ standing \in [Ids -> [1..Steps -> Int]]
    /\ pruned \subseteq Ids

\* An actor that is not idle works on an id, and an execution that is about
\* to save its final receipt has decided an outcome.
Targeted ==
    \A a \in Actors :
        /\ pc[a] # "idle" => target[a] \in Ids
        /\ pc[a] = "closing" => outcome[a] \in Terminal

\* Why write-ahead is inductive: an id is marked durable only when its row is
\* in the store, a running execution has passed a mark or an insert, and a
\* fetched row was read from the store; rows disappear only at a restart,
\* which leaves no actor behind.
RowsBehindMarks ==
    /\ \A i \in marked : row[i] # NoRow
    /\ \A a \in Actors : pc[a] \in {"running", "fetched"} => row[target[a]] # NoRow

\* The first half of write-ahead, and why a send that stands is a dispatch.
RowsBehindSends == \A i \in Ids \ pruned : i \in dispatched => row[i] # NoRow
SendsAreDispatches == \A i \in Ids \ dispatched : \A k \in 1..Steps : standing[i][k] = 0

WriteAheadInv == Typed /\ Targeted /\ RowsBehindMarks /\ RowsBehindSends /\ SendsAreDispatches

-----------------------------------------------------------------------------
\* cacheOperationLocked leaves at most the given ids marked durable.
LEMMA CacheShrinks ==
    ASSUME NEW i, NEW status, NEW hash, NEW marks, cacheOperationLocked(i, status, hash, marks)
    PROVE  marked' \subseteq marks
BY DEF cacheOperationLocked

\* publishLocked marks nothing.
LEMMA PublishShrinks ==
    ASSUME NEW i, NEW status, publishLocked(i, status)
    PROVE  marked' \subseteq marked
BY CacheShrinks DEF publishLocked

\* A present row stays present when its status becomes a real one.
LEMMA StatusKeepsRow ==
    ASSUME NEW r \in Rows, NEW s \in Open \cup Terminal
    PROVE  /\ [r EXCEPT !.status = s] \in Rows
           /\ [r EXCEPT !.status = s] # NoRow
BY DEF Rows, NoRow, Open, Terminal, Statuses

\* Setting the status of one row, to a real status, keeps every row.
LEMMA SetStatusKeepsRows ==
    ASSUME NEW rows \in [Ids -> Rows], NEW i \in Ids, NEW s \in Open \cup Terminal
    PROVE  /\ [rows EXCEPT ![i].status = s] \in [Ids -> Rows]
           /\ \A j \in Ids : rows[j] # NoRow => [rows EXCEPT ![i].status = s][j] # NoRow
<1> DEFINE set == [rows EXCEPT ![i] = [rows[i] EXCEPT !.status = s]]
<1>1. [rows[i] EXCEPT !.status = s] \in Rows /\ [rows[i] EXCEPT !.status = s] # NoRow
  BY StatusKeepsRow
<1>2. set \in [Ids -> Rows] /\ \A j \in Ids : rows[j] # NoRow => set[j] # NoRow
  BY <1>1
<1>3. set = [rows EXCEPT ![i].status = s]
  OBVIOUS
<1> QED
  BY <1>2, <1>3

\* Counting one dispatch leaves the counters integers.
LEMMA CountedIsCounters ==
    ASSUME NEW counters \in [1..Steps -> Int], NEW k
    PROVE  [counters EXCEPT ![k] = @ + 1] \in [1..Steps -> Int]
<1>1. CASE k \in 1..Steps
  BY <1>1
<1>2. CASE k \notin 1..Steps
  BY <1>2
<1> QED
  BY <1>1, <1>2

\* A step that keeps the rows, dispatches nothing and starts no execution
\* keeps the rows behind the marks and the write-ahead.
LEMMA KeepsWriteAhead ==
    ASSUME Typed, Typed', RowsBehindMarks, RowsBehindSends, SendsAreDispatches,
           marked' \subseteq marked, UNCHANGED <<dispatched, standing, pruned>>,
           \A i \in Ids : row[i] # NoRow => row'[i] # NoRow,
           \A b \in Actors : pc'[b] \in {"running", "fetched"} =>
               pc[b] \in {"running", "fetched"} /\ target'[b] = target[b] /\ target[b] \in Ids
    PROVE  RowsBehindMarks' /\ RowsBehindSends' /\ SendsAreDispatches'
<1>1. RowsBehindMarks'
  BY DEF RowsBehindMarks, Typed
<1>2. RowsBehindSends' /\ SendsAreDispatches'
  BY DEF RowsBehindSends, SendsAreDispatches
<1> QED
  BY <1>1, <1>2

-----------------------------------------------------------------------------
\* In the initial states nothing is stored, marked or dispatched.
LEMMA WriteAheadInit == Init => WriteAheadInv
BY BoundsAssumption DEF Init, WriteAheadInv, Typed, Targeted, RowsBehindMarks, RowsBehindSends,
   SendsAreDispatches, Actors, Rows, NoRow, Statuses, Executing

\* Every step of an execution preserves the write-ahead invariant.
LEMMA WriteAheadExecute ==
    ASSUME WriteAheadInv, NEW a \in Submitters, Execute(a)
    PROVE  WriteAheadInv'
<1> USE DEF WriteAheadInv, Typed, Targeted, RowsBehindMarks, RowsBehindSends, SendsAreDispatches,
        engineVars, historyVars, Executing
<1> a \in Actors
  BY DEF Actors
<1>1. CASE registerActive(a)
  BY <1>1 DEF registerActive
<1>2. CASE failWhilePlanning(a)
  BY <1>2 DEF failWhilePlanning, Decide, Terminal
<1>3. CASE skipReserve(a)
  BY <1>3, PublishShrinks DEF skipReserve
<1>4. CASE reserveDurableOperation(a)
  <2>1. marked' \subseteq marked \cup {target[a]}
    BY <1>4, CacheShrinks DEF reserveDurableOperation
  <2>2. [status |-> "running", body |-> body[a]] \in Rows \ {NoRow}
    BY DEF Rows, NoRow, Statuses, Open
  <2> QED
    BY <1>4, <2>1, <2>2 DEF reserveDurableOperation
<1>5. CASE adoptExisting(a)
  <2>1. marked' \subseteq marked \cup {target[a]}
    BY <1>5, CacheShrinks DEF adoptExisting
  <2> QED
    BY <1>5, <2>1 DEF adoptExisting
<1>6. CASE persistenceFailure(a)
  BY <1>6, PublishShrinks DEF persistenceFailure
<1>7. CASE pause(a)
  <2>1. /\ marked' \subseteq marked
        /\ pc' = [pc EXCEPT ![a] = "active"]
        /\ UNCHANGED <<target, body, outcome, active, dispatched, standing, pruned>>
    BY <1>7, PublishShrinks DEF pause
  <2>2. target[a] \in Ids /\ "paused" \in Open \cup Terminal /\ row \in [Ids -> Rows]
    BY <1>7 DEF pause, Open
  <2>3. row' = row \/ row' = [row EXCEPT ![target[a]].status = "paused"]
    BY <1>7 DEF pause
  <2>4. /\ row' \in [Ids -> Rows]
        /\ \A i \in Ids : row[i] # NoRow => row'[i] # NoRow
    <3>1. CASE row' = row
      BY <2>2, <3>1
    <3>2. CASE row' = [row EXCEPT ![target[a]].status = "paused"]
      <4> HIDE DEF WriteAheadInv
      <4> QED
        BY <2>2, <3>2, SetStatusKeepsRows
    <3> QED
      BY <2>3, <3>1, <3>2
  <2>5. Typed' /\ Targeted'
    BY <2>1, <2>2, <2>4
  <2>6. RowsBehindMarks' /\ RowsBehindSends' /\ SendsAreDispatches'
    <3> HIDE DEF RowsBehindMarks, RowsBehindSends, SendsAreDispatches
    <3>1. \A b \in Actors : pc'[b] \in {"running", "fetched"} =>
               pc[b] \in {"running", "fetched"} /\ target'[b] = target[b] /\ target[b] \in Ids
      BY <2>1
    <3> QED
      BY <2>1, <2>4, <2>5, <3>1, KeepsWriteAhead
  <2> QED
    BY <2>5, <2>6
<1>8. CASE replan(a)
  BY <1>8, PublishShrinks DEF replan, planAgain
<1>9. CASE failBeforeDispatch(a)
  BY <1>9 DEF failBeforeDispatch, FailureAfter, Decide, Terminal
<1>10. CASE dispatch(a)
  <2>1. /\ standing' \in [Ids -> [1..Steps -> Int]]
        /\ \A i \in Ids \ {target[a]} : standing'[i] = standing[i]
        /\ dispatched' = dispatched \cup {target[a]} /\ target[a] \in Ids
    <3> DEFINE i == target[a]
               k == progress[a] + 1
               sent == [standing[i] EXCEPT ![k] = @ + 1]
    <3>1. /\ standing' = [standing EXCEPT ![i] = sent] /\ i \in Ids
          /\ dispatched' = dispatched \cup {i}
      BY <1>10 DEF dispatch
    <3>2. standing[i] \in [1..Steps -> Int]
      BY <3>1
    <3>3. sent \in [1..Steps -> Int]
      BY <3>2, CountedIsCounters
    <3> QED
      BY <3>1, <3>3
  <2>2. /\ pc' \in [Actors -> {"idle", "reserved", "lookup", "fetched"} \cup Executing]
        /\ \A b \in Actors \ {a} : pc'[b] = pc[b] /\ outcome'[b] = outcome[b]
        /\ pc'[a] \in {"running", "closing"}
        /\ pc'[a] = "closing" => outcome'[a] \in Terminal
        /\ outcome' \in [Actors -> Terminal \cup {"none"}]
    BY <1>10 DEF dispatch, acknowledged, notAcknowledged, Decide, FailureAfter, Terminal
  <2>3. UNCHANGED <<target, body, marked, active, row, pruned>> /\ pc[a] = "running"
    BY <1>10 DEF dispatch, acknowledged, notAcknowledged, engineVars
  <2> QED
    BY <2>1, <2>2, <2>3
<1>11. CASE saveFinal(a)
  <2>1. /\ pc' \in [Actors -> {"idle", "reserved", "lookup", "fetched"} \cup Executing]
        /\ \A b \in Actors \ {a} : pc'[b] = pc[b]
        /\ pc'[a] \in {"publishing", "unsaved"}
        /\ UNCHANGED <<target, body, outcome, marked, active, dispatched, standing, pruned>>
    BY <1>11 DEF saveFinal
  <2>2. target[a] \in Ids /\ outcome[a] \in Open \cup Terminal /\ row \in [Ids -> Rows]
    BY <1>11 DEF saveFinal
  <2>3. row' = row \/ row' = [row EXCEPT ![target[a]].status = outcome[a]]
    BY <1>11 DEF saveFinal
  <2>4. /\ row' \in [Ids -> Rows]
        /\ \A i \in Ids : row[i] # NoRow => row'[i] # NoRow
    <3>1. CASE row' = row
      BY <2>2, <3>1
    <3>2. CASE row' = [row EXCEPT ![target[a]].status = outcome[a]]
      <4> HIDE DEF WriteAheadInv
      <4> QED
        BY <2>2, <3>2, SetStatusKeepsRows
    <3> QED
      BY <2>3, <3>1, <3>2
  <2>5. Typed' /\ Targeted'
    BY <2>1, <2>2, <2>4
  <2>6. RowsBehindMarks' /\ RowsBehindSends' /\ SendsAreDispatches'
    <3> HIDE DEF RowsBehindMarks, RowsBehindSends, SendsAreDispatches
    <3>1. \A b \in Actors : pc'[b] \in {"running", "fetched"} =>
               pc[b] \in {"running", "fetched"} /\ target'[b] = target[b] /\ target[b] \in Ids
      BY <2>1
    <3> QED
      BY <2>1, <2>4, <2>5, <3>1, KeepsWriteAhead
  <2> QED
    BY <2>5, <2>6
<1>12. CASE publishFinal(a)
  BY <1>12, PublishShrinks DEF publishFinal
<1>13. CASE retract(a)
  BY <1>13, PublishShrinks DEF retract
<1>14. CASE unregisterActive(a)
  BY <1>14 DEF unregisterActive, Free
<1>15. CASE dispatchRefused(a)
  <2>1. /\ dispatched' = dispatched \cup {target[a]} /\ target[a] \in Ids /\ pc[a] = "running"
        /\ UNCHANGED <<target, body, outcome, active, row, standing, pruned>>
    BY <1>15 DEF dispatchRefused, refusedForNow, engineVars
  <2>2. /\ marked' \subseteq marked
        /\ pc' = pc \/ pc' = [pc EXCEPT ![a] = "active"]
    BY <1>15, PublishShrinks DEF dispatchRefused, refusedForNow, planAgain, engineVars
  <2> QED
    BY <2>1, <2>2
<1>16. CASE dispatchRebuild(a)
  <2>1. /\ dispatched' = dispatched \cup {target[a]} /\ target[a] \in Ids /\ pc[a] = "running"
        /\ UNCHANGED <<target, body, active, marked, row, standing, pruned>>
    BY <1>16 DEF dispatchRebuild, notAcknowledged, engineVars
  <2>2. \/ UNCHANGED <<pc, outcome>>
        \/ /\ pc' = [pc EXCEPT ![a] = "closing"]
           /\ \E status \in Terminal : outcome' = [outcome EXCEPT ![a] = status]
    BY <1>16 DEF dispatchRebuild, notAcknowledged, Decide, FailureAfter, Terminal
  <2> QED
    BY <2>1, <2>2
<1> QED
  BY <1>1, <1>2, <1>3, <1>4, <1>5, <1>6, <1>7, <1>8, <1>9, <1>10, <1>11, <1>12, <1>13, <1>14,
     <1>15, <1>16
  DEF Execute

\* An admission, a lookup, a drain and a restart preserve it too: a restart
\* keeps every row that it does not prune.
LEMMA WriteAheadNext ==
    ASSUME WriteAheadInv, [Next]_vars
    PROVE  WriteAheadInv'
<1> USE DEF WriteAheadInv, Typed, Targeted, RowsBehindMarks, RowsBehindSends, SendsAreDispatches,
        actorVars, engineVars, historyVars, Executing
<1>1. ASSUME NEW a \in Submitters, NEW i \in Ids, NEW b \in Bodies, reserveOperation(a, i, b)
      PROVE  WriteAheadInv'
  <2>1. marked' \subseteq marked /\ a \in Actors
    BY <1>1, CacheShrinks DEF reserveOperation, Actors
  <2> QED
    BY <1>1, <2>1 DEF reserveOperation
<1>2. ASSUME NEW a \in Submitters, Execute(a)
      PROVE  WriteAheadInv'
  BY <1>2, WriteAheadExecute
<1>3. ASSUME NEW a \in Readers, NEW i \in Ids, startLookup(a, i)
      PROVE  WriteAheadInv'
  BY <1>3 DEF startLookup, Actors
<1>4. ASSUME NEW a \in Actors, lookup(a)
      PROVE  WriteAheadInv'
  BY <1>4 DEF lookup, Free
<1>5. ASSUME NEW a \in Actors, cacheFetched(a)
      PROVE  WriteAheadInv'
  <2>1. marked' \subseteq marked \cup {target[a]}
    BY <1>5, CacheShrinks DEF cacheFetched
  <2> QED
    BY <1>5, <2>1 DEF cacheFetched, Free
<1>6. CASE beginDrain \/ finishDrain \/ ResumeAdmission
  BY <1>6 DEF beginDrain, finishDrain, ResumeAdmission
<1>7. CASE CrashAndRecover
  <2>1. PICK lost \in SUBSET Ids :
           /\ row' = [i \in Ids |-> IF i \in lost THEN NoRow ELSE Recovered(row[i])]
           /\ pruned' = pruned \cup lost
    BY <1>7 DEF CrashAndRecover
  <2>2. \A r \in Rows : Recovered(r) \in Rows /\ (r # NoRow => Recovered(r) # NoRow)
    <3> TAKE r \in Rows
    <3>1. CASE r.status \in Open
      BY <3>1, StatusKeepsRow DEF Recovered, Terminal
    <3>2. CASE r.status \notin Open
      BY <3>2 DEF Recovered
    <3> QED
      BY <3>1, <3>2
  <2>3. /\ row' \in [Ids -> Rows]
        /\ \A i \in Ids \ pruned' : row[i] # NoRow => row'[i] # NoRow
    <3>1. NoRow \in Rows
      BY DEF NoRow, Rows, Statuses
    <3> QED
      BY <2>1, <2>2, <3>1
  <2>4. marked' \subseteq Ids /\ \A i \in marked' : row'[i] # NoRow
    <3> DEFINE stored == {i \in Ids : row'[i] # NoRow}
    <3>1. PICK ord \in [1..AtMost(stored, MemoryLimit) -> stored] :
             marked' = {ord[k] : k \in DOMAIN ord}
      BY <1>7 DEF CrashAndRecover, loadRecent
    <3>2. \A k \in DOMAIN ord : ord[k] \in stored
      BY <3>1
    <3> QED
      BY <3>1, <3>2
  <2>5. /\ pc' = [a \in Actors |-> "idle"]
        /\ target' = [a \in Actors |-> NoId]
        /\ body' = [a \in Actors |-> NoBody]
        /\ outcome' = [a \in Actors |-> "none"]
        /\ active' = {}
        /\ UNCHANGED <<dispatched, standing>>
    BY <1>7 DEF CrashAndRecover
  <2> QED
    BY <2>1, <2>3, <2>4, <2>5
<1>8. CASE UNCHANGED vars
  BY <1>8 DEF vars
<1> QED
  BY <1>1, <1>2, <1>3, <1>4, <1>5, <1>6, <1>7, <1>8 DEF Next

-----------------------------------------------------------------------------
(* The airtight drain.                                                     *)

\* Every registered id belongs to a submitter that is executing it.
ActiveOwned ==
    \A i \in active : \E a \in Submitters : pc[a] \in Executing /\ target[a] = i

\* While admission is closed no submitter is between its admission check and
\* its registration: the write lock of admissionMu waited for them.
Quiet == drain # "open" => \A a \in Submitters : pc[a] \notin {"reserved", "lookup", "fetched"}

DrainInv ==
    /\ pc \in [Actors -> {"idle", "reserved", "lookup", "fetched"} \cup Executing]
    /\ target \in [Actors -> Ids \cup {NoId}]
    /\ ActiveOwned
    /\ Quiet
    /\ DrainedIsIdle

\* Between registration and unregistration an execution only moves on: it
\* stays counted by engine.inflight, and the registry is left alone.
LEMMA ExecutionStaysRegistered ==
    ASSUME NEW a \in Submitters, Execute(a), ~registerActive(a), ~unregisterActive(a),
           pc \in [Actors -> {"idle", "reserved", "lookup", "fetched"} \cup Executing]
    PROVE  /\ pc[a] \in Executing
           /\ \E p \in Executing : pc' = [pc EXCEPT ![a] = p]
           /\ UNCHANGED <<target, active, drain>>
<1> USE DEF Executing, engineVars
<1> a \in Actors
  BY DEF Actors
<1>1. CASE failWhilePlanning(a)
  BY <1>1 DEF failWhilePlanning
<1>2. CASE skipReserve(a)
  BY <1>2 DEF skipReserve
<1>3. CASE reserveDurableOperation(a)
  BY <1>3 DEF reserveDurableOperation
<1>4. CASE adoptExisting(a)
  BY <1>4 DEF adoptExisting
<1>5. CASE persistenceFailure(a)
  BY <1>5 DEF persistenceFailure
<1>6. CASE pause(a)
  BY <1>6 DEF pause
<1>7. CASE replan(a)
  BY <1>7 DEF replan, planAgain
<1>8. CASE failBeforeDispatch(a)
  BY <1>8 DEF failBeforeDispatch
<1>9. CASE dispatch(a)
  <2>1. pc[a] = "running" /\ (pc' = pc \/ pc' = [pc EXCEPT ![a] = "closing"])
    BY <1>9 DEF dispatch, acknowledged, notAcknowledged
  <2>2. pc = [pc EXCEPT ![a] = pc[a]]
    OBVIOUS
  <2> QED
    BY <1>9, <2>1, <2>2 DEF dispatch, acknowledged, notAcknowledged
<1>10. CASE saveFinal(a)
  BY <1>10 DEF saveFinal
<1>11. CASE publishFinal(a)
  BY <1>11 DEF publishFinal
<1>12. CASE retract(a)
  BY <1>12 DEF retract
<1>13. CASE dispatchRefused(a)
  <2>1. pc[a] = "running" /\ (pc' = pc \/ pc' = [pc EXCEPT ![a] = "active"])
    BY <1>13 DEF dispatchRefused, refusedForNow, planAgain
  <2>2. pc = [pc EXCEPT ![a] = pc[a]]
    OBVIOUS
  <2> QED
    BY <1>13, <2>1, <2>2 DEF dispatchRefused, refusedForNow
<1>14. CASE dispatchRebuild(a)
  <2>1. pc[a] = "running" /\ (pc' = pc \/ pc' = [pc EXCEPT ![a] = "closing"])
    BY <1>14 DEF dispatchRebuild, notAcknowledged
  <2>2. pc = [pc EXCEPT ![a] = pc[a]]
    OBVIOUS
  <2> QED
    BY <1>14, <2>1, <2>2 DEF dispatchRebuild, notAcknowledged
<1> QED
  BY <1>1, <1>2, <1>3, <1>4, <1>5, <1>6, <1>7, <1>8, <1>9, <1>10, <1>11, <1>12, <1>13, <1>14
  DEF Execute

\* Nothing is registered and admission is open at the start.
LEMMA DrainInit == Init => DrainInv
BY DEF Init, DrainInv, ActiveOwned, Quiet, DrainedIsIdle, Actors, Executing

\* Every step preserves the drain invariant.
LEMMA DrainNext ==
    ASSUME DrainInv, [Next]_vars
    PROVE  DrainInv'
<1> USE DEF DrainInv, ActiveOwned, Quiet, DrainedIsIdle
<1>1. ASSUME NEW a \in Submitters, NEW i \in Ids, NEW b \in Bodies, reserveOperation(a, i, b)
      PROVE  DrainInv'
  BY <1>1 DEF reserveOperation, Actors, Executing
<1>2. ASSUME NEW a \in Submitters, Execute(a)
      PROVE  DrainInv'
  <2> a \in Actors
    BY DEF Actors
  <2>1. CASE registerActive(a)
    <3>1. /\ pc[a] = "reserved"
          /\ drain = "open"
          /\ UNCHANGED <<target, drain>>
          /\ \A b \in Actors \ {a} : pc'[b] = pc[b]
          /\ pc' \in [Actors -> {"idle", "reserved", "lookup", "fetched"} \cup Executing]
      BY <2>1 DEF registerActive, Executing
    <3>2. active' = active \/ (active' = active \cup {target[a]} /\ pc'[a] = "active")
      BY <2>1 DEF registerActive
    <3>3. ActiveOwned'
      <4> SUFFICES ASSUME NEW i \in active'
                   PROVE  \E b \in Submitters : pc'[b] \in Executing /\ target'[b] = i
        OBVIOUS
      <4>1. CASE i \in active
        <5>1. PICK b \in Submitters : pc[b] \in Executing /\ target[b] = i
          BY <4>1
        <5>2. b # a /\ b \in Actors
          BY <3>1, <5>1 DEF Executing, Actors
        <5> QED
          BY <3>1, <5>1, <5>2
      <4>2. CASE i \notin active
        BY <3>1, <3>2, <4>2 DEF Executing
      <4> QED
        BY <4>1, <4>2
    <3> QED
      BY <3>1, <3>3
  <2>2. CASE unregisterActive(a)
    BY <2>2 DEF unregisterActive, Free, Executing
  <2>3. CASE ~registerActive(a) /\ ~unregisterActive(a)
    <3>1. PICK p \in Executing : pc' = [pc EXCEPT ![a] = p]
      BY <1>2, <2>3, ExecutionStaysRegistered
    <3>2. pc[a] \in Executing /\ UNCHANGED <<target, active, drain>>
      BY <1>2, <2>3, ExecutionStaysRegistered
    <3> QED
      BY <3>1, <3>2 DEF Executing, Actors
  <2> QED
    BY <2>1, <2>2, <2>3
<1>3. ASSUME NEW a \in Readers, NEW i \in Ids, startLookup(a, i)
      PROVE  DrainInv'
  <2>1. a \in Actors /\ a \notin Submitters
    BY ActorsAssumption DEF Actors
  <2> QED
    BY <1>3, <2>1 DEF startLookup, engineVars, Executing, Actors
<1>4. ASSUME NEW a \in Actors, lookup(a) \/ cacheFetched(a)
      PROVE  DrainInv'
  <2>1. /\ pc[a] \in {"lookup", "fetched"}
        /\ pc' = [pc EXCEPT ![a] = "idle"] \/ pc' = [pc EXCEPT ![a] = "fetched"]
        /\ target' = [target EXCEPT ![a] = NoId] \/ target' = target
        /\ UNCHANGED <<active, drain>>
    BY <1>4 DEF lookup, cacheFetched, Free, engineVars
  <2> QED
    BY <2>1 DEF Executing, Actors
<1>5. CASE beginDrain
  BY <1>5 DEF beginDrain, actorVars, engineVars, Executing
<1>6. CASE finishDrain
  BY <1>6 DEF finishDrain, actorVars, engineVars, Executing
<1>7. CASE ResumeAdmission
  BY <1>7 DEF ResumeAdmission, actorVars, engineVars, Executing
<1>8. CASE CrashAndRecover
  BY <1>8 DEF CrashAndRecover, Executing
<1>9. CASE UNCHANGED vars
  BY <1>9 DEF vars, actorVars, engineVars
<1> QED
  BY <1>1, <1>2, <1>3, <1>4, <1>5, <1>6, <1>7, <1>8, <1>9 DEF Next

\* The drain is airtight: once FinishOpen has returned, and until admission is
\* resumed, no operation is registered or executing.
THEOREM OperationsDrain == Spec => []DrainedIsIdle
<1>1. Init => DrainInv
  BY DrainInit
<1>2. DrainInv /\ [Next]_vars => DrainInv'
  BY DrainNext
<1>3. DrainInv => DrainedIsIdle
  BY DEF DrainInv
<1> QED
  BY <1>1, <1>2, <1>3, PTL DEF Spec

-----------------------------------------------------------------------------
(* Truthful rows                                                           *)

\* Status s may be recorded for an operation of which n steps were acknowledged
\* and that reached the outcomes D.
Truthful(s, n, D) ==
    /\ s = "succeeded" => n = Steps
    /\ s = "partial" => n > 0
    /\ s \in Definite => s \in D

\* What is true of actor a: a fresh actor has completed nothing, the steps an
\* execution counts as completed were acknowledged, it stops at the last step,
\* and the outcome it is about to save is one it may record.
AccountIsTrue(a) ==
    /\ pc[a] = "idle" => progress[a] = 0
    /\ pc[a] \in {"reserved", "active", "running"} =>
          progress[a] < Steps /\ progress[a] <= applied[target[a]]
    /\ pc[a] = "closing" => Truthful(outcome[a], applied[target[a]], decided[target[a]])

TruthInv ==
    /\ applied \in [Ids -> 0..Steps]
    /\ decided \in [Ids -> SUBSET Terminal]
    /\ progress \in [Actors -> 0..Steps]
    /\ \A a \in Actors : AccountIsTrue(a)
    /\ \A i \in Ids : Truthful(row[i].status, applied[i], decided[i])

\* Acknowledged steps and reached outcomes are never taken back: what could
\* be recorded still can.
Grows ==
    /\ applied' \in [Ids -> 0..Steps]
    /\ decided' \in [Ids -> SUBSET Terminal]
    /\ \A i \in Ids : applied[i] <= applied'[i] /\ decided[i] \subseteq decided'[i]

LEMMA TruthLasts ==
    ASSUME TruthInv, Grows, NEW s, NEW i \in Ids,
           Truthful(s, applied[i], decided[i])
    PROVE  Truthful(s, applied'[i], decided'[i])
<1>1. applied[i] \in 0..Steps /\ applied'[i] \in 0..Steps /\ Steps \in Nat
  BY BoundsAssumption DEF TruthInv, Grows
<1>2. applied[i] <= applied'[i] /\ decided[i] \subseteq decided'[i]
  BY DEF Grows
<1>3. QED
  BY <1>1, <1>2 DEF Truthful

\* A step of one actor that records only what is true keeps the invariant.
LEMMA TruthStep ==
    ASSUME WriteAheadInv, TruthInv, Grows, NEW a \in Actors,
           \A b \in Actors \ {a} : /\ pc'[b] = pc[b] /\ target'[b] = target[b]
                                   /\ progress'[b] = progress[b] /\ outcome'[b] = outcome[b],
           progress' \in [Actors -> 0..Steps],
           AccountIsTrue(a)',
           \A i \in Ids : \/ row'[i].status = row[i].status
                          \/ Truthful(row'[i].status, applied'[i], decided'[i])
    PROVE  TruthInv'
<1>1. ASSUME NEW b \in Actors \ {a}  PROVE AccountIsTrue(b)'
  <2>1. AccountIsTrue(b) /\ b # a
    BY DEF TruthInv
  <2>2. pc[b] # "idle" => target[b] \in Ids
    BY DEF WriteAheadInv, Targeted
  <2>3. \A i \in Ids : applied[i] \in Nat /\ applied'[i] \in Nat /\ applied[i] <= applied'[i]
    BY BoundsAssumption DEF TruthInv, Grows
  <2>4. progress[b] \in Nat
    BY BoundsAssumption DEF TruthInv
  <2>5. (pc[b] = "idle" => progress[b] = 0)'
    BY <2>1 DEF AccountIsTrue
  <2>6. pc'[b] \in {"reserved", "active", "running"} =>
            progress'[b] < Steps /\ progress'[b] <= applied'[target'[b]]
    BY <2>1, <2>2, <2>3, <2>4, BoundsAssumption DEF AccountIsTrue
  <2>7. pc'[b] = "closing" => Truthful(outcome'[b], applied'[target'[b]], decided'[target'[b]])
    <3> SUFFICES ASSUME pc[b] = "closing"
                 PROVE  Truthful(outcome[b], applied'[target[b]], decided'[target[b]])
      OBVIOUS
    <3>1. Truthful(outcome[b], applied[target[b]], decided[target[b]]) /\ target[b] \in Ids
      BY <2>1, <2>2 DEF AccountIsTrue
    <3>2. QED
      BY <3>1, TruthLasts
  <2>8. QED
    BY <2>5, <2>6, <2>7 DEF AccountIsTrue
<1>2. ASSUME NEW i \in Ids  PROVE Truthful(row'[i].status, applied'[i], decided'[i])
  <2>1. Truthful(row[i].status, applied[i], decided[i])
    BY DEF TruthInv
  <2>2. Truthful(row[i].status, applied'[i], decided'[i])
    BY <2>1, TruthLasts
  <2>3. QED
    BY <2>2
<1>3. QED
  BY <1>1, <1>2 DEF TruthInv, Grows

\* A step that acknowledges and decides nothing.
LEMMA NothingGrows == ASSUME TruthInv, UNCHANGED <<applied, decided>> PROVE Grows
<1>1. \A i \in Ids : applied[i] <= applied[i]
  BY BoundsAssumption DEF TruthInv
<1>2. QED
  BY <1>1 DEF TruthInv, Grows

\* Setting one row's status.
LEMMA OneStatus ==
    ASSUME WriteAheadInv, NEW i \in Ids, NEW s, row' = [row EXCEPT ![i].status = s]
    PROVE  row'[i].status = s /\ \A j \in Ids \ {i} : row'[j] = row[j]
<1>1. row \in [Ids -> Rows]
  BY DEF WriteAheadInv, Typed
<1>2. row' = [row EXCEPT ![i] = [row[i] EXCEPT !.status = s]]
  OBVIOUS
<1>3. row[i] \in Rows
  BY <1>1
<1>4. [row[i] EXCEPT !.status = s].status = s
  BY <1>3 DEF Rows
<1>5. QED
  BY <1>1, <1>2, <1>4

\* An execution that moves between planning, running and its end without
\* acknowledging, deciding or recording a final status.
LEMMA TruthMoves ==
    ASSUME WriteAheadInv, TruthInv, NEW a \in Actors, NEW p,
           p \notin {"idle", "closing"},
           p \in {"reserved", "active", "running"} => pc[a] \in {"reserved", "active", "running"},
           pc' = [pc EXCEPT ![a] = p],
           UNCHANGED <<target, progress, outcome, applied, decided>>,
           \A i \in Ids : row'[i].status \in {row[i].status} \cup Open
    PROVE  TruthInv'
<1>1. Grows
  BY NothingGrows
<1>2. AccountIsTrue(a)'
  <2>1. AccountIsTrue(a)
    BY DEF TruthInv
  <2>2. pc'[a] = p
    BY DEF WriteAheadInv, Typed
  <2>3. QED
    BY <2>1, <2>2 DEF AccountIsTrue
<1>3. \A b \in Actors \ {a} : pc'[b] = pc[b]
  BY DEF WriteAheadInv, Typed
<1>4. \A i \in Ids : \/ row'[i].status = row[i].status
                     \/ Truthful(row'[i].status, applied'[i], decided'[i])
  BY DEF Open, Truthful, Definite, Terminal
<1>5. progress' \in [Actors -> 0..Steps]
  BY DEF TruthInv
<1>6. QED
  BY <1>1, <1>2, <1>3, <1>4, <1>5, TruthStep

\* An execution reaches an outcome that is true of the steps acknowledged.
LEMMA TruthDecides ==
    ASSUME WriteAheadInv, TruthInv, NEW a \in Actors, NEW s \in Terminal, target[a] \in Ids,
           pc' = [pc EXCEPT ![a] = "closing"], Decide(a, s),
           UNCHANGED <<target, row>>, progress' \in [Actors -> 0..Steps],
           \A b \in Actors \ {a} : progress'[b] = progress[b],
           applied' \in [Ids -> 0..Steps],
           \A i \in Ids : applied[i] <= applied'[i],
           s = "succeeded" => applied'[target[a]] = Steps,
           s = "partial" => applied'[target[a]] > 0
    PROVE  TruthInv'
<1>1. outcome' = [outcome EXCEPT ![a] = s]
      /\ decided' = [decided EXCEPT ![target[a]] = @ \cup {s}]
  BY DEF Decide
<1>2. /\ pc'[a] = "closing" /\ outcome'[a] = s
      /\ \A b \in Actors \ {a} : pc'[b] = pc[b] /\ outcome'[b] = outcome[b]
  BY <1>1 DEF WriteAheadInv, Typed
<1>3. /\ decided' \in [Ids -> SUBSET Terminal]
      /\ s \in decided'[target[a]]
      /\ \A i \in Ids : decided[i] \subseteq decided'[i]
  BY <1>1 DEF TruthInv
<1>4. Grows
  BY <1>3 DEF Grows
<1>5. AccountIsTrue(a)'
  BY <1>2, <1>3 DEF AccountIsTrue, Truthful
<1>6. QED
  BY <1>2, <1>4, <1>5, TruthStep

\* An actor that is done is as good as new.
LEMMA TruthFrees ==
    ASSUME WriteAheadInv, TruthInv, NEW a \in Actors, Free(a), UNCHANGED <<applied, decided, row>>
    PROVE  TruthInv'
<1>1. Grows
  BY NothingGrows
<1>2. /\ pc'[a] = "idle" /\ progress'[a] = 0
      /\ progress' \in [Actors -> 0..Steps]
      /\ \A b \in Actors \ {a} : /\ pc'[b] = pc[b] /\ target'[b] = target[b]
                                 /\ progress'[b] = progress[b] /\ outcome'[b] = outcome[b]
  BY BoundsAssumption DEF WriteAheadInv, Typed, TruthInv, Free
<1>3. AccountIsTrue(a)'
  BY <1>2 DEF AccountIsTrue
<1>4. QED
  BY <1>1, <1>2, <1>3, TruthStep

\* Every step of an execution keeps the record truthful.
LEMMA TruthExecute ==
    ASSUME WriteAheadInv, TruthInv, NEW a \in Submitters, Execute(a)
    PROVE  TruthInv'
<1> USE DEF historyVars, engineVars
<1>1. a \in Actors /\ AccountIsTrue(a) /\ (pc[a] # "idle" => target[a] \in Ids)
  BY DEF Actors, TruthInv, WriteAheadInv, Targeted
<1>2. Steps \in Nat /\ progress[a] \in 0..Steps /\ \A i \in Ids : applied[i] \in 0..Steps
  BY <1>1, BoundsAssumption DEF TruthInv
<1>3. CASE registerActive(a)
  <2>1. \E p \in {"lookup", "active"} : pc' = [pc EXCEPT ![a] = p]
    BY <1>3 DEF registerActive
  <2>2. QED
    BY <1>1, <1>3, <2>1, TruthMoves DEF registerActive
<1>4. CASE failWhilePlanning(a)
  <2>1. \A i \in Ids : applied[i] <= applied[i]
    BY <1>2
  <2>2. QED
    BY <1>1, <1>4, <2>1, TruthDecides DEF failWhilePlanning, Terminal, TruthInv
<1>5. CASE skipReserve(a)
  BY <1>1, <1>5, TruthMoves DEF skipReserve
<1>6. CASE reserveDurableOperation(a)
  <2>1. \A i \in Ids : row'[i].status \in {row[i].status} \cup Open
    BY <1>6 DEF reserveDurableOperation, WriteAheadInv, Typed, Open
  <2>2. QED
    BY <1>1, <1>6, <2>1, TruthMoves DEF reserveDurableOperation
<1>7. CASE adoptExisting(a)
  BY <1>1, <1>7, TruthMoves DEF adoptExisting
<1>8. CASE persistenceFailure(a)
  BY <1>1, <1>8, TruthMoves DEF persistenceFailure
<1>9. CASE pause(a)
  <2>1. row' = row \/ row' = [row EXCEPT ![target[a]].status = "paused"]
    BY <1>9 DEF pause
  <2>2. \A i \in Ids : row'[i].status \in {row[i].status} \cup Open
    BY <1>1, <1>9, <2>1, OneStatus DEF pause, Open
  <2>3. QED
    BY <1>1, <1>9, <2>2, TruthMoves DEF pause
<1>10. CASE replan(a)
  BY <1>1, <1>10, TruthMoves DEF replan, planAgain
<1>11. CASE failBeforeDispatch(a)
  <2>1. \A i \in Ids : applied[i] <= applied[i]
    BY <1>2
  <2>2. progress[a] > 0 => applied[target[a]] > 0
    BY <1>1, <1>2, <1>11 DEF failBeforeDispatch, AccountIsTrue
  <2>3. FailureAfter(progress[a]) \in Terminal
        /\ FailureAfter(progress[a]) # "succeeded"
        /\ (FailureAfter(progress[a]) = "partial" => progress[a] > 0)
    BY DEF FailureAfter, Terminal
  <2>4. QED
    BY <1>1, <1>11, <2>1, <2>2, <2>3, TruthDecides DEF failBeforeDispatch, TruthInv
<1>12. CASE dispatch(a)
  <2> DEFINE i == target[a]
             k == progress[a] + 1
  <2>1. pc[a] = "running" /\ i \in Ids /\ k \in 0..Steps /\ progress[a] <= applied[i]
    BY <1>1, <1>2, <1>12 DEF dispatch, AccountIsTrue
  <2>2. ASSUME progress' = [progress EXCEPT ![a] = k],
               applied' = [applied EXCEPT ![i] = IF k > @ THEN k ELSE @],
               IF k = Steps
               THEN pc' = [pc EXCEPT ![a] = "closing"] /\ Decide(a, "succeeded")
               ELSE UNCHANGED <<pc, outcome, decided>>
        PROVE  TruthInv'
    <3>1. /\ applied' \in [Ids -> 0..Steps]
          /\ applied'[i] >= k
          /\ \A j \in Ids : applied[j] <= applied'[j]
      BY <1>2, <2>1, <2>2 DEF TruthInv
    <3>2. /\ progress' \in [Actors -> 0..Steps] /\ progress'[a] = k
          /\ \A b \in Actors \ {a} : progress'[b] = progress[b]
      BY <1>1, <2>1, <2>2 DEF TruthInv
    <3>3. UNCHANGED <<target, row>>
      BY <1>12 DEF dispatch
    <3>4. CASE k = Steps
      <4>1. applied'[i] = Steps
        BY <1>2, <2>1, <3>1, <3>4
      <4>2. pc' = [pc EXCEPT ![a] = "closing"] /\ Decide(a, "succeeded")
        BY <2>2, <3>4
      <4>3. QED
        BY <1>1, <2>1, <3>1, <3>2, <3>3, <4>1, <4>2, TruthDecides DEF Terminal
    <3>5. CASE k # Steps
      <4>1. UNCHANGED <<pc, outcome, decided>>
        BY <2>2, <3>5
      <4>2. Grows
        BY <3>1, <4>1 DEF Grows, TruthInv
      <4>3. AccountIsTrue(a)'
        BY <1>2, <2>1, <3>1, <3>2, <3>3, <3>5, <4>1 DEF AccountIsTrue
      <4>4. QED
        BY <1>1, <3>2, <3>3, <4>1, <4>2, <4>3, TruthStep
    <3>6. QED
      BY <3>4, <3>5
  <2>3. ASSUME NEW status \in {FailureAfter(progress[a]), "indeterminate"},
               pc' = [pc EXCEPT ![a] = "closing"], Decide(a, status),
               UNCHANGED <<progress, applied>>
        PROVE  TruthInv'
    <3>1. \A j \in Ids : applied[j] <= applied[j]
      BY <1>2
    <3>2. progress[a] > 0 => applied[i] > 0
      BY <1>2, <2>1
    <3>3. status \in Terminal /\ status # "succeeded" /\ (status = "partial" => progress[a] > 0)
      BY DEF FailureAfter, Terminal
    <3>4. UNCHANGED <<target, row>>
      BY <1>12 DEF dispatch
    <3>5. QED
      BY <1>1, <2>1, <2>3, <3>1, <3>2, <3>3, <3>4, TruthDecides DEF TruthInv
  <2>4. QED
    BY <1>12, <2>2, <2>3 DEF dispatch, acknowledged, notAcknowledged
<1>13. CASE saveFinal(a)
  <2>1. pc[a] = "closing" /\ UNCHANGED <<target, progress, outcome, applied, decided>>
    BY <1>13 DEF saveFinal
  <2>2. PICK p \in {"publishing", "unsaved"} : pc' = [pc EXCEPT ![a] = p]
    BY <1>13 DEF saveFinal
  <2>3. row' = row \/ row' = [row EXCEPT ![target[a]].status = outcome[a]]
    BY <1>13 DEF saveFinal
  <2>4. Truthful(outcome[a], applied[target[a]], decided[target[a]])
    BY <1>1, <2>1 DEF AccountIsTrue
  <2>5. \A i \in Ids : \/ row'[i].status = row[i].status
                       \/ Truthful(row'[i].status, applied'[i], decided'[i])
    BY <1>1, <2>1, <2>3, <2>4, OneStatus
  <2>6. pc'[a] = p /\ \A b \in Actors \ {a} : pc'[b] = pc[b]
    BY <1>1, <2>2 DEF WriteAheadInv, Typed
  <2>7. AccountIsTrue(a)'
    BY <2>6 DEF AccountIsTrue
  <2>8. Grows /\ progress' \in [Actors -> 0..Steps]
    BY <2>1, NothingGrows DEF TruthInv
  <2>9. QED
    BY <1>1, <2>1, <2>5, <2>6, <2>7, <2>8, TruthStep
<1>14. CASE publishFinal(a)
  <2>1. \E p \in {"retracting", "leaving"} : pc' = [pc EXCEPT ![a] = p]
    BY <1>14 DEF publishFinal
  <2>2. QED
    BY <1>1, <1>14, <2>1, TruthMoves DEF publishFinal
<1>15. CASE retract(a)
  BY <1>1, <1>15, TruthMoves DEF retract
<1>16. CASE unregisterActive(a)
  BY <1>1, <1>16, TruthFrees DEF unregisterActive
<1>17. CASE dispatchRefused(a)
  <2>1. /\ pc[a] = "running" /\ (pc' = pc \/ pc' = [pc EXCEPT ![a] = "active"])
        /\ UNCHANGED <<target, progress, outcome, row, applied, decided>>
    BY <1>17 DEF dispatchRefused, refusedForNow, planAgain
  <2>2. pc \in [Actors -> {"idle", "reserved", "lookup", "fetched"} \cup Executing]
    BY DEF WriteAheadInv, Typed
  <2>3. AccountIsTrue(a)' /\ \A b \in Actors \ {a} : pc'[b] = pc[b]
    BY <1>1, <2>1, <2>2 DEF AccountIsTrue
  <2>4. Grows /\ progress' \in [Actors -> 0..Steps]
    BY <2>1, NothingGrows DEF TruthInv
  <2>5. QED
    BY <1>1, <2>1, <2>3, <2>4, TruthStep
<1>18. CASE dispatchRebuild(a)
  <2>1. pc[a] = "running" /\ UNCHANGED <<target, progress, row, applied>>
    BY <1>18 DEF dispatchRebuild
  <2>2. CASE UNCHANGED <<pc, outcome, decided>>
    <3>1. AccountIsTrue(a)'
      BY <1>1, <2>1, <2>2 DEF AccountIsTrue
    <3>2. Grows /\ progress' \in [Actors -> 0..Steps]
      BY <2>1, <2>2, NothingGrows DEF TruthInv
    <3>3. QED
      BY <1>1, <2>1, <2>2, <3>1, <3>2, TruthStep
  <2>3. CASE notAcknowledged(a)
    <3>1. \A j \in Ids : applied[j] <= applied[j]
      BY <1>2
    <3>2. progress[a] > 0 => applied[target[a]] > 0
      BY <1>1, <1>2, <2>1 DEF AccountIsTrue
    <3>3. PICK status \in {FailureAfter(progress[a]), "indeterminate"} : Decide(a, status)
      BY <2>3 DEF notAcknowledged
    <3>4. status \in Terminal /\ status # "succeeded" /\ (status = "partial" => progress[a] > 0)
      BY <3>3 DEF FailureAfter, Terminal
    <3>5. pc' = [pc EXCEPT ![a] = "closing"]
      BY <2>3 DEF notAcknowledged
    <3>6. QED
      BY <1>1, <2>1, <3>1, <3>2, <3>3, <3>4, <3>5, TruthDecides DEF TruthInv
  <2>4. QED
    BY <1>18, <2>2, <2>3 DEF dispatchRebuild
<1>19. QED
  BY <1>3, <1>4, <1>5, <1>6, <1>7, <1>8, <1>9, <1>10, <1>11, <1>12, <1>13, <1>14, <1>15,
     <1>16, <1>17, <1>18 DEF Execute

LEMMA TruthInit == Init => TruthInv
BY BoundsAssumption
   DEF Init, TruthInv, AccountIsTrue, Truthful, Definite, NoRow, Terminal

\* A restart makes nothing up: Recover calls an open row indeterminate.
LEMMA TruthRecovers ==
    ASSUME WriteAheadInv, TruthInv, CrashAndRecover
    PROVE  TruthInv'
<1>1. PICK lost \in SUBSET Ids :
          row' = [i \in Ids |-> IF i \in lost THEN NoRow ELSE Recovered(row[i])]
  BY DEF CrashAndRecover
<1>2. UNCHANGED <<applied, decided>>
      /\ pc' = [a \in Actors |-> "idle"] /\ progress' = [a \in Actors |-> 0]
  BY DEF CrashAndRecover
<1>3. ASSUME NEW i \in Ids  PROVE Truthful(row'[i].status, applied'[i], decided'[i])
  <2>1. row[i] \in Rows /\ Truthful(row[i].status, applied[i], decided[i])
    BY DEF WriteAheadInv, Typed, TruthInv
  <2>2. Recovered(row[i]).status \in {row[i].status, "indeterminate"}
    BY <2>1 DEF Recovered, Rows
  <2>3. row'[i].status \in {"none", row[i].status, "indeterminate"}
    BY <1>1, <2>2 DEF NoRow
  <2>4. QED
    BY <1>2, <2>1, <2>3 DEF Truthful, Definite, Terminal
<1>4. \A a \in Actors : AccountIsTrue(a)'
  BY <1>2 DEF AccountIsTrue
<1>5. progress' \in [Actors -> 0..Steps]
  BY <1>2, BoundsAssumption
<1>6. QED
  BY <1>2, <1>3, <1>4, <1>5 DEF TruthInv

LEMMA TruthNext ==
    ASSUME WriteAheadInv, TruthInv, [Next]_vars
    PROVE  TruthInv'
<1> USE DEF actorVars, engineVars, historyVars
<1>1. ASSUME NEW a \in Submitters, NEW i \in Ids, NEW b \in Bodies, reserveOperation(a, i, b)
      PROVE  TruthInv'
  <2>1. a \in Actors /\ AccountIsTrue(a)
    BY DEF Actors, TruthInv
  <2>2. /\ pc[a] = "idle" /\ pc'[a] = "reserved" /\ target'[a] = i
        /\ UNCHANGED <<progress, outcome, row, applied, decided>>
        /\ \A c \in Actors \ {a} : pc'[c] = pc[c] /\ target'[c] = target[c]
    BY <1>1, <2>1 DEF reserveOperation, WriteAheadInv, Typed
  <2>3. progress[a] = 0 /\ applied[i] \in 0..Steps /\ Steps \in Nat \ {0}
    BY <2>1, <2>2, BoundsAssumption DEF AccountIsTrue, TruthInv
  <2>4. AccountIsTrue(a)'
    BY <2>2, <2>3 DEF AccountIsTrue
  <2>5. Grows /\ progress' \in [Actors -> 0..Steps]
    BY <2>2, NothingGrows DEF TruthInv
  <2>6. QED
    BY <2>1, <2>2, <2>4, <2>5, TruthStep
<1>2. ASSUME NEW a \in Submitters, Execute(a)  PROVE TruthInv'
  BY <1>2, TruthExecute
<1>3. ASSUME NEW r \in Readers, NEW i \in Ids, startLookup(r, i)  PROVE TruthInv'
  <2>1. r \in Actors
    BY DEF Actors
  <2>2. /\ pc'[r] = "lookup"
        /\ UNCHANGED <<progress, outcome, row, applied, decided>>
        /\ \A c \in Actors \ {r} : pc'[c] = pc[c] /\ target'[c] = target[c]
    BY <1>3, <2>1 DEF startLookup, WriteAheadInv, Typed
  <2>3. AccountIsTrue(r)'
    BY <2>2 DEF AccountIsTrue
  <2>4. Grows /\ progress' \in [Actors -> 0..Steps]
    BY <2>2, NothingGrows DEF TruthInv
  <2>5. QED
    BY <2>1, <2>2, <2>3, <2>4, TruthStep
<1>4. ASSUME NEW a \in Actors, lookup(a)  PROVE TruthInv'
  <2>1. UNCHANGED <<row, applied, decided>>
    BY <1>4 DEF lookup
  <2>2. CASE Free(a)
    BY <2>1, <2>2, TruthFrees
  <2>3. CASE pc' = [pc EXCEPT ![a] = "fetched"] /\ UNCHANGED <<target, body, progress, outcome>>
    BY <2>1, <2>3, TruthMoves
  <2>4. QED
    BY <1>4, <2>2, <2>3 DEF lookup
<1>5. ASSUME NEW a \in Actors, cacheFetched(a)  PROVE TruthInv'
  BY <1>5, TruthFrees DEF cacheFetched
<1>6. CASE beginDrain \/ finishDrain \/ ResumeAdmission \/ UNCHANGED vars
  <2>1. UNCHANGED <<pc, target, progress, outcome, row, applied, decided>>
    BY <1>6 DEF beginDrain, finishDrain, ResumeAdmission, vars
  <2>2. QED
    BY <2>1 DEF TruthInv, AccountIsTrue
<1>7. CASE CrashAndRecover
  BY <1>7, TruthRecovers
<1>8. QED
  BY <1>1, <1>2, <1>3, <1>4, <1>5, <1>6, <1>7 DEF Next

\* The durable history never claims an outcome that no execution reached, over
\* any number of pauses, failed saves, restarts and resubmissions: a success
\* had all its steps acknowledged, a partial success some, and a failure was
\* decided (failAfterProgress, update, Recover).
THEOREM OperationsTellTheTruth == Spec => []RowsAreTruthful
<1>1. Init => WriteAheadInv /\ TruthInv
  BY WriteAheadInit, TruthInit
<1>2. WriteAheadInv /\ TruthInv /\ [Next]_vars => (WriteAheadInv /\ TruthInv)'
  BY WriteAheadNext, TruthNext
<1>3. TruthInv => RowsAreTruthful
  BY DEF TruthInv, Truthful, RowsAreTruthful
<1>4. QED
  BY <1>1, <1>2, <1>3, PTL DEF Spec

\* Write-ahead: in every reachable state, an operation of which anything was
\* dispatched has its durable row (reserveDurableOperation runs before the first
\* dispatch, and only pruning removes a row), and the row claims no definite
\* outcome that no execution decided.
THEOREM OperationsWriteAhead == Spec => []WriteAhead
<1>1. Init => WriteAheadInv /\ TruthInv
  BY WriteAheadInit, TruthInit
<1>2. WriteAheadInv /\ TruthInv /\ [Next]_vars => (WriteAheadInv /\ TruthInv)'
  BY WriteAheadNext, TruthNext
<1>3. WriteAheadInv /\ TruthInv => WriteAhead
  BY DEF WriteAheadInv, RowsBehindSends, TruthInv, Truthful, WriteAhead
<1> QED
  BY <1>1, <1>2, <1>3, PTL DEF Spec

-----------------------------------------------------------------------------
(* At most once                                                            *)

\* A marked id is in the memory window, so a reservation never finds a mark.
MarksAreCached == \A i \in marked : memory[i] # "none"

\* A row that is present, or was read, has a real status, and an execution
\* publishes a decided outcome.
StatusesAreReal ==
    /\ \A i \in Ids : row[i] # NoRow => row[i].status # "none"
    /\ \A a \in Actors : pc[a] = "fetched" => fetched[a].status # "none"
    /\ \A a \in Actors : pc[a] \in {"closing", "publishing", "unsaved"} => outcome[a] # "none"

\* Executions are registered, each under an id of its own.
Registered ==
    \A a \in Submitters :
        pc[a] \in Executing =>
            /\ target[a] \in active
            /\ \A b \in Submitters \ {a} : pc[b] \in Executing => target[b] # target[a]

\* An execution that will dispatch, because the id is marked or has no row yet,
\* has no send of the steps after its progress that stands.
MayDispatch(a) ==
    \/ pc[a] = "running"
    \/ pc[a] = "active" /\ (target[a] \in marked \/ row[target[a]] = NoRow)
NothingSentAhead(a) ==
    MayDispatch(a) /\ target[a] \notin pruned =>
        \A k \in 1..Steps : k > progress[a] => standing[target[a]][k] = 0

\* The counters of standing sends are counts.
CountersCount == \A i \in Ids : \A k \in 1..Steps : standing[i][k] \in Nat

OnceInv ==
    /\ progress \in [Actors -> Int]
    /\ fetched \in [Actors -> Rows]
    /\ CountersCount
    /\ MarksAreCached
    /\ StatusesAreReal
    /\ Registered
    /\ \A a \in Submitters : pc[a] = "reserved" => target[a] \notin marked
    /\ \A a \in Submitters : NothingSentAhead(a)
    /\ AtMostOnce

\* Caching a real status keeps the marked ids cached, whatever is evicted.
LEMMA CacheKeepsMarks ==
    ASSUME MarksAreCached, NEW i \in Ids, NEW status, NEW hash, NEW marks, status # "none",
           marked \subseteq Ids, marks \subseteq marked \cup {i},
           cacheOperationLocked(i, status, hash, marks)
    PROVE  MarksAreCached'
<1>1. PICK gone :
          /\ marked' = marks \ gone
          /\ memory' = [j \in Ids |-> IF j \in gone THEN "none"
                                      ELSE IF j = i THEN status ELSE memory[j]]
  BY DEF cacheOperationLocked
<1>2. ASSUME NEW j \in marked'  PROVE memory'[j] # "none"
  <2>1. j \in Ids /\ j \notin gone /\ (j = i \/ j \in marked)
    BY <1>1
  <2>2. QED
    BY <1>1, <2>1 DEF MarksAreCached
<1>3. QED
  BY <1>2 DEF MarksAreCached

\* Setting a real status leaves the present rows with real statuses.
LEMMA RealStatus ==
    ASSUME WriteAheadInv, \A i \in Ids : row[i] # NoRow => row[i].status # "none",
           NEW i \in Ids, NEW s, s # "none", row' = [row EXCEPT ![i].status = s]
    PROVE  \A j \in Ids : row'[j] # NoRow => row'[j].status # "none"
BY OneStatus

\* What a step of submitter a may do to the marks, rows, counters and the
\* registry without touching what the other submitters rely on.
LEMMA OthersKeepTheirs ==
    ASSUME WriteAheadInv, OnceInv, NEW a \in Actors, NEW b \in Submitters \ {a},
           pc'[b] = pc[b], target'[b] = target[b], progress'[b] = progress[b],
           \A i \in Ids : i = target[b] /\ pc[b] \in Executing \cup {"reserved"} =>
               /\ i \in marked' => i \in marked
               /\ row[i] # NoRow => row'[i] # NoRow
               /\ standing'[i] = standing[i],
           pruned \subseteq pruned'
    PROVE  /\ (pc[b] = "reserved" => target[b] \notin marked)'
           /\ NothingSentAhead(b)'
<1>1. pc[b] # "idle" => target[b] \in Ids
  BY DEF WriteAheadInv, Targeted, Actors
<1>2. NothingSentAhead(b) /\ (pc[b] = "reserved" => target[b] \notin marked)
  BY DEF OnceInv
<1>3. pc[b] = "reserved" => target[b] \notin marked'
  BY <1>1, <1>2
<1>4. CASE pc[b] \in {"active", "running"}
  <2>1. target[b] \in Ids /\ pc[b] \in Executing
    BY <1>1, <1>4 DEF Executing
  <2>2. MayDispatch(b)' => MayDispatch(b)
    BY <2>1 DEF MayDispatch
  <2>3. standing'[target[b]] = standing[target[b]]
    BY <2>1
  <2>4. QED
    BY <1>2, <1>3, <2>2, <2>3 DEF NothingSentAhead
<1>5. CASE pc[b] \notin {"active", "running"}
  BY <1>3, <1>5 DEF NothingSentAhead, MayDispatch
<1>6. QED
  BY <1>4, <1>5

\* The invariant after a step of actor a, from what the step does to a itself.
LEMMA OnceStep ==
    ASSUME WriteAheadInv, OnceInv, NEW a \in Actors,
           \A b \in Actors \ {a} : /\ pc'[b] = pc[b] /\ target'[b] = target[b]
                                   /\ progress'[b] = progress[b] /\ outcome'[b] = outcome[b]
                                   /\ fetched'[b] = fetched[b],
           progress' \in [Actors -> Int], fetched' \in [Actors -> Rows], CountersCount',
           MarksAreCached', Registered', AtMostOnce',
           \A i \in Ids : row'[i] # NoRow => row'[i].status # "none",
           pc'[a] = "fetched" => fetched'[a].status # "none",
           pc'[a] \in {"closing", "publishing", "unsaved"} => outcome'[a] # "none",
           \A b \in Submitters \ {a} : \A i \in Ids :
               i = target[b] /\ pc[b] \in Executing \cup {"reserved"} =>
                   /\ i \in marked' => i \in marked
                   /\ row[i] # NoRow => row'[i] # NoRow
                   /\ standing'[i] = standing[i],
           pruned' = pruned,
           a \in Submitters => /\ (pc[a] = "reserved" => target[a] \notin marked)'
                               /\ NothingSentAhead(a)'
    PROVE  OnceInv'
<1>1. StatusesAreReal'
  BY DEF OnceInv, StatusesAreReal
<1>2. ASSUME NEW b \in Submitters
      PROVE  (pc[b] = "reserved" => target[b] \notin marked)' /\ NothingSentAhead(b)'
  <2>1. CASE b = a
    BY <2>1
  <2>2. CASE b # a
    <3>1. b \in Submitters \ {a} /\ b \in Actors \ {a}
      BY <2>2 DEF Actors
    <3>2. pruned \subseteq pruned'
      OBVIOUS
    <3>3. QED
      BY <3>1, <3>2, OthersKeepTheirs
  <2>3. QED
    BY <2>1, <2>2
<1>3. QED
  BY <1>1, <1>2 DEF OnceInv

\* An execution that goes on stays registered.
LEMMA StaysRegistered ==
    ASSUME WriteAheadInv, Registered, NEW a \in Actors, NEW p, pc' = [pc EXCEPT ![a] = p],
           p \in Executing => pc[a] \in Executing, UNCHANGED <<target, active>>
    PROVE  Registered'
<1>1. pc'[a] = p /\ \A b \in Submitters \ {a} : pc'[b] = pc[b]
  BY DEF WriteAheadInv, Typed, Actors
<1>2. QED
  BY <1>1 DEF Registered

\* Nobody else executes or is about to execute what a executes.
LEMMA NobodyElse ==
    ASSUME Registered, Uncrossed, NEW a \in Submitters, pc[a] \in Executing,
           NEW b \in Submitters \ {a}, pc[b] \in Executing \cup {"reserved"}
    PROVE  target[b] # target[a]
BY DEF Registered, Uncrossed, Actors

\* A step of an execution that marks nothing new, dispatches nothing and loses
\* no row.
LEMMA OnceMoves ==
    ASSUME WriteAheadInv, OnceInv, NEW a \in Submitters, NEW p, pc' = [pc EXCEPT ![a] = p],
           pc[a] \in Executing, p \in Executing,
           UNCHANGED <<target, progress, fetched, active, standing, pruned>>,
           outcome' \in [Actors -> Terminal \cup {"none"}],
           \A b \in Actors \ {a} : outcome'[b] = outcome[b],
           MarksAreCached', marked' \subseteq marked,
           \A i \in Ids : row'[i] # NoRow => row'[i].status # "none",
           \A i \in Ids : row[i] # NoRow => row'[i] # NoRow,
           p \in {"closing", "publishing", "unsaved"} => outcome'[a] # "none",
           p \in {"active", "running"} => pc[a] \in {"active", "running"},
           p = "running" => MayDispatch(a)
    PROVE  OnceInv'
<1>1. a \in Actors /\ pc'[a] = p /\ \A b \in Actors \ {a} : pc'[b] = pc[b]
  BY DEF WriteAheadInv, Typed, Actors
<1>2. Registered'
  BY <1>1, StaysRegistered DEF OnceInv
<1>3. p # "reserved" /\ p # "fetched"
  BY DEF Executing
<1>4. NothingSentAhead(a)'
  <2>1. MayDispatch(a)' => MayDispatch(a)
    <3>1. target[a] \in Ids
      BY <1>1 DEF WriteAheadInv, Targeted, Executing
    <3>2. QED
      BY <1>1, <3>1 DEF MayDispatch
  <2>2. NothingSentAhead(a)
    BY DEF OnceInv
  <2>3. QED
    BY <2>1, <2>2 DEF NothingSentAhead
<1>5. /\ AtMostOnce' /\ CountersCount'
      /\ progress' \in [Actors -> Int] /\ fetched' \in [Actors -> Rows]
  BY DEF OnceInv, AtMostOnce, CountersCount
<1>6. \A b \in Submitters \ {a} : \A i \in Ids :
          /\ i \in marked' => i \in marked
          /\ row[i] # NoRow => row'[i] # NoRow
          /\ standing'[i] = standing[i]
  OBVIOUS
<1>7. QED
  BY <1>1, <1>2, <1>3, <1>4, <1>5, <1>6, OnceStep

\* publishLocked with a real status keeps the marks cached and adds none.
LEMMA PublishKeepsMarks ==
    ASSUME WriteAheadInv, OnceInv, NEW i \in Ids, NEW s, s # "none", publishLocked(i, s)
    PROVE  MarksAreCached' /\ marked' \subseteq marked
<1>1. marked' \subseteq marked
  BY PublishShrinks
<1>2. MarksAreCached /\ marked \subseteq Ids /\ marked \subseteq marked \cup {i}
  BY DEF WriteAheadInv, Typed, OnceInv
<1>3. QED
  BY <1>1, <1>2, CacheKeepsMarks DEF publishLocked

\* reserveDurableOperation and adoptExisting mark the id they work on; nobody
\* else is at it.
LEMMA OnceMarks ==
    ASSUME WriteAheadInv, OnceInv, Uncrossed, NEW a \in Submitters, pc[a] = "active",
           NEW p \in {"running", "leaving"}, pc' = [pc EXCEPT ![a] = p],
           UNCHANGED <<target, progress, outcome, fetched, active, dispatched, standing, pruned>>,
           MarksAreCached', marked' \subseteq marked \cup {target[a]},
           \A i \in Ids : row'[i] # NoRow => row'[i].status # "none",
           \A i \in Ids : row[i] # NoRow => row'[i] # NoRow,
           p = "running" => row[target[a]] = NoRow
    PROVE  OnceInv'
<1>1. a \in Actors /\ pc'[a] = p /\ \A b \in Actors \ {a} : pc'[b] = pc[b]
  BY DEF WriteAheadInv, Typed, Actors
<1>2. Registered'
  BY <1>1, StaysRegistered DEF OnceInv, Executing
<1>3. NothingSentAhead(a)'
  <2>1. MayDispatch(a)' => MayDispatch(a)
    BY <1>1 DEF MayDispatch
  <2>2. NothingSentAhead(a)
    BY DEF OnceInv
  <2>3. QED
    BY <2>1, <2>2 DEF NothingSentAhead
<1>4. /\ AtMostOnce' /\ CountersCount'
      /\ progress' \in [Actors -> Int] /\ fetched' \in [Actors -> Rows]
  BY DEF OnceInv, AtMostOnce, CountersCount
<1>5. ASSUME NEW b \in Submitters \ {a}, NEW i \in Ids, i = target[b],
             pc[b] \in Executing \cup {"reserved"}
      PROVE  /\ i \in marked' => i \in marked
             /\ row[i] # NoRow => row'[i] # NoRow
             /\ standing'[i] = standing[i]
  <2>1. target[b] # target[a]
    BY <1>5, NobodyElse DEF OnceInv, Executing
  <2>2. QED
    BY <1>5, <2>1
<1>6. p \notin {"reserved", "fetched", "closing", "publishing", "unsaved"}
  OBVIOUS
<1>7. QED
  BY <1>1, <1>2, <1>3, <1>4, <1>5, <1>6, OnceStep

\* The next step is sent and the send stands: no send ahead of this execution's
\* progress stood before.
LEMMA OnceDispatches ==
    ASSUME WriteAheadInv, OnceInv, Uncrossed, NEW a \in Submitters, dispatch(a)
    PROVE  OnceInv'
<1> USE DEF engineVars
<1> DEFINE i == target[a]
           k == progress[a] + 1
<1>1. /\ a \in Actors /\ pc[a] = "running" /\ pc[a] \in Executing
      /\ i \in Ids /\ progress[a] \in Int
      /\ standing \in [Ids -> [1..Steps -> Int]]
  BY DEF dispatch, WriteAheadInv, Typed, Targeted, OnceInv, Actors, Executing
<1>2. /\ standing' = [standing EXCEPT ![i] = [standing[i] EXCEPT ![k] = @ + 1]]
      /\ UNCHANGED <<target, fetched, memory, marked, active, row, pruned>>
  BY <1>1 DEF dispatch, acknowledged, notAcknowledged
<1>3. /\ \A j \in Ids \ {i} : standing'[j] = standing[j]
      /\ \A l \in 1..Steps : standing'[i][l] = IF l = k THEN standing[i][l] + 1
                                                          ELSE standing[i][l]
  BY <1>1, <1>2
<1>4. i \notin pruned => \A l \in 1..Steps : l > progress[a] => standing[i][l] = 0
  BY <1>1 DEF OnceInv, NothingSentAhead, MayDispatch
<1>5. AtMostOnce'
  <2> SUFFICES ASSUME NEW j \in Ids \ pruned, NEW l \in 1..Steps PROVE standing'[j][l] <= 1
    BY <1>2 DEF AtMostOnce
  <2>1. standing[j][l] <= 1
    BY DEF OnceInv, AtMostOnce
  <2>2. CASE j = i /\ l = k
    BY <1>1, <1>3, <1>4, <2>2
  <2>3. CASE ~(j = i /\ l = k)
    BY <1>3, <2>1, <2>3
  <2>4. QED
    BY <2>2, <2>3
<1>6. \E p \in {"running", "closing"} : pc' = [pc EXCEPT ![a] = p]
  <2>1. UNCHANGED pc => pc' = [pc EXCEPT ![a] = "running"]
    BY <1>1 DEF WriteAheadInv, Typed
  <2>2. UNCHANGED pc \/ pc' = [pc EXCEPT ![a] = "closing"]
    BY DEF dispatch, acknowledged, notAcknowledged
  <2>3. QED
    BY <2>1, <2>2
<1>7. PICK p \in {"running", "closing"} : pc' = [pc EXCEPT ![a] = p]
  BY <1>6
<1>8. pc'[a] = p /\ \A b \in Actors \ {a} : pc'[b] = pc[b]
  BY <1>1, <1>7 DEF WriteAheadInv, Typed
<1>9. /\ progress' \in [Actors -> Int]
      /\ \A b \in Actors \ {a} : progress'[b] = progress[b]
      /\ pc' # pc \/ progress'[a] = k
  <2>1. progress' = [progress EXCEPT ![a] = k]
        \/ (UNCHANGED progress /\ pc' = [pc EXCEPT ![a] = "closing"])
    BY DEF dispatch, acknowledged, notAcknowledged
  <2>2. pc' = [pc EXCEPT ![a] = "closing"] => pc'[a] = "closing" /\ pc' # pc
    BY <1>1 DEF WriteAheadInv, Typed
  <2>3. QED
    BY <1>1, <2>1, <2>2 DEF OnceInv
<1>10. /\ \A b \in Actors \ {a} : outcome'[b] = outcome[b]
       /\ p = "closing" => outcome'[a] # "none"
  <2>1. \/ UNCHANGED <<pc, outcome>>
        \/ \E s \in Terminal : outcome' = [outcome EXCEPT ![a] = s]
    BY DEF dispatch, acknowledged, notAcknowledged, Decide, FailureAfter, Terminal
  <2>2. p = "closing" => pc' # pc
    BY <1>1, <1>8
  <2>3. QED
    BY <1>1, <2>1, <2>2 DEF WriteAheadInv, Typed, Terminal
<1>11. NothingSentAhead(a)'
  <2>1. CASE p = "closing"
    BY <1>8, <2>1 DEF NothingSentAhead, MayDispatch
  <2>2. CASE p = "running"
    <3>1. pc' = pc
      BY <1>1, <1>7, <2>2 DEF WriteAheadInv, Typed
    <3>2. progress'[a] = k
      BY <1>9, <3>1
    <3>3. i \notin pruned => \A l \in 1..Steps : l > k => standing'[i][l] = 0
      BY <1>1, <1>3, <1>4
    <3>4. QED
      BY <1>2, <3>2, <3>3 DEF NothingSentAhead
  <2>3. QED
    BY <2>1, <2>2
<1>12. Registered' /\ MarksAreCached'
  BY <1>1, <1>2, <1>7, StaysRegistered DEF OnceInv, MarksAreCached, Executing
<1>13. ASSUME NEW b \in Submitters \ {a}, NEW j \in Ids, j = target[b],
              pc[b] \in Executing \cup {"reserved"}
       PROVE  standing'[j] = standing[j]
  BY <1>1, <1>3, <1>13, NobodyElse DEF OnceInv
<1>14. /\ \A j \in Ids : row'[j] # NoRow => row'[j].status # "none"
       /\ fetched' \in [Actors -> Rows]
  BY <1>2 DEF OnceInv, StatusesAreReal
<1>15. CountersCount'
  <2> SUFFICES ASSUME NEW j \in Ids, NEW l \in 1..Steps PROVE standing'[j][l] \in Nat
    BY DEF CountersCount
  <2>1. standing[j][l] \in Nat
    BY DEF OnceInv, CountersCount
  <2>2. QED
    BY <1>3, <2>1
<1>16. QED
  BY <1>1, <1>2, <1>5, <1>8, <1>9, <1>10, <1>11, <1>12, <1>13, <1>14, <1>15, OnceStep

LEMMA SentIsCounted ==
    ASSUME WriteAheadInv, NEW i \in Ids \ dispatched, NEW k \in 1..Steps
    PROVE  standing[i][k] = 0
BY DEF WriteAheadInv, SendsAreDispatches

\* An actor that is done: its registration may go, nobody else has it.
LEMMA OnceFrees ==
    ASSUME WriteAheadInv, OnceInv, NEW a \in Actors, Free(a),
           UNCHANGED <<row, dispatched, standing, pruned>>, MarksAreCached', Registered',
           \A b \in Submitters \ {a} :
               pc[b] \in Executing \cup {"reserved"} /\ target[b] \in marked' => target[b] \in marked
    PROVE  OnceInv'
<1>1. /\ pc'[a] = "idle"
      /\ progress' \in [Actors -> Int] /\ fetched' \in [Actors -> Rows]
      /\ \A b \in Actors \ {a} : /\ pc'[b] = pc[b] /\ target'[b] = target[b]
                                 /\ progress'[b] = progress[b] /\ outcome'[b] = outcome[b]
                                 /\ fetched'[b] = fetched[b]
  <2>1. progress' \in [Actors -> Int] /\ \A b \in Actors \ {a} : progress'[b] = progress[b]
    BY DEF OnceInv, Free
  <2>2. pc'[a] = "idle" /\ \A b \in Actors \ {a} : pc'[b] = pc[b]
    BY DEF WriteAheadInv, Typed, Free
  <2>3. \A b \in Actors \ {a} : target'[b] = target[b] /\ outcome'[b] = outcome[b]
    BY DEF WriteAheadInv, Typed, Free
  <2>4. fetched' \in [Actors -> Rows] /\ \A b \in Actors \ {a} : fetched'[b] = fetched[b]
    BY DEF Free, OnceInv, NoRow, Rows, Statuses
  <2>5. QED
    BY <2>1, <2>2, <2>3, <2>4
<1>2. NothingSentAhead(a)'
  BY <1>1 DEF NothingSentAhead, MayDispatch
<1>3. AtMostOnce' /\ CountersCount'
  BY DEF OnceInv, AtMostOnce, CountersCount
<1>4. \A i \in Ids : row'[i] # NoRow => row'[i].status # "none"
  BY DEF OnceInv, StatusesAreReal
<1>5. QED
  BY <1>1, <1>2, <1>3, <1>4, OnceStep

LEMMA OnceUnregisters ==
    ASSUME WriteAheadInv, OnceInv, NEW a \in Submitters, unregisterActive(a)
    PROVE  OnceInv'
<1>1. /\ a \in Actors /\ pc[a] \in Executing /\ Free(a)
      /\ active' = active \ {target[a]}
      /\ UNCHANGED <<memory, marked, row, dispatched, standing, pruned>>
  BY DEF unregisterActive, Actors, Executing, historyVars
<1>2. /\ pc'[a] = "idle"
      /\ \A b \in Submitters \ {a} : pc'[b] = pc[b] /\ target'[b] = target[b]
  BY <1>1 DEF WriteAheadInv, Typed, Free, Actors
<1>3. Registered'
  <2>1. \A b \in Submitters \ {a} : pc[b] \in Executing => target[b] # target[a]
    BY <1>1 DEF OnceInv, Registered
  <2>2. QED
    BY <1>1, <1>2, <2>1 DEF OnceInv, Registered, Executing
<1>4. MarksAreCached'
  BY <1>1 DEF OnceInv, MarksAreCached
<1>5. QED
  BY <1>1, <1>3, <1>4, OnceFrees

\* Every step of an execution keeps each step's dispatch unique.
LEMMA OnceExecute ==
    ASSUME WriteAheadInv, OnceInv, Uncrossed, NEW a \in Submitters, Execute(a)
    PROVE  OnceInv'
<1> USE DEF historyVars, engineVars
<1> DEFINE i == target[a]
<1>1. /\ a \in Actors /\ (pc[a] # "idle" => i \in Ids)
      /\ outcome \in [Actors -> Terminal \cup {"none"}]
      /\ MarksAreCached /\ Registered
      /\ \A j \in Ids : row[j] # NoRow => row[j].status # "none"
  BY DEF Actors, WriteAheadInv, Typed, Targeted, OnceInv, StatusesAreReal
<1>2. CASE registerActive(a)
  <2>1. /\ pc[a] = "reserved" /\ i \in Ids /\ i \notin marked
        /\ UNCHANGED <<target, progress, outcome, fetched, memory, marked, row, dispatched, standing, pruned>>
    BY <1>1, <1>2 DEF registerActive, OnceInv
  <2>2. \A b \in Actors \ {a} : pc'[b] = pc[b]
    BY <1>2 DEF registerActive, WriteAheadInv, Typed
  <2>3. pc'[a] \in {"lookup", "active"}
    BY <1>1, <1>2 DEF registerActive, WriteAheadInv, Typed
  <2>4. Registered'
    <3>1. CASE i \in active
      <4>1. pc' = [pc EXCEPT ![a] = "lookup"] /\ UNCHANGED active
        BY <1>2, <3>1 DEF registerActive
      <4>2. QED
        BY <1>1, <2>1, <4>1, StaysRegistered DEF Executing
    <3>2. CASE i \notin active
      <4>1. active' = active \cup {i}
        BY <1>2, <3>2 DEF registerActive
      <4>2. \A b \in Submitters \ {a} : pc[b] \in Executing => target[b] # i
        BY <1>1, <3>2 DEF Registered
      <4>3. QED
        BY <1>1, <2>1, <2>2, <4>1, <4>2 DEF Registered, Actors
    <3>3. QED
      BY <3>1, <3>2
  <2>5. NothingSentAhead(a)'
    <3> SUFFICES ASSUME row[i] = NoRow, i \notin pruned, NEW k \in 1..Steps
                 PROVE  standing[i][k] = 0
      BY <2>1, <2>3 DEF NothingSentAhead, MayDispatch
    <3>1. i \in Ids \ dispatched
      BY <2>1 DEF WriteAheadInv, RowsBehindSends
    <3>2. QED
      BY <2>1, <3>1, SentIsCounted
  <2>6. /\ AtMostOnce' /\ CountersCount' /\ MarksAreCached'
        /\ progress' \in [Actors -> Int] /\ fetched' \in [Actors -> Rows]
    BY <1>1, <2>1 DEF OnceInv, AtMostOnce, CountersCount, MarksAreCached
  <2>7. QED
    BY <1>1, <2>1, <2>2, <2>3, <2>4, <2>5, <2>6, OnceStep
<1>3. CASE failWhilePlanning(a) \/ failBeforeDispatch(a)
  <2>1. PICK s \in Terminal : outcome' = [outcome EXCEPT ![a] = s]
    BY <1>3 DEF failWhilePlanning, failBeforeDispatch, Decide, FailureAfter, Terminal
  <2>2. /\ pc[a] \in Executing /\ pc' = [pc EXCEPT ![a] = "closing"]
        /\ UNCHANGED <<target, progress, fetched, active, dispatched, standing, pruned, marked, memory, row>>
    BY <1>3 DEF failWhilePlanning, failBeforeDispatch, Executing
  <2>3. /\ outcome' \in [Actors -> Terminal \cup {"none"}] /\ outcome'[a] # "none"
        /\ \A b \in Actors \ {a} : outcome'[b] = outcome[b]
    BY <1>1, <2>1 DEF Terminal
  <2>4. MarksAreCached'
    BY <1>1, <2>2 DEF MarksAreCached
  <2>5. QED
    BY <1>1, <2>2, <2>3, <2>4, OnceMoves DEF Executing
<1>4. CASE skipReserve(a)
  BY <1>1, <1>4, PublishKeepsMarks, OnceMoves DEF skipReserve, Executing, MayDispatch
<1>5. CASE reserveDurableOperation(a)
  <2>1. /\ row' = [row EXCEPT ![i] = [status |-> "running", body |-> body[a]]]
        /\ pc[a] = "active" /\ row[i] = NoRow
        /\ cacheOperationLocked(i, "running", hashes[i], marked \cup {i})
    BY <1>5 DEF reserveDurableOperation
  <2>2. MarksAreCached' /\ marked' \subseteq marked \cup {i}
    BY <1>1, <2>1, CacheKeepsMarks, CacheShrinks DEF WriteAheadInv, Typed
  <2>3. /\ \A j \in Ids : row'[j] # NoRow => row'[j].status # "none"
        /\ \A j \in Ids : row[j] # NoRow => row'[j] # NoRow
    BY <1>1, <2>1 DEF WriteAheadInv, Typed
  <2>4. QED
    BY <1>1, <1>5, <2>1, <2>2, <2>3, OnceMarks DEF reserveDurableOperation
<1>6. CASE adoptExisting(a)
  <2>1. /\ pc[a] = "active" /\ row[i].status # "none" /\ row' = row
        /\ cacheOperationLocked(i, row[i].status, body[a], marked \cup {i})
    BY <1>1, <1>6 DEF adoptExisting
  <2>2. MarksAreCached' /\ marked' \subseteq marked \cup {i}
    BY <1>1, <2>1, CacheKeepsMarks, CacheShrinks DEF WriteAheadInv, Typed
  <2>3. QED
    BY <1>1, <1>6, <2>1, <2>2, OnceMarks DEF adoptExisting
<1>7. CASE persistenceFailure(a)
  BY <1>1, <1>7, PublishKeepsMarks, OnceMoves DEF persistenceFailure, Executing
<1>8. CASE pause(a)
  <2>1. row' = row \/ row' = [row EXCEPT ![i].status = "paused"]
    BY <1>8 DEF pause
  <2>2. i \in Ids /\ "paused" \in Open \cup Terminal
    BY <1>1, <1>8 DEF pause, Open
  <2>3. \A j \in Ids : row'[j] # NoRow => row'[j].status # "none"
    BY <1>1, <2>1, <2>2, RealStatus
  <2>4. \A j \in Ids : row[j] # NoRow => row'[j] # NoRow
    BY <2>1, <2>2, SetStatusKeepsRows DEF WriteAheadInv, Typed
  <2>5. MarksAreCached' /\ marked' \subseteq marked
    BY <1>8, <2>2, PublishKeepsMarks DEF pause
  <2>6. QED
    BY <1>1, <1>8, <2>3, <2>4, <2>5, OnceMoves DEF pause, Executing
<1>9. CASE replan(a)
  BY <1>1, <1>9, PublishKeepsMarks, OnceMoves DEF replan, planAgain, Executing
<1>10. CASE dispatch(a)
  BY <1>10, OnceDispatches
<1>11. CASE saveFinal(a)
  <2>1. /\ pc[a] = "closing" /\ i \in Ids /\ outcome[a] # "none" /\ outcome[a] \in Terminal
        /\ UNCHANGED <<target, progress, outcome, fetched, active, dispatched, standing, pruned, marked, memory>>
    BY <1>1, <1>11 DEF saveFinal, WriteAheadInv, Targeted, Terminal
  <2>2. PICK p \in {"publishing", "unsaved"} : pc' = [pc EXCEPT ![a] = p]
    BY <1>11 DEF saveFinal
  <2>3. row' = row \/ row' = [row EXCEPT ![i].status = outcome[a]]
    BY <1>11 DEF saveFinal
  <2>4. \A j \in Ids : row'[j] # NoRow => row'[j].status # "none"
    BY <1>1, <2>1, <2>3, RealStatus
  <2>5. \A j \in Ids : row[j] # NoRow => row'[j] # NoRow
    <3>1. row \in [Ids -> Rows] /\ outcome[a] \in Open \cup Terminal
      BY <2>1 DEF WriteAheadInv, Typed
    <3>2. QED
      BY <2>1, <2>3, <3>1, SetStatusKeepsRows
  <2>6. MarksAreCached'
    BY <1>1, <2>1 DEF MarksAreCached
  <2>7. QED
    BY <1>1, <2>1, <2>2, <2>4, <2>5, <2>6, OnceMoves DEF Executing
<1>12. CASE publishFinal(a)
  <2>1. PICK p \in {"retracting", "leaving"} : pc' = [pc EXCEPT ![a] = p]
    BY <1>12 DEF publishFinal
  <2>2. pc[a] \in {"publishing", "unsaved"} /\ i \in Ids /\ outcome[a] # "none"
    BY <1>1, <1>12 DEF publishFinal, OnceInv, StatusesAreReal
  <2>3. MarksAreCached' /\ marked' \subseteq marked
    BY <1>12, <2>2, PublishKeepsMarks DEF publishFinal
  <2>4. QED
    BY <1>1, <1>12, <2>1, <2>2, <2>3, OnceMoves DEF publishFinal, Executing
<1>13. CASE retract(a)
  BY <1>1, <1>13, PublishKeepsMarks, OnceMoves DEF retract, Executing
<1>14. CASE unregisterActive(a)
  BY <1>1, <1>14, OnceUnregisters
<1>15. CASE dispatchRefused(a)
  <2>1. /\ pc[a] = "running" /\ UNCHANGED <<target, progress, outcome, fetched, row, standing, pruned>>
        /\ (UNCHANGED pc /\ UNCHANGED engineVars) \/ (planAgain(a) /\ UNCHANGED active)
    BY <1>15 DEF dispatchRefused, refusedForNow
  <2>2. CASE UNCHANGED pc /\ UNCHANGED engineVars
    <3>1. pc' = [pc EXCEPT ![a] = "running"] /\ MarksAreCached' /\ MayDispatch(a)
      BY <1>1, <2>1, <2>2 DEF MarksAreCached, MayDispatch, engineVars, WriteAheadInv, Typed
    <3>2. QED
      BY <1>1, <2>1, <2>2, <3>1, OnceMoves DEF Executing, engineVars
  <2>3. CASE planAgain(a) /\ UNCHANGED active
    BY <1>1, <2>1, <2>3, PublishKeepsMarks, OnceMoves DEF planAgain, Executing
  <2>4. QED
    BY <2>1, <2>2, <2>3
<1>16. CASE dispatchRebuild(a)
  <2>1. /\ pc[a] = "running" /\ UNCHANGED <<target, progress, fetched, row, standing, pruned>>
        /\ UNCHANGED <<memory, marked, active>>
    BY <1>16 DEF dispatchRebuild, notAcknowledged, engineVars
  <2>2. MarksAreCached'
    BY <1>1, <2>1 DEF MarksAreCached
  <2>3. CASE UNCHANGED <<pc, outcome>>
    <3>1. pc' = [pc EXCEPT ![a] = "running"] /\ MayDispatch(a)
      BY <1>1, <2>1, <2>3 DEF MayDispatch, WriteAheadInv, Typed
    <3>2. QED
      BY <1>1, <2>1, <2>2, <2>3, <3>1, OnceMoves DEF Executing
  <2>4. CASE notAcknowledged(a)
    <3>1. \E status \in Terminal : outcome' = [outcome EXCEPT ![a] = status]
      BY <2>4 DEF notAcknowledged, Decide, FailureAfter, Terminal
    <3>2. /\ outcome' \in [Actors -> Terminal \cup {"none"}] /\ outcome'[a] # "none"
          /\ \A b \in Actors \ {a} : outcome'[b] = outcome[b]
      BY <1>1, <3>1 DEF Terminal
    <3>3. pc' = [pc EXCEPT ![a] = "closing"]
      BY <2>4 DEF notAcknowledged
    <3>4. QED
      BY <1>1, <2>1, <2>2, <3>2, <3>3, OnceMoves DEF Executing
  <2>5. QED
    BY <1>16, <2>3, <2>4 DEF dispatchRebuild
<1>17. QED
  BY <1>2, <1>3, <1>4, <1>5, <1>6, <1>7, <1>8, <1>9, <1>10, <1>11, <1>12, <1>13, <1>14,
     <1>15, <1>16 DEF Execute

LEMMA OnceInit == Init => OnceInv
<1> SUFFICES ASSUME Init PROVE OnceInv
  OBVIOUS
<1>1. /\ progress \in [Actors -> Int]
      /\ fetched \in [Actors -> Rows]
      /\ CountersCount /\ AtMostOnce
  BY DEF Init, NoRow, Rows, Statuses, CountersCount, AtMostOnce
<1>2. MarksAreCached /\ StatusesAreReal
  BY DEF Init, MarksAreCached, StatusesAreReal, NoRow
<1>3. \A a \in Submitters : pc[a] = "idle"
  BY DEF Init, Actors
<1>4. Registered /\ \A a \in Submitters : NothingSentAhead(a)
  BY <1>3 DEF Registered, Executing, NothingSentAhead, MayDispatch
<1>5. QED
  BY <1>1, <1>2, <1>3, <1>4 DEF OnceInv

\* A restart leaves no actor behind, and only what is in the store is marked.
LEMMA OnceRecovers ==
    ASSUME WriteAheadInv, OnceInv, CrashAndRecover
    PROVE  OnceInv'
<1>1. PICK lost \in SUBSET Ids :
          /\ row' = [i \in Ids |-> IF i \in lost THEN NoRow ELSE Recovered(row[i])]
          /\ pruned' = pruned \cup lost
  BY DEF CrashAndRecover
<1>2. /\ pc' = [a \in Actors |-> "idle"] /\ progress' = [a \in Actors |-> 0]
      /\ fetched' = [a \in Actors |-> NoRow] /\ standing' = standing
  BY DEF CrashAndRecover
<1>3. \A i \in Ids : row'[i] # NoRow => row'[i].status # "none"
  <2> SUFFICES ASSUME NEW i \in Ids, row'[i] # NoRow PROVE row'[i].status # "none"
    OBVIOUS
  <2>1. row'[i] = Recovered(row[i]) /\ row[i] \in Rows
    BY <1>1 DEF WriteAheadInv, Typed
  <2>2. row[i] # NoRow
    BY <2>1 DEF Recovered, NoRow, Open
  <2>3. row[i].status # "none"
    BY <2>2 DEF OnceInv, StatusesAreReal
  <2>4. QED
    BY <2>1, <2>3 DEF Recovered, Rows
<1>4. MarksAreCached'
  <2>1. PICK window \in SUBSET {i \in Ids : row'[i] # NoRow} :
            /\ marked' = window
            /\ memory' = [i \in Ids |-> IF i \in window THEN row'[i].status ELSE "none"]
    <3>1. loadRecent(row')
      BY DEF CrashAndRecover
    <3> DEFINE stored == {i \in Ids : row'[i] # NoRow}
    <3>2. PICK ord \in [1..AtMost(stored, MemoryLimit) -> stored] :
              LET window == {ord[k] : k \in DOMAIN ord}
              IN  /\ marked' = window
                  /\ memory' = [i \in Ids |-> IF i \in window THEN row'[i].status ELSE "none"]
      BY <3>1 DEF loadRecent
    <3>3. {ord[k] : k \in DOMAIN ord} \in SUBSET stored
      BY <3>2
    <3>4. QED
      BY <3>2, <3>3
  <2>2. QED
    BY <1>3, <2>1 DEF MarksAreCached
<1>5. /\ progress' \in [Actors -> Int]
      /\ fetched' \in [Actors -> Rows]
      /\ CountersCount'
  BY <1>2 DEF OnceInv, CountersCount, NoRow, Rows, Statuses
<1>6. AtMostOnce'
  BY <1>1, <1>2 DEF OnceInv, AtMostOnce
<1>7. StatusesAreReal'
  BY <1>2, <1>3 DEF StatusesAreReal
<1>8. \A a \in Submitters : pc'[a] = "idle"
  BY <1>2 DEF Actors
<1>9. Registered' /\ \A a \in Submitters : NothingSentAhead(a)'
  BY <1>8 DEF Registered, Executing, NothingSentAhead, MayDispatch
<1>10. QED
  BY <1>4, <1>5, <1>6, <1>7, <1>8, <1>9 DEF OnceInv

\* A reservation: the id was not in memory, so it is not marked.
LEMMA OnceReserves ==
    ASSUME WriteAheadInv, OnceInv, NEW a \in Submitters, NEW i \in Ids, NEW b,
           reserveOperation(a, i, b)
    PROVE  OnceInv'
<1>1. /\ a \in Actors /\ pc[a] = "idle" /\ memory[i] = "none"
      /\ UNCHANGED <<progress, outcome, fetched, active, row, dispatched, standing, pruned>>
      /\ cacheOperationLocked(i, "planning", b, marked)
  BY DEF reserveOperation, Actors, historyVars
<1>2. /\ pc'[a] = "reserved" /\ target'[a] = i
      /\ \A c \in Actors \ {a} : pc'[c] = pc[c] /\ target'[c] = target[c]
  BY <1>1 DEF reserveOperation, WriteAheadInv, Typed
<1>3. marked' \subseteq marked /\ MarksAreCached'
  BY <1>1, CacheKeepsMarks, CacheShrinks DEF OnceInv, WriteAheadInv, Typed
<1>4. i \notin marked'
  BY <1>1, <1>3 DEF OnceInv, MarksAreCached
<1>5. Registered'
  BY <1>1, <1>2 DEF OnceInv, Registered, Executing, Actors
<1>6. /\ AtMostOnce' /\ CountersCount'
      /\ progress' \in [Actors -> Int] /\ fetched' \in [Actors -> Rows]
      /\ \A j \in Ids : row'[j] # NoRow => row'[j].status # "none"
  BY <1>1 DEF OnceInv, AtMostOnce, CountersCount, StatusesAreReal
<1>7. NothingSentAhead(a)'
  BY <1>2 DEF NothingSentAhead, MayDispatch
<1>8. QED
  BY <1>1, <1>2, <1>3, <1>4, <1>5, <1>6, <1>7, OnceStep

\* Operation(id): a fetched row is marked only while nobody is at its id.
LEMMA OnceLooksUp ==
    ASSUME WriteAheadInv, OnceInv, Uncrossed, NEW a \in Actors, lookup(a) \/ cacheFetched(a)
    PROVE  OnceInv'
<1>1. target[a] \in Ids /\ UNCHANGED <<active, row, dispatched, standing, pruned>>
  BY DEF lookup, cacheFetched, engineVars, historyVars, WriteAheadInv, Targeted
<1>2. ASSUME Free(a), MarksAreCached', pc[a] \notin Executing,
             \A b \in Submitters \ {a} :
                 pc[b] \in Executing \cup {"reserved"} /\ target[b] \in marked' => target[b] \in marked
      PROVE  OnceInv'
  <2>1. /\ pc'[a] = "idle"
        /\ \A b \in Submitters \ {a} : pc'[b] = pc[b] /\ target'[b] = target[b]
    BY <1>2 DEF WriteAheadInv, Typed, Free, Actors
  <2>2. Registered'
    BY <1>1, <2>1 DEF OnceInv, Registered, Executing
  <2>3. QED
    BY <1>1, <1>2, <2>2, OnceFrees
<1>3. CASE lookup(a) /\ Free(a)
  <2>1. pc[a] \notin Executing /\ UNCHANGED <<memory, marked>>
    BY <1>3 DEF lookup, engineVars, Executing
  <2>2. MarksAreCached'
    BY <2>1 DEF OnceInv, MarksAreCached
  <2>3. QED
    BY <1>2, <1>3, <2>1, <2>2
<1>4. CASE lookup(a) /\ ~Free(a)
  <2>1. /\ row[target[a]] # NoRow /\ UNCHANGED <<memory, marked, target, progress, outcome>>
        /\ pc' = [pc EXCEPT ![a] = "fetched"]
        /\ fetched' = [fetched EXCEPT ![a] = row[target[a]]]
    BY <1>4 DEF lookup, engineVars
  <2>2. /\ pc'[a] = "fetched" /\ fetched'[a] = row[target[a]]
        /\ fetched' \in [Actors -> Rows]
        /\ \A b \in Actors \ {a} : pc'[b] = pc[b] /\ fetched'[b] = fetched[b]
    BY <1>1, <2>1 DEF WriteAheadInv, Typed, OnceInv
  <2>3. fetched'[a].status # "none"
    BY <1>1, <2>1, <2>2 DEF OnceInv, StatusesAreReal
  <2>4. Registered'
    BY <1>1, <2>1, StaysRegistered DEF OnceInv, Executing
  <2>5. /\ AtMostOnce' /\ CountersCount' /\ MarksAreCached'
        /\ progress' \in [Actors -> Int]
        /\ \A j \in Ids : row'[j] # NoRow => row'[j].status # "none"
    BY <1>1, <2>1 DEF OnceInv, AtMostOnce, CountersCount, MarksAreCached, StatusesAreReal
  <2>6. NothingSentAhead(a)'
    BY <2>2 DEF NothingSentAhead, MayDispatch
  <2>7. QED
    BY <1>1, <2>1, <2>2, <2>3, <2>4, <2>5, <2>6, OnceStep
<1>5. CASE cacheFetched(a)
  <2> DEFINE i == target[a]
  <2>1. /\ pc[a] = "fetched" /\ Free(a) /\ i \in Ids
        /\ cacheOperationLocked(i, fetched[a].status, fetched[a].body, marked \cup {i})
    BY <1>1, <1>5 DEF cacheFetched
  <2>2. fetched[a].status # "none"
    BY <2>1 DEF OnceInv, StatusesAreReal
  <2>3. MarksAreCached' /\ marked' \subseteq marked \cup {i}
    BY <2>1, <2>2, CacheKeepsMarks, CacheShrinks DEF OnceInv, WriteAheadInv, Typed
  <2>4. \A b \in Submitters \ {a} : pc[b] \in Executing \cup {"reserved"} => target[b] # i
    BY <2>1 DEF Uncrossed
  <2>5. QED
    BY <1>2, <2>1, <2>3, <2>4 DEF Executing
<1>6. QED
  BY <1>3, <1>4, <1>5

\* A step that leaves everything of the invariant alone.
LEMMA OnceQuiet ==
    ASSUME OnceInv,
           UNCHANGED <<pc, target, progress, outcome, fetched, memory, marked, active, row,
                       dispatched, standing, pruned>>
    PROVE  OnceInv'
BY DEF OnceInv, CountersCount, MarksAreCached, StatusesAreReal, Registered, NothingSentAhead,
       MayDispatch, AtMostOnce

LEMMA OnceNext ==
    ASSUME WriteAheadInv, OnceInv, Uncrossed, [Next]_vars
    PROVE  OnceInv'
<1>1. ASSUME NEW a \in Submitters, NEW i \in Ids, NEW b \in Bodies, reserveOperation(a, i, b)
      PROVE  OnceInv'
  BY <1>1, OnceReserves
<1>2. ASSUME NEW a \in Submitters, Execute(a)  PROVE OnceInv'
  BY <1>2, OnceExecute
<1>3. ASSUME NEW r \in Readers, NEW i \in Ids, startLookup(r, i)  PROVE OnceInv'
  <2>1. r \in Actors /\ r \notin Submitters
    BY ActorsAssumption DEF Actors
  <2>2. /\ pc'[r] = "lookup"
        /\ UNCHANGED <<progress, outcome, fetched, memory, marked, active, row, dispatched, standing, pruned>>
        /\ \A c \in Actors \ {r} : pc'[c] = pc[c] /\ target'[c] = target[c]
    BY <1>3, <2>1 DEF startLookup, WriteAheadInv, Typed, engineVars, historyVars
  <2>3. Registered'
    BY <2>1, <2>2 DEF OnceInv, Registered, Actors
  <2>4. /\ AtMostOnce' /\ CountersCount' /\ MarksAreCached'
        /\ progress' \in [Actors -> Int] /\ fetched' \in [Actors -> Rows]
        /\ \A j \in Ids : row'[j] # NoRow => row'[j].status # "none"
    BY <2>2 DEF OnceInv, AtMostOnce, CountersCount, MarksAreCached, StatusesAreReal
  <2>5. QED
    BY <2>1, <2>2, <2>3, <2>4, OnceStep
<1>4. ASSUME NEW a \in Actors, lookup(a) \/ cacheFetched(a)  PROVE OnceInv'
  BY <1>4, OnceLooksUp
<1>5. CASE beginDrain \/ finishDrain \/ ResumeAdmission \/ UNCHANGED vars
  BY <1>5, OnceQuiet DEF beginDrain, finishDrain, ResumeAdmission, vars, actorVars, engineVars,
                         historyVars
<1>6. CASE CrashAndRecover
  BY <1>6, OnceRecovers
<1>7. QED
  BY <1>1, <1>2, <1>3, <1>4, <1>5, <1>6 DEF Next

\* The idempotency key works for every number of submitters, readers, ids and
\* steps and every size of the memory window: a step that was acknowledged or
\* whose outcome is unknown is not sent again before the row of its id is
\* pruned, over response retries, replans, pauses, evictions, failed saves and
\* restarts, unless two actors cross at the id (execute, reserveOperation,
\* reserveDurableOperation, Operation).
THEOREM OperationsAtMostOnce == Spec => AtMostOnceUnlessCrossed
<1>1. Init => WriteAheadInv /\ OnceInv
  BY WriteAheadInit, OnceInit
<1>2. WriteAheadInv /\ OnceInv /\ Uncrossed /\ [Next]_vars => (WriteAheadInv /\ OnceInv)'
  BY WriteAheadNext, OnceNext
<1>3. OnceInv => AtMostOnce
  BY DEF OnceInv
<1>4. QED
  BY <1>1, <1>2, <1>3, PTL DEF Spec, AtMostOnceUnlessCrossed

-----------------------------------------------------------------------------
(* A memory window that holds every id.                                    *)

\* operationMemoryLimit receipts are enough for all ids in use.
WideWindow == IsFiniteSet(Ids) /\ Cardinality(Ids) <= MemoryLimit

Busy == Executing \cup {"reserved"}

\* operationOrder lists ids, none of them twice.
Listed == /\ order \in Seq(Ids)
          /\ \A k, l \in 1..Len(order) : order[k] = order[l] => k = l

\* Nothing is evicted, so that every row and every execution has a receipt in
\* memory, no lookup has to read the store, and no id is reserved twice.
WideInv ==
    /\ Listed
    /\ \A i \in Ids : row[i] # NoRow => memory[i] # "none"
    /\ \A a \in Submitters : pc[a] \in Busy => memory[target[a]] # "none"
    /\ \A a \in Actors : pc[a] # "fetched" /\ (a \in Submitters \/ pc[a] # "reserved")
    /\ \A a, b \in Submitters :
          a # b /\ pc[a] \in Busy /\ pc[b] \in Busy => target[a] # target[b]

\* A list of ids without repetition is within the window: nothing is evicted.
LEMMA NothingEvicted ==
    ASSUME WideWindow, NEW ord \in Seq(Ids), \A k, l \in 1..Len(ord) : ord[k] = ord[l] => k = l
    PROVE  Evicted(ord) = {}
<1>1. Len(ord) \in Nat /\ ord \in [1..Len(ord) -> Ids] OBVIOUS
<1>2. ord \in Injection(1..Len(ord), Ids) BY <1>1 DEF Injection, IsInjective
<1>3. Cardinality(1..Len(ord)) = Len(ord) /\ IsFiniteSet(1..Len(ord)) BY <1>1, FS_Interval
<1>4. Cardinality(1..Len(ord)) <= Cardinality(Ids) BY <1>2, FS_Injection DEF WideWindow
<1>5. Cardinality(Ids) \in Nat /\ MemoryLimit \in Nat
  BY BoundsAssumption, FS_CardinalityType DEF WideWindow
<1>6. Len(ord) - MemoryLimit <= 0 BY <1>1, <1>3, <1>4, <1>5 DEF WideWindow
<1>7. ASSUME NEW j \in 1..Len(ord)
      PROVE  ~(Cardinality({l \in Positions(ord, Ids \ active) : l < j}) < Len(ord) - MemoryLimit)
  <2>1. {l \in Positions(ord, Ids \ active) : l < j} \in SUBSET (1..Len(ord)) BY DEF Positions
  <2>2. IsFiniteSet({l \in Positions(ord, Ids \ active) : l < j}) BY <1>3, <2>1, FS_Subset
  <2>3. Cardinality({l \in Positions(ord, Ids \ active) : l < j}) \in Nat
    BY <2>2, FS_CardinalityType
  <2>4. QED BY <1>1, <1>5, <1>6, <2>3
<1>8. Positions(ord, Ids \ active) \subseteq 1..Len(ord) BY DEF Positions
<1>9. QED BY <1>7, <1>8 DEF Evicted

\* cacheOperationLocked in a wide window stores the receipt and nothing goes.
LEMMA CacheKeepsAll ==
    ASSUME WideWindow, Listed, NEW i \in Ids, NEW status, NEW hash, NEW marks,
           cacheOperationLocked(i, status, hash, marks)
    PROVE  /\ Listed' /\ marked' = marks
           /\ memory' = [j \in Ids |-> IF j = i THEN status ELSE memory[j]]
           /\ hashes' = [j \in Ids |-> IF j = i THEN hash ELSE hashes[j]]
<1> DEFINE ord == IF \E k \in DOMAIN order : order[k] = i THEN order ELSE Append(order, i)
<1>1. /\ ord \in Seq(Ids) /\ \A k, l \in 1..Len(ord) : ord[k] = ord[l] => k = l
  <2>1. order \in Seq(Ids) /\ DOMAIN order = 1..Len(order) /\ Len(order) \in Nat BY DEF Listed
  <2>2. CASE \E k \in DOMAIN order : order[k] = i BY <2>1, <2>2 DEF Listed
  <2>3. CASE ~(\E k \in DOMAIN order : order[k] = i)
    <3>1. ord = Append(order, i) BY <2>3
    <3>2. /\ Append(order, i) \in Seq(Ids) /\ Len(Append(order, i)) = Len(order) + 1
          /\ Append(order, i)[Len(order) + 1] = i
          /\ \A k \in 1..Len(order) : Append(order, i)[k] = order[k] /\ order[k] # i
      BY <2>1, <2>3
    <3>3. \A k, l \in 1..(Len(order) + 1) : Append(order, i)[k] = Append(order, i)[l] => k = l
      BY <2>1, <3>2 DEF Listed
    <3>4. QED BY <3>1, <3>2, <3>3
  <2>4. QED BY <2>2, <2>3
<1>2. Evicted(ord) = {} BY <1>1, NothingEvicted
<1>3. Rotated(ord, {}) = ord BY DEF Rotated
<1>4. /\ order' = ord /\ marked' = marks
      /\ memory' = [j \in Ids |-> IF j = i THEN status ELSE memory[j]]
      /\ hashes' = [j \in Ids |-> IF j = i THEN hash ELSE hashes[j]]
  <2>1. /\ memory' = [j \in Ids |-> IF j \in Evicted(ord) THEN "none"
                                    ELSE IF j = i THEN status ELSE memory[j]]
        /\ hashes' = [j \in Ids |-> IF j \in Evicted(ord) THEN NoBody
                                    ELSE IF j = i THEN hash ELSE hashes[j]]
        /\ marked' = marks \ Evicted(ord)
        /\ order' = Rotated(ord, Evicted(ord))
    BY DEF cacheOperationLocked
  <2> HIDE DEF ord
  <2>2. QED BY <1>2, <1>3, <2>1
<1>5. Listed' BY <1>1, <1>4 DEF Listed
<1>6. QED BY <1>4, <1>5

\* The invariant after a step that keeps the receipts and starts no execution.
LEMMA KeepsWide ==
    ASSUME WriteAheadInv, WideInv, Listed',
           \A i \in Ids : memory[i] # "none" => memory'[i] # "none",
           \A i \in Ids : row'[i] # NoRow => row[i] # NoRow \/ memory'[i] # "none",
           \A a \in Actors : pc'[a] # "fetched" /\ (a \in Submitters \/ pc'[a] # "reserved"),
           \A a \in Submitters : pc'[a] \in Busy => pc[a] \in Busy /\ target'[a] = target[a]
    PROVE  WideInv'
<1>1. \A a \in Submitters : pc[a] \in Busy => target[a] \in Ids
  BY DEF WriteAheadInv, Targeted, Busy, Executing, Actors
<1>2. \A i \in Ids : row'[i] # NoRow => memory'[i] # "none" BY DEF WideInv
<1>3. \A a \in Submitters : pc'[a] \in Busy => memory'[target'[a]] # "none" BY <1>1 DEF WideInv
<1>4. \A a, b \in Submitters :
         a # b /\ pc'[a] \in Busy /\ pc'[b] \in Busy => target'[a] # target'[b]
  BY DEF WideInv
<1>5. QED BY <1>2, <1>3, <1>4 DEF WideInv

\* The executions of a submitter: each publication stores a real status.
LEMMA WideExecute ==
    ASSUME WideWindow, WriteAheadInv, OnceInv, WideInv, NEW a \in Submitters, Execute(a)
    PROVE  WideInv'
<1>0. /\ a \in Actors
      /\ pc \in [Actors -> {"idle", "reserved", "lookup", "fetched"} \cup Executing]
      /\ target \in [Actors -> Ids \cup {NoId}]
      /\ pc[a] # "idle" => target[a] \in Ids
  BY DEF WriteAheadInv, Typed, Targeted, Actors
<1>1. ASSUME NEW p \in Executing \cup {"lookup", "idle"}, pc' = [pc EXCEPT ![a] = p],
             p \in Executing => pc[a] \in Busy /\ target' = target
      PROVE  /\ \A b \in Actors : pc'[b] # "fetched" /\ (b \in Submitters \/ pc'[b] # "reserved")
             /\ \A b \in Submitters : pc'[b] \in Busy => pc[b] \in Busy
  <2>1. \A b \in Actors : pc'[b] = IF b = a THEN p ELSE pc[b] BY <1>0, <1>1
  <2>2. \A b \in Submitters : b \in Actors BY DEF Actors
  <2>3. p # "fetched" /\ (p \in Busy => p \in Executing) BY DEF Executing, Busy
  <2>4. QED BY <1>1, <2>1, <2>2, <2>3 DEF WideInv
<1>2. ASSUME NEW p \in Executing, pc' = [pc EXCEPT ![a] = p], pc[a] \in Busy,
             UNCHANGED <<target, memory, order>>, \A i \in Ids : row'[i] # NoRow => row[i] # NoRow
      PROVE  WideInv'
  BY <1>1, <1>2, KeepsWide DEF WideInv, Listed
<1>3. ASSUME NEW p \in Executing, pc' = [pc EXCEPT ![a] = p], pc[a] \in Busy, UNCHANGED target,
             NEW status, NEW hash, NEW marks, status # "none",
             cacheOperationLocked(target[a], status, hash, marks),
             \A i \in Ids : row'[i] # NoRow => row[i] # NoRow \/ i = target[a]
      PROVE  WideInv'
  <2>1. target[a] \in Ids BY <1>0, <1>3 DEF Busy, Executing
  <2>2. Listed' /\ memory' = [j \in Ids |-> IF j = target[a] THEN status ELSE memory[j]]
    BY <1>3, <2>1, CacheKeepsAll DEF WideInv
  <2>3. \A i \in Ids : /\ memory[i] # "none" => memory'[i] # "none"
                       /\ row'[i] # NoRow => row[i] # NoRow \/ memory'[i] # "none"
    BY <1>3, <2>2
  <2>4. QED BY <1>1, <1>3, <2>2, <2>3, KeepsWide
<1>4. CASE registerActive(a)
  <2>1. CASE pc' = [pc EXCEPT ![a] = "lookup"]
    BY <1>1, <1>4, <2>1, KeepsWide DEF registerActive, WideInv, Listed, Executing
  <2>2. CASE pc' = [pc EXCEPT ![a] = "active"]
    BY <1>2, <1>4, <2>2 DEF registerActive, Executing, Busy
  <2>3. QED BY <1>4, <2>1, <2>2 DEF registerActive
<1>5. CASE failWhilePlanning(a) \/ failBeforeDispatch(a)
  BY <1>2, <1>5 DEF failWhilePlanning, failBeforeDispatch, engineVars, Executing, Busy
<1>6. CASE dispatch(a)
  <2>1. \E p \in Executing : pc' = [pc EXCEPT ![a] = p]
    <3>1. pc[a] = "running" /\ (pc' = pc \/ pc' = [pc EXCEPT ![a] = "closing"])
      BY <1>6 DEF dispatch, acknowledged, notAcknowledged
    <3>2. pc = [pc EXCEPT ![a] = "running"] BY <1>0, <3>1
    <3>3. QED BY <3>1, <3>2 DEF Executing
  <2>2. pc[a] \in Busy /\ UNCHANGED <<target, memory, order, row>>
    BY <1>6 DEF dispatch, acknowledged, notAcknowledged, engineVars, Busy, Executing
  <2>3. QED BY <1>2, <2>1, <2>2
<1>7. CASE saveFinal(a)
  <2>1. \E p \in Executing : pc' = [pc EXCEPT ![a] = p] BY <1>7 DEF saveFinal, Executing
  <2>2. pc[a] \in Busy /\ UNCHANGED <<target, memory, order>>
    BY <1>7 DEF saveFinal, engineVars, Busy, Executing
  <2>3. \A i \in Ids : row'[i] # NoRow => row[i] # NoRow
    <3>1. target[a] \in Ids /\ (target[a] \in marked => row[target[a]] # NoRow)
      BY <1>0, <1>7 DEF saveFinal, WriteAheadInv, RowsBehindMarks
    <3>2. row \in [Ids -> Rows] BY DEF WriteAheadInv, Typed
    <3>3. QED BY <1>7, <3>1, <3>2 DEF saveFinal
  <2>4. QED BY <1>2, <2>1, <2>2, <2>3
<1>8. CASE skipReserve(a) \/ persistenceFailure(a) \/ replan(a)
  BY <1>3, <1>8 DEF skipReserve, persistenceFailure, replan, planAgain, publishLocked, Executing, Busy
<1>9. CASE pause(a)
  <2>1. \A i \in Ids : row'[i] # NoRow => row[i] # NoRow \/ i = target[a]
    <3>1. row \in [Ids -> Rows] BY DEF WriteAheadInv, Typed
    <3>2. QED BY <1>9, <3>1 DEF pause
  <2>2. QED BY <1>3, <1>9, <2>1 DEF pause, publishLocked, Executing, Busy
<1>10. CASE reserveDurableOperation(a)
  <2>1. \A i \in Ids : row'[i] # NoRow => row[i] # NoRow \/ i = target[a]
    <3>1. row \in [Ids -> Rows] BY DEF WriteAheadInv, Typed
    <3>2. QED BY <1>10, <3>1 DEF reserveDurableOperation
  <2>2. QED BY <1>3, <1>10, <2>1 DEF reserveDurableOperation, Executing, Busy
<1>11. CASE adoptExisting(a)
  <2>1. row[target[a]].status # "none"
    BY <1>0, <1>11 DEF adoptExisting, OnceInv, StatusesAreReal
  <2>2. QED BY <1>3, <1>11, <2>1 DEF adoptExisting, Executing, Busy
<1>12. CASE publishFinal(a)
  <2>1. outcome[a] # "none" BY <1>0, <1>12 DEF publishFinal, OnceInv, StatusesAreReal
  <2>2. \E p \in Executing : pc' = [pc EXCEPT ![a] = p]
    <3>1. pc' = [pc EXCEPT ![a] = IF pc[a] = "unsaved" THEN "retracting" ELSE "leaving"]
      BY <1>0, <1>12 DEF publishFinal
    <3>2. QED BY <3>1 DEF Executing
  <2>3. QED BY <1>3, <1>12, <2>1, <2>2 DEF publishFinal, publishLocked, Executing, Busy
<1>13. CASE retract(a)
  BY <1>3, <1>13 DEF retract, publishLocked, Executing, Busy
<1>14. CASE unregisterActive(a)
  <2>1. pc' = [pc EXCEPT ![a] = "idle"] /\ UNCHANGED <<memory, order, row>>
    BY <1>14 DEF unregisterActive, Free
  <2>2. \A b \in Submitters : pc'[b] \in Busy => target'[b] = target[b]
    BY <1>0, <1>14, <2>1 DEF unregisterActive, Free, Busy, Executing, Actors
  <2>3. "idle" \notin Executing BY DEF Executing
  <2>4. QED BY <1>1, <2>1, <2>2, <2>3, KeepsWide DEF WideInv, Listed
<1>15. CASE dispatchRefused(a)
  <2>1. pc[a] = "running" /\ UNCHANGED <<target, row>>
    BY <1>15 DEF dispatchRefused
  <2>2. CASE UNCHANGED pc /\ UNCHANGED engineVars
    <3>1. pc' = [pc EXCEPT ![a] = "running"] BY <1>0, <2>1, <2>2
    <3>2. QED BY <1>2, <2>1, <2>2, <3>1 DEF engineVars, Executing, Busy
  <2>3. CASE planAgain(a)
    BY <1>3, <2>1, <2>3 DEF planAgain, publishLocked, Executing, Busy
  <2>4. QED BY <1>15, <2>2, <2>3 DEF dispatchRefused, refusedForNow
<1>16. CASE dispatchRebuild(a)
  <2>1. pc[a] = "running" /\ UNCHANGED <<target, memory, order, row>>
    BY <1>16 DEF dispatchRebuild, notAcknowledged, engineVars
  <2>2. pc' = pc \/ pc' = [pc EXCEPT ![a] = "closing"]
    BY <1>16 DEF dispatchRebuild, notAcknowledged
  <2>3. \E p \in Executing : pc' = [pc EXCEPT ![a] = p]
    <3>1. pc = [pc EXCEPT ![a] = "running"] BY <1>0, <2>1
    <3>2. QED BY <2>2, <3>1 DEF Executing
  <2>4. QED BY <1>2, <2>1, <2>3 DEF Executing, Busy
<1>17. QED BY <1>4, <1>5, <1>6, <1>7, <1>8, <1>9, <1>10, <1>11, <1>12, <1>13, <1>14, <1>15, <1>16
       DEF Execute

\* A new reservation is of an id without a receipt, which nobody works on.
LEMMA WideReserves ==
    ASSUME WideWindow, WriteAheadInv, WideInv, NEW a \in Submitters, NEW i \in Ids, NEW b \in Bodies,
           reserveOperation(a, i, b)
    PROVE  WideInv'
<1>1. /\ a \in Actors
      /\ pc \in [Actors -> {"idle", "reserved", "lookup", "fetched"} \cup Executing]
      /\ target \in [Actors -> Ids \cup {NoId}]
  BY DEF WriteAheadInv, Typed, Actors
<1>2. /\ memory[i] = "none" /\ pc' = [pc EXCEPT ![a] = "reserved"]
      /\ target' = [target EXCEPT ![a] = i] /\ row' = row
  BY DEF reserveOperation
<1>3. Listed' /\ memory' = [j \in Ids |-> IF j = i THEN "planning" ELSE memory[j]]
  BY CacheKeepsAll DEF reserveOperation, WideInv
<1>4. \A c \in Submitters : /\ c \in Actors /\ (pc[c] \in Busy => target[c] \in Ids)
                            /\ pc'[c] = IF c = a THEN "reserved" ELSE pc[c]
                            /\ target'[c] = IF c = a THEN i ELSE target[c]
  BY <1>1, <1>2 DEF WriteAheadInv, Targeted, Busy, Executing, Actors
<1>5. \A j \in Ids : row'[j] # NoRow => memory'[j] # "none" BY <1>2, <1>3 DEF WideInv
<1>6. \A c \in Submitters : pc'[c] \in Busy => memory'[target'[c]] # "none" BY <1>3, <1>4 DEF WideInv
<1>7. \A c \in Actors : pc'[c] # "fetched" /\ (c \in Submitters \/ pc'[c] # "reserved") BY <1>1, <1>2 DEF WideInv
<1>8. \A c \in Submitters : pc[c] \in Busy => target[c] # i BY <1>2 DEF WideInv
<1>9. \A c, d \in Submitters :
         c # d /\ pc'[c] \in Busy /\ pc'[d] \in Busy => target'[c] # target'[d]
  BY <1>4, <1>8 DEF WideInv
<1>10. QED BY <1>3, <1>5, <1>6, <1>7, <1>9 DEF WideInv

\* The restart loads every row into a wide window.
LEMMA WideRecovers ==
    ASSUME WideWindow, WriteAheadInv, OnceInv, CrashAndRecover
    PROVE  WideInv'
<1> DEFINE stored == {i \in Ids : row'[i] # NoRow}
<1>1. \A a \in Actors : pc'[a] = "idle" BY DEF CrashAndRecover
<1>2. PICK ord \in [1..AtMost(stored, MemoryLimit) -> stored] :
         /\ \A k, l \in DOMAIN ord : k # l => ord[k] # ord[l]
         /\ order' = ord
         /\ memory' = [i \in Ids |-> IF i \in {ord[k] : k \in DOMAIN ord} THEN row'[i].status ELSE "none"]
  BY DEF CrashAndRecover, loadRecent
<1>3. IsFiniteSet(stored) /\ Cardinality(stored) <= Cardinality(Ids) BY FS_Subset DEF WideWindow
<1>4. Cardinality(stored) \in Nat /\ Cardinality(Ids) \in Nat /\ MemoryLimit \in Nat
  BY <1>3, FS_CardinalityType, BoundsAssumption DEF WideWindow
<1>5. AtMost(stored, MemoryLimit) = Cardinality(stored) BY <1>3, <1>4 DEF AtMost, WideWindow
<1> DEFINE n == Cardinality(stored)
<1> HIDE DEF stored
<1>6. ord \in Injection(1..n, stored) BY <1>2, <1>5 DEF Injection, IsInjective
<1>7. Cardinality(1..n) = n /\ IsFiniteSet(1..n) BY <1>4, FS_Interval
<1>8. ord \in Surjection(1..n, stored) BY <1>3, <1>6, <1>7, FS_Injection
<1>9. {ord[k] : k \in DOMAIN ord} = stored BY <1>2, <1>5, <1>8 DEF Surjection
<1>10. Listed'
  <2>1. stored \subseteq Ids BY DEF stored
  <2>2. ord \in [1..n -> Ids] BY <1>2, <1>5, <2>1
  <2>3. ord \in Seq(Ids) /\ Len(ord) = n BY <1>4, <2>2
  <2>4. QED BY <1>2, <1>5, <2>2, <2>3 DEF Listed
<1>11. \A i \in Ids : row'[i] # NoRow => memory'[i] # "none"
  <2>1. \A i \in Ids : row'[i] # NoRow => row'[i].status # "none"
    BY OnceRecovers DEF OnceInv, StatusesAreReal
  <2>2. \A i \in Ids : row'[i] # NoRow => i \in stored BY DEF stored
  <2>3. QED BY <1>2, <1>9, <2>1, <2>2
<1>12. \A a \in Submitters : pc'[a] \notin Busy BY <1>1 DEF Busy, Executing, Actors
<1>13. QED BY <1>1, <1>10, <1>11, <1>12 DEF WideInv

\* Every action keeps the invariant of the wide window.
LEMMA WideNext ==
    ASSUME WideWindow, WriteAheadInv, OnceInv, WideInv, [Next]_vars
    PROVE  WideInv'
<1>0. /\ pc \in [Actors -> {"idle", "reserved", "lookup", "fetched"} \cup Executing]
      /\ target \in [Actors -> Ids \cup {NoId}]
  BY DEF WriteAheadInv, Typed
<1>1. ASSUME UNCHANGED <<pc, target, memory, order, row>> PROVE WideInv'
  BY <1>1 DEF WideInv, Listed
<1>2. ASSUME NEW r \in Readers, NEW i \in Ids, startLookup(r, i) PROVE WideInv'
  <2>1. r \in Actors /\ r \notin Submitters BY ActorsAssumption DEF Actors
  <2>2. /\ pc' = [pc EXCEPT ![r] = "lookup"] /\ target' = [target EXCEPT ![r] = i]
        /\ UNCHANGED <<memory, order, row>>
    BY <1>2 DEF startLookup, engineVars
  <2>3. QED BY <1>0, <2>1, <2>2, KeepsWide DEF WideInv, Listed, Actors
<1>3. ASSUME NEW a \in Actors, lookup(a) PROVE WideInv'
  <2>1. target[a] \in Ids BY <1>3 DEF lookup, WriteAheadInv, Targeted
  <2>2. memory[target[a]] # "none" \/ row[target[a]] = NoRow BY <2>1 DEF WideInv
  <2>3. Free(a) /\ UNCHANGED <<memory, order, row>> BY <1>3, <2>2 DEF lookup, engineVars
  <2>4. \A b \in Actors : /\ pc'[b] = IF b = a THEN "idle" ELSE pc[b]
                          /\ b # a => target'[b] = target[b]
    BY <1>0, <2>3 DEF Free
  <2>5. "idle" \notin Busy /\ Submitters \subseteq Actors BY DEF Busy, Executing, Actors
  <2>6. \A b \in Submitters : pc'[b] \in Busy => pc[b] \in Busy /\ target'[b] = target[b]
    BY <2>4, <2>5
  <2>7. \A b \in Actors : pc'[b] # "fetched" /\ (b \in Submitters \/ pc'[b] # "reserved") BY <2>4 DEF WideInv
  <2>8. QED BY <2>3, <2>6, <2>7, KeepsWide DEF WideInv, Listed
<1>4. ASSUME NEW a \in Actors, cacheFetched(a) PROVE WideInv'
  BY <1>4 DEF cacheFetched, WideInv
<1>5. CASE beginDrain \/ finishDrain \/ ResumeAdmission \/ UNCHANGED vars
  BY <1>1, <1>5 DEF beginDrain, finishDrain, ResumeAdmission, vars, actorVars, engineVars
<1>6. QED
  BY <1>2, <1>3, <1>4, <1>5, WideReserves, WideExecute, WideRecovers DEF Next

\* The type invariant with what keeps the steps of a plan in range: an execution
\* that may still dispatch has a step left.
StepsLeft == \A a \in Actors :
    pc[a] \notin {"closing", "publishing", "unsaved", "retracting", "leaving"} => progress[a] < Steps

\* What cacheOperationLocked stores has its type.
LEMMA CacheTyped ==
    ASSUME WideWindow, WideInv, TypeOK, NEW i \in Ids, NEW status \in Statuses,
           NEW hash \in Bodies \cup {NoBody}, NEW marks \in SUBSET Ids,
           cacheOperationLocked(i, status, hash, marks)
    PROVE  /\ memory' \in [Ids -> Statuses] /\ hashes' \in [Ids -> Bodies \cup {NoBody}]
           /\ order' \in Seq(Ids) /\ marked' \subseteq Ids
<1>1. /\ Listed' /\ marked' = marks
      /\ memory' = [j \in Ids |-> IF j = i THEN status ELSE memory[j]]
      /\ hashes' = [j \in Ids |-> IF j = i THEN hash ELSE hashes[j]]
  BY CacheKeepsAll DEF WideInv
<1>2. QED BY <1>1 DEF TypeOK, Listed

\* The types of an execution.
LEMMA TypedExecute ==
    ASSUME WideWindow, WriteAheadInv, WideInv, TypeOK, StepsLeft, NEW a \in Submitters, Execute(a)
    PROVE  TypeOK' /\ StepsLeft'
<1>0. /\ a \in Actors /\ (pc[a] # "idle" => target[a] \in Ids)
      /\ Steps \in Nat /\ 0 < Steps /\ MaxDispatches \in Nat
  BY BoundsAssumption DEF WriteAheadInv, Targeted, Actors
<1>1. ASSUME pc[a] # "idle", NEW status \in Statuses, NEW marks \in SUBSET Ids,
             cacheOperationLocked(target[a], status, hashes[target[a]], marks)
      PROVE  /\ memory' \in [Ids -> Statuses] /\ hashes' \in [Ids -> Bodies \cup {NoBody}]
             /\ order' \in Seq(Ids) /\ marked' \subseteq Ids
  <2>1. target[a] \in Ids /\ hashes[target[a]] \in Bodies \cup {NoBody} BY <1>0, <1>1 DEF TypeOK
  <2>2. QED BY <1>1, <2>1, CacheTyped
<1>2. ASSUME NEW p \in Executing \cup {"lookup"}, pc' = [pc EXCEPT ![a] = p],
             p \in {"active", "running", "lookup"} => progress[a] < Steps, progress' = progress
      PROVE  StepsLeft'
  <2>1. \A b \in Actors : pc'[b] = IF b = a THEN p ELSE pc[b] BY <1>0, <1>2 DEF TypeOK
  <2>2. p \notin {"closing", "publishing", "unsaved", "retracting", "leaving"} =>
           p \in {"active", "running", "lookup"}
    BY DEF Executing
  <2>3. QED BY <1>2, <2>1, <2>2 DEF StepsLeft
<1>3. marked \in SUBSET Ids /\ {"planning", "running", "paused", "failed", "indeterminate"} \subseteq Statuses
  BY DEF TypeOK, Statuses, Open, Terminal
<1>3a. ASSUME NEW s \in Statuses, pc[a] # "idle",
             row' = row \/ row' = [row EXCEPT ![target[a]].status = s]
      PROVE  row' \in [Ids -> Rows]
  <2>1. row \in [Ids -> Rows] BY DEF TypeOK
  <2>2. \A r \in Rows : [r EXCEPT !.status = s] \in Rows BY DEF Rows
  <2>3. QED BY <1>0, <1>3a, <2>1, <2>2
<1>4. CASE registerActive(a)
  <2>1. progress[a] < Steps BY <1>0, <1>4 DEF registerActive, StepsLeft
  <2>2. StepsLeft' BY <1>2, <1>4, <2>1 DEF registerActive, Executing
  <2>3. TypeOK' BY <1>0, <1>4 DEF registerActive, TypeOK, historyVars, Executing
  <2>4. QED BY <2>2, <2>3
<1>5. CASE failWhilePlanning(a) \/ failBeforeDispatch(a)
  <2>1. StepsLeft' BY <1>2, <1>5 DEF failWhilePlanning, failBeforeDispatch, Executing
  <2>2. \E status \in Terminal : Decide(a, status) /\ pc[a] # "idle"
    BY <1>5 DEF failWhilePlanning, failBeforeDispatch, FailureAfter, Terminal
  <2>3. outcome' \in [Actors -> Terminal \cup {"none"}] /\ decided' \in [Ids -> SUBSET Terminal]
    BY <1>0, <2>2 DEF Decide, TypeOK
  <2>4. pc' = [pc EXCEPT ![a] = "closing"]
    BY <1>5 DEF failWhilePlanning, failBeforeDispatch
  <2>5. UNCHANGED <<target, body, progress, fetched, engineVars, row, drain, dispatched, standing, applied, pruned, crashes>>
    BY <1>5 DEF failWhilePlanning, failBeforeDispatch
  <2>6. TypeOK' BY <1>0, <2>3, <2>4, <2>5 DEF TypeOK, engineVars, Executing
  <2>7. QED BY <2>1, <2>6
<1>6. CASE skipReserve(a) \/ persistenceFailure(a) \/ replan(a) \/ retract(a)
  <2>1. \E p \in {"running", "leaving", "active"} : pc' = [pc EXCEPT ![a] = p]
          /\ (p # "leaving" => pc[a] \in {"active", "running"})
    BY <1>6 DEF skipReserve, persistenceFailure, replan, planAgain, retract
  <2>2. \E status \in {"planning", "running", "failed", "indeterminate"} :
           pc[a] # "idle" /\ publishLocked(target[a], status)
    BY <1>6 DEF skipReserve, persistenceFailure, replan, planAgain, retract
  <2>3. UNCHANGED <<target, body, progress, outcome, fetched, active, row, drain, historyVars>>
    BY <1>6 DEF skipReserve, persistenceFailure, replan, planAgain, retract
  <2>4. StepsLeft' BY <1>0, <1>2, <2>1, <2>3 DEF StepsLeft, Executing
  <2>5. /\ memory' \in [Ids -> Statuses] /\ hashes' \in [Ids -> Bodies \cup {NoBody}]
        /\ order' \in Seq(Ids) /\ marked' \subseteq Ids
    BY <1>1, <1>3, <2>2 DEF publishLocked
  <2>6. TypeOK' BY <1>0, <2>1, <2>3, <2>5 DEF TypeOK, historyVars, Executing
  <2>7. QED BY <2>4, <2>6
<1>7. CASE reserveDurableOperation(a)
  <2>1. /\ memory' \in [Ids -> Statuses] /\ hashes' \in [Ids -> Bodies \cup {NoBody}]
        /\ order' \in Seq(Ids) /\ marked' \subseteq Ids
    <3>1. marked \cup {target[a]} \in SUBSET Ids BY <1>0, <1>3, <1>7 DEF reserveDurableOperation
    <3>2. QED BY <1>1, <1>3, <1>7, <3>1 DEF reserveDurableOperation
  <2>2. row' \in [Ids -> Rows]
    BY <1>0, <1>3, <1>7 DEF reserveDurableOperation, TypeOK, Rows
  <2>3. /\ pc' = [pc EXCEPT ![a] = "running"] /\ pc[a] = "active"
        /\ UNCHANGED <<target, body, progress, outcome, fetched, active, drain, historyVars>>
    BY <1>7 DEF reserveDurableOperation
  <2>4. StepsLeft' BY <1>0, <1>2, <2>3 DEF StepsLeft, Executing
  <2>5. TypeOK' BY <1>0, <2>1, <2>2, <2>3 DEF TypeOK, historyVars, Executing
  <2>6. QED BY <2>4, <2>5
<1>8. CASE adoptExisting(a)
  <2>1. /\ memory' \in [Ids -> Statuses] /\ hashes' \in [Ids -> Bodies \cup {NoBody}]
        /\ order' \in Seq(Ids) /\ marked' \subseteq Ids
    <3>1. /\ target[a] \in Ids /\ marked \cup {target[a]} \in SUBSET Ids
          /\ row[target[a]].status \in Statuses /\ body[a] \in Bodies \cup {NoBody}
      BY <1>0, <1>3, <1>8 DEF adoptExisting, TypeOK, Rows
    <3>2. QED BY <1>8, <3>1, CacheTyped DEF adoptExisting
  <2>2. /\ pc' = [pc EXCEPT ![a] = "leaving"]
        /\ UNCHANGED <<target, body, progress, outcome, fetched, active, row, drain, historyVars>>
    BY <1>8 DEF adoptExisting
  <2>3. StepsLeft' BY <1>2, <2>2 DEF Executing
  <2>4. TypeOK' BY <1>0, <2>1, <2>2 DEF TypeOK, historyVars, Executing
  <2>5. QED BY <2>3, <2>4
<1>9. CASE pause(a)
  <2>1. /\ memory' \in [Ids -> Statuses] /\ hashes' \in [Ids -> Bodies \cup {NoBody}]
        /\ order' \in Seq(Ids) /\ marked' \subseteq Ids
    BY <1>1, <1>3, <1>9 DEF pause, publishLocked
  <2>2. row' \in [Ids -> Rows]
    <3>1. pc[a] # "idle" /\ (row' = row \/ row' = [row EXCEPT ![target[a]].status = "paused"])
      BY <1>9 DEF pause
    <3>2. QED BY <1>3, <1>3a, <3>1
  <2>3. /\ pc' = [pc EXCEPT ![a] = "active"] /\ pc[a] \in {"active", "running"}
        /\ UNCHANGED <<target, body, progress, outcome, fetched, active, drain, historyVars>>
    BY <1>9 DEF pause
  <2>4. StepsLeft' BY <1>0, <1>2, <2>3 DEF StepsLeft, Executing
  <2>5. TypeOK' BY <1>0, <2>1, <2>2, <2>3 DEF TypeOK, historyVars, Executing
  <2>6. QED BY <2>4, <2>5
<1>10. CASE saveFinal(a)
  <2>1. \E p \in {"publishing", "unsaved"} : pc' = [pc EXCEPT ![a] = p] BY <1>10 DEF saveFinal
  <2>2. UNCHANGED <<target, body, progress, outcome, fetched, engineVars, drain, historyVars>>
    BY <1>10 DEF saveFinal
  <2>3. row' \in [Ids -> Rows]
    <3>1. outcome[a] \in Statuses BY <1>0 DEF TypeOK, Statuses
    <3>2. pc[a] # "idle" /\ (row' = row \/ row' = [row EXCEPT ![target[a]].status = outcome[a]])
      BY <1>10 DEF saveFinal
    <3>3. QED BY <1>3a, <3>1, <3>2
  <2>4. StepsLeft' BY <1>2, <2>1, <2>2 DEF Executing
  <2>5. TypeOK' BY <1>0, <2>1, <2>2, <2>3 DEF TypeOK, engineVars, historyVars, Executing
  <2>6. QED BY <2>4, <2>5
<1>11. CASE publishFinal(a)
  <2>1. \E p \in {"retracting", "leaving"} : pc' = [pc EXCEPT ![a] = p]
    <3>1. pc' = [pc EXCEPT ![a] = IF pc[a] = "unsaved" THEN "retracting" ELSE "leaving"]
      BY <1>0, <1>11 DEF publishFinal, TypeOK
    <3>2. QED BY <3>1
  <2>2. UNCHANGED <<target, body, progress, outcome, fetched, active, row, drain, historyVars>>
    BY <1>11 DEF publishFinal
  <2>3. /\ memory' \in [Ids -> Statuses] /\ hashes' \in [Ids -> Bodies \cup {NoBody}]
        /\ order' \in Seq(Ids) /\ marked' \subseteq Ids
    <3>1. outcome[a] \in Statuses BY <1>0 DEF TypeOK, Statuses
    <3>2. QED BY <1>1, <1>3, <1>11, <3>1 DEF publishFinal, publishLocked
  <2>4. StepsLeft' BY <1>2, <2>1, <2>2 DEF Executing
  <2>5. TypeOK' BY <1>0, <2>1, <2>2, <2>3 DEF TypeOK, historyVars, Executing
  <2>6. QED BY <2>4, <2>5
<1>12. CASE dispatch(a)
  <2> DEFINE k == progress[a] + 1
  <2>1. /\ pc[a] = "running" /\ progress[a] < Steps /\ target[a] \in Ids /\ k \in 1..Steps
        /\ progress[a] \in 0..Steps
    <3>1. pc[a] = "running" BY <1>12 DEF dispatch
    <3>2. progress[a] < Steps /\ target[a] \in Ids BY <1>0, <3>1 DEF StepsLeft
    <3>3. progress[a] \in 0..Steps BY <1>0 DEF TypeOK
    <3>4. QED BY <1>0, <3>1, <3>2, <3>3
  <2>2. standing' \in [Ids -> [1..Steps -> 0..MaxDispatches]]
    <3>1. /\ standing[target[a]][k] < MaxDispatches
          /\ standing' = [standing EXCEPT ![target[a]][k] = @ + 1]
      BY <1>12 DEF dispatch
    <3>2. standing[target[a]][k] + 1 \in 0..MaxDispatches BY <1>0, <2>1, <3>1 DEF TypeOK
    <3>3. QED BY <2>1, <3>1, <3>2 DEF TypeOK
  <2>3. /\ UNCHANGED <<target, body, fetched, engineVars, row, drain, pruned, crashes>>
        /\ dispatched' \subseteq Ids
    BY <1>12, <2>1 DEF dispatch, acknowledged, notAcknowledged, TypeOK
  <2>4. ASSUME NEW status \in Terminal, Decide(a, status)
        PROVE  outcome' \in [Actors -> Terminal \cup {"none"}] /\ decided' \in [Ids -> SUBSET Terminal]
    BY <1>0, <2>1, <2>4 DEF Decide, TypeOK
  <2>5. CASE /\ pc' = [pc EXCEPT ![a] = "closing"] /\ UNCHANGED <<progress, applied>>
             /\ \E status \in {FailureAfter(progress[a]), "indeterminate"} : Decide(a, status)
    <3>1. outcome' \in [Actors -> Terminal \cup {"none"}] /\ decided' \in [Ids -> SUBSET Terminal]
      BY <2>4, <2>5 DEF FailureAfter, Terminal
    <3>2. StepsLeft' BY <1>2, <2>5 DEF Executing
    <3>3. TypeOK' BY <1>0, <2>2, <2>3, <2>5, <3>1 DEF TypeOK, engineVars, Executing
    <3>4. QED BY <3>2, <3>3
  <2>6. CASE /\ progress' = [progress EXCEPT ![a] = k]
             /\ applied' = [applied EXCEPT ![target[a]] = IF k > @ THEN k ELSE @]
             /\ IF k = Steps
                THEN pc' = [pc EXCEPT ![a] = "closing"] /\ Decide(a, "succeeded")
                ELSE UNCHANGED <<pc, outcome, decided>>
    <3>1. progress' \in [Actors -> 0..Steps] /\ applied' \in [Ids -> 0..Steps]
      <4>1. progress \in [Actors -> 0..Steps] /\ applied \in [Ids -> 0..Steps] BY DEF TypeOK
      <4>2. k \in 0..Steps BY <1>0, <2>1
      <4> HIDE DEF k
      <4>3. QED BY <2>1, <2>6, <4>1, <4>2
    <3>2. outcome' \in [Actors -> Terminal \cup {"none"}] /\ decided' \in [Ids -> SUBSET Terminal]
      BY <2>4, <2>6 DEF Terminal, TypeOK
    <3>3. pc' = pc \/ pc' = [pc EXCEPT ![a] = "closing"] BY <2>6
    <3>4. TypeOK' BY <1>0, <2>2, <2>3, <3>1, <3>2, <3>3 DEF TypeOK, engineVars, Executing
    <3>5. \A b \in Actors : progress'[b] = IF b = a THEN k ELSE progress[b] BY <1>0, <2>6 DEF TypeOK
    <3>6. CASE k = Steps
      <4>1. \A b \in Actors : pc'[b] = IF b = a THEN "closing" ELSE pc[b] BY <1>0, <2>6, <3>6 DEF TypeOK
      <4>2. QED BY <3>4, <3>5, <4>1 DEF StepsLeft
    <3>7. CASE k # Steps
      <4>1. k < Steps /\ pc' = pc BY <1>0, <2>1, <2>6, <3>7
      <4>2. QED BY <3>4, <3>5, <4>1 DEF StepsLeft
    <3>8. QED BY <3>6, <3>7
  <2>7. QED BY <1>12, <2>5, <2>6 DEF dispatch, acknowledged, notAcknowledged
<1>13. CASE unregisterActive(a)
  <2>1. Free(a) /\ active' = active \ {target[a]}
        /\ UNCHANGED <<memory, hashes, order, marked, row, drain, historyVars>>
    BY <1>13 DEF unregisterActive
  <2>2. TypeOK' BY <1>0, <2>1 DEF Free, TypeOK, historyVars, NoRow, Rows, Statuses
  <2>3. StepsLeft' BY <1>0, <2>1 DEF Free, TypeOK, StepsLeft
  <2>4. QED BY <2>2, <2>3
<1>14. CASE dispatchRefused(a)
  <2>1. /\ pc[a] = "running" /\ dispatched' = dispatched \cup {target[a]} /\ target[a] \in Ids
        /\ UNCHANGED <<target, body, progress, outcome, fetched, active, row, drain, standing>>
        /\ UNCHANGED <<applied, decided, pruned, crashes>>
    BY <1>0, <1>14 DEF dispatchRefused, refusedForNow, engineVars
  <2>2. CASE UNCHANGED pc /\ UNCHANGED engineVars
    <3>1. StepsLeft' BY <1>0, <2>1, <2>2 DEF StepsLeft
    <3>2. TypeOK' BY <1>0, <2>1, <2>2 DEF TypeOK, engineVars
    <3>3. QED BY <3>1, <3>2
  <2>3. CASE planAgain(a)
    <3>1. pc' = [pc EXCEPT ![a] = "active"] BY <2>3 DEF planAgain
    <3>2. /\ memory' \in [Ids -> Statuses] /\ hashes' \in [Ids -> Bodies \cup {NoBody}]
          /\ order' \in Seq(Ids) /\ marked' \subseteq Ids
      BY <1>1, <1>3, <2>1, <2>3 DEF planAgain, publishLocked
    <3>3. StepsLeft' BY <1>0, <1>2, <2>1, <3>1 DEF StepsLeft, Executing
    <3>4. TypeOK' BY <1>0, <2>1, <3>1, <3>2 DEF TypeOK, Executing
    <3>5. QED BY <3>3, <3>4
  <2>4. QED BY <1>14, <2>2, <2>3 DEF dispatchRefused, refusedForNow
<1>15. CASE dispatchRebuild(a)
  <2>1. /\ pc[a] = "running" /\ dispatched' = dispatched \cup {target[a]} /\ target[a] \in Ids
        /\ UNCHANGED <<target, body, progress, fetched, row, drain, standing, applied>>
        /\ UNCHANGED <<engineVars, pruned, crashes>>
    BY <1>0, <1>15 DEF dispatchRebuild, notAcknowledged, engineVars
  <2>2. CASE UNCHANGED <<pc, outcome, decided>>
    <3>1. StepsLeft' BY <1>0, <2>1, <2>2 DEF StepsLeft
    <3>2. TypeOK' BY <1>0, <2>1, <2>2 DEF TypeOK, engineVars
    <3>3. QED BY <3>1, <3>2
  <2>3. CASE notAcknowledged(a)
    <3>1. pc' = [pc EXCEPT ![a] = "closing"] BY <2>3 DEF notAcknowledged
    <3>2. \E status \in Terminal : Decide(a, status)
      BY <2>3 DEF notAcknowledged, FailureAfter, Terminal
    <3>3. outcome' \in [Actors -> Terminal \cup {"none"}] /\ decided' \in [Ids -> SUBSET Terminal]
      BY <1>0, <2>1, <3>2 DEF Decide, TypeOK
    <3>4. StepsLeft' BY <1>2, <2>1, <3>1 DEF Executing
    <3>5. TypeOK' BY <1>0, <2>1, <3>1, <3>3 DEF TypeOK, engineVars, Executing
    <3>6. QED BY <3>4, <3>5
  <2>4. QED BY <1>15, <2>2, <2>3 DEF dispatchRebuild
<1>16. QED BY <1>4, <1>5, <1>6, <1>7, <1>8, <1>9, <1>10, <1>11, <1>12, <1>13, <1>14, <1>15 DEF Execute

\* The types of every action.
LEMMA TypedNext ==
    ASSUME WideWindow, WriteAheadInv, WideInv, TypeOK, StepsLeft, [Next]_vars
    PROVE  TypeOK' /\ StepsLeft'
<1>0. Steps \in Nat /\ 0 < Steps /\ MaxCrashes \in Nat BY BoundsAssumption
<1>1. ASSUME NEW a \in Submitters, NEW i \in Ids, NEW b \in Bodies, reserveOperation(a, i, b)
      PROVE  TypeOK' /\ StepsLeft'
  <2>1. /\ memory' \in [Ids -> Statuses] /\ hashes' \in [Ids -> Bodies \cup {NoBody}]
        /\ order' \in Seq(Ids) /\ marked' \subseteq Ids
    <3>1. "planning" \in Statuses /\ marked \in SUBSET Ids BY DEF Statuses, Open, TypeOK
    <3>2. QED BY <1>1, <3>1, CacheTyped DEF reserveOperation
  <2>2. /\ a \in Actors /\ pc[a] = "idle" /\ pc' = [pc EXCEPT ![a] = "reserved"]
        /\ target' = [target EXCEPT ![a] = i] /\ body' = [body EXCEPT ![a] = b]
        /\ UNCHANGED <<progress, outcome, fetched, active, row, drain, historyVars>>
    BY <1>1 DEF reserveOperation, Actors
  <2>3. TypeOK' BY <2>1, <2>2 DEF TypeOK, historyVars
  <2>4. StepsLeft' BY <2>2 DEF StepsLeft, TypeOK
  <2>5. QED BY <2>3, <2>4
<1>2. ASSUME NEW r \in Readers, NEW i \in Ids, startLookup(r, i) PROVE TypeOK' /\ StepsLeft'
  <2>1. r \in Actors BY DEF Actors
  <2>2. TypeOK' BY <1>2, <2>1 DEF startLookup, TypeOK, engineVars, historyVars
  <2>3. StepsLeft' BY <1>2, <2>1 DEF startLookup, StepsLeft, TypeOK
  <2>4. QED BY <2>2, <2>3
<1>3. ASSUME NEW a \in Actors, lookup(a) PROVE TypeOK' /\ StepsLeft'
  <2>1. target[a] \in Ids BY <1>3 DEF lookup, WriteAheadInv, Targeted
  <2>2. memory[target[a]] # "none" \/ row[target[a]] = NoRow BY <2>1 DEF WideInv
  <2>3. Free(a) /\ UNCHANGED <<engineVars, row, drain, historyVars>> BY <1>3, <2>2 DEF lookup
  <2>4. TypeOK' BY <1>0, <2>3 DEF Free, TypeOK, engineVars, historyVars, NoRow, Rows, Statuses
  <2>5. StepsLeft' BY <1>0, <2>3 DEF Free, TypeOK, StepsLeft
  <2>6. QED BY <2>4, <2>5
<1>4. ASSUME NEW a \in Actors, cacheFetched(a) PROVE TypeOK' /\ StepsLeft'
  BY <1>4 DEF cacheFetched, WideInv
<1>5. CASE beginDrain \/ finishDrain \/ ResumeAdmission \/ UNCHANGED vars
  <2>1. UNCHANGED <<actorVars, engineVars, row, historyVars>> /\ drain' \in {"open", "draining", "drained"}
    BY <1>5 DEF beginDrain, finishDrain, ResumeAdmission, vars, TypeOK
  <2>2. QED BY <2>1 DEF TypeOK, StepsLeft, actorVars, engineVars, historyVars
<1>6. CASE CrashAndRecover
  <2>1. /\ pc' = [a \in Actors |-> "idle"] /\ target' = [a \in Actors |-> NoId]
        /\ body' = [a \in Actors |-> NoBody] /\ progress' = [a \in Actors |-> 0]
        /\ outcome' = [a \in Actors |-> "none"] /\ fetched' = [a \in Actors |-> NoRow]
        /\ UNCHANGED <<dispatched, standing, applied, decided>> /\ active' = {} /\ drain' = "open"
        /\ crashes < MaxCrashes /\ crashes' = crashes + 1
    BY <1>6 DEF CrashAndRecover
  <2>2. PICK lost \in SUBSET Ids :
           /\ row' = [i \in Ids |-> IF i \in lost THEN NoRow ELSE Recovered(row[i])]
           /\ pruned' = pruned \cup lost
    BY <1>6 DEF CrashAndRecover
  <2>3. row' \in [Ids -> Rows] /\ pruned' \subseteq Ids
    <3>1. NoRow \in Rows BY DEF NoRow, Rows, Statuses
    <3>2. \A i \in Ids : Recovered(row[i]) \in Rows
      BY DEF TypeOK, Recovered, Rows, Statuses, Terminal
    <3>3. QED BY <2>2, <3>1, <3>2 DEF TypeOK
  <2>4. PICK window :
           /\ marked' = window /\ window \subseteq Ids
           /\ memory' = [i \in Ids |-> IF i \in window THEN row'[i].status ELSE "none"]
           /\ hashes' = [i \in Ids |-> IF i \in window THEN row'[i].body ELSE NoBody]
           /\ order' \in Seq(Ids)
    <3> DEFINE stored == {i \in Ids : row'[i] # NoRow}
               n == AtMost(stored, MemoryLimit)
    <3>1. PICK ord \in [1..n -> stored] :
             LET w == {ord[k] : k \in DOMAIN ord}
             IN  /\ order' = ord /\ marked' = w
                 /\ memory' = [i \in Ids |-> IF i \in w THEN row'[i].status ELSE "none"]
                 /\ hashes' = [i \in Ids |-> IF i \in w THEN row'[i].body ELSE NoBody]
      BY <1>6 DEF CrashAndRecover, loadRecent
    <3>2. n \in Nat
      <4>1. IsFiniteSet(stored) BY FS_Subset DEF WideWindow
      <4>2. Cardinality(stored) \in Nat BY <4>1, FS_CardinalityType
      <4>3. QED BY <4>2, BoundsAssumption DEF AtMost
    <3>3. {ord[k] : k \in DOMAIN ord} \subseteq Ids BY <3>1
    <3>4. order' \in Seq(Ids)
      <4>1. ord \in [1..n -> Ids] BY <3>1
      <4> HIDE DEF n, stored
      <4>2. ord \in Seq(Ids) BY <3>2, <4>1
      <4>3. QED BY <3>1, <4>2
    <3>5. QED BY <3>1, <3>3, <3>4
  <2>5. memory' \in [Ids -> Statuses] /\ hashes' \in [Ids -> Bodies \cup {NoBody}]
    BY <2>3, <2>4 DEF Rows, Statuses
  <2>6. crashes' \in 0..MaxCrashes BY <1>0, <2>1 DEF TypeOK
  <2>7. fetched' \in [Actors -> Rows] BY <2>1 DEF NoRow, Rows, Statuses
  <2>8. TypeOK' BY <1>0, <2>1, <2>3, <2>4, <2>5, <2>6, <2>7 DEF TypeOK
  <2>9. StepsLeft' BY <1>0, <2>1 DEF StepsLeft
  <2>10. QED BY <2>8, <2>9
<1>7. QED BY <1>1, <1>2, <1>3, <1>4, <1>5, <1>6, TypedExecute DEF Next

\* The invariants together, in a wide window.
WindowInv == WriteAheadInv /\ OnceInv /\ WideInv /\ TypeOK /\ StepsLeft

\* They hold in every behaviour; without an eviction nobody crosses.
LEMMA WindowInvariant ==
    ASSUME WideWindow PROVE Spec => []WindowInv
<1>1. Init => WindowInv
  <2> SUFFICES ASSUME Init PROVE WindowInv OBVIOUS
  <2>1. WideInv BY DEF Init, WideInv, Listed, Busy, Executing, Actors
  <2>2. Steps \in Nat /\ 0 < Steps /\ MaxDispatches \in Nat /\ MaxCrashes \in Nat BY BoundsAssumption
  <2>3. TypeOK BY <2>2 DEF Init, TypeOK, NoRow, Rows, Statuses
  <2>4. StepsLeft BY <2>2 DEF Init, StepsLeft
  <2>5. QED BY <2>1, <2>3, <2>4, WriteAheadInit, OnceInit DEF WindowInv
<1>2. WindowInv /\ [Next]_vars => WindowInv'
  <2> SUFFICES ASSUME WindowInv, [Next]_vars PROVE WindowInv' OBVIOUS
  <2>1. Uncrossed BY DEF WindowInv, WideInv, Uncrossed, Busy, Actors
  <2>2. WriteAheadInv' /\ OnceInv' BY <2>1, WriteAheadNext, OnceNext DEF WindowInv
  <2>3. WideInv' /\ TypeOK' /\ StepsLeft' BY WideNext, TypedNext DEF WindowInv
  <2>4. QED BY <2>2, <2>3 DEF WindowInv
<1>3. QED BY <1>1, <1>2, PTL DEF Spec

\* With a window that holds every id the idempotency key works without any
\* condition: a send that stands is the last of its step, because nobody crosses
\* when every receipt stays in memory
\* (cacheOperationLocked, reserveOperation, SetOperationStore).
THEOREM OperationsAtMostOnceInWideWindow ==
    ASSUME WideWindow PROVE Spec => []AtMostOnce
<1>1. WindowInv => AtMostOnce BY DEF WindowInv, OnceInv
<1>2. QED BY <1>1, WindowInvariant, PTL

\* The engine, its memory window and its store keep their types, and a plan is
\* never dispatched beyond its last step (execute, cacheOperationLocked).
THEOREM OperationsTyped ==
    ASSUME WideWindow PROVE Spec => []TypeOK
<1>1. WindowInv => TypeOK BY DEF WindowInv
<1>2. QED BY <1>1, WindowInvariant, PTL

=============================================================================
