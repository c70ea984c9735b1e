-------------------------- MODULE SchedulerProofs --------------------------
(***************************************************************************)
(* Proofs about Scheduler for any ids, contents, versions and faults: one  *)
(* execution per id, and a definition that says "succeeded" was carried    *)
(* out with its own content.                                               *)
(***************************************************************************)
EXTENDS Scheduler, TLAPS

-----------------------------------------------------------------------------
(* The inductive invariant. *)

\* Only Schedule makes a definition live, and it numbers it from 1.
LiveIsNumbered(d) == d.status \in Live => d.version \in Versions

DefinitionsAreNumbered ==
  \A i \in Ids : LiveIsNumbered(definition[i]) /\ LiveIsNumbered(saved[i])

\* dispatchDue visits ids of its snapshot, one at a time, and holds the map
\* entry of the one it visits.
PassIsSound ==
  /\ loop # "claim" => todo = {}
  /\ \A i \in todo : view[i].version \in Versions
  /\ visiting # NoId => visiting \in todo /\ running[visiting] = view[visiting].version

\* An execution under way has its entry in the running map, is not one that
\* dispatchDue is still deciding on, and its version was given out.
ExecutionIsEntered ==
  \A i \in Ids, v \in Versions : InFlight(<<i, v>>) =>
    running[i] = v /\ visiting # i /\ v <= definition[i].version

\* It was claimed with the content its version has.
AskedIsOwn ==
  \A i \in Ids, v \in Versions :
    InFlight(<<i, v>>) /\ definition[i].version = v => asked[<<i, v>>] = definition[i].content

\* The engine's ledger and the receipt agree on what was asked.
ReceiptIsOwn ==
  \A o \in Operations :
    /\ exec[o] = "waiting" => ledger[o] = [status |-> "running", content |-> asked[o]]
    /\ exec[o] = "reporting" /\ receipt[o] = "succeeded" =>
         ledger[o] = [status |-> "succeeded", content |-> asked[o]]

\* A definition that says "succeeded", in memory or in the snapshot a restart
\* reads, is the one the ledger has.
Carried(i, d) ==
  d.status = "succeeded" =>
    /\ d.version \in Versions
    /\ ledger[<<i, d.version>>] = [status |-> "succeeded", content |-> d.content]

SuccessIsCarried ==
  \A i \in Ids : Carried(i, definition[i]) /\ Carried(i, saved[i])

Rest ==
  /\ DefinitionsAreNumbered /\ PassIsSound /\ ExecutionIsEntered
  /\ AskedIsOwn /\ ReceiptIsOwn /\ SuccessIsCarried

IInv == TypeOK /\ Rest

-----------------------------------------------------------------------------
(* Type correctness. *)

LEMMA NoDefinitionType == NoDefinition \in Definitions
  BY BoundsAssumption DEF NoDefinition, Definitions

\* Store updates of one definition: a new status, or a new version.
LEMMA StatusType ==
  ASSUME NEW d \in Definitions, NEW s \in {"none"} \cup Live \cup Ended
  PROVE  /\ [d EXCEPT !.status = s] \in Definitions
         /\ [d EXCEPT !.status = s].version = d.version
         /\ [d EXCEPT !.status = s].content = d.content
         /\ [d EXCEPT !.status = s].status = s
  BY DEF Definitions

LEMMA OperationType ==
  ASSUME NEW i \in Ids, NEW v \in Versions
  PROVE  <<i, v>> \in Operations
  BY DEF Operations

LEMMA TypeInit == Init => TypeOK
<1> SUFFICES ASSUME Init  PROVE TypeOK
  OBVIOUS
<1>1. 0 \in 0..MaxVersions /\ 0 \in 0..MaxFaults
  BY BoundsAssumption
<1>2. ledger \in [Operations -> [status : Receipts \cup {"none", "running"},
                                content : Contents \cup {NoContent}]]
  BY DEF Init, Unknown
<1> QED  BY <1>1, <1>2, NoDefinitionType DEF Init, TypeOK

LEMMA TypeStep ==
  ASSUME TypeOK, DefinitionsAreNumbered, PassIsSound, [Next]_vars
  PROVE  TypeOK'
<1> USE BoundsAssumption DEF stateVars, loopVars, execVars
<1>1. ASSUME NEW i \in Ids, NEW k \in Contents, Schedule(i, k)  PROVE TypeOK'
  <2> DEFINE d == [version |-> definition[i].version + 1, status |-> "scheduled",
                   content |-> k]
  <2>1. definition[i].version \in 0..MaxVersions /\ definition[i].version < MaxVersions
    BY <1>1 DEF Schedule, TypeOK, Definitions
  <2>2. d \in Definitions
    BY <2>1 DEF Definitions, Live
  <2>3. definition' \in [Ids -> Definitions]
    BY <1>1, <2>2 DEF Schedule, TypeOK
  <2>4. cancelled' \subseteq Operations
    BY <1>1, <2>1 DEF Schedule, cancelRunning, TypeOK, Operations, Versions
  <2> QED  BY <1>1, <2>3, <2>4 DEF Schedule, TypeOK
<1>2. ASSUME NEW i \in Ids, Cancel(i)  PROVE TypeOK'
  <2>1. definition[i].version \in 0..MaxVersions
    BY DEF TypeOK, Definitions
  <2>2. definition' \in [Ids -> Definitions]
    BY <1>2, StatusType DEF Cancel, TypeOK, Ended
  <2>3. cancelled' \subseteq Operations
    BY <1>2, <2>1 DEF Cancel, cancelRunning, TypeOK, Operations, Versions
  <2> QED  BY <1>2, <2>2, <2>3 DEF Cancel, TypeOK
<1>3. ASSUME NEW i \in Ids, ExecuteAtPasses(i)  PROVE TypeOK'
  <2>1. definition[i].version \in Versions
    BY <1>3 DEF ExecuteAtPasses, TypeOK, Definitions, Versions
  <2>2. reached' \subseteq Operations
    BY <1>3, <2>1 DEF ExecuteAtPasses, TypeOK, Operations
  <2> QED  BY <1>3, <2>2 DEF ExecuteAtPasses, TypeOK
<1>4. ASSUME NEW i \in Ids, AccountChanges(i)  PROVE TypeOK'
  <2>1. faults' \in 0..MaxFaults
    BY <1>4 DEF AccountChanges, TypeOK
  <2>2. bound' \in [Ids -> BOOLEAN]
    BY <1>4, Zenon DEF AccountChanges, TypeOK
  <2> QED  BY <1>4, <2>1, <2>2 DEF AccountChanges, TypeOK
<1>5. CASE wake
  BY <1>5 DEF wake, TypeOK
<1>6. CASE scan
  <2>1. \A i \in Ids : Candidate(i) => <<i, definition[i].version>> \in Operations
    BY OperationType DEF Candidate, DefinitionsAreNumbered, LiveIsNumbered
  <2>2. timer' \subseteq Operations
    BY <1>6, <2>1 DEF scan
  <2> QED  BY <1>6, <2>2 DEF scan, TypeOK
<1>7. CASE scanned
  BY <1>7, NoDefinitionType DEF scanned, TypeOK
<1>8. ASSUME NEW i \in Ids, skipRunning(i)  PROVE TypeOK'
  BY <1>8 DEF skipRunning, TypeOK
<1>9. ASSUME NEW i \in Ids, reserveRunning(i)  PROVE TypeOK'
  <2>1. view[i].version \in 0..MaxVersions
    BY DEF TypeOK, Definitions
  <2> QED  BY <1>9, <2>1 DEF reserveRunning, TypeOK
<1>10. ASSUME NEW i \in Ids, claim(i)  PROVE TypeOK'
  <2>1. view[i].version \in Versions /\ definition[i].content \in Contents \cup {NoContent}
    BY <1>10, NamesAssumption DEF claim, PassIsSound, TypeOK, Definitions
  <2>2. definition' \in [Ids -> Definitions]
    <3>1. [definition[i] EXCEPT !.status = "running"] \in Definitions
      BY StatusType DEF TypeOK, Live
    <3>2. \/ definition' = [definition EXCEPT ![i] = [definition[i] EXCEPT !.status = "running"]]
          \/ UNCHANGED definition
      BY <1>10 DEF claim
    <3> QED  BY <3>1, <3>2 DEF TypeOK
  <2>3. exec' \in [Operations -> {"none", "submitting", "waiting", "reporting", "clearing"}]
    BY <1>10 DEF claim, TypeOK
  <2>4. asked' \in [Operations -> Contents \cup {NoContent}]
    BY <1>10, <2>1 DEF claim, TypeOK
  <2>5. running' \in [Ids -> 0..MaxVersions]
    <3>1. running' = [running EXCEPT ![i] = 0] \/ UNCHANGED running
      BY <1>10 DEF claim
    <3> QED  BY <3>1 DEF TypeOK
  <2>6. signal' \in BOOLEAN
    <3>1. signal' = TRUE \/ UNCHANGED signal
      BY <1>10 DEF claim
    <3> QED  BY <3>1, Zenon DEF TypeOK
  <2> QED  BY <1>10, <2>2, <2>3, <2>4, <2>5, <2>6 DEF claim, TypeOK
<1>11. ASSUME NEW o \in Operations, submitAnswered(o)  PROVE TypeOK'
  <2>1. exec' \in [Operations -> {"none", "submitting", "waiting", "reporting", "clearing"}]
    BY <1>11 DEF submitAnswered, TypeOK
  <2>2. PICK rcpt \in Receipts : receipt' = [receipt EXCEPT ![o] = rcpt]
    BY <1>11 DEF submitAnswered, Receipts
  <2>3. receipt' \in [Operations -> Receipts \cup {"none"}]
    BY <2>2 DEF TypeOK
  <2>4. \/ UNCHANGED ledger
        \/ \E s \in Receipts : ledger' = [ledger EXCEPT ![o] = [status |-> s, content |-> asked[o]]]
    BY <1>11 DEF submitAnswered, Receipts
  <2>5. ledger' \in [Operations -> [status : Receipts \cup {"none", "running"},
                                    content : Contents \cup {NoContent}]]
    BY <2>4 DEF TypeOK
  <2> QED  BY <1>11, <2>1, <2>3, <2>5 DEF submitAnswered, TypeOK
<1>12. ASSUME NEW o \in Operations, submitDispatches(o)  PROVE TypeOK'
  BY <1>12 DEF submitDispatches, TypeOK
<1>13. ASSUME NEW o \in Operations, submitReturns(o)  PROVE TypeOK'
  BY <1>13 DEF submitReturns, TypeOK, Receipts
<1>14. ASSUME NEW i \in Ids, NEW v \in Versions, report(i, v)  PROVE TypeOK'
  <2>1. StatusOf(receipt[<<i, v>>]) \in {"none"} \cup Live \cup Ended
    BY OperationType DEF TypeOK, StatusOf, Receipts, Ended
  <2>2. definition' \in [Ids -> Definitions] /\ signal' \in BOOLEAN
    <3> DEFINE d == [definition[i] EXCEPT !.status = StatusOf(receipt[<<i, v>>])]
    <3>1. d \in Definitions
      BY <2>1, StatusType DEF TypeOK
    <3>2. \/ definition' = [definition EXCEPT ![i] = d] /\ signal' = TRUE
          \/ UNCHANGED <<definition, signal>>
      BY <1>14 DEF report
    <3> QED  BY <3>1, <3>2 DEF TypeOK
  <2>3. exec' \in [Operations -> {"none", "submitting", "waiting", "reporting", "clearing"}]
    BY <1>14 DEF report, TypeOK
  <2> QED  BY <1>14, <2>2, <2>3 DEF report, TypeOK
<1>15. ASSUME NEW i \in Ids, NEW v \in Versions, clearRunning(i, v)  PROVE TypeOK'
  <2>1. running' \in [Ids -> 0..MaxVersions]
    BY <1>15 DEF clearRunning, TypeOK
  <2>2. /\ exec' \in [Operations -> {"none", "submitting", "waiting", "reporting", "clearing"}]
        /\ asked' \in [Operations -> Contents \cup {NoContent}]
        /\ receipt' \in [Operations -> Receipts \cup {"none"}]
        /\ cancelled' \subseteq Operations
    BY <1>15 DEF clearRunning, Forget, TypeOK
  <2> QED  BY <1>15, <2>1, <2>2 DEF clearRunning, TypeOK
<1>16. CASE persistState
  BY <1>16 DEF persistState, TypeOK
<1>17. CASE Crash
  <2>1. ledger' \in [Operations -> [status : Receipts \cup {"none", "running"},
                                    content : Contents \cup {NoContent}]]
    BY <1>17 DEF Crash, TypeOK, Receipts
  <2>2. faults' \in 0..MaxFaults
    BY <1>17 DEF Crash, TypeOK
  <2>3. running' \in [Ids -> 0..MaxVersions]
    BY <1>17 DEF Crash
  <2>4. view' \in [Ids -> Definitions]
    BY <1>17, NoDefinitionType DEF Crash
  <2> QED  BY <1>17, <2>1, <2>2, <2>3, <2>4 DEF Crash, TypeOK
<1>18. CASE UNCHANGED vars
  BY <1>18 DEF vars, TypeOK
<1> QED
  BY <1>1, <1>2, <1>3, <1>4, <1>5, <1>6, <1>7, <1>8, <1>9, <1>10, <1>11, <1>12, <1>13, <1>14,
     <1>15, <1>16, <1>17, <1>18, OperationType DEF Next, Dispatch, Execution

-----------------------------------------------------------------------------
(* Every step preserves the rest of the invariant. *)

LEMMA VersionType ==
  ASSUME TypeOK, NEW i \in Ids
  PROVE  definition[i].version \in Int /\ definition[i] \in Definitions
  BY DEF TypeOK, Definitions

\* The steps that do not touch definitions, executions or the pass.
Idle ==
  \/ UNCHANGED vars \/ wake
  \/ \E i \in Ids : ExecuteAtPasses(i) \/ AccountChanges(i)

LEMMA IdleStep ==
  ASSUME IInv, Idle
  PROVE  Rest'
<1>1. /\ UNCHANGED <<definition, saved, running, view, todo, visiting, execVars, ledger>>
      /\ loop' = "claim" <=> loop = "claim"
  BY DEF Idle, vars, wake, ExecuteAtPasses, AccountChanges, stateVars, loopVars
<1> QED
  BY <1>1 DEF IInv, Rest, DefinitionsAreNumbered, PassIsSound, ExecutionIsEntered, AskedIsOwn,
     ReceiptIsOwn, SuccessIsCarried, Carried, InFlight, execVars

\* The pass of dispatchDue, up to the map entry.
Pass == scan \/ scanned \/ \E i \in Ids : skipRunning(i) \/ reserveRunning(i)

LEMMA PassStep ==
  ASSUME IInv, Pass
  PROVE  Rest'
<1>1. UNCHANGED <<definition, saved, execVars, ledger>>
  BY DEF Pass, scan, scanned, skipRunning, reserveRunning, stateVars
<1>2. /\ DefinitionsAreNumbered' /\ AskedIsOwn' /\ ReceiptIsOwn' /\ SuccessIsCarried'
  BY <1>1 DEF IInv, Rest, DefinitionsAreNumbered, AskedIsOwn, ReceiptIsOwn, SuccessIsCarried,
     Carried, InFlight, execVars
<1>3. CASE scan
  <2>1. /\ loop = "scan" /\ loop' = "claim" /\ view' = definition
        /\ todo' \subseteq {i \in Ids : Candidate(i)}
        /\ UNCHANGED <<running, visiting>>
    BY <1>3 DEF scan
  <2>2. PassIsSound'
    BY <2>1 DEF IInv, Rest, PassIsSound, DefinitionsAreNumbered, LiveIsNumbered, Candidate
  <2>3. ExecutionIsEntered'
    BY <1>1, <2>1 DEF IInv, Rest, ExecutionIsEntered, InFlight, execVars
  <2> QED  BY <1>2, <2>2, <2>3 DEF Rest
<1>4. CASE scanned
  <2>1. todo = {} /\ todo' = {} /\ UNCHANGED <<running, visiting>>
    BY <1>4 DEF scanned
  <2>2. PassIsSound'
    BY <2>1 DEF IInv, Rest, PassIsSound
  <2>3. ExecutionIsEntered'
    BY <1>1, <2>1 DEF IInv, Rest, ExecutionIsEntered, InFlight, execVars
  <2> QED  BY <1>2, <2>2, <2>3 DEF Rest
<1>5. ASSUME NEW i \in Ids, skipRunning(i)  PROVE Rest'
  <2>1. /\ loop = "claim" /\ visiting = NoId /\ todo' = todo \ {i}
        /\ UNCHANGED <<loop, running, visiting, view>>
    BY <1>5 DEF skipRunning
  <2>2. PassIsSound'
    BY <2>1 DEF IInv, Rest, PassIsSound
  <2>3. ExecutionIsEntered'
    BY <1>1, <2>1 DEF IInv, Rest, ExecutionIsEntered, InFlight, execVars
  <2> QED  BY <1>2, <2>2, <2>3 DEF Rest
<1>6. ASSUME NEW i \in Ids, reserveRunning(i)  PROVE Rest'
  <2>1. /\ loop = "claim" /\ i \in todo /\ running[i] = 0 /\ visiting' = i
        /\ running' = [running EXCEPT ![i] = view[i].version]
        /\ UNCHANGED <<loop, todo, view>>
    BY <1>6 DEF reserveRunning
  <2>2. running \in [Ids -> 0..MaxVersions]
    BY DEF IInv, TypeOK
  <2>3. PassIsSound'
    BY <2>1, <2>2 DEF IInv, Rest, PassIsSound
  <2>4. \A v \in Versions : ~InFlight(<<i, v>>)
    BY <2>1 DEF IInv, Rest, ExecutionIsEntered, Versions
  <2>5. ExecutionIsEntered'
    BY <1>1, <2>1, <2>2, <2>4 DEF IInv, Rest, ExecutionIsEntered, InFlight, execVars
  <2> QED  BY <1>2, <2>3, <2>5 DEF Rest
<1> QED  BY <1>3, <1>4, <1>5, <1>6 DEF Pass

\* Schedule and Cancel replace one definition: the version only grows, and a
\* version an execution may still have keeps its content.
LEMMA DefinitionStep ==
  ASSUME IInv, NEW i \in Ids, Cancel(i) \/ \E k \in Contents : Schedule(i, k)
  PROVE  Rest'
<1>1. UNCHANGED <<saved, running, loopVars, execVars, ledger>>
  BY DEF Cancel, Schedule
<1>2. \A j \in Ids \ {i} : definition'[j] = definition[j]
  BY DEF Cancel, Schedule, IInv, TypeOK
<1>3. /\ LiveIsNumbered(definition'[i])
      /\ definition'[i].status # "succeeded"
      /\ \/ /\ definition'[i].version = definition[i].version
            /\ definition'[i].content = definition[i].content
         \/ definition'[i].version = definition[i].version + 1
  <2>1. CASE Cancel(i)
    <3>1. definition'[i] = [definition[i] EXCEPT !.status = "cancelled"]
      BY <2>1 DEF Cancel, IInv, TypeOK
    <3>2. /\ definition'[i].version = definition[i].version
          /\ definition'[i].content = definition[i].content
          /\ definition'[i].status = "cancelled"
      BY <3>1, VersionType, StatusType DEF IInv, Ended
    <3> QED  BY <3>2 DEF LiveIsNumbered, Live
  <2>2. ASSUME NEW k \in Contents, Schedule(i, k)
        PROVE  /\ definition'[i].version = definition[i].version + 1
               /\ definition'[i].status = "scheduled"
               /\ definition'[i].version \in Versions
    <3>1. definition[i].version \in 0..MaxVersions /\ definition[i].version < MaxVersions
      BY <2>2 DEF Schedule, IInv, TypeOK, Definitions
    <3>2. definition'[i] = [version |-> definition[i].version + 1, status |-> "scheduled",
                            content |-> k]
      BY <2>2 DEF Schedule, IInv, TypeOK
    <3> QED  BY <3>1, <3>2, BoundsAssumption DEF Versions
  <2> QED  BY <2>1, <2>2 DEF LiveIsNumbered
<1>4. DefinitionsAreNumbered'
  BY <1>1, <1>2, <1>3 DEF IInv, Rest, DefinitionsAreNumbered, LiveIsNumbered
<1>5. PassIsSound' /\ ReceiptIsOwn'
  BY <1>1 DEF IInv, Rest, PassIsSound, ReceiptIsOwn, loopVars, execVars
<1>6. ExecutionIsEntered' /\ AskedIsOwn'
  <2> SUFFICES ASSUME NEW j \in Ids, NEW v \in Versions, InFlight(<<j, v>>)'
               PROVE  /\ (running[j] = v /\ visiting # j /\ v <= definition[j].version)'
                      /\ (definition[j].version = v => asked[<<j, v>>] = definition[j].content)'
    BY DEF ExecutionIsEntered, AskedIsOwn
  <2>1. /\ running[j] = v /\ visiting # j /\ v <= definition[j].version
        /\ definition[j].version = v => asked[<<j, v>>] = definition[j].content
    BY <1>1 DEF IInv, Rest, ExecutionIsEntered, AskedIsOwn, InFlight, execVars
  <2>2. UNCHANGED <<running, visiting, asked>>
    BY <1>1 DEF loopVars, execVars
  <2>3. v \in Int /\ definition[i].version \in Int
    BY VersionType, BoundsAssumption DEF IInv, Versions
  <2> QED  BY <1>2, <1>3, <2>1, <2>2, <2>3
<1>7. SuccessIsCarried'
  BY <1>1, <1>2, <1>3 DEF IInv, Rest, SuccessIsCarried, Carried
<1> QED  BY <1>4, <1>5, <1>6, <1>7 DEF Rest

\* The claim: the execution that starts has the map entry, the snapshot's
\* version is still the definition's, and it is given that content.
LEMMA ClaimStep ==
  ASSUME IInv, NEW i \in Ids, claim(i)
  PROVE  Rest'
<1> DEFINE w == view[i].version
<1>1. /\ loop = "claim" /\ visiting = i /\ visiting' = NoId /\ todo' = todo \ {i}
      /\ UNCHANGED <<saved, loop, view, receipt, ledger>>
  BY DEF claim
<1>2. w \in Versions /\ running[i] = w
  BY <1>1, NamesAssumption DEF IInv, Rest, PassIsSound
<1>3. \A v \in Versions : ~InFlight(<<i, v>>)
  BY <1>1 DEF IInv, Rest, ExecutionIsEntered
<1>4. PassIsSound'
  BY <1>1 DEF IInv, Rest, PassIsSound
<1>5. CASE Candidate(i) /\ definition[i].version = w
  <2>1. /\ definition' = [definition EXCEPT ![i].status = "running"]
        /\ exec' = [exec EXCEPT ![<<i, w>>] = "submitting"]
        /\ asked' = [asked EXCEPT ![<<i, w>>] = definition[i].content]
        /\ UNCHANGED running
    BY <1>5 DEF claim
  <2>2. definition'[i] = [definition[i] EXCEPT !.status = "running"]
    BY <2>1 DEF IInv, TypeOK
  <2>3. /\ definition'[i].version = w /\ definition'[i].content = definition[i].content
        /\ definition'[i].status = "running"
    BY <1>5, <2>2, VersionType, StatusType DEF IInv, Live
  <2>4. \A j \in Ids \ {i} : definition'[j] = definition[j]
    BY <2>1 DEF IInv, TypeOK
  <2>5. <<i, w>> \in Operations
    BY <1>2, OperationType
  <2>6. /\ exec'[<<i, w>>] = "submitting" /\ asked'[<<i, w>>] = definition[i].content
        /\ \A o \in Operations \ {<<i, w>>} : exec'[o] = exec[o] /\ asked'[o] = asked[o]
    BY <2>1, <2>5 DEF IInv, TypeOK
  <2>7. DefinitionsAreNumbered'
    BY <1>1, <1>2, <2>3, <2>4 DEF IInv, Rest, DefinitionsAreNumbered, LiveIsNumbered
  <2>8. ASSUME NEW j \in Ids, NEW v \in Versions, InFlight(<<j, v>>)'
        PROVE  \/ j = i /\ v = w
               \/ /\ j # i /\ InFlight(<<j, v>>) /\ asked'[<<j, v>>] = asked[<<j, v>>]
    <3>1. CASE <<j, v>> = <<i, w>>
      BY <3>1
    <3>2. CASE <<j, v>> # <<i, w>>
      <4>1. InFlight(<<j, v>>) /\ asked'[<<j, v>>] = asked[<<j, v>>]
        BY <2>6, <2>8, <3>2, OperationType DEF InFlight
      <4> QED  BY <1>3, <4>1
    <3> QED  BY <3>1, <3>2
  <2>9. ExecutionIsEntered'
    <3> SUFFICES ASSUME NEW j \in Ids, NEW v \in Versions, InFlight(<<j, v>>)'
                 PROVE  (running[j] = v /\ visiting # j /\ v <= definition[j].version)'
      BY DEF ExecutionIsEntered
    <3>1. CASE j = i /\ v = w
      BY <1>1, <1>2, <2>1, <2>3, <3>1, NamesAssumption, BoundsAssumption DEF Versions
    <3>2. CASE j # i /\ InFlight(<<j, v>>)
      BY <1>1, <2>1, <2>4, <3>2, NamesAssumption DEF IInv, Rest, ExecutionIsEntered
    <3> QED  BY <2>8, <3>1, <3>2
  <2>10. AskedIsOwn'
    <3> SUFFICES ASSUME NEW j \in Ids, NEW v \in Versions, InFlight(<<j, v>>)',
                        definition'[j].version = v
                 PROVE  asked'[<<j, v>>] = definition'[j].content
      BY DEF AskedIsOwn
    <3> QED  BY <2>3, <2>4, <2>6, <2>8 DEF IInv, Rest, AskedIsOwn
  <2>11. ReceiptIsOwn'
    BY <1>1, <2>6 DEF IInv, Rest, ReceiptIsOwn
  <2>12. SuccessIsCarried'
    BY <1>1, <2>3, <2>4 DEF IInv, Rest, SuccessIsCarried, Carried
  <2> QED  BY <1>4, <2>7, <2>9, <2>10, <2>11, <2>12 DEF Rest
<1>6. CASE ~ (Candidate(i) /\ definition[i].version = w)
  <2>1. running' = [running EXCEPT ![i] = 0] /\ UNCHANGED <<definition, exec, asked>>
    BY <1>6 DEF claim
  <2>2. /\ DefinitionsAreNumbered' /\ AskedIsOwn' /\ ReceiptIsOwn' /\ SuccessIsCarried'
    BY <1>1, <2>1 DEF IInv, Rest, DefinitionsAreNumbered, AskedIsOwn, ReceiptIsOwn,
       SuccessIsCarried, Carried, InFlight
  <2>3. ExecutionIsEntered'
    BY <1>1, <1>3, <2>1, NamesAssumption DEF IInv, TypeOK, Rest, ExecutionIsEntered, InFlight
  <2> QED  BY <1>4, <2>2, <2>3 DEF Rest
<1> QED  BY <1>5, <1>6

\* The steps of one execution: only its own phase, receipt and ledger entry
\* change, and a ledger entry that says "succeeded" stays.
LEMMA SubmitStep ==
  ASSUME IInv, NEW o \in Operations,
         submitAnswered(o) \/ submitDispatches(o) \/ submitReturns(o)
  PROVE  Rest'
<1>1. UNCHANGED <<definition, saved, running, loopVars, asked>>
  BY DEF submitAnswered, submitDispatches, submitReturns, stateVars
<1>2. /\ InFlight(o)
      /\ \A p \in Operations \ {o} :
           exec'[p] = exec[p] /\ receipt'[p] = receipt[p] /\ ledger'[p] = ledger[p]
  BY DEF submitAnswered, submitDispatches, submitReturns, IInv, TypeOK, InFlight
<1>3. DefinitionsAreNumbered' /\ PassIsSound'
  BY <1>1 DEF IInv, Rest, DefinitionsAreNumbered, PassIsSound, loopVars
<1>4. ExecutionIsEntered' /\ AskedIsOwn'
  <2>1. \A p \in Operations : InFlight(p)' => InFlight(p)
    BY <1>2 DEF InFlight
  <2> QED
    BY <1>1, <2>1, OperationType DEF IInv, Rest, ExecutionIsEntered, AskedIsOwn, loopVars
<1>5. /\ exec'[o] = "waiting" => ledger'[o] = [status |-> "running", content |-> asked[o]]
      /\ exec'[o] = "reporting" /\ receipt'[o] = "succeeded" =>
           ledger'[o] = [status |-> "succeeded", content |-> asked[o]]
      /\ ledger[o].status = "succeeded" => ledger'[o] = ledger[o]
  <2> DEFINE entry == [status : Receipts \cup {"none", "running"},
                       content : Contents \cup {NoContent}]
  <2>1. ledger[o] \in entry /\ ledger \in [Operations -> entry]
    BY DEF IInv, TypeOK
  <2>2. CASE submitAnswered(o)
    <3>1. exec'[o] = "reporting"
      BY <2>2 DEF submitAnswered, IInv, TypeOK
    <3>2. CASE ledger[o].status \in Receipts
      <4>1. /\ receipt'[o] = IF ledger[o].content = asked[o] THEN ledger[o].status ELSE "failed"
            /\ UNCHANGED ledger
        BY <2>2, <3>2 DEF submitAnswered, IInv, TypeOK, Receipts
      <4> QED  BY <2>1, <3>1, <4>1
    <3>3. CASE ledger[o].status = "none"
      <4>1. receipt'[o] # "succeeded"
        BY <2>2, <3>3 DEF submitAnswered, IInv, TypeOK, Receipts
      <4> QED  BY <3>1, <3>3, <4>1
    <3> QED  BY <2>2, <3>2, <3>3 DEF submitAnswered
  <2>3. CASE submitDispatches(o)
    BY <2>1, <2>3 DEF submitDispatches, IInv, TypeOK
  <2>4. CASE submitReturns(o)
    <3>1. ledger[o] = [status |-> "running", content |-> asked[o]]
      BY <2>4 DEF submitReturns, IInv, Rest, ReceiptIsOwn
    <3>2. PICK s \in {"succeeded", "failed", "indeterminate"} :
            receipt' = [receipt EXCEPT ![o] = s] /\ ledger' = [ledger EXCEPT ![o].status = s]
      BY <2>4 DEF submitReturns
    <3>3. receipt'[o] = s /\ ledger'[o] = [ledger[o] EXCEPT !.status = s]
      BY <2>1, <3>2 DEF IInv, TypeOK
    <3>4. ledger'[o] = [status |-> s, content |-> asked[o]]
      BY <3>1, <3>3
    <3>5. exec'[o] = "reporting"
      BY <2>4 DEF submitReturns, IInv, TypeOK
    <3> QED  BY <3>1, <3>3, <3>4, <3>5
  <2> QED  BY <2>2, <2>3, <2>4
<1>6. ReceiptIsOwn'
  BY <1>1, <1>2, <1>5 DEF IInv, Rest, ReceiptIsOwn
<1>7. SuccessIsCarried'
  <2> SUFFICES ASSUME NEW i \in Ids
               PROVE  Carried(i, definition[i])' /\ Carried(i, saved[i])'
    BY DEF SuccessIsCarried
  <2>1. \A p \in Operations : ledger[p].status = "succeeded" => ledger'[p] = ledger[p]
    BY <1>2, <1>5
  <2> QED
    BY <1>1, <2>1, OperationType DEF IInv, Rest, SuccessIsCarried, Carried
<1> QED  BY <1>3, <1>4, <1>6, <1>7 DEF Rest

\* A receipt goes into the definition of its own version only, and what it
\* says is in the ledger with the content that definition has.
LEMMA ReportStep ==
  ASSUME IInv, NEW i \in Ids, NEW v \in Versions, report(i, v)
  PROVE  Rest'
<1> DEFINE o == <<i, v>>
<1>1. o \in Operations
  BY OperationType
<1>2. /\ exec[o] = "reporting" /\ exec' = [exec EXCEPT ![o] = "clearing"]
      /\ UNCHANGED <<saved, running, loopVars, asked, receipt, ledger>>
  BY DEF report
<1>3. /\ exec'[o] = "clearing" /\ InFlight(o)
      /\ \A p \in Operations \ {o} : exec'[p] = exec[p]
  BY <1>1, <1>2 DEF IInv, TypeOK, InFlight
<1>4. \A j \in Ids : /\ definition'[j].version = definition[j].version
                     /\ definition'[j].content = definition[j].content
                     /\ j # i \/ definition[i].version # v => definition'[j] = definition[j]
                     /\ j = i /\ definition[i].version = v =>
                          definition'[i].status = StatusOf(receipt[o])
  <2>1. CASE definition[i].version # v
    BY <2>1 DEF report
  <2>2. CASE definition[i].version = v
    <3>1. definition' = [definition EXCEPT ![i].status = StatusOf(receipt[o])]
      BY <2>2 DEF report
    <3>2. definition'[i] = [definition[i] EXCEPT !.status = StatusOf(receipt[o])]
      BY <3>1 DEF IInv, TypeOK
    <3>3. \A j \in Ids \ {i} : definition'[j] = definition[j]
      BY <3>1 DEF IInv, TypeOK
    <3>4. StatusOf(receipt[o]) \in {"none"} \cup Live \cup Ended
      BY <1>1 DEF IInv, TypeOK, StatusOf, Receipts, Ended
    <3>5. /\ definition'[i].version = v /\ definition'[i].content = definition[i].content
          /\ definition'[i].status = StatusOf(receipt[o])
      BY <2>2, <3>2, <3>4, VersionType, StatusType DEF IInv
    <3> QED  BY <2>2, <3>3, <3>5
  <2> QED  BY <2>1, <2>2
<1>5. DefinitionsAreNumbered'
  BY <1>2, <1>4 DEF IInv, Rest, DefinitionsAreNumbered, LiveIsNumbered
<1>6. PassIsSound'
  BY <1>2 DEF IInv, Rest, PassIsSound, loopVars
<1>7. ExecutionIsEntered' /\ AskedIsOwn'
  <2>1. \A p \in Operations : InFlight(p)' => InFlight(p)
    BY <1>3 DEF InFlight
  <2> QED
    BY <1>2, <1>4, <2>1, OperationType DEF IInv, Rest, ExecutionIsEntered, AskedIsOwn, loopVars
<1>8. ReceiptIsOwn'
  BY <1>2, <1>3 DEF IInv, Rest, ReceiptIsOwn
<1>9. SuccessIsCarried'
  <2> SUFFICES ASSUME NEW j \in Ids
               PROVE  Carried(j, definition[j])' /\ Carried(j, saved[j])'
    BY DEF SuccessIsCarried
  <2>1. Carried(j, saved[j])'
    BY <1>2 DEF IInv, Rest, SuccessIsCarried, Carried
  <2>2. CASE j # i \/ definition[i].version # v
    BY <1>2, <1>4, <2>1, <2>2 DEF IInv, Rest, SuccessIsCarried, Carried
  <2>3. CASE j = i /\ definition[i].version = v
    <3>1. definition'[i].status = "succeeded" => receipt[o] = "succeeded"
      BY <1>4, <2>3 DEF StatusOf
    <3>2. receipt[o] = "succeeded" =>
            ledger[o] = [status |-> "succeeded", content |-> asked[o]]
      BY <1>1, <1>2 DEF IInv, Rest, ReceiptIsOwn
    <3>3. asked[o] = definition[i].content
      BY <1>3, <2>3 DEF IInv, Rest, AskedIsOwn
    <3> QED  BY <1>2, <1>4, <2>1, <2>3, <3>1, <3>2, <3>3 DEF Carried
  <2> QED  BY <2>2, <2>3
<1> QED  BY <1>5, <1>6, <1>7, <1>8, <1>9 DEF Rest

\* The deferred clearRunning ends the one execution its id has.
LEMMA ClearStep ==
  ASSUME IInv, NEW i \in Ids, NEW v \in Versions, clearRunning(i, v)
  PROVE  Rest'
<1> DEFINE o == <<i, v>>
<1>1. o \in Operations
  BY OperationType
<1>2. UNCHANGED <<definition, saved, loopVars, ledger>>
  BY DEF clearRunning, stateVars
<1>3. /\ exec[o] = "clearing" /\ exec'[o] = "none"
      /\ \A p \in Operations \ {o} :
           exec'[p] = exec[p] /\ asked'[p] = asked[p] /\ receipt'[p] = receipt[p]
  BY <1>1 DEF clearRunning, Forget, IInv, TypeOK
<1>4. running' = [running EXCEPT ![i] = 0] /\ visiting # i
  <2>1. running[i] = v /\ visiting # i
    BY <1>3 DEF IInv, Rest, ExecutionIsEntered, InFlight
  <2> QED  BY <2>1 DEF clearRunning
<1>5. DefinitionsAreNumbered' /\ SuccessIsCarried'
  BY <1>2 DEF IInv, Rest, DefinitionsAreNumbered, SuccessIsCarried, Carried
<1>6. PassIsSound'
  BY <1>2, <1>4 DEF IInv, TypeOK, Rest, PassIsSound, loopVars
<1>7. ASSUME NEW j \in Ids, NEW w \in Versions, InFlight(<<j, w>>)'
      PROVE  j # i /\ InFlight(<<j, w>>) /\ asked'[<<j, w>>] = asked[<<j, w>>]
  <2>1. <<j, w>> # o
    BY <1>3, <1>7 DEF InFlight
  <2>2. InFlight(<<j, w>>) /\ asked'[<<j, w>>] = asked[<<j, w>>]
    BY <1>3, <1>7, <2>1, OperationType DEF InFlight
  <2>3. InFlight(o)
    BY <1>3 DEF InFlight
  <2>4. j = i => w = v
    BY <2>2, <2>3 DEF IInv, Rest, ExecutionIsEntered
  <2> QED  BY <2>1, <2>2, <2>4
<1>8. ExecutionIsEntered' /\ AskedIsOwn'
  BY <1>2, <1>4, <1>7 DEF IInv, TypeOK, Rest, ExecutionIsEntered, AskedIsOwn, loopVars
<1>9. ReceiptIsOwn'
  BY <1>2, <1>3 DEF IInv, Rest, ReceiptIsOwn
<1> QED  BY <1>5, <1>6, <1>8, <1>9 DEF Rest

LEMMA PersistStep ==
  ASSUME IInv, persistState
  PROVE  Rest'
<1>1. saved' = definition /\ UNCHANGED <<definition, running, loopVars, execVars, ledger>>
  BY DEF persistState
<1> QED
  BY <1>1 DEF IInv, Rest, DefinitionsAreNumbered, PassIsSound, ExecutionIsEntered, AskedIsOwn,
     ReceiptIsOwn, SuccessIsCarried, Carried, InFlight, loopVars, execVars

\* A restart has the snapshot and the ledger: no execution survives, and the
\* ledger keeps every "succeeded".
LEMMA CrashStep ==
  ASSUME IInv, Crash
  PROVE  Rest'
<1>1. /\ definition' = saved /\ saved' = saved /\ loop' = "scan" /\ todo' = {}
      /\ visiting' = NoId /\ exec' = [o \in Operations |-> "none"]
  BY DEF Crash
<1>2. \A o \in Operations : ledger[o].status = "succeeded" => ledger'[o] = ledger[o]
  BY DEF Crash
<1>3. DefinitionsAreNumbered' /\ PassIsSound'
  BY <1>1 DEF IInv, Rest, DefinitionsAreNumbered, PassIsSound
<1>4. \A o \in Operations : exec'[o] = "none" /\ ~InFlight(o)'
  BY <1>1 DEF InFlight
<1>5. ExecutionIsEntered' /\ AskedIsOwn' /\ ReceiptIsOwn'
  BY <1>4, OperationType DEF ExecutionIsEntered, AskedIsOwn, ReceiptIsOwn
<1>6. SuccessIsCarried'
  <2> SUFFICES ASSUME NEW i \in Ids
               PROVE  Carried(i, definition[i])' /\ Carried(i, saved[i])'
    BY DEF SuccessIsCarried
  <2>1. Carried(i, saved[i])
    BY DEF IInv, Rest, SuccessIsCarried
  <2>2. Carried(i, saved[i])'
    BY <1>1, <1>2, <2>1, OperationType DEF Carried
  <2> QED  BY <1>1, <2>2 DEF Carried
<1> QED  BY <1>3, <1>5, <1>6 DEF Rest

-----------------------------------------------------------------------------
(* The theorems. *)

LEMMA InvInit == Init => IInv
<1> SUFFICES ASSUME Init  PROVE IInv
  OBVIOUS
<1>1. \A i \in Ids : definition[i] = NoDefinition /\ saved[i] = NoDefinition
  BY DEF Init
<1>2. \A i \in Ids, v \in Versions : exec[<<i, v>>] = "none"
  BY OperationType DEF Init
<1>3. DefinitionsAreNumbered /\ SuccessIsCarried
  BY <1>1 DEF DefinitionsAreNumbered, LiveIsNumbered, Live, SuccessIsCarried, Carried,
     NoDefinition
<1>4. PassIsSound /\ ReceiptIsOwn
  BY DEF Init, PassIsSound, ReceiptIsOwn
<1>5. ExecutionIsEntered /\ AskedIsOwn
  BY <1>2 DEF ExecutionIsEntered, AskedIsOwn, InFlight
<1> QED  BY <1>3, <1>4, <1>5, TypeInit DEF IInv, Rest

LEMMA RestStep ==
  ASSUME IInv, [Next]_vars
  PROVE  Rest'
<1>1. ASSUME NEW i \in Ids, NEW v \in Versions, Execution(i, v)  PROVE Rest'
  BY <1>1, SubmitStep, ReportStep, ClearStep, OperationType DEF Execution
<1>2. ASSUME NEW i \in Ids, claim(i)  PROVE Rest'
  BY <1>2, ClaimStep
<1>3. CASE Idle
  BY <1>3, IdleStep
<1>4. CASE Pass
  BY <1>4, PassStep
<1>5. CASE Dispatch
  BY <1>2, <1>3, <1>4, <1>5 DEF Dispatch, Idle, Pass
<1>6. ASSUME NEW i \in Ids, NEW k \in Contents, Schedule(i, k)  PROVE Rest'
  BY <1>6, DefinitionStep
<1>7. ASSUME NEW i \in Ids, Cancel(i)  PROVE Rest'
  BY <1>7, DefinitionStep
<1>8. CASE persistState
  BY <1>8, PersistStep
<1>9. CASE Crash
  BY <1>9, CrashStep
<1> QED  BY <1>1, <1>3, <1>5, <1>6, <1>7, <1>8, <1>9 DEF Next, Idle

LEMMA InvStep == IInv /\ [Next]_vars => IInv'
  BY TypeStep, RestStep DEF IInv, Rest

\* Every variable of the scheduler keeps its type, for any ids and bounds.
THEOREM TypeCorrect == Spec => []TypeOK
  BY InvInit, InvStep, PTL DEF Spec, IInv

\* ExecutionsAreOwn holds for any ids, contents, versions and faults: the
\* running map of dispatchDue keeps the executions of an id apart, and the
\* version check of the report together with the engine's ledger keeps a
\* definition from being credited with another one's receipt, although a
\* crash hands version numbers out again.
THEOREM ExecutionsBelong == Spec => []ExecutionsAreOwn
<1>1. IInv => OneExecution
  BY DEF IInv, Rest, ExecutionIsEntered, OneExecution
<1>2. IInv => ReportsAreOwn
  BY DEF IInv, Rest, SuccessIsCarried, Carried, ReportsAreOwn
<1> QED  BY <1>1, <1>2, InvInit, InvStep, PTL DEF Spec, ExecutionsAreOwn
=============================================================================
