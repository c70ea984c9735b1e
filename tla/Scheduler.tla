----------------------------- MODULE Scheduler -----------------------------
(***************************************************************************)
(* The operation scheduler (Server/Scheduling/Scheduler.go): definitions   *)
(* kept in the state store, one loop that dispatches what is due, and one  *)
(* goroutine per execution that submits the intent and reports its receipt.*)
(*                                                                         *)
(* A definition is identified by its id and version; the intent operation  *)
(* id is a digest of account, id and version, so it is <<id, version>>     *)
(* here.  The engine's side of Submit is external: an operation id it knows*)
(* is answered from its ledger (module Operations).  The state store is    *)
(* saved some time after a change, so a crash may lose changes.            *)
(***************************************************************************)
EXTENDS Integers, FiniteSets

CONSTANTS
    Ids,         \* scheduled operation ids
    Contents,    \* what a request asks for: intent, arguments, time
    MaxVersions, \* bound on the versions of an id
    MaxFaults    \* bound on restarts and changes of the bound account

Versions == 1..MaxVersions
Operations == Ids \X Versions
NoContent == "no content"
NoId == "no id"

ASSUME NamesAssumption == NoContent \notin Contents /\ NoId \notin Ids
ASSUME BoundsAssumption == {MaxVersions, MaxFaults} \subseteq Nat

VARIABLES
    definition, \* gameState.Scheduled
    saved,      \* the definitions in the last saved snapshot
    reached,    \* operations whose executeAt has passed
    bound,      \* whether the bound account is the one of the definition
    running,    \* scheduler.running: version per id, 0 if absent
    cancelled,  \* operations whose execution context is cancelled
    loop,       \* phase of Run: "select", "scan", "claim"
    view,       \* dispatchDue: the snapshot it reads
    todo,       \* dispatchDue: due ids of the snapshot it has not visited
    visiting,   \* dispatchDue: the id it has entered in the running map
    timer,      \* operations the due timer is armed for
    signal,     \* a relevant state event is waiting
    exec,       \* phase of the execution of each operation
    asked,      \* the content it was claimed with
    receipt,    \* the receipt its Submit returned
    ledger,     \* external: what the engine knows of each operation id
    faults      \* restarts and account changes so far

stateVars == <<definition, saved, reached, bound>>
loopVars == <<loop, view, todo, visiting, timer>>
execVars == <<exec, asked, receipt>>
vars == <<stateVars, running, cancelled, loopVars, signal, execVars, ledger, faults>>

Live == {"scheduled", "running"}
Ended == {"succeeded", "failed", "cancelled", "reconciliation_required"}
Receipts == {"succeeded", "failed", "cancelled", "indeterminate"}
NoDefinition == [version |-> 0, status |-> "none", content |-> NoContent]
Definitions ==
    [version : 0..MaxVersions, status : {"none"} \cup Live \cup Ended,
     content : Contents \cup {NoContent}]
Unknown == [status |-> "none", content |-> NoContent]
InFlight(o) == exec[o] \in {"submitting", "waiting", "reporting", "clearing"}

TypeOK ==
    /\ definition \in [Ids -> Definitions]
    /\ saved \in [Ids -> Definitions]
    /\ reached \subseteq Operations
    /\ bound \in [Ids -> BOOLEAN]
    /\ running \in [Ids -> 0..MaxVersions]
    /\ cancelled \subseteq Operations
    /\ loop \in {"select", "scan", "claim"}
    /\ view \in [Ids -> Definitions]
    /\ todo \subseteq Ids
    /\ visiting \in Ids \cup {NoId}
    /\ timer \subseteq Operations
    /\ signal \in BOOLEAN
    /\ exec \in [Operations -> {"none", "submitting", "waiting", "reporting", "clearing"}]
    /\ asked \in [Operations -> Contents \cup {NoContent}]
    /\ receipt \in [Operations -> Receipts \cup {"none"}]
    /\ ledger \in [Operations -> [status : Receipts \cup {"none", "running"},
                                  content : Contents \cup {NoContent}]]
    /\ faults \in 0..MaxFaults

Init ==
    /\ definition = [i \in Ids |-> NoDefinition]
    /\ saved = definition
    /\ reached = {}
    /\ bound = [i \in Ids |-> TRUE]
    /\ running = [i \in Ids |-> 0]
    /\ cancelled = {}
    /\ loop = "scan"
    /\ view = [i \in Ids |-> NoDefinition]
    /\ todo = {}
    /\ visiting = NoId
    /\ timer = {}
    /\ signal = FALSE
    /\ exec = [o \in Operations |-> "none"]
    /\ asked = [o \in Operations |-> NoContent]
    /\ receipt = [o \in Operations |-> "none"]
    /\ ledger = [o \in Operations |-> Unknown]
    /\ faults = 0

-----------------------------------------------------------------------------
(* Schedule and Cancel                                                     *)

\* cancelRunning: the execution of that version, if it is the one in the map.
cancelRunning(i, version) ==
    cancelled' = IF version > 0 /\ running[i] = version
                 THEN cancelled \cup {<<i, version>>} ELSE cancelled

\* Schedule: an identical live definition is left alone, any other one is
\* replaced by the next version, and the previous execution is cancelled.
Schedule(i, content) ==
    LET current == definition[i]
    IN  /\ ~ (current.status \in Live /\ current.content = content /\ bound[i])
        /\ current.version < MaxVersions
        /\ definition' = [definition EXCEPT ![i] =
              [version |-> current.version + 1, status |-> "scheduled", content |-> content]]
        /\ bound' = [bound EXCEPT ![i] = TRUE]
        /\ signal' = TRUE
        /\ cancelRunning(i, current.version)
        /\ UNCHANGED <<saved, reached, running, loopVars, execVars, ledger, faults>>

Cancel(i) ==
    /\ definition[i].status \in Live
    /\ definition' = [definition EXCEPT ![i].status = "cancelled"]
    /\ signal' = TRUE
    /\ cancelRunning(i, definition[i].version)
    /\ UNCHANGED <<saved, reached, bound, running, loopVars, execVars, ledger, faults>>

-----------------------------------------------------------------------------
(* Run and dispatchDue                                                     *)

\* The two events that make Run call dispatchDue again.
wake ==
    /\ loop = "select"
    /\ \/ signal /\ signal' = FALSE
       \/ timer \cap reached # {} /\ UNCHANGED signal
    /\ loop' = "scan"
    /\ UNCHANGED <<stateVars, running, cancelled, view, todo, visiting, timer, execVars, ledger, faults>>

Candidate(i) == definition[i].status \in Live /\ bound[i]

\* MUTANT: the timer is not armed for operations in the future.
scan_NoTimer ==
    /\ loop = "scan"
    /\ view' = definition
    /\ todo' = {i \in Ids : Candidate(i) /\ <<i, definition[i].version>> \in reached}
    /\ timer' = {}
    /\ loop' = "claim"
    /\ UNCHANGED <<stateVars, running, cancelled, visiting, signal, execVars, ledger, faults>>

\* dispatchDue reads the snapshot: operations that are due are visited, the
\* others arm the timer.
scan ==
    LET ids(due) == {i \in Ids : Candidate(i) /\ (<<i, definition[i].version>> \in reached) = due}
    IN  /\ loop = "scan"
        /\ view' = definition
        /\ todo' = ids(TRUE)
        /\ timer' = {<<i, definition[i].version>> : i \in ids(FALSE)}
        /\ loop' = "claim"
        /\ UNCHANGED <<stateVars, running, cancelled, visiting, signal, execVars, ledger, faults>>

\* An id whose previous execution is still in the map is skipped.
skipRunning(i) ==
    /\ loop = "claim"
    /\ i \in todo
    /\ visiting = NoId
    /\ running[i] # 0
    /\ todo' = todo \ {i}
    /\ UNCHANGED <<stateVars, running, cancelled, loop, view, visiting, timer, signal, execVars,
                   ledger, faults>>

\* The execution is entered in the map, with a fresh context ...
reserveRunning(i) ==
    /\ loop = "claim"
    /\ i \in todo
    /\ visiting = NoId
    /\ running[i] = 0
    /\ visiting' = i
    /\ running' = [running EXCEPT ![i] = view[i].version]
    /\ cancelled' = cancelled \ {<<i, view[i].version>>}
    /\ UNCHANGED <<stateVars, loop, view, todo, timer, signal, execVars, ledger,
                   faults>>

\* ... and the definition is claimed if it is still the one of the snapshot.
\* An execution is started, or the entry is cleared again.
claim(i) ==
    /\ loop = "claim"
    /\ i = visiting
    /\ visiting' = NoId
    /\ todo' = todo \ {i}
    /\ IF Candidate(i) /\ definition[i].version = view[i].version
       THEN /\ definition' = [definition EXCEPT ![i].status = "running"]
            /\ signal' = TRUE
            /\ exec' = [exec EXCEPT ![<<i, view[i].version>>] = "submitting"]
            /\ asked' = [asked EXCEPT ![<<i, view[i].version>>] = definition[i].content]
            /\ UNCHANGED running
       ELSE /\ running' = [running EXCEPT ![i] = 0]
            /\ UNCHANGED <<definition, signal, exec, asked>>
    /\ UNCHANGED <<saved, reached, bound, cancelled, loop, view, timer, receipt, ledger, faults>>

scanned ==
    /\ loop = "claim"
    /\ todo = {}
    /\ loop' = "select"
    /\ view' = [i \in Ids |-> NoDefinition]
    /\ UNCHANGED <<stateVars, running, cancelled, todo, visiting, timer, signal, execVars,
                   ledger, faults>>

-----------------------------------------------------------------------------
(* execute                                                                 *)

\* External: Submit answers a known operation id from its ledger, refuses it
\* for another request, or ends before anything is dispatched.
submitAnswered(o) ==
    /\ exec[o] = "submitting"
    /\ exec' = [exec EXCEPT ![o] = "reporting"]
    /\ \/ /\ ledger[o].status \in Receipts
          /\ receipt' = [receipt EXCEPT ![o] =
                IF ledger[o].content = asked[o] THEN ledger[o].status ELSE "failed"]
          /\ UNCHANGED ledger
       \/ /\ ledger[o].status = "none"
          /\ \E status \in {"failed"} \cup (IF o \in cancelled THEN {"cancelled"} ELSE {}) :
                /\ receipt' = [receipt EXCEPT ![o] = status]
                /\ ledger' = [ledger EXCEPT ![o] = [status |-> status, content |-> asked[o]]]
    /\ UNCHANGED <<stateVars, running, cancelled, loopVars, signal, asked, faults>>

\* External: Submit dispatches, once per operation id ...
submitDispatches(o) ==
    /\ exec[o] = "submitting"
    /\ ledger[o].status = "none"
    /\ exec' = [exec EXCEPT ![o] = "waiting"]
    /\ ledger' = [ledger EXCEPT ![o] = [status |-> "running", content |-> asked[o]]]
    /\ UNCHANGED <<stateVars, running, cancelled, loopVars, signal, asked, receipt, faults>>

\* ... and returns a receipt; one that was cancelled meanwhile may be unknown.
submitReturns(o) ==
    /\ exec[o] = "waiting"
    /\ exec' = [exec EXCEPT ![o] = "reporting"]
    /\ \E status \in {"succeeded", "failed", "indeterminate"} :
          /\ receipt' = [receipt EXCEPT ![o] = status]
          /\ ledger' = [ledger EXCEPT ![o].status = status]
    /\ UNCHANGED <<stateVars, running, cancelled, loopVars, signal, asked, faults>>

\* The switch of execute.
StatusOf(r) == IF r = "indeterminate" THEN "reconciliation_required" ELSE r

\* MUTANT: the receipt is reported whatever the version is now.
report_AnyVersion(i, version) ==
    LET o == <<i, version>>
    IN  /\ exec[o] = "reporting"
        /\ exec' = [exec EXCEPT ![o] = "clearing"]
        /\ definition' = [definition EXCEPT ![i].status = StatusOf(receipt[o])]
        /\ signal' = TRUE
        /\ UNCHANGED <<saved, reached, bound, running, cancelled, loopVars, asked, receipt, ledger, faults>>

\* The receipt goes into the definition of its own version; a newer version
\* is left alone, and then no event is emitted.
report(i, version) ==
    LET o == <<i, version>>
    IN  /\ exec[o] = "reporting"
        /\ exec' = [exec EXCEPT ![o] = "clearing"]
        /\ IF definition[i].version = version
           THEN definition' = [definition EXCEPT ![i].status = StatusOf(receipt[o])] /\ signal' = TRUE
           ELSE UNCHANGED <<definition, signal>>
        /\ UNCHANGED <<saved, reached, bound, running, cancelled, loopVars, asked, receipt, ledger, faults>>

\* The goroutine ends: what it held is gone.
Forget(o) ==
    /\ exec[o] = "clearing"
    /\ exec' = [exec EXCEPT ![o] = "none"]
    /\ asked' = [asked EXCEPT ![o] = NoContent]
    /\ receipt' = [receipt EXCEPT ![o] = "none"]
    /\ cancelled' = cancelled \ {o}

\* The deferred clearRunning: no event either.
clearRunning(i, version) ==
    /\ Forget(<<i, version>>)
    /\ running' = IF running[i] = version THEN [running EXCEPT ![i] = 0] ELSE running
    /\ UNCHANGED <<stateVars, loopVars, signal, ledger, faults>>

-----------------------------------------------------------------------------
(* Time, the account, persistence, crashes                                 *)

ExecuteAtPasses(i) ==
    LET o == <<i, definition[i].version>>
    IN  /\ definition[i].version > 0
        /\ o \notin reached
        /\ reached' = reached \cup {o}
        /\ UNCHANGED <<definition, saved, bound, running, cancelled, loopVars, signal, execVars,
                       ledger, faults>>

\* Another account is bound, or the one of the definition again: a session,
\* player or account event.
AccountChanges(i) ==
    /\ faults < MaxFaults
    /\ faults' = faults + 1
    /\ bound' = [bound EXCEPT ![i] = ~@]
    /\ signal' = TRUE
    /\ UNCHANGED <<definition, saved, reached, running, cancelled, loopVars, execVars, ledger>>

\* persistState writes the snapshot some time after the events.
persistState ==
    /\ saved # definition
    /\ saved' = definition
    /\ UNCHANGED <<definition, reached, bound, running, cancelled, loopVars, signal, execVars,
                   ledger, faults>>

\* Everything but the snapshot and the engine's ledger is lost; the ledger
\* turns what was running into "indeterminate".  Run starts with a pass.
Crash ==
    /\ faults < MaxFaults
    /\ faults' = faults + 1
    /\ definition' = saved
    /\ running' = [i \in Ids |-> 0]
    /\ cancelled' = {}
    /\ loop' = "scan"
    /\ view' = [i \in Ids |-> NoDefinition]
    /\ todo' = {}
    /\ visiting' = NoId
    /\ timer' = {}
    /\ signal' = FALSE
    /\ exec' = [o \in Operations |-> "none"]
    /\ asked' = [o \in Operations |-> NoContent]
    /\ receipt' = [o \in Operations |-> "none"]
    /\ ledger' = [o \in Operations |->
          IF ledger[o].status = "running" THEN [ledger[o] EXCEPT !.status = "indeterminate"]
          ELSE ledger[o]]
    /\ UNCHANGED <<saved, reached, bound>>

-----------------------------------------------------------------------------
Dispatch ==
    \/ wake \/ scan \/ scanned
    \/ \E i \in Ids : skipRunning(i) \/ reserveRunning(i) \/ claim(i)

Execution(i, v) ==
    \/ submitAnswered(<<i, v>>) \/ submitDispatches(<<i, v>>) \/ submitReturns(<<i, v>>)
    \/ report(i, v) \/ clearRunning(i, v)

Next ==
    \/ \E i \in Ids, content \in Contents : Schedule(i, content)
    \/ \E i \in Ids : Cancel(i) \/ ExecuteAtPasses(i) \/ AccountChanges(i)
    \/ Dispatch
    \/ \E i \in Ids, v \in Versions : Execution(i, v)
    \/ persistState
    \/ Crash

\* The loop and the executions run, Submit returns, time passes; nobody has to
\* schedule, cancel, change the account, save or crash.
Fairness ==
    /\ WF_vars(Dispatch)
    /\ \A i \in Ids, v \in Versions : WF_vars(Execution(i, v))

Spec == Init /\ [][Next]_vars /\ Fairness

-----------------------------------------------------------------------------
(* Properties                                                              *)

\* Two executions of one scheduled id never overlap, although each version
\* has a goroutine of its own: the previous one has left the running map
\* before the next is claimed.
OneExecution ==
    \A i \in Ids, v, w \in Versions :
        InFlight(<<i, v>>) /\ InFlight(<<i, w>>) => v = w

\* A definition that says "succeeded" was carried out, with its own content:
\* a late receipt of a superseded version, or of a version number that a crash
\* made available again, is never credited to it.
ReportsAreOwn ==
    \A i \in Ids :
        LET d == definition[i]
        IN  d.status = "succeeded" =>
              ledger[<<i, d.version>>] = [status |-> "succeeded", content |-> d.content]

\* Together: what a definition says was done by one execution at a time, and
\* by its own.
ExecutionsAreOwn == OneExecution /\ ReportsAreOwn

Due(i, v) ==
    /\ definition[i].version = v /\ definition[i].status \in Live
    /\ <<i, v>> \in reached /\ bound[i]

\* A due definition of the bound account is carried out, after a restart too.
DueIsExecuted == \A i \in Ids, v \in Versions : Due(i, v) ~> ~Due(i, v)

\* What dispatchDue does give: a due definition is carried out, across crashes,
\* cancellations and account changes, as long as no version falls due while
\* the running map still has another version of its id.
DueIsExecutedAlone ==
    [](\A i \in Ids, v \in Versions : Due(i, v) => running[i] \in {0, v}) => DueIsExecuted

=============================================================================
