------------------------------- MODULE Claims -------------------------------
(***************************************************************************)
(* The claim manager of the intent engine (Server/Intent/Claims.go): the   *)
(* lock that keeps operations with overlapping effects apart.              *)
(*                                                                         *)
(* A caller is one goroutine that calls acquireResources again and again.  *)
(* The manager's mutex makes each of the sections between Lock and Unlock  *)
(* one step; between the sections a caller sits in acquireResources' final *)
(* select, where its context may be cancelled at any moment.               *)
(***************************************************************************)
EXTENDS ResourceKeys

CONSTANTS
    Callers,       \* the goroutines that execute operations
    Requests,      \* the normalized resource lists a plan may ask for
    Priorities,    \* the priorities a request may carry
    Deadlines,     \* ranks of context deadlines; NoDeadline is "none"
    MaxPriority    \* Outbound.MaximumPriority

NoDeadline == 0

ASSUME MaxPriorityAssumption == MaxPriority \in Nat
ASSUME PrioritiesAssumption == Priorities \subseteq 1..MaxPriority
ASSUME DeadlinesAssumption == Deadlines \subseteq Nat /\ NoDeadline \in Deadlines

VARIABLES
    pc,         \* where each caller is: "idle", "select" or "holding"
    want,       \* the resources of a caller's current request
    aged,       \* AgedPriority of a caller's waiter at this moment
    deadline,   \* the deadline rank of its context
    ahead,      \* the waiters whose id is smaller than the caller's
    waiters,    \* callers with an entry in manager.waiters
    held,       \* callers with an entry in manager.held
    cancelled   \* callers whose request context is done

vars == <<pc, want, aged, deadline, ahead, waiters, held, cancelled>>

TypeOK ==
    /\ pc \in [Callers -> {"idle", "select", "holding"}]
    /\ want \in [Callers -> Requests \cup {{}}]
    /\ aged \in [Callers -> 0..MaxPriority]
    /\ deadline \in [Callers -> Deadlines]
    /\ ahead \in [Callers -> SUBSET Callers]
    /\ waiters \subseteq Callers
    /\ held \subseteq Callers
    /\ cancelled \subseteq Callers

Init ==
    /\ pc = [c \in Callers |-> "idle"]
    /\ want = [c \in Callers |-> {}]
    /\ aged = [c \in Callers |-> 0]
    /\ deadline = [c \in Callers |-> NoDeadline]
    /\ ahead = [c \in Callers |-> {}]
    /\ waiters = {}
    /\ held = {}
    /\ cancelled = {}

-----------------------------------------------------------------------------
(* dispatchLocked                                                          *)

\* claimWaiterBeforeAt: aged priority, then the earlier deadline (none comes
\* last), then the smaller id.  The arguments carry the waiter attributes the
\* pass sees, which for an acquire include the entry it has just appended.
claimWaiterBefore(ag, dl, ah, v, w) ==
    \/ ag[v] > ag[w]
    \/ /\ ag[v] = ag[w]
       /\ dl[v] # dl[w]
       /\ dl[v] # NoDeadline
       /\ dl[w] = NoDeadline \/ dl[v] < dl[w]
    \/ /\ ag[v] = ag[w]
       /\ dl[v] = dl[w]
       /\ v \in ah[w]

\* Mutant: holders are not consulted.
Granted_IgnoresHolders(live, hd, wt, ag, dl, ah) ==
    {w \in live : \A v \in live :
        claimWaiterBefore(ag, dl, ah, v, w) => ~resourcesOverlap(wt[w], wt[v])}

\* Mutant: a waiter that was passed over reserves nothing.
Granted_NoReservation(live, hd, wt, ag, dl, ah) ==
    {w \in live :
        /\ \A h \in hd : ~resourcesOverlap(wt[w], wt[h])
        /\ \A v \in live : /\ claimWaiterBefore(ag, dl, ah, v, w)
                           /\ \A h \in hd : ~resourcesOverlap(wt[v], wt[h])
                           => ~resourcesOverlap(wt[w], wt[v])}

\* The waiters one pass grants.  The pass walks the live waiters in order and
\* grants one unless its resources overlap a holder's or those of an earlier
\* waiter it has passed over.  An earlier live waiter is by then either a
\* holder or passed over, so both cases are "an earlier live waiter".
Granted(live, hd, wt, ag, dl, ah) ==
    {w \in live :
        /\ \A h \in hd : ~resourcesOverlap(wt[w], wt[h])
        /\ \A v \in live :
              claimWaiterBefore(ag, dl, ah, v, w) => ~resourcesOverlap(wt[w], wt[v])}

\* One pass over the queue q with holders hd: cancelled waiters are dropped,
\* granted ones move to held, the others stay.  Departed waiters leave every
\* ahead set, because their id is never compared again.
dispatchLocked(q, hd, wt, ag, dl, ah) ==
    LET live    == q \ cancelled
        granted == Granted(live, hd, wt, ag, dl, ah)
        remaining == live \ granted
    IN  /\ waiters' = remaining
        /\ held' = hd \cup granted
        /\ ahead' = [c \in Callers |-> IF c \in remaining THEN ah[c] \cap remaining ELSE {}]

-----------------------------------------------------------------------------
(* acquireResources and release                                            *)

\* The first critical section of acquireResources: append a waiter with a
\* fresh id, then dispatch.
acquireResources(c) ==
    /\ pc[c] = "idle"
    /\ \E r \in Requests \ {{}}, p \in Priorities, d \in Deadlines :
          /\ want' = [want EXCEPT ![c] = r]
          /\ aged' = [aged EXCEPT ![c] = p]
          /\ deadline' = [deadline EXCEPT ![c] = d]
          /\ pc' = [pc EXCEPT ![c] = "select"]
          /\ dispatchLocked(waiters \cup {c}, held, want', aged', deadline',
                            [ahead EXCEPT ![c] = waiters])
    /\ UNCHANGED cancelled

\* A plan without resources claims nothing; its release does nothing either.
acquireNothing(c) ==
    /\ pc[c] = "idle"
    /\ {} \in Requests
    /\ pc' = [pc EXCEPT ![c] = "holding"]
    /\ want' = [want EXCEPT ![c] = {}]
    /\ UNCHANGED <<aged, deadline, ahead, waiters, held, cancelled>>

\* The claimWaiter value becomes garbage once its acquisition is over.
dropWaiter(c) ==
    /\ want' = [want EXCEPT ![c] = {}]
    /\ aged' = [aged EXCEPT ![c] = 0]
    /\ deadline' = [deadline EXCEPT ![c] = NoDeadline]

\* The context of the request is cancelled or its deadline passes.
CancelContext(c) ==
    /\ pc[c] = "select"
    /\ c \notin cancelled
    /\ cancelled' = cancelled \cup {c}
    /\ UNCHANGED <<pc, want, aged, deadline, ahead, waiters, held>>

\* The select receives from ready and finds the context alive: the caller
\* goes on to execute its plan.  The engine ends the wait context here
\* (cancelClaimWait); a granted claim no longer looks at it.
takeReady(c) ==
    /\ pc[c] = "select"
    /\ c \in held
    /\ c \notin cancelled
    /\ pc' = [pc EXCEPT ![c] = "holding"]
    /\ UNCHANGED <<want, aged, deadline, ahead, waiters, held, cancelled>>

\* Mutant: a cancelled waiter leaves without a dispatch pass.
abandonWait_NoDispatch(c) ==
    /\ pc[c] = "select"
    /\ c \in cancelled
    /\ pc' = [pc EXCEPT ![c] = "idle"]
    /\ cancelled' = cancelled \ {c}
    /\ waiters' = waiters \ {c}
    /\ held' = held \ {c}
    /\ ahead' = [x \in Callers |-> IF x = c THEN {} ELSE ahead[x] \ {c}]
    /\ dropWaiter(c)

\* The select sees a finished context.  A waiter that was granted meanwhile
\* releases; one that was not (whether still queued or already dropped by a
\* pass) is removed.  Both ends dispatch.
abandonWait(c) ==
    /\ pc[c] = "select"
    /\ c \in cancelled
    /\ pc' = [pc EXCEPT ![c] = "idle"]
    /\ cancelled' = cancelled \ {c}
    /\ dispatchLocked(waiters \ {c}, held \ {c}, want, aged, deadline, ahead)
    /\ dropWaiter(c)

\* The release function, run at most once per grant.
release(c) ==
    /\ pc[c] = "holding"
    /\ pc' = [pc EXCEPT ![c] = "idle"]
    /\ IF c \in held
       THEN dispatchLocked(waiters, held \ {c}, want, aged, deadline, ahead)
       ELSE UNCHANGED <<ahead, waiters, held>>
    /\ dropWaiter(c)
    /\ UNCHANGED cancelled

\* Mutants: a bonus without the cap, and no bonus at all.
Age_Uncapped ==
    /\ waiters # {}
    /\ aged' = [c \in Callers |-> IF c \in waiters THEN aged[c] + 1 ELSE aged[c]]
    /\ UNCHANGED <<pc, want, deadline, ahead, waiters, held, cancelled>>
Age_Never == UNCHANGED vars

\* One priorityAgingInterval passes: every waiter gains a point up to the cap.
\* Nothing is dispatched; the new order counts from the next pass on.
Age ==
    /\ \E c \in waiters : aged[c] < MaxPriority
    /\ aged' = [c \in Callers |-> IF c \in waiters /\ aged[c] < MaxPriority
                                  THEN aged[c] + 1 ELSE aged[c]]
    /\ UNCHANGED <<pc, want, deadline, ahead, waiters, held, cancelled>>

Next ==
    \/ \E c \in Callers :
          \/ acquireResources(c) \/ acquireNothing(c) \/ CancelContext(c)
          \/ takeReady(c) \/ abandonWait(c) \/ release(c)
    \/ Age

\* An operation that holds its claims finishes (every step it runs is bounded
\* by a timeout), a select with a ready branch proceeds, and time passes.
Fairness ==
    /\ \A c \in Callers :
          WF_vars(takeReady(c)) /\ WF_vars(abandonWait(c)) /\ WF_vars(release(c))
    /\ WF_vars(Age)

Spec == Init /\ [][Next]_vars /\ Fairness

-----------------------------------------------------------------------------
(* Properties                                                              *)

\* Two operations that hold claims at the same time never have overlapping
\* resources: the reason the claim manager exists.
NoOverlap ==
    \A c, d \in held : c # d => ~resourcesOverlap(want[c], want[d])

\* Operations that really execute (their acquireResources has returned) with
\* a claim are covered by held: nobody runs on a claim that was released or
\* handed to somebody else.
ExecutingIsCovered ==
    \A c \in Callers : pc[c] = "holding" /\ want[c] # {} => c \in held

\* Work is exclusive: whoever executes holds a claim that still stands, and no
\* two standing claims overlap (acquireResources, dispatchLocked, release).
WorkIsExclusive == NoOverlap /\ ExecutingIsCovered

\* No lost wake-up: a group of waiters that no other waiter conflicts with
\* has a member that a current holder keeps out.  If a section forgot to
\* dispatch, or a cancelled waiter could keep its reservation after leaving,
\* some group would wait for nobody.
NoLostWakeup ==
    \A S \in (SUBSET waiters) \ {{}} :
        (\A w \in S, v \in waiters \ S : ~resourcesOverlap(want[w], want[v]))
        => \E w \in S, h \in held : resourcesOverlap(want[w], want[h])

\* Nobody jumps the queue past an aged request: while a live waiter stands at
\* the priority cap, a conflicting caller that came after it, with no better
\* deadline, is not granted first.
NoOvertakingAtCap ==
    [][\A v \in (waiters \cap waiters') \ cancelled, w \in held' \ held :
          /\ aged[v] = MaxPriority
          /\ deadline[v] = deadline'[w]
          /\ w \notin ahead[v]
          => ~resourcesOverlap(want[v], want'[w])]_vars

\* Aging defeats starvation: a request whose context stays alive is granted
\* in the end, whatever priorities the others carry (Outbound.AgedPriority).
NoStarvation ==
    \A c \in Callers : c \in waiters ~> c \notin waiters

\* What dispatchLocked's comparison does give: no request starves once the
\* contexts that acquireResources sees stop carrying deadlines.
FairWithoutDeadlines ==
    <>[](\A c \in Callers : deadline[c] = NoDeadline) => NoStarvation

=============================================================================
