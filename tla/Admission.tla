----------------------------- MODULE Admission -----------------------------
(***************************************************************************)
(* Server/Intent/Admission.go: one slot per admission class, granted to    *)
(* the best waiter once the class's lane is available.  acquire appends a  *)
(* waiter and then sleeps in a select; a release, the waiter's own timer   *)
(* or its cancelled context wakes it.  Everything under manager.mu is one  *)
(* step; the clock may move, and other callers may run, between two steps. *)
(***************************************************************************)
EXTENDS Runtime

CONSTANTS
    Classes,     \* admission classes
    NoClass,     \* a plan without an admission
    Request,     \* [Ops -> [class, tier, deadline, weight, priority]]
    AgingTicks,  \* admissionAgingInterval
    MaxBonus     \* the cap of the aging bonus

NoDeadline == 0
NoTimer == -1
NoWaiter == 0

\* What admissionTier makes of an actor: automation and background work, the
\* scheduler, everybody else.
Tiers == {1, 3, 4}

RequestFields ==
    [class : Classes \cup {NoClass}, tier : Tiers, deadline : Nat, weight : Nat, priority : Nat]

ASSUME RequestAssumption == Request \in [Ops -> RequestFields]
ASSUME AgingAssumption == AgingTicks \in Nat \ {0} /\ MaxBonus \in Nat
ASSUME NoClassAssumption == NoClass \notin Classes

VARIABLES
    held,         \* manager.held: the operation in each class's slot, or NoOp
    nextID,       \* manager.nextID
    waiters,      \* manager.waiters: the id of each operation's waiter, or NoWaiter
    ready,        \* waiters whose ready channel is closed (granted)
    notify,       \* waiters with a token in their notify channel
    timer,        \* the instant each waiter's timer is set to, or NoTimer
    submittedAt,  \* receipt.SubmittedAt
    availableAt,  \* Router.NextAllowed of each class's lane
    ctxDone       \* operations whose execution context is cancelled

admissionVars == <<held, nextID, waiters, ready, notify, timer, submittedAt, availableAt, ctxDone>>

Class(o) == Request[o].class
Admitted(o) == Class(o) # NoClass

AdmissionTypeOK ==
    /\ held \in [Classes -> Ops \cup {NoOp}]
    /\ nextID \in Nat
    /\ waiters \in [Ops -> Nat]
    /\ {ready, notify, ctxDone} \subseteq SUBSET Ops
    /\ timer \in [Ops -> Instants \cup {NoTimer}]
    /\ submittedAt \in [Ops -> Instants]
    /\ availableAt \in [Classes -> Instants]

AdmissionInit ==
    /\ held = [c \in Classes |-> NoOp]
    /\ nextID = 0
    /\ waiters = [o \in Ops |-> NoWaiter]
    /\ ready = {} /\ notify = {} /\ ctxDone = {}
    /\ timer = [o \in Ops |-> NoTimer]
    /\ submittedAt = [o \in Ops |-> 0]
    /\ availableAt = [c \in Classes |-> 0]

-----------------------------------------------------------------------------
(* The order among waiters                                                 *)

\* A tier-1 waiter gains one unit of weight per aging interval.
effectiveWeight(w, t) ==
    LET age == IF t > w.submittedAt THEN t - w.submittedAt ELSE 0
        bonus == age \div AgingTicks
    IN w.weight + (IF bonus > MaxBonus THEN MaxBonus ELSE bonus)

deadlineBefore(l, r) ==
    /\ l.deadline # NoDeadline
    /\ r.deadline = NoDeadline \/ l.deadline < r.deadline

\* admissionWaiterBefore: tier, deadline, effective weight (automation only),
\* priority, submission time, id.
before(l, r, t) ==
    \/ l.tier > r.tier
    \/ /\ l.tier = r.tier
       /\ \/ deadlineBefore(l, r)
          \/ /\ l.deadline = r.deadline
             /\ \/ l.tier = 1 /\ effectiveWeight(l, t) > effectiveWeight(r, t)
                \/ /\ l.tier = 1 => effectiveWeight(l, t) = effectiveWeight(r, t)
                   /\ \/ l.priority > r.priority
                      \/ /\ l.priority = r.priority
                         /\ \/ l.submittedAt < r.submittedAt
                            \/ l.submittedAt = r.submittedAt /\ l.id < r.id

\* The waiter of o among ws as the order sees it.
waiter(ws, o) ==
    [tier |-> Request[o].tier, deadline |-> Request[o].deadline,
     weight |-> Request[o].weight, priority |-> Request[o].priority,
     submittedAt |-> submittedAt[o], id |-> ws[o]]

-----------------------------------------------------------------------------
(* dispatchLocked, release and the loop of acquire                         *)

Waiting(ws) == {o \in Ops : ws[o] # NoWaiter}

Without(ws, gone) == [o \in Ops |-> IF o \in gone THEN NoWaiter ELSE ws[o]]

\* The waiter dispatchLocked selects for a class, if the class can be granted.
selected(ws, h, c) ==
    LET mine == {o \in Waiting(ws) : Class(o) = c} IN
    IF h[c] # NoOp \/ availableAt[c] > now THEN {}
    ELSE {o \in mine : \A p \in mine \ {o} : before(waiter(ws, o), waiter(ws, p), now)}

\* dispatchLocked on the waiters ws, the slots h and the granted r: drop the cancelled
\* waiters, then grant every free and available class to its best waiter.
dispatchLocked(ws, h, r) ==
    LET live == Without(ws, ctxDone)
        granted == UNION {selected(live, h, c) : c \in Classes}
    IN /\ waiters' = Without(live, granted)
       /\ held' = [c \in Classes |->
                     IF selected(live, h, c) # {} THEN CHOOSE o \in selected(live, h, c) : TRUE
                     ELSE h[c]]
       /\ ready' = r \cup granted

\* acquire up to its loop.
acquire(o) ==
    /\ nextID' = nextID + 1
    /\ dispatchLocked([waiters EXCEPT ![o] = nextID + 1], held, ready)
    /\ UNCHANGED <<notify, timer, submittedAt, availableAt, ctxDone>>

\* The head of the loop (nextWakeLocked): a timer for the instant the class's
\* lane opens, unless the slot is taken or the lane is open already.
nextWake(o) ==
    /\ timer' = [timer EXCEPT ![o] =
          IF o \in ready \/ o \in ctxDone \/ availableAt[Class(o)] <= now
             \/ held[Class(o)] # NoOp
          THEN NoTimer ELSE availableAt[Class(o)]]
    /\ UNCHANGED <<held, nextID, waiters, ready, notify, submittedAt, availableAt, ctxDone>>

\* The notify case of the select.
notified(o) ==
    /\ o \in notify
    /\ notify' = notify \ {o}
    /\ timer' = [timer EXCEPT ![o] = NoTimer]
    /\ UNCHANGED <<held, nextID, waiters, ready, submittedAt, availableAt, ctxDone>>

\* The timer case of the select.
timerFires(o) ==
    /\ timer[o] # NoTimer /\ timer[o] <= now
    /\ timer' = [timer EXCEPT ![o] = NoTimer]
    /\ dispatchLocked(waiters, held, ready)
    /\ UNCHANGED <<nextID, notify, submittedAt, availableAt, ctxDone>>

\* MUTANT: nobody is notified of the release.
release_Silent(o) ==
    LET freed == [c \in Classes |-> IF held[c] = o THEN NoOp ELSE held[c]]
    IN /\ dispatchLocked(Without(waiters, {o}), freed, ready \ {o})
       /\ notify' = notify \ {o}
       /\ timer' = [timer EXCEPT ![o] = NoTimer]
       /\ UNCHANGED <<nextID, submittedAt, availableAt, ctxDone>>

\* The release function of a waiter: free the slot if it is this waiter's,
\* leave the queue, dispatch, and wake everybody who still waits.
release(o) ==
    LET freed == [c \in Classes |-> IF held[c] = o THEN NoOp ELSE held[c]]
    IN /\ dispatchLocked(Without(waiters, {o}), freed, ready \ {o})
       /\ notify' = (notify \cup Waiting(waiters')) \ {o}
       /\ timer' = [timer EXCEPT ![o] = NoTimer]
       /\ UNCHANGED <<nextID, submittedAt, availableAt, ctxDone>>
=============================================================================
