---------------------------- MODULE ClaimsProofs ----------------------------
(***************************************************************************)
(* Mutual exclusion of conflicting operations, no lost wake-up, and        *)
(* that nobody is overtaken at the priority cap, for every set of callers, *)
(* requests, priorities and deadlines.                                     *)
(***************************************************************************)
EXTENDS Claims, TLAPS, WellFoundedInduction, FiniteSetTheorems

\* Overlap does not depend on which of two resource lists is named first,
\* although resourceKeysOverlap treats parent and child differently.
LEMMA OverlapSymmetric ==
    ASSUME NEW L, NEW R, resourcesOverlap(L, R)
    PROVE  resourcesOverlap(R, L)
<1>1. PICK a \in L, b \in R : resourceKeysOverlap(a, b)
  BY DEF resourcesOverlap
<1>2. resourceKeysOverlap(b, a)
  BY <1>1 DEF resourceKeysOverlap, AccountCovers, SamePlace, DimensionsMeet,
              dimensionsOverlap
<1>3. QED
  BY <1>1, <1>2 DEF resourcesOverlap

\* Waiter ids are compared in a total order.
Ordered(q, ah) == \A v, w \in q : v # w => v \in ah[w] \/ w \in ah[v]

\* The claim waiters are sorted totally: of two queued waiters, one comes
\* before the other (claimWaiterBeforeAt falls back to the id).
LEMMA BeforeTotal ==
    ASSUME NEW q, NEW ag, NEW dl, NEW ah, Ordered(q, ah),
           NEW v \in q, NEW w \in q, v # w,
           ag[v] \in Nat, ag[w] \in Nat, dl[v] \in Nat, dl[w] \in Nat
    PROVE  claimWaiterBefore(ag, dl, ah, v, w) \/ claimWaiterBefore(ag, dl, ah, w, v)
BY DEF Ordered, claimWaiterBefore, NoDeadline

\* The inductive invariant: who is queued or holds matches where the callers
\* are, the ids order the queue, and the holders are pairwise compatible.
Placed ==
    /\ waiters \cap held = {}
    /\ \A c \in waiters : pc[c] = "select"
    /\ \A c \in held : pc[c] # "idle"

IInv == TypeOK /\ Placed /\ Ordered(waiters, ahead) /\ NoOverlap /\ ExecutingIsCovered

\* What one dispatch pass establishes, whatever live queue and holders it
\* starts from: old and new holders together are compatible.
LEMMA GrantedCompatible ==
    ASSUME NEW live, NEW hd, NEW wt, NEW ag, NEW dl, NEW ah,
           \A c \in live : ag[c] \in Nat /\ dl[c] \in Nat,
           Ordered(live, ah),
           \A c, d \in hd : c # d => ~resourcesOverlap(wt[c], wt[d])
    PROVE  \A c, d \in hd \cup Granted(live, hd, wt, ag, dl, ah) :
               c # d => ~resourcesOverlap(wt[c], wt[d])
<1> DEFINE granted == Granted(live, hd, wt, ag, dl, ah)
<1>1. granted \subseteq live
  BY DEF Granted
<1>2. ASSUME NEW x \in granted, NEW y \in hd
      PROVE  ~resourcesOverlap(wt[x], wt[y]) /\ ~resourcesOverlap(wt[y], wt[x])
  BY <1>2, OverlapSymmetric DEF Granted
<1>3. ASSUME NEW x \in granted, NEW y \in granted, x # y
      PROVE  ~resourcesOverlap(wt[x], wt[y])
  <2>1. claimWaiterBefore(ag, dl, ah, x, y) \/ claimWaiterBefore(ag, dl, ah, y, x)
    BY <1>1, <1>3, BeforeTotal
  <2>2. CASE claimWaiterBefore(ag, dl, ah, y, x)
    BY <1>1, <2>2 DEF Granted
  <2>3. CASE claimWaiterBefore(ag, dl, ah, x, y)
    BY <1>1, <2>3, OverlapSymmetric DEF Granted
  <2>4. QED
    BY <2>1, <2>2, <2>3
<1>4. QED
  BY <1>2, <1>3

LEMMA InitIInv == Init => IInv
BY MaxPriorityAssumption, DeadlinesAssumption
   DEF Init, IInv, TypeOK, Placed, Ordered, NoOverlap, ExecutingIsCovered, NoDeadline

\* Aged priorities and deadline ranks are numbers.
LEMMA RanksAreNumbers ==
    /\ \A n \in 0..MaxPriority : n \in Nat
    /\ \A n \in Deadlines : n \in Nat
BY MaxPriorityAssumption, DeadlinesAssumption

\* A new waiter joins behind everybody and the queue is dispatched.
LEMMA AcquireIInv ==
    ASSUME IInv, NEW c \in Callers, acquireResources(c) PROVE IInv'
<1>1. PICK r \in Requests \ {{}}, p \in Priorities, d \in Deadlines :
          /\ want' = [want EXCEPT ![c] = r]
          /\ aged' = [aged EXCEPT ![c] = p]
          /\ deadline' = [deadline EXCEPT ![c] = d]
          /\ pc' = [pc EXCEPT ![c] = "select"]
          /\ dispatchLocked(waiters \cup {c}, held, want', aged', deadline',
                            [ahead EXCEPT ![c] = waiters])
  BY DEF acquireResources
<1>2. pc[c] = "idle" /\ cancelled' = cancelled
  BY DEF acquireResources
<1>3. c \notin waiters /\ c \notin held
  BY <1>2 DEF IInv, Placed
<1> DEFINE q == waiters \cup {c}
           ah == [ahead EXCEPT ![c] = waiters]
<1>4. q \in SUBSET Callers /\ held \in SUBSET Callers /\ ah \in [Callers -> SUBSET Callers]
  BY DEF IInv, TypeOK
<1>5. /\ want' \in [Callers -> Requests \cup {{}}]
      /\ aged' \in [Callers -> 0..MaxPriority]
      /\ deadline' \in [Callers -> Deadlines]
      /\ pc' \in [Callers -> {"idle", "select", "holding"}]
  BY <1>1, MaxPriorityAssumption, PrioritiesAssumption DEF IInv, TypeOK
<1>6. \A x \in q : aged'[x] \in Nat /\ deadline'[x] \in Nat
  BY <1>4, <1>5, RanksAreNumbers
<1>7. Ordered(q, ah)
  BY <1>3, <1>4 DEF IInv, TypeOK, Ordered
<1>8. q \cap held = {}
  BY <1>3 DEF IInv, Placed
<1>9. \A x, y \in held : x # y => ~resourcesOverlap(want'[x], want'[y])
  BY <1>1, <1>3 DEF IInv, TypeOK, NoOverlap
<1>10. /\ waiters' \subseteq q
       /\ held \subseteq held'
       /\ held' \subseteq held \cup q
       /\ ahead' \in [Callers -> SUBSET Callers]
       /\ waiters' \cap held' = {}
       /\ Ordered(waiters', ahead')
       /\ \A x, y \in held' : x # y => ~resourcesOverlap(want'[x], want'[y])
  <2> DEFINE live == q \ cancelled
             granted == Granted(live, held, want', aged', deadline', ah)
  <2>1. /\ waiters' = live \ granted
        /\ held' = held \cup granted
        /\ ahead' = [x \in Callers |-> IF x \in live \ granted
                                        THEN ah[x] \cap (live \ granted) ELSE {}]
    BY <1>1 DEF dispatchLocked
  <2>2. granted \subseteq live /\ live \subseteq q
    BY DEF Granted
  <2>3. Ordered(live, ah)
    BY <1>7 DEF Ordered
  <2>4. \A x, y \in held' : x # y => ~resourcesOverlap(want'[x], want'[y])
    <3> HIDE DEF q, ah, live
    <3>1. \A x \in live : aged'[x] \in Nat /\ deadline'[x] \in Nat
      BY <1>6, <2>2
    <3>2. QED
      BY <1>9, <2>1, <2>3, <3>1, GrantedCompatible
  <2>5. Ordered(waiters', ahead')
    <3> HIDE DEF live, granted
    <3>1. QED
      BY <1>4, <2>1, <2>2, <2>3 DEF Ordered
  <2>6. waiters' \cap held' = {}
    BY <1>8, <2>1, <2>2
  <2>7. ahead' \in [Callers -> SUBSET Callers]
    <3> HIDE DEF live, granted
    <3>1. QED
      BY <1>4, <2>1, <2>2
  <2>8. QED
    BY <2>1, <2>2, <2>4, <2>5, <2>6, <2>7
<1>11. TypeOK'
  BY <1>2, <1>4, <1>5, <1>10 DEF IInv, TypeOK
<1>12. Placed'
  BY <1>1, <1>10 DEF IInv, TypeOK, Placed
<1>13. NoOverlap'
  BY <1>10 DEF NoOverlap
<1>14. ExecutingIsCovered'
  BY <1>1, <1>10 DEF IInv, TypeOK, ExecutingIsCovered
<1>15. QED
  BY <1>10, <1>11, <1>12, <1>13, <1>14 DEF IInv

\* Leaving: c, whose grant or queue entry is being given up, is taken out of
\* both sets and the queue is dispatched.
LEMMA LeaveIInv ==
    ASSUME IInv, NEW c \in Callers,
           pc' = [pc EXCEPT ![c] = "idle"],
           cancelled' \subseteq Callers,
           dispatchLocked(waiters \ {c}, held \ {c}, want, aged, deadline, ahead),
           dropWaiter(c)
    PROVE  IInv'
<1> DEFINE q == waiters \ {c}
           hd == held \ {c}
<1>1. q \in SUBSET Callers /\ hd \in SUBSET Callers /\ ahead \in [Callers -> SUBSET Callers]
  BY DEF IInv, TypeOK
<1>2. /\ want' \in [Callers -> Requests \cup {{}}]
      /\ aged' \in [Callers -> 0..MaxPriority]
      /\ deadline' \in [Callers -> Deadlines]
      /\ pc' \in [Callers -> {"idle", "select", "holding"}]
  BY MaxPriorityAssumption, DeadlinesAssumption DEF IInv, TypeOK, dropWaiter
<1>3. \A x \in q : aged[x] \in Nat /\ deadline[x] \in Nat
  BY <1>1, RanksAreNumbers DEF IInv, TypeOK
<1>4. Ordered(q, ahead)
  BY DEF IInv, Ordered
<1>5. q \cap hd = {}
  BY DEF IInv, Placed
<1>6. \A x, y \in hd : x # y => ~resourcesOverlap(want[x], want[y])
  BY DEF IInv, NoOverlap
<1>7. /\ waiters' \subseteq q
      /\ hd \subseteq held'
      /\ held' \subseteq hd \cup q
      /\ ahead' \in [Callers -> SUBSET Callers]
      /\ waiters' \cap held' = {}
      /\ Ordered(waiters', ahead')
      /\ \A x, y \in held' : x # y => ~resourcesOverlap(want[x], want[y])
  <2> DEFINE live == q \ cancelled
             granted == Granted(live, hd, want, aged, deadline, ahead)
  <2>1. /\ waiters' = live \ granted
        /\ held' = hd \cup granted
        /\ ahead' = [x \in Callers |-> IF x \in live \ granted
                                        THEN ahead[x] \cap (live \ granted) ELSE {}]
    BY DEF dispatchLocked
  <2>2. granted \subseteq live /\ live \subseteq q
    BY DEF Granted
  <2>3. Ordered(live, ahead)
    BY <1>4 DEF Ordered
  <2>4. \A x, y \in held' : x # y => ~resourcesOverlap(want[x], want[y])
    <3> HIDE DEF q, hd, live
    <3>1. \A x \in live : aged[x] \in Nat /\ deadline[x] \in Nat
      BY <1>3, <2>2
    <3>2. QED
      BY <1>6, <2>1, <2>3, <3>1, GrantedCompatible
  <2>5. Ordered(waiters', ahead')
    <3> HIDE DEF live, granted
    <3>1. QED
      BY <1>1, <2>1, <2>2, <2>3 DEF Ordered
  <2>6. waiters' \cap held' = {}
    BY <1>5, <2>1, <2>2
  <2>7. ahead' \in [Callers -> SUBSET Callers]
    <3> HIDE DEF live, granted
    <3>1. QED
      BY <1>1, <2>1, <2>2
  <2>8. QED
    BY <2>1, <2>2, <2>4, <2>5, <2>6, <2>7
<1>8. TypeOK'
  BY <1>1, <1>2, <1>7 DEF TypeOK
<1>9. Placed'
  BY <1>7 DEF IInv, TypeOK, Placed
<1>10. c \notin held' /\ \A x \in Callers : x # c => want'[x] = want[x]
  BY <1>7 DEF IInv, TypeOK, dropWaiter
<1>11. NoOverlap'
  BY <1>1, <1>7, <1>10 DEF NoOverlap
<1>12. ExecutingIsCovered'
  BY <1>7, <1>10 DEF IInv, TypeOK, ExecutingIsCovered
<1>13. QED
  BY <1>7, <1>8, <1>9, <1>11, <1>12 DEF IInv

LEMMA NextIInv == IInv /\ [Next]_vars => IInv'
<1> SUFFICES ASSUME IInv, [Next]_vars PROVE IInv'
  OBVIOUS
<1> USE MaxPriorityAssumption, DeadlinesAssumption
<1>1. CASE UNCHANGED vars
  BY <1>1 DEF IInv, TypeOK, Placed, Ordered, NoOverlap, ExecutingIsCovered, vars
<1>2. ASSUME NEW c \in Callers, acquireResources(c) PROVE IInv'
  BY <1>2, AcquireIInv
<1>3. ASSUME NEW c \in Callers, acquireNothing(c) PROVE IInv'
  <2>1. c \notin held /\ \A x \in Callers : x # c => want'[x] = want[x]
    BY <1>3 DEF acquireNothing, IInv, TypeOK, Placed
  <2>2. NoOverlap'
    BY <1>3, <2>1 DEF acquireNothing, IInv, TypeOK, NoOverlap
  <2>3. TypeOK' /\ Placed' /\ Ordered(waiters, ahead)' /\ ExecutingIsCovered'
    BY <1>3 DEF acquireNothing, IInv, TypeOK, Placed, Ordered, ExecutingIsCovered
  <2>4. QED
    BY <2>2, <2>3 DEF IInv
<1>4. ASSUME NEW c \in Callers, CancelContext(c) PROVE IInv'
  BY <1>4 DEF CancelContext, IInv, TypeOK, Placed, Ordered, NoOverlap, ExecutingIsCovered
<1>5. ASSUME NEW c \in Callers, takeReady(c) PROVE IInv'
  BY <1>5 DEF takeReady, IInv, TypeOK, Placed, Ordered, NoOverlap, ExecutingIsCovered
<1>6. ASSUME NEW c \in Callers, abandonWait(c) PROVE IInv'
  <2>1. cancelled' \subseteq Callers
    BY <1>6 DEF abandonWait, IInv, TypeOK
  <2>2. QED
    BY <1>6, <2>1, LeaveIInv DEF abandonWait
<1>7. ASSUME NEW c \in Callers, release(c) PROVE IInv'
  <2>1. c \notin waiters /\ cancelled' \subseteq Callers
    BY <1>7 DEF release, IInv, TypeOK, Placed
  <2>2. CASE c \in held
    <3>1. waiters \ {c} = waiters
      BY <2>1
    <3>2. dispatchLocked(waiters \ {c}, held \ {c}, want, aged, deadline, ahead)
      BY <1>7, <2>2, <3>1 DEF release
    <3>3. QED
      BY <1>7, <2>1, <3>2, LeaveIInv DEF release
  <2>3. CASE c \notin held
    <3>1. NoOverlap'
      BY <1>7, <2>3 DEF release, dropWaiter, IInv, TypeOK, NoOverlap
    <3>2. TypeOK' /\ Placed' /\ Ordered(waiters, ahead)' /\ ExecutingIsCovered'
      BY <1>7, <2>1, <2>3 DEF release, dropWaiter, IInv, TypeOK, Placed, Ordered,
                              ExecutingIsCovered
    <3>3. QED
      BY <3>1, <3>2 DEF IInv
  <2>4. QED
    BY <2>2, <2>3
<1>8. CASE Age
  BY <1>8 DEF Age, IInv, TypeOK, Placed, Ordered, NoOverlap, ExecutingIsCovered
<1>9. QED
  BY <1>1, <1>2, <1>3, <1>4, <1>5, <1>6, <1>7, <1>8 DEF Next

\* The state of the claim manager is well formed in every execution of
\* acquireResources, release and the context cancellations around them.
THEOREM ClaimsTypeCorrect == Spec => []TypeOK
<1>1. IInv => TypeOK
  BY DEF IInv
<1>2. QED
  BY <1>1, InitIInv, NextIInv, PTL DEF Spec

\* Two callers never hold overlapping resources at the same time, and a
\* caller that executes a plan with resources is covered by its own entry in
\* held for the whole execution, for every number of callers and every set
\* of requests (acquireResources, dispatchLocked, release).
THEOREM ClaimsExclusive == Spec => []WorkIsExclusive
<1>1. IInv => WorkIsExclusive
  BY DEF IInv, WorkIsExclusive
<1>2. QED
  BY <1>1, InitIInv, NextIInv, PTL DEF Spec

-----------------------------------------------------------------------------
(* What a dispatch pass leaves behind                                      *)

\* A set of naturals has a least member.
LEMMA LeastNatural ==
    ASSUME NEW T, T \subseteq Nat, T # {}
    PROVE  \E n \in T : \A m \in T : n <= m
<1> DEFINE R == OpToRel(<, Nat)
<1>1. IsWellFoundedOn(R, Nat)
  BY NatLessThanWellFounded
<1>2. \A x, y \in Nat : y < x => <<y, x>> \in R
  BY DEF OpToRel
<1>3. \E x \in T : \A y \in T : ~(<<y, x>> \in R)
  <2> HIDE DEF R
  <2>1. QED  BY <1>1, WFMin
<1>4. PICK x \in T : \A y \in T : ~(<<y, x>> \in R)
  BY <1>3
<1>5. \A y \in T : ~(y < x)
  <2> HIDE DEF R
  <2>1. QED  BY <1>2, <1>4
<1>6. QED
  BY <1>5

\* Ids are given out in order: who is ahead of a waiter is behind everybody
\* ahead of that one in turn, and only finitely many ids were given out.
Ranked(q, ah) ==
    /\ \A w \in q : IsFiniteSet(ah[w]) /\ w \notin ah[w]
    /\ \A v, w \in q : v \in ah[w] => ah[v] \subseteq ah[w]

\* Every group of queued waiters has a first one in dispatchLocked's order:
\* sorting compares by aged priority, then deadline, then id, and each of
\* the three has an extreme value in a finite queue.
LEMMA SomeoneIsFirst ==
    ASSUME NEW q, NEW ag, NEW dl, NEW ah, Ranked(q, ah),
           \A c \in q : ag[c] \in 0..MaxPriority /\ dl[c] \in Nat,
           NEW S \in SUBSET q, S # {}
    PROVE  \E w \in S : \A v \in S : ~claimWaiterBefore(ag, dl, ah, v, w)
<1> USE MaxPriorityAssumption
\* the highest aged priority
<1>1. \E a \in S : \A v \in S : ag[v] <= ag[a]
  <2> DEFINE T == {MaxPriority - ag[v] : v \in S}
  <2>1. T \subseteq Nat /\ T # {}
    OBVIOUS
  <2>2. PICK n \in T : \A m \in T : n <= m
    <3> HIDE DEF T
    <3>1. QED  BY <2>1, LeastNatural
  <2>3. PICK a \in S : n = MaxPriority - ag[a]
    BY <2>2
  <2>4. \A v \in S : MaxPriority - ag[a] <= MaxPriority - ag[v]
    BY <2>2, <2>3
  <2>5. QED
    BY <2>4
<1>2. PICK a \in S : \A v \in S : ag[v] <= ag[a]
  BY <1>1
<1> DEFINE top == {v \in S : ag[v] = ag[a]}
\* among them, the earliest deadline, or none at all when nobody has one
<1>3. \E b \in top : \A v \in top :
          dl[v] = dl[b] \/ dl[v] = NoDeadline \/ (dl[b] # NoDeadline /\ dl[b] <= dl[v])
  <2> DEFINE T == {dl[v] : v \in {x \in top : dl[x] # NoDeadline}}
  <2>1. CASE T = {}
    BY <2>1
  <2>2. CASE T # {}
    <3>1. T \subseteq Nat
      OBVIOUS
    <3>2. PICK n \in T : \A m \in T : n <= m
      <4> HIDE DEF T
      <4>1. QED  BY <2>2, <3>1, LeastNatural
    <3>3. PICK b \in top : n = dl[b] /\ dl[b] # NoDeadline
      BY <3>2
    <3>4. \A v \in top : dl[v] # NoDeadline => dl[b] <= dl[v]
      BY <3>2, <3>3
    <3>5. QED
      BY <3>3, <3>4
  <2>3. QED
    BY <2>1, <2>2
<1>4. PICK b \in top : \A v \in top :
          dl[v] = dl[b] \/ dl[v] = NoDeadline \/ (dl[b] # NoDeadline /\ dl[b] <= dl[v])
  BY <1>3
<1> DEFINE same == {v \in top : dl[v] = dl[b]}
\* and among those the smallest id, the one with the fewest waiters ahead
<1>5. \E w \in same : \A v \in same : v \notin ah[w]
  <2> DEFINE T == {Cardinality(ah[v]) : v \in same}
  <2>1. \A v \in same : IsFiniteSet(ah[v]) /\ Cardinality(ah[v]) \in Nat
    BY FS_CardinalityType DEF Ranked
  <2>2. T \subseteq Nat /\ T # {}
    BY <1>4, <2>1
  <2>3. PICK n \in T : \A m \in T : n <= m
    <3> HIDE DEF T
    <3>1. QED  BY <2>2, LeastNatural
  <2>4. PICK w \in same : n = Cardinality(ah[w])
    BY <2>3
  <2>5. ASSUME NEW v \in same, v \in ah[w]  PROVE FALSE
    <3>1. ah[v] \subseteq ah[w] /\ ah[v] # ah[w]
      BY <2>5 DEF Ranked
    <3>2. Cardinality(ah[v]) <= Cardinality(ah[w]) /\ Cardinality(ah[v]) # Cardinality(ah[w])
      BY <2>1, <3>1, FS_Subset
    <3>3. Cardinality(ah[w]) <= Cardinality(ah[v])
      BY <2>3, <2>4
    <3>4. QED
      BY <2>1, <3>2, <3>3
  <2>6. QED
    BY <2>4, <2>5
<1>6. PICK w \in same : \A v \in same : v \notin ah[w]
  BY <1>5
<1>7. ASSUME NEW v \in S  PROVE ~claimWaiterBefore(ag, dl, ah, v, w)
  <2>1. ag[v] <= ag[w] /\ ag[w] = ag[a] /\ dl[w] = dl[b] /\ w \in S
    BY <1>2, <1>6
  <2>2. /\ ag[v] \in Nat /\ ag[w] \in Nat
        /\ dl[v] \in Nat /\ dl[w] \in Nat
    BY <2>1
  <2>3. ag[v] = ag[w] => dl[v] = dl[w] \/ dl[v] = NoDeadline \/ (dl[w] # NoDeadline /\ dl[w] <= dl[v])
    BY <1>4, <2>1
  <2>4. ag[v] = ag[w] /\ dl[v] = dl[w] => v \notin ah[w]
    BY <1>6, <2>1
  <2>5. QED
    BY <2>1, <2>2, <2>3, <2>4 DEF claimWaiterBefore
<1>8. QED
  BY <1>6, <1>7

\* What a pass leaves in the queue waits for somebody: the first of any group
\* of remaining waiters was passed over for a holder or for a conflicting
\* earlier waiter, which the pass has granted unless it is in the group too.
LEMMA DispatchServes ==
    ASSUME NEW q \in SUBSET Callers, NEW hd, NEW wt, NEW ag, NEW dl, NEW ah,
           IsFiniteSet(q), Ranked(q, ah), ah \in [Callers -> SUBSET Callers],
           \A c \in q : ag[c] \in 0..MaxPriority /\ dl[c] \in Nat,
           dispatchLocked(q, hd, wt, ag, dl, ah)
    PROVE  /\ IsFiniteSet(waiters')
           /\ Ranked(waiters', ahead')
           /\ \A w \in waiters' : ahead'[w] \subseteq waiters'
           /\ \A S \in (SUBSET waiters') \ {{}} :
                 (\A w \in S, v \in waiters' \ S : ~resourcesOverlap(wt[w], wt[v]))
                 => \E w \in S, h \in held' : resourcesOverlap(wt[w], wt[h])
<1> DEFINE live == q \ cancelled
           granted == Granted(live, hd, wt, ag, dl, ah)
<1>1. /\ waiters' = live \ granted
      /\ held' = hd \cup granted
      /\ ahead' = [c \in Callers |-> IF c \in live \ granted
                                      THEN ah[c] \cap (live \ granted) ELSE {}]
  BY DEF dispatchLocked
<1>2. granted = {w \in live :
          /\ \A h \in hd : ~resourcesOverlap(wt[w], wt[h])
          /\ \A v \in live :
                claimWaiterBefore(ag, dl, ah, v, w) => ~resourcesOverlap(wt[w], wt[v])}
  BY DEF Granted
<1>3. waiters' \subseteq q /\ live \subseteq q
  BY <1>1
<1> HIDE DEF live, granted
<1>4. IsFiniteSet(waiters')
  BY <1>3, FS_Subset
<1>5. Ranked(waiters', ahead') /\ \A w \in waiters' : ahead'[w] \subseteq waiters'
  <2>1. \A w \in waiters' : ahead'[w] = ah[w] \cap waiters'
    BY <1>1, <1>3
  <2>2. \A w \in waiters' : IsFiniteSet(ahead'[w])
    BY <1>3, <2>1, FS_Subset DEF Ranked
  <2>3. QED
    BY <1>3, <2>1, <2>2 DEF Ranked
<1>6. ASSUME NEW S \in (SUBSET waiters') \ {{}},
             \A w \in S, v \in waiters' \ S : ~resourcesOverlap(wt[w], wt[v])
      PROVE  \E w \in S, h \in held' : resourcesOverlap(wt[w], wt[h])
  <2>1. S \in SUBSET q /\ S # {}
    BY <1>3
  <2>2. PICK w \in S : \A v \in S : ~claimWaiterBefore(ag, dl, ah, v, w)
    BY <2>1, SomeoneIsFirst
  <2>3. w \in live /\ w \notin granted
    BY <1>1
  <2>4. \/ \E h \in hd : resourcesOverlap(wt[w], wt[h])
        \/ \E v \in live : claimWaiterBefore(ag, dl, ah, v, w) /\ resourcesOverlap(wt[w], wt[v])
    BY <1>2, <2>3
  <2>5. CASE \E h \in hd : resourcesOverlap(wt[w], wt[h])
    BY <1>1, <2>5
  <2>6. ASSUME NEW v \in live, claimWaiterBefore(ag, dl, ah, v, w),
               resourcesOverlap(wt[w], wt[v])
        PROVE  v \in granted
    <3>1. v \notin S
      BY <2>2, <2>6
    <3>2. v \notin waiters'
      BY <1>6, <2>6, <3>1
    <3>3. QED
      BY <1>1, <3>2
  <2>7. QED
    BY <1>1, <2>4, <2>5, <2>6
<1>7. QED
  BY <1>4, <1>5, <1>6

\* A pass grants nobody past a conflicting waiter at the cap that arrived
\* earlier and has the same deadline.
LEMMA DispatchKeepsOrder ==
    ASSUME NEW q, NEW hd, NEW wt, NEW ag, NEW dl, NEW ah, Ordered(q, ah),
           \A c \in q : ag[c] \in 0..MaxPriority,
           dispatchLocked(q, hd, wt, ag, dl, ah),
           NEW v \in waiters', NEW w \in held', w \notin hd,
           ag[v] = MaxPriority, dl[v] = dl[w], w \notin ah[v]
    PROVE  ~resourcesOverlap(wt[v], wt[w])
<1> DEFINE live == q \ cancelled
           granted == Granted(live, hd, wt, ag, dl, ah)
<1>1. v \in live /\ v \notin granted /\ w \in granted
  BY DEF dispatchLocked
<1>2. w \in live /\ v # w
  BY <1>1 DEF Granted
<1>3. v \in ah[w]
  BY <1>1, <1>2 DEF Ordered
<1>4. claimWaiterBefore(ag, dl, ah, v, w)
  <2>1. ag[v] > ag[w] \/ ag[v] = ag[w]
    BY <1>1, <1>2, MaxPriorityAssumption
  <2>2. QED
    BY <1>3, <2>1 DEF claimWaiterBefore
<1>5. ~resourcesOverlap(wt[w], wt[v])
  BY <1>1, <1>4 DEF Granted
<1>6. QED
  BY <1>5, OverlapSymmetric

\* The claim manager's inductive invariant with what dispatching promises.
\* Departed waiters leave every ahead set.
WakeInv ==
    /\ IsFiniteSet(waiters)
    /\ Ranked(waiters, ahead)
    /\ \A w \in waiters : ahead[w] \subseteq waiters
    /\ NoLostWakeup

\* A section that dispatches ends with nobody waiting for nobody.
LEMMA DispatchWakes ==
    ASSUME NEW q \in SUBSET Callers, NEW hd, NEW wt, NEW ag, NEW dl, NEW ah,
           IsFiniteSet(q), Ranked(q, ah), ah \in [Callers -> SUBSET Callers],
           \A c \in q : ag[c] \in 0..MaxPriority /\ dl[c] \in Nat,
           dispatchLocked(q, hd, wt, ag, dl, ah),
           \A c \in hd \cup q : want'[c] = wt[c]
    PROVE  WakeInv'
<1>1. waiters' \subseteq q /\ held' \subseteq hd \cup q
  BY DEF dispatchLocked, Granted
<1>2. \A c \in waiters' \cup held' : want'[c] = wt[c]
  BY <1>1
<1>3. /\ IsFiniteSet(waiters')
      /\ Ranked(waiters', ahead')
      /\ \A w \in waiters' : ahead'[w] \subseteq waiters'
      /\ \A S \in (SUBSET waiters') \ {{}} :
            (\A w \in S, v \in waiters' \ S : ~resourcesOverlap(wt[w], wt[v]))
            => \E w \in S, h \in held' : resourcesOverlap(wt[w], wt[h])
  BY DispatchServes
<1>4. NoLostWakeup'
  <2> SUFFICES ASSUME NEW S \in (SUBSET waiters') \ {{}},
                      \A w \in S, v \in waiters' \ S : ~resourcesOverlap(want'[w], want'[v])
               PROVE  \E w \in S, h \in held' : resourcesOverlap(want'[w], want'[h])
    BY DEF NoLostWakeup
  <2>1. \A w \in S, v \in waiters' \ S : ~resourcesOverlap(wt[w], wt[v])
    BY <1>2
  <2>2. PICK w \in S, h \in held' : resourcesOverlap(wt[w], wt[h])
    BY <1>3, <2>1
  <2>3. QED
    BY <1>2, <2>2
<1>5. QED
  BY <1>3, <1>4 DEF WakeInv

\* A step that leaves queue, ids, holders and their requests alone.
LEMMA QuietWakes ==
    ASSUME WakeInv, waiters' = waiters, held' = held, ahead' = ahead,
           \A c \in waiters \cup held : want'[c] = want[c]
    PROVE  WakeInv'
<1>1. NoLostWakeup'
  BY DEF WakeInv, NoLostWakeup
<1>2. QED
  BY <1>1 DEF WakeInv

\* The pass of a section in which c joins.
LEMMA AcquireDispatches ==
    ASSUME IInv, WakeInv, NEW c \in Callers, acquireResources(c)
    PROVE  \E ah :
             /\ ah = [ahead EXCEPT ![c] = waiters]
             /\ dispatchLocked(waiters \cup {c}, held, want', aged', deadline', ah)
             /\ \A x \in waiters \cup {c} : aged'[x] \in 0..MaxPriority /\ deadline'[x] \in Nat
             /\ IsFiniteSet(waiters \cup {c})
             /\ Ranked(waiters \cup {c}, ah)
             /\ Ordered(waiters \cup {c}, ah)
             /\ ah \in [Callers -> SUBSET Callers]
             /\ c \notin waiters \cup held
             /\ \A x \in Callers : x # c => /\ aged'[x] = aged[x]
                                            /\ deadline'[x] = deadline[x]
                                            /\ want'[x] = want[x]
<1> DEFINE ah == [ahead EXCEPT ![c] = waiters]
<1>1. PICK r \in Requests \ {{}}, p \in Priorities, d \in Deadlines :
          /\ want' = [want EXCEPT ![c] = r]
          /\ aged' = [aged EXCEPT ![c] = p]
          /\ deadline' = [deadline EXCEPT ![c] = d]
          /\ dispatchLocked(waiters \cup {c}, held, want', aged', deadline', ah)
  BY DEF acquireResources
<1>2. c \notin waiters \cup held
  BY DEF acquireResources, IInv, Placed
<1>3. p \in 0..MaxPriority /\ d \in Nat
  BY PrioritiesAssumption, DeadlinesAssumption, MaxPriorityAssumption
<1>4. \A x \in waiters \cup {c} : aged'[x] \in 0..MaxPriority /\ deadline'[x] \in Nat
  BY <1>1, <1>3, DeadlinesAssumption DEF IInv, TypeOK
<1>5. IsFiniteSet(waiters \cup {c})
  BY FS_AddElement DEF WakeInv
<1>6. ah \in [Callers -> SUBSET Callers] /\ ah[c] = waiters
      /\ \A x \in waiters : ah[x] = ahead[x]
  BY <1>2 DEF IInv, TypeOK
<1>7. Ranked(waiters \cup {c}, ah)
  <2> HIDE DEF ah
  <2>1. QED  BY <1>2, <1>6 DEF WakeInv, Ranked
<1>8. Ordered(waiters \cup {c}, ah)
  <2> HIDE DEF ah
  <2>1. QED  BY <1>2, <1>6 DEF IInv, Ordered
<1>9. \A x \in Callers : x # c => /\ aged'[x] = aged[x]
                                  /\ deadline'[x] = deadline[x]
                                  /\ want'[x] = want[x]
  BY <1>1 DEF IInv, TypeOK
<1>10. QED
  BY <1>1, <1>2, <1>4, <1>5, <1>6, <1>7, <1>8, <1>9

\* The pass of a section in which c gives its grant or queue entry up.
LEMMA LeaveDispatches ==
    ASSUME IInv, WakeInv, NEW c \in Callers
    PROVE  /\ \A x \in waiters \ {c} : aged[x] \in 0..MaxPriority /\ deadline[x] \in Nat
           /\ IsFiniteSet(waiters \ {c})
           /\ Ordered(waiters \ {c}, ahead)
           /\ Ranked(waiters \ {c}, ahead)
           /\ ahead \in [Callers -> SUBSET Callers]
<1>1. \A x \in waiters \ {c} : aged[x] \in 0..MaxPriority /\ deadline[x] \in Nat
  BY DeadlinesAssumption DEF IInv, TypeOK
<1>2. IsFiniteSet(waiters \ {c})
  BY FS_Subset DEF WakeInv
<1>3. Ordered(waiters \ {c}, ahead) /\ ahead \in [Callers -> SUBSET Callers]
  BY DEF IInv, TypeOK, Ordered
<1>4. Ranked(waiters \ {c}, ahead)
  BY DEF WakeInv, Ranked
<1>5. QED
  BY <1>1, <1>2, <1>3, <1>4

LEMMA InitWakeInv == Init => WakeInv
<1> SUFFICES ASSUME Init PROVE WakeInv
  OBVIOUS
<1>1. waiters = {}
  BY DEF Init
<1>2. QED
  BY <1>1, FS_EmptySet DEF WakeInv, Ranked, NoLostWakeup

LEMMA LeaveWakes ==
    ASSUME IInv, WakeInv, NEW c \in Callers,
           dispatchLocked(waiters \ {c}, held \ {c}, want, aged, deadline, ahead),
           dropWaiter(c)
    PROVE  WakeInv'
<1>1. waiters \ {c} \in SUBSET Callers
      /\ \A x \in (held \ {c}) \cup (waiters \ {c}) : want'[x] = want[x]
  BY DEF IInv, TypeOK, dropWaiter
<1> DEFINE q == waiters \ {c}
           hd == held \ {c}
<1>2. /\ \A x \in q : aged[x] \in 0..MaxPriority /\ deadline[x] \in Nat
      /\ IsFiniteSet(q)
      /\ Ranked(q, ahead)
      /\ ahead \in [Callers -> SUBSET Callers]
      /\ dispatchLocked(q, hd, want, aged, deadline, ahead)
  BY LeaveDispatches
<1>3. QED
  <2> HIDE DEF q, hd
  <2>1. QED  BY <1>1, <1>2, DispatchWakes DEF q, hd

LEMMA NextWakeInv == IInv /\ WakeInv /\ [Next]_vars => WakeInv'
<1> SUFFICES ASSUME IInv, WakeInv, [Next]_vars PROVE WakeInv'
  OBVIOUS
<1>1. CASE UNCHANGED vars
  BY <1>1, QuietWakes DEF vars
<1>2. ASSUME NEW c \in Callers, acquireResources(c) PROVE WakeInv'
  <2>1. PICK ah :
             /\ dispatchLocked(waiters \cup {c}, held, want', aged', deadline', ah)
             /\ \A x \in waiters \cup {c} : aged'[x] \in 0..MaxPriority /\ deadline'[x] \in Nat
             /\ IsFiniteSet(waiters \cup {c})
             /\ Ranked(waiters \cup {c}, ah)
             /\ ah \in [Callers -> SUBSET Callers]
    BY <1>2, AcquireDispatches
  <2>2. waiters \cup {c} \in SUBSET Callers
    BY DEF IInv, TypeOK
  <2>3. QED
    BY <2>1, <2>2, DispatchWakes
<1>3. ASSUME NEW c \in Callers, acquireNothing(c) PROVE WakeInv'
  <2>1. \A x \in waiters \cup held : want'[x] = want[x]
    BY <1>3 DEF acquireNothing, IInv, TypeOK, Placed
  <2>2. QED
    BY <1>3, <2>1, QuietWakes DEF acquireNothing
<1>4. ASSUME NEW c \in Callers, CancelContext(c) PROVE WakeInv'
  BY <1>4, QuietWakes DEF CancelContext
<1>5. ASSUME NEW c \in Callers, takeReady(c) PROVE WakeInv'
  BY <1>5, QuietWakes DEF takeReady
<1>6. ASSUME NEW c \in Callers, abandonWait(c) PROVE WakeInv'
  BY <1>6, LeaveWakes DEF abandonWait
<1>7. ASSUME NEW c \in Callers, release(c) PROVE WakeInv'
  <2>1. c \notin waiters
    BY <1>7 DEF release, IInv, Placed
  <2>2. CASE c \in held
    <3>1. waiters \ {c} = waiters
      BY <2>1
    <3>2. dispatchLocked(waiters \ {c}, held \ {c}, want, aged, deadline, ahead) /\ dropWaiter(c)
      BY <1>7, <2>2, <3>1 DEF release
    <3>3. QED
      BY <3>2, LeaveWakes
  <2>3. CASE c \notin held
    <3>1. \A x \in waiters \cup held : want'[x] = want[x]
      BY <1>7, <2>1, <2>3 DEF release, dropWaiter, IInv, TypeOK
    <3>2. QED
      BY <1>7, <2>3, <3>1, QuietWakes DEF release
  <2>4. QED
    BY <2>2, <2>3
<1>8. CASE Age
  BY <1>8, QuietWakes DEF Age
<1>9. QED
  BY <1>1, <1>2, <1>3, <1>4, <1>5, <1>6, <1>7, <1>8 DEF Next

\* What NoOvertakingAtCap says of one step.
NoOvertakingStep ==
    \A v \in (waiters \cap waiters') \ cancelled, w \in held' \ held :
          /\ aged[v] = MaxPriority
          /\ deadline[v] = deadline'[w]
          /\ w \notin ahead[v]
          => ~resourcesOverlap(want[v], want'[w])

LEMMA LeaveKeepsOrder ==
    ASSUME IInv, WakeInv, NEW c \in Callers,
           dispatchLocked(waiters \ {c}, held \ {c}, want, aged, deadline, ahead),
           dropWaiter(c)
    PROVE  NoOvertakingStep
<1> DEFINE q == waiters \ {c}
           hd == held \ {c}
<1> SUFFICES ASSUME NEW v \in waiters', NEW w \in held' \ held,
                    aged[v] = MaxPriority, deadline[v] = deadline'[w], w \notin ahead[v]
             PROVE  ~resourcesOverlap(want[v], want'[w])
  BY DEF NoOvertakingStep
<1>1. w \in Callers /\ w # c /\ w \notin hd
  BY DEF dispatchLocked, Granted, IInv, TypeOK
<1>2. deadline'[w] = deadline[w] /\ want'[w] = want[w]
  BY <1>1 DEF dropWaiter, IInv, TypeOK
<1>3. /\ \A x \in q : aged[x] \in 0..MaxPriority
      /\ Ordered(q, ahead)
      /\ dispatchLocked(q, hd, want, aged, deadline, ahead)
  BY LeaveDispatches
<1>4. QED
  <2> HIDE DEF q, hd
  <2>1. QED  BY <1>1, <1>2, <1>3, DispatchKeepsOrder

LEMMA NextKeepsOrder == IInv /\ WakeInv /\ [Next]_vars => NoOvertakingStep
<1> SUFFICES ASSUME IInv, WakeInv, [Next]_vars PROVE NoOvertakingStep
  OBVIOUS
<1>1. CASE held' = held
  BY <1>1 DEF NoOvertakingStep
<1>2. ASSUME NEW c \in Callers, acquireResources(c) PROVE NoOvertakingStep
  <2>1. PICK ah :
             /\ ah = [ahead EXCEPT ![c] = waiters]
             /\ dispatchLocked(waiters \cup {c}, held, want', aged', deadline', ah)
             /\ \A x \in waiters \cup {c} : aged'[x] \in 0..MaxPriority /\ deadline'[x] \in Nat
             /\ Ordered(waiters \cup {c}, ah)
             /\ c \notin waiters \cup held
             /\ \A x \in Callers : x # c => /\ aged'[x] = aged[x]
                                            /\ deadline'[x] = deadline[x]
                                            /\ want'[x] = want[x]
    BY <1>2, AcquireDispatches
  <2> SUFFICES ASSUME NEW v \in waiters \cap waiters', NEW w \in held' \ held,
                      aged[v] = MaxPriority, deadline[v] = deadline'[w], w \notin ahead[v]
               PROVE  ~resourcesOverlap(want[v], want'[w])
    BY DEF NoOvertakingStep
  <2>2. v \in Callers /\ v # c /\ ah[v] = ahead[v]
    BY <2>1 DEF IInv, TypeOK
  <2>3. aged'[v] = MaxPriority /\ deadline'[v] = deadline'[w] /\ want'[v] = want[v]
    BY <2>1, <2>2
  <2>4. ~resourcesOverlap(want'[v], want'[w])
    <3> DEFINE q == waiters \cup {c}
    <3>1. /\ Ordered(q, ah)
          /\ \A x \in q : aged'[x] \in 0..MaxPriority
          /\ dispatchLocked(q, held, want', aged', deadline', ah)
          /\ v \in waiters' /\ w \in held' /\ w \notin held /\ w \notin ah[v]
      BY <2>1, <2>2
    <3>2. QED
      <4> HIDE DEF q
      <4>1. QED  BY <2>3, <3>1, DispatchKeepsOrder
  <2>5. QED
    BY <2>3, <2>4
<1>3. ASSUME NEW c \in Callers, abandonWait(c) PROVE NoOvertakingStep
  BY <1>3, LeaveKeepsOrder DEF abandonWait
<1>4. ASSUME NEW c \in Callers, release(c), c \in held PROVE NoOvertakingStep
  <2>1. waiters \ {c} = waiters
    BY <1>4 DEF release, IInv, Placed
  <2>2. dispatchLocked(waiters \ {c}, held \ {c}, want, aged, deadline, ahead) /\ dropWaiter(c)
    BY <1>4, <2>1 DEF release
  <2>3. QED
    BY <2>2, LeaveKeepsOrder
<1>5. ASSUME NEW c \in Callers, release(c), c \notin held PROVE held' = held
  BY <1>5 DEF release
<1>6. ASSUME NEW c \in Callers, acquireNothing(c) \/ CancelContext(c) \/ takeReady(c)
      PROVE  held' = held
  BY <1>6 DEF acquireNothing, CancelContext, takeReady
<1>7. Age \/ UNCHANGED vars => held' = held
  BY DEF Age, vars
<1>8. QED
  BY <1>1, <1>2, <1>3, <1>4, <1>5, <1>6, <1>7 DEF Next

\* No wake-up is lost, for every number of callers: whatever acquireResources,
\* release and the cancellations have done, a group of waiters that conflicts
\* with no other waiter conflicts with somebody who holds a claim, so a
\* release is still to come that dispatches it (dispatchLocked).
THEOREM ClaimsWakeEverybody == Spec => []NoLostWakeup
<1>1. WakeInv => NoLostWakeup
  BY DEF WakeInv
<1>2. QED
  BY <1>1, InitIInv, InitWakeInv, NextIInv, NextWakeInv, PTL DEF Spec

\* An aged request at the priority cap is never overtaken by a conflicting
\* later one with the same deadline, in any section that dispatches
\* (claimWaiterBeforeAt, dispatchLocked).
THEOREM ClaimsKeepTheirTurn == Spec => NoOvertakingAtCap
<1>1. IInv /\ WakeInv /\ [Next]_vars => [NoOvertakingStep]_vars
  BY NextKeepsOrder
<1>2. QED
  BY <1>1, InitIInv, InitWakeInv, NextIInv, NextWakeInv, PTL
     DEF Spec, NoOvertakingAtCap, NoOvertakingStep

=============================================================================
