------------------------ MODULE StepExecutionProofs ------------------------
(***************************************************************************)
(* The coins of executeStep: every way out settles the reservation unless  *)
(* Reset took the command from the worker, a reservation goes too early    *)
(* only when nobody waits for its command, and the account can pay for all *)
(* that is on its way.                                                     *)
(*                                                                         *)
(* The first half is about the steps and their debits alone.  The second   *)
(* half adds the frames and the balances, in layers: each invariant is the *)
(* one before it and one part more (SettlementInv, DispatchInv, WireInv,   *)
(* KnowInv, RelInv, BalInv, CoinInv).                                      *)
(***************************************************************************)
EXTENDS StepExecution, FiniteSetTheorems, TLAPS

Debits == [gen : Nat, reserved : Nat, settled : Nat]

\* Where the outcome of the current try is known to the gate.
Settling == {"done", "refreshing", "refreshWait", "retrying"}

Places == {"ready", "queued", "taken", "snapshot1", "approved1", "snapshot2", "approved2", "refused",
           "uncertain", "sent", "awaiting", "committing"} \cup Settling

Results == {"none", "succeeded", "failed", "indeterminate"}

Typed ==
    /\ clock \in Nat \ {0}
    /\ generation \in Nat
    /\ observation.gen \in Nat
    /\ view.observation.gen \in Nat
    /\ pc \in [Steps -> Places]
    /\ try \in [Steps -> 1..MaxTries]
    /\ pending \in [Keys -> Debits]

\* A debit belongs to the current try or to an earlier one, which is settled;
\* the debit of the current try is settled when the step has its outcome, unless
\* Reset took its command, and does not exist before the step is sent.
DebitsFollowTries ==
    \A k \in Keys : pending[k] # NoDebit =>
        /\ k[2] <= try[k[1]]
        /\ k[2] < try[k[1]] => pending[k].settled > 0
        /\ pc[k[1]] \in Settling => pending[k].settled > 0 \/ k[1] \in left
        /\ pc[k[1]] = "ready" => k[2] # try[k[1]]

\* A step that Reset let return has its outcome, and only the worker moves on
\* for it; one that was told it failed is not past its first validation.
Abandoned ==
    /\ outcome \in [Steps -> Results]
    /\ left \subseteq Steps
    /\ \A s \in Steps : pc[s] = "taken" => s \in left
    /\ \A s \in left :
          /\ pc[s] \in Dispatching \cup {"done"}
          /\ outcome[s] \in {"failed", "indeterminate"}
          /\ outcome[s] = "failed" => pc[s] \in {"taken", "snapshot1", "done"}

SettlementInv == Typed /\ DebitsFollowTries /\ Abandoned

-----------------------------------------------------------------------------
(* The gate's operators.                                                   *)

\* Dropping a debit keeps the map well typed and touches no other debit.
LEMMA DroppedFacts ==
    ASSUME Typed, NEW s \in Steps
    PROVE  /\ Key(s) \in Keys
           /\ Dropped(Key(s)) \in [Keys -> Debits]
           /\ Dropped(Key(s))[Key(s)] = NoDebit
           /\ \A k \in Keys \ {Key(s)} : Dropped(Key(s))[k] = pending[k]
BY DEF Typed, Dropped, Key, Keys, Debits, NoDebit

\* Marking a debit settles it, keeps the map well typed and touches no other.
LEMMA MarkedFacts ==
    ASSUME Typed, NEW s \in Steps
    PROVE  /\ Key(s) \in Keys
           /\ Marked(Key(s)) \in [Keys -> Debits]
           /\ Marked(Key(s))[Key(s)] = NoDebit \/ Marked(Key(s))[Key(s)].settled > 0
           /\ \A k \in Keys \ {Key(s)} : Marked(Key(s))[k] = pending[k]
<1> DEFINE K == Key(s)
<1>1. K \in Keys BY DEF Typed, Key, Keys
<1>2. pending[K] \in Debits BY <1>1 DEF Typed
<1>3. CASE pending[K] = NoDebit
  BY <1>1, <1>2, <1>3 DEF Typed, Marked, Settled, Debits, NoDebit
<1>4. CASE pending[K] # NoDebit
  BY <1>1, <1>2, <1>4 DEF Typed, Marked, Settled, Debits, NoDebit
<1>5. QED BY <1>3, <1>4

\* Completed drops the debit or marks it; without one, both change nothing.
LEMMA CompletedFacts ==
    ASSUME Typed, NEW s \in Steps, NEW frame, Completed(s, frame)
    PROVE  pending' = Dropped(Key(s)) \/ pending' = Marked(Key(s))
<1>1. Key(s) \in Keys BY DroppedFacts
<1>2. CASE pending[Key(s)] = NoDebit
  <2>1. pending' = pending BY <1>2 DEF Completed
  <2>2. Dropped(Key(s)) = pending BY <1>1, <1>2 DEF Typed, Dropped
  <2>3. QED BY <2>1, <2>2
<1>3. CASE pending[Key(s)] # NoDebit /\ Correlated(Key(s), frame)
  BY <1>3 DEF Completed
<1>4. CASE pending[Key(s)] # NoDebit /\ ~Correlated(Key(s), frame)
  BY <1>4 DEF Completed
<1>5. QED BY <1>2, <1>3, <1>4

-----------------------------------------------------------------------------
(* The two shapes of a step's action.                                      *)

\* An action that gives the gate its outcome may take the step anywhere but
\* back to the start.
LEMMA SettlingStep ==
    ASSUME SettlementInv, NEW s \in Steps, NEW place \in Places \ {"ready"},
           pending' = Dropped(Key(s)) \/ pending' = Marked(Key(s)),
           pc' = [pc EXCEPT ![s] = place],
           left \subseteq left',
           UNCHANGED <<try, clock, generation, observation, view>>
    PROVE  Typed' /\ DebitsFollowTries'
<1> USE DEF SettlementInv
<1>1. Typed' BY DroppedFacts, MarkedFacts DEF Typed
<1>2. ASSUME NEW k \in Keys, pending'[k] # NoDebit
      PROVE  /\ k[2] <= try'[k[1]]
             /\ k[2] < try'[k[1]] => pending'[k].settled > 0
             /\ pc'[k[1]] \in Settling => pending'[k].settled > 0 \/ k[1] \in left'
             /\ pc'[k[1]] = "ready" => k[2] # try'[k[1]]
  <2>1. k[1] \in Steps /\ k[2] \in 1..MaxTries /\ k = <<k[1], k[2]>> BY DEF Keys
  <2>2. CASE k = Key(s)
    <3>1. pending'[k].settled > 0 BY <1>2, <2>2, DroppedFacts, MarkedFacts
    <3>2. k[1] = s /\ k[2] = try[s] BY <2>2 DEF Key
    <3>3. QED BY <3>1, <3>2 DEF Typed
  <2>3. CASE k # Key(s)
    <3>1. pending'[k] = pending[k] BY <2>3, DroppedFacts, MarkedFacts
    <3>2. k[1] = s => k[2] # try[s] BY <2>1, <2>3 DEF Key
    <3>3. pc'[k[1]] = IF k[1] = s THEN place ELSE pc[k[1]] BY <2>1 DEF Typed
    <3>4. try[k[1]] \in 1..MaxTries BY <2>1 DEF Typed
    <3>5. QED BY <1>2, <2>1, <3>1, <3>2, <3>3, <3>4, BoundsAssumption DEF DebitsFollowTries
  <2>4. QED BY <2>2, <2>3
<1>3. QED BY <1>1, <1>2 DEF DebitsFollowTries

\* An action that leaves the gate's debits alone moves a step that is not at
\* its end, or one whose outcome the gate knows, or one that holds no debit.
LEMMA QuietStep ==
    ASSUME SettlementInv, NEW s \in Steps, NEW place \in Places \ {"ready"},
           \/ place \notin Settling
           \/ pc[s] \in Settling
           \/ pc[s] = "ready"
           \/ s \in left,
           pc' = [pc EXCEPT ![s] = place],
           UNCHANGED <<try, pending, left>>
    PROVE  DebitsFollowTries'
<1> SUFFICES ASSUME NEW k \in Keys, pending[k] # NoDebit
      PROVE  /\ k[2] <= try[k[1]]
             /\ k[2] < try[k[1]] => pending[k].settled > 0
             /\ pc'[k[1]] \in Settling => pending[k].settled > 0 \/ k[1] \in left
             /\ pc'[k[1]] = "ready" => k[2] # try[k[1]]
  BY DEF DebitsFollowTries
<1>1. k[1] \in Steps /\ k[2] \in 1..MaxTries BY DEF Keys
<1>2. pc'[k[1]] = IF k[1] = s THEN place ELSE pc[k[1]] BY <1>1 DEF SettlementInv, Typed
<1>3. try[k[1]] \in 1..MaxTries BY <1>1 DEF SettlementInv, Typed
<1>4. QED BY <1>1, <1>2, <1>3, BoundsAssumption DEF SettlementInv, DebitsFollowTries, Settling

-----------------------------------------------------------------------------
(* Every action preserves the invariant.                                   *)

\* Validate releases debits and adds one for the step it approves, which is
\* neither at its start nor at its end.
LEMMA ValidateStep ==
    ASSUME SettlementInv, NEW s \in Steps, Validate(s)
    PROVE  Typed' /\ DebitsFollowTries'
<1> DEFINE o == view.observation
           kept == [k \in Keys |-> IF k \in Released(o) THEN NoDebit ELSE pending[k]]
           fresh1 == [gen |-> o.gen, reserved |-> clock, settled |-> 0]
<1> USE DEF SettlementInv
<1>1. UNCHANGED <<try, clock, generation, observation>> /\ view' = NoView
  BY DEF Validate, storeVars
<1>a. left' = left BY DEF Validate
<1>2. Key(s) \in Keys /\ kept \in [Keys -> Debits] /\ fresh1 \in Debits
  BY DEF Typed, Key, Keys, Debits, NoDebit
<1>3. /\ \E place \in {"refused", "approved1", "approved2", "done"} :
             pc' = [pc EXCEPT ![s] = place] /\ (place = "done" => s \in left)
      /\ pending' = kept \/ pending' = [kept EXCEPT ![Key(s)] = fresh1]
  BY DEF Validate, Release
<1>4. Typed'
  <2>1. pending' \in [Keys -> Debits] BY <1>2, <1>3
  <2>2. pc' \in [Steps -> Places] BY <1>3 DEF Typed, Places, Settling
  <2>3. view'.observation.gen \in Nat BY <1>1 DEF NoView, Unobserved
  <2>4. QED BY <1>1, <2>1, <2>2, <2>3 DEF Typed
<1>5. ASSUME NEW k \in Keys, pending'[k] # NoDebit
      PROVE  /\ k[2] <= try'[k[1]]
             /\ k[2] < try'[k[1]] => pending'[k].settled > 0
             /\ pc'[k[1]] \in Settling => pending'[k].settled > 0 \/ k[1] \in left'
             /\ pc'[k[1]] = "ready" => k[2] # try'[k[1]]
  <2>1. k[1] \in Steps /\ k[2] \in 1..MaxTries /\ k = <<k[1], k[2]>> BY DEF Keys
  <2>2. try[k[1]] \in 1..MaxTries BY <2>1 DEF Typed
  <2>3. k[1] = s => \/ pc'[k[1]] \in {"refused", "approved1", "approved2"}
                    \/ pc'[k[1]] = "done" /\ k[1] \in left
    BY <1>3, <2>1 DEF Typed
  <2>4. k[1] # s => pc'[k[1]] = pc[k[1]] BY <1>3, <2>1 DEF Typed
  <2>5. CASE k = Key(s)
    <3>1. k[1] = s /\ k[2] = try[s] BY <2>5 DEF Key
    <3>2. QED BY <1>1, <1>a, <2>2, <2>3, <3>1, BoundsAssumption DEF Settling
  <2>6. CASE k # Key(s)
    <3>1. pending'[k] = kept[k] BY <1>2, <1>3, <2>6
    <3>2. kept[k] = NoDebit \/ kept[k] = pending[k] OBVIOUS
    <3>3. pending'[k] = pending[k] BY <1>5, <3>1, <3>2
    <3>4. k[1] = s => k[2] # try[s] BY <2>1, <2>6 DEF Key
    <3>5. QED BY <1>1, <1>a, <1>5, <2>1, <2>2, <2>3, <2>4, <3>3, <3>4, BoundsAssumption
          DEF DebitsFollowTries, Settling
  <2>7. QED BY <2>5, <2>6
<1>6. QED BY <1>4, <1>5 DEF DebitsFollowTries

\* retry starts the next try, for which there is no debit yet.
LEMMA RetryStep ==
    ASSUME SettlementInv, NEW s \in Steps, retry(s)
    PROVE  Typed' /\ DebitsFollowTries'
<1> USE DEF SettlementInv
<1>1. UNCHANGED <<pending, clock, generation, observation, view, left>>
  BY DEF retry, gateVars, storeVars
<1>2. CASE Finish(s, "failed") /\ UNCHANGED try
  <2>1. pc' = [pc EXCEPT ![s] = "done"] BY <1>2 DEF Finish
  <2>2. pc[s] \in Settling BY DEF retry, Settling
  <2>3. "done" \in Places \ {"ready"} BY DEF Places, Settling
  <2>4. DebitsFollowTries' BY <1>1, <1>2, <2>1, <2>2, <2>3, QuietStep
  <2>5. Typed' BY <1>1, <1>2, <2>1, <2>3 DEF Typed
  <2>6. QED BY <2>4, <2>5
<1>3. CASE /\ try[s] < MaxTries
           /\ try' = [try EXCEPT ![s] = try[s] + 1]
           /\ pc' = [pc EXCEPT ![s] = "ready"]
  <2>1. Typed'
    <3>1. MaxTries \in Nat BY BoundsAssumption
    <3>2. try' \in [Steps -> 1..MaxTries] BY <1>3, <3>1 DEF Typed
    <3>3. pc' \in [Steps -> Places] BY <1>3 DEF Typed, Places
    <3>4. QED BY <1>1, <3>2, <3>3 DEF Typed
  <2>2. pc[s] = "retrying" BY DEF retry
  <2>3. ASSUME NEW k \in Keys, pending[k] # NoDebit
        PROVE  /\ k[2] <= try'[k[1]]
               /\ k[2] < try'[k[1]] => pending[k].settled > 0
               /\ pc'[k[1]] \in Settling => pending[k].settled > 0 \/ k[1] \in left
               /\ pc'[k[1]] = "ready" => k[2] # try'[k[1]]
    <3>1. k[1] \in Steps /\ k[2] \in 1..MaxTries BY DEF Keys
    <3>2. try[k[1]] \in 1..MaxTries BY <3>1 DEF Typed
    <3>3. CASE k[1] = s
      <4>1. try'[s] = try[s] + 1 /\ pc'[s] = "ready" BY <1>3 DEF Typed
      <4>2. k[2] <= try[s] /\ pending[k].settled > 0
        BY <2>2, <2>3, <3>3 DEF DebitsFollowTries, Settling, Abandoned, Dispatching
      <4>3. QED BY <3>1, <3>2, <3>3, <4>1, <4>2, BoundsAssumption
    <3>4. CASE k[1] # s
      <4>1. try'[k[1]] = try[k[1]] /\ pc'[k[1]] = pc[k[1]] BY <1>3, <3>1, <3>4 DEF Typed
      <4>2. QED BY <2>3, <4>1 DEF DebitsFollowTries
    <3>5. QED BY <3>3, <3>4
  <2>4. QED BY <1>1, <2>1, <2>3 DEF DebitsFollowTries
<1>4. QED BY <1>2, <1>3 DEF retry

\* What executeStep and the router do without touching a debit.
LEMMA QuietActions ==
    ASSUME SettlementInv, NEW s \in Steps,
           \/ prepare(s) \/ prepareFails(s) \/ refuseQueued(s) \/ readContext(s)
           \/ validateRefuses(s) \/ write(s) \/ writeRefused(s) \/ writeFails(s)
           \/ awaitCommit(s) \/ refreshCoins(s) \/ refreshed(s) \/ refreshFails(s)
    PROVE  Typed' /\ DebitsFollowTries'
<1>1. UNCHANGED <<try, pending, clock, generation, observation, left>>
  BY DEF prepare, prepareFails, refuseQueued, readContext, validateRefuses, write, writeRefused,
         writeFails, awaitCommit, refreshCoins, refreshed, refreshFails, gateVars, storeVars
<1>2. view' = view \/ view' = NoView \/ view' = [generation |-> generation, observation |-> observation]
  BY DEF prepare, prepareFails, refuseQueued, readContext, validateRefuses, write, writeRefused,
         writeFails, awaitCommit, refreshCoins, refreshed, refreshFails, gateVars
<1>3. view'.observation.gen \in Nat
  BY <1>2 DEF SettlementInv, Typed, NoView, Unobserved
<1>4. PICK place \in Places \ {"ready"} :
         /\ pc' = [pc EXCEPT ![s] = place]
         /\ place \notin Settling \/ pc[s] \in Settling \/ pc[s] = "ready" \/ s \in left
  <2>1. CASE prepare(s) \/ refuseQueued(s) \/ readContext(s) \/ validateRefuses(s)
    <3>1. \E place \in {"queued", "refused", "snapshot1", "snapshot2", "done"} :
             pc' = [pc EXCEPT ![s] = place] /\ (place = "done" => s \in left)
      BY <2>1 DEF prepare, refuseQueued, readContext, validateRefuses, Release
    <3>2. QED BY <3>1 DEF Places, Settling
  <2>2. CASE write(s) \/ writeRefused(s) \/ writeFails(s) \/ awaitCommit(s)
    <3>1. \E place \in {"sent", "awaiting", "refused", "uncertain", "committing", "done"} :
             pc' = [pc EXCEPT ![s] = place] /\ (place = "done" => s \in left)
      BY <2>2 DEF write, writeRefused, writeFails, awaitCommit, Release
    <3>2. QED BY <3>1 DEF Places, Settling
  <2>3. CASE prepareFails(s) \/ refreshCoins(s) \/ refreshed(s) \/ refreshFails(s)
    <3>1. /\ pc[s] \in Settling \cup {"ready"}
          /\ \E place \in {"done", "refreshWait", "retrying"} : pc' = [pc EXCEPT ![s] = place]
      BY <2>3 DEF prepareFails, refreshCoins, refreshed, refreshFails, Finish, Settling
    <3>2. QED BY <3>1 DEF Places, Settling
  <2>4. QED BY <2>1, <2>2, <2>3
<1>5. DebitsFollowTries' BY <1>1, <1>4, QuietStep
<1>6. Typed' BY <1>1, <1>3, <1>4 DEF SettlementInv, Typed
<1>7. QED BY <1>5, <1>6 DEF SettlementInv

\* The ways out of executeStep once something is reserved, and the way out
\* that Reset opens while the worker has the command.
LEMMA SettlingActions ==
    ASSUME SettlementInv, NEW s \in Steps,
           \/ sendFailed(s) \/ sendSettled(s) \/ giveUp(s) \/ rejected(s) \/ consumed(s)
           \/ unusable(s) \/ commitFails(s) \/ accepted(s) \/ reset(s)
    PROVE  Typed' /\ DebitsFollowTries'
<1>1. UNCHANGED <<try, clock, generation, observation, view>> /\ left \subseteq left'
  BY DEF sendFailed, sendSettled, giveUp, rejected, consumed, unusable, commitFails, accepted,
         reset, storeVars
<1>2. pending' = Dropped(Key(s)) \/ pending' = Marked(Key(s))
  <2>1. CASE consumed(s) \/ accepted(s)
    BY <2>1, CompletedFacts DEF consumed, accepted, SettlementInv
  <2>2. CASE ~(consumed(s) \/ accepted(s))
    BY <2>2 DEF sendFailed, sendSettled, giveUp, rejected, unusable, commitFails, reset
  <2>3. QED BY <2>1, <2>2
<1>3. PICK place \in Settling \cup {"taken", "snapshot1", "approved1", "snapshot2", "approved2"} :
         pc' = [pc EXCEPT ![s] = place]
  <2>1. CASE reset(s)
    <3>1. pc' = pc => pc' = [pc EXCEPT ![s] = pc[s]] BY DEF SettlementInv, Typed
    <3>2. QED BY <2>1, <3>1 DEF reset
  <2>2. CASE ~reset(s)
    BY <2>2 DEF sendFailed, sendSettled, giveUp, rejected, consumed, unusable, commitFails,
       accepted, Finish, Settling
  <2>3. QED BY <2>1, <2>2
<1>4. place \in Places \ {"ready"} BY <1>3 DEF Places, Settling
<1>5. QED BY <1>1, <1>2, <1>3, <1>4, SettlingStep

\* The ingest goroutine, the connection and the game never touch the gate.
LEMMA OutsideActions ==
    ASSUME SettlementInv, observeFrame \/ commitFrame \/ reconnect \/ serve \/ push
    PROVE  Typed' /\ DebitsFollowTries'
<1>1. UNCHANGED <<pc, try, pending, view, left>>
  BY DEF observeFrame, commitFrame, reconnect, serve, push, gateVars, stepVars
<1>2. clock' \in Nat \ {0} /\ generation' \in Nat /\ observation'.gen \in Nat
  <2>1. CASE observeFrame BY <2>1 DEF observeFrame, SettlementInv, Typed
  <2>2. CASE commitFrame
    <3>1. clock' = clock /\ generation' = generation BY <2>2 DEF commitFrame
    <3>2. \/ observation' = observation
          \/ \E at, coins, after :
                observation' = [gen |-> generation, at |-> at, coins |-> coins, after |-> after]
      BY <2>2, Zenon DEF commitFrame
    <3>3. QED BY <3>1, <3>2 DEF SettlementInv, Typed
  <2>3. CASE reconnect BY <2>3 DEF reconnect, SettlementInv, Typed
  <2>4. CASE serve \/ push BY <2>4 DEF serve, push, storeVars, SettlementInv, Typed
  <2>5. QED BY <2>1, <2>2, <2>3, <2>4
<1>3. QED BY <1>1, <1>2 DEF SettlementInv, Typed, DebitsFollowTries

-----------------------------------------------------------------------------
\* The worker's last move for a step that is over ends it, and no other action
\* touches such a step.
LEMMA AbandonedStep ==
    ASSUME SettlementInv, NEW s \in Steps, NEW place, NEW result,
           pc' = [pc EXCEPT ![s] = place],
           outcome' = [outcome EXCEPT ![s] = result], result \in Results,
           left' = left \/ left' = left \cup {s},
           place = "taken" => s \in left',
           s \in left' =>
              /\ place \in Dispatching \cup {"done"}
              /\ result \in {"failed", "indeterminate"}
              /\ (result = "failed" => place \in {"taken", "snapshot1", "done"})
    PROVE  Abandoned'
<1>1. /\ pc' = [r \in Steps |-> IF r = s THEN place ELSE pc[r]]
      /\ outcome' = [r \in Steps |-> IF r = s THEN result ELSE outcome[r]]
  BY DEF SettlementInv, Typed, Abandoned
<1>2. outcome' \in [Steps -> Results] /\ left' \subseteq Steps
  BY <1>1 DEF SettlementInv, Abandoned
<1>3. ASSUME NEW r \in Steps, pc'[r] = "taken" PROVE r \in left'
  BY <1>1, <1>3 DEF SettlementInv, Abandoned
<1>4. ASSUME NEW r \in left'
      PROVE  /\ pc'[r] \in Dispatching \cup {"done"}
             /\ outcome'[r] \in {"failed", "indeterminate"}
             /\ outcome'[r] = "failed" => pc'[r] \in {"taken", "snapshot1", "done"}
  <2>1. r \in Steps BY <1>2
  <2>2. CASE r = s BY <1>1, <2>1, <2>2
  <2>3. CASE r # s
    <3>1. r \in left BY <2>3
    <3>2. pc'[r] = pc[r] /\ outcome'[r] = outcome[r] BY <1>1, <2>1, <2>3
    <3>3. QED BY <3>1, <3>2 DEF SettlementInv, Abandoned
  <2>4. QED BY <2>2, <2>3
<1>5. QED BY <1>2, <1>3, <1>4 DEF Abandoned

\* Before the worker takes its command, and after its Send has returned, a step
\* that is not at its end is its own.
LEMMA NotLeft ==
    ASSUME SettlementInv, NEW s \in Steps, pc[s] \notin Dispatching, pc[s] # "done"
    PROVE  s \notin left
BY DEF SettlementInv, Abandoned

\* The worker's moves leave the outcome of a step alone.
LEMMA AbandonedByWorker ==
    ASSUME SettlementInv, NEW s \in Steps,
           \/ readContext(s) \/ validateRefuses(s) \/ Validate(s) \/ write(s)
           \/ writeRefused(s) \/ writeFails(s)
    PROVE  Abandoned'
<1>1. UNCHANGED <<outcome, left>>
  BY DEF readContext, validateRefuses, Validate, write, writeRefused, writeFails
<1>2. outcome' = [outcome EXCEPT ![s] = outcome[s]] /\ outcome[s] \in Results
  BY <1>1 DEF SettlementInv, Abandoned
<1>3. PICK place \in Places :
         /\ pc' = [pc EXCEPT ![s] = place]
         /\ place # "taken"
         /\ s \in left => \/ place = "done"
                          \/ place = "snapshot1"
                          \/ place = "snapshot2" /\ pc[s] = "approved1"
                          \/ place = "approved2" /\ pc[s] = "snapshot2"
  <2>1. CASE readContext(s)
    <3>1. \/ pc' = [pc EXCEPT ![s] = "snapshot1"]
          \/ pc' = [pc EXCEPT ![s] = "snapshot2"] /\ pc[s] = "approved1"
      BY <2>1 DEF readContext
    <3>2. QED BY <3>1 DEF Places
  <2>2. CASE validateRefuses(s) \/ writeRefused(s) \/ write(s) \/ writeFails(s)
    <3>1. \E place \in {"refused", "sent", "awaiting", "uncertain"} : Release(s, place)
      BY <2>2 DEF validateRefuses, writeRefused, write, writeFails
    <3>2. QED BY <3>1 DEF Places, Release, Settling
  <2>3. CASE Validate(s)
    <3>1. \/ Release(s, "refused")
          \/ /\ ~(pc[s] = "snapshot1" /\ s \in left)
             /\ pc' = [pc EXCEPT ![s] = IF pc[s] = "snapshot1" THEN "approved1" ELSE "approved2"]
      BY <2>3 DEF Validate
    <3>2. pc[s] \in {"snapshot1", "snapshot2"} BY <2>3 DEF Validate
    <3>3. QED BY <3>1, <3>2 DEF Places, Release, Settling
  <2>4. QED BY <2>1, <2>2, <2>3
<1>4. s \in left' =>
         /\ place \in Dispatching \cup {"done"}
         /\ outcome[s] \in {"failed", "indeterminate"}
         /\ (outcome[s] = "failed" => place \in {"taken", "snapshot1", "done"})
  BY <1>1, <1>3 DEF SettlementInv, Abandoned, Dispatching
<1>5. QED BY <1>1, <1>2, <1>3, <1>4, AbandonedStep

\* Reset is the one action by which a step is over before the worker is.
LEMMA AbandonedByReset ==
    ASSUME SettlementInv, NEW s \in Steps, reset(s)
    PROVE  Abandoned'
<1>1. left' = left \cup {s} BY DEF reset
<1>2. pc' = pc => pc' = [pc EXCEPT ![s] = pc[s]] BY DEF SettlementInv, Typed
<1>3. CASE outcome' = [outcome EXCEPT ![s] = "failed"]
           /\ \E place \in {"taken", "snapshot1"} : pc' = [pc EXCEPT ![s] = place]
  <2>1. PICK place \in {"taken", "snapshot1"} : pc' = [pc EXCEPT ![s] = place] BY <1>3
  <2>2. "failed" \in Results BY DEF Results
  <2>3. place \in Dispatching BY <2>1 DEF Dispatching
  <2>4. QED BY <1>1, <1>3, <2>1, <2>2, <2>3, AbandonedStep
<1>4. CASE outcome' = [outcome EXCEPT ![s] = "indeterminate"]
           /\ \E place \in {"approved1", "snapshot2", "approved2"} : pc' = [pc EXCEPT ![s] = place]
  <2>1. PICK place \in {"approved1", "snapshot2", "approved2"} : pc' = [pc EXCEPT ![s] = place]
    BY <1>4
  <2>2. "indeterminate" \in Results BY DEF Results
  <2>3. place \in Dispatching BY <2>1 DEF Dispatching
  <2>4. QED BY <1>1, <1>4, <2>1, <2>2, <2>3, AbandonedStep
<1>5. QED BY <1>2, <1>3, <1>4 DEF reset

\* Everything else a step does is done by a step that is still its own.
LEMMA AbandonedByStep ==
    ASSUME SettlementInv, NEW s \in Steps,
           \/ prepare(s) \/ prepareFails(s) \/ refuseQueued(s) \/ awaitCommit(s)
           \/ sendFailed(s) \/ sendSettled(s) \/ giveUp(s) \/ rejected(s) \/ consumed(s)
           \/ unusable(s) \/ commitFails(s) \/ accepted(s)
           \/ refreshCoins(s) \/ refreshed(s) \/ refreshFails(s) \/ retry(s)
    PROVE  Abandoned'
<1>1. pc[s] \in {"ready", "queued", "refused", "uncertain", "sent", "retrying"} \cup Waiting
  BY DEF prepare, prepareFails, refuseQueued, awaitCommit, sendFailed, sendSettled, giveUp,
     rejected, consumed, unusable, commitFails, accepted, refreshCoins, refreshed, refreshFails,
     retry, Answered, Waiting
<1>2. s \notin left BY <1>1, NotLeft DEF Waiting, Dispatching
<1>3. left' = left
  BY DEF prepare, prepareFails, refuseQueued, awaitCommit, sendFailed, sendSettled, giveUp,
     rejected, consumed, unusable, commitFails, accepted, refreshCoins, refreshed, refreshFails,
     retry
<1>4. /\ outcome' = outcome \/ \E result \in Results : outcome' = [outcome EXCEPT ![s] = result]
      /\ \E place \in Places \ {"taken"} : pc' = [pc EXCEPT ![s] = place]
  <2>1. CASE prepare(s) \/ refuseQueued(s) \/ awaitCommit(s) \/ refreshCoins(s)
    BY <2>1 DEF prepare, refuseQueued, awaitCommit, refreshCoins, Places, Settling
  <2>2. CASE prepareFails(s) \/ sendFailed(s) \/ sendSettled(s) \/ giveUp(s) \/ rejected(s)
             \/ unusable(s) \/ commitFails(s)
    BY <2>2 DEF prepareFails, sendFailed, sendSettled, giveUp, rejected, unusable, commitFails,
       Finish, Places, Settling, Results
  <2>3. CASE consumed(s) \/ accepted(s) \/ refreshed(s) \/ refreshFails(s) \/ retry(s)
    BY <2>3 DEF consumed, accepted, refreshed, refreshFails, retry, Finish, Places, Settling,
       Results
  <2>4. QED BY <2>1, <2>2, <2>3
<1>5. PICK place \in Places \ {"taken"} : pc' = [pc EXCEPT ![s] = place] BY <1>4
<1>6. outcome' = outcome => outcome' = [outcome EXCEPT ![s] = outcome[s]] /\ outcome[s] \in Results
  BY DEF SettlementInv, Abandoned
<1>7. PICK result \in Results : outcome' = [outcome EXCEPT ![s] = result] BY <1>4, <1>6
<1>8. QED BY <1>2, <1>3, <1>5, <1>7, AbandonedStep

\* The invariant holds when nothing is reserved yet.
LEMMA SettlementInvInit == Init => SettlementInv
<1> SUFFICES ASSUME Init PROVE SettlementInv OBVIOUS
<1>1. MaxTries \in Nat /\ MaxTries > 0 BY BoundsAssumption
<1>2. Typed
  BY <1>1 DEF Init, Typed, Places, Debits, NoDebit, NoView, Unobserved
<1>3. DebitsFollowTries BY DEF Init, DebitsFollowTries
<1>4. Abandoned BY DEF Init, Abandoned, Results
<1>5. QED BY <1>2, <1>3, <1>4 DEF SettlementInv

\* Every action of a step, of ingest, of the session and of the game keeps it.
LEMMA SettlementInvNext == SettlementInv /\ [Next]_vars => SettlementInv'
<1> SUFFICES ASSUME SettlementInv, [Next]_vars PROVE SettlementInv' OBVIOUS
<1>1. CASE UNCHANGED vars
  BY <1>1 DEF vars, stepVars, gateVars, storeVars, SettlementInv, Typed, DebitsFollowTries,
     Abandoned
<1>2. CASE observeFrame \/ commitFrame \/ reconnect \/ serve \/ push
  <2>1. UNCHANGED <<pc, outcome, left>>
    BY <1>2 DEF observeFrame, commitFrame, reconnect, serve, push, stepVars
  <2>2. Abandoned' BY <2>1 DEF SettlementInv, Abandoned
  <2>3. QED BY <1>2, <2>2, OutsideActions DEF SettlementInv
<1>3. ASSUME NEW s \in Steps, Validate(s) PROVE SettlementInv'
  BY <1>3, ValidateStep, AbandonedByWorker DEF SettlementInv
<1>4. ASSUME NEW s \in Steps, retry(s) PROVE SettlementInv'
  BY <1>4, RetryStep, AbandonedByStep DEF SettlementInv
<1>5. ASSUME NEW s \in Steps,
             \/ sendFailed(s) \/ sendSettled(s) \/ giveUp(s) \/ rejected(s) \/ consumed(s)
             \/ unusable(s) \/ commitFails(s) \/ accepted(s) \/ reset(s)
      PROVE  SettlementInv'
  BY <1>5, SettlingActions, AbandonedByStep, AbandonedByReset DEF SettlementInv
<1>6. ASSUME NEW s \in Steps,
             \/ prepare(s) \/ prepareFails(s) \/ refuseQueued(s) \/ readContext(s)
             \/ validateRefuses(s) \/ write(s) \/ writeRefused(s) \/ writeFails(s)
             \/ awaitCommit(s) \/ refreshCoins(s) \/ refreshed(s) \/ refreshFails(s)
      PROVE  SettlementInv'
  BY <1>6, QuietActions, AbandonedByStep, AbandonedByWorker DEF SettlementInv
<1>7. QED BY <1>1, <1>2, <1>3, <1>4, <1>5, <1>6 DEF Next

-----------------------------------------------------------------------------
(* What is true of the frames, the balances and the debits together.       *)

Responses == {"ok", "retry"}
Frames == [key : Keys \cup {<<NoStep, 0>>}, code : Responses \cup {"error", "balance", "push"},
           coins : Int, after : SUBSET Keys, gen : Nat, at : Nat,
           bad : BOOLEAN, committed : BOOLEAN]
Commands == [key : Keys, kind : {"spend", "balance"}]

Observed == {observation, view.observation, watermark}

\* The variables that TypeOK leaves out, and the exact bounds of the others.
Shaped ==
    /\ TypeOK
    /\ clock \in Nat \ {0}
    /\ answer \in [Steps -> Frames \cup {NoFrame}]
    /\ view \in [generation : Nat, observation : Observations]
    /\ \A x \in Observed : x.gen <= generation
    /\ ingest \in Seq(Frames) /\ incoming \in Seq(Frames) /\ outgoing \in Seq(Commands)

\* The debit of the current try exists once the gate has approved it, and is of
\* its connection or a later one.
CurrentDebit(s) ==
    /\ pc[s] \in {"ready", "queued", "taken", "snapshot1"} => pending[Key(s)] = NoDebit
    /\ pc[s] \in {"approved1", "snapshot2", "approved2"} => pending[Key(s)] # NoDebit
    /\ pending[Key(s)] # NoDebit => conn[s] <= pending[Key(s)].gen

\* The worker dispatches one step at a time.
Dispatched ==
    /\ \A s \in Steps : pc[s] \in Dispatching <=> worker = s
    /\ \A s \in Steps : CurrentDebit(s)

\* The context of a validation is as new as the debits and the step.
CurrentView(s) ==
    pc[s] \in {"snapshot1", "snapshot2"} =>
       /\ conn[s] <= view.generation
       /\ \A k \in Keys : pending[k].gen <= view.generation

\* Nothing is from a connection that is still to come, and what the gate
\* compares with its debits was read after all of them were made.
Generations ==
    /\ \A s \in Steps : conn[s] <= generation
    /\ \A k \in Keys : pending[k].gen <= generation
    /\ view.generation <= generation
    /\ \A n \in 1..Len(incoming) : incoming[n].gen <= generation
    /\ \A n \in 1..Len(ingest) : ingest[n].gen <= generation
    /\ \A s \in Steps : CurrentView(s)

\* The command of the key has been written, or could not be written any more.
AfterWrite == {"uncertain", "sent", "retrying", "done"} \cup Waiting
Written(k) ==
    \/ k[2] < try[k[1]]
    \/ k[2] = try[k[1]] /\ pc[k[1]] \in AfterWrite

\* The keys of the commands that will cost coins when they are served.
SpendingIn(commands) ==
    {k \in Keys : \E n \in 1..Len(commands) :
                     commands[n].key = k /\ commands[n].kind = "spend"}
Spending == SpendingIn(outgoing)

\* A command is written once and served once; a balance is asked for after.
WrittenOnce ==
    /\ \A n \in 1..Len(outgoing) :
          IF outgoing[n].kind = "spend"
          THEN outgoing[n].key \notin served /\ Written(outgoing[n].key)
          ELSE outgoing[n].key \in served
    /\ \A m, n \in 1..Len(outgoing) :
          outgoing[m].kind = "spend" /\ outgoing[n].kind = "spend" /\ m # n =>
             outgoing[m].key # outgoing[n].key
    /\ \A k \in served : Written(k)

\* A response says what the game did with the command.
Truthful(f) ==
    /\ f.code \in Responses => f.key \in served
    /\ f.code = "error" => /\ f.key \in Keys \ (served \cup Spending)
                           /\ Written(f.key)

\* What the step knows of its answer.
OwnAnswer(s) ==
    /\ answer[s].code # "none" =>
          /\ Truthful(answer[s])
          /\ answer[s].at \in 1..clock
          /\ pc[s] # "ready" => answer[s].key = Key(s)
          /\ \A n \in 1..Len(ingest) : ingest[n].at = answer[s].at =>
                /\ ingest[n].key = answer[s].key
                /\ ingest[n].code = answer[s].code
    /\ pc[s] = "committing" => answer[s].code = "ok"
    /\ pc[s] \in {"refreshing", "refreshWait"} => answer[s].code \in Responses
    /\ pc[s] = "sent" => barrier[s] = "none"
    /\ outcome[s] # "none" => pc[s] = "done" \/ s \in left

Answers ==
    /\ \A n \in 1..Len(incoming) : Truthful(incoming[n])
    /\ \A n \in 1..Len(ingest) : Truthful(ingest[n])
    /\ \A s \in Steps : OwnAnswer(s)

\* The stamps grow along the stream of frames.
Stamps ==
    /\ observation.at <= clock
    /\ \A x \in Observed : x.at <= observation.at /\ (x.at = 0 => x.gen = 0)
    /\ \A n \in 1..Len(ingest) : ingest[n].at \in (observation.at + 1)..clock
    /\ \A m, n \in 1..Len(ingest) : m < n => ingest[m].at < ingest[n].at
    /\ \A x, y \in Observed : x.at <= y.at => x.gen <= y.gen

\* Every balance from the time on, and every one still to come, counts the
\* commands of the set.
Counted(A, time) ==
    /\ A \subseteq served
    /\ time > 0 \/ A = {}
    /\ \A n \in 1..Len(incoming) : incoming[n].coins # NoCoins => A \subseteq incoming[n].after
    /\ \A n \in 1..Len(ingest) :
          ingest[n].coins # NoCoins /\ time <= ingest[n].at => A \subseteq ingest[n].after
    /\ \A x \in Observed : time <= x.at => A \subseteq x.after

\* The commands that a frame shows to have been carried out.
Shown(f) == f.after \cup (IF f.code \in Responses THEN {f.key} ELSE {})

\* What a frame or a balance shows is counted by all that follow it.
Knowledge ==
    /\ \A n \in 1..Len(incoming) : Shown(incoming[n]) \subseteq served
    /\ \A m, n \in 1..Len(incoming) :
          m <= n /\ incoming[n].coins # NoCoins => Shown(incoming[m]) \subseteq incoming[n].after
    /\ \A n \in 1..Len(ingest) : Counted(Shown(ingest[n]), ingest[n].at)
    /\ \A s \in Steps : answer[s].code # "none" => Counted(Shown(answer[s]), answer[s].at)
    /\ \A x \in Observed : Counted(x.after, x.at)

\* Nobody waits for the outcome of the command any longer.
Unawaited(k) ==
    \/ outcome[k[1]] = "indeterminate"
    \/ outcome[k[1]] = "succeeded" /\ barrier[k[1]] = "none"

\* Every balance of a later connection than the debit's counts its command.
LaterCount(k) ==
    /\ \A n \in 1..Len(incoming) :
          incoming[n].coins # NoCoins /\ incoming[n].gen > pending[k].gen => k \in incoming[n].after
    /\ \A n \in 1..Len(ingest) :
          ingest[n].coins # NoCoins /\ ingest[n].gen > pending[k].gen => k \in ingest[n].after
    /\ \A x \in Observed : x.gen > pending[k].gen => k \in x.after

\* The balances that may release a debit count its command.
Releases ==
    /\ \A k \in Keys : pending[k].settled > 0 =>
          Unawaited(k) \/ Counted({k}, pending[k].settled + 1)
    /\ \A k \in Reserved(pending) :
          /\ k \in Spending => pending[k].gen = generation
          /\ k \in served => LaterCount(k)
    /\ EarlyIsUncertain

\* A balance and the commands it counts make up what the account had at first.
Total == purse + Cost * Cardinality(served)
Worth(x) == x.coins + Cost * Cardinality(x.after)

Balanced ==
    /\ IsFiniteSet(served) /\ IsFiniteSet(Reserved(pending))
    /\ \A n \in 1..Len(incoming) : incoming[n].coins # NoCoins => Worth(incoming[n]) = Total
    /\ \A n \in 1..Len(ingest) : ingest[n].coins # NoCoins => Worth(ingest[n]) = Total
    /\ \A x \in Observed : x.at > 0 => Worth(x) = Total

\* A command without a debit is counted by the watermark; what is on its way
\* can be paid, and so can the one that the gate has approved.
Covered ==
    /\ \A k \in (served \cup Spending) \ Reserved(pending) : k \in early \cup watermark.after
    /\ early = {} /\ Spending # {} => purse >= Cost * Cardinality(Spending) + Reserve
    /\ early = {} /\ (\E s \in Steps : pc[s] = "approved2") =>
          purse >= Cost * (Cardinality(Spending) + 1) + Reserve

-----------------------------------------------------------------------------
(* Sequences, and what the actions leave alone.                            *)

\* Append and Tail, index by index.
LEMMA AppendFacts ==
    ASSUME NEW S, NEW q \in Seq(S), NEW e \in S
    PROVE  /\ Append(q, e) \in Seq(S) /\ Len(q) \in Nat
           /\ Len(Append(q, e)) = Len(q) + 1
           /\ \A n \in 1..Len(q) : Append(q, e)[n] = q[n] /\ q[n] \in S
           /\ Append(q, e)[Len(q) + 1] = e
OBVIOUS

\* A sequence without its head.
LEMMA TailFacts ==
    ASSUME NEW S, NEW q \in Seq(S), q # <<>>
    PROVE  /\ Tail(q) \in Seq(S) /\ Len(q) \in Nat /\ 1 <= Len(q)
           /\ Len(Tail(q)) = Len(q) - 1
           /\ \A n \in 1..(Len(q) - 1) : Tail(q)[n] = q[n + 1] /\ n + 1 \in 1..Len(q)
           /\ Head(q) = q[1] /\ q[1] \in S /\ 1 \in 1..Len(q)
OBVIOUS

\* What executeStep and the router's worker do for a step: without a debit or a
\* command, with a command on the wire, and with the outcome for the gate.
Quiet(s) ==
    \/ prepare(s) \/ prepareFails(s) \/ refuseQueued(s) \/ readContext(s) \/ validateRefuses(s)
    \/ writeRefused(s) \/ awaitCommit(s) \/ refreshed(s) \/ refreshFails(s) \/ retry(s)
Sends(s) == write(s) \/ writeFails(s) \/ refreshCoins(s)
Settles(s) ==
    \/ sendFailed(s) \/ sendSettled(s) \/ giveUp(s) \/ rejected(s) \/ consumed(s)
    \/ unusable(s) \/ commitFails(s) \/ accepted(s) \/ reset(s)
StepAct(s) == Quiet(s) \/ Sends(s) \/ Settles(s) \/ Validate(s)

\* A step's action touches neither the store nor the game, beyond the command
\* that it may put on the wire.
LEMMA StepLeaves ==
    ASSUME NEW s \in Steps, StepAct(s)
    PROVE  /\ UNCHANGED <<observation, generation, clock, ingest, incoming, purse, pushes, served>>
           /\ Sends(s) \/ outgoing' = outgoing
           /\ Validate(s) \/ early' = early
           /\ Validate(s) \/ Settles(s) \/ UNCHANGED <<pending, watermark>>
<1>1. CASE Quiet(s)
  BY <1>1 DEF Quiet, prepare, prepareFails, refuseQueued, readContext, validateRefuses,
     writeRefused, awaitCommit, refreshed, refreshFails, retry, gateVars, storeVars, gameVars
<1>2. CASE Sends(s) BY <1>2 DEF Sends, write, writeFails, refreshCoins, gateVars, storeVars
<1>3. CASE Settles(s)
  BY <1>3 DEF Settles, reset, sendFailed, sendSettled, giveUp, rejected, consumed, unusable, commitFails,
     accepted, storeVars, gameVars
<1>4. CASE Validate(s) BY <1>4 DEF Validate, storeVars, gameVars
<1>5. QED BY <1>1, <1>2, <1>3, <1>4 DEF StepAct

\* A step's action leaves the other steps alone.
LEMMA OthersStay ==
    ASSUME Shaped, NEW s \in Steps, StepAct(s), NEW r \in Steps, r # s
    PROVE  /\ pc'[r] = pc[r] /\ try'[r] = try[r] /\ barrier'[r] = barrier[r]
           /\ conn'[r] = conn[r] /\ answer'[r] = answer[r] /\ outcome'[r] = outcome[r]
<1> USE DEF Shaped, TypeOK
<1>1. CASE Quiet(s)
  <2>1. CASE prepare(s) BY <2>1 DEF prepare
  <2>2. CASE prepareFails(s) BY <2>2 DEF prepareFails, Finish
  <2>3. CASE refuseQueued(s) \/ readContext(s) \/ validateRefuses(s) \/ writeRefused(s) \/ awaitCommit(s)
    BY <2>3 DEF refuseQueued, readContext, validateRefuses, writeRefused, awaitCommit, Release
  <2>4. CASE refreshed(s) \/ refreshFails(s) BY <2>4 DEF refreshed, refreshFails, Finish
  <2>5. CASE retry(s) BY <2>5 DEF retry, Finish
  <2>6. QED BY <1>1, <2>1, <2>2, <2>3, <2>4, <2>5 DEF Quiet
<1>2. CASE Sends(s) BY <1>2 DEF Sends, write, writeFails, refreshCoins, Release
<1>3. CASE Settles(s)
  <2>0. CASE reset(s) BY <2>0 DEF reset
  <2>1. CASE sendFailed(s) \/ sendSettled(s) \/ giveUp(s) \/ rejected(s) \/ unusable(s) \/ commitFails(s)
    BY <2>1 DEF sendFailed, sendSettled, giveUp, rejected, unusable, commitFails, Finish
  <2>2. CASE consumed(s) \/ accepted(s) BY <2>2 DEF consumed, accepted, Finish
  <2>3. QED BY <1>3, <2>0, <2>1, <2>2 DEF Settles
<1>4. CASE Validate(s) BY <1>4 DEF Validate, Release
<1>5. QED BY <1>1, <1>2, <1>3, <1>4 DEF StepAct

-----------------------------------------------------------------------------
(* Types.                                                                  *)

DebitsTo(time) == [gen : 0..(MaxReconnects + 1), reserved : 0..time, settled : 0..time]

\* What the gate makes of its debits has the times and connections of its state.
LEMMA GateTyped ==
    ASSUME Shaped, NEW s \in Steps
    PROVE  /\ Key(s) \in Keys
           /\ Dropped(Key(s)) \in [Keys -> DebitsTo(clock)]
           /\ Marked(Key(s)) \in [Keys -> DebitsTo(clock)]
<1> DEFINE K == Key(s)
<1>0. MaxReconnects \in Nat BY BoundsAssumption
<1>1. K \in Keys BY DEF Shaped, TypeOK, Key, Keys
<1>2. pending \in [Keys -> DebitsTo(clock)] /\ clock \in Nat BY DEF Shaped, TypeOK, DebitsTo
<1>3. NoDebit \in DebitsTo(clock) BY <1>0, <1>2 DEF NoDebit, DebitsTo
<1>4. Dropped(K) \in [Keys -> DebitsTo(clock)] BY <1>1, <1>2, <1>3 DEF Dropped
<1>5. pending[K] \in DebitsTo(clock) BY <1>1, <1>2
<1>6. [gen |-> pending[K].gen, reserved |-> pending[K].reserved, settled |-> clock] \in DebitsTo(clock)
  BY <1>2, <1>5 DEF DebitsTo
<1>7. Marked(K) \in [Keys -> DebitsTo(clock)] BY <1>1, <1>2, <1>3, <1>6 DEF Marked, Settled
<1>8. QED BY <1>1, <1>4, <1>7

\* A settling action drops or marks the debit of its try, and the watermark can
\* only move to the balance in the store.
LEMMA SettlesGate ==
    ASSUME SettlementInv, NEW s \in Steps, Settles(s)
    PROVE  /\ pending' = Dropped(Key(s)) \/ pending' = Marked(Key(s))
           /\ watermark' = watermark \/ watermark' = observation
           /\ UNCHANGED <<view, fresh>> /\ (reset(s) \/ worker' = worker)
<1>1. CASE consumed(s) \/ accepted(s)
  <2>1. PICK frame : Completed(s, frame) BY <1>1 DEF consumed, accepted
  <2>2. pending' = Dropped(Key(s)) \/ pending' = Marked(Key(s))
    BY <2>1, CompletedFacts DEF SettlementInv
  <2>3. watermark' = watermark \/ watermark' = observation BY <2>1 DEF Completed
  <2>4. QED BY <1>1, <2>2, <2>3 DEF consumed, accepted
<1>2. CASE ~(consumed(s) \/ accepted(s))
  BY <1>2 DEF Settles, reset, sendFailed, sendSettled, giveUp, rejected, unusable, commitFails
<1>3. QED BY <1>1, <1>2

\* The observations that the gate and the store hold after a step's action.
LEMMA StepObserved ==
    ASSUME SettlementInv, NEW s \in Steps, StepAct(s)
    PROVE  /\ observation' = observation
           /\ watermark' \in Observed
           /\ view' \in {view, NoView, [generation |-> generation, observation |-> observation]}
           /\ view'.observation \in Observed \cup {Unobserved}
<1>1. observation' = observation BY StepLeaves
<1>2. watermark' \in Observed
  <2>1. CASE Settles(s) BY <2>1, SettlesGate DEF Observed
  <2>2. CASE Validate(s) BY <2>2 DEF Validate, Observed
  <2>3. QED BY <2>1, <2>2, StepLeaves DEF Observed
<1>3. view' \in {view, NoView, [generation |-> generation, observation |-> observation]}
  <2>1. CASE Settles(s) BY <2>1, SettlesGate
  <2>2. CASE Validate(s) BY <2>2 DEF Validate
  <2>3. CASE Quiet(s)
    BY <2>3 DEF Quiet, prepare, prepareFails, refuseQueued, readContext, validateRefuses,
       writeRefused, awaitCommit, refreshed, refreshFails, retry, gateVars
  <2>4. CASE Sends(s) BY <2>4 DEF Sends, write, writeFails, refreshCoins, gateVars
  <2>5. QED BY <2>1, <2>2, <2>3, <2>4 DEF StepAct
<1>4. QED BY <1>1, <1>2, <1>3 DEF Observed, NoView

\* Validate releases debits, keeps the others and may add that of its step.
LEMMA ValidateGate ==
    ASSUME Shaped, NEW s \in Steps, Validate(s)
    PROVE  /\ pending' \in [Keys -> DebitsTo(clock)]
           /\ \A k \in Keys :
                 \/ pending'[k] = NoDebit /\ k \in Released(view.observation)
                 \/ pending'[k] = pending[k] /\ k \notin Released(view.observation)
                 \/ k = Key(s) /\ pending'[k] = [gen |-> view.observation.gen, reserved |-> clock, settled |-> 0]
<1> DEFINE o == view.observation
           kept == [k \in Keys |-> IF k \in Released(o) THEN NoDebit ELSE pending[k]]
           debit == [gen |-> o.gen, reserved |-> clock, settled |-> 0]
<1>0. MaxReconnects \in Nat BY BoundsAssumption
<1>1. pending \in [Keys -> DebitsTo(clock)] /\ clock \in Nat BY DEF Shaped, TypeOK, DebitsTo
<1>2. NoDebit \in DebitsTo(clock) BY <1>0, <1>1 DEF NoDebit, DebitsTo
<1>3. kept \in [Keys -> DebitsTo(clock)] BY <1>1, <1>2
<1>4. Key(s) \in Keys BY GateTyped
<1>5. pending' = kept \/ pending' = [kept EXCEPT ![Key(s)] = debit] BY DEF Validate
<1>6. \A k \in Keys : kept[k] = IF k \in Released(o) THEN NoDebit ELSE pending[k] OBVIOUS
<1>7. \A k \in Keys :
                 \/ pending'[k] = NoDebit /\ k \in Released(o)
                 \/ pending'[k] = pending[k] /\ k \notin Released(o)
                 \/ k = Key(s) /\ pending'[k] = debit
  BY <1>3, <1>4, <1>5, <1>6
<1>8. o.gen \in 0..(MaxReconnects + 1) BY <1>0 DEF Shaped, TypeOK, Observed, Observations
<1>9. debit \in DebitsTo(clock) BY <1>1, <1>8 DEF DebitsTo
<1>10. QED BY <1>3, <1>4, <1>5, <1>7, <1>9

\* The command that a step puts on the wire.
LEMMA SendsOut ==
    ASSUME Shaped, NEW s \in Steps, Sends(s)
    PROVE  \/ writeFails(s) /\ outgoing' = outgoing
           \/ /\ write(s) \/ writeFails(s)
              /\ outgoing' = Append(outgoing, [key |-> Key(s), kind |-> "spend"])
           \/ refreshCoins(s) /\ outgoing' = Append(outgoing, [key |-> Key(s), kind |-> "balance"])
<1>1. outgoing \in Seq(Commands) /\ [key |-> Key(s), kind |-> "spend"] \in Commands
  BY GateTyped DEF Shaped, Commands
<1>2. outgoing \o << >> = outgoing BY <1>1
<1>3. \A e \in Commands : outgoing \o <<e>> = Append(outgoing, e) BY <1>1
<1>4. QED BY <1>1, <1>2, <1>3 DEF Sends, write, writeFails, refreshCoins

\* The places, tries, commands and answers of a step's action.
LEMMA ShapedStep ==
    ASSUME SettlementInv, SettlementInv', Shaped, NEW s \in Steps, StepAct(s)
    PROVE  Shaped'
<1>0. MaxReconnects \in Nat BY BoundsAssumption
<1>1. UNCHANGED <<observation, generation, clock, ingest, incoming, purse, pushes, served>>
  BY StepLeaves
<1>2. /\ observation' = observation /\ watermark' \in Observed
      /\ view' \in {view, NoView, [generation |-> generation, observation |-> observation]}
  BY StepObserved
<1>3. /\ view' \in [generation : Nat, observation : Observations]
      /\ {view'.observation, watermark', observation'} \subseteq Observations
      /\ \A x \in Observed' : x.gen <= generation'
  <2>1. Unobserved \in Observations BY DEF Unobserved, Observations
  <2>2. NoView \in [generation : Nat, observation : Observations] BY <2>1 DEF NoView
  <2>3. Observed \subseteq Observations /\ generation \in Nat BY <1>0 DEF Shaped, TypeOK, Observed
  <2>4. view' \in [generation : Nat, observation : Observations]
    BY <1>2, <2>2, <2>3 DEF Shaped, Observed
  <2>5. view'.observation \in Observed \cup {Unobserved} BY StepObserved
  <2>6. \A x \in Observed \cup {Unobserved} : x.gen <= generation
    BY <2>3 DEF Shaped, Unobserved
  <2>7. Observed' \subseteq Observed \cup {Unobserved} BY <1>2, <2>5 DEF Observed
  <2>8. {view'.observation, watermark', observation'} \subseteq Observations
    <3>1. observation \in Observed BY DEF Observed
    <3>2. QED BY <1>2, <2>1, <2>3, <2>5, <3>1
  <2>9. \A x \in Observed' : x.gen <= generation' BY <1>1, <2>6, <2>7
  <2>10. QED BY <2>4, <2>8, <2>9
<1>4. pending' \in [Keys -> DebitsTo(clock')]
  <2>1. CASE Settles(s) BY <1>1, <2>1, SettlesGate, GateTyped
  <2>2. CASE Validate(s) BY <1>1, <2>2, ValidateGate
  <2>3. CASE ~(Settles(s) \/ Validate(s)) BY <1>1, <2>3, StepLeaves DEF Shaped, TypeOK, DebitsTo
  <2>4. QED BY <2>1, <2>2, <2>3
<1>5. early' \subseteq Keys
  <2>1. CASE Validate(s) BY <2>1 DEF Validate, Released, Reserved, Shaped, TypeOK
  <2>2. QED BY <2>1, StepLeaves DEF Shaped, TypeOK
<1>6. outgoing' \in Seq(Commands)
  <2>1. CASE Sends(s)
    <3>1. \A kind \in {"spend", "balance"} : [key |-> Key(s), kind |-> kind] \in Commands
      BY GateTyped DEF Commands
    <3>2. outgoing \in Seq(Commands) BY DEF Shaped
    <3>3. \A e \in Commands : Append(outgoing, e) \in Seq(Commands) BY <3>2, AppendFacts
    <3>4. QED BY <2>1, <3>1, <3>2, <3>3, SendsOut
  <2>2. QED BY <2>1, StepLeaves DEF Shaped
<1>7. /\ barrier' \in [Steps -> {"none", "wire", "committed", "wireThenCommitted"}]
      /\ conn' \in [Steps -> 0..(MaxReconnects + 1)]
  <2>1. CASE prepare(s)
    <3>1. generation \in 0..(MaxReconnects + 1) BY <1>0 DEF Shaped, TypeOK
    <3>2. QED BY <2>1, <3>1, BarriersAssumption DEF prepare, Shaped, TypeOK
  <2>2. CASE ~prepare(s)
    <3>1. UNCHANGED <<barrier, conn>>
      BY <2>2 DEF StepAct, Quiet, Sends, Settles, prepareFails, refuseQueued, readContext,
         validateRefuses, writeRefused, awaitCommit, refreshed, refreshFails, retry, write,
         writeFails, refreshCoins, reset, sendFailed, sendSettled, giveUp, rejected, consumed, unusable,
         commitFails, accepted, Validate
    <3>2. QED BY <3>1 DEF Shaped, TypeOK
  <2>3. QED BY <2>1, <2>2
<1>8. worker' \in Steps \cup {NoStep} /\ fresh' \subseteq Steps
  BY DEF Shaped, TypeOK, StepAct, Quiet, Sends, Settles, prepare, prepareFails, refuseQueued,
     readContext, validateRefuses, writeRefused, awaitCommit, refreshed, refreshFails, retry, write,
     writeFails, refreshCoins, reset, sendFailed, sendSettled, giveUp, rejected, consumed, unusable,
     commitFails, accepted, Validate, gateVars, Release
<1>9. /\ answer' = answer \/ answer' = [answer EXCEPT ![s] = NoFrame]
      /\ outcome' \in [Steps -> {"none", "succeeded", "failed", "indeterminate"}]
  <2>1. answer' = answer \/ answer' = [answer EXCEPT ![s] = NoFrame]
    BY DEF Finish, StepAct, Quiet, Sends, Settles, prepare, prepareFails, refuseQueued,
       readContext, validateRefuses, writeRefused, awaitCommit, refreshed, refreshFails, retry,
       write, writeFails, refreshCoins, reset, sendFailed, sendSettled, giveUp, rejected, consumed,
       unusable, commitFails, accepted, Validate
  <2>2. QED BY <2>1 DEF SettlementInv, Abandoned, Results
<1>10. answer' \in [Steps -> Frames \cup {NoFrame}] BY <1>9 DEF Shaped
<1>11. /\ pc' \in [Steps -> {"ready", "queued", "refused", "uncertain", "sent", "retrying", "done"}
                          \cup Dispatching \cup Waiting]
       /\ try' \in [Steps -> 1..MaxTries]
  BY DEF SettlementInv, Typed, Places, Settling, Dispatching, Waiting
<1>12. TypeOK'
  BY <1>1, <1>3, <1>4, <1>5, <1>7, <1>8, <1>9, <1>11 DEF TypeOK, Shaped, DebitsTo, SettlementInv, Abandoned
<1>13. QED BY <1>1, <1>3, <1>6, <1>10, <1>12 DEF Shaped

\* Frames of the game, of ingest and of the watchers.
LEMMA FrameTyped ==
    ASSUME Shaped, NEW k \in Keys \cup {<<NoStep, 0>>},
           NEW code \in Responses \cup {"error", "balance", "push"}, NEW coins \in Int,
           NEW after \in SUBSET Keys
    PROVE  Frame(k, code, coins, after) \in Frames
<1>1. generation \in Nat BY BoundsAssumption DEF Shaped, TypeOK
<1>2. QED BY <1>1 DEF Frame, Frames

\* The same frame but for how its commit ended.
Same(f, g) ==
    /\ f.key = g.key /\ f.code = g.code /\ f.coins = g.coins
    /\ f.after = g.after /\ f.gen = g.gen /\ f.at = g.at

\* observeFrame stamps the frame that arrives and shows it to its watcher.
Stamped == [Head(incoming) EXCEPT !.at = clock + 1]

\* observeFrame: the first frame on its way gets its stamp and joins the ingest queue.
LEMMA ObserveFacts ==
    ASSUME Shaped, observeFrame
    PROVE  /\ UNCHANGED <<pc, try, barrier, conn, fresh, outcome, left, worker, view, pending, watermark,
                          observation, generation, outgoing, purse, pushes, served, early>>
           /\ clock' = clock + 1
           /\ incoming # <<>> /\ incoming' = Tail(incoming) /\ ingest' = Append(ingest, Stamped)
           /\ incoming[1] \in Frames /\ Stamped \in Frames /\ Stamped.at = clock + 1
           /\ Stamped.key = incoming[1].key /\ Stamped.code = incoming[1].code
           /\ Stamped.coins = incoming[1].coins /\ Stamped.after = incoming[1].after
           /\ Stamped.gen = incoming[1].gen
           /\ answer' \in [Steps -> Frames \cup {NoFrame}]
           /\ \A s \in Steps :
                 \/ answer'[s] = answer[s]
                 \/ /\ answer'[s] = Stamped
                    /\ pc[s] = "awaiting" /\ Stamped.key = Key(s)
<1>1. UNCHANGED <<pc, try, barrier, conn, fresh, outcome, left, worker, view, pending, watermark,
                  observation, generation, outgoing, purse, pushes, served, early>>
  BY DEF observeFrame, gateVars
<1>2. /\ clock' = clock + 1
      /\ incoming # <<>> /\ incoming' = Tail(incoming) /\ ingest' = Append(ingest, Stamped)
      /\ answer' = [s \in Steps |->
             IF Watches(s, Stamped, {"wire", "wireThenCommitted"}) THEN Stamped ELSE answer[s]]
  BY DEF observeFrame, Stamped
<1>3. Head(incoming) = incoming[1] /\ incoming[1] \in Frames BY <1>2, TailFacts DEF Shaped
<1>4. clock + 1 \in Nat BY DEF Shaped
<1>5. /\ Stamped \in Frames /\ Stamped.at = clock + 1
      /\ Stamped.key = incoming[1].key /\ Stamped.code = incoming[1].code
      /\ Stamped.coins = incoming[1].coins /\ Stamped.after = incoming[1].after
      /\ Stamped.gen = incoming[1].gen
  BY <1>3, <1>4 DEF Stamped, Frames
<1>6. answer' \in [Steps -> Frames \cup {NoFrame}]
  <2>1. \A s \in Steps : answer[s] \in Frames \cup {NoFrame} BY DEF Shaped
  <2>2. QED BY <1>2, <1>5, <2>1
<1>7. \A s \in Steps :
                 \/ answer'[s] = answer[s]
                 \/ /\ answer'[s] = Stamped
                    /\ pc[s] = "awaiting" /\ Stamped.key = Key(s)
  BY <1>2 DEF Watches
<1>8. QED BY <1>1, <1>2, <1>3, <1>5, <1>6, <1>7

\* observeFrame keeps the shape of the state.
LEMMA ShapedObserve ==
    ASSUME Shaped, observeFrame
    PROVE  Shaped'
<1>1. UNCHANGED <<pc, try, barrier, conn, fresh, outcome, left, worker, view, pending, watermark,
                  observation, generation, outgoing, purse, pushes, served, early>>
  BY ObserveFacts
<1>2. ingest' \in Seq(Frames) /\ incoming' \in Seq(Frames)
  <2>1. ingest \in Seq(Frames) /\ incoming \in Seq(Frames) BY DEF Shaped
  <2>2. Stamped \in Frames /\ incoming # <<>> BY ObserveFacts
  <2>3. Append(ingest, Stamped) \in Seq(Frames) BY <2>1, <2>2, AppendFacts
  <2>4. Tail(incoming) \in Seq(Frames) BY <2>1, <2>2, TailFacts
  <2>5. QED BY <2>3, <2>4, ObserveFacts
<1>3. clock \in Nat /\ clock' = clock + 1 BY ObserveFacts DEF Shaped
<1>4. pending' \in [Keys -> [gen : 0..(MaxReconnects + 1), reserved : 0..clock', settled : 0..clock']]
  <2>1. DebitsTo(clock) \subseteq DebitsTo(clock') BY <1>3 DEF DebitsTo
  <2>2. pending \in [Keys -> DebitsTo(clock)] BY DEF Shaped, TypeOK, DebitsTo
  <2>3. QED BY <1>1, <2>1, <2>2 DEF DebitsTo
<1>5. TypeOK' BY <1>1, <1>4 DEF Shaped, TypeOK
<1>6. Observed' = Observed BY <1>1 DEF Observed
<1>7. QED BY <1>1, <1>2, <1>3, <1>5, <1>6, ObserveFacts DEF Shaped

\* commitFrame takes the oldest frame, which may become the stored balance and
\* the answer of the step that waits for it.
LEMMA CommitFacts ==
    ASSUME Shaped, commitFrame
    PROVE  /\ UNCHANGED <<pc, try, barrier, conn, outcome, left, worker, view, pending, watermark,
                          generation, clock, outgoing, incoming, purse, pushes, served, early>>
           /\ fresh' \subseteq Steps
           /\ ingest # <<>> /\ ingest' = Tail(ingest) /\ ingest[1] \in Frames
           /\ \/ observation' = observation
              \/ /\ ingest[1].coins # NoCoins /\ ingest[1].gen = generation
                 /\ observation' = [gen |-> generation, at |-> ingest[1].at,
                                    coins |-> ingest[1].coins, after |-> ingest[1].after]
           /\ answer' \in [Steps -> Frames \cup {NoFrame}]
           /\ \A s \in Steps :
                 \/ answer'[s] = answer[s]
                 \/ /\ Same(answer'[s], ingest[1])
                    /\ \/ pc[s] = "awaiting" /\ ingest[1].key = Key(s)
                       \/ /\ pc[s] \in {"awaiting", "committing"}
                          /\ answer[s].code # "none" /\ answer[s].at = ingest[1].at
<1>1. UNCHANGED <<pc, try, barrier, conn, outcome, left, worker, view, pending, watermark,
                  generation, clock, outgoing, incoming, purse, pushes, served, early>>
  BY DEF commitFrame, gateVars, gameVars
<1>2. ingest # <<>> /\ ingest' = Tail(ingest) BY DEF commitFrame
<1>3. Head(ingest) = ingest[1] /\ ingest[1] \in Frames BY <1>2, TailFacts DEF Shaped
<1> DEFINE F(fate) == [Head(ingest) EXCEPT !.bad = (fate = "unreduced"), !.committed = TRUE]
           Gets(s, fate) ==
               /\ fate \in {"committed", "unreduced"}
               /\ \/ Watches(s, F(fate), {"committed"})
                  \/ /\ pc[s] \in {"awaiting", "committing"}
                     /\ barrier[s] = "wireThenCommitted"
                     /\ answer[s].code # "none" /\ answer[s].at = F(fate).at
<1>4. PICK fate \in {"committed", "unreduced", "unfenced", "dropped"} :
       /\ Foreign(F(fate)) => fate = "dropped"
       /\ observation' = IF fate \in {"unreduced", "dropped"} \/ F(fate).coins = NoCoins
                         THEN observation
                         ELSE [gen |-> generation, at |-> F(fate).at,
                               coins |-> F(fate).coins, after |-> F(fate).after]
       /\ answer' = [s \in Steps |-> IF Gets(s, fate) THEN F(fate) ELSE answer[s]]
       /\ fresh' = fresh \cup {s \in Steps : /\ pc[s] = "refreshWait" /\ fate = "committed"
                                             /\ F(fate).key = Key(s) /\ F(fate).code = "balance"}
  BY Zenon DEF commitFrame
<1>5. F(fate) \in Frames /\ Same(F(fate), ingest[1]) BY <1>3 DEF Frames, Same
<1>6. fresh' \subseteq Steps BY <1>4 DEF Shaped, TypeOK
<1>7. \/ observation' = observation
      \/ /\ ingest[1].coins # NoCoins /\ ingest[1].gen = generation
         /\ observation' = [gen |-> generation, at |-> ingest[1].at,
                            coins |-> ingest[1].coins, after |-> ingest[1].after]
  BY <1>4, <1>5 DEF Foreign, Same
<1>8. answer' \in [Steps -> Frames \cup {NoFrame}]
  <2>1. \A s \in Steps : answer[s] \in Frames \cup {NoFrame} BY DEF Shaped
  <2>2. QED BY <1>4, <1>5, <2>1
<1>9. ASSUME NEW s \in Steps
      PROVE  \/ answer'[s] = answer[s]
             \/ /\ Same(answer'[s], ingest[1])
                /\ \/ pc[s] = "awaiting" /\ ingest[1].key = Key(s)
                   \/ /\ pc[s] \in {"awaiting", "committing"}
                      /\ answer[s].code # "none" /\ answer[s].at = ingest[1].at
  <2>1. answer'[s] = IF Gets(s, fate) THEN F(fate) ELSE answer[s] BY <1>4
  <2>2. F(fate).key = ingest[1].key /\ F(fate).at = ingest[1].at BY <1>5 DEF Same
  <2>3. QED BY <1>5, <2>1, <2>2 DEF Watches
<1>10. QED BY <1>1, <1>2, <1>3, <1>6, <1>7, <1>8, <1>9

\* commitFrame keeps the shape of the state.
LEMMA ShapedCommit ==
    ASSUME Shaped, commitFrame
    PROVE  Shaped'
<1>1. UNCHANGED <<pc, try, barrier, conn, outcome, left, worker, view, pending, watermark,
                  generation, clock, outgoing, incoming, purse, pushes, served, early>>
  BY CommitFacts
<1>2. ingest' \in Seq(Frames)
  <2>1. ingest \in Seq(Frames) /\ ingest # <<>> /\ ingest' = Tail(ingest) BY CommitFacts DEF Shaped
  <2>2. QED BY <2>1, TailFacts
<1>3. observation' \in Observations /\ observation'.gen <= generation
  <2>1. generation \in Nat BY BoundsAssumption DEF Shaped, TypeOK
  <2>2. observation \in Observations /\ observation.gen <= generation BY DEF Shaped, TypeOK, Observed
  <2>3. ingest[1] \in Frames BY CommitFacts
  <2>4. QED BY <2>1, <2>2, <2>3, CommitFacts DEF Frames, Observations
<1>4. TypeOK' BY <1>1, <1>3, CommitFacts DEF Shaped, TypeOK
<1>5. \A x \in Observed' : x.gen <= generation' BY <1>1, <1>3 DEF Shaped, Observed
<1>6. QED BY <1>1, <1>2, <1>4, <1>5, CommitFacts DEF Shaped

\* The game answers with one frame, which counts all it has carried out when it
\* brings the balance.
Replied(f, k) ==
    /\ f \in Frames /\ incoming' = Append(incoming, f)
    /\ f.key = k /\ f.gen = generation
    /\ \/ f.coins = NoCoins /\ f.after = {}
       \/ f.coins = purse' /\ f.after = served'

\* serve: the game takes the first command, and pays for it or not.
LEMMA ServeFacts ==
    ASSUME Shaped, serve
    PROVE  /\ UNCHANGED <<stepVars, gateVars, storeVars, pushes, early>>
           /\ outgoing # <<>> /\ outgoing' = Tail(outgoing) /\ outgoing[1] \in Commands
           /\ purse' \in Nat /\ served' \subseteq Keys
           /\ \E f : /\ Replied(f, outgoing[1].key)
                     /\ \/ /\ outgoing[1].kind = "balance" /\ f.code = "balance"
                           /\ UNCHANGED <<purse, served>>
                        \/ /\ outgoing[1].kind = "spend" /\ f.code = "error"
                           /\ UNCHANGED <<purse, served>>
                        \/ /\ outgoing[1].kind = "spend" /\ f.code \in Responses
                           /\ purse' = purse - Cost /\ served' = served \cup {outgoing[1].key}
<1> DEFINE k == outgoing[1].key
<1>1. UNCHANGED <<stepVars, gateVars, storeVars, pushes, early>> BY DEF serve
<1>2. outgoing # <<>> /\ outgoing' = Tail(outgoing) BY DEF serve
<1>3. Head(outgoing) = outgoing[1] /\ outgoing[1] \in Commands BY <1>2, TailFacts DEF Shaped
<1>4. k \in Keys /\ purse \in Nat /\ served \subseteq Keys /\ NoCoins \in Int /\ Cost \in Nat
  BY <1>3, CoinsAssumption DEF Commands, Shaped, TypeOK, NoCoins
<1>6. CASE /\ outgoing[1].kind = "balance"
           /\ incoming' = Append(incoming, Frame(k, "balance", purse, served))
           /\ UNCHANGED <<purse, served>>
  <2> DEFINE f == Frame(k, "balance", purse, served)
  <2>1. f \in Frames BY <1>4, FrameTyped
  <2>2. f.key = k /\ f.gen = generation /\ f.coins = purse /\ f.after = served /\ f.code = "balance"
    BY DEF Frame
  <2>3. Replied(f, k) BY <1>6, <2>1, <2>2 DEF Replied
  <2>4. QED BY <1>1, <1>2, <1>3, <1>4, <1>6, <2>2, <2>3
<1>7. CASE /\ outgoing[1].kind = "spend"
           /\ incoming' = Append(incoming, Frame(k, "error", NoCoins, {}))
           /\ UNCHANGED <<purse, served>>
  <2> DEFINE f == Frame(k, "error", NoCoins, {})
  <2>1. f \in Frames BY <1>4, FrameTyped
  <2>2. f.key = k /\ f.gen = generation /\ f.coins = NoCoins /\ f.after = {} /\ f.code = "error"
    BY DEF Frame
  <2>3. Replied(f, k) BY <1>7, <2>1, <2>2 DEF Replied
  <2>4. QED BY <1>1, <1>2, <1>3, <1>4, <1>7, <2>2, <2>3
<1>8. CASE /\ outgoing[1].kind = "spend" /\ purse >= Cost
           /\ purse' = purse - Cost /\ served' = served \cup {k}
           /\ \E code \in Responses :
                 \/ incoming' = Append(incoming, Frame(k, code, NoCoins, {}))
                 \/ incoming' = Append(incoming, Frame(k, code, purse', served'))
  <2>1. PICK code \in Responses :
                 \/ incoming' = Append(incoming, Frame(k, code, NoCoins, {}))
                 \/ incoming' = Append(incoming, Frame(k, code, purse', served'))
    BY <1>8
  <2>2. purse' \in Nat /\ served' \subseteq Keys BY <1>4, <1>8
  <2>3. CASE incoming' = Append(incoming, Frame(k, code, NoCoins, {}))
    <3> DEFINE f == Frame(k, code, NoCoins, {})
    <3>1. f \in Frames BY <1>4, FrameTyped
    <3>2. f.key = k /\ f.gen = generation /\ f.coins = NoCoins /\ f.after = {} /\ f.code = code
      BY DEF Frame
    <3>3. Replied(f, k) BY <2>3, <3>1, <3>2 DEF Replied
    <3>4. QED BY <1>1, <1>2, <1>3, <1>8, <2>2, <3>2, <3>3
  <2>4. CASE incoming' = Append(incoming, Frame(k, code, purse', served'))
    <3> DEFINE f == Frame(k, code, purse', served')
    <3>1. f \in Frames BY <1>4, <2>2, FrameTyped
    <3>2. f.key = k /\ f.gen = generation /\ f.coins = purse' /\ f.after = served' /\ f.code = code
      BY DEF Frame
    <3>3. Replied(f, k) BY <2>4, <3>1, <3>2 DEF Replied
    <3>4. QED BY <1>1, <1>2, <1>3, <1>8, <2>2, <3>2, <3>3
  <2>5. QED BY <2>1, <2>3, <2>4
<1>9. QED BY <1>3, <1>6, <1>7, <1>8 DEF serve, Responses

\* push: the game sends the balance and nothing else changes.
LEMMA PushFacts ==
    ASSUME Shaped, push
    PROVE  /\ UNCHANGED <<stepVars, gateVars, storeVars, outgoing, purse, served, early>>
           /\ \E f : Replied(f, <<NoStep, 0>>) /\ f.code = "push"
<1> DEFINE f == Frame(<<NoStep, 0>>, "push", purse, served)
<1>1. purse \in Int /\ served \subseteq Keys BY DEF Shaped, TypeOK
<1>2. f \in Frames BY <1>1, FrameTyped
<1>3. f.key = <<NoStep, 0>> /\ f.gen = generation /\ f.coins = purse /\ f.after = served /\ f.code = "push"
  BY DEF Frame
<1>4. Replied(f, <<NoStep, 0>>) BY <1>2, <1>3 DEF Replied, push
<1>5. QED BY <1>3, <1>4 DEF push

\* serve and push keep the shape of the state.
LEMMA ShapedGame ==
    ASSUME Shaped, serve \/ push
    PROVE  Shaped'
<1>1. UNCHANGED <<stepVars, gateVars, storeVars, early>> BY ServeFacts, PushFacts
<1>2. incoming' \in Seq(Frames)
  <2>1. PICK f \in Frames : incoming' = Append(incoming, f) BY ServeFacts, PushFacts DEF Replied
  <2>2. QED BY <2>1, AppendFacts DEF Shaped
<1>3. outgoing' \in Seq(Commands)
  <2>1. CASE serve
    <3>1. outgoing \in Seq(Commands) /\ outgoing # <<>> /\ outgoing' = Tail(outgoing)
      BY <2>1, ServeFacts DEF Shaped
    <3>2. QED BY <3>1, TailFacts
  <2>2. CASE push BY <2>2, PushFacts DEF Shaped
  <2>3. QED BY <2>1, <2>2
<1>4. purse' \in Nat /\ served' \subseteq Keys BY ServeFacts, PushFacts DEF Shaped, TypeOK
<1>5. TypeOK' BY <1>1, <1>4 DEF Shaped, TypeOK, stepVars, gateVars, storeVars
<1>6. Observed' = Observed BY <1>1 DEF Observed, gateVars, storeVars
<1>7. QED BY <1>1, <1>2, <1>3, <1>5, <1>6 DEF Shaped, stepVars, gateVars, storeVars

\* reconnect: a new connection, with nothing on it.
LEMMA ReconnectFacts ==
    ASSUME Shaped, reconnect
    PROVE  /\ UNCHANGED <<stepVars, gateVars, observation, clock, ingest, purse, served, early>>
           /\ generation \in Nat /\ generation' = generation + 1
           /\ outgoing' = <<>> /\ incoming' = <<>>
BY BoundsAssumption DEF reconnect, Shaped, TypeOK

\* reconnect keeps the shape of the state.
LEMMA ShapedReconnect ==
    ASSUME Shaped, reconnect
    PROVE  Shaped'
<1>1. generation' \in 1..(MaxReconnects + 1) BY BoundsAssumption DEF reconnect, Shaped, TypeOK
<1>2. TypeOK' BY <1>1, ReconnectFacts DEF Shaped, TypeOK, stepVars, gateVars
<1>3. outgoing' \in Seq(Commands) /\ incoming' \in Seq(Frames) BY ReconnectFacts
<1>4. Observed' = Observed BY ReconnectFacts DEF Observed, gateVars
<1>5. \A x \in Observed : x.gen <= generation'
  <2>1. \A x \in Observed : x.gen \in Nat /\ x.gen <= generation
    BY DEF Shaped, TypeOK, Observed, Observations
  <2>2. QED BY <2>1, ReconnectFacts
<1>6. QED BY <1>2, <1>3, <1>4, <1>5, ReconnectFacts DEF Shaped, stepVars, gateVars

\* The actions of Next by their shape.
LEMMA NextCases ==
    Next <=> \/ \E s \in Steps : StepAct(s)
             \/ observeFrame \/ commitFrame \/ reconnect \/ serve \/ push
BY DEF Next, StepAct, Quiet, Sends, Settles

\* The first state has the shape.
LEMMA ShapedInit == Init => Shaped
<1> SUFFICES ASSUME Init PROVE Shaped OBVIOUS
<1>1. /\ MaxTries \in Nat /\ MaxTries > 0 /\ MaxReconnects \in Nat
      /\ purse \in Nat
  BY BoundsAssumption, CoinsAssumption DEF Init
<1>2. Unobserved \in Observations BY DEF Unobserved, Observations
<1>3. observation \in Observations BY <1>1 DEF Init, Observations
<1>4. view \in [generation : Nat, observation : Observations] BY <1>2 DEF Init, NoView
<1>5. pending \in [Keys -> [gen : 0..(MaxReconnects + 1), reserved : 0..clock, settled : 0..clock]]
  BY <1>1 DEF Init, NoDebit
<1>6. {view.observation, watermark, observation} \subseteq Observations
  BY <1>2, <1>3 DEF Init, NoView
<1>7. TypeOK BY <1>1, <1>5, <1>6 DEF Init, TypeOK
<1>8. \A x \in Observed : x.gen <= generation BY DEF Init, Observed, NoView, Unobserved
<1>9. QED BY <1>4, <1>7, <1>8 DEF Init, Shaped

\* Every action keeps the shape of the state.
LEMMA ShapedNext == SettlementInv /\ SettlementInv' /\ Shaped /\ [Next]_vars => Shaped'
<1> SUFFICES ASSUME SettlementInv, SettlementInv', Shaped, [Next]_vars PROVE Shaped' OBVIOUS
<1>1. CASE UNCHANGED vars
  BY <1>1 DEF vars, stepVars, gateVars, storeVars, gameVars, Shaped, TypeOK, Observed
<1>2. CASE Next
  BY <1>2, NextCases, ShapedStep, ShapedObserve, ShapedCommit, ShapedReconnect, ShapedGame
<1>3. QED BY <1>1, <1>2

-----------------------------------------------------------------------------
(* The dispatch: one step at a time, with debits of known connections.      *)

DispatchInv == SettlementInv /\ Shaped /\ Dispatched /\ Generations

\* The worker takes a step when it is free and leaves it when it is refused or
\* written.
LEMMA WorkerMoves ==
    ASSUME Shaped, NEW s \in Steps, StepAct(s)
    PROVE  \/ worker' = worker /\ (pc'[s] \in Dispatching <=> pc[s] \in Dispatching)
           \/ worker = NoStep /\ worker' = s /\ pc'[s] \in Dispatching
           \/ pc[s] \in Dispatching /\ worker' = NoStep /\ pc'[s] \notin Dispatching
<1> USE DEF Shaped, TypeOK, Dispatching, Waiting
<1>1. CASE Quiet(s)
  <2>1. CASE readContext(s) BY <2>1 DEF readContext
  <2>2. CASE validateRefuses(s) \/ writeRefused(s) BY <2>2 DEF validateRefuses, writeRefused, Release
  <2>3. CASE prepare(s) \/ prepareFails(s) \/ refuseQueued(s) \/ awaitCommit(s)
    BY <2>3 DEF prepare, prepareFails, refuseQueued, awaitCommit, gateVars, Finish, Answered
  <2>4. CASE refreshed(s) \/ refreshFails(s) \/ retry(s)
    BY <2>4 DEF refreshed, refreshFails, retry, gateVars, Finish
  <2>5. QED BY <1>1, <2>1, <2>2, <2>3, <2>4 DEF Quiet
<1>2. CASE Sends(s)
  <2>1. CASE write(s) \/ writeFails(s) BY <2>1 DEF write, writeFails, Release
  <2>2. CASE refreshCoins(s) BY <2>2 DEF refreshCoins, gateVars
  <2>3. QED BY <1>2, <2>1, <2>2 DEF Sends
<1>a. CASE reset(s) BY <1>a DEF reset
<1>3. CASE Settles(s) /\ ~reset(s)
  <2>1. worker' = worker
    BY <1>3 DEF Settles, reset, sendFailed, sendSettled, giveUp, rejected, consumed, unusable,
       commitFails, accepted
  <2>2. pc[s] \notin Dispatching /\ pc'[s] \notin Dispatching
    BY <1>3 DEF Settles, sendFailed, sendSettled, giveUp, rejected, consumed, unusable,
       commitFails, accepted, Answered, Finish
  <2>3. QED BY <2>1, <2>2
<1>4. CASE Validate(s) BY <1>4 DEF Validate, Release
<1>5. QED BY <1>1, <1>2, <1>a, <1>3, <1>4 DEF StepAct

\* The planning context is read and forgotten by the step that is dispatched.
LEMMA ViewMoves ==
    ASSUME NEW s \in Steps, StepAct(s)
    PROVE  \/ view' = view
           \/ readContext(s) /\ view' = [generation |-> generation, observation |-> observation]
           \/ (validateRefuses(s) \/ Validate(s)) /\ view' = NoView
<1>1. CASE Quiet(s)
  BY <1>1 DEF Quiet, prepare, prepareFails, refuseQueued, readContext, validateRefuses,
     writeRefused, awaitCommit, refreshed, refreshFails, retry, gateVars
<1>2. CASE Sends(s) BY <1>2 DEF Sends, write, writeFails, refreshCoins, gateVars
<1>3. CASE Settles(s)
  BY <1>3 DEF Settles, reset, sendFailed, sendSettled, giveUp, rejected, consumed, unusable,
     commitFails, accepted
<1>4. CASE Validate(s) BY <1>4 DEF Validate
<1>5. QED BY <1>1, <1>2, <1>3, <1>4 DEF StepAct

\* Keys of different steps differ, and so do those of different tries.
LEMMA KeysDiffer ==
    ASSUME Shaped, NEW r \in Steps
    PROVE  /\ Key(r) \in Keys /\ Key(r)[1] = r /\ Key(r)[2] = try[r]
           /\ \A s \in Steps : s # r => Key(s) # Key(r)
BY DEF Key, Keys, Shaped, TypeOK

\* A settling action keeps the connection of every debit and takes no debit but
\* its own.
LEMMA SettlesDebits ==
    ASSUME SettlementInv, NEW s \in Steps, Settles(s), NEW k \in Keys
    PROVE  /\ k # Key(s) => pending'[k] = pending[k]
           /\ \/ pending'[k] = NoDebit
              \/ /\ pending'[k].gen = pending[k].gen /\ pending[k] # NoDebit
                 /\ \/ pending'[k] = pending[k]
                    \/ k = Key(s) /\ pending'[k].settled = clock
<1>1. pending' = Dropped(Key(s)) \/ pending' = Marked(Key(s)) BY SettlesGate
<1>2. Key(s) \in Keys /\ pending \in [Keys -> Debits] BY DroppedFacts DEF SettlementInv, Typed
<1>3. CASE pending' = Dropped(Key(s))
  <2>1. CASE k # Key(s)
    <3>1. pending'[k] = pending[k] BY <1>2, <1>3, <2>1 DEF Dropped
    <3>2. QED BY <2>1, <3>1
  <2>2. CASE k = Key(s) BY <1>2, <1>3, <2>2 DEF Dropped
  <2>3. QED BY <2>1, <2>2
<1>4. CASE pending' = Marked(Key(s))
  <2>1. CASE k # Key(s)
    <3>1. pending'[k] = pending[k] BY <1>2, <1>4, <2>1 DEF Marked, Settled
    <3>2. QED BY <2>1, <3>1
  <2>2. CASE k = Key(s) /\ pending[k] = NoDebit BY <1>2, <1>4, <2>2 DEF Marked, Settled
  <2>3. CASE k = Key(s) /\ pending[k] # NoDebit BY <1>2, <1>4, <2>3 DEF Marked, Settled
  <2>4. QED BY <2>1, <2>2, <2>3
<1>5. QED BY <1>1, <1>3, <1>4

\* An action of a step keeps what is known of the debit of its own try.
LEMMA OwnDebit ==
    ASSUME DispatchInv, NEW s \in Steps, StepAct(s)
    PROVE  CurrentDebit(s)'
<1> USE DEF DispatchInv
<1>1. CurrentDebit(s) BY DEF Dispatched, CurrentDebit
<1>2. pc \in [Steps -> Places] /\ try \in [Steps -> 1..MaxTries]
  BY DEF SettlementInv, Typed
<1>3. CASE prepare(s)
  <2>1. pc[s] = "ready" /\ pc'[s] = "queued" /\ try' = try /\ pending' = pending
    BY <1>2, <1>3 DEF prepare, gateVars
  <2>2. QED BY <1>1, <2>1 DEF CurrentDebit, Key
<1>4. CASE retry(s) /\ try' # try
  <2>1. pc'[s] = "ready" /\ try'[s] = try[s] + 1 /\ pending' = pending
    BY <1>2, <1>4 DEF retry, gateVars, Finish
  <2>2. Key(s)' \in Keys => pending[Key(s)'] = NoDebit
    BY <1>2, <2>1, BoundsAssumption DEF SettlementInv, DebitsFollowTries, Key
  <2>3. try'[s] \in 1..MaxTries BY <1>2, <1>4, BoundsAssumption DEF retry
  <2>4. Key(s)' \in Keys BY <2>3 DEF Key, Keys
  <2>5. QED BY <2>1, <2>2, <2>4 DEF CurrentDebit
<1>5. CASE ~prepare(s) /\ ~(retry(s) /\ try' # try) /\ (Quiet(s) \/ Sends(s))
  <2>1. try' = try /\ conn' = conn /\ pending' = pending
    BY <1>5 DEF Quiet, Sends, prepareFails, refuseQueued, readContext, validateRefuses,
       writeRefused, awaitCommit, refreshed, refreshFails, retry, write, writeFails, refreshCoins,
       gateVars
  <2>2. /\ pc'[s] \in {"ready", "queued", "taken"} => pc'[s] = pc[s]
        /\ pc'[s] = "snapshot1" => pc[s] \in {"queued", "taken"}
        /\ pc'[s] \in {"approved1", "approved2"} => pc'[s] = pc[s]
        /\ pc'[s] = "snapshot2" => pc[s] = "approved1"
    <3>1. CASE retry(s)
      <4>1. ~(try' = [try EXCEPT ![s] = try[s] + 1]) BY <1>2, <1>5, <2>1, <3>1
      <4>2. QED BY <1>2, <3>1, <4>1 DEF retry, Finish
    <3>2. CASE ~retry(s)
      BY <1>2, <1>5, <3>2 DEF Quiet, Sends, prepareFails, refuseQueued, readContext,
         validateRefuses, writeRefused, awaitCommit, refreshed, refreshFails, write, writeFails,
         refreshCoins, Release, Finish
    <3>3. QED BY <3>1, <3>2
  <2>3. QED BY <1>1, <2>1, <2>2 DEF CurrentDebit, Key
<1>a. CASE reset(s)
  <2>1. try' = try /\ conn' = conn BY <1>a DEF reset
  <2>2. Key(s) \in Keys /\ pending \in [Keys -> Debits] BY KeysDiffer DEF SettlementInv, Typed
  <2>3. CASE /\ pc'[s] \in {"taken", "snapshot1"} /\ pc[s] \in {"queued", "snapshot1"}
             /\ pending' = Dropped(Key(s))
    <3>1. pending'[Key(s)] = NoDebit BY <2>2, <2>3 DEF Dropped
    <3>2. QED BY <2>1, <2>3, <3>1 DEF CurrentDebit, Key
  <2>4. CASE /\ pc'[s] = pc[s] /\ pc[s] \in {"approved1", "snapshot2", "approved2"}
             /\ pending' = Marked(Key(s))
    <3>1. pending[Key(s)] # NoDebit BY <1>1, <2>4 DEF CurrentDebit
    <3>2. pending'[Key(s)] # NoDebit /\ pending'[Key(s)].gen = pending[Key(s)].gen
      <4>1. clock # 0 BY DEF SettlementInv, Typed
      <4>2. pending'[Key(s)] = [gen |-> pending[Key(s)].gen, reserved |-> pending[Key(s)].reserved,
                                settled |-> clock]
        BY <2>2, <2>4, <3>1 DEF Marked, Settled
      <4>3. QED BY <4>1, <4>2 DEF NoDebit
    <3>3. QED BY <1>1, <2>1, <2>4, <3>1, <3>2 DEF CurrentDebit, Key
  <2>5. QED BY <1>2, <1>a, <2>3, <2>4 DEF reset
<1>6. CASE Settles(s) /\ ~reset(s)
  <2>1. try' = try /\ conn' = conn
    BY <1>6 DEF Settles, reset, sendFailed, sendSettled, giveUp, rejected, consumed, unusable,
       commitFails, accepted
  <2>2. pc'[s] \in {"done", "refreshing", "retrying"}
    BY <1>2, <1>6 DEF Settles, sendFailed, sendSettled, giveUp, rejected, consumed, unusable,
       commitFails, accepted, Finish
  <2>3. Key(s) \in Keys BY KeysDiffer
  <2>4. pending'[Key(s)] # NoDebit => pending[Key(s)] # NoDebit /\ pending'[Key(s)].gen = pending[Key(s)].gen
    BY <1>6, <2>3, SettlesDebits
  <2>5. QED BY <1>1, <2>1, <2>2, <2>4 DEF CurrentDebit, Key
<1>7. CASE Validate(s)
  <2>1. try' = try /\ conn' = conn BY <1>7 DEF Validate
  <2>2. Key(s) \in Keys BY KeysDiffer
  <2>3. pc'[s] \notin {"ready", "queued", "taken", "snapshot1", "snapshot2"}
    BY <1>2, <1>7 DEF Validate, Release
  <2>4. pc'[s] \in {"approved1", "approved2"} => pending'[Key(s)] # NoDebit
    <3> DEFINE kept == [k \in Keys |-> IF k \in Released(view.observation) THEN NoDebit ELSE pending[k]]
               debit == [gen |-> view.observation.gen, reserved |-> clock, settled |-> 0]
    <3>1. \/ pc'[s] \in {"refused", "done"}
          \/ pending' = IF kept[Key(s)] # NoDebit THEN kept ELSE [kept EXCEPT ![Key(s)] = debit]
      BY <1>2, <1>7 DEF Validate, Release
    <3>2. debit # NoDebit
      BY DEF NoDebit, Shaped
    <3>3. QED BY <2>2, <3>1, <3>2
  <2>5. conn[s] <= view.observation.gen
    <3>1. pc[s] \in {"snapshot1", "snapshot2"} /\ view.observation.gen = view.generation
      BY <1>7 DEF Validate, Missing
    <3>2. QED BY <3>1 DEF Generations, CurrentView
  <2>6. pending'[Key(s)] # NoDebit => conn[s] <= pending'[Key(s)].gen
    BY <1>1, <1>7, <2>2, <2>5, ValidateGate DEF CurrentDebit
  <2>7. QED BY <2>1, <2>3, <2>4, <2>6 DEF CurrentDebit, Key
<1>8. QED BY <1>3, <1>4, <1>5, <1>a, <1>6, <1>7 DEF StepAct

\* An action of a step keeps the worker at one step.
LEMMA DispatchedStep ==
    ASSUME DispatchInv, NEW s \in Steps, StepAct(s)
    PROVE  Dispatched'
<1> USE DEF DispatchInv
<1>1. ASSUME NEW r \in Steps PROVE pc'[r] \in Dispatching <=> worker' = r
  <2>1. CASE r = s
    <3>1. s # NoStep BY StepsAssumption
    <3>2. QED BY <2>1, <3>1, WorkerMoves DEF Dispatched
  <2>2. CASE r # s
    <3>1. pc'[r] = pc[r] BY <2>2, OthersStay
    <3>2. r # NoStep BY StepsAssumption
    <3>3. QED BY <2>2, <3>1, <3>2, WorkerMoves DEF Dispatched
  <2>3. QED BY <2>1, <2>2
<1>2. ASSUME NEW r \in Steps PROVE CurrentDebit(r)'
  <2>1. CASE r = s BY <2>1, OwnDebit
  <2>2. CASE r # s
    <3>1. pc'[r] = pc[r] /\ try'[r] = try[r] /\ conn'[r] = conn[r] BY <2>2, OthersStay
    <3>2. Key(r)' = Key(r) /\ Key(r) \in Keys /\ Key(r) # Key(s) BY <2>2, <3>1, KeysDiffer DEF Key
    <3>3. CurrentDebit(r) BY DEF Dispatched, CurrentDebit
    <3>4. CASE Validate(s)
      <4>1. pc[s] \in Dispatching BY <3>4 DEF Validate, Dispatching
      <4>2. pc[r] \notin Dispatching BY <2>2, <4>1 DEF Dispatched
      <4>3. pending'[Key(r)] = NoDebit \/ pending'[Key(r)] = pending[Key(r)]
        BY <3>2, <3>4, ValidateGate
      <4>4. QED BY <3>1, <3>2, <3>3, <4>2, <4>3 DEF CurrentDebit, Dispatching
    <3>5. CASE ~Validate(s)
      <4>1. pending'[Key(r)] = pending[Key(r)] BY <3>2, <3>5, StepLeaves, SettlesDebits
      <4>2. QED BY <3>1, <3>2, <3>3, <4>1 DEF CurrentDebit
    <3>6. QED BY <3>4, <3>5
  <2>3. QED BY <2>1, <2>2
<1>3. QED BY <1>1, <1>2 DEF Dispatched, CurrentDebit

\* An action of a step keeps everything within the connections so far.
LEMMA GenerationsStep ==
    ASSUME DispatchInv, Shaped', NEW s \in Steps, StepAct(s)
    PROVE  Generations'
<1> USE DEF DispatchInv
<1>0. generation \in Nat /\ conn \in [Steps -> Nat] BY BoundsAssumption DEF Shaped, TypeOK
<1>1. UNCHANGED <<observation, generation, clock, ingest, incoming>> BY StepLeaves
<1>2. ASSUME NEW r \in Steps PROVE conn'[r] <= generation'
  <2>1. CASE prepare(s)
    <3>1. conn' = [conn EXCEPT ![s] = generation] BY <2>1 DEF prepare
    <3>2. QED BY <1>0, <1>1, <3>1 DEF Generations
  <2>2. CASE ~prepare(s)
    <3>1. conn' = conn
      BY <2>2 DEF StepAct, Quiet, Sends, Settles, prepareFails, refuseQueued, readContext,
         validateRefuses, writeRefused, awaitCommit, refreshed, refreshFails, retry, write,
         writeFails, refreshCoins, reset, sendFailed, sendSettled, giveUp, rejected, consumed, unusable,
         commitFails, accepted, Validate
    <3>2. QED BY <1>1, <3>1 DEF Generations
  <2>3. QED BY <2>1, <2>2
<1>3. ASSUME NEW k \in Keys
      PROVE  \/ pending'[k].gen = pending[k].gen
             \/ pending'[k].gen = 0
             \/ Validate(s) /\ pending'[k].gen = view.observation.gen
  <2>1. NoDebit.gen = 0 BY DEF NoDebit
  <2>2. CASE Validate(s) BY <2>1, <2>2, ValidateGate
  <2>3. CASE ~Validate(s) BY <2>1, <2>3, StepLeaves, SettlesDebits
  <2>4. QED BY <2>2, <2>3
<1>4. ASSUME NEW k \in Keys PROVE pending'[k].gen <= generation'
  <2>1. pending[k].gen <= generation /\ view.observation.gen <= generation
    BY DEF Generations, Shaped, Observed
  <2>2. QED BY <1>0, <1>1, <1>3, <2>1
<1>5. view'.generation <= generation'
  BY <1>0, <1>1, ViewMoves DEF Generations, NoView
<1>6. ASSUME NEW r \in Steps PROVE CurrentView(r)'
  <2>1. CASE r = s
    <3>1. CASE readContext(s)
      <4>1. view'.generation = generation /\ conn' = conn /\ pending' = pending
        BY <3>1 DEF readContext
      <4>2. QED BY <2>1, <4>1 DEF CurrentView, Generations
    <3>2. CASE ~readContext(s)
      <4>1. pc \in [Steps -> Places] BY DEF SettlementInv, Typed
      <4>2. CASE Quiet(s)
        <5>1. pc'[s] \notin {"snapshot1", "snapshot2"}
          BY <3>2, <4>1, <4>2 DEF Quiet, prepare, prepareFails, refuseQueued, validateRefuses,
             writeRefused, awaitCommit, refreshed, refreshFails, retry, Release, Finish
        <5>2. QED BY <2>1, <5>1 DEF CurrentView
      <4>a. CASE reset(s)
        <5>1. /\ view' = view /\ conn' = conn
              /\ pc'[s] \in {"snapshot1", "snapshot2"} => pc'[s] = pc[s]
          BY <4>1, <4>a DEF reset
        <5>2. ~Validate(s) BY <4>a DEF reset, Validate
        <5>3. view.generation \in Nat BY DEF Shaped
        <5>4. QED BY <1>3, <2>1, <5>1, <5>2, <5>3 DEF CurrentView, Generations
      <4>3. CASE (Sends(s) \/ Settles(s) \/ Validate(s)) /\ ~reset(s)
        <5>1. pc'[s] \notin {"snapshot1", "snapshot2"}
          BY <4>1, <4>3 DEF Sends, Settles, write, writeFails, refreshCoins, sendFailed,
             sendSettled, giveUp, rejected, consumed, unusable, commitFails, accepted, Validate,
             Release, Finish
        <5>2. QED BY <2>1, <5>1 DEF CurrentView
      <4>4. QED BY <4>2, <4>a, <4>3 DEF StepAct
    <3>3. QED BY <3>1, <3>2
  <2>2. CASE r # s /\ pc[r] \in {"snapshot1", "snapshot2"}
    <3>1. pc'[r] = pc[r] /\ conn'[r] = conn[r] BY <2>2, OthersStay
    <3>2. worker = r BY <2>2 DEF Dispatched, Dispatching
    <3>3. worker # s /\ worker # NoStep BY <2>2, <3>2, StepsAssumption
    <3>4. ~Validate(s) /\ ~validateRefuses(s) /\ ~readContext(s)
      BY <3>3 DEF Dispatched, Dispatching, Validate, validateRefuses, readContext
    <3>5. view' = view BY <3>4, ViewMoves
    <3>6. view.generation \in Nat BY DEF Shaped
    <3>7. QED BY <1>3, <2>2, <3>1, <3>4, <3>5, <3>6 DEF CurrentView, Generations
  <2>3. CASE r # s /\ pc[r] \notin {"snapshot1", "snapshot2"}
    <3>1. pc'[r] = pc[r] BY <2>3, OthersStay
    <3>2. QED BY <2>3, <3>1 DEF CurrentView
  <2>4. QED BY <2>1, <2>2, <2>3
<1>7. QED BY <1>1, <1>2, <1>4, <1>5, <1>6 DEF Generations, CurrentView

\* Ingest, the connection and the game leave the dispatch alone.
LEMMA DispatchOutside ==
    ASSUME DispatchInv, Shaped', observeFrame \/ commitFrame \/ reconnect \/ serve \/ push
    PROVE  Dispatched' /\ Generations'
<1> USE DEF DispatchInv
<1>0. generation \in Nat /\ ingest \in Seq(Frames) /\ incoming \in Seq(Frames)
  BY BoundsAssumption DEF Shaped, TypeOK
<1>1. UNCHANGED <<pc, try, conn, worker, view, pending>>
  BY ObserveFacts, CommitFacts, ReconnectFacts, ServeFacts, PushFacts DEF stepVars, gateVars
<1>2. Dispatched' BY <1>1 DEF Dispatched, CurrentDebit, Key
<1>3. generation' \in {generation, generation + 1}
  BY ObserveFacts, CommitFacts, ReconnectFacts, ServeFacts, PushFacts DEF storeVars
<1>4. ASSUME NEW n \in 1..Len(incoming') PROVE incoming'[n].gen <= generation'
  <2>1. CASE observeFrame
    <3>1. incoming # <<>> /\ incoming' = Tail(incoming) /\ generation' = generation
      BY <2>1, ObserveFacts
    <3>2. incoming'[n] = incoming[n + 1] /\ n + 1 \in 1..Len(incoming) BY <1>0, <3>1, TailFacts
    <3>3. QED BY <3>1, <3>2 DEF Generations
  <2>2. CASE commitFrame BY <2>2, CommitFacts DEF Generations
  <2>3. CASE reconnect BY <2>3, ReconnectFacts
  <2>4. CASE serve \/ push
    <3>1. PICK f \in Frames : incoming' = Append(incoming, f) /\ f.gen = generation
      BY <2>4, ServeFacts, PushFacts DEF Replied
    <3>2. generation' = generation BY <2>4, ServeFacts, PushFacts DEF storeVars
    <3>3. /\ Len(incoming') = Len(incoming) + 1 /\ incoming'[Len(incoming) + 1] = f
          /\ \A m \in 1..Len(incoming) : incoming'[m] = incoming[m]
      BY <1>0, <3>1, AppendFacts
    <3>4. n \in 1..Len(incoming) \/ n = Len(incoming) + 1 BY <1>0, <3>3
    <3>5. QED BY <1>0, <3>1, <3>2, <3>3, <3>4 DEF Generations
  <2>5. QED BY <2>1, <2>2, <2>3, <2>4
<1>5. ASSUME NEW n \in 1..Len(ingest') PROVE ingest'[n].gen <= generation'
  <2>1. CASE observeFrame
    <3>1. /\ incoming # <<>> /\ Stamped.gen = incoming[1].gen /\ generation' = generation
          /\ ingest' = Append(ingest, Stamped) /\ Stamped \in Frames
      BY <2>1, ObserveFacts
    <3>2. Stamped.gen <= generation BY <1>0, <3>1, TailFacts DEF Generations
    <3>3. /\ Len(ingest') = Len(ingest) + 1 /\ ingest'[Len(ingest) + 1] = Stamped
          /\ \A m \in 1..Len(ingest) : ingest'[m] = ingest[m]
      BY <1>0, <3>1, AppendFacts
    <3>4. n \in 1..Len(ingest) \/ n = Len(ingest) + 1 BY <1>0, <3>3
    <3>5. QED BY <3>1, <3>2, <3>3, <3>4 DEF Generations
  <2>2. CASE commitFrame
    <3>1. ingest # <<>> /\ ingest' = Tail(ingest) /\ generation' = generation BY <2>2, CommitFacts
    <3>2. ingest'[n] = ingest[n + 1] /\ n + 1 \in 1..Len(ingest) BY <1>0, <3>1, TailFacts
    <3>3. QED BY <3>1, <3>2 DEF Generations
  <2>3. CASE reconnect \/ serve \/ push
    <3>1. ingest' = ingest BY <2>3, ReconnectFacts, ServeFacts, PushFacts DEF storeVars
    <3>2. ingest[n] \in Frames BY <1>0, <3>1
    <3>3. QED BY <1>0, <1>3, <3>1, <3>2 DEF Generations, Frames
  <2>4. QED BY <2>1, <2>2, <2>3
<1>6. /\ \A s \in Steps : conn'[s] <= generation'
      /\ \A k \in Keys : pending'[k].gen <= generation'
      /\ view'.generation <= generation'
  <2>1. /\ \A s \in Steps : conn[s] \in Nat
        /\ \A k \in Keys : pending[k].gen \in Nat
        /\ view.generation \in Nat
    <3>1. \A s \in Steps : conn[s] \in Nat BY BoundsAssumption DEF Shaped, TypeOK
    <3>2. \A k \in Keys : pending[k].gen \in Nat BY DEF SettlementInv, Typed, Debits
    <3>3. view.generation \in Nat BY DEF Shaped
    <3>4. QED BY <3>1, <3>2, <3>3
  <2>2. QED BY <1>0, <1>1, <1>3, <2>1 DEF Generations
<1>7. Generations' BY <1>1, <1>4, <1>5, <1>6 DEF Generations, CurrentView
<1>8. QED BY <1>2, <1>7

\* The invariant of the dispatch holds at first.
LEMMA DispatchInvInit == Init => DispatchInv
<1> SUFFICES ASSUME Init PROVE DispatchInv OBVIOUS
<1>1. SettlementInv /\ Shaped BY SettlementInvInit, ShapedInit
<1>2. \A s \in Steps : Key(s) \in Keys BY <1>1, KeysDiffer
<1>3. Dispatched BY <1>2, StepsAssumption DEF Init, Dispatched, CurrentDebit, Dispatching
<1>4. NoDebit.gen = 0 BY DEF NoDebit
<1>5. Generations BY <1>4 DEF Init, Generations, CurrentView, NoView
<1>6. QED BY <1>1, <1>3, <1>5 DEF DispatchInv

\* Every action keeps the invariant of the dispatch.
LEMMA DispatchInvNext == DispatchInv /\ [Next]_vars => DispatchInv'
<1> SUFFICES ASSUME DispatchInv, [Next]_vars PROVE DispatchInv' OBVIOUS
<1>1. SettlementInv' /\ Shaped' BY SettlementInvNext, ShapedNext DEF DispatchInv
<1>2. CASE UNCHANGED vars
  BY <1>1, <1>2 DEF vars, stepVars, gateVars, storeVars, gameVars, DispatchInv, Dispatched,
     Generations, CurrentDebit, CurrentView, Key
<1>3. CASE \E s \in Steps : StepAct(s)
  BY <1>1, <1>3, DispatchedStep, GenerationsStep DEF DispatchInv
<1>4. CASE observeFrame \/ commitFrame \/ reconnect \/ serve \/ push
  BY <1>1, <1>4, DispatchOutside DEF DispatchInv
<1>5. QED BY <1>2, <1>3, <1>4, NextCases

-----------------------------------------------------------------------------
(* The stamps of the frames and of the balances.                           *)

\* Every action keeps the order of the stamps.
LEMMA StampsNext == DispatchInv /\ Stamps /\ [Next]_vars => Stamps'
<1> SUFFICES ASSUME DispatchInv, Stamps, [Next]_vars PROVE Stamps' OBVIOUS
<1> USE DEF DispatchInv
<1>0. /\ ingest \in Seq(Frames) /\ clock \in Nat /\ generation \in Nat /\ Len(ingest) \in Nat
      /\ Observed \subseteq Observations /\ observation \in Observed
  BY BoundsAssumption DEF Shaped, TypeOK, Observed
<1>1. \A x \in Observed : x.at \in Nat /\ x.gen \in Nat /\ x.gen <= generation
  BY <1>0 DEF Observations, Shaped
<1>2. \A n \in 1..Len(ingest) : ingest[n].at \in Nat
  <2>1. \A n \in 1..Len(ingest) : ingest[n] \in Frames BY <1>0
  <2>2. QED BY <2>1 DEF Frames
<1>3. ASSUME observation' = observation, clock' = clock, ingest' = ingest,
             Observed' \subseteq Observed \cup {Unobserved}
      PROVE  Stamps'
  <2>1. Unobserved.at = 0 /\ Unobserved.gen = 0 BY DEF Unobserved
  <2>2. \A x \in Observed' : x.at <= observation.at /\ (x.at = 0 => x.gen = 0)
    BY <1>0, <1>1, <1>3, <2>1 DEF Stamps
  <2>3. ASSUME NEW x \in Observed', NEW y \in Observed', x.at <= y.at PROVE x.gen <= y.gen
    <3>1. CASE x = Unobserved BY <1>1, <1>3, <2>1, <3>1
    <3>2. CASE x # Unobserved /\ y = Unobserved BY <1>1, <1>3, <2>1, <2>2, <2>3, <3>2
    <3>3. CASE x # Unobserved /\ y # Unobserved
      <4>1. x \in Observed /\ y \in Observed BY <1>3, <2>3, <3>3
      <4>2. QED BY <2>3, <4>1 DEF Stamps
    <3>4. QED BY <3>1, <3>2, <3>3
  <2>4. QED BY <1>3, <2>2, <2>3 DEF Stamps
<1>4. ASSUME NEW s \in Steps, StepAct(s) PROVE Stamps'
  <2>1. UNCHANGED <<observation, clock, ingest>> BY <1>4, StepLeaves
  <2>2. watermark' \in Observed /\ view'.observation \in Observed \cup {Unobserved}
    BY <1>4, StepObserved
  <2>3. Observed' \subseteq Observed \cup {Unobserved} BY <1>0, <2>1, <2>2 DEF Observed
  <2>4. QED BY <1>3, <2>1, <2>3
<1>5. CASE reconnect \/ serve \/ push \/ UNCHANGED vars
  <2>1. UNCHANGED <<observation, clock, ingest, view, watermark>>
    BY <1>5, ReconnectFacts, ServeFacts, PushFacts DEF storeVars, gateVars, vars
  <2>2. Observed' = Observed BY <2>1 DEF Observed
  <2>3. QED BY <1>3, <2>1, <2>2
<1>6. CASE observeFrame
  <2>1. /\ UNCHANGED <<observation, view, watermark>> /\ clock' = clock + 1
        /\ ingest' = Append(ingest, Stamped) /\ Stamped \in Frames /\ Stamped.at = clock + 1
    BY <1>6, ObserveFacts
  <2>2. Observed' = Observed BY <2>1 DEF Observed
  <2>3. /\ Len(ingest') = Len(ingest) + 1 /\ ingest'[Len(ingest) + 1] = Stamped
        /\ \A n \in 1..Len(ingest) : ingest'[n] = ingest[n]
    BY <1>0, <2>1, AppendFacts
  <2>4. \A n \in 1..Len(ingest') : n \in 1..Len(ingest) \/ n = Len(ingest) + 1 BY <1>0, <2>3
  <2>5. observation.at \in Nat /\ observation.at <= clock BY <1>0, <1>1 DEF Stamps
  <2>6. \A n \in 1..Len(ingest') : ingest'[n].at \in (observation'.at + 1)..clock'
    BY <1>0, <1>2, <2>1, <2>3, <2>4, <2>5 DEF Stamps
  <2>7. \A m, n \in 1..Len(ingest') : m < n => ingest'[m].at < ingest'[n].at
    <3> SUFFICES ASSUME NEW m \in 1..Len(ingest'), NEW n \in 1..Len(ingest'), m < n
                 PROVE  ingest'[m].at < ingest'[n].at
      OBVIOUS
    <3>1. m \in 1..Len(ingest) BY <1>0, <2>3, <2>4
    <3>2. CASE n \in 1..Len(ingest) BY <2>3, <3>1, <3>2 DEF Stamps
    <3>3. CASE n = Len(ingest) + 1
      <4>1. ingest[m].at <= clock BY <1>0, <3>1, <2>5 DEF Stamps
      <4>2. QED BY <1>0, <1>2, <2>1, <2>3, <3>1, <3>3, <4>1
    <3>4. QED BY <2>4, <3>2, <3>3
  <2>8. QED BY <1>0, <2>1, <2>2, <2>5, <2>6, <2>7 DEF Stamps
<1>7. CASE commitFrame
  <2>1. UNCHANGED <<view, watermark, clock>> /\ ingest # <<>> /\ ingest' = Tail(ingest)
    BY <1>7, CommitFacts
  <2>2. /\ Len(ingest') = Len(ingest) - 1 /\ 1 \in 1..Len(ingest)
        /\ \A n \in 1..Len(ingest') :
              ingest'[n] = ingest[n + 1] /\ n + 1 \in 1..Len(ingest) /\ 1 < n + 1
    BY <1>0, <2>1, TailFacts
  <2>3. /\ ingest[1].at \in (observation.at + 1)..clock
        /\ observation.at \in Nat /\ observation.at <= clock
    BY <1>0, <1>1, <2>2 DEF Stamps
  <2>4. \A n \in 1..Len(ingest') : ingest'[n].at \in (ingest[1].at + 1)..clock
    <3> SUFFICES ASSUME NEW n \in 1..Len(ingest')
                 PROVE  ingest'[n].at \in (ingest[1].at + 1)..clock
      OBVIOUS
    <3>1. ingest'[n] = ingest[n + 1] /\ n + 1 \in 1..Len(ingest) /\ 1 < n + 1 BY <2>2
    <3>2. ingest[1].at < ingest[n + 1].at BY <2>2, <3>1 DEF Stamps
    <3>3. ingest[n + 1].at <= clock BY <1>0, <2>3, <3>1 DEF Stamps
    <3>4. QED BY <1>0, <1>2, <2>2, <3>1, <3>2, <3>3
  <2>5. \A m, n \in 1..Len(ingest') : m < n => ingest'[m].at < ingest'[n].at
    BY <1>0, <2>2 DEF Stamps
  <2>6. CASE observation' = observation
    <3>1. Observed' = Observed BY <2>1, <2>6 DEF Observed
    <3>2. \A n \in 1..Len(ingest') : ingest'[n].at \in (observation.at + 1)..clock
      BY <1>0, <2>3, <2>4
    <3>3. QED BY <2>1, <2>5, <2>6, <3>1, <3>2 DEF Stamps
  <2>7. CASE observation' # observation
    <3>1. observation'.at = ingest[1].at /\ observation'.gen = generation
      BY <1>7, <2>7, CommitFacts
    <3>2. Observed' \subseteq Observed \cup {observation'} BY <2>1 DEF Observed
    <3>3. \A x \in Observed' : x.at \in Nat /\ x.gen \in Nat /\ x.gen <= generation
      BY <1>0, <1>1, <1>2, <2>2, <3>1, <3>2
    <3>4. \A x \in Observed : x.at <= observation.at /\ (x.at = 0 => x.gen = 0) BY DEF Stamps
    <3>5. observation'.at > observation.at BY <1>0, <2>3, <3>1
    <3>6. \A x \in Observed' : x.at <= observation'.at /\ (x.at = 0 => x.gen = 0)
      BY <1>0, <1>1, <3>1, <3>2, <3>3, <3>4, <3>5, <2>3
    <3>7. ASSUME NEW x \in Observed', NEW y \in Observed', x.at <= y.at PROVE x.gen <= y.gen
      <4>1. CASE y = observation' BY <3>1, <3>3, <4>1
      <4>2. CASE y # observation'
        <5>1. y \in Observed /\ y.at <= observation.at BY <3>2, <3>4, <4>2
        <5>2. x # observation' BY <3>3, <3>5, <3>7, <5>1, <2>3, <1>1
        <5>3. x \in Observed BY <3>2, <5>2
        <5>4. QED BY <3>7, <5>1, <5>3 DEF Stamps
      <4>3. QED BY <4>1, <4>2
    <3>8. observation'.at <= clock' BY <1>0, <2>1, <2>3, <3>1
    <3>9. QED BY <2>1, <2>4, <2>5, <3>1, <3>6, <3>7, <3>8 DEF Stamps
  <2>8. QED BY <2>6, <2>7
<1>8. QED BY <1>4, <1>5, <1>6, <1>7, NextCases

-----------------------------------------------------------------------------
(* The wire: every command is written and served once, and answered truly.  *)

WireInv == DispatchInv /\ Stamps /\ WrittenOnce /\ Answers

\* A key that was written stays so: the step goes on to its end, or to another
\* try, which has another key.
LEMMA WrittenStays ==
    ASSUME DispatchInv, [Next]_vars, NEW k \in Keys, Written(k)
    PROVE  Written(k)'
<1> USE DEF DispatchInv
<1>0. k[1] \in Steps /\ k[2] \in 1..MaxTries BY DEF Keys
<1>1. try \in [Steps -> 1..MaxTries] /\ pc \in [Steps -> Places] BY DEF SettlementInv, Typed
<1>2. ASSUME NEW s \in Steps, StepAct(s) PROVE Written(k)'
  <2>1. CASE k[1] # s
    BY <1>0, <1>2, <2>1, OthersStay DEF Written
  <2>2. CASE k[1] = s /\ retry(s) /\ try' # try
    <3>1. try'[s] = try[s] + 1 BY <1>1, <2>2 DEF retry
    <3>2. QED BY <1>0, <1>1, <2>2, <3>1, BoundsAssumption DEF Written
  <2>3. CASE k[1] = s /\ ~(retry(s) /\ try' # try)
    <3>1. try' = try
      BY <1>2, <2>3 DEF StepAct, Quiet, Sends, Settles, prepare, prepareFails, refuseQueued,
         readContext, validateRefuses, writeRefused, awaitCommit, refreshed, refreshFails, retry,
         write, writeFails, refreshCoins, reset, sendFailed, sendSettled, giveUp, rejected, consumed,
         unusable, commitFails, accepted, Validate
    <3>2. pc[s] \in AfterWrite => pc'[s] \in AfterWrite
      <4> USE DEF AfterWrite, Waiting
      <4>1. CASE retry(s)
        <5>1. ~(try' = [try EXCEPT ![s] = try[s] + 1]) BY <1>1, <2>3, <3>1, <4>1
        <5>2. QED BY <1>1, <4>1, <5>1 DEF retry, Finish
      <4>2. CASE Quiet(s) /\ ~retry(s)
        BY <1>1, <4>2 DEF Quiet, prepare, prepareFails, refuseQueued, readContext,
           validateRefuses, writeRefused, awaitCommit, refreshed, refreshFails, Release, Finish
      <4>3. CASE Sends(s) \/ Validate(s)
        BY <1>1, <4>3 DEF Sends, write, writeFails, refreshCoins, Validate, Release
      <4>4. CASE Settles(s)
        BY <1>1, <4>4 DEF Settles, reset, sendFailed, sendSettled, giveUp, rejected, consumed, unusable,
           commitFails, accepted, Finish
      <4>5. QED BY <1>2, <4>1, <4>2, <4>3, <4>4 DEF StepAct
    <3>3. QED BY <2>3, <3>1, <3>2 DEF Written
  <2>4. QED BY <2>1, <2>2, <2>3
<1>3. CASE observeFrame \/ commitFrame \/ reconnect \/ serve \/ push
  <2>1. pc' = pc /\ try' = try
    BY <1>3, ObserveFacts, CommitFacts, ReconnectFacts, ServeFacts, PushFacts DEF stepVars
  <2>2. QED BY <2>1 DEF Written
<1>4. CASE UNCHANGED vars BY <1>4 DEF vars, stepVars, Written
<1>5. QED BY <1>2, <1>3, <1>4, NextCases

\* What a step is about to write has not been written yet.
LEMMA NotWritten ==
    ASSUME Shaped, NEW s \in Steps, pc[s] \in Dispatching \cup {"refused"}
    PROVE  ~Written(Key(s))
<1>1. Key(s)[1] = s /\ Key(s)[2] = try[s] /\ try[s] \in 1..MaxTries
  BY KeysDiffer DEF Shaped, TypeOK
<1>2. QED BY <1>1, BoundsAssumption DEF Written, AfterWrite, Waiting, Dispatching

\* The commands that cost, as the wire grows and shrinks.
LEMMA SpendingAppend ==
    ASSUME NEW q \in Seq(Commands), NEW e \in Commands
    PROVE  SpendingIn(Append(q, e)) = SpendingIn(q) \cup (IF e.kind = "spend" THEN {e.key} ELSE {})
<1>1. /\ Len(q) \in Nat /\ Len(Append(q, e)) = Len(q) + 1
      /\ \A n \in 1..Len(q) : Append(q, e)[n] = q[n] /\ q[n] \in Commands
      /\ Append(q, e)[Len(q) + 1] = e
  BY AppendFacts
<1>2. 1..(Len(q) + 1) = 1..Len(q) \cup {Len(q) + 1} BY <1>1
<1>3. e.key \in Keys BY DEF Commands
<1>4. QED BY <1>1, <1>2, <1>3 DEF SpendingIn

\* Serving the first command takes its key from the keys on their way.
LEMMA SpendingTail ==
    ASSUME NEW q \in Seq(Commands), q # <<>>,
           \A m, n \in 1..Len(q) :
              q[m].kind = "spend" /\ q[n].kind = "spend" /\ m # n => q[m].key # q[n].key
    PROVE  SpendingIn(Tail(q)) = SpendingIn(q) \ (IF q[1].kind = "spend" THEN {q[1].key} ELSE {})
<1>1. /\ Len(q) \in Nat /\ 1 <= Len(q) /\ Len(Tail(q)) = Len(q) - 1
      /\ \A n \in 1..(Len(q) - 1) : Tail(q)[n] = q[n + 1] /\ n + 1 \in 1..Len(q)
  BY TailFacts
<1>2. \A m \in 1..Len(q) : m # 1 => m - 1 \in 1..(Len(q) - 1) /\ m = (m - 1) + 1 BY <1>1
<1>3. ASSUME NEW k \in SpendingIn(Tail(q))
      PROVE  k \in SpendingIn(q) \ (IF q[1].kind = "spend" THEN {q[1].key} ELSE {})
  <2>1. PICK n \in 1..(Len(q) - 1) : q[n + 1].key = k /\ q[n + 1].kind = "spend"
    BY <1>1, <1>3 DEF SpendingIn
  <2>2. n + 1 \in 1..Len(q) /\ 1 \in 1..Len(q) /\ n + 1 # 1 BY <1>1, <2>1
  <2>3. k \in SpendingIn(q) BY <1>3, <2>1, <2>2 DEF SpendingIn
  <2>4. QED BY <2>1, <2>2, <2>3
<1>4. ASSUME NEW k \in SpendingIn(q) \ (IF q[1].kind = "spend" THEN {q[1].key} ELSE {})
      PROVE  k \in SpendingIn(Tail(q))
  <2>1. PICK m \in 1..Len(q) : q[m].key = k /\ q[m].kind = "spend" BY <1>4 DEF SpendingIn
  <2>2. m # 1 BY <1>4, <2>1
  <2>3. m - 1 \in 1..Len(Tail(q)) /\ Tail(q)[m - 1] = q[m] BY <1>1, <1>2, <2>2
  <2>4. k \in Keys BY <1>4 DEF SpendingIn
  <2>5. QED BY <2>1, <2>3, <2>4 DEF SpendingIn
<1>5. QED BY <1>3, <1>4

\* The keys on the wire: one is added by the step that writes it, and the game
\* moves one from the commands that will cost to those it has carried out.
LEMMA WireMoves ==
    ASSUME WireInv, [Next]_vars
    PROVE  /\ served \subseteq served'
           /\ \/ Spending' \subseteq Spending /\ served' = served
              \/ \E s \in Steps : /\ pc[s] = "approved2" /\ worker = s /\ served' = served
                                  /\ Spending' = Spending \cup {Key(s)}
                                  /\ pc'[s] \in AfterWrite /\ try' = try /\ conn[s] = generation
                                  /\ UNCHANGED <<pending, early, purse, generation>>
              \/ \E k \in Spending : /\ served' = served \cup {k} /\ Spending' = Spending \ {k}
                                     /\ purse' = purse - Cost
<1> USE DEF WireInv, DispatchInv
<1>0. outgoing \in Seq(Commands) BY DEF Shaped
<1>1. ASSUME NEW s \in Steps, StepAct(s), ~Sends(s) PROVE Spending' = Spending /\ served' = served
  BY <1>1, StepLeaves DEF Spending
<1>2. ASSUME NEW s \in Steps, Sends(s)
      PROVE  \/ Spending' = Spending /\ served' = served
             \/ /\ pc[s] = "approved2" /\ worker = s /\ served' = served
                /\ Spending' = Spending \cup {Key(s)}
                /\ pc'[s] \in AfterWrite /\ try' = try /\ conn[s] = generation
                /\ UNCHANGED <<pending, early, purse, generation>>
  <2>1. served' = served BY <1>2, StepLeaves DEF StepAct
  <2>2. \A kind \in {"spend", "balance"} : [key |-> Key(s), kind |-> kind] \in Commands
    BY GateTyped DEF Commands
  <2>3. CASE writeFails(s) /\ outgoing' = outgoing BY <2>1, <2>3 DEF Spending
  <2>4. CASE refreshCoins(s) /\ outgoing' = Append(outgoing, [key |-> Key(s), kind |-> "balance"])
    <3>1. SpendingIn(outgoing') = SpendingIn(outgoing)
      BY <1>0, <2>2, <2>4, SpendingAppend
    <3>2. QED BY <2>1, <3>1 DEF Spending
  <2>5. CASE /\ write(s) \/ writeFails(s)
             /\ outgoing' = Append(outgoing, [key |-> Key(s), kind |-> "spend"])
    <3>1. SpendingIn(outgoing') = SpendingIn(outgoing) \cup {Key(s)}
      BY <1>0, <2>2, <2>5, SpendingAppend
    <3>2. /\ pc[s] = "approved2" /\ try' = try /\ conn[s] = generation
          /\ UNCHANGED <<pending, early, purse, generation>>
          /\ pc'[s] \in {"sent", "awaiting", "uncertain", "done"}
      BY <2>5 DEF write, writeFails, Release, storeVars, Shaped, TypeOK
    <3>3. worker = s BY <3>2 DEF Dispatched, Dispatching
    <3>4. QED BY <2>1, <3>1, <3>2, <3>3 DEF Spending, AfterWrite, Waiting
  <2>6. QED BY <1>2, <2>3, <2>4, <2>5, SendsOut
<1>3. CASE observeFrame \/ commitFrame \/ push
  BY <1>3, ObserveFacts, CommitFacts, PushFacts DEF Spending
<1>4. CASE reconnect
  <2>1. SpendingIn(<<>>) = {} BY DEF SpendingIn
  <2>2. QED BY <1>4, <2>1, ReconnectFacts DEF Spending
<1>5. CASE serve
  <2>1. outgoing # <<>> /\ outgoing' = Tail(outgoing) /\ outgoing[1] \in Commands
    BY <1>5, ServeFacts
  <2>2. Spending' = Spending \ (IF outgoing[1].kind = "spend" THEN {outgoing[1].key} ELSE {})
    BY <1>0, <2>1, SpendingTail DEF WrittenOnce, Spending
  <2>3. CASE served' = served BY <2>2, <2>3
  <2>4. CASE served' # served
    <3>1. /\ outgoing[1].kind = "spend" /\ served' = served \cup {outgoing[1].key}
          /\ purse' = purse - Cost
      BY <1>5, <2>4, ServeFacts
    <3>2. outgoing[1].key \in Spending
      <4>1. 1 \in 1..Len(outgoing) BY <1>0, <2>1, TailFacts
      <4>2. outgoing[1].key \in Keys BY <2>1 DEF Commands
      <4>3. QED BY <3>1, <4>1, <4>2 DEF Spending, SpendingIn
    <3>3. QED BY <2>2, <3>1, <3>2
  <2>5. QED BY <2>3, <2>4
<1>6. CASE UNCHANGED vars BY <1>6 DEF vars, gameVars, Spending
<1>7. QED BY <1>1, <1>2, <1>3, <1>4, <1>5, <1>6, NextCases DEF StepAct

\* What a response says stays true.
LEMMA TruthfulStays ==
    ASSUME WireInv, [Next]_vars, NEW f, Truthful(f)
    PROVE  Truthful(f)'
<1> USE DEF WireInv, DispatchInv
<1>1. f.code \in Responses => f.key \in served' BY WireMoves DEF Truthful
<1>2. ASSUME f.code = "error"
      PROVE  f.key \in Keys \ (served' \cup Spending') /\ Written(f.key)'
  <2>1. f.key \in Keys \ (served \cup Spending) /\ Written(f.key) BY <1>2 DEF Truthful
  <2>2. Written(f.key)' BY <2>1, WrittenStays
  <2>3. \A s \in Steps : pc[s] = "approved2" => Key(s) # f.key
    BY <2>1, NotWritten DEF Dispatching
  <2>4. f.key \notin served' \cup Spending' BY <2>1, <2>3, WireMoves
  <2>5. QED BY <2>1, <2>2, <2>4
<1>3. QED BY <1>1, <1>2 DEF Truthful

\* A command that is on the wire, or has been carried out, is written.
LEMMA WireIsWritten ==
    ASSUME WireInv
    PROVE  /\ \A k \in served \cup Spending : k \in Keys /\ Written(k)
           /\ Spending \cap served = {}
BY DEF WireInv, DispatchInv, WrittenOnce, Spending, SpendingIn, Shaped, TypeOK

\* The balance is asked for after a response, so its command was carried out.
LEMMA RefreshIsServed ==
    ASSUME WireInv, NEW s \in Steps, pc[s] \in {"refreshing", "refreshWait"}
    PROVE  Key(s) \in served
<1>1. answer[s].code \in Responses /\ answer[s].code # "none" BY DEF WireInv, Answers, OwnAnswer, Responses
<1>2. QED BY <1>1 DEF WireInv, Answers, OwnAnswer, Truthful

\* Every action keeps that a command is written once and served once.
LEMMA WrittenOnceNext ==
    ASSUME WireInv, DispatchInv', [Next]_vars
    PROVE  WrittenOnce'
<1> USE DEF WireInv, DispatchInv
<1>0. outgoing \in Seq(Commands) BY DEF Shaped
<1>b. \A n \in 1..Len(outgoing) : outgoing[n].key \in Keys
  <2>1. \A n \in 1..Len(outgoing) : outgoing[n] \in Commands BY <1>0
  <2>2. QED BY <2>1 DEF Commands
<1> DEFINE Single(q) == \A m, n \in 1..Len(q) :
              q[m].kind = "spend" /\ q[n].kind = "spend" /\ m # n => q[m].key # q[n].key
           W(k) == \/ k[2] < try'[k[1]]
                   \/ k[2] = try'[k[1]] /\ pc'[k[1]] \in AfterWrite
           Known(e) == IF e.kind = "spend" THEN e.key \notin served' /\ W(e.key)
                       ELSE e.key \in served'
<1>a. ASSUME NEW k \in Keys, Written(k) PROVE W(k)
  <2>1. Written(k)' BY <1>a, WrittenStays
  <2>2. QED BY <2>1 DEF Written
<1>1. \A k \in served' : W(k)
  <2>1. \A k \in served' : k \in served \cup Spending BY WireMoves
  <2>2. QED BY <1>a, <2>1, WireIsWritten
<1>2. ASSUME served' = served, NEW n \in 1..Len(outgoing) PROVE Known(outgoing[n])
  <2>1. outgoing[n].key \in Keys BY <1>2, <1>b
  <2>2. PICK e : e = outgoing[n] OBVIOUS
  <2>3. CASE e.kind = "spend"
    <3>1. e.key \in Keys /\ Written(e.key) /\ e.key \notin served
      BY <2>1, <2>2, <2>3 DEF WrittenOnce
    <3>2. W(e.key) BY <3>1, <1>a
    <3>3. QED BY <1>2, <2>2, <2>3, <3>1, <3>2
  <2>4. CASE e.kind # "spend" BY <1>2, <2>2, <2>4 DEF WrittenOnce
  <2>5. QED BY <2>3, <2>4
<1>3. Single(outgoing) BY DEF WrittenOnce
<1>4. CASE outgoing' = outgoing /\ served' = served
  <2>1. \A n \in 1..Len(outgoing') : Known(outgoing'[n]) BY <1>2, <1>4
  <2>2. Single(outgoing') BY <1>3, <1>4
  <2>3. QED BY <1>1, <2>1, <2>2 DEF WrittenOnce, Written
<1>5. CASE reconnect
  BY <1>1, <1>5, ReconnectFacts DEF WrittenOnce, Written
<1>6. CASE serve
  <2>1. outgoing # <<>> /\ outgoing' = Tail(outgoing) /\ outgoing[1] \in Commands BY <1>6, ServeFacts
  <2>2. /\ Len(outgoing') = Len(outgoing) - 1 /\ Len(outgoing) \in Nat /\ 1 \in 1..Len(outgoing)
        /\ \A n \in 1..Len(outgoing') :
              outgoing'[n] = outgoing[n + 1] /\ n + 1 \in 1..Len(outgoing) /\ n + 1 # 1
    BY <1>0, <2>1, TailFacts
  <2>3. Single(outgoing') BY <1>3, <2>2
  <2>4. ASSUME NEW n \in 1..Len(outgoing') PROVE Known(outgoing'[n])
    <3>1. CASE served' = served BY <1>2, <2>2, <3>1
    <3>2. CASE served' # served
      <4>1. outgoing[1].kind = "spend" /\ served' = served \cup {outgoing[1].key}
        BY <1>6, <3>2, ServeFacts
      <4>2. PICK e : e = outgoing[n + 1] OBVIOUS
      <4>3. CASE e.kind = "spend"
        <5>1. e.key # outgoing[1].key BY <1>3, <2>2, <4>1, <4>2, <4>3
        <5>2. e.key \in Keys BY <1>b, <2>2, <4>2
        <5>3. Written(e.key) /\ e.key \notin served BY <2>2, <4>2, <4>3 DEF WrittenOnce
        <5>4. W(e.key) BY <5>2, <5>3, <1>a
        <5>5. QED BY <2>2, <4>1, <4>2, <4>3, <5>1, <5>3, <5>4
      <4>4. CASE e.kind # "spend" BY <2>2, <4>1, <4>2, <4>4 DEF WrittenOnce
      <4>5. QED BY <4>3, <4>4
    <3>3. QED BY <3>1, <3>2
  <2>5. QED BY <1>1, <2>3, <2>4 DEF WrittenOnce, Written
<1>7. ASSUME NEW s \in Steps, Sends(s), outgoing' # outgoing PROVE WrittenOnce'
  <2>1. served' = served BY <1>7, StepLeaves DEF StepAct
  <2>2. PICK kind \in {"spend", "balance"} :
           /\ outgoing' = Append(outgoing, [key |-> Key(s), kind |-> kind])
           /\ kind = "spend" => write(s) \/ writeFails(s)
           /\ kind = "balance" => refreshCoins(s)
    BY <1>7, SendsOut
  <2>3. [key |-> Key(s), kind |-> kind] \in Commands BY GateTyped DEF Commands
  <2>4. /\ Len(outgoing') = Len(outgoing) + 1 /\ Len(outgoing) \in Nat
        /\ \A n \in 1..Len(outgoing) : outgoing'[n] = outgoing[n]
        /\ outgoing'[Len(outgoing) + 1] = [key |-> Key(s), kind |-> kind]
    BY <1>0, <2>2, <2>3, AppendFacts
  <2>5. \A n \in 1..Len(outgoing') : n \in 1..Len(outgoing) \/ n = Len(outgoing) + 1 BY <2>4
  <2>6. kind = "spend" => /\ Key(s) \notin served /\ W(Key(s))
                          /\ \A n \in 1..Len(outgoing) :
                                outgoing[n].kind = "spend" => outgoing[n].key # Key(s)
    <3> HAVE kind = "spend"
    <3>1. pc[s] = "approved2" /\ try' = try /\ pc'[s] \in {"sent", "awaiting", "uncertain", "done"}
      BY <2>2 DEF write, writeFails, Release, Shaped, TypeOK
    <3>2. ~Written(Key(s)) BY <3>1, NotWritten DEF Dispatching
    <3>3. W(Key(s)) BY <3>1, KeysDiffer DEF AfterWrite, Waiting
    <3>4. QED BY <3>2, <3>3 DEF WrittenOnce
  <2>7. kind = "balance" => Key(s) \in served BY <2>2, RefreshIsServed DEF refreshCoins
  <2>8. PICK e : e = [key |-> Key(s), kind |-> kind] OBVIOUS
  <2>9. Known(e)
    <3>1. e.key = Key(s) /\ e.kind = kind BY <2>8
    <3>2. QED BY <2>1, <2>6, <2>7, <3>1
  <2>10. \A n \in 1..Len(outgoing') : Known(outgoing'[n]) BY <1>2, <2>1, <2>4, <2>5, <2>8, <2>9
  <2>11. Single(outgoing') BY <1>3, <2>4, <2>5, <2>6
  <2>12. QED BY <1>1, <2>10, <2>11 DEF WrittenOnce, Written
<1>8. ASSUME NEW s \in Steps, StepAct(s), ~(Sends(s) /\ outgoing' # outgoing)
      PROVE  outgoing' = outgoing /\ served' = served
  BY <1>8, StepLeaves
<1>9. observeFrame \/ commitFrame \/ push \/ UNCHANGED vars => outgoing' = outgoing /\ served' = served
  BY ObserveFacts, CommitFacts, PushFacts DEF vars, gameVars
<1>10. QED BY <1>4, <1>5, <1>6, <1>7, <1>8, <1>9, NextCases

\* The moves of a step between the places that its answer decides.
LEMMA AnswerMoves ==
    ASSUME Shaped, NEW s \in Steps, StepAct(s)
    PROVE  /\ answer'[s] = answer[s] \/ answer'[s] = NoFrame
           /\ answer'[s] # NoFrame /\ pc'[s] # "ready" => pc[s] # "ready" /\ try'[s] = try[s]
           /\ pc'[s] = "committing" => answer'[s] = answer[s] /\ answer[s].code = "ok"
           /\ pc'[s] \in {"refreshing", "refreshWait"} =>
                 /\ answer'[s] = answer[s]
                 /\ \/ answer[s].code \in Responses
                    \/ pc[s] \in {"refreshing", "refreshWait", "committing"}
           /\ pc'[s] = "sent" => barrier'[s] = "none"
           /\ outcome'[s] # "none" => \/ pc'[s] = "done" \/ s \in left'
                                      \/ outcome'[s] = outcome[s] /\ pc[s] # "done"
<1> USE DEF Shaped, TypeOK, Responses
<1>1. CASE prepare(s) \/ prepareFails(s) \/ refuseQueued(s) \/ readContext(s)
  BY <1>1 DEF prepare, prepareFails, refuseQueued, readContext, Finish
<1>2. CASE validateRefuses(s) \/ writeRefused(s) \/ awaitCommit(s)
  BY <1>2 DEF validateRefuses, writeRefused, awaitCommit, Release, Answered
<1>3. CASE refreshed(s) \/ refreshFails(s) BY <1>3 DEF refreshed, refreshFails, Finish
<1>4. CASE retry(s) BY <1>4 DEF retry, Finish
<1>5. CASE Sends(s)
  <2>1. CASE write(s) \/ writeFails(s) BY <2>1 DEF write, writeFails, Release
  <2>2. CASE refreshCoins(s) BY <2>2 DEF refreshCoins
  <2>3. QED BY <1>5, <2>1, <2>2 DEF Sends
<1>6. CASE Validate(s) BY <1>6 DEF Validate, Release
<1>a. CASE reset(s) BY <1>a DEF reset
<1>7. CASE sendFailed(s) \/ sendSettled(s) \/ giveUp(s) \/ rejected(s) \/ unusable(s) \/ commitFails(s)
  BY <1>7 DEF sendFailed, sendSettled, giveUp, rejected, unusable, commitFails, Finish, Answered
<1>8. CASE consumed(s) BY <1>8 DEF consumed, Finish, Answered
<1>9. CASE accepted(s) BY <1>9 DEF accepted, Finish, Answered
<1>10. QED BY <1>1, <1>2, <1>3, <1>4, <1>5, <1>6, <1>a, <1>7, <1>8, <1>9 DEF StepAct, Quiet, Settles

\* A step that is over stays over.
LEMMA LeftStays ==
    ASSUME Shaped, [Next]_vars
    PROVE  left \subseteq left'
<1>1. ASSUME NEW s \in Steps, StepAct(s) PROVE left \subseteq left'
  BY <1>1 DEF StepAct, Quiet, Sends, Settles, prepare, prepareFails, refuseQueued, readContext,
     validateRefuses, writeRefused, awaitCommit, refreshed, refreshFails, retry, write, writeFails,
     refreshCoins, reset, sendFailed, sendSettled, giveUp, rejected, consumed, unusable, commitFails,
     accepted, Validate
<1>2. CASE observeFrame \/ commitFrame \/ reconnect \/ serve \/ push \/ UNCHANGED vars
  BY <1>2 DEF observeFrame, commitFrame, reconnect, serve, push, vars, stepVars
<1>3. QED BY <1>1, <1>2, NextCases

\* What the worker does for a step that is over leaves its outcome alone.
LEMMA LeftKeepsOutcome ==
    ASSUME SettlementInv, NEW s \in left, StepAct(s)
    PROVE  outcome' = outcome /\ barrier' = barrier /\ try' = try
<1>1. s \in Steps /\ pc[s] \in Dispatching \cup {"done"} BY DEF SettlementInv, Abandoned
<1>2. \/ readContext(s) \/ validateRefuses(s) \/ Validate(s) \/ write(s)
      \/ writeRefused(s) \/ writeFails(s)
  BY <1>1 DEF StepAct, Quiet, Sends, Settles, prepare, prepareFails, refuseQueued, awaitCommit,
     refreshed, refreshFails, retry, refreshCoins, reset, sendFailed, sendSettled, giveUp, rejected,
     consumed, unusable, commitFails, accepted, Answered, Dispatching
<1>3. QED BY <1>2 DEF readContext, validateRefuses, Validate, write, writeRefused, writeFails

\* Only Reset makes a step over.
LEMMA LeftByReset ==
    ASSUME Shaped, [Next]_vars, NEW s \in Steps, s \notin left, s \in left'
    PROVE  reset(s)
<1>1. ASSUME NEW r \in Steps, StepAct(r), ~reset(r) PROVE left' = left
  BY <1>1 DEF StepAct, Quiet, Sends, Settles, prepare, prepareFails, refuseQueued, readContext,
     validateRefuses, writeRefused, awaitCommit, refreshed, refreshFails, retry, write, writeFails,
     refreshCoins, sendFailed, sendSettled, giveUp, rejected, consumed, unusable, commitFails,
     accepted, Validate
<1>2. ASSUME NEW r \in Steps, reset(r) PROVE left' = left \cup {r} BY <1>2 DEF reset
<1>3. CASE observeFrame \/ commitFrame \/ reconnect \/ serve \/ push \/ UNCHANGED vars
  BY <1>3 DEF observeFrame, commitFrame, reconnect, serve, push, vars, stepVars
<1>4. QED BY <1>1, <1>2, <1>3, NextCases

\* Every action keeps the answers true.
LEMMA AnswersNext ==
    ASSUME WireInv, DispatchInv', [Next]_vars
    PROVE  Answers'
<1> USE DEF WireInv, DispatchInv
<1> DEFINE T(f) ==
             /\ f.code \in Responses => f.key \in served'
             /\ f.code = "error" => /\ f.key \in Keys \ (served' \cup Spending')
                                    /\ \/ f.key[2] < try'[f.key[1]]
                                       \/ f.key[2] = try'[f.key[1]] /\ pc'[f.key[1]] \in AfterWrite
           Pair(g, f) == g.key = f.key /\ g.code = f.code
<1>0. /\ ingest \in Seq(Frames) /\ incoming \in Seq(Frames) /\ outgoing \in Seq(Commands)
      /\ clock \in Nat /\ Len(ingest) \in Nat /\ Len(incoming) \in Nat
  BY DEF Shaped
<1>1. ASSUME NEW f, Truthful(f) PROVE T(f)
  <2>1. Truthful(f)' BY <1>1, TruthfulStays
  <2>2. QED BY <2>1 DEF Truthful, Written
<1>2. /\ \A n \in 1..Len(incoming) : T(incoming[n])
      /\ \A n \in 1..Len(ingest) : T(ingest[n])
      /\ \A s \in Steps : answer[s].code # "none" => T(answer[s])
  BY <1>1 DEF Answers, OwnAnswer
<1>3. \A f, g : T(f) /\ Pair(g, f) => T(g) OBVIOUS
<1>4. \A n \in 1..Len(incoming') : T(incoming'[n])
  <2>1. CASE observeFrame
    <3>1. incoming # <<>> /\ incoming' = Tail(incoming) BY <2>1, ObserveFacts
    <3>2. \A n \in 1..Len(incoming') : incoming'[n] = incoming[n + 1] /\ n + 1 \in 1..Len(incoming)
      BY <1>0, <3>1, TailFacts
    <3>3. QED BY <1>2, <3>2
  <2>2. CASE serve \/ push
    <3>1. PICK f \in Frames : incoming' = Append(incoming, f) /\ T(f)
      <4>1. CASE push
        <5>1. PICK f : Replied(f, <<NoStep, 0>>) /\ f.code = "push" BY <4>1, PushFacts
        <5>2. QED BY <5>1 DEF Replied, Responses
      <4>2. CASE serve
        <5>1. outgoing # <<>> /\ outgoing' = Tail(outgoing) /\ outgoing[1] \in Commands
          BY <4>2, ServeFacts
        <5>2. PICK f : /\ Replied(f, outgoing[1].key)
                       /\ \/ /\ outgoing[1].kind = "balance" /\ f.code = "balance"
                             /\ UNCHANGED <<purse, served>>
                          \/ /\ outgoing[1].kind = "spend" /\ f.code = "error"
                             /\ UNCHANGED <<purse, served>>
                          \/ /\ outgoing[1].kind = "spend" /\ f.code \in Responses
                             /\ purse' = purse - Cost /\ served' = served \cup {outgoing[1].key}
          BY <4>2, ServeFacts
        <5>3. f.key = outgoing[1].key /\ f \in Frames /\ incoming' = Append(incoming, f)
          BY <5>2 DEF Replied
        <5>4. CASE f.code # "error" BY <5>2, <5>3, <5>4 DEF Responses
        <5>5. CASE f.code = "error"
          <6>1. outgoing[1].kind = "spend" /\ served' = served BY <5>2, <5>5 DEF Responses
          <6>2. Spending' = Spending \ {f.key}
            <7>1. SpendingIn(Tail(outgoing)) = SpendingIn(outgoing) \ {outgoing[1].key}
              BY <1>0, <5>1, <6>1, SpendingTail DEF WrittenOnce
            <7>2. QED BY <5>1, <5>3, <7>1 DEF Spending
          <6>3. 1 \in 1..Len(outgoing) BY <1>0, <5>1, TailFacts
          <6>4. f.key \in Keys BY <5>1, <5>3 DEF Commands
          <6>5. f.key \notin served /\ Written(f.key) BY <5>3, <6>1, <6>3 DEF WrittenOnce
          <6>6. Written(f.key)' BY <6>4, <6>5, WrittenStays
          <6>7. QED BY <5>3, <5>5, <6>1, <6>2, <6>4, <6>5, <6>6 DEF Written, Responses
        <5>6. QED BY <5>4, <5>5
      <4>3. QED BY <2>2, <4>1, <4>2
    <3>2. /\ Len(incoming') = Len(incoming) + 1 /\ incoming'[Len(incoming) + 1] = f
          /\ \A n \in 1..Len(incoming) : incoming'[n] = incoming[n]
      BY <1>0, <3>1, AppendFacts
    <3>3. \A n \in 1..Len(incoming') : n \in 1..Len(incoming) \/ n = Len(incoming) + 1
      BY <1>0, <3>2
    <3>4. QED BY <1>2, <3>1, <3>2, <3>3
  <2>3. CASE reconnect BY <2>3, ReconnectFacts
  <2>4. CASE commitFrame \/ UNCHANGED vars \/ \E s \in Steps : StepAct(s)
    <3>1. incoming' = incoming BY <2>4, CommitFacts, StepLeaves DEF vars, gameVars
    <3>2. QED BY <1>2, <3>1
  <2>5. QED BY <2>1, <2>2, <2>3, <2>4, NextCases
<1>5. observeFrame => T(Stamped)
  <2> HAVE observeFrame
  <2>1. incoming # <<>> /\ Pair(Stamped, incoming[1]) BY ObserveFacts
  <2>2. 1 \in 1..Len(incoming) BY <1>0, <2>1, TailFacts
  <2>3. QED BY <1>2, <1>3, <2>1, <2>2
<1>6. \A n \in 1..Len(ingest') : T(ingest'[n])
  <2>1. CASE observeFrame
    <3>1. ingest' = Append(ingest, Stamped) /\ Stamped \in Frames BY <2>1, ObserveFacts
    <3>2. /\ Len(ingest') = Len(ingest) + 1 /\ ingest'[Len(ingest) + 1] = Stamped
          /\ \A n \in 1..Len(ingest) : ingest'[n] = ingest[n]
      BY <1>0, <3>1, AppendFacts
    <3>3. \A n \in 1..Len(ingest') : n \in 1..Len(ingest) \/ n = Len(ingest) + 1 BY <1>0, <3>2
    <3>4. QED BY <1>2, <1>5, <2>1, <3>2, <3>3
  <2>2. CASE commitFrame
    <3>1. ingest # <<>> /\ ingest' = Tail(ingest) BY <2>2, CommitFacts
    <3>2. \A n \in 1..Len(ingest') : ingest'[n] = ingest[n + 1] /\ n + 1 \in 1..Len(ingest)
      BY <1>0, <3>1, TailFacts
    <3>3. QED BY <1>2, <3>2
  <2>3. CASE ~observeFrame /\ ~commitFrame
    <3>1. ingest' = ingest
      BY <2>3, ReconnectFacts, ServeFacts, PushFacts, StepLeaves, NextCases DEF vars, storeVars
    <3>2. QED BY <1>2, <3>1
  <2>4. QED BY <2>1, <2>2, <2>3
<1> DEFINE Own(s) ==
             /\ answer'[s].code # "none" =>
                   /\ T(answer'[s])
                   /\ answer'[s].at \in 1..clock'
                   /\ pc'[s] # "ready" => answer'[s].key = <<s, try'[s]>>
                   /\ \A n \in 1..Len(ingest') : ingest'[n].at = answer'[s].at =>
                         Pair(ingest'[n], answer'[s])
             /\ pc'[s] = "committing" => answer'[s].code = "ok"
             /\ pc'[s] \in {"refreshing", "refreshWait"} => answer'[s].code \in Responses
             /\ pc'[s] = "sent" => barrier'[s] = "none"
             /\ outcome'[s] # "none" => pc'[s] = "done" \/ s \in left'
<1>a. left \subseteq left' BY LeftStays
<1>7. ASSUME NEW r \in Steps PROVE Own(r)
  <2>0. OwnAnswer(r) BY DEF Answers
  <2>1. ASSUME pc'[r] = pc[r], try'[r] = try[r], answer'[r] = answer[r], barrier'[r] = barrier[r],
               outcome'[r] = outcome[r], clock' = clock, ingest' = ingest
        PROVE  Own(r)
    BY <1>2, <1>a, <2>0, <2>1 DEF OwnAnswer, Key
  <2>2. CASE reconnect \/ serve \/ push \/ UNCHANGED vars
    <3>1. UNCHANGED <<pc, try, answer, barrier, outcome, clock, ingest>>
      BY <2>2, ReconnectFacts, ServeFacts, PushFacts DEF vars, stepVars, storeVars
    <3>2. QED BY <2>1, <3>1
  <2>3. ASSUME NEW s \in Steps, StepAct(s), s # r PROVE Own(r)
    <3>1. clock' = clock /\ ingest' = ingest BY <2>3, StepLeaves
    <3>2. QED BY <2>1, <2>3, <3>1, OthersStay
  <2>4. ASSUME StepAct(r) PROVE Own(r)
    <3>1. clock' = clock /\ ingest' = ingest BY <2>4, StepLeaves
    <3>2. NoFrame.code = "none" BY DEF NoFrame
    <3>3. answer'[r].code # "none" => answer'[r] = answer[r] /\ answer'[r] # NoFrame
      BY <2>4, <3>2, AnswerMoves
    <3>4. answer'[r].code # "none" =>
             /\ T(answer'[r]) /\ answer'[r].at \in 1..clock'
             /\ \A n \in 1..Len(ingest') : ingest'[n].at = answer'[r].at => Pair(ingest'[n], answer'[r])
      BY <1>2, <2>0, <3>1, <3>3 DEF OwnAnswer
    <3>5. answer'[r].code # "none" /\ pc'[r] # "ready" => answer'[r].key = <<r, try'[r]>>
      BY <2>0, <2>4, <3>3, AnswerMoves DEF OwnAnswer, Key
    <3>6. /\ pc'[r] = "committing" => answer'[r].code = "ok"
          /\ pc'[r] \in {"refreshing", "refreshWait"} => answer'[r].code \in Responses
          /\ pc'[r] = "sent" => barrier'[r] = "none"
          /\ outcome'[r] # "none" => pc'[r] = "done" \/ r \in left'
      BY <1>a, <2>0, <2>4, AnswerMoves DEF OwnAnswer, Responses
    <3>7. QED BY <3>4, <3>5, <3>6
  <2>5. CASE observeFrame
    <3>1. /\ UNCHANGED <<pc, try, barrier, outcome>> /\ clock' = clock + 1
          /\ ingest' = Append(ingest, Stamped) /\ Stamped \in Frames /\ Stamped.at = clock + 1
          /\ \/ answer'[r] = answer[r]
             \/ answer'[r] = Stamped /\ pc[r] = "awaiting" /\ Stamped.key = Key(r)
      BY <2>5, ObserveFacts
    <3>2. /\ Len(ingest') = Len(ingest) + 1 /\ ingest'[Len(ingest) + 1] = Stamped
          /\ \A n \in 1..Len(ingest) : ingest'[n] = ingest[n]
      BY <1>0, <3>1, AppendFacts
    <3>3. \A n \in 1..Len(ingest') : n \in 1..Len(ingest) \/ n = Len(ingest) + 1 BY <1>0, <3>2
    <3>4. \A n \in 1..Len(ingest) : ingest[n].at # clock + 1
      <4>1. observation.at \in Int BY DEF Shaped, TypeOK, Observations
      <4>2. QED BY <1>0, <4>1 DEF Stamps
    <3>5. CASE answer'[r] = answer[r]
      <4>1. answer[r].code # "none" =>
               /\ answer[r].at \in 1..(clock + 1) /\ answer[r].at # clock + 1
               /\ \A n \in 1..Len(ingest) : ingest[n].at = answer[r].at => Pair(ingest[n], answer[r])
        BY <1>0, <2>0 DEF OwnAnswer
      <4>2. answer[r].code # "none" =>
               \A n \in 1..Len(ingest') : ingest'[n].at = answer[r].at => Pair(ingest'[n], answer[r])
        BY <3>1, <3>2, <3>3, <4>1
      <4>3. QED BY <1>2, <1>a, <2>0, <3>1, <3>5, <4>1, <4>2 DEF OwnAnswer, Key
    <3>6. CASE answer'[r] = Stamped /\ pc[r] = "awaiting" /\ Stamped.key = Key(r)
      <4>1. \A n \in 1..Len(ingest') : ingest'[n].at = clock + 1 => ingest'[n] = Stamped
        BY <3>2, <3>3, <3>4
      <4>2. clock + 1 \in 1..clock' BY <1>0, <3>1
      <4>3. outcome[r] = "none" BY <2>0, <3>6, NotLeft DEF OwnAnswer, Dispatching
      <4>4. QED BY <1>5, <2>5, <3>1, <3>6, <4>1, <4>2, <4>3 DEF Key
    <3>7. QED BY <3>1, <3>5, <3>6
  <2>6. CASE commitFrame
    <3>1. /\ UNCHANGED <<pc, try, barrier, outcome, clock>>
          /\ ingest # <<>> /\ ingest' = Tail(ingest)
          /\ \/ answer'[r] = answer[r]
             \/ /\ Same(answer'[r], ingest[1])
                /\ \/ pc[r] = "awaiting" /\ ingest[1].key = Key(r)
                   \/ /\ pc[r] \in {"awaiting", "committing"}
                      /\ answer[r].code # "none" /\ answer[r].at = ingest[1].at
      BY <2>6, CommitFacts
    <3>2. /\ 1 \in 1..Len(ingest)
          /\ \A n \in 1..Len(ingest') :
                ingest'[n] = ingest[n + 1] /\ n + 1 \in 1..Len(ingest) /\ 1 < n + 1
      BY <1>0, <3>1, TailFacts
    <3>3. CASE answer'[r] = answer[r]
      BY <1>2, <1>a, <2>0, <3>1, <3>2, <3>3 DEF OwnAnswer, Key
    <3>4. CASE /\ Same(answer'[r], ingest[1])
               /\ \/ pc[r] = "awaiting" /\ ingest[1].key = Key(r)
                  \/ /\ pc[r] \in {"awaiting", "committing"}
                     /\ answer[r].code # "none" /\ answer[r].at = ingest[1].at
      <4>1. Pair(answer'[r], ingest[1]) /\ answer'[r].at = ingest[1].at BY <3>4 DEF Same
      <4>2. T(answer'[r]) BY <1>2, <1>3, <3>2, <4>1
      <4>3. ingest[1].at \in 1..clock
        <5>1. observation.at \in Nat BY DEF Shaped, TypeOK, Observations
        <5>2. QED BY <1>0, <3>2, <5>1 DEF Stamps
      <4>4. \A n \in 1..Len(ingest') : ingest'[n].at # ingest[1].at
        <5>1. \A n \in 1..Len(ingest) : ingest[n].at \in Int
          <6>1. \A n \in 1..Len(ingest) : ingest[n] \in Frames BY <1>0
          <6>2. QED BY <6>1 DEF Frames
        <5>2. QED BY <3>2, <5>1 DEF Stamps
      <4>5. pc[r] \in {"awaiting", "committing"} /\ ingest[1].key = Key(r)
            /\ (pc[r] = "committing" => ingest[1].code = "ok")
        BY <2>0, <3>2, <3>4 DEF OwnAnswer
      <4>6. outcome[r] = "none" BY <2>0, <4>5, NotLeft DEF OwnAnswer, Dispatching
      <4>7. QED BY <3>1, <4>1, <4>2, <4>3, <4>4, <4>5, <4>6 DEF Key
    <3>5. QED BY <3>1, <3>3, <3>4
  <2>7. QED BY <2>2, <2>3, <2>4, <2>5, <2>6, NextCases
<1>8. QED BY <1>4, <1>6, <1>7 DEF Answers, OwnAnswer, Truthful, Written, Key

\* The invariant of the wire holds at first.
LEMMA WireInvInit == Init => WireInv
<1> SUFFICES ASSUME Init PROVE WireInv OBVIOUS
<1>1. DispatchInv BY DispatchInvInit
<1>2. Stamps BY DEF Init, Stamps, Observed, NoView, Unobserved
<1>3. WrittenOnce BY DEF Init, WrittenOnce
<1>4. NoFrame.code = "none" BY DEF NoFrame
<1>5. Answers BY <1>4 DEF Init, Answers, OwnAnswer
<1>6. QED BY <1>1, <1>2, <1>3, <1>5 DEF WireInv

\* Every action keeps the invariant of the wire.
LEMMA WireInvNext == WireInv /\ [Next]_vars => WireInv'
<1> SUFFICES ASSUME WireInv, [Next]_vars PROVE WireInv' OBVIOUS
<1>1. DispatchInv' /\ Stamps' BY DispatchInvNext, StampsNext DEF WireInv
<1>2. QED BY <1>1, WrittenOnceNext, AnswersNext DEF WireInv

-----------------------------------------------------------------------------
(* No way out of executeStep leaks a reservation.                          *)

\* What a step that Reset failed was to send is never sent.
NeverWritten ==
    \A s \in left : outcome[s] = "failed" => Key(s) \notin served \cup Spending

\* Only the worker moves for such a step, and it does not reach the transport.
LEMMA NeverWrittenNext ==
    ASSUME WireInv, WireInv', NeverWritten, [Next]_vars
    PROVE  NeverWritten'
<1> USE DEF WireInv, DispatchInv
<1> SUFFICES ASSUME NEW s \in left', outcome'[s] = "failed"
             PROVE  Key(s)' \notin served' \cup Spending'
  BY DEF NeverWritten
<1>0. s \in Steps BY DEF SettlementInv, Abandoned
<1>1. pc'[s] \in {"taken", "snapshot1", "done"} BY DEF SettlementInv, Abandoned
<1>2. CASE s \in left
  <2>1. outcome'[s] = outcome[s] /\ try'[s] = try[s]
    <3>1. ASSUME NEW r \in Steps, StepAct(r) PROVE outcome'[s] = outcome[s] /\ try'[s] = try[s]
      BY <1>0, <1>2, <3>1, OthersStay, LeftKeepsOutcome
    <3>2. CASE observeFrame \/ commitFrame \/ reconnect \/ serve \/ push \/ UNCHANGED vars
      BY <3>2, ObserveFacts, CommitFacts, ReconnectFacts, ServeFacts, PushFacts DEF stepVars, vars
    <3>3. QED BY <3>1, <3>2, NextCases
  <2>2. Key(s)' = Key(s) /\ Key(s) \notin served \cup Spending
    BY <1>2, <2>1 DEF NeverWritten, Key
  <2>3. pc[s] # "approved2" BY <1>2, <2>1 DEF SettlementInv, Abandoned
  <2>4. \A r \in Steps : pc[r] = "approved2" => Key(r) # Key(s) BY <1>0, <2>3, KeysDiffer
  <2>5. QED BY <2>2, <2>4, WireMoves
<1>3. CASE s \notin left
  <2>1. reset(s) BY <1>0, <1>3, LeftByReset
  <2>2. StepAct(s) BY <2>1 DEF StepAct, Settles
  <2>3. Key(s)' = Key(s) BY <2>1 DEF reset, Key
  <2>4. pc[s] \in {"queued"} \cup Dispatching
    BY <2>1 DEF reset, Dispatching
  <2>5. ~Written(Key(s))
    <3>1. Key(s)[1] = s /\ Key(s)[2] = try[s] /\ try[s] \in 1..MaxTries
      BY <1>0, KeysDiffer DEF Shaped, TypeOK
    <3>2. QED BY <2>4, <3>1, BoundsAssumption DEF Written, AfterWrite, Waiting, Dispatching
  <2>6. Key(s) \notin served \cup Spending BY <2>5, WireIsWritten
  <2>7. served' = served /\ outgoing' = outgoing
    BY <2>1 DEF reset, gameVars
  <2>8. QED BY <2>3, <2>6, <2>7 DEF Spending
<1>4. QED BY <1>2, <1>3

\* In every behaviour, whatever the number of steps, tries, frames and
\* connections, a debit that outlives its try in executeStep is marked, so the
\* next newer balance releases it; the one that is not belongs to a command that
\* Reset took from the worker, and when its step was told that it failed the
\* command never reaches the wire.
THEOREM ReservationsSettled == Spec => []ReservationsAreSettled
<1>1. WireInv /\ NeverWritten => ReservationsAreSettled
  <2> SUFFICES ASSUME WireInv, NeverWritten, NEW k \in Keys, pending[k] # NoDebit,
                      pc[k[1]] = "done" \/ k[2] < try[k[1]], ~(pending[k].settled > 0)
               PROVE  /\ k[1] \in left /\ k[2] = try[k[1]]
                      /\ outcome[k[1]] = "failed" => k \notin OnWire
    BY DEF ReservationsAreSettled, Reserved
  <2> USE DEF WireInv, DispatchInv
  <2>1. k[1] \in Steps /\ k[2] \in 1..MaxTries /\ k = <<k[1], k[2]>> BY DEF Keys
  <2>2. try[k[1]] \in 1..MaxTries BY <2>1 DEF Shaped, TypeOK
  <2>3. k[1] \in left /\ k[2] <= try[k[1]] /\ ~(k[2] < try[k[1]])
    BY DEF SettlementInv, DebitsFollowTries, Settling
  <2>4. k[2] = try[k[1]] BY <2>1, <2>2, <2>3, BoundsAssumption
  <2>5. k = Key(k[1]) BY <2>1, <2>4 DEF Key
  <2>6. OnWire \subseteq served \cup Spending
    <3> SUFFICES ASSUME NEW n \in DOMAIN outgoing PROVE outgoing[n].key \in served \cup Spending
      BY DEF OnWire
    <3>1. outgoing \in Seq(Commands) BY DEF Shaped
    <3>2. n \in 1..Len(outgoing) /\ outgoing[n] \in Commands BY <3>1
    <3>3. outgoing[n].key \in Keys /\ outgoing[n].kind \in {"spend", "balance"} BY <3>2 DEF Commands
    <3>4. QED BY <3>2, <3>3 DEF WrittenOnce, Spending, SpendingIn
  <2>7. QED BY <2>3, <2>4, <2>5, <2>6 DEF NeverWritten
<1>2. Init => NeverWritten BY DEF Init, NeverWritten
<1>3. WireInv /\ NeverWritten /\ [Next]_vars => WireInv' /\ NeverWritten'
  BY WireInvNext, NeverWrittenNext
<1>4. QED BY <1>1, <1>2, <1>3, WireInvInit, PTL DEF Spec

-----------------------------------------------------------------------------
(* What is counted stays counted.                                          *)

KnowInv == WireInv /\ Knowledge

\* The observations after any action: the old ones, none, and the balance of
\* the frame that was committed.
LEMMA ObservedMoves ==
    ASSUME DispatchInv, [Next]_vars
    PROVE  \/ Observed' \subseteq Observed \cup {Unobserved}
           \/ /\ commitFrame /\ ingest[1].coins # NoCoins
              /\ observation' = [gen |-> generation, at |-> ingest[1].at,
                                 coins |-> ingest[1].coins, after |-> ingest[1].after]
              /\ ingest[1].gen = generation
              /\ Observed' \subseteq Observed \cup {observation'}
<1> USE DEF DispatchInv
<1>1. ASSUME NEW s \in Steps, StepAct(s) PROVE Observed' \subseteq Observed \cup {Unobserved}
  <2>1. /\ observation' = observation /\ watermark' \in Observed
        /\ view'.observation \in Observed \cup {Unobserved}
    BY <1>1, StepObserved
  <2>2. QED BY <2>1 DEF Observed
<1>2. CASE observeFrame \/ reconnect \/ serve \/ push \/ UNCHANGED vars
  <2>1. UNCHANGED <<observation, view, watermark>>
    BY <1>2, ObserveFacts, ReconnectFacts, ServeFacts, PushFacts DEF storeVars, gateVars, vars
  <2>2. QED BY <2>1 DEF Observed
<1>3. CASE commitFrame
  <2>1. UNCHANGED <<view, watermark>> BY <1>3, CommitFacts
  <2>2. Observed' \subseteq Observed \cup {observation'} /\ observation \in Observed
    BY <2>1 DEF Observed
  <2>3. QED BY <1>3, <2>2, CommitFacts
<1>4. QED BY <1>1, <1>2, <1>3, NextCases

\* The frames on their way after any action: the old ones, and one that counts
\* all that the game has carried out if it brings a balance.
LEMMA IncomingMoves ==
    ASSUME DispatchInv, [Next]_vars
    PROVE  \/ incoming' = incoming
           \/ incoming' = <<>> /\ reconnect
           \/ incoming' = Tail(incoming) /\ incoming # <<>> /\ observeFrame
           \/ \E f \in Frames : /\ incoming' = Append(incoming, f) /\ f.gen = generation
                                /\ \/ f.coins = NoCoins /\ f.after = {}
                                   \/ f.coins = purse' /\ f.after = served'
<1> USE DEF DispatchInv
<1>1. (\E s \in Steps : StepAct(s)) \/ commitFrame \/ UNCHANGED vars => incoming' = incoming
  BY StepLeaves, CommitFacts DEF vars, gameVars
<1>2. reconnect => incoming' = <<>> BY ReconnectFacts
<1>3. observeFrame => incoming' = Tail(incoming) /\ incoming # <<>> BY ObserveFacts
<1>4. serve \/ push =>
        \E f \in Frames : /\ incoming' = Append(incoming, f) /\ f.gen = generation
                          /\ \/ f.coins = NoCoins /\ f.after = {}
                             \/ f.coins = purse' /\ f.after = served'
  BY ServeFacts, PushFacts DEF Replied
<1>5. QED BY <1>1, <1>2, <1>3, <1>4, NextCases

\* The frames in ingest after any action.
LEMMA IngestMoves ==
    ASSUME DispatchInv, [Next]_vars
    PROVE  \/ ingest' = ingest /\ ~observeFrame
           \/ ingest' = Tail(ingest) /\ ingest # <<>> /\ commitFrame
           \/ ingest' = Append(ingest, Stamped) /\ incoming # <<>> /\ observeFrame
<1> USE DEF DispatchInv
<1>1. (\E s \in Steps : StepAct(s)) \/ reconnect \/ serve \/ push \/ UNCHANGED vars => ingest' = ingest
  BY StepLeaves, ReconnectFacts, ServeFacts, PushFacts DEF vars, storeVars
<1>2. commitFrame => ingest' = Tail(ingest) /\ ingest # <<>> BY CommitFacts
<1>3. observeFrame => ingest' = Append(ingest, Stamped) /\ incoming # <<>> BY ObserveFacts
<1>4. QED BY <1>1, <1>2, <1>3, NextCases

\* The same, frame by frame.
LEMMA FramesAfter ==
    ASSUME DispatchInv, [Next]_vars
    PROVE  /\ \A n \in 1..Len(incoming') :
                 \/ \E m \in 1..Len(incoming) : incoming'[n] = incoming[m]
                 \/ /\ incoming'[n] \in Frames /\ incoming'[n].gen = generation
                    /\ \/ incoming'[n].coins = NoCoins /\ incoming'[n].after = {}
                       \/ incoming'[n].coins = purse' /\ incoming'[n].after = served'
           /\ \A n \in 1..Len(ingest') :
                 \/ \E m \in 1..Len(ingest) : ingest'[n] = ingest[m]
                 \/ observeFrame /\ ingest'[n] = Stamped
           /\ observeFrame => 1 \in 1..Len(incoming)
           /\ commitFrame => 1 \in 1..Len(ingest)
<1>0. ingest \in Seq(Frames) /\ incoming \in Seq(Frames) /\ Len(ingest) \in Nat /\ Len(incoming) \in Nat
  BY DEF DispatchInv, Shaped
<1>1. ASSUME NEW n \in 1..Len(incoming')
      PROVE  \/ \E m \in 1..Len(incoming) : incoming'[n] = incoming[m]
             \/ /\ incoming'[n] \in Frames /\ incoming'[n].gen = generation
                /\ \/ incoming'[n].coins = NoCoins /\ incoming'[n].after = {}
                   \/ incoming'[n].coins = purse' /\ incoming'[n].after = served'
  <2>1. CASE incoming' = incoming BY <2>1
  <2>2. CASE incoming' = <<>> BY <2>2
  <2>3. CASE incoming' = Tail(incoming) /\ incoming # <<>>
    <3>1. incoming'[n] = incoming[n + 1] /\ n + 1 \in 1..Len(incoming) BY <1>0, <2>3, TailFacts
    <3>2. QED BY <3>1
  <2>4. ASSUME NEW f \in Frames, incoming' = Append(incoming, f), f.gen = generation,
               \/ f.coins = NoCoins /\ f.after = {}
               \/ f.coins = purse' /\ f.after = served'
        PROVE  \/ \E m \in 1..Len(incoming) : incoming'[n] = incoming[m]
               \/ /\ incoming'[n] \in Frames /\ incoming'[n].gen = generation
                  /\ \/ incoming'[n].coins = NoCoins /\ incoming'[n].after = {}
                     \/ incoming'[n].coins = purse' /\ incoming'[n].after = served'
    <3>1. /\ Len(incoming') = Len(incoming) + 1 /\ incoming'[Len(incoming) + 1] = f
          /\ \A m \in 1..Len(incoming) : incoming'[m] = incoming[m]
      BY <1>0, <2>4, AppendFacts
    <3>2. n \in 1..Len(incoming) \/ n = Len(incoming) + 1 BY <1>0, <3>1
    <3>3. QED BY <2>4, <3>1, <3>2
  <2>5. QED BY <2>1, <2>2, <2>3, <2>4, IncomingMoves
<1>2. ASSUME NEW n \in 1..Len(ingest')
      PROVE  \/ \E m \in 1..Len(ingest) : ingest'[n] = ingest[m]
             \/ observeFrame /\ ingest'[n] = Stamped
  <2>1. CASE ingest' = ingest BY <2>1
  <2>2. CASE ingest' = Tail(ingest) /\ ingest # <<>>
    <3>1. ingest'[n] = ingest[n + 1] /\ n + 1 \in 1..Len(ingest) BY <1>0, <2>2, TailFacts
    <3>2. QED BY <3>1
  <2>3. CASE ingest' = Append(ingest, Stamped) /\ incoming # <<>> /\ observeFrame
    <3>1. Stamped \in Frames BY <2>3, ObserveFacts DEF DispatchInv
    <3>2. /\ Len(ingest') = Len(ingest) + 1 /\ ingest'[Len(ingest) + 1] = Stamped
          /\ \A m \in 1..Len(ingest) : ingest'[m] = ingest[m]
      BY <1>0, <2>3, <3>1, AppendFacts
    <3>3. n \in 1..Len(ingest) \/ n = Len(ingest) + 1 BY <1>0, <3>2
    <3>4. QED BY <2>3, <3>2, <3>3
  <2>4. QED BY <2>1, <2>2, <2>3, IngestMoves
<1>3. observeFrame => 1 \in 1..Len(incoming) BY <1>0, TailFacts DEF observeFrame
<1>4. commitFrame => 1 \in 1..Len(ingest) BY <1>0, TailFacts DEF commitFrame
<1>5. QED BY <1>1, <1>2, <1>3, <1>4

\* What is counted stays counted: the game never takes a command back.
LEMMA CountedStays ==
    ASSUME WireInv, [Next]_vars, NEW A, NEW time \in Nat, Counted(A, time)
    PROVE  Counted(A, time)'
<1> USE DEF WireInv
<1>1. A \subseteq served /\ (time > 0 \/ A = {}) BY DEF Counted
<1>2. A \subseteq served' BY <1>1, WireMoves
<1>3. ASSUME NEW n \in 1..Len(incoming'), incoming'[n].coins # NoCoins
      PROVE  A \subseteq incoming'[n].after
  BY <1>2, <1>3, FramesAfter DEF Counted
<1>4. ASSUME NEW n \in 1..Len(ingest'), ingest'[n].coins # NoCoins, time <= ingest'[n].at
      PROVE  A \subseteq ingest'[n].after
  <2>1. CASE observeFrame /\ ingest'[n] = Stamped
    <3>1. 1 \in 1..Len(incoming) BY <2>1, FramesAfter
    <3>2. Stamped.coins = incoming[1].coins /\ Stamped.after = incoming[1].after
      BY <2>1, ObserveFacts DEF DispatchInv
    <3>3. QED BY <1>4, <2>1, <3>1, <3>2 DEF Counted
  <2>2. CASE \E m \in 1..Len(ingest) : ingest'[n] = ingest[m] BY <1>4, <2>2 DEF Counted
  <2>3. QED BY <2>1, <2>2, FramesAfter
<1>5. ASSUME NEW x \in Observed', time <= x.at PROVE A \subseteq x.after
  <2>1. CASE x \in Observed BY <1>5, <2>1 DEF Counted
  <2>2. CASE x = Unobserved BY <1>1, <1>5, <2>2 DEF Unobserved
  <2>3. CASE x \notin Observed \cup {Unobserved}
    <3>1. /\ commitFrame /\ ingest[1].coins # NoCoins
          /\ x = [gen |-> generation, at |-> ingest[1].at,
                  coins |-> ingest[1].coins, after |-> ingest[1].after]
      BY <1>5, <2>3, ObservedMoves
    <3>2. 1 \in 1..Len(ingest) BY <3>1, FramesAfter
    <3>3. QED BY <1>5, <3>1, <3>2 DEF Counted
  <2>4. QED BY <2>1, <2>2, <2>3
<1>6. QED BY <1>1, <1>2, <1>3, <1>4, <1>5 DEF Counted

\* Every action keeps that what a frame shows is counted by those after it.
LEMMA KnowledgeNext ==
    ASSUME KnowInv, WireInv', [Next]_vars
    PROVE  Knowledge'
<1> USE DEF KnowInv, WireInv, DispatchInv
<1> DEFINE C(A, time) ==
             /\ A \subseteq served'
             /\ time > 0 \/ A = {}
             /\ \A n \in 1..Len(incoming') : incoming'[n].coins # NoCoins => A \subseteq incoming'[n].after
             /\ \A n \in 1..Len(ingest') :
                   ingest'[n].coins # NoCoins /\ time <= ingest'[n].at => A \subseteq ingest'[n].after
             /\ \A x \in Observed' : time <= x.at => A \subseteq x.after
<1>0. /\ ingest \in Seq(Frames) /\ incoming \in Seq(Frames) /\ clock \in Nat
      /\ Len(ingest) \in Nat /\ Len(incoming) \in Nat
      /\ \A n \in 1..Len(ingest) : ingest[n].at \in Nat
      /\ observation.at \in Nat /\ \A x \in Observed : x.at \in Nat
  <2>1. ingest \in Seq(Frames) /\ incoming \in Seq(Frames) /\ clock \in Nat BY DEF Shaped
  <2>2. \A n \in 1..Len(ingest) : ingest[n] \in Frames BY <2>1
  <2>3. \A n \in 1..Len(ingest) : ingest[n].at \in Nat BY <2>2 DEF Frames
  <2>4. observation.at \in Nat /\ \A x \in Observed : x.at \in Nat
    BY DEF Shaped, TypeOK, Observations, Observed
  <2>5. QED BY <2>1, <2>3, <2>4
<1>1. ASSUME NEW A, NEW time \in Nat, Counted(A, time) PROVE C(A, time)
  <2>1. Counted(A, time)' BY <1>1, CountedStays
  <2>2. QED BY <2>1 DEF Counted
<1>2. \A A, B, time : C(B, time) /\ A \subseteq B => C(A, time) OBVIOUS
<1>3. \A n \in 1..Len(incoming') : Shown(incoming'[n]) \subseteq served'
  <2> SUFFICES ASSUME NEW n \in 1..Len(incoming') PROVE Shown(incoming'[n]) \subseteq served' OBVIOUS
  <2>1. CASE \E m \in 1..Len(incoming) : incoming'[n] = incoming[m]
    BY <2>1, WireMoves DEF Knowledge
  <2>2. CASE ~(\E m \in 1..Len(incoming) : incoming'[n] = incoming[m])
    <3>1. incoming'[n].after \subseteq served' BY <2>2, FramesAfter
    <3>2. incoming'[n].code \in Responses => incoming'[n].key \in served' BY DEF Answers, Truthful
    <3>3. QED BY <3>1, <3>2 DEF Shown
  <2>3. QED BY <2>1, <2>2
<1>4. ASSUME NEW m \in 1..Len(incoming'), NEW n \in 1..Len(incoming'), m <= n,
             incoming'[n].coins # NoCoins
      PROVE  Shown(incoming'[m]) \subseteq incoming'[n].after
  <2>1. CASE incoming' = incoming BY <1>4, <2>1 DEF Knowledge
  <2>2. CASE incoming' = <<>> BY <1>4, <2>2
  <2>3. CASE incoming' = Tail(incoming) /\ incoming # <<>>
    <3>1. \A i \in 1..Len(incoming') : incoming'[i] = incoming[i + 1] /\ i + 1 \in 1..Len(incoming)
      BY <1>0, <2>3, TailFacts
    <3>2. m + 1 <= n + 1 BY <1>4
    <3>3. QED BY <1>4, <3>1, <3>2 DEF Knowledge
  <2>4. ASSUME NEW f \in Frames, incoming' = Append(incoming, f),
               \/ f.coins = NoCoins /\ f.after = {}
               \/ f.coins = purse' /\ f.after = served'
        PROVE  Shown(incoming'[m]) \subseteq incoming'[n].after
    <3>1. /\ Len(incoming') = Len(incoming) + 1 /\ incoming'[Len(incoming) + 1] = f
          /\ \A i \in 1..Len(incoming) : incoming'[i] = incoming[i]
      BY <1>0, <2>4, AppendFacts
    <3>2. CASE n = Len(incoming) + 1 BY <1>3, <1>4, <2>4, <3>1, <3>2
    <3>3. CASE n # Len(incoming) + 1
      <4>1. n \in 1..Len(incoming) /\ m \in 1..Len(incoming) BY <1>0, <1>4, <3>1, <3>3
      <4>2. QED BY <1>4, <3>1, <4>1 DEF Knowledge
    <3>4. QED BY <3>2, <3>3
  <2>5. QED BY <2>1, <2>2, <2>3, <2>4, IncomingMoves
<1>5. observeFrame => C(Shown(Stamped), clock + 1)
  <2> HAVE observeFrame
  <2>1. /\ incoming # <<>> /\ incoming' = Tail(incoming) /\ clock' = clock + 1
        /\ Stamped.key = incoming[1].key /\ Stamped.code = incoming[1].code
        /\ Stamped.coins = incoming[1].coins /\ Stamped.after = incoming[1].after
        /\ Stamped.at = clock + 1 /\ UNCHANGED <<observation, view, watermark>>
    BY ObserveFacts
  <2>2. 1 \in 1..Len(incoming) BY FramesAfter
  <2>3. Shown(Stamped) = Shown(incoming[1]) BY <2>1 DEF Shown
  <2>4. Shown(Stamped) \subseteq served' BY <2>2, <2>3, WireMoves DEF Knowledge
  <2>5. \A n \in 1..Len(incoming') : incoming'[n].coins # NoCoins => Shown(Stamped) \subseteq incoming'[n].after
    <3>1. \A n \in 1..Len(incoming') :
             incoming'[n] = incoming[n + 1] /\ n + 1 \in 1..Len(incoming) /\ 1 <= n + 1
      BY <1>0, <2>1, TailFacts
    <3>2. QED BY <2>2, <2>3, <3>1 DEF Knowledge
  <2>6. ASSUME NEW n \in 1..Len(ingest'), ingest'[n].coins # NoCoins, clock + 1 <= ingest'[n].at
        PROVE  Shown(Stamped) \subseteq ingest'[n].after
    <3>1. \A m \in 1..Len(ingest) : ingest[m].at <= clock BY <1>0 DEF Stamps
    <3>2. ingest'[n] = Stamped BY <1>0, <2>6, <3>1, FramesAfter
    <3>3. QED BY <2>1, <2>2, <2>3, <2>6, <3>2 DEF Knowledge
  <2>7. \A x \in Observed' : ~(clock + 1 <= x.at)
    <3>1. Observed' = Observed BY <2>1 DEF Observed
    <3>2. QED BY <1>0, <3>1 DEF Stamps
  <2>8. QED BY <1>0, <2>4, <2>5, <2>6, <2>7
<1>6. ASSUME NEW n \in 1..Len(ingest') PROVE C(Shown(ingest'[n]), ingest'[n].at)
  <2>1. CASE observeFrame /\ ingest'[n] = Stamped
    <3>1. Stamped.at = clock + 1 BY <2>1, ObserveFacts
    <3>2. QED BY <1>5, <2>1, <3>1
  <2>2. CASE \E m \in 1..Len(ingest) : ingest'[n] = ingest[m]
    <3>1. PICK m \in 1..Len(ingest) : ingest'[n] = ingest[m] BY <2>2
    <3>2. Counted(Shown(ingest[m]), ingest[m].at) /\ ingest[m].at \in Nat BY <1>0, <3>1 DEF Knowledge
    <3>3. QED BY <1>1, <3>1, <3>2
  <2>3. QED BY <2>1, <2>2, FramesAfter
<1>7. ASSUME NEW s \in Steps, answer'[s].code # "none" PROVE C(Shown(answer'[s]), answer'[s].at)
  <2>1. CASE answer'[s] = answer[s]
    <3>1. Counted(Shown(answer[s]), answer[s].at) /\ answer[s].at \in Nat
      BY <1>0, <1>7, <2>1 DEF Knowledge, Answers, OwnAnswer
    <3>2. QED BY <1>1, <2>1, <3>1
  <2>2. CASE answer'[s] # answer[s] /\ observeFrame
    <3>1. answer'[s] = Stamped /\ Stamped.at = clock + 1 BY <2>2, ObserveFacts
    <3>2. QED BY <1>5, <2>2, <3>1
  <2>3. CASE answer'[s] # answer[s] /\ commitFrame
    <3>1. Same(answer'[s], ingest[1]) BY <2>3, CommitFacts
    <3>2. Shown(answer'[s]) = Shown(ingest[1]) /\ answer'[s].at = ingest[1].at
      BY <3>1 DEF Same, Shown
    <3>3. 1 \in 1..Len(ingest) BY <2>3, FramesAfter
    <3>4. Counted(Shown(ingest[1]), ingest[1].at) /\ ingest[1].at \in Nat BY <1>0, <3>3 DEF Knowledge
    <3>5. QED BY <1>1, <3>2, <3>4
  <2>4. CASE reconnect \/ serve \/ push \/ UNCHANGED vars
    <3>1. answer' = answer BY <2>4, ReconnectFacts, ServeFacts, PushFacts DEF vars, stepVars
    <3>2. QED BY <2>1, <3>1
  <2>5. ASSUME NEW r \in Steps, StepAct(r) PROVE C(Shown(answer'[s]), answer'[s].at)
    <3>1. NoFrame.code = "none" BY DEF NoFrame
    <3>2. answer'[s] = answer[s] BY <1>7, <2>5, <3>1, AnswerMoves, OthersStay
    <3>3. QED BY <2>1, <3>2
  <2>6. QED BY <2>1, <2>2, <2>3, <2>4, <2>5, NextCases
<1>8. ASSUME NEW x \in Observed' PROVE C(x.after, x.at)
  <2>1. CASE x \in Observed
    <3>1. Counted(x.after, x.at) /\ x.at \in Nat BY <1>0, <2>1 DEF Knowledge
    <3>2. QED BY <1>1, <3>1
  <2>2. CASE x = Unobserved
    <3>1. x.after = {} BY <2>2 DEF Unobserved
    <3>2. QED BY <3>1
  <2>3. CASE x \notin Observed \cup {Unobserved}
    <3>1. /\ commitFrame
          /\ x = [gen |-> generation, at |-> ingest[1].at,
                  coins |-> ingest[1].coins, after |-> ingest[1].after]
      BY <1>8, <2>3, ObservedMoves
    <3>2. 1 \in 1..Len(ingest) BY <3>1, FramesAfter
    <3>3. Counted(Shown(ingest[1]), ingest[1].at) /\ ingest[1].at \in Nat BY <1>0, <3>2 DEF Knowledge
    <3>4. C(Shown(ingest[1]), ingest[1].at) BY <1>1, <3>3
    <3>5. x.after \subseteq Shown(ingest[1]) /\ x.at = ingest[1].at BY <3>1 DEF Shown
    <3>6. QED BY <1>2, <3>4, <3>5
  <2>4. QED BY <2>1, <2>2, <2>3
<1>9. QED BY <1>3, <1>4, <1>6, <1>7, <1>8 DEF Knowledge, Counted, Shown

\* The invariant of what the frames show holds at first.
LEMMA KnowInvInit == Init => KnowInv
<1> SUFFICES ASSUME Init PROVE KnowInv OBVIOUS
<1>1. WireInv BY WireInvInit
<1>2. NoFrame.code = "none" BY DEF NoFrame
<1>3. \A x \in Observed : x.after = {} BY DEF Init, Observed, NoView, Unobserved
<1>4. \A x \in Observed : Counted(x.after, x.at) BY <1>3 DEF Counted
<1>5. Knowledge BY <1>2, <1>4 DEF Init, Knowledge
<1>6. QED BY <1>1, <1>5 DEF KnowInv

\* Every action keeps the invariant of what the frames show.
LEMMA KnowInvNext == KnowInv /\ [Next]_vars => KnowInv'
<1> SUFFICES ASSUME KnowInv, [Next]_vars PROVE KnowInv' OBVIOUS
<1>1. WireInv' BY WireInvNext DEF KnowInv
<1>2. QED BY <1>1, KnowledgeNext DEF KnowInv

-----------------------------------------------------------------------------
(* A debit is released too early only if nobody waits for its command.     *)

RelInv == KnowInv /\ Releases

\* A step that has ended does nothing more.
LEMMA DoneIsQuiet ==
    ASSUME Shaped, NEW s \in Steps, pc[s] = "done"
    PROVE  ~StepAct(s)
BY DEF StepAct, Quiet, Sends, Settles, prepare, prepareFails, refuseQueued, readContext,
   validateRefuses, writeRefused, awaitCommit, refreshed, refreshFails, retry, write, writeFails,
   refreshCoins, reset, sendFailed, sendSettled, giveUp, rejected, consumed, unusable, commitFails,
   accepted, Validate, Answered

\* Nobody starts to wait again for a command that nobody waits for.
LEMMA UnawaitedStays ==
    ASSUME WireInv, [Next]_vars, NEW k \in Keys, Unawaited(k)
    PROVE  Unawaited(k)'
<1> USE DEF WireInv, DispatchInv
<1>0. k[1] \in Steps BY DEF Keys
<1>1. pc[k[1]] = "done" \/ k[1] \in left BY <1>0 DEF Unawaited, Answers, OwnAnswer
<1>2. ASSUME NEW s \in Steps, StepAct(s) PROVE Unawaited(k)'
  <2>1. CASE s # k[1] BY <1>0, <1>2, <2>1, OthersStay DEF Unawaited
  <2>2. CASE s = k[1]
    <3>1. s \in left BY <1>1, <1>2, <2>2, DoneIsQuiet
    <3>2. QED BY <1>2, <3>1, LeftKeepsOutcome DEF Unawaited
  <2>3. QED BY <2>1, <2>2
<1>3. CASE observeFrame \/ commitFrame \/ reconnect \/ serve \/ push \/ UNCHANGED vars
  <2>1. outcome' = outcome /\ barrier' = barrier
    BY <1>3, ObserveFacts, CommitFacts, ReconnectFacts, ServeFacts, PushFacts DEF stepVars, vars
  <2>2. QED BY <2>1 DEF Unawaited
<1>4. QED BY <1>2, <1>3, NextCases

\* A debit is marked by a step that ends without an answer, or that has one,
\* which shows that the command was carried out.
LEMMA MarkedWhen ==
    ASSUME KnowInv, NEW s \in Steps, Settles(s), pending'[Key(s)] # NoDebit
    PROVE  Unawaited(Key(s))' \/ Counted({Key(s)}, clock + 1)
<1> USE DEF KnowInv, WireInv, DispatchInv
<1>0. Key(s) \in Keys /\ Key(s)[1] = s BY KeysDiffer
<1>1. CASE sendFailed(s) \/ rejected(s)
  <2>1. pending' = Dropped(Key(s)) BY <1>1 DEF sendFailed, rejected
  <2>2. QED BY <1>0, <2>1, DroppedFacts DEF SettlementInv
<1>2. CASE sendSettled(s) \/ giveUp(s)
  <2>1. \/ outcome'[s] = "indeterminate"
        \/ pc[s] = "sent" /\ outcome'[s] = "succeeded"
    BY <1>2 DEF sendSettled, giveUp, Finish, Shaped, TypeOK
  <2>2. barrier' = barrier /\ try' = try BY <1>2 DEF sendSettled, giveUp
  <2>3. Key(s)' = Key(s) BY <2>2 DEF Key
  <2>4. pc[s] = "sent" => barrier[s] = "none" BY DEF Answers, OwnAnswer
  <2>5. QED BY <1>0, <2>1, <2>2, <2>3, <2>4 DEF Unawaited
<1>3. CASE consumed(s) \/ unusable(s) \/ commitFails(s) \/ accepted(s)
  <2>1. answer[s].code \in Responses
    <3>1. \/ answer[s].code \in Responses
          \/ pc[s] = "committing"
      BY <1>3 DEF consumed, unusable, commitFails, accepted, Answered, Responses
    <3>2. QED BY <3>1 DEF Answers, OwnAnswer, Responses
  <2>2. answer[s].code # "none" /\ pc[s] # "ready"
    BY <1>3, <2>1 DEF consumed, unusable, commitFails, accepted, Answered, Responses
  <2>3. answer[s].key = Key(s) /\ answer[s].at \in 1..clock /\ clock \in Nat
    BY <2>2 DEF Answers, OwnAnswer, Shaped
  <2>4. Counted(Shown(answer[s]), answer[s].at) BY <2>2 DEF Knowledge
  <2>5. Key(s) \in Shown(answer[s]) BY <2>1, <2>3 DEF Shown
  <2>6. \A x \in Observed : x.at \in Nat BY DEF Shaped, TypeOK, Observations, Observed
  <2>7. \A n \in 1..Len(ingest) : ingest[n].at \in Nat
    <3>1. ingest \in Seq(Frames) BY DEF Shaped
    <3>2. \A n \in 1..Len(ingest) : ingest[n] \in Frames BY <3>1
    <3>3. QED BY <3>2 DEF Frames
  <2>8. Counted({Key(s)}, clock + 1) BY <2>3, <2>4, <2>5, <2>6, <2>7 DEF Counted
  <2>9. QED BY <2>8
<1>a. CASE reset(s)
  <2>1. CASE pending' = Dropped(Key(s)) BY <1>0, <2>1, DroppedFacts DEF SettlementInv
  <2>2. CASE outcome' = [outcome EXCEPT ![s] = "indeterminate"]
    <3>1. outcome'[s] = "indeterminate" BY <2>2 DEF Shaped, TypeOK
    <3>2. Key(s)' = Key(s) BY <1>a DEF reset, Key
    <3>3. QED BY <1>0, <3>1, <3>2 DEF Unawaited
  <2>3. QED BY <1>a, <2>1, <2>2 DEF reset
<1>4. QED BY <1>1, <1>2, <1>3, <1>a DEF Settles

\* The debits after any action: dropped, kept, marked, or new for a command that
\* is not written yet.
LEMMA DebitsMove ==
    ASSUME DispatchInv, [Next]_vars, NEW k \in Keys
    PROVE  \/ pending'[k] = NoDebit
           \/ pending'[k] = pending[k]
           \/ \E s \in Steps : /\ Settles(s) /\ k = Key(s) /\ pending[k] # NoDebit
                               /\ pending'[k].gen = pending[k].gen /\ pending'[k].settled = clock
           \/ \E s \in Steps : /\ Validate(s) /\ k = Key(s) /\ ~Written(k)
                               /\ pending'[k].settled = 0
<1> USE DEF DispatchInv
<1>1. ASSUME NEW s \in Steps, Settles(s)
      PROVE  \/ pending'[k] = NoDebit
             \/ pending'[k] = pending[k]
             \/ /\ Settles(s) /\ k = Key(s) /\ pending[k] # NoDebit
                /\ pending'[k].gen = pending[k].gen /\ pending'[k].settled = clock
  BY <1>1, SettlesDebits
<1>2. ASSUME NEW s \in Steps, Validate(s)
      PROVE  \/ pending'[k] = NoDebit
             \/ pending'[k] = pending[k]
             \/ Validate(s) /\ k = Key(s) /\ ~Written(k) /\ pending'[k].settled = 0
  <2>1. ~Written(Key(s)) BY <1>2, NotWritten DEF Validate, Dispatching
  <2>2. QED BY <1>2, <2>1, ValidateGate
<1>3. ASSUME NEW s \in Steps, Quiet(s) \/ Sends(s), ~Settles(s), ~Validate(s) PROVE pending' = pending
  BY <1>3, StepLeaves DEF StepAct
<1>4. CASE observeFrame \/ commitFrame \/ reconnect \/ serve \/ push \/ UNCHANGED vars
  BY <1>4, ObserveFacts, CommitFacts, ReconnectFacts, ServeFacts, PushFacts DEF gateVars, vars
<1>5. QED BY <1>1, <1>2, <1>3, <1>4, NextCases DEF StepAct

\* The marks: a settled debit of a command that is still awaited is counted.
LEMMA MarksNext ==
    ASSUME RelInv, [Next]_vars, NEW k \in Keys, NEW t \in Nat, pending'[k].settled > 0,
           t = pending'[k].settled + 1
    PROVE  Unawaited(k)' \/ Counted({k}, t)'
<1> USE DEF RelInv, KnowInv, WireInv, DispatchInv
<1>0. NoDebit.settled = 0 BY DEF NoDebit
<1>1. CASE pending'[k] = pending[k]
  <2>1. Unawaited(k) \/ Counted({k}, t) BY <1>1 DEF Releases
  <2>2. QED BY <2>1, UnawaitedStays, CountedStays
<1>2. ASSUME NEW s \in Steps, Settles(s), k = Key(s), pending'[k].settled = clock
      PROVE  Unawaited(k)' \/ Counted({k}, t)'
  <2>1. pending'[Key(s)] # NoDebit BY <1>0, <1>2
  <2>2. CASE Counted({Key(s)}, clock + 1)
    <3>1. Counted({k}, t) BY <1>2, <2>2
    <3>2. QED BY <3>1, CountedStays
  <2>3. CASE Unawaited(Key(s))'
    <3>1. Key(s)'[1] = s BY DEF Key
    <3>2. k[1] = s BY <1>2 DEF Key
    <3>3. QED BY <2>3, <3>1, <3>2 DEF Unawaited
  <2>4. QED BY <1>2, <2>1, <2>2, <2>3, MarkedWhen
<1>3. pending'[k].settled # 0 OBVIOUS
<1>4. \/ pending'[k] = pending[k]
      \/ \E s \in Steps : Settles(s) /\ k = Key(s) /\ pending'[k].settled = clock
  BY <1>0, <1>3, DebitsMove
<1>5. QED BY <1>1, <1>2, <1>4

\* The connections: a debit whose command is on its way is of this connection,
\* and the balances of later connections count what was carried out.
LEMMA LaterCountNext ==
    ASSUME RelInv, DispatchInv', [Next]_vars, NEW k \in Keys, pending'[k] # NoDebit
    PROVE  /\ k \in Spending' => pending'[k].gen = generation'
           /\ k \in served' => LaterCount(k)'
<1> USE DEF RelInv, KnowInv, WireInv
<1>0. /\ generation \in Nat /\ pending[k].gen \in Nat /\ pending'[k].gen \in Nat
      /\ \A s \in Steps : Key(s) \in Keys
  <2>1. generation \in Nat BY BoundsAssumption DEF DispatchInv, Shaped, TypeOK
  <2>2. pending[k].gen \in Nat /\ pending'[k].gen \in Nat
    BY DEF DispatchInv, SettlementInv, Typed, Debits
  <2>3. QED BY <2>1, <2>2, KeysDiffer DEF DispatchInv
<1>1. CASE k \in Spending \cup served
  <2>1. pending[k] # NoDebit /\ pending'[k].gen = pending[k].gen
    BY <1>1, DebitsMove, WireIsWritten
  <2>2. k \in Spending' => k \in Spending /\ generation' = generation
    <3>1. CASE reconnect
      <4>1. SpendingIn(<<>>) = {} BY DEF SpendingIn
      <4>2. QED BY <3>1, <4>1, ReconnectFacts DEF Spending, DispatchInv
    <3>2. CASE ~reconnect
      <4>1. generation' = generation
        BY <3>2, StepLeaves, ObserveFacts, CommitFacts, ServeFacts, PushFacts, NextCases
           DEF DispatchInv, storeVars, vars
      <4>2. k \in Spending' => k \in Spending
        <5>1. k \in served => k \notin Spending' BY WireIsWritten, WireMoves, NotWritten
              DEF DispatchInv, Dispatching
        <5>2. QED BY <1>1, <5>1
      <4>3. QED BY <4>1, <4>2
    <3>3. QED BY <3>1, <3>2
  <2>3. k \in Spending => pending[k].gen = generation BY <2>1 DEF Releases, Reserved
  <2>4. CASE k \in served
    <3>1. LaterCount(k) BY <2>1, <2>4 DEF Releases, Reserved, LaterCount
    <3>2. k \in served' BY <2>4, WireMoves
    <3>3. ASSUME NEW n \in 1..Len(incoming'), incoming'[n].coins # NoCoins,
                 incoming'[n].gen > pending'[k].gen
          PROVE  k \in incoming'[n].after
      BY <2>1, <3>1, <3>2, <3>3, FramesAfter DEF LaterCount
    <3>4. ASSUME NEW n \in 1..Len(ingest'), ingest'[n].coins # NoCoins,
                 ingest'[n].gen > pending'[k].gen
          PROVE  k \in ingest'[n].after
      <4>1. CASE observeFrame /\ ingest'[n] = Stamped
        <5>1. 1 \in 1..Len(incoming) BY <4>1, FramesAfter
        <5>2. /\ Stamped.coins = incoming[1].coins /\ Stamped.after = incoming[1].after
              /\ Stamped.gen = incoming[1].gen
          BY <4>1, ObserveFacts DEF DispatchInv
        <5>3. QED BY <2>1, <3>1, <3>4, <4>1, <5>1, <5>2 DEF LaterCount
      <4>2. CASE \E m \in 1..Len(ingest) : ingest'[n] = ingest[m]
        BY <2>1, <3>1, <3>4, <4>2 DEF LaterCount
      <4>3. QED BY <4>1, <4>2, FramesAfter
    <3>5. ASSUME NEW x \in Observed', x.gen > pending'[k].gen PROVE k \in x.after
      <4>1. CASE x \in Observed BY <2>1, <3>1, <3>5, <4>1 DEF LaterCount
      <4>2. CASE x = Unobserved BY <1>0, <3>5, <4>2 DEF Unobserved
      <4>3. CASE x \notin Observed \cup {Unobserved}
        <5>1. /\ commitFrame /\ ingest[1].coins # NoCoins /\ ingest[1].gen = generation
              /\ x = [gen |-> generation, at |-> ingest[1].at,
                      coins |-> ingest[1].coins, after |-> ingest[1].after]
          BY <3>5, <4>3, ObservedMoves
        <5>2. 1 \in 1..Len(ingest) BY <5>1, FramesAfter
        <5>3. QED BY <2>1, <3>1, <3>5, <5>1, <5>2 DEF LaterCount
      <4>4. QED BY <4>1, <4>2, <4>3
    <3>6. LaterCount(k)' BY <3>3, <3>4, <3>5 DEF LaterCount
    <3>7. QED BY <2>1, <2>2, <2>3, <3>6
  <2>5. CASE k \in Spending /\ k \notin served /\ k \in served'
    <3>1. pending'[k].gen = generation BY <2>1, <2>3, <2>5
    <3>2. generation' = generation
      <4>1. ~reconnect BY <2>5, ReconnectFacts DEF DispatchInv
      <4>2. QED BY <4>1, StepLeaves, ObserveFacts, CommitFacts, ServeFacts, PushFacts, NextCases
            DEF DispatchInv, storeVars, vars
    <3>3. \A n \in 1..Len(incoming') : ~(incoming'[n].gen > generation)
      <4>1. incoming' \in Seq(Frames) BY DEF DispatchInv, Shaped
      <4>2. \A n \in 1..Len(incoming') : incoming'[n] \in Frames BY <4>1
      <4>3. \A n \in 1..Len(incoming') : incoming'[n].gen \in Nat BY <4>2 DEF Frames
      <4>4. QED BY <1>0, <3>2, <4>3 DEF DispatchInv, Generations
    <3>4. \A n \in 1..Len(ingest') : ~(ingest'[n].gen > generation)
      <4>1. ingest' \in Seq(Frames) BY DEF DispatchInv, Shaped
      <4>2. \A n \in 1..Len(ingest') : ingest'[n] \in Frames BY <4>1
      <4>3. \A n \in 1..Len(ingest') : ingest'[n].gen \in Nat BY <4>2 DEF Frames
      <4>4. QED BY <1>0, <3>2, <4>3 DEF DispatchInv, Generations
    <3>5. \A x \in Observed' : ~(x.gen > generation)
      <4>1. \A x \in Observed' : x.gen \in Nat BY DEF DispatchInv, Shaped, TypeOK, Observations, Observed
      <4>2. QED BY <1>0, <3>2, <4>1 DEF DispatchInv, Shaped
    <3>6. LaterCount(k)' BY <3>1, <3>3, <3>4, <3>5 DEF LaterCount
    <3>7. QED BY <2>1, <2>2, <2>3, <3>6
  <2>6. QED BY <1>1, <2>1, <2>2, <2>3, <2>4, <2>5
<1>2. CASE k \notin Spending \cup served
  <2>1. k \notin served' BY <1>2, WireMoves
  <2>2. ASSUME k \in Spending' PROVE pending'[k].gen = generation'
    <3>1. PICK s \in Steps : /\ k = Key(s) /\ conn[s] = generation
                             /\ UNCHANGED <<pending, generation>>
      BY <1>2, <2>2, WireMoves
    <3>2. pending[k].gen >= generation /\ pending[k].gen <= generation
      BY <1>0, <3>1 DEF DispatchInv, Dispatched, CurrentDebit, Generations
    <3>3. QED BY <1>0, <3>1, <3>2
  <2>3. QED BY <2>1, <2>2
<1>3. QED BY <1>1, <1>2

\* The gate releases the debit of a command that the balance leaves out only
\* if nobody waits for the command.
LEMMA EarlyRelease ==
    ASSUME RelInv, NEW s \in Steps, Validate(s), NEW k \in Released(view.observation),
           k \in OnWire, k \notin view.observation.after
    PROVE  k \in Keys /\ Unawaited(k)
<1> DEFINE o == view.observation
<1> USE DEF RelInv, KnowInv, WireInv
<1>0. /\ k \in Keys /\ k \in Reserved(pending) /\ o \in Observed
  BY DEF Released, Reserved, Observed
<1>1. /\ pending[k].gen \in Nat /\ pending[k].settled \in Nat /\ generation \in Nat
      /\ o.gen \in Nat /\ o.at \in Nat /\ view.generation \in Nat
  <2>1. pending[k].gen \in Nat /\ pending[k].settled \in Nat
    BY <1>0 DEF DispatchInv, SettlementInv, Typed, Debits
  <2>2. o.gen \in Nat /\ o.at \in Nat BY DEF DispatchInv, Shaped, TypeOK, Observations
  <2>3. generation \in Nat BY BoundsAssumption DEF DispatchInv, Shaped, TypeOK
  <2>4. view.generation \in Nat BY DEF DispatchInv, Shaped
  <2>5. QED BY <2>1, <2>2, <2>3, <2>4
<1>2. k \in served \cup Spending
  <2>1. CASE k \in served BY <2>1
  <2>2. CASE k \in {outgoing[n].key : n \in DOMAIN outgoing}
    <3>1. PICK n \in DOMAIN outgoing : k = outgoing[n].key BY <2>2
    <3>2. outgoing \in Seq(Commands) BY DEF DispatchInv, Shaped
    <3>3. n \in 1..Len(outgoing) BY <3>1, <3>2
    <3>4. QED BY <1>0, <3>1, <3>3 DEF WrittenOnce, Spending, SpendingIn
  <2>3. QED BY <2>1, <2>2 DEF OnWire
<1>3. CASE o.gen = pending[k].gen
  <2>1. pending[k].settled > 0 /\ o.at > pending[k].settled BY <1>3 DEF Released
  <2>2. Unawaited(k) \/ Counted({k}, pending[k].settled + 1) BY <1>0, <2>1 DEF Releases
  <2>3. pending[k].settled + 1 <= o.at BY <1>1, <2>1
  <2>4. QED BY <1>0, <2>2, <2>3 DEF Counted
<1>4. CASE o.gen # pending[k].gen
  <2>1. pc[s] \in {"snapshot1", "snapshot2"} /\ o.gen = view.generation BY DEF Validate, Missing
  <2>2. pending[k].gen <= view.generation /\ view.generation <= generation
    BY <1>0, <2>1 DEF DispatchInv, Generations, CurrentView
  <2>3. o.gen > pending[k].gen /\ generation > pending[k].gen BY <1>1, <1>4, <2>1, <2>2
  <2>4. k \notin Spending BY <1>0, <1>1, <2>3 DEF Releases
  <2>5. LaterCount(k) BY <1>0, <1>2, <2>4 DEF Releases
  <2>6. QED BY <1>0, <2>3, <2>5 DEF LaterCount
<1>5. QED BY <1>0, <1>3, <1>4

\* Every action keeps that the balances which release a debit count its command.
LEMMA ReleasesNext ==
    ASSUME RelInv, DispatchInv', [Next]_vars
    PROVE  Releases'
<1> DEFINE C(A, time) ==
             /\ A \subseteq served'
             /\ time > 0 \/ A = {}
             /\ \A n \in 1..Len(incoming') : incoming'[n].coins # NoCoins => A \subseteq incoming'[n].after
             /\ \A n \in 1..Len(ingest') :
                   ingest'[n].coins # NoCoins /\ time <= ingest'[n].at => A \subseteq ingest'[n].after
             /\ \A x \in Observed' : time <= x.at => A \subseteq x.after
           U(k) == \/ outcome'[k[1]] = "indeterminate"
                   \/ outcome'[k[1]] = "succeeded" /\ barrier'[k[1]] = "none"
<1>1. ASSUME NEW k \in Keys, pending'[k].settled > 0
      PROVE  U(k) \/ C({k}, pending'[k].settled + 1)
  <2>1. pending'[k].settled \in Nat BY DEF DispatchInv, SettlementInv, Typed, Debits
  <2>2. PICK t \in Nat : t = pending'[k].settled + 1 BY <2>1
  <2>3. Unawaited(k)' \/ Counted({k}, t)' BY <1>1, <2>2, MarksNext
  <2>4. U(k) \/ C({k}, t) BY <2>3 DEF Unawaited, Counted
  <2>5. QED BY <2>2, <2>4
<1>2. \A k \in Reserved(pending)' : /\ k \in Spending' => pending'[k].gen = generation'
                                    /\ k \in served' => LaterCount(k)'
  <2> SUFFICES ASSUME NEW k \in Keys, pending'[k] # NoDebit
               PROVE  /\ k \in Spending' => pending'[k].gen = generation'
                      /\ k \in served' => LaterCount(k)'
    BY DEF Reserved
  <2>1. QED BY LaterCountNext
<1>3. ASSUME NEW k \in early' PROVE U(k)
  <2>1. CASE k \in early
    <3>1. k \in Keys /\ Unawaited(k)
      BY <2>1 DEF RelInv, KnowInv, WireInv, DispatchInv, Shaped, TypeOK, Releases, EarlyIsUncertain, Unawaited
    <3>2. Unawaited(k)' BY <3>1, UnawaitedStays DEF RelInv, KnowInv
    <3>3. QED BY <3>2 DEF Unawaited
  <2>2. ASSUME NEW s \in Steps, Validate(s), k \notin early PROVE U(k)
    <3>1. k \in Released(view.observation) /\ k \in OnWire /\ k \notin view.observation.after
      BY <1>3, <2>2 DEF Validate
    <3>2. k \in Keys /\ Unawaited(k) BY <2>2, <3>1, EarlyRelease
    <3>3. outcome' = outcome /\ barrier' = barrier BY <2>2 DEF Validate
    <3>4. QED BY <3>2, <3>3 DEF Unawaited
  <2>3. CASE early' = early BY <1>3, <2>1, <2>3
  <2>4. CASE observeFrame \/ commitFrame \/ reconnect \/ serve \/ push \/ UNCHANGED vars
    <3>1. early' = early
      BY <2>4, ObserveFacts, CommitFacts, ReconnectFacts, ServeFacts, PushFacts
         DEF vars, RelInv, KnowInv, WireInv, DispatchInv
    <3>2. QED BY <2>3, <3>1
  <2>5. QED BY <2>1, <2>2, <2>3, <2>4, NextCases, StepLeaves
<1>4. QED BY <1>1, <1>2, <1>3 DEF Releases, EarlyIsUncertain, Unawaited, Counted

\* The invariant of the releases holds at first.
LEMMA RelInvInit == Init => RelInv
<1> SUFFICES ASSUME Init PROVE RelInv OBVIOUS
<1>1. KnowInv BY KnowInvInit
<1>2. \A k \in Keys : pending[k] = NoDebit BY DEF Init
<1>3. NoDebit.settled = 0 BY DEF NoDebit
<1>4. \A k \in Keys : ~(pending[k].settled > 0) BY <1>2, <1>3
<1>5. Reserved(pending) = {} BY <1>2 DEF Reserved
<1>6. EarlyIsUncertain BY DEF Init, EarlyIsUncertain
<1>7. QED BY <1>1, <1>4, <1>5, <1>6 DEF RelInv, Releases

\* Every action keeps the invariant of the releases.
LEMMA RelInvNext == RelInv /\ [Next]_vars => RelInv'
<1> SUFFICES ASSUME RelInv, [Next]_vars PROVE RelInv' OBVIOUS
<1>1. KnowInv' BY KnowInvNext DEF RelInv
<1>2. DispatchInv' BY <1>1 DEF KnowInv, WireInv
<1>3. QED BY <1>1, <1>2, ReleasesNext DEF RelInv

-----------------------------------------------------------------------------
(* Balances and the commands they count.                                   *)

BalInv == RelInv /\ Balanced

\* The commands on their way have different keys, so their number is that of
\* the keys.
LEMMA SpendingCount ==
    ASSUME WireInv
    PROVE  /\ IsFiniteSet(Spending) /\ IsFiniteSet(Unserved)
           /\ Cardinality(Spending) = Cardinality(Unserved)
<1> DEFINE f == [n \in Unserved |-> outgoing[n].key]
<1>1. outgoing \in Seq(Commands) BY DEF WireInv, DispatchInv, Shaped
<1>2. Len(outgoing) \in Nat /\ DOMAIN outgoing = 1..Len(outgoing) BY <1>1
<1>3. \A n \in 1..Len(outgoing) : outgoing[n] \in Commands BY <1>1
<1>4. \A n \in 1..Len(outgoing) : outgoing[n].key \in Keys BY <1>3 DEF Commands
<1>5. IsFiniteSet(Unserved)
  <2>1. IsFiniteSet(1..Len(outgoing)) BY <1>2, FS_Interval
  <2>2. Unserved \in SUBSET (1..Len(outgoing)) BY <1>2 DEF Unserved
  <2>3. QED BY <2>1, <2>2, FS_Subset
<1>6. f \in Bijection(Unserved, Spending)
  <2>1. f \in [Unserved -> Spending] BY <1>2, <1>4 DEF Unserved, Spending, SpendingIn
  <2>2. \A m, n \in Unserved : f[m] = f[n] => m = n
    BY <1>2 DEF Unserved, WireInv, WrittenOnce
  <2>3. \A k \in Spending : \E n \in Unserved : f[n] = k
    BY <1>2 DEF Unserved, Spending, SpendingIn
  <2>4. QED BY <2>1, <2>2, <2>3 DEF Bijection, Injection, Surjection, IsInjective
<1>7. ExistsBijection(Unserved, Spending) BY <1>6 DEF ExistsBijection
<1>8. QED BY <1>5, <1>7, FS_Bijection

\* What a command costs leaves the purse when the command is carried out.
LEMMA TotalStays ==
    ASSUME WireInv, IsFiniteSet(served), [Next]_vars
    PROVE  IsFiniteSet(served') /\ Total' = Total
<1> USE DEF WireInv
<1>1. ASSUME served' = served, purse' = purse PROVE IsFiniteSet(served') /\ Total' = Total
  BY <1>1 DEF Total
<1>2. CASE serve
  <2>1. \/ UNCHANGED <<purse, served>>
        \/ /\ outgoing[1].kind = "spend"
           /\ purse' = purse - Cost /\ served' = served \cup {outgoing[1].key}
    BY <1>2, ServeFacts DEF DispatchInv
  <2>2. CASE UNCHANGED <<purse, served>> BY <1>1, <2>2
  <2>3. CASE /\ outgoing[1].kind = "spend"
             /\ purse' = purse - Cost /\ served' = served \cup {outgoing[1].key}
    <3>1. 1 \in 1..Len(outgoing) BY <1>2, ServeFacts, TailFacts DEF DispatchInv, Shaped
    <3>2. outgoing[1].key \notin served BY <2>3, <3>1 DEF WrittenOnce
    <3>3. IsFiniteSet(served') /\ Cardinality(served') = Cardinality(served) + 1
      BY <2>3, <3>2, FS_AddElement
    <3>4. Cardinality(served) \in Nat BY FS_CardinalityType
    <3>5. purse \in Nat /\ Cost \in Nat BY CoinsAssumption DEF DispatchInv, Shaped, TypeOK
    <3>6. \A c, n \in Nat : c * (n + 1) = c * n + c OBVIOUS
    <3>7. Cost * Cardinality(served') = Cost * Cardinality(served) + Cost BY <3>3, <3>4, <3>5, <3>6
    <3>8. \A p, c, d \in Int : (p - c) + (d + c) = p + d OBVIOUS
    <3>9. Cost * Cardinality(served) \in Int BY <3>4, <3>5
    <3>10. (purse - Cost) + (Cost * Cardinality(served) + Cost) = purse + Cost * Cardinality(served)
      BY <3>5, <3>8, <3>9
    <3>11. QED BY <2>3, <3>3, <3>7, <3>10 DEF Total
  <2>4. QED BY <2>1, <2>2, <2>3
<1>3. CASE observeFrame \/ commitFrame \/ reconnect \/ push \/ UNCHANGED vars
  BY <1>1, <1>3, ObserveFacts, CommitFacts, ReconnectFacts, PushFacts DEF DispatchInv, vars, gameVars
<1>4. ASSUME NEW s \in Steps, StepAct(s) PROVE IsFiniteSet(served') /\ Total' = Total
  BY <1>1, <1>4, StepLeaves
<1>5. QED BY <1>2, <1>3, <1>4, NextCases

\* Only finitely many debits are kept: an action adds at most one.
LEMMA DebitsStayFinite ==
    ASSUME DispatchInv, IsFiniteSet(Reserved(pending)), [Next]_vars
    PROVE  IsFiniteSet(Reserved(pending)')
<1>1. ASSUME NEW s \in Steps, Validate(s) PROVE IsFiniteSet(Reserved(pending)')
  <2>1. Reserved(pending)' \subseteq Reserved(pending) \cup {Key(s)}
    BY <1>1, ValidateGate DEF DispatchInv, Reserved
  <2>2. IsFiniteSet(Reserved(pending) \cup {Key(s)}) BY FS_AddElement
  <2>3. QED BY <2>1, <2>2, FS_Subset
<1>2. CASE \A s \in Steps : ~Validate(s)
  <2>1. Reserved(pending)' \subseteq Reserved(pending) BY <1>2, DebitsMove DEF Reserved
  <2>2. QED BY <2>1, FS_Subset
<1>3. QED BY <1>1, <1>2

\* Every action keeps the worth of the balances.
LEMMA BalancedNext ==
    ASSUME BalInv, [Next]_vars
    PROVE  Balanced'
<1> USE DEF BalInv, RelInv, KnowInv, WireInv
<1> DEFINE W(x) == x.coins + Cost * Cardinality(x.after)
<1>1. IsFiniteSet(served') /\ Total' = Total BY TotalStays DEF Balanced
<1>2. IsFiniteSet(Reserved(pending)') BY DebitsStayFinite DEF Balanced
<1>3. ASSUME NEW n \in 1..Len(incoming'), incoming'[n].coins # NoCoins
      PROVE  W(incoming'[n]) = Total
  <2>1. CASE \E m \in 1..Len(incoming) : incoming'[n] = incoming[m]
    BY <1>3, <2>1 DEF Balanced, Worth
  <2>2. CASE incoming'[n].coins = purse' /\ incoming'[n].after = served'
    BY <1>1, <2>2 DEF Total
  <2>3. QED BY <1>3, <2>1, <2>2, FramesAfter
<1>4. ASSUME NEW n \in 1..Len(ingest'), ingest'[n].coins # NoCoins
      PROVE  W(ingest'[n]) = Total
  <2>1. CASE \E m \in 1..Len(ingest) : ingest'[n] = ingest[m]
    BY <1>4, <2>1 DEF Balanced, Worth
  <2>2. CASE observeFrame /\ ingest'[n] = Stamped
    <3>1. 1 \in 1..Len(incoming) /\ Stamped.coins = incoming[1].coins /\ Stamped.after = incoming[1].after
      BY <2>2, ObserveFacts, TailFacts DEF DispatchInv, Shaped
    <3>2. QED BY <1>4, <2>2, <3>1 DEF Balanced, Worth
  <2>3. QED BY <2>1, <2>2, FramesAfter
<1>5. ASSUME NEW x \in Observed', x.at > 0 PROVE W(x) = Total
  <2>1. CASE x \in Observed BY <1>5, <2>1 DEF Balanced, Worth
  <2>2. CASE x = Unobserved BY <1>5, <2>2 DEF Unobserved
  <2>3. CASE x \notin Observed \cup {Unobserved}
    <3>1. /\ commitFrame /\ ingest[1].coins # NoCoins
          /\ x = [gen |-> generation, at |-> ingest[1].at,
                  coins |-> ingest[1].coins, after |-> ingest[1].after]
      BY <1>5, <2>3, ObservedMoves
    <3>2. 1 \in 1..Len(ingest) BY <3>1, CommitFacts, TailFacts DEF DispatchInv, Shaped
    <3>3. QED BY <3>1, <3>2 DEF Balanced, Worth
  <2>4. QED BY <2>1, <2>2, <2>3
<1>6. QED BY <1>1, <1>2, <1>3, <1>4, <1>5 DEF Balanced, Worth

\* The invariant of the balances holds at first.
LEMMA BalInvInit == Init => BalInv
<1> SUFFICES ASSUME Init PROVE BalInv OBVIOUS
<1>1. RelInv BY RelInvInit
<1>2. Reserved(pending) = {} BY DEF Init, Reserved
<1>3. IsFiniteSet(served) /\ IsFiniteSet(Reserved(pending)) BY <1>2, FS_EmptySet DEF Init
<1>4. \A x \in Observed : x.at > 0 => x.coins = purse /\ x.after = served
  BY DEF Init, Observed, NoView, Unobserved
<1>5. \A x \in Observed : x.at > 0 => Worth(x) = Total BY <1>4 DEF Worth, Total
<1>6. QED BY <1>1, <1>3, <1>5 DEF BalInv, Balanced, Init

\* Every action keeps the invariant of the balances.
LEMMA BalInvNext == BalInv /\ [Next]_vars => BalInv'
<1> SUFFICES ASSUME BalInv, [Next]_vars PROVE BalInv' OBVIOUS
<1>1. RelInv' BY RelInvNext DEF BalInv
<1>2. QED BY <1>1, BalancedNext DEF BalInv

-----------------------------------------------------------------------------
(* The commands on their way can be paid.                                  *)

CoinInv == BalInv /\ Covered

\* Products of costs and numbers of commands.
LEMMA CostGrows ==
    ASSUME NEW c \in Nat, NEW m \in Nat, NEW n \in Nat, m <= n
    PROVE  c * m \in Nat /\ c * n \in Nat /\ c * m <= c * n
<1>1. PICK e \in Nat : n = m + e
  <2>1. n - m \in Nat /\ n = m + (n - m) OBVIOUS
  <2>2. QED BY <2>1
<1>2. c * e \in Nat /\ c * m \in Nat OBVIOUS
<1>3. c * (m + e) = c * m + c * e OBVIOUS
<1>4. QED BY <1>1, <1>2, <1>3

\* The cost of two groups of commands, and of one command more.
LEMMA CostAdds ==
    ASSUME NEW c \in Nat, NEW m \in Nat, NEW n \in Nat
    PROVE  c * m \in Nat /\ c * n \in Nat /\ c * (m + n) = c * m + c * n /\ c * (m + 1) = c * m + c
OBVIOUS

\* Balances in Observed are ordered: the later one counts what the earlier counts.
LEMMA LaterCountsMore ==
    ASSUME KnowInv, NEW x \in Observed, NEW y \in Observed, x.at <= y.at
    PROVE  x.after \subseteq y.after
BY DEF KnowInv, Knowledge, Counted

\* What Validate reads and its watermark.
LEMMA WatermarkCounts ==
    ASSUME KnowInv, NEW s \in Steps, Validate(s)
    PROVE  /\ watermark.after \subseteq view.observation.after
           /\ view.observation.after \subseteq watermark'.after
           /\ view.observation.at > 0
<1> DEFINE o == view.observation
<1> USE DEF KnowInv, WireInv
<1>1. o \in Observed /\ watermark \in Observed BY DEF Observed
<1>2. /\ o.gen \in Nat /\ o.at \in Nat /\ watermark.gen \in Nat /\ watermark.at \in Nat
  BY DEF DispatchInv, Shaped, TypeOK, Observations
<1>3. /\ ~Missing /\ ~Stale(o)
      /\ watermark' = IF o.gen > watermark.gen \/ o.at > watermark.at THEN o ELSE watermark
  BY DEF Validate
<1>4. o.at <= watermark.at => o.gen <= watermark.gen BY <1>1 DEF Stamps
<1>5. watermark.at <= o.at BY <1>2, <1>3, <1>4 DEF Stale
<1>6. watermark.after \subseteq o.after BY <1>1, <1>5, LaterCountsMore
<1>7. o.after \subseteq watermark'.after
  <2>1. CASE watermark' = o BY <2>1
  <2>2. CASE watermark' = watermark /\ o.at <= watermark.at BY <1>1, <2>2, LaterCountsMore
  <2>3. QED BY <1>2, <1>3, <2>1, <2>2
<1>8. o.at > 0 BY <1>2, <1>3 DEF Missing
<1>9. QED BY <1>6, <1>7, <1>8

\* A mark keeps the debit.
LEMMA MarkedStays ==
    ASSUME Shaped, NEW s \in Steps, pending[Key(s)] # NoDebit
    PROVE  Marked(Key(s))[Key(s)] # NoDebit
<1>1. Key(s) \in Keys BY KeysDiffer
<1>2. pending \in [Keys -> DebitsTo(clock)] BY DEF Shaped, TypeOK, DebitsTo
<1>3. Marked(Key(s))[Key(s)] =
         [gen |-> pending[Key(s)].gen, reserved |-> pending[Key(s)].reserved, settled |-> clock]
  BY <1>1, <1>2 DEF Marked, Settled
<1>4. Marked(Key(s))[Key(s)].settled = clock /\ NoDebit.settled = 0 BY <1>3 DEF NoDebit
<1>5. clock # 0 BY DEF Shaped
<1>6. QED BY <1>4, <1>5

\* The debit of a command that was carried out, or that may be, goes with a
\* balance that counts it.
LEMMA DroppedWhen ==
    ASSUME KnowInv, NEW s \in Steps, Settles(s), pending[Key(s)] # NoDebit,
           pending'[Key(s)] = NoDebit, Key(s) \in served \cup Spending
    PROVE  Key(s) \in watermark'.after
<1> USE DEF KnowInv, WireInv
<1>0. Key(s) \in Keys /\ Written(Key(s)) BY WireIsWritten
<1>1. CASE sendFailed(s)
  <2>1. pc[s] = "refused" BY <1>1 DEF sendFailed
  <2>2. QED BY <1>0, <2>1, NotWritten DEF DispatchInv
<1>2. CASE rejected(s)
  <2>1. pc[s] = "awaiting" /\ answer[s].code = "error" BY <1>2 DEF rejected, Answered
  <2>2. answer[s].key = Key(s) /\ Truthful(answer[s]) BY <2>1 DEF Answers, OwnAnswer
  <2>3. QED BY <2>1, <2>2 DEF Truthful
<1>3. CASE sendSettled(s) \/ giveUp(s) \/ unusable(s) \/ commitFails(s)
  <2>1. pending' = Marked(Key(s)) BY <1>3 DEF sendSettled, giveUp, unusable, commitFails
  <2>2. QED BY <2>1, MarkedStays DEF DispatchInv
<1>4. CASE consumed(s) \/ accepted(s)
  <2>1. Completed(s, answer[s]) BY <1>4 DEF consumed, accepted
  <2>2. answer[s].code \in Responses /\ pc[s] # "ready"
    <3>1. pc[s] # "ready" /\ (answer[s].code \in Responses \/ pc[s] = "committing")
      BY <1>4 DEF consumed, accepted, Answered, Responses
    <3>2. QED BY <3>1 DEF Answers, OwnAnswer, Responses
  <2>3. answer[s].key = Key(s) /\ answer[s].code # "none"
    BY <2>2 DEF Answers, OwnAnswer, Responses
  <2>4. CASE pending' = Marked(Key(s)) BY <2>4, MarkedStays DEF DispatchInv
  <2>5. CASE /\ Correlated(Key(s), answer[s])
             /\ watermark' = IF observation.gen > watermark.gen \/ observation.at >= watermark.at
                             THEN observation ELSE watermark
    <3>1. observation.at = answer[s].at BY <2>5 DEF Correlated
    <3>2. watermark.at <= observation.at /\ watermark.at \in Nat /\ observation.at \in Nat
      BY DEF Stamps, Observed, DispatchInv, Shaped, TypeOK, Observations
    <3>3. watermark' = observation BY <2>5, <3>2
    <3>4. Counted(Shown(answer[s]), answer[s].at) BY <2>3 DEF Knowledge
    <3>5. Shown(answer[s]) \subseteq observation.after
      BY <3>1, <3>2, <3>4 DEF Counted, Observed
    <3>6. QED BY <2>2, <2>3, <3>3, <3>5 DEF Shown
  <2>6. QED BY <2>1, <2>4, <2>5 DEF Completed
<1>a. CASE reset(s)
  <2>1. pc[s] \notin {"queued", "snapshot1"} BY DEF DispatchInv, Dispatched, CurrentDebit
  <2>2. pending' = Marked(Key(s)) BY <1>a, <2>1 DEF reset
  <2>3. QED BY <2>2, MarkedStays DEF DispatchInv
<1>5. QED BY <1>1, <1>2, <1>3, <1>4, <1>a DEF Settles

\* What the game has carried out or may still carry out has a debit, or the
\* watermark counts it, or its debit was released early.
LEMMA CountedOrReserved ==
    ASSUME CoinInv, [Next]_vars, NEW k \in served' \cup Spending', pending'[k] = NoDebit
    PROVE  k \in early' \cup watermark'.after
<1> USE DEF CoinInv, BalInv, RelInv, KnowInv
<1>1. early \subseteq early' /\ watermark.after \subseteq watermark'.after
  <2>1. ASSUME NEW s \in Steps, Validate(s)
        PROVE  early \subseteq early' /\ watermark.after \subseteq watermark'.after
    <3>1. early \subseteq early' BY <2>1 DEF Validate
    <3>2. QED BY <2>1, <3>1, WatermarkCounts
  <2>2. ASSUME NEW s \in Steps, Settles(s), ~Validate(s)
        PROVE  early \subseteq early' /\ watermark.after \subseteq watermark'.after
    <3>1. early' = early BY <2>2, StepLeaves DEF StepAct
    <3>2. watermark' = watermark \/ watermark' = observation
      BY <2>2, SettlesGate DEF WireInv, DispatchInv
    <3>3. watermark.at <= observation.at /\ observation \in Observed /\ watermark \in Observed
      BY DEF WireInv, Stamps, Observed
    <3>4. watermark.after \subseteq observation.after BY <3>3, LaterCountsMore
    <3>5. QED BY <3>1, <3>2, <3>4
  <2>3. ASSUME NEW s \in Steps, StepAct(s), ~Settles(s), ~Validate(s)
        PROVE  early \subseteq early' /\ watermark.after \subseteq watermark'.after
    BY <2>3, StepLeaves
  <2>4. CASE observeFrame \/ commitFrame \/ reconnect \/ serve \/ push \/ UNCHANGED vars
    BY <2>4, ObserveFacts, CommitFacts, ReconnectFacts, ServeFacts, PushFacts
       DEF WireInv, DispatchInv, gateVars, vars
  <2>5. QED BY <2>1, <2>2, <2>3, <2>4, NextCases
<1>2. k \in served \cup Spending
  <2>1. ASSUME NEW s \in Steps, pc[s] = "approved2", pending' = pending PROVE k # Key(s)
    BY <2>1 DEF WireInv, DispatchInv, Dispatched, CurrentDebit
  <2>2. QED BY <2>1, WireMoves
<1>3. k \in Keys BY <1>2, WireIsWritten
<1>4. CASE k \notin Reserved(pending) BY <1>1, <1>2, <1>4 DEF Covered
<1>5. ASSUME NEW s \in Steps, Validate(s), k \in Reserved(pending) PROVE k \in early' \cup watermark'.after
  <2>1. pending[k] # NoDebit BY <1>5 DEF Reserved
  <2>2. \A t : [gen |-> view.observation.gen, reserved |-> t, settled |-> 0] = NoDebit =>
               view.observation.gen = 0
    BY DEF NoDebit
  <2>3. k \in Released(view.observation)
    <3>1. k # Key(s) BY <1>2, <1>5, WireIsWritten, NotWritten
          DEF WireInv, DispatchInv, Validate, Dispatching
    <3>2. QED BY <1>3, <1>5, <2>1, <3>1, ValidateGate DEF WireInv, DispatchInv
  <2>4. k \in OnWire
    <3>1. CASE k \in served BY <3>1 DEF OnWire
    <3>2. CASE k \in Spending
      <4>1. outgoing \in Seq(Commands) BY DEF WireInv, DispatchInv, Shaped
      <4>2. DOMAIN outgoing = 1..Len(outgoing) BY <4>1
      <4>3. QED BY <3>2, <4>2 DEF OnWire, Spending, SpendingIn
    <3>3. QED BY <1>2, <3>1, <3>2
  <2>5. k \notin view.observation.after => k \in early' BY <1>5, <2>3, <2>4 DEF Validate
  <2>6. QED BY <1>5, <2>5, WatermarkCounts
<1>6. ASSUME NEW s \in Steps, Settles(s), k \in Reserved(pending) PROVE k \in early' \cup watermark'.after
  <2>1. pending[k] # NoDebit BY <1>6 DEF Reserved
  <2>2. k = Key(s) BY <1>3, <1>6, <2>1, SettlesDebits DEF WireInv, DispatchInv
  <2>3. QED BY <1>2, <1>6, <2>1, <2>2, DroppedWhen
<1>7. ASSUME pending' = pending, k \in Reserved(pending) PROVE FALSE
  BY <1>7 DEF Reserved
<1>8. CASE observeFrame \/ commitFrame \/ reconnect \/ serve \/ push \/ UNCHANGED vars
  <2>1. pending' = pending
    BY <1>8, ObserveFacts, CommitFacts, ReconnectFacts, ServeFacts, PushFacts
       DEF WireInv, DispatchInv, gateVars, vars
  <2>2. QED BY <1>4, <1>7, <2>1
<1>9. ASSUME NEW s \in Steps, StepAct(s) PROVE k \in early' \cup watermark'.after
  BY <1>4, <1>5, <1>6, <1>7, <1>9, StepLeaves
<1>10. QED BY <1>8, <1>9, NextCases

\* When the gate approves a command, the account can pay for it and for all that
\* are on their way: what the balance leaves out is still reserved.
LEMMA ApprovedIsSolvent ==
    ASSUME CoinInv, NEW s \in Steps, Validate(s), early' = {}, pc'[s] = "approved2"
    PROVE  purse >= Cost * (Cardinality(Spending) + 1) + Reserve
<1> DEFINE o == view.observation
           kept == [k \in Keys |-> IF k \in Released(o) THEN NoDebit ELSE pending[k]]
           others == Reserved(kept) \ {Key(s)}
           rest == served \ o.after
<1> USE DEF CoinInv, BalInv, RelInv, KnowInv
<1>1. /\ pc[s] \in {"snapshot1", "snapshot2"} /\ early = {}
      /\ \A k \in Released(o) : k \in OnWire => k \in o.after
      /\ ~(o.coins < Cost * Cardinality(others) + Cost + Reserve)
  <2>1. pc[s] \in {"snapshot1", "snapshot2"} BY DEF Validate
  <2>2. early = {} /\ \A k \in Released(o) : k \in OnWire => k \in o.after BY DEF Validate
  <2>3. pc \in [Steps -> {"ready", "queued", "refused", "uncertain", "sent", "retrying", "done"}
                          \cup Dispatching \cup Waiting]
    BY DEF WireInv, DispatchInv, Shaped, TypeOK
  <2>4. o.coins < Cost * Cardinality(others) + Cost + Reserve => Release(s, "refused") BY DEF Validate
  <2>5. Release(s, "refused") => pc'[s] = "refused" BY <2>3 DEF Release
  <2>6. QED BY <2>1, <2>2, <2>4, <2>5
<1>2. /\ watermark.after \subseteq o.after /\ o.after \subseteq served /\ o.at > 0
  BY WatermarkCounts DEF Knowledge, Counted, Observed
<1>3. rest \cup Spending \subseteq others
  <2> SUFFICES ASSUME NEW k \in rest \cup Spending PROVE k \in others OBVIOUS
  <2>1. k \in served \cup Spending /\ k \notin o.after BY <1>2, WireIsWritten
  <2>2. k \in Keys /\ Written(k) BY <2>1, WireIsWritten
  <2>3. k # Key(s) BY <1>1, <2>2, NotWritten DEF WireInv, DispatchInv, Dispatching
  <2>4. k \in Reserved(pending) BY <1>1, <1>2, <2>1 DEF Covered
  <2>5. k \in OnWire
    <3>1. CASE k \in served BY <3>1 DEF OnWire
    <3>2. CASE k \in Spending
      <4>1. outgoing \in Seq(Commands) BY DEF WireInv, DispatchInv, Shaped
      <4>2. DOMAIN outgoing = 1..Len(outgoing) BY <4>1
      <4>3. QED BY <3>2, <4>2 DEF OnWire, Spending, SpendingIn
    <3>3. QED BY <2>1, <3>1, <3>2
  <2>6. k \notin Released(o) BY <1>1, <2>1, <2>5
  <2>7. QED BY <2>2, <2>3, <2>4, <2>6 DEF Reserved
<1>4. IsFiniteSet(others) /\ Cardinality(others) \in Nat
  <2>1. others \subseteq Reserved(pending) BY DEF Reserved
  <2>2. IsFiniteSet(others) BY <2>1, FS_Subset DEF Balanced
  <2>3. QED BY <2>2, FS_CardinalityType
<1>5. /\ IsFiniteSet(rest) /\ IsFiniteSet(o.after) /\ IsFiniteSet(served) /\ IsFiniteSet(Spending)
  BY <1>2, FS_Subset, SpendingCount DEF Balanced
<1>6. /\ Cardinality(rest) \in Nat /\ Cardinality(o.after) \in Nat
      /\ Cardinality(served) \in Nat /\ Cardinality(Spending) \in Nat
  BY <1>5, FS_CardinalityType
<1>7. Cardinality(served) = Cardinality(o.after) + Cardinality(rest)
  <2>1. served \cap o.after = o.after BY <1>2
  <2>2. Cardinality(served \ o.after) = Cardinality(served) - Cardinality(served \cap o.after)
    BY <1>5, FS_Difference
  <2>3. Cardinality(rest) = Cardinality(served) - Cardinality(o.after) BY <2>1, <2>2, Zenon
  <2> HIDE DEF rest
  <2>4. QED BY <1>6, <2>3
<1>8. Cardinality(rest) + Cardinality(Spending) <= Cardinality(others)
  <2>1. rest \cap Spending = {} BY WireIsWritten
  <2>2. Cardinality(rest \cup Spending)
           = Cardinality(rest) + Cardinality(Spending) - Cardinality(rest \cap Spending)
    BY <1>5, FS_Union
  <2>3. Cardinality(rest \cap Spending) = 0 BY <2>1, FS_EmptySet
  <2>4. Cardinality(rest \cup Spending) <= Cardinality(others) BY <1>3, <1>4, FS_Subset
  <2>5. QED BY <1>6, <2>2, <2>3, <2>4
<1>9. o.coins + Cost * Cardinality(o.after) = purse + Cost * Cardinality(served)
  BY <1>2 DEF Balanced, Worth, Total, Observed
<1>10. purse \in Nat /\ Cost \in Nat /\ Reserve \in Nat /\ o.coins \in Int
  BY CoinsAssumption DEF WireInv, DispatchInv, Shaped, TypeOK, Observations
<1>11. Cost * Cardinality(served) = Cost * Cardinality(o.after) + Cost * Cardinality(rest)
  BY <1>6, <1>7, <1>10, CostAdds
<1>12. /\ Cost * (Cardinality(rest) + Cardinality(Spending)) <= Cost * Cardinality(others)
       /\ Cost * (Cardinality(rest) + Cardinality(Spending))
             = Cost * Cardinality(rest) + Cost * Cardinality(Spending)
  <2>1. Cardinality(rest) + Cardinality(Spending) \in Nat BY <1>6
  <2>2. QED BY <1>4, <1>6, <1>8, <1>10, <2>1, CostGrows, CostAdds
<1>13. /\ Cost * Cardinality(rest) \in Nat /\ Cost * Cardinality(Spending) \in Nat
       /\ Cost * Cardinality(o.after) \in Nat /\ Cost * Cardinality(others) \in Nat
       /\ Cost * (Cardinality(Spending) + 1) = Cost * Cardinality(Spending) + Cost
  BY <1>4, <1>6, <1>10, CostAdds
<1> DEFINE A == Cost * Cardinality(o.after)
           L == Cost * Cardinality(rest)
           N == Cost * Cardinality(Spending)
           M == Cost * Cardinality(others)
<1>14. /\ A \in Nat /\ L \in Nat /\ N \in Nat /\ M \in Nat
       /\ o.coins + A = purse + (A + L) /\ L + N <= M /\ ~(o.coins < M + Cost + Reserve)
       /\ Cost * (Cardinality(Spending) + 1) = N + Cost
  BY <1>1, <1>9, <1>11, <1>12, <1>13
<1> HIDE DEF A, L, N, M
<1>15. purse >= (N + Cost) + Reserve BY <1>10, <1>14
<1>16. QED BY <1>14, <1>15

\* A step is approved for the write by the second validation only.
LEMMA ApprovedMoves ==
    ASSUME Shaped, [Next]_vars, NEW r \in Steps, pc'[r] = "approved2"
    PROVE  pc[r] = "approved2" \/ Validate(r)
<1>1. CASE observeFrame \/ commitFrame \/ reconnect \/ serve \/ push \/ UNCHANGED vars
  BY <1>1, ObserveFacts, CommitFacts, ReconnectFacts, ServeFacts, PushFacts DEF vars, stepVars
<1>2. ASSUME NEW s \in Steps, StepAct(s), s # r PROVE pc[r] = "approved2"
  BY <1>2, OthersStay
<1>3. CASE StepAct(r)
  <2>1. pc \in [Steps -> {"ready", "queued", "refused", "uncertain", "sent", "retrying", "done"}
                          \cup Dispatching \cup Waiting]
    BY DEF Shaped, TypeOK
  <2>2. CASE Quiet(r)
    BY <2>1, <2>2 DEF Quiet, prepare, prepareFails, refuseQueued, readContext,
       validateRefuses, writeRefused, awaitCommit, refreshed, refreshFails, retry, Finish, Release
  <2>3. CASE Sends(r) BY <2>1, <2>3 DEF Sends, write, writeFails, refreshCoins
  <2>4. CASE Settles(r)
    BY <2>1, <2>4 DEF Settles, reset, sendFailed, sendSettled, giveUp, rejected, consumed, unusable,
       commitFails, accepted, Finish
  <2>5. QED BY <1>3, <2>2, <2>3, <2>4 DEF StepAct
<1>4. QED BY <1>1, <1>2, <1>3, NextCases

\* Every action keeps the commands covered.
LEMMA CoveredNext ==
    ASSUME CoinInv, BalInv', [Next]_vars
    PROVE  Covered'
<1> USE DEF CoinInv, BalInv, RelInv, KnowInv
<1> DEFINE n == Cardinality(Spending)
           m == Cardinality(Spending')
<1>0. /\ IsFiniteSet(Spending) /\ n \in Nat /\ Cost \in Nat /\ Reserve \in Nat
      /\ purse \in Nat /\ purse' \in Nat
  <2>1. IsFiniteSet(Spending) BY SpendingCount
  <2>2. n \in Nat BY <2>1, FS_CardinalityType
  <2>3. QED BY <2>1, <2>2, CoinsAssumption DEF WireInv, DispatchInv, Shaped, TypeOK
<1>1. \A k \in (served' \cup Spending') \ Reserved(pending)' : k \in early' \cup watermark'.after
  <2> SUFFICES ASSUME NEW k \in served' \cup Spending', k \notin Reserved(pending)'
               PROVE  k \in early' \cup watermark'.after
    OBVIOUS
  <2>1. k \in Keys
    BY DEF WireInv, DispatchInv, Shaped, TypeOK, Spending, SpendingIn
  <2>2. pending'[k] = NoDebit BY <2>1 DEF Reserved
  <2>3. QED BY <2>2, CountedOrReserved
<1>2. CASE early' # {} BY <1>1, <1>2 DEF Covered
<1>3. CASE early' = {}
  <2>1. early = {}
    <3>1. CASE observeFrame \/ commitFrame \/ reconnect \/ serve \/ push \/ UNCHANGED vars
      BY <1>3, <3>1, ObserveFacts, CommitFacts, ReconnectFacts, ServeFacts, PushFacts
         DEF WireInv, DispatchInv, vars
    <3>2. ASSUME NEW s \in Steps, StepAct(s) PROVE early = {}
      BY <1>3, <3>2, StepLeaves DEF Validate
    <3>3. QED BY <3>1, <3>2, NextCases
  <2>2. /\ Spending # {} => purse >= Cost * n + Reserve
        /\ \A s \in Steps : pc[s] = "approved2" => purse >= Cost * (n + 1) + Reserve
    BY <2>1 DEF Covered
  <2>3. ASSUME NEW s \in Steps, pc'[s] = "approved2"
        PROVE  \/ pc[s] = "approved2"
               \/ Validate(s) /\ purse >= Cost * (n + 1) + Reserve
    BY <1>3, <2>3, ApprovedMoves, ApprovedIsSolvent DEF WireInv, DispatchInv
  <2>4. CASE Spending' \subseteq Spending /\ served' = served
    <3>1. purse' = purse
      <4>1. IsFiniteSet(served) BY DEF Balanced
      <4>2. purse' + Cost * Cardinality(served) = purse + Cost * Cardinality(served)
        BY <2>4, <4>1, TotalStays DEF Total
      <4>3. Cardinality(served) \in Nat BY <4>1, FS_CardinalityType
      <4>4. Cost * Cardinality(served) \in Nat BY <1>0, <4>3
      <4>5. \A a, b, c \in Nat : a + c = b + c => a = b OBVIOUS
      <4>6. QED BY <1>0, <4>2, <4>4, <4>5
    <3>2. m <= n /\ m \in Nat
      <4>1. IsFiniteSet(Spending') /\ m <= n BY <1>0, <2>4, FS_Subset
      <4>2. QED BY <4>1, FS_CardinalityType
    <3>3. /\ Cost * m \in Nat /\ Cost * n \in Nat /\ Cost * m <= Cost * n
      BY <1>0, <3>2, CostGrows
    <3>4. Cost * (m + 1) = Cost * m + Cost /\ Cost * (n + 1) = Cost * n + Cost
      BY <1>0, <3>2, CostAdds
    <3>5. Spending' # {} => Spending # {} BY <2>4
    <3> HIDE DEF m, n
    <3>6. Spending' # {} => purse' >= Cost * m + Reserve
      BY <1>0, <2>2, <3>1, <3>3, <3>5
    <3>7. ASSUME NEW s \in Steps, pc'[s] = "approved2" PROVE purse' >= Cost * (m + 1) + Reserve
      BY <1>0, <2>2, <2>3, <3>1, <3>3, <3>4, <3>7
    <3>8. QED BY <1>1, <3>6, <3>7 DEF Covered, m
  <2>5. ASSUME NEW s \in Steps, pc[s] = "approved2", worker = s, Spending' = Spending \cup {Key(s)},
               pc'[s] \in AfterWrite, purse' = purse
        PROVE  Covered'
    <3>1. purse >= Cost * (n + 1) + Reserve BY <2>2, <2>5
    <3>2. m <= n + 1 /\ m \in Nat
      <4>1. IsFiniteSet(Spending') /\ (m = n \/ m = n + 1) BY <1>0, <2>5, FS_AddElement
      <4>2. QED BY <1>0, <4>1
    <3>3. Cost * m <= Cost * (n + 1) /\ Cost * m \in Nat /\ Cost * (n + 1) \in Nat
      BY <1>0, <3>2, CostGrows
    <3>4. \A r \in Steps : pc'[r] # "approved2"
      <4> SUFFICES ASSUME NEW r \in Steps, pc'[r] = "approved2" PROVE FALSE OBVIOUS
      <4>1. r # s BY <2>5 DEF AfterWrite, Waiting
      <4>2. pc[r] \in Dispatching BY <2>3 DEF Dispatching, Validate
      <4>3. QED BY <2>5, <4>1, <4>2 DEF WireInv, DispatchInv, Dispatched
    <3> HIDE DEF m, n
    <3>5. purse' >= Cost * m + Reserve BY <1>0, <2>5, <3>1, <3>3
    <3>6. QED BY <1>1, <3>4, <3>5 DEF Covered, m
  <2>6. ASSUME NEW k \in Spending, served' = served \cup {k}, Spending' = Spending \ {k},
               purse' = purse - Cost
        PROVE  Covered'
    <3>1. n = m + 1 /\ m \in Nat
      <4>1. IsFiniteSet(Spending') /\ m = n - 1 BY <1>0, <2>6, FS_RemoveElement
      <4>2. m \in Nat BY <4>1, FS_CardinalityType
      <4>3. QED BY <1>0, <4>1, <4>2
    <3>2. /\ Cost * m \in Nat /\ Cost * n = Cost * m + Cost /\ Cost * (n + 1) = Cost * n + Cost
          /\ Cost * (m + 1) = Cost * m + Cost
      BY <1>0, <3>1, CostAdds
    <3>3. ASSUME NEW s \in Steps, pc'[s] = "approved2" PROVE purse >= Cost * (n + 1) + Reserve
      BY <2>2, <2>3, <3>3
    <3> HIDE DEF m, n
    <3>4. purse' >= Cost * m + Reserve BY <1>0, <2>2, <2>6, <3>2
    <3>5. ASSUME NEW s \in Steps, pc'[s] = "approved2" PROVE purse' >= Cost * (m + 1) + Reserve
      BY <1>0, <2>6, <3>2, <3>3, <3>5
    <3>6. QED BY <1>1, <3>4, <3>5 DEF Covered, m
  <2>7. QED BY <2>4, <2>5, <2>6, WireMoves
<1>4. QED BY <1>2, <1>3

\* The invariant of the coins holds at first.
LEMMA CoinInvInit == Init => CoinInv
<1> SUFFICES ASSUME Init PROVE CoinInv OBVIOUS
<1>1. BalInv BY BalInvInit
<1>2. served = {} /\ Spending = {} BY DEF Init, Spending, SpendingIn
<1>3. \A s \in Steps : pc[s] # "approved2" BY DEF Init
<1>4. QED BY <1>1, <1>2, <1>3 DEF CoinInv, Covered

\* Every action keeps the invariant of the coins.
LEMMA CoinInvNext == CoinInv /\ [Next]_vars => CoinInv'
<1> SUFFICES ASSUME CoinInv, [Next]_vars PROVE CoinInv' OBVIOUS
<1>1. BalInv' BY BalInvNext DEF CoinInv
<1>2. QED BY <1>1, CoveredNext DEF CoinInv

\* The invariant of the coins in its ten parts, for every number of steps,
\* tries, pushes and reconnections and every balance, cost and reserve.
THEOREM CoinInvariant == Spec => []CoinInv
BY CoinInvInit, CoinInvNext, PTL DEF Spec

\* The type invariant of executeStep, the gate, the store and the game.
THEOREM StepExecutionTyped == Spec => []TypeOK
<1>1. CoinInv => TypeOK
  BY DEF CoinInv, BalInv, RelInv, KnowInv, WireInv, DispatchInv, Shaped
<1>2. QED BY <1>1, CoinInvariant, PTL

\* reconcile and Completed release the debit of a command before a balance
\* counts it only when nobody waits for the command's outcome.
THEOREM EarlyReleasesAreUncertain == Spec => []EarlyIsUncertain
<1>1. CoinInv => EarlyIsUncertain BY DEF CoinInv, BalInv, RelInv, Releases
<1>2. QED BY <1>1, CoinInvariant, PTL

\* Validate never approves what the account cannot pay: the game can carry out
\* every command on its way and the reserve stays, unless a debit was released
\* too early.
THEOREM CommandsAreAffordable == Spec => []Affordable
<1>1. ASSUME CoinInv PROVE Affordable
  <2>1. /\ IsFiniteSet(Spending) /\ IsFiniteSet(Unserved)
        /\ Cardinality(Spending) = Cardinality(Unserved)
    BY <1>1, SpendingCount DEF CoinInv, BalInv, RelInv, KnowInv
  <2>2. Unserved # {} => Spending # {} BY <2>1, FS_EmptySet
  <2>3. early = {} /\ Spending # {} => purse >= Cost * Cardinality(Spending) + Reserve
    BY <1>1 DEF CoinInv, Covered
  <2>4. QED BY <2>1, <2>2, <2>3 DEF Affordable
<1>2. QED BY <1>1, CoinInvariant, PTL

=============================================================================
