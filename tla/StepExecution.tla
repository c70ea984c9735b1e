--------------------------- MODULE StepExecution ---------------------------
(***************************************************************************)
(* One command step and the coins it spends: executeStep of the intent     *)
(* engine (Server/Intent/Engine.go), the coin gate it consults as final    *)
(* dispatch provider (Server/App/CoinGate.go), and the ingest commits that *)
(* bring balances back (Server/Ingest/Pipeline.go).                        *)
(*                                                                         *)
(* Actors: one goroutine per step, the router's worker that validates and  *)
(* writes one command at a time, the ingest goroutine, and the game, which *)
(* serves commands and sends frames in order on one connection.            *)
(*                                                                         *)
(* Time is the number of frames received: time.Now() of two events between *)
(* two frames is the same, so every strict comparison of the code is at    *)
(* its weakest.  Each executeStep has a response token of its own, so the  *)
(* gate's key is the step with the number of the try.  All commands cost   *)
(* the same; a balance that changed in between is a refusal of the writer. *)
(***************************************************************************)
EXTENDS Integers, Sequences, FiniteSets

CONSTANTS
    Steps,         \* concurrent steps of different operations
    Barriers(_),   \* response barriers a step may have; "none" awaits nothing
    Retryable,     \* steps with a ResponseRetry policy
    Purses,        \* balances the account may have at first
    Cost,          \* coins a command costs
    Reserve,       \* coins that have to stay
    MaxTries,      \* bound on the sends of a step
    MaxPushes,     \* bound on frames the game sends unasked
    MaxReconnects  \* bound on connection changes

Keys == Steps \X (1..MaxTries)
NoStep == "no step"
NoCoins == -1
NoDebit == [gen |-> 0, reserved |-> 0, settled |-> 0]
NoFrame == [key |-> <<NoStep, 0>>, code |-> "none"]

ASSUME StepsAssumption == NoStep \notin Steps /\ Retryable \subseteq Steps
ASSUME BarriersAssumption ==
    \A s \in Steps : Barriers(s) \subseteq {"none", "wire", "committed", "wireThenCommitted"}
ASSUME CoinsAssumption == Purses \subseteq Nat /\ Cost \in Nat \ {0} /\ Reserve \in Nat
ASSUME BoundsAssumption == {MaxTries, MaxPushes, MaxReconnects} \subseteq Nat /\ MaxTries > 0

VARIABLES
    pc,          \* where each step is
    try,         \* which executeStep of the step this is
    barrier,     \* its ResponseBarrier
    conn,        \* expectedConnection
    answer,      \* the frame its watcher got
    fresh,       \* steps whose coin refresh was answered and committed
    outcome,     \* what the step returned
    left,        \* steps that Reset let return while the worker had their command
    worker,      \* the step the router's worker is dispatching
    view,        \* the planning context read for the validation
    pending,     \* gate.pending
    watermark,   \* gate.watermark and gate.watermarkBalance
    observation, \* the C1 observation and balance in the state store
    generation,  \* the connection generation
    clock,       \* frames received so far
    ingest,      \* frames received and not committed yet
    outgoing,    \* commands on their way to the game
    incoming,    \* frames on their way from the game
    purse,       \* external: the coins the account really has
    pushes,
    served,      \* history: keys whose command the game has carried out
    early        \* history: keys released by a balance that left them out

stepVars == <<pc, try, barrier, conn, answer, fresh, outcome, left>>
gateVars == <<worker, view, pending, watermark>>
storeVars == <<observation, generation, clock, ingest>>
gameVars == <<outgoing, incoming, purse, pushes, served>>
vars == <<stepVars, gateVars, storeVars, gameVars, early>>

Key(s) == <<s, try[s]>>
Dispatching == {"taken", "snapshot1", "approved1", "snapshot2", "approved2"}
Waiting == {"awaiting", "committing", "refreshing", "refreshWait"}
Observations == [gen : Nat, at : Nat, coins : Int, after : SUBSET Keys]

TypeOK ==
    /\ pc \in [Steps -> {"ready", "queued", "refused", "uncertain", "sent", "retrying", "done"}
                          \cup Dispatching \cup Waiting]
    /\ try \in [Steps -> 1..MaxTries]
    /\ barrier \in [Steps -> {"none", "wire", "committed", "wireThenCommitted"}]
    /\ conn \in [Steps -> 0..(MaxReconnects + 1)]
    /\ fresh \subseteq Steps
    /\ outcome \in [Steps -> {"none", "succeeded", "failed", "indeterminate"}]
    /\ left \subseteq Steps
    /\ worker \in Steps \cup {NoStep}
    /\ pending \in [Keys -> [gen : 0..(MaxReconnects + 1), reserved : 0..clock, settled : 0..clock]]
    /\ {view.observation, watermark, observation} \subseteq Observations
    /\ generation \in 1..(MaxReconnects + 1)
    /\ purse \in Nat
    /\ served \subseteq Keys /\ early \subseteq Keys

Unobserved == [gen |-> 0, at |-> 0, coins |-> 0, after |-> {}]
NoView == [generation |-> 0, observation |-> Unobserved]

Init ==
    /\ pc = [s \in Steps |-> "ready"]
    /\ try = [s \in Steps |-> 1]
    /\ barrier = [s \in Steps |-> "none"]
    /\ conn = [s \in Steps |-> 0]
    /\ answer = [s \in Steps |-> NoFrame]
    /\ fresh = {}
    /\ outcome = [s \in Steps |-> "none"]
    /\ left = {}
    /\ worker = NoStep
    /\ view = NoView
    /\ pending = [k \in Keys |-> NoDebit]
    /\ watermark = Unobserved
    /\ purse \in Purses
    /\ generation = 1
    /\ observation = [gen |-> 1, at |-> 1, coins |-> purse, after |-> {}]
    /\ clock = 1
    /\ ingest = <<>> /\ outgoing = <<>> /\ incoming = <<>>
    /\ pushes = 0
    /\ served = {} /\ early = {}

Reserved(debits) == {k \in Keys : debits[k] # NoDebit}

\* The step ends: executeStep returns and the operation goes on with result.
Finish(s, result) ==
    /\ pc' = [pc EXCEPT ![s] = "done"]
    /\ outcome' = [outcome EXCEPT ![s] = result]
    /\ answer' = [answer EXCEPT ![s] = NoFrame]

-----------------------------------------------------------------------------
(* The coin gate.                                                          *)

\* DefinitiveFailure removes the debit, Indeterminate dates it.
Dropped(k) == [pending EXCEPT ![k] = NoDebit]

Settled(k, time) ==
    [pending EXCEPT ![k] =
        IF pending[k] = NoDebit THEN NoDebit
        ELSE [gen |-> pending[k].gen, reserved |-> pending[k].reserved, settled |-> time]]

\* A return without the deferred callback, and a time of another clock.
Marked_Never(k) == pending
Marked_Rounded(k) == Settled(k, clock + 1)
Marked(k) == Settled(k, clock)

\* A reconciliation that forgets the marks.
Released_Reserved(o) == {k \in Reserved(pending) : o.at > pending[k].reserved}

\* reconcile: the debits that the observation releases.
Released(o) ==
    {k \in Reserved(pending) :
        IF o.gen # pending[k].gen
        THEN o.gen > 0 /\ o.at > pending[k].reserved
        ELSE pending[k].settled > 0 /\ o.at > pending[k].settled}

\* Any newer balance is taken for the one that came with the response.
Correlated_Newer(k, frame) ==
    ~frame.bad /\ observation.gen = pending[k].gen /\ observation.at > pending[k].reserved

\* Whether the response itself brought the balance in the store (Completed).
Correlated(k, frame) ==
    /\ ~frame.bad
    /\ observation.gen = pending[k].gen
    /\ observation.at = frame.at

\* Completed(s): the debit goes when the response is correlated, and waits
\* for a later balance otherwise.
Completed(s, frame) ==
    LET k == Key(s) IN
    IF pending[k] = NoDebit
    THEN UNCHANGED <<pending, watermark>>
    ELSE IF Correlated(k, frame)
    THEN /\ pending' = Dropped(k)
         /\ watermark' = IF observation.gen > watermark.gen \/ observation.at >= watermark.at
                         THEN observation ELSE watermark
    ELSE pending' = Marked(k) /\ UNCHANGED watermark

NeedsRefresh(s, frame) ==
    pending[Key(s)] # NoDebit /\ ~Correlated(Key(s), frame)

\* The snapshot is older than one the gate has already decided on.
Stale(o) ==
    \/ watermark.gen > o.gen
    \/ watermark.gen = o.gen /\ o.at < watermark.at
    \/ watermark.gen = o.gen /\ o.at = watermark.at /\ o.coins # watermark.coins

Missing == view.observation.at = 0 \/ view.observation.gen # view.generation

\* Keys whose command the game has or may still get.
OnWire == served \cup {outgoing[n].key : n \in DOMAIN outgoing}

-----------------------------------------------------------------------------
(* Dispatch: the engine's Send and the router's worker.                    *)

\* The checks before Send, and the durable dispatching phase; any of them may
\* end the step before anything is reserved.
prepare(s) ==
    /\ pc[s] = "ready"
    /\ \E b \in Barriers(s) :
          barrier' = [barrier EXCEPT ![s] = IF try[s] = 1 THEN b ELSE barrier[s]]
    /\ conn' = [conn EXCEPT ![s] = generation]
    /\ answer' = [answer EXCEPT ![s] = NoFrame]
    /\ pc' = [pc EXCEPT ![s] = "queued"]
    /\ UNCHANGED <<try, fresh, outcome, left, gateVars, storeVars, gameVars, early>>

prepareFails(s) ==
    /\ pc[s] = "ready"
    /\ Finish(s, "failed")
    /\ UNCHANGED <<try, barrier, conn, fresh, left, gateVars, storeVars, gameVars, early>>

\* The command is cancelled, expires, is reset or is refused by a gate in the
\* queue, or by one of the worker's checks before the validation.
refuseQueued(s) ==
    /\ pc[s] = "queued"
    /\ pc' = [pc EXCEPT ![s] = "refused"]
    /\ UNCHANGED <<try, barrier, conn, answer, fresh, outcome, left, gateVars, storeVars, gameVars, early>>

\* Reset takes a command that the worker already has: Send returns and the
\* step is over, while pc goes on to say where the worker is.  Before the
\* dispatch time is set the error is definitive and the cancelled context ends
\* the command at the transport; after it the outcome is unknown, and a worker
\* past the transport's look at the context validates and writes as before.
reset(s) ==
    /\ s \notin left
    /\ \/ /\ \/ pc[s] = "queued" /\ worker = NoStep
                /\ pc' = [pc EXCEPT ![s] = "taken"] /\ worker' = s
             \/ pc[s] = "snapshot1" /\ UNCHANGED <<pc, worker>>
          /\ pending' = Dropped(Key(s))
          /\ outcome' = [outcome EXCEPT ![s] = "failed"]
       \/ /\ pc[s] \in {"approved1", "snapshot2", "approved2"} /\ UNCHANGED <<pc, worker>>
          /\ pending' = Marked(Key(s))
          /\ outcome' = [outcome EXCEPT ![s] = "indeterminate"]
    /\ left' = left \cup {s}
    /\ UNCHANGED <<try, barrier, conn, answer, fresh, view, watermark,
                   storeVars, gameVars, early>>

\* The validation runs in the router and again in the transport; each time
\* the planning context is read before the gate is locked.
readContext(s) ==
    /\ \/ pc[s] = "queued" /\ worker = NoStep /\ conn[s] = generation
          /\ pc' = [pc EXCEPT ![s] = "snapshot1"] /\ worker' = s
       \/ pc[s] = "taken" /\ pc' = [pc EXCEPT ![s] = "snapshot1"] /\ UNCHANGED worker
       \/ pc[s] = "approved1" /\ pc' = [pc EXCEPT ![s] = "snapshot2"] /\ UNCHANGED worker
    /\ view' = [generation |-> generation, observation |-> observation]
    /\ UNCHANGED <<try, barrier, conn, answer, fresh, outcome, left, pending, watermark,
                   storeVars, gameVars, early>>

\* The worker is through with the command; a step that is over hears nothing.
Release(s, place) ==
    /\ pc' = [pc EXCEPT ![s] = IF s \in left THEN "done" ELSE place]
    /\ worker' = NoStep

\* Validate without a current balance or with one from before the watermark.
validateRefuses(s) ==
    /\ pc[s] \in {"snapshot1", "snapshot2"}
    /\ Missing \/ Stale(view.observation)
    /\ Release(s, "refused")
    /\ view' = NoView
    /\ UNCHANGED <<try, barrier, conn, answer, fresh, outcome, left, pending, watermark,
                   storeVars, gameVars, early>>

\* Validate: advance the watermark, reconcile, compare and reserve.
Validate(s) ==
    LET o == view.observation
        gone == Released(o)
        kept == [k \in Keys |-> IF k \in gone THEN NoDebit ELSE pending[k]]
        others == Reserved(kept) \ {Key(s)}
    IN
    /\ pc[s] \in {"snapshot1", "snapshot2"}
    /\ ~Missing /\ ~Stale(o)
    /\ watermark' = IF o.gen > watermark.gen \/ o.at > watermark.at THEN o ELSE watermark
    /\ early' = early \cup {k \in gone : k \in OnWire /\ k \notin o.after}
    /\ IF o.coins < Cost * Cardinality(others) + Cost + Reserve
       THEN pending' = kept /\ Release(s, "refused")
       ELSE /\ pending' = IF kept[Key(s)] # NoDebit THEN kept
                          ELSE [kept EXCEPT ![Key(s)] =
                                  [gen |-> o.gen, reserved |-> clock, settled |-> 0]]
            /\ IF pc[s] = "snapshot1" /\ s \in left
               THEN Release(s, "refused")
               ELSE /\ pc' = [pc EXCEPT ![s] = IF pc[s] = "snapshot1" THEN "approved1"
                                              ELSE "approved2"]
                    /\ UNCHANGED worker
    /\ view' = NoView
    /\ UNCHANGED <<try, barrier, conn, answer, fresh, outcome, left, storeVars, gameVars>>

\* The transport writes; a fire-and-forget step is settled at once.
write(s) ==
    /\ pc[s] = "approved2"
    /\ conn[s] = generation
    /\ outgoing' = Append(outgoing, [key |-> Key(s), kind |-> "spend"])
    /\ Release(s, IF barrier[s] = "none" THEN "sent" ELSE "awaiting")
    /\ UNCHANGED <<try, barrier, conn, answer, fresh, outcome, left, view, pending, watermark,
                   storeVars, incoming, purse, pushes, served, early>>

\* A refusal of the transport, and a write that fails: the command may be out.
writeRefused(s) ==
    /\ pc[s] \in {"taken", "approved1", "approved2"}
    /\ Release(s, "refused")
    /\ UNCHANGED <<try, barrier, conn, answer, fresh, outcome, left, view, pending, watermark,
                   storeVars, gameVars, early>>

writeFails(s) ==
    /\ pc[s] = "approved2"
    /\ conn[s] = generation
    /\ \E out \in {<<>>, <<[key |-> Key(s), kind |-> "spend"]>>} : outgoing' = outgoing \o out
    /\ Release(s, "uncertain")
    /\ UNCHANGED <<try, barrier, conn, answer, fresh, outcome, left, view, pending, watermark,
                   storeVars, incoming, purse, pushes, served, early>>

\* Send returned: a definitive failure drops the debit, anything else that is
\* not awaited marks it.
sendFailed(s) ==
    /\ pc[s] = "refused"
    /\ pending' = Dropped(Key(s))
    /\ Finish(s, "failed")
    /\ UNCHANGED <<try, barrier, conn, fresh, left, worker, view, watermark,
                   storeVars, gameVars, early>>

sendSettled(s) ==
    /\ pc[s] \in {"uncertain", "sent"}
    /\ pending' = Marked(Key(s))
    /\ \/ pc[s] = "sent" /\ Finish(s, "succeeded")
       \/ Finish(s, "indeterminate")
    /\ UNCHANGED <<try, barrier, conn, fresh, left, worker, view, watermark,
                   storeVars, gameVars, early>>

-----------------------------------------------------------------------------
(* The wait for the response.                                              *)

\* The context ends, the timer fires, the session changes, or the waiting
\* phase cannot be saved: the outcome is unknown, whatever is on its way.
giveUp(s) ==
    /\ pc[s] = "awaiting"
    /\ pending' = Marked(Key(s))
    /\ Finish(s, "indeterminate")
    /\ UNCHANGED <<try, barrier, conn, fresh, left, worker, view, watermark,
                   storeVars, gameVars, early>>

Answered(s, code) == pc[s] = "awaiting" /\ answer[s].code = code

\* A nonzero code that is no retry: the command was not carried out and has no
\* debit any longer.  A lane lock that the code trips is reported before the
\* session is looked at; a step that lists the code, or lists none, goes on as
\* after a success, with nothing left to settle.
rejected(s) ==
    /\ Answered(s, "error")
    /\ pending' = Dropped(Key(s))
    /\ \/ \E result \in {"failed", "indeterminate"} : Finish(s, result)
       \/ conn[s] = generation /\ Finish(s, "succeeded")
    /\ UNCHANGED <<try, barrier, conn, fresh, left, worker, view, watermark,
                   storeVars, gameVars, early>>

\* A retry code: the command consumed its coins without the wanted effect.
consumed(s) ==
    /\ Answered(s, "retry")
    /\ Completed(s, answer[s])
    /\ \/ \E result \in {"failed", "indeterminate"} : Finish(s, result)
       \/ /\ conn[s] = generation
          /\ pc' = [pc EXCEPT ![s] = IF NeedsRefresh(s, answer[s]) THEN "refreshing" ELSE "retrying"]
          /\ UNCHANGED <<answer, outcome>>
    /\ UNCHANGED <<try, barrier, conn, fresh, left, worker, view, storeVars, gameVars, early>>

\* A success code from an older session, or a payload that is not the expected
\* one: the deferred callback marks the debit.
unusable(s) ==
    /\ Answered(s, "ok")
    /\ pending' = Marked(Key(s))
    /\ \/ Finish(s, "indeterminate")
       \/ conn[s] = generation /\ Finish(s, "failed")
    /\ UNCHANGED <<try, barrier, conn, fresh, left, worker, view, watermark,
                   storeVars, gameVars, early>>

\* ResponseBarrierWireThenCommitted waits for the commit of the same frame.
awaitCommit(s) ==
    /\ Answered(s, "ok")
    /\ barrier[s] = "wireThenCommitted"
    /\ conn[s] = generation
    /\ pc' = [pc EXCEPT ![s] = "committing"]
    /\ UNCHANGED <<try, barrier, conn, answer, fresh, outcome, left, gateVars, storeVars, gameVars, early>>

\* The commit does not come in time, or is refused, or the session changes.
commitFails(s) ==
    /\ pc[s] = "committing"
    /\ pending' = Marked(Key(s))
    /\ Finish(s, "failed")
    /\ UNCHANGED <<try, barrier, conn, fresh, left, worker, view, watermark,
                   storeVars, gameVars, early>>

\* The success counts: the gate completes the debit, and a balance that did
\* not come with the response is asked for before the step returns.
accepted(s) ==
    /\ \/ Answered(s, "ok") /\ barrier[s] # "wireThenCommitted"
       \/ pc[s] = "committing" /\ answer[s].committed /\ ~answer[s].bad
    /\ conn[s] = generation
    /\ Completed(s, answer[s])
    /\ \/ answer[s].bad /\ \E result \in {"failed", "indeterminate"} : Finish(s, result)
       \/ ~answer[s].bad /\ Finish(s, "indeterminate")
       \/ ~answer[s].bad /\ ~NeedsRefresh(s, answer[s]) /\ Finish(s, "succeeded")
       \/ /\ ~answer[s].bad /\ NeedsRefresh(s, answer[s])
          /\ pc' = [pc EXCEPT ![s] = "refreshing"]
          /\ UNCHANGED <<answer, outcome>>
    /\ UNCHANGED <<try, barrier, conn, fresh, left, worker, view, storeVars, gameVars, early>>

\* refreshCoinsAfterDispatch: a command of its own, which costs nothing.
refreshCoins(s) ==
    /\ pc[s] = "refreshing"
    /\ worker = NoStep /\ conn[s] = generation
    /\ outgoing' = Append(outgoing, [key |-> Key(s), kind |-> "balance"])
    /\ pc' = [pc EXCEPT ![s] = "refreshWait"]
    /\ UNCHANGED <<try, barrier, conn, answer, fresh, outcome, left, gateVars, storeVars,
                   incoming, purse, pushes, served, early>>

\* After the refresh a success is a success and a consumed try is repeated;
\* without it only the success stays one.
refreshed(s) ==
    /\ pc[s] = "refreshWait" /\ s \in fresh
    /\ fresh' = fresh \ {s}
    /\ IF answer[s].code = "ok" THEN Finish(s, "succeeded")
       ELSE pc' = [pc EXCEPT ![s] = "retrying"] /\ UNCHANGED <<answer, outcome>>
    /\ UNCHANGED <<try, barrier, conn, left, gateVars, storeVars, gameVars, early>>

refreshFails(s) ==
    /\ pc[s] \in {"refreshing", "refreshWait"}
    /\ fresh' = fresh \ {s}
    /\ Finish(s, IF answer[s].code = "ok" THEN "succeeded" ELSE "indeterminate")
    /\ UNCHANGED <<try, barrier, conn, left, gateVars, storeVars, gameVars, early>>

\* The execution gate and the retry guard, then executeStep once more.
retry(s) ==
    /\ pc[s] = "retrying"
    /\ \/ Finish(s, "failed") /\ UNCHANGED try
       \/ /\ try[s] < MaxTries
          /\ try' = [try EXCEPT ![s] = try[s] + 1]
          /\ pc' = [pc EXCEPT ![s] = "ready"]
          /\ UNCHANGED <<answer, outcome>>
    /\ UNCHANGED <<barrier, conn, fresh, left, gateVars, storeVars, gameVars, early>>

-----------------------------------------------------------------------------
(* The ingest pipeline.                                                    *)

\* A frame arrives: it is stamped, shown to the wire watchers and queued.
Watches(s, frame, barriers) ==
    pc[s] = "awaiting" /\ barrier[s] \in barriers /\ frame.key = Key(s) /\ frame.code # "balance"

observeFrame ==
    /\ incoming # <<>>
    /\ LET frame == [Head(incoming) EXCEPT !.at = clock + 1] IN
       /\ clock' = clock + 1
       /\ ingest' = Append(ingest, frame)
       /\ answer' = [s \in Steps |->
             IF Watches(s, frame, {"wire", "wireThenCommitted"}) THEN frame ELSE answer[s]]
    /\ incoming' = Tail(incoming)
    /\ UNCHANGED <<pc, try, barrier, conn, fresh, outcome, left, gateVars, observation, generation,
                   outgoing, purse, pushes, served, early>>

\* CommitFrameGuarded drops a frame of another connection, or one whose account,
\* focus or context is gone.  The others are reduced and published: a reducer
\* may fail, and then no balance is stored; the durability fence may fail, and
\* then the stored frame is not published.
Foreign(frame) == frame.gen # generation

commitFrame ==
    /\ ingest # <<>>
    /\ ingest' = Tail(ingest)
    /\ \E fate \in {"committed", "unreduced", "unfenced", "dropped"} :
       LET frame == [Head(ingest) EXCEPT !.bad = (fate = "unreduced"), !.committed = TRUE]
           published == fate \in {"committed", "unreduced"}
       IN
       /\ Foreign(frame) => fate = "dropped"
       /\ observation' = IF fate \in {"unreduced", "dropped"} \/ frame.coins = NoCoins
                         THEN observation
                         ELSE [gen |-> generation, at |-> frame.at,
                               coins |-> frame.coins, after |-> frame.after]
       /\ answer' = [s \in Steps |->
             IF published /\ \/ Watches(s, frame, {"committed"})
                             \/ /\ pc[s] \in {"awaiting", "committing"}
                                /\ barrier[s] = "wireThenCommitted"
                                /\ answer[s].code # "none" /\ answer[s].at = frame.at
             THEN frame ELSE answer[s]]
       /\ fresh' = fresh \cup {s \in Steps : /\ pc[s] = "refreshWait" /\ fate = "committed"
                                             /\ frame.key = Key(s) /\ frame.code = "balance"}
    /\ UNCHANGED <<pc, try, barrier, conn, outcome, left, gateVars, generation, clock, gameVars, early>>

\* The connection is replaced; what was on the old one is lost.
reconnect ==
    /\ generation <= MaxReconnects
    /\ generation' = generation + 1
    /\ outgoing' = <<>> /\ incoming' = <<>>
    /\ UNCHANGED <<stepVars, gateVars, observation, clock, ingest, purse, pushes, served, early>>

-----------------------------------------------------------------------------
(* External: the game.                                                     *)

Frame(key, code, coins, after) ==
    [key |-> key, code |-> code, coins |-> coins, after |-> after,
     gen |-> generation, at |-> 0, bad |-> FALSE, committed |-> FALSE]

\* The game carries out the next command, or refuses it; its response may
\* bring the new balance.
serve ==
    /\ outgoing # <<>>
    /\ outgoing' = Tail(outgoing)
    /\ LET k == Head(outgoing).key IN
       \/ /\ Head(outgoing).kind = "balance"
          /\ incoming' = Append(incoming, Frame(k, "balance", purse, served))
          /\ UNCHANGED <<purse, served>>
       \/ /\ Head(outgoing).kind = "spend"
          /\ incoming' = Append(incoming, Frame(k, "error", NoCoins, {}))
          /\ UNCHANGED <<purse, served>>
       \/ /\ Head(outgoing).kind = "spend" /\ purse >= Cost
          /\ purse' = purse - Cost
          /\ served' = served \cup {k}
          /\ \E code \in IF k[1] \in Retryable THEN {"ok", "retry"} ELSE {"ok"} :
             \/ incoming' = Append(incoming, Frame(k, code, NoCoins, {}))
             \/ incoming' = Append(incoming, Frame(k, code, purse', served'))
    /\ UNCHANGED <<stepVars, gateVars, storeVars, pushes, early>>

\* The game sends the balance unasked.
push ==
    /\ pushes < MaxPushes
    /\ pushes' = pushes + 1
    /\ incoming' = Append(incoming, Frame(<<NoStep, 0>>, "push", purse, served))
    /\ UNCHANGED <<stepVars, gateVars, storeVars, outgoing, purse, served, early>>

-----------------------------------------------------------------------------
Next ==
    \/ \E s \in Steps :
          \/ prepare(s) \/ prepareFails(s) \/ refuseQueued(s) \/ reset(s) \/ readContext(s)
          \/ validateRefuses(s) \/ Validate(s) \/ write(s) \/ writeRefused(s) \/ writeFails(s)
          \/ sendFailed(s) \/ sendSettled(s) \/ giveUp(s) \/ rejected(s) \/ consumed(s)
          \/ unusable(s) \/ awaitCommit(s) \/ commitFails(s) \/ accepted(s)
          \/ refreshCoins(s) \/ refreshed(s) \/ refreshFails(s) \/ retry(s)
    \/ observeFrame \/ commitFrame \/ reconnect
    \/ serve \/ push

Spec == Init /\ [][Next]_vars

-----------------------------------------------------------------------------

Unserved == {n \in DOMAIN outgoing : outgoing[n].kind = "spend"}

\* The gate keeps the account solvent: the game can pay for every command that
\* is on its way to it and keep the reserve, whatever balances were read,
\* delayed or correlated in between, as long as no debit was released by a
\* balance that leaves its command out (Validate, Completed, reconcile).
Affordable ==
    early = {} /\ Unserved # {} => purse >= Cost * Cardinality(Unserved) + Reserve

\* Such a release can only meet a command whose outcome nobody waits for any
\* longer: while a step awaits its response, and after a definitive answer, no
\* balance refresh takes its debit away too soon (reconcile).
EarlyIsUncertain ==
    \A k \in early : \/ outcome[k[1]] = "indeterminate"
                     \/ outcome[k[1]] = "succeeded" /\ barrier[k[1]] = "none"

\* Every way out of executeStep settles the reservation: a debit that outlives
\* its step, or its try, is one that a later balance can release.  The one
\* exception is a command that Reset took from the worker in the middle of a
\* validation, which reserves after the step has settled (Router.go:150-167):
\* when that step was told that it failed, its coins are held, never spent.
ReservationsAreSettled ==
    \A k \in Reserved(pending) :
        pc[k[1]] = "done" \/ k[2] < try[k[1]] =>
            \/ pending[k].settled > 0
            \/ /\ k[1] \in left /\ k[2] = try[k[1]]
               /\ outcome[k[1]] = "failed" => k \notin OnWire

=============================================================================
