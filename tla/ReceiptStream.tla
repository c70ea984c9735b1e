--------------------------- MODULE ReceiptStream ---------------------------
(***************************************************************************)
(* Engine.publishLocked, Subscribe, Operation and Await                    *)
(* (Server/Intent/Engine.go): receipts are cached and sent to bounded      *)
(* subscriber channels.  A full channel loses its oldest receipt and the   *)
(* new one carries StreamGap, on which Await reads the operation again.    *)
(***************************************************************************)
EXTENDS Runtime, Sequences

CONSTANTS
    Awaiters,   \* callers of Await
    Target,     \* the operation each one awaits: [Awaiters -> Ops]
    Buffer      \* capacity of a subscriber's channel

ASSUME TargetAssumption == Target \in [Awaiters -> Ops]
ASSUME BufferAssumption == Buffer \in Nat \ {0}

VARIABLES
    status,    \* the latest published status of each operation
    evicted,   \* operations whose receipt left the memory window
    await,     \* where each Await is
    channel    \* each Await's subscription

streamVars == <<status, evicted, await, channel>>

\* What Await tells apart: nothing published yet, a status the operation goes
\* on from (queued, planning, running, paused), a final one.
Statuses == {"none", "active", "ended"}
Receipts == [op : Ops, status : Statuses, gap : BOOLEAN]
Terminal(s) == s = "ended"

\* idle: not called, or returned; subscribed: between Subscribe and the first
\* read; waiting: in the loop; misled: in the loop after a read of the
\* operation that found nothing.
AwaitStates == {"idle", "subscribed", "waiting", "misled"}
Subscribed(a) == await[a] # "idle"

StreamTypeOK ==
    /\ status \in [Ops -> Statuses]
    /\ evicted \subseteq Ops
    /\ await \in [Awaiters -> AwaitStates]
    /\ channel \in [Awaiters -> Seq(Receipts)]
    /\ \A a \in Awaiters : Len(channel[a]) <= Buffer

StreamInit ==
    /\ status = [o \in Ops |-> "none"]
    /\ evicted = {}
    /\ await = [a \in Awaiters |-> "idle"]
    /\ channel = [a \in Awaiters |-> << >>]

\* MUTANT: the oldest receipt is dropped without a mark.
delivered_Unmarked(ch, r, raced) ==
    IF Len(ch) < Buffer /\ (ch = << >> \/ ~raced) THEN Append(ch, r) ELSE Append(Tail(ch), r)

\* The channel after publishLocked sends receipt r into it: appended when
\* there is room; otherwise the oldest is dropped and r is marked.  The reader
\* may take receipts between the two selects (raced), and then a channel that
\* is not full any more loses its oldest receipt too.
delivered(ch, r, raced) ==
    IF Len(ch) < Buffer /\ (ch = << >> \/ ~raced)
    THEN Append(ch, r)
    ELSE Append(Tail(ch), [r EXCEPT !.gap = TRUE])

\* publishLocked: cache the receipt, send it to every subscriber.
publish(o, s) ==
    /\ status' = [status EXCEPT ![o] = s]
    /\ evicted' = evicted \ {o}
    /\ \E raced \in SUBSET {a \in Awaiters : Subscribed(a)} :
          channel' = [a \in Awaiters |->
             IF Subscribed(a)
             THEN delivered(channel[a], [op |-> o, status |-> s, gap |-> FALSE], a \in raced)
             ELSE channel[a]]
    /\ UNCHANGED await

\* evictOperationHistoryLocked drops the receipt of an operation that is not
\* active; afterwards only the operation store can answer for it.
evict(o) ==
    /\ Terminal(status[o])
    /\ o \notin evicted
    /\ evicted' = evicted \cup {o}
    /\ UNCHANGED <<status, await, channel>>

\* Await: Subscribe.
subscribe(a) ==
    /\ await[a] = "idle"
    /\ await' = [await EXCEPT ![a] = "subscribed"]
    /\ UNCHANGED <<status, evicted, channel>>

\* Engine.Operation answers with the latest receipt, or not at all: for an
\* unknown id, and for an evicted one that the store cannot return.
Known(o) == status[o] # "none"

\* An Await that returns unsubscribes.
leave(a) ==
    /\ await' = [await EXCEPT ![a] = "idle"]
    /\ channel' = [channel EXCEPT ![a] = << >>]

\* Await: the first read; it returns for an operation that ended or is not known.
firstRead(a) ==
    LET o == Target[a] IN
    /\ await[a] = "subscribed"
    /\ IF Known(o) /\ ~Terminal(status[o])
       THEN await' = [await EXCEPT ![a] = "waiting"] /\ UNCHANGED channel
       ELSE leave(a)
    /\ UNCHANGED <<status, evicted>>

\* Await: one receipt of the loop.
receive(a) ==
    LET o == Target[a]
        r == Head(channel[a])
        rest == [channel EXCEPT ![a] = Tail(channel[a])]
        stay(how) == await' = [await EXCEPT ![a] = how] /\ channel' = rest
    IN /\ await[a] \in {"waiting", "misled"}
       /\ channel[a] # << >>
       /\ \/ /\ r.op = o
             /\ IF Terminal(r.status) THEN leave(a) ELSE stay(await[a])
          \/ /\ r.op # o /\ ~r.gap
             /\ stay(await[a])
          \/ /\ r.op # o /\ r.gap
             /\ IF Terminal(status[o]) THEN leave(a) ELSE stay(await[a])
          \/ /\ r.op # o /\ r.gap /\ o \in evicted
             /\ stay("misled")
       /\ UNCHANGED <<status, evicted>>

\* Await: its own context ends; the operation is not cancelled.
abandon(a) ==
    /\ await[a] \in {"waiting", "misled"}
    /\ leave(a)
    /\ UNCHANGED <<status, evicted>>
=============================================================================
