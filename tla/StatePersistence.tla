-------------------------- MODULE StatePersistence --------------------------
(***************************************************************************)
(* The way of a committed state change to the disk: the store's publish    *)
(* (Server/State/Store.go) into the buffered channel of a subscriber, the  *)
(* worker persistState and its callers in saveStateEvent                   *)
(* (Server/App/Application.go), the group commit PersistenceBatch and the  *)
(* component snapshot with its manifest                                    *)
(* (Server/State/ComponentPersistence.go).                                 *)
(*                                                                         *)
(* A component's value is known by the revision that produced it, so a     *)
(* generation is determined by the log of the components that each         *)
(* revision changed.  A component file of revision r holds the component's *)
(* value in generation r; a manifest names one file per component.         *)
(***************************************************************************)
EXTENDS Integers, Sequences

CONSTANTS
  Components,    \* the components a snapshot keeps
  Transient,     \* ComponentMovementSnapshot: published and never saved
  Changes,       \* the sets of components one commit may change
  Callers,       \* goroutines that commit a change and call saveStateEvent
  NoCaller,      \* a commit whose durability nobody asks for
  Buffer,        \* capacity of the worker's subscription (128 in the code)
  MaxRevision,   \* bound: revisions of the store
  MaxFaults      \* bound: failed saves, crashes and restarts together

ASSUME ChangesAssumption ==
  /\ Transient \notin Components
  /\ Changes \subseteq SUBSET (Components \cup {Transient})
  /\ {} \notin Changes
  /\ NoCaller \notin Callers

ASSUME BoundsAssumption ==
  /\ Buffer \in Nat \ {0}
  /\ MaxRevision \in Nat
  /\ MaxFaults \in Nat

VARIABLES
  log,         \* log[r]: the components that revision r changed
  publishing,  \* the publisher that found the buffer full, or Published
  events,      \* the worker's subscription
  caller,      \* where each caller of saveStateEvent is
  worker,      \* the locals of persistState
  cached,      \* ComponentSnapshotWriter.current
  disk,        \* the manifest a reader of the directory sees
  stable,      \* the manifests a crash of the machine may leave
  present,     \* the component files of the directory
  stopping,    \* the runtime context has ended
  acked,       \* the revisions that acknowledged calls of saveStateEvent cover
  skipped,     \* revisions the worker passed over while a publisher held them
  faults

vars == <<log, publishing, events, caller, worker, cached, disk, stable,
          present, stopping, acked, skipped, faults>>

Revisions == 0 .. MaxRevision

Event == [components : SUBSET (Components \cup {Transient}),
          base : Revisions, revision : Revisions]

Manifest == [revision : Revisions, files : [Components -> Revisions]]

NoManifest == [revision |-> 0, files |-> [c \in Components |-> 0]]

NoEvent == [components |-> {}, base |-> 0, revision |-> 0]

Published == [by |-> NoCaller, event |-> NoEvent, held |-> NoEvent]

Idle == [state |-> "idle", revision |-> 0]

(* The locals of a worker that has just subscribed at revision r. *)
started(r) == [status |-> "select", baseline |-> r, covered |-> r, persisted |-> 0,
               dirty |-> {}, latest |-> 0, timer |-> FALSE,
               request |-> NoCaller, wanted |-> 0]

TypeOK ==
  /\ \E n \in Revisions : log \in [1 .. n -> SUBSET (Components \cup {Transient})]
  /\ publishing \in [by : Callers \cup {NoCaller}, event : Event, held : Event]
  /\ events \in Seq(Event)
  /\ Len(events) <= Buffer
  /\ caller \in [Callers -> [state : {"idle", "publishing", "asking", "waiting"},
                             revision : Revisions]]
  /\ worker \in [status : {"select", "draining", "done"},
                 baseline : Revisions, covered : Revisions, persisted : Revisions,
                 dirty : SUBSET Components, latest : Revisions,
                 timer : BOOLEAN, request : Callers \cup {NoCaller},
                 wanted : Revisions]
  /\ cached \in Manifest
  /\ disk \in Manifest
  /\ stable \subseteq Manifest
  /\ present \subseteq Components \X Revisions
  /\ stopping \in BOOLEAN
  /\ acked \subseteq Revisions
  /\ skipped \subseteq Revisions
  /\ faults \in 0 .. MaxFaults

Init ==
  /\ log = <<>>
  /\ publishing = Published
  /\ events = <<>>
  /\ caller = [p \in Callers |-> Idle]
  /\ worker = started(0)
  /\ cached = NoManifest
  /\ disk = NoManifest
  /\ stable = {NoManifest}
  /\ present = {}
  /\ stopping = FALSE
  /\ acked = {}
  /\ skipped = {}
  /\ faults = 0

-----------------------------------------------------------------------------
(* Store.publish.  The publisher holds writeMu until it returns, so there  *)
(* is one at a time; it shares the channel with the worker.                *)

(* mergeEventMetadata: the components of both, the oldest base, the newest *)
(* revision and its generation.                                            *)
mergeEventMetadata(left, right) ==
  [components |-> left.components \cup right.components,
   base |-> left.base,
   revision |-> IF right.revision > left.revision
                THEN right.revision ELSE left.revision]

(* coalesceEventQueue, one event at a time. *)
coalesced(queued, event) ==
  IF queued = NoEvent THEN event ELSE mergeEventMetadata(queued, event)

(* The caller of ApplyScoped gets its event back when publish returns. *)
returned(p) ==
  IF p = NoCaller THEN caller ELSE [caller EXCEPT ![p].state = "asking"]

(* ApplyScoped commits a revision and publishes it to the worker, unless    *)
(* that has unsubscribed.                                                  *)
publish(p, S) ==
  LET event == [components |-> S, base |-> Len(log), revision |-> Len(log) + 1]
      committed == IF p = NoCaller THEN caller
                   ELSE [caller EXCEPT ![p] = [state |-> "publishing",
                                               revision |-> Len(log) + 1]]
  IN  /\ publishing = Published
      /\ Len(log) < MaxRevision
      /\ p # NoCaller => caller[p].state = "idle"
      /\ log' = Append(log, S)
      /\ \/ /\ worker.status = "done" \/ Len(events) < Buffer
            /\ events' = IF worker.status = "done" THEN events
                         ELSE Append(events, event)
            /\ caller' = IF p = NoCaller THEN caller
                         ELSE [committed EXCEPT ![p].state = "asking"]
            /\ UNCHANGED publishing
         \/ /\ worker.status # "done"
            /\ Len(events) = Buffer
            /\ publishing' = [by |-> p, event |-> event, held |-> NoEvent]
            /\ caller' = committed
            /\ UNCHANGED events
      /\ UNCHANGED <<worker, cached, disk, stable, present, stopping, acked,
                     skipped, faults>>

(* The drain of a full buffer takes one queued event at a time, and the    *)
(* worker may take the next one in between.                                *)
drainQueued ==
  /\ publishing # Published
  /\ events # <<>>
  /\ publishing' = [publishing EXCEPT !.held = coalesced(@, Head(events))]
  /\ events' = Tail(events)
  /\ UNCHANGED <<log, caller, worker, cached, disk, stable, present, stopping,
                 acked, skipped, faults>>

(* The merged event is sent; no other publisher can have refilled the      *)
(* channel.                                                                *)
sendCoalesced ==
  /\ publishing # Published
  /\ events = <<>>
  /\ events' = <<coalesced(publishing.held, publishing.event)>>
  /\ caller' = returned(publishing.by)
  /\ publishing' = Published
  /\ UNCHANGED <<log, worker, cached, disk, stable, present, stopping, acked,
                 skipped, faults>>

-----------------------------------------------------------------------------
(* saveComponentSnapshot. *)

FilesOf(m) == {<<c, m.files[c]>> : c \in {d \in Components : m.revision > 0}}

(* The manifest the next one builds on. *)
manifest == IF cached = NoManifest THEN disk ELSE cached

(* The first component save writes every component.  The batch is never    *)
(* older than the writer's manifest: a late event was merged with the      *)
(* newest one.                                                             *)
dirtyComponents == IF manifest = NoManifest THEN Components ELSE worker.dirty

(* Every dirty component in the value of the batch's newest generation.  (Automations that *)
(* differ from their file in volatile fields only keep the file in the code; what a file   *)
(* says of them is the same.)                                                              *)
next ==
  [revision |-> worker.latest,
   files |-> [c \in Components |->
                IF c \in dirtyComponents THEN worker.latest
                                         ELSE manifest.files[c]]]

(* The directory sync makes the manifest and its files durable, and the    *)
(* files only the old manifest names are removed.                          *)
SaveSucceeds ==
  /\ cached' = next
  /\ disk' = next
  /\ stable' = {next}
  /\ present' = (present \cup FilesOf(next)) \ (FilesOf(manifest) \ FilesOf(next))

(* Mutant: a failed save removes the old files as well. *)
SaveFails_Cleans ==
  /\ faults < MaxFaults
  /\ faults' = faults + 1
  /\ present' = (present \cup FilesOf(next)) \ (FilesOf(manifest) \ FilesOf(next))
  /\ \/ UNCHANGED <<disk, stable>>
     \/ /\ disk' = next
        /\ stable' = stable \cup {next}
  /\ UNCHANGED cached

(* A write fails before the manifest is replaced, or the directory sync    *)
(* fails after it; the writer keeps its last known-good manifest.          *)
SaveFails ==
  /\ faults < MaxFaults
  /\ faults' = faults + 1
  /\ present' = present \cup FilesOf(next)
  /\ \/ UNCHANGED <<disk, stable>>
     \/ /\ disk' = next
        /\ stable' = stable \cup {next}
  /\ UNCHANGED cached

-----------------------------------------------------------------------------
(* persistState. *)

larger(x, y) == IF x > y THEN x ELSE y

(* PersistenceBatch.Accumulate, and the timer its first event arms. *)
accumulate(w, event) ==
  LET durable == event.components \ {Transient}
  IN  IF durable = {} THEN w
      ELSE [w EXCEPT !.dirty = @ \cup durable,
                     !.latest = larger(@, event.revision),
                     !.timer = TRUE]

observe(w, event) ==
  [accumulate(w, event) EXCEPT !.covered = larger(@, event.revision)]

(* What the batch and the coverage are after a successful flush. *)
flushed(w) ==
  [w EXCEPT !.dirty = {}, !.latest = 0, !.timer = FALSE,
            !.persisted = larger(@, IF w.covered < w.latest THEN w.covered
                                                            ELSE w.latest)]

(* The worker takes the next event of its channel. *)
take ==
  /\ events # <<>>
  /\ events' = Tail(events)
  /\ worker' = observe(worker, Head(events))
  /\ skipped' = skipped \cup (worker.covered + 1 .. Head(events).base)
  /\ UNCHANGED <<log, publishing, caller, cached, disk, stable, present,
                 stopping, acked, faults>>

Observe == worker.status = "select" /\ take

(* saveStateEvent hands its request to the worker's select. *)
saveStateEvent(p) ==
  /\ worker.status = "select"
  /\ caller[p].state = "asking"
  /\ caller' = [caller EXCEPT ![p].state = "waiting"]
  /\ worker' = [worker EXCEPT !.status = "draining", !.request = p,
                              !.wanted = caller[p].revision]
  /\ UNCHANGED <<log, publishing, events, cached, disk, stable, present,
                 stopping, acked, skipped, faults>>

(* force drains the subscription through the requested revision. *)
forceDrains ==
  /\ worker.status = "draining"
  /\ worker.covered < worker.wanted
  /\ take

(* The worker w answers the request it serves and returns to its select;   *)
(* a caller that has left finds no result.                                 *)
answer(w, ok) ==
  LET p == w.request
      told == caller[p].state = "waiting"
  IN  /\ worker' = [w EXCEPT !.status = "select", !.request = NoCaller, !.wanted = 0]
      /\ caller' = IF told THEN [caller EXCEPT ![p] = Idle] ELSE caller
      /\ acked' = IF told /\ ok THEN acked \cup (w.baseline + 1 .. w.wanted) ELSE acked
      /\ UNCHANGED <<log, publishing, events, stopping, skipped>>

Drained == worker.status = "draining" /\ worker.covered >= worker.wanted

(* Already persisted, or nothing durable is pending. *)
forceAcknowledges ==
  /\ Drained
  /\ worker.persisted >= worker.wanted \/ worker.latest = 0
  /\ answer(worker, TRUE)
  /\ UNCHANGED <<cached, disk, stable, present, faults>>

(* Mutant: the caller is not told that the flush failed. *)
forceFlushes_Silent ==
  /\ Drained
  /\ worker.persisted < worker.wanted
  /\ worker.latest # 0
  /\ \/ /\ SaveSucceeds
        /\ answer(flushed(worker), TRUE)
        /\ UNCHANGED faults
     \/ /\ SaveFails
        /\ answer(worker, TRUE)

(* The result of the flush is the answer. *)
forceFlushes ==
  /\ Drained
  /\ worker.persisted < worker.wanted
  /\ worker.latest # 0
  /\ \/ /\ SaveSucceeds
        /\ answer(flushed(worker), TRUE)
        /\ UNCHANGED faults
     \/ /\ SaveFails
        /\ answer(worker, FALSE)

(* The runtime context ends while force waits for the channel. *)
forceStops ==
  /\ worker.status = "draining"
  /\ worker.covered < worker.wanted
  /\ stopping
  /\ answer(worker, FALSE)
  /\ UNCHANGED <<cached, disk, stable, present, faults>>

(* Mutant: a failed flush is not retried. *)
timerFires_Once ==
  /\ worker.status = "select"
  /\ worker.timer
  /\ \/ /\ SaveSucceeds
        /\ worker' = flushed(worker)
        /\ UNCHANGED faults
     \/ /\ SaveFails
        /\ worker' = [worker EXCEPT !.timer = FALSE]
  /\ UNCHANGED <<log, publishing, events, caller, stopping, acked, skipped>>

(* The window has passed; a failed flush is retried after a delay. *)
timerFires ==
  /\ worker.status = "select"
  /\ worker.timer
  /\ \/ /\ SaveSucceeds
        /\ worker' = flushed(worker)
        /\ UNCHANGED faults
     \/ /\ SaveFails
        /\ UNCHANGED worker
  /\ UNCHANGED <<log, publishing, events, caller, stopping, acked, skipped>>

(* The worker's last flush; what is still in its channel is not saved. *)
workerStops ==
  /\ worker.status = "select"
  /\ stopping
  /\ \/ /\ worker.latest = 0
        /\ worker' = [worker EXCEPT !.status = "done", !.timer = FALSE]
        /\ UNCHANGED <<cached, disk, stable, present, faults>>
     \/ /\ worker.latest # 0
        /\ SaveSucceeds
        /\ worker' = [flushed(worker) EXCEPT !.status = "done"]
        /\ UNCHANGED faults
     \/ /\ worker.latest # 0
        /\ SaveFails
        /\ worker' = [worker EXCEPT !.status = "done", !.timer = FALSE]
  /\ UNCHANGED <<log, publishing, events, caller, stopping, acked, skipped>>

-----------------------------------------------------------------------------
(* saveStateEvent returns without an answer: its own context has ended, or *)
(* the worker is gone.                                                     *)
leave(p) ==
  /\ caller[p].state \in {"asking", "waiting"}
  /\ caller' = [caller EXCEPT ![p] = Idle]
  /\ UNCHANGED <<log, publishing, events, worker, cached, disk, stable, present,
                 stopping, acked, skipped, faults>>

saveStateEventCancelled(p) == leave(p)

(* Mutant: a request is handed over without watching for the end of the    *)
(* worker.                                                                 *)
saveStateEventStopped_Blocks(p) ==
  worker.status = "done" /\ caller[p].state = "waiting" /\ leave(p)

saveStateEventStopped(p) == worker.status = "done" /\ leave(p)

Shutdown ==
  /\ ~stopping
  /\ stopping' = TRUE
  /\ UNCHANGED <<log, publishing, events, caller, worker, cached, disk, stable,
                 present, acked, skipped, faults>>

(* loadComponentSnapshot of manifest m: the generation that the files      *)
(* hold; the changes it lost are no part of the history any more.          *)
loaded(m) == [r \in 1 .. m.revision |-> {c \in log[r] \cap Components : r <= m.files[c]}]

(* The process ends and starts again; the machine may have lost what no    *)
(* directory sync has confirmed.                                           *)
CrashRestart ==
  /\ faults < MaxFaults
  /\ faults' = faults + 1
  /\ \/ UNCHANGED <<disk, stable>>
     \/ \E m \in stable : disk' = m /\ stable' = {m}
  /\ log' = loaded(disk')
  /\ publishing' = Published
  /\ events' = <<>>
  /\ caller' = [p \in Callers |-> Idle]
  /\ worker' = started(disk'.revision)
  /\ cached' = NoManifest
  /\ stopping' = FALSE
  /\ acked' = acked \cap (1 .. disk'.revision)
  /\ skipped' = skipped \cap (1 .. disk'.revision)
  /\ UNCHANGED present

-----------------------------------------------------------------------------
Publisher == drainQueued \/ sendCoalesced

Worker ==
  \/ Observe
  \/ \E p \in Callers : saveStateEvent(p)
  \/ forceDrains
  \/ forceAcknowledges
  \/ forceFlushes
  \/ forceStops
  \/ timerFires
  \/ workerStops

Next ==
  \/ \E p \in Callers \cup {NoCaller}, S \in Changes : publish(p, S)
  \/ Publisher
  \/ Worker
  \/ \E p \in Callers : saveStateEventCancelled(p) \/ saveStateEventStopped(p)
  \/ Shutdown
  \/ CrashRestart

(* A goroutine that can run does; the code promises no more of a caller's  *)
(* context, of the shutdown or of the disk.                                *)
Fairness ==
  /\ WF_vars(Publisher)
  /\ WF_vars(Worker)
  /\ \A p \in Callers : WF_vars(saveStateEventStopped(p))

Spec == Init /\ [][Next]_vars /\ Fairness

-----------------------------------------------------------------------------
(* Properties *)

Kept(m, c, r) == c \in log[r] => m.files[c] >= r

(* A revision that saveStateEvent has acknowledged survives any crash,     *)
(* with every earlier one of its process, unless the worker passed over it *)
(* while a publisher that was folding a full buffer held it: the batch     *)
(* keeps what a failed flush could not write, coalescing keeps every dirty *)
(* component, and coverage never runs ahead of what was written            *)
(* (Application.go force and flush, PersistenceBatch.Accumulate).          *)
AcknowledgedUnlessSkipped ==
  \A m \in stable, c \in Components :
    \A r \in acked : r \in skipped \/ Kept(m, c, r)

(* What force's comment promises without exception: the subscription is    *)
(* ordered, so that draining it through a revision and flushing makes the  *)
(* revision durable.                                                       *)
AcknowledgedIsDurable ==
  \A m \in stable, c \in Components, r \in acked : Kept(m, c, r)

(* Whatever manifest a crash leaves, all its files exist and together they *)
(* are one generation the store committed, not a mixture (again but for a  *)
(* skipped change): group commits write every component that changed since *)
(* the last one in the value of one generation, and files are removed only *)
(* when no manifest that may come back names them.                         *)
RecoveryIsAGeneration ==
  \A m \in stable \cup {disk} :
    /\ FilesOf(m) \subseteq present
    /\ \A c \in Components : \A r \in 1 .. m.revision : r \in skipped \/ Kept(m, c, r)

(* Every durable change of a process that lives on reaches the disk, asked *)
(* for or not: the batch that a failed flush kept always has a timer.      *)
EverythingReachesDisk ==
  <>[](\/ worker.status = "done"
       \/ \A c \in Components, r \in DOMAIN log : Kept(disk, c, r))

(* saveStateEvent always returns: no request waits for an event that is    *)
(* not coming, whatever was coalesced, failed or shut down meanwhile.      *)
SavesReturn ==
  \A p \in Callers : caller[p].state # "idle" ~> caller[p].state = "idle"
=============================================================================
