-------------------------- MODULE VaultStaticSecret --------------------------
(***************************************************************************)
(* The VaultStaticSecret controller                                        *)
(* (controllers/vaultstaticsecret_controller.go) for one object: Reconcile *)
(* with its HMAC drift detection (helpers/hmac.go), and the event watcher  *)
(* goroutines of spec.syncConfig.instantUpdates with their registry        *)
(* (controllers/event_watcher_registry.go).  Reconciles of one object do   *)
(* not overlap; watchers run beside them and beside one another.           *)
(***************************************************************************)
EXTENDS Integers

CONSTANTS
  Watcher,        \* identifiers of the watcher goroutines (and of their metadata)
  None,
  Hmac,           \* spec.hmacSecretData
  Poll,           \* every Reconcile leaves a later request: spec.refreshAfter, or Hmac's default
  MaxGen, MaxVal, MaxTok,   \* bounds on changes of the spec, of the Vault secret, of the client
  errorThreshold,
  MaxRestarts,
  Events          \* what else may happen, a subset of AllEvents

AllEvents == {"toggle", "delete", "drift", "destDelete", "reconcileError", "writeError", "wsError",
              "waitTimeout", "streamError", "closedConn", "backoffStop"}

ASSUME VSSAssumption ==
  /\ None \notin Watcher
  /\ Hmac \in BOOLEAN /\ Poll \in BOOLEAN /\ (Hmac => Poll)
  /\ MaxGen \in Nat \ {0} /\ MaxVal \in Nat \ {0} /\ MaxTok \in Nat \ {0}
  /\ errorThreshold \in Nat \ {0} /\ MaxRestarts \in Nat
  /\ Events \subseteq AllEvents

\* The object: instantUpdates, and of the status the last generation (0: never synced) and the
\* MAC, which stands for the data it was computed from (0: none).  Every generation of the spec
\* reads a path of its own.
ObjRec == [st: {"present", "deleting", "gone"}, gen: 1..MaxGen, inst: BOOLEAN, fin: BOOLEAN,
           lastGen: 0..MaxGen, mac: 0..MaxVal]
\* A running Reconcile: its copy of the object, its client, the data it read, the watcher it
\* waits for, and whether it restarted the rollout targets.
RecRec == [pc: {"idle", "client", "read", "sync", "watch", "wait", "start", "status", "finalizer",
                "unfinalize"},
           o: ObjRec, tok: 0..MaxTok, val: 0..MaxVal, w: Watcher \cup {None}, restart: BOOLEAN]
\* A watcher goroutine (getEvents): the generation of its copy of the object, the client of its
\* websocket, whether its context is cancelled, the errors so far, whether a matching event is
\* waiting in the connection, and the metadata it got from the registry.  "free" also says that
\* its StoppedCh is closed.
WatcherRec == [pc: {"free", "loop", "connect", "stream", "error", "client", "lookup", "register",
                    "requeue", "close"},
               gen: 0..MaxGen, tok: 0..MaxTok, cancelled: BOOLEAN, errs: 0..errorThreshold,
               event: BOOLEAN, held: Watcher \cup {None}]

VARIABLES
  obj,      \* the object in Kubernetes
  cached,   \* the informer's copy
  dest,     \* the data of the destination Secret (0: not from Vault), or None
  val,      \* the version of the Vault secret
  tok,      \* the client that ClientFactory.Get returns
  queue, timer,   \* a request for the object is in the work queue, or delayed
  rec,      \* the running Reconcile
  w,        \* the watcher goroutines
  meta,     \* eventWatcherMeta: LastGeneration and LastClientID, for each watcher
  reg,      \* the metadata in the eventWatcherRegistry under the object's name, or None
  restarts

vars == <<obj, cached, dest, val, tok, queue, timer, rec, w, meta, reg, restarts>>

TypeOK ==
  /\ obj \in ObjRec /\ cached \in ObjRec
  /\ dest \in (0..MaxVal) \cup {None} /\ val \in 1..MaxVal /\ tok \in 1..MaxTok
  /\ queue \in BOOLEAN /\ timer \in BOOLEAN
  /\ rec \in RecRec
  /\ w \in [Watcher -> WatcherRec]
  /\ meta \in [Watcher -> [gen: 0..MaxGen, tok: 0..MaxTok]]
  /\ reg \in Watcher \cup {None}
  /\ restarts \in 0..MaxRestarts

NewObj(inst) == [st |-> "present", gen |-> 1, inst |-> inst, fin |-> FALSE, lastGen |-> 0, mac |-> 0]
Idle == [pc |-> "idle", o |-> NewObj(FALSE), tok |-> 0, val |-> 0, w |-> None, restart |-> FALSE]
Free == [pc |-> "free", gen |-> 0, tok |-> 0, cancelled |-> FALSE, errs |-> 0, event |-> FALSE,
         held |-> None]
NoMeta == [gen |-> 0, tok |-> 0]

Init ==
  /\ \E inst \in BOOLEAN : obj = NewObj(inst)
  /\ cached = obj
  /\ dest = None /\ val = 1 /\ tok = 1
  /\ queue = TRUE /\ timer = FALSE
  /\ rec = Idle
  /\ w = [x \in Watcher |-> Free] /\ meta = [x \in Watcher |-> NoMeta] /\ reg = None
  /\ restarts = 0

Running(x) == w[x].pc # "free"
watchers == <<w, meta, reg>>
world == <<dest, val, tok, restarts>>
-----------------------------------------------------------------------------
\* Reconcile ends: with a RequeueAfter or an error, which has a later request added, or not.
Requeue == rec' = Idle /\ timer' = TRUE
Done == rec' = Idle /\ UNCHANGED timer
Goto(pc) == rec' = [rec EXCEPT !.pc = pc] /\ UNCHANGED timer

\* If the object is in the registry, its watcher is cancelled and it leaves the registry,
\* before the goroutine stops.
unWatchEvents ==
  /\ w' = IF reg # None /\ Running(reg) THEN [w EXCEPT ![reg].cancelled = TRUE] ELSE w
  /\ reg' = None
  /\ UNCHANGED meta

\* Mutant: a deletion leaves the watcher.
BeginWatched ==
  /\ queue /\ rec.pc = "idle"
  /\ queue' = FALSE
  /\ \/ (cached.st = "gone" \/ (cached.st = "deleting" /\ ~cached.fin)) /\ Done
     \/ /\ cached.st = "present" \/ (cached.st = "deleting" /\ cached.fin)
        /\ rec' = [Idle EXCEPT !.pc = IF cached.st = "present" THEN "client" ELSE "unfinalize",
                               !.o = cached]
        /\ UNCHANGED timer
  /\ UNCHANGED <<obj, cached>> /\ UNCHANGED watchers /\ UNCHANGED world

\* A request is taken and the object read from the informer's copy.  One that is not found is
\* left at that; one that is being deleted has its watcher stopped.
Begin ==
  /\ queue /\ rec.pc = "idle"
  /\ queue' = FALSE
  /\ \/ cached.st = "gone" /\ Done /\ UNCHANGED watchers
     \/ /\ cached.st = "deleting"
        /\ unWatchEvents
        /\ IF cached.fin
           THEN rec' = [Idle EXCEPT !.pc = "unfinalize", !.o = cached] /\ UNCHANGED timer
           ELSE Done
     \/ /\ cached.st = "present"
        /\ rec' = [Idle EXCEPT !.pc = "client", !.o = cached] /\ UNCHANGED timer
        /\ UNCHANGED watchers
  /\ UNCHANGED <<obj, cached>> /\ UNCHANGED world

ClientGot ==
  /\ rec.pc = "client"
  /\ rec' = [rec EXCEPT !.pc = "read", !.tok = tok] /\ UNCHANGED timer
  /\ UNCHANGED <<obj, cached, queue>> /\ UNCHANGED watchers /\ UNCHANGED world

SecretRead ==
  /\ rec.pc = "read"
  /\ rec' = [rec EXCEPT !.pc = "sync", !.val = val] /\ UNCHANGED timer
  /\ UNCHANGED <<obj, cached, queue>> /\ UNCHANGED watchers /\ UNCHANGED world

\* The client, the spec's validation, the transformation, the Vault read, the MAC or the write
\* fails: before the watcher is looked at, and with a later request.
ReconcileFailed ==
  /\ rec.pc \in {"client", "read", "sync"} /\ "reconcileError" \in Events
  /\ Requeue
  /\ UNCHANGED <<obj, cached, queue>> /\ UNCHANGED watchers /\ UNCHANGED world

\* HandleSecretHMAC: the MAC in the status is the one of the new data, and of the destination.
macsEqual == rec.o.mac # 0 /\ rec.o.mac = rec.val /\ dest = rec.o.mac

\* Mutant: the destination is not looked at.
doSyncUndrifted == ~Hmac \/ rec.o.lastGen # rec.o.gen \/ rec.o.mac # rec.val

doSync == ~Hmac \/ rec.o.lastGen # rec.o.gen \/ ~macsEqual

\* The destination is written when it has to be, and the targets restarted, only with Hmac and
\* not the first time.  The MAC in the copy of the object becomes the one of the new data.
SecretSynced ==
  /\ rec.pc = "sync"
  /\ dest' = IF doSync THEN rec.val ELSE dest
  /\ rec' = [rec EXCEPT !.pc = "watch", !.restart = Hmac /\ doSync /\ rec.o.mac # 0]
  /\ UNCHANGED <<obj, cached, val, tok, queue, timer, restarts>> /\ UNCHANGED watchers
-----------------------------------------------------------------------------
\* ensureEventWatcher.

Unwatched ==
  /\ rec.pc = "watch" /\ ~rec.o.inst
  /\ unWatchEvents
  /\ Goto("status")
  /\ UNCHANGED <<obj, cached, queue>> /\ UNCHANGED world

\* The registered watcher was started for this generation, with this client.
upToDate == meta[reg] = [gen |-> rec.o.gen, tok |-> rec.tok]

\* A watcher that is up to date is left alone; another one is cancelled, and awaited.
WatcherFound ==
  /\ rec.pc = "watch" /\ rec.o.inst
  /\ reg # None
  /\ IF upToDate THEN Goto("status") /\ UNCHANGED w
     ELSE /\ w' = IF Running(reg) THEN [w EXCEPT ![reg].cancelled = TRUE] ELSE w
          /\ rec' = [rec EXCEPT !.pc = "wait", !.w = reg] /\ UNCHANGED timer
  /\ UNCHANGED <<obj, cached, queue, meta, reg>> /\ UNCHANGED world

WatcherNotFound ==
  /\ rec.pc = "watch" /\ rec.o.inst
  /\ reg = None
  /\ Goto("start")
  /\ UNCHANGED <<obj, cached, queue>> /\ UNCHANGED watchers /\ UNCHANGED world

\* Mutant: the cancelled watcher is not awaited.
WatcherStoppedNoWait ==
  /\ rec.pc = "wait"
  /\ rec' = [rec EXCEPT !.pc = "start", !.w = None] /\ UNCHANGED timer
  /\ UNCHANGED <<obj, cached, queue>> /\ UNCHANGED watchers /\ UNCHANGED world

\* The cancelled watcher closes its StoppedCh, or the wait for it times out.
WatcherStopped ==
  /\ rec.pc = "wait"
  /\ ~Running(rec.w) \/ "waitTimeout" \in Events
  /\ rec' = [rec EXCEPT !.pc = "start", !.w = None] /\ UNCHANGED timer
  /\ UNCHANGED <<obj, cached, queue>> /\ UNCHANGED watchers /\ UNCHANGED world

\* Identifiers that no goroutine, the registry or another watcher refers to.
Unused == {x \in Watcher : ~Running(x) /\ reg # x /\ \A y \in Watcher : w[y].held # x}

\* A new watcher is registered and started.
WatcherStarted ==
  /\ rec.pc = "start"
  /\ Unused # {}
  /\ LET x == CHOOSE x \in Unused : TRUE
     IN  /\ w' = [w EXCEPT ![x] = [Free EXCEPT !.pc = "loop", !.gen = rec.o.gen, !.tok = rec.tok]]
         /\ meta' = [meta EXCEPT ![x] = [gen |-> rec.o.gen, tok |-> rec.tok]]
         /\ reg' = x
  /\ Goto("status")
  /\ UNCHANGED <<obj, cached, queue>> /\ UNCHANGED world

\* No websocket client: reported as an event only.
WatcherNotStarted ==
  /\ rec.pc = "start" /\ "wsError" \in Events
  /\ Goto("status")
  /\ UNCHANGED <<obj, cached, queue>> /\ UNCHANGED watchers /\ UNCHANGED world
-----------------------------------------------------------------------------
\* updateStatus and handleDeletion.

NewStatus == [rec.o EXCEPT !.lastGen = rec.o.gen, !.mac = IF Hmac THEN rec.val ELSE @]

\* A later request is left at the end, or none.
Finish == IF Poll THEN Requeue ELSE Done
AfterStatus(o) ==
  IF rec.o.fin THEN Finish
  ELSE rec' = [rec EXCEPT !.pc = "finalizer", !.o = o] /\ UNCHANGED timer

\* The status is written when the copy is the current version of the object.
StatusWritten ==
  /\ rec.pc = "status"
  /\ rec.o = obj
  /\ obj' = NewStatus
  /\ AfterStatus(NewStatus)
  /\ UNCHANGED <<cached, queue>> /\ UNCHANGED watchers /\ UNCHANGED world

\* A failure, the conflict of a changed object included, is reported as an event only.
StatusFailed ==
  /\ rec.pc = "status"
  /\ rec.o # obj \/ "writeError" \in Events
  /\ AfterStatus(rec.o)
  /\ UNCHANGED <<obj, cached, queue>> /\ UNCHANGED watchers /\ UNCHANGED world

FinalizerAdded ==
  /\ rec.pc = "finalizer"
  /\ rec.o = obj
  /\ obj' = [obj EXCEPT !.fin = TRUE]
  /\ Finish
  /\ UNCHANGED <<cached, queue>> /\ UNCHANGED watchers /\ UNCHANGED world

FinalizerRemoved ==
  /\ rec.pc = "unfinalize"
  /\ rec.o = obj
  /\ obj' = [obj EXCEPT !.st = "gone"]
  /\ Done
  /\ UNCHANGED <<cached, queue>> /\ UNCHANGED watchers /\ UNCHANGED world

\* Adding or removing the finalizer fails: the error is returned.
FinalizerFailed ==
  /\ rec.pc \in {"finalizer", "unfinalize"}
  /\ rec.o # obj \/ "writeError" \in Events
  /\ Requeue
  /\ UNCHANGED <<obj, cached, queue>> /\ UNCHANGED watchers /\ UNCHANGED world
-----------------------------------------------------------------------------
\* getEvents, the goroutine of watcher x.

Elsewhere == <<obj, cached, dest, val, tok, queue, rec, restarts>>

\* Mutant: the context is not looked at.
LoopUncancelled(x) ==
  /\ w[x].pc = "loop" /\ w[x].cancelled
  /\ w' = [w EXCEPT ![x].pc = "connect"]
  /\ UNCHANGED <<meta, reg, timer>> /\ UNCHANGED Elsewhere

\* The top of the loop: the context is looked at.  After an error there is a back-off, which
\* may have come to its end.
LoopCancelled(x) ==
  /\ w[x].pc = "loop" /\ w[x].cancelled
  /\ w' = [w EXCEPT ![x].pc = "close"]
  /\ UNCHANGED <<meta, reg, timer>> /\ UNCHANGED Elsewhere

Loop(x) ==
  /\ w[x].pc = "loop" /\ ~w[x].cancelled
  /\ w' = [w EXCEPT ![x].pc = "connect"]
  /\ UNCHANGED <<meta, reg, timer>> /\ UNCHANGED Elsewhere

LoopGivesUp(x) ==
  /\ w[x].pc = "loop" /\ ~w[x].cancelled
  /\ w[x].errs > 0 /\ "backoffStop" \in Events
  /\ w' = [w EXCEPT ![x].pc = "requeue"]
  /\ UNCHANGED <<meta, reg, timer>> /\ UNCHANGED Elsewhere

\* streamStaticSecretEvents: the websocket is connected, and from then on receives events.
Connected(x) ==
  /\ w[x].pc = "connect"
  /\ w' = [w EXCEPT ![x].pc = "stream", ![x].event = FALSE]
  /\ UNCHANGED <<meta, reg, timer>> /\ UNCHANGED Elsewhere

\* A matching event has the object requeued, through the source channel and with a delay.
EventReceived(x) ==
  /\ w[x].pc = "stream" /\ w[x].event
  /\ w' = [w EXCEPT ![x].event = FALSE]
  /\ timer' = TRUE
  /\ UNCHANGED <<meta, reg>> /\ UNCHANGED Elsewhere

\* Connecting or reading fails ...
StreamFailed(x) ==
  /\ w[x].pc \in {"connect", "stream"} /\ "streamError" \in Events
  /\ w' = [w EXCEPT ![x].pc = "error", ![x].event = FALSE]
  /\ UNCHANGED <<meta, reg, timer>> /\ UNCHANGED Elsewhere

\* ... because the context was cancelled, or the connection closed: the goroutine ends ...
StreamClosed(x) ==
  /\ w[x].pc \in {"connect", "stream"}
  /\ w[x].cancelled \/ "closedConn" \in Events
  /\ w' = [w EXCEPT ![x].pc = "close", ![x].event = FALSE]
  /\ UNCHANGED <<meta, reg, timer>> /\ UNCHANGED Elsewhere

\* ... or the cancelled context is seen between two reads.
StreamCancelled(x) ==
  /\ w[x].pc = "stream" /\ w[x].cancelled
  /\ w' = [w EXCEPT ![x].pc = "loop", ![x].event = FALSE]
  /\ UNCHANGED <<meta, reg, timer>> /\ UNCHANGED Elsewhere

\* Errors are counted, over the life of the goroutine; too many end it.
StreamError(x) ==
  /\ w[x].pc = "error"
  /\ w' = [w EXCEPT ![x].errs = @ + 1,
                    ![x].pc = IF w[x].errs + 1 >= errorThreshold THEN "requeue" ELSE "client"]
  /\ UNCHANGED <<meta, reg, timer>> /\ UNCHANGED Elsewhere

\* A new client, and a websocket client from it, or neither.
NewClient(x) ==
  /\ w[x].pc = "client"
  /\ w' = [w EXCEPT ![x].pc = "lookup", ![x].tok = tok]
  /\ UNCHANGED <<meta, reg, timer>> /\ UNCHANGED Elsewhere

NewClientFailed(x) ==
  /\ w[x].pc = "client" /\ ("wsError" \in Events \/ w[x].cancelled)
  /\ w' = [w EXCEPT ![x].pc = "requeue"]
  /\ UNCHANGED <<meta, reg, timer>> /\ UNCHANGED Elsewhere

\* The registered metadata, whosever it is, gets the new client's ID ...
LookUp(x) ==
  /\ w[x].pc = "lookup"
  /\ IF reg = None
     THEN w' = [w EXCEPT ![x].pc = "requeue"] /\ UNCHANGED meta
     ELSE /\ w' = [w EXCEPT ![x].pc = "register", ![x].held = reg]
          /\ meta' = [meta EXCEPT ![reg].tok = w[x].tok]
  /\ UNCHANGED <<reg, timer>> /\ UNCHANGED Elsewhere

\* ... and is registered again.
Register(x) ==
  /\ w[x].pc = "register"
  /\ reg' = w[x].held
  /\ w' = [w EXCEPT ![x].pc = "loop", ![x].held = None]
  /\ UNCHANGED <<meta, timer>> /\ UNCHANGED Elsewhere

\* The object is requeued, before the deferred function runs ...
RequeueSent(x) ==
  /\ w[x].pc = "requeue"
  /\ w' = [w EXCEPT ![x].pc = "close"]
  /\ timer' = TRUE
  /\ UNCHANGED <<meta, reg>> /\ UNCHANGED Elsewhere

\* Mutant: the registry entry stays.
ClosedRegistered(x) ==
  /\ w[x].pc = "close"
  /\ w' = [w EXCEPT ![x] = Free]
  /\ UNCHANGED <<meta, reg, timer>> /\ UNCHANGED Elsewhere

\* ... which takes the object's name out of the registry, whichever watcher is registered under
\* it, and closes StoppedCh.
Closed(x) ==
  /\ w[x].pc = "close"
  /\ w' = [w EXCEPT ![x] = Free]
  /\ reg' = None
  /\ UNCHANGED <<meta, timer>> /\ UNCHANGED Elsewhere
-----------------------------------------------------------------------------
\* The event machinery and the environment.

\* The informer delivers the current version; a new generation or a deletion passes the
\* predicate.
InformerDelivers ==
  /\ cached # obj
  /\ cached' = obj
  /\ queue' = (queue \/ cached.gen # obj.gen \/ cached.st # obj.st)
  /\ UNCHANGED <<obj, timer, rec>> /\ UNCHANGED watchers /\ UNCHANGED world

TimerFires ==
  /\ timer
  /\ timer' = FALSE /\ queue' = TRUE
  /\ UNCHANGED <<obj, cached, rec>> /\ UNCHANGED watchers /\ UNCHANGED world

SpecChanged(inst) ==
  /\ obj.st = "present" /\ obj.gen < MaxGen
  /\ inst = obj.inst \/ "toggle" \in Events
  /\ obj' = [obj EXCEPT !.gen = @ + 1, !.inst = inst]
  /\ UNCHANGED <<cached, queue, timer, rec>> /\ UNCHANGED watchers /\ UNCHANGED world

ObjDeleted ==
  /\ "delete" \in Events /\ obj.st = "present"
  /\ obj' = [obj EXCEPT !.st = IF obj.fin THEN "deleting" ELSE "gone"]
  /\ UNCHANGED <<cached, queue, timer, rec>> /\ UNCHANGED watchers /\ UNCHANGED world

\* The secret changes in Vault, which sends an event to the connections; a watcher tells by
\* the path whether it matters to its copy of the object.
SecretModified ==
  /\ val < MaxVal
  /\ val' = val + 1
  /\ w' = [x \in Watcher |-> IF w[x].pc = "stream" /\ w[x].gen = obj.gen
                             THEN [w[x] EXCEPT !.event = TRUE] ELSE w[x]]
  /\ UNCHANGED <<obj, cached, dest, tok, queue, timer, rec, meta, reg, restarts>>

ClientReplaced ==
  /\ tok < MaxTok
  /\ tok' = tok + 1
  /\ UNCHANGED <<obj, cached, dest, val, queue, timer, rec, restarts>> /\ UNCHANGED watchers

\* The destination Secret is edited, or deleted; only a deletion has its owner queued.
DestEdited ==
  /\ "drift" \in Events /\ dest \notin {None, 0}
  /\ dest' = 0
  /\ UNCHANGED <<obj, cached, val, tok, queue, timer, rec, restarts>> /\ UNCHANGED watchers

DestDeleted ==
  /\ "destDelete" \in Events /\ dest # None
  /\ dest' = None /\ timer' = TRUE
  /\ UNCHANGED <<obj, cached, val, tok, queue, rec, restarts>> /\ UNCHANGED watchers

\* The operator restarts at any point; the initial list has every object queued.
Restart ==
  /\ restarts < MaxRestarts
  /\ restarts' = restarts + 1
  /\ cached' = obj /\ queue' = TRUE /\ timer' = FALSE /\ rec' = Idle
  /\ w' = [x \in Watcher |-> Free] /\ reg' = None
  /\ UNCHANGED <<obj, dest, val, tok, meta>>
-----------------------------------------------------------------------------
Reconcile ==
  \/ Begin \/ ClientGot \/ SecretRead \/ ReconcileFailed \/ SecretSynced
  \/ Unwatched \/ WatcherFound \/ WatcherNotFound \/ WatcherStopped
  \/ WatcherStarted \/ WatcherNotStarted
  \/ StatusWritten \/ StatusFailed \/ FinalizerAdded \/ FinalizerRemoved \/ FinalizerFailed

getEvents(x) ==
  \/ LoopCancelled(x) \/ Loop(x) \/ LoopGivesUp(x)
  \/ Connected(x) \/ EventReceived(x) \/ StreamFailed(x) \/ StreamClosed(x) \/ StreamCancelled(x)
  \/ StreamError(x) \/ NewClient(x) \/ NewClientFailed(x) \/ LookUp(x) \/ Register(x)
  \/ RequeueSent(x) \/ Closed(x)

Next ==
  \/ Reconcile
  \/ \E x \in Watcher : getEvents(x)
  \/ InformerDelivers \/ TimerFires
  \/ \E inst \in BOOLEAN : SpecChanged(inst)
  \/ ObjDeleted \/ SecretModified \/ ClientReplaced \/ DestEdited \/ DestDeleted \/ Restart

Spec == Init /\ [][Next]_vars

\* The operator's goroutines run, delayed requests come due, and Vault and Kubernetes do not
\* refuse the same request forever.
Fairness ==
  /\ WF_vars(Reconcile) /\ WF_vars(InformerDelivers) /\ WF_vars(TimerFires)
  /\ SF_vars(ClientGot) /\ SF_vars(SecretRead) /\ SF_vars(SecretSynced) /\ SF_vars(WatcherStarted)
  /\ \A x \in Watcher : WF_vars(getEvents(x)) /\ SF_vars(Connected(x))

LiveSpec == Spec /\ Fairness
-----------------------------------------------------------------------------
\* The registry keeps track of the running watcher, under what it runs with: while instant
\* updates are not switched off and on again and a cancelled watcher stops in time, a watcher
\* that is not cancelled is the registered one, and the registry has its generation and, unless
\* it is about to tell, its client.
RegistryTracksWatcher ==
  \A x \in Watcher :
    Running(x) /\ ~w[x].cancelled /\ w[x].pc # "close" =>
      /\ reg = x
      /\ meta[x].gen = w[x].gen
      /\ w[x].pc # "lookup" => meta[x].tok = w[x].tok

\* No watcher outlives its object's deletion: when the finalizer is removed, every watcher is
\* cancelled or about to end.
DeletionStopsWatcher ==
  [][obj.st = "deleting" /\ obj'.st = "gone" =>
       \A x \in Watcher : Running(x) => w[x].cancelled \/ w[x].pc = "close"]_vars

\* The goroutines, as EventWatcher sees them.
Live ==
  {[id |-> x, gen |-> w[x].gen, told |-> w[x].cancelled] : x \in {y \in Watcher : Running(y)}}

Watch == INSTANCE EventWatcher WITH st <- obj.st, gen <- obj.gen, live <- Live

\* What Reconcile and getEvents do together implements EventWatcher: however starts, ends,
\* cancellations, deletions and restarts interleave, an object has one watcher at a time, a new
\* one starts only after the last has ended, and none outlives the finalizer untold.
ImplementsEventWatcher == Watch!Spec

\* Every version of the Vault secret, and every repair of an edited or deleted destination,
\* reaches the destination of an object that is polled, whatever happens to its watchers.
SecretConverges ==
  \A v \in 1..MaxVal :
    val = v /\ dest # v ~> obj.st # "present" \/ (dest # None /\ dest >= v)

\* An object with instant updates that is polled has, for every generation, a watcher connected
\* in the end, whatever errors, cancellations and lost registrations come before.
WatcherConnects ==
  \A g \in 1..MaxGen :
    obj.gen = g /\ obj.inst ~>
      \/ obj.st # "present" \/ obj.gen # g
      \/ \E x \in Watcher : w[x].pc = "stream" /\ w[x].gen = g /\ ~w[x].cancelled

\* A watcher whose context is cancelled stops.
CancelledStops == \A x \in Watcher : w[x].cancelled ~> ~Running(x)
-----------------------------------------------------------------------------
\* What comments in the code say, and the code does not do.

\* eventWatcherRegistry: "registry for keeping track of running event watcher goroutines".
\* Between two Reconciles, a watcher that runs and is not told to stop is registered.
RunningRegistered ==
  rec.pc = "idle" =>
    \A x \in Watcher : Running(x) /\ ~w[x].cancelled /\ w[x].pc # "close" => reg = x

\* getEvents: "we've encountered too many errors and need to close this watcher and requeue the
\* resource".  The requeued object gets a watcher again, also when nothing else requeues it.
WatcherReplaced ==
  \A x \in Watcher :
    w[x].pc = "requeue" /\ ~w[x].cancelled ~>
      obj.st # "present" \/ ~obj.inst \/ \E y \in Watcher : Running(y) /\ w[y].pc = "stream"

\* VaultStaticSecretSpec: a rollout-restart is triggered "for each target whenever the Vault
\* secret changes between reconciliation events".
RestartOnChange ==
  [][rec.pc = "sync" /\ rec'.pc = "watch" /\ dest \notin {None, 0} /\ dest' # dest
       => rec'.restart]_vars
=============================================================================
