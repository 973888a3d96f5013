------------------------- MODULE VaultDynamicSecret -------------------------
(***************************************************************************)
(* The VaultDynamicSecret controller                                       *)
(* (controllers/vaultdynamicsecret_controller.go) for one object that does *)
(* not use static credentials, with what feeds and follows its Reconcile:  *)
(* the work queue and its delayed requests, the informer's possibly stale  *)
(* copy of the object, the predicates and event handlers                   *)
(* (controllers/predicates.go, eventhandlers.go), the SyncRegistry         *)
(* (registry.go), the client callback, the destination Secret              *)
(* (helpers/secrets.go) and Vault's leases.  Restarts lose the queue, the  *)
(* registry and the running reconcile.                                     *)
(***************************************************************************)
EXTENDS Integers

CONSTANTS
  Lease,        \* lease identifiers
  None,
  Creates,      \* the values of spec.destination.create to consider, a subset of BOOLEAN
  Kinds,        \* the leases Vault issues, a subset of {"renewable", "fixed", "endless"}
  MaxGen, MaxAnn, MaxTrans,  \* bounds on spec, metadata and SecretTransformation changes
  MaxTok,       \* bound on the Vault clients (by client ID) the factory goes through
  NewKey,       \* the clients that came with a new cache key, a subset of 2..MaxTok
  MaxRestarts,
  Events        \* what else may happen, a subset of AllEvents

AllEvents == {"notRenewable", "idChanged", "clientError", "syncError", "writeError",
              "readError", "revokeError", "delete", "destDelete", "destMeta"}

\* A SecretLease: "renewable", "fixed" (not renewable, with a duration) or "endless" (no
\* duration, and no spec.refreshAfter).
LeaseRec == [id: Lease, kind: {"renewable", "fixed", "endless"}]
\* The object, its status included.  tok 0: no client recorded; lastGen 0: never synced.
ObjRec == [st: {"present", "deleting", "gone"}, create: BOOLEAN, gen: 1..MaxGen, ann: 0..MaxAnn, fin: BOOLEAN,
           lastGen: 0..MaxGen, lease: LeaseRec \cup {None}, tok: 0..MaxTok, pod: 0..MaxRestarts]
\* The destination Secret: the credentials (lease, and the client that obtained them) and the
\* versions of the object and of the SecretTransformation they were rendered from.  One that the
\* user provided has none of them yet.
DestRec == [lease: LeaseRec \cup {None}, tok: 0..MaxTok, gen: 0..MaxGen, ann: 0..MaxAnn,
            trans: 0..MaxTrans]
\* A running Reconcile: its copy of the object, whether the destination existed, the client,
\* doSync, the new lease, the SecretTransformation it read, whether the event reason is
\* SecretRotated, doRolloutRestart, and what follows the status update.
RecRec == [pc: {"idle", "client", "window", "renew", "transform", "vault", "write", "status", "finalizer",
                "rollout", "revoke", "unfinalize"},
           o: ObjRec, exists: BOOLEAN, tok: 0..MaxTok, sync: BOOLEAN, lease: LeaseRec \cup {None},
           trans: 0..MaxTrans, rotated: BOOLEAN, restart: BOOLEAN,
           then: {"rollout", "requeue"}]

ASSUME VDSAssumption ==
  /\ None \notin Lease /\ Lease # {} /\ None \notin LeaseRec /\ None \notin DestRec
  /\ Creates \subseteq BOOLEAN
  /\ Kinds \subseteq {"renewable", "fixed", "endless"}
  /\ MaxGen \in Nat \ {0} /\ MaxAnn \in Nat /\ MaxTrans \in Nat
  /\ MaxTok \in Nat \ {0} /\ NewKey \subseteq 2..MaxTok
  /\ MaxRestarts \in Nat
  /\ Events \subseteq AllEvents

VARIABLES
  obj,       \* the object in Kubernetes
  cached,    \* the informer's copy
  dest,      \* the destination Secret, or None
  live,      \* the leases that Vault issued and that were not revoked
  tok,       \* the client that ClientFactory.Get returns
  trans,     \* the version of the SecretTransformation
  reg,       \* the object is in the SyncRegistry
  ref,       \* the referenceCache has the object as a referrer of its SecretTransformation
  queue,     \* the object is in the work queue
  timer,     \* a delayed or rate-limited request for it is pending
  cb,        \* the client callbacks in progress
  rec,       \* the running Reconcile
  pod        \* restarts so far: stands for the pod's UID

vars == <<obj, cached, dest, live, tok, trans, reg, ref, queue, timer, cb, rec, pod>>

TypeOK ==
  /\ obj \in ObjRec /\ cached \in ObjRec
  /\ dest \in DestRec \cup {None}
  /\ live \subseteq Lease
  /\ tok \in 1..MaxTok
  /\ trans \in 0..MaxTrans
  /\ reg \in BOOLEAN /\ ref \in BOOLEAN /\ queue \in BOOLEAN /\ timer \in BOOLEAN
  /\ cb \in [1..MaxTok -> {"none", "list", "send"}]
  /\ rec \in RecRec
  /\ pod \in 0..MaxRestarts

NewObj == [st |-> "present", create |-> TRUE, gen |-> 1, ann |-> 0, fin |-> FALSE, lastGen |-> 0, lease |-> None,
           tok |-> 0, pod |-> 0]
Idle == [pc |-> "idle", o |-> NewObj, exists |-> FALSE, tok |-> 0, sync |-> FALSE,
         lease |-> None, trans |-> 0, rotated |-> FALSE, restart |-> FALSE, then |-> "requeue"]

Init ==
  /\ \E create \in Creates : obj = [NewObj EXCEPT !.create = create]
  /\ cached = obj
  /\ dest = None /\ live = {}
  /\ tok = 1 /\ trans = 0
  /\ reg = FALSE /\ ref = FALSE /\ queue = TRUE /\ timer = FALSE
  /\ cb = [t \in 1..MaxTok |-> "none"]
  /\ rec = Idle
  /\ pod = 0

ProvidedDest == [lease |-> None, tok |-> 0, gen |-> 0, ann |-> 0, trans |-> 0]

world == <<dest, live, tok, trans>>          \* what Reconcile meets outside
events == <<cached, ref, queue, cb, pod>>        \* what it leaves to the event machinery
-----------------------------------------------------------------------------
\* Reconcile ends: with a RequeueAfter or an error, which has a later request added, or not.
Requeue == rec' = Idle /\ timer' = TRUE
Done == rec' = Idle /\ UNCHANGED timer

\* A request is taken, and the object read from the informer's copy; a present one is recorded
\* as a referrer of its SecretTransformation.
Begin ==
  /\ queue /\ rec.pc = "idle"
  /\ queue' = FALSE
  /\ ref' = (ref \/ cached.st = "present")
  /\ UNCHANGED <<obj, cached, reg, cb, pod>> /\ UNCHANGED world

BeginNotFound == Begin /\ cached.st = "gone" /\ Done

BeginDeleting ==
  /\ Begin
  /\ cached.st = "deleting"
  /\ rec' = [Idle EXCEPT !.pc = "revoke", !.o = cached]
  /\ UNCHANGED timer

\* The destination Secret is read from Kubernetes directly.  An error counts as its absence.
BeginPresent(exists) ==
  /\ Begin
  /\ cached.st = "present"
  /\ exists = (dest # None) \/ (~exists /\ "readError" \in Events)
  /\ IF ~cached.create /\ ~exists THEN Requeue
     ELSE rec' = [Idle EXCEPT !.pc = "client", !.o = cached, !.exists = exists] /\ UNCHANGED timer

KeyOf(t) == {u \in NewKey : u <= t}      \* the cache key of client t

\* Mutants: a new generation is not a reason to sync; a new client is not one.
SyncReasonAnyGen(o, t) ==
  \/ o.lastGen = 0 \/ reg \/ (o.create /\ ~rec.exists)
  \/ o.tok # 0 /\ (KeyOf(o.tok) # KeyOf(t) \/ o.tok # t)

SyncReasonAnyClient(o, t) ==
  o.lastGen = 0 \/ reg \/ o.gen # o.lastGen \/ (o.create /\ ~rec.exists)

\* The reasons to sync, in the order of the switch: never synced, in the SyncRegistry, a new
\* generation, no destination, another client configuration, another client.
SyncReason(o, t) ==
  \/ o.lastGen = 0
  \/ reg
  \/ o.gen # o.lastGen
  \/ o.create /\ ~rec.exists
  \/ o.tok # 0 /\ KeyOf(o.tok) # KeyOf(t)
  \/ o.tok # 0 /\ o.tok # t

Renewable(o) == o.lease # None /\ o.lease.kind = "renewable"

\* The client is obtained and the reasons to sync are evaluated.  Without any, an object that
\* was last handled by another pod has its renewal window checked first.
ClientGot ==
  /\ rec.pc = "client"
  /\ LET o == rec.o
         s == SyncReason(o, tok)
     IN  rec' = [rec EXCEPT !.tok = tok, !.exists = FALSE, !.sync = s, !.rotated = o.lastGen > 0,
                            !.pc = IF s THEN "transform"
                                   ELSE IF pod # o.pod THEN "window"
                                   ELSE IF Renewable(o) THEN "renew" ELSE "transform"]
  /\ UNCHANGED <<obj, reg, timer>> /\ UNCHANGED events /\ UNCHANGED world

ClientFailed ==
  /\ rec.pc = "client" /\ "clientError" \in Events
  /\ Requeue
  /\ UNCHANGED <<obj, reg>> /\ UNCHANGED events /\ UNCHANGED world

\* After a restart: outside the renewal window the status is updated and the renewal left to
\* a later request; inside it Reconcile goes on.
Window(inWindow) ==
  /\ rec.pc = "window"
  /\ rec' = IF inWindow
            THEN [rec EXCEPT !.pc = IF Renewable(rec.o) THEN "renew" ELSE "transform"]
            ELSE [rec EXCEPT !.pc = "status", !.lease = rec.o.lease, !.then = "requeue"]
  /\ UNCHANGED <<obj, reg, timer>> /\ UNCHANGED events /\ UNCHANGED world

\* The lease in the status is renewed ...
Renewed ==
  /\ rec.pc = "renew"
  /\ rec.o.lease.id \in live
  /\ rec' = [rec EXCEPT !.pc = "status", !.lease = rec.o.lease, !.then = "requeue"]
  /\ UNCHANGED <<obj, reg, timer>> /\ UNCHANGED events /\ UNCHANGED world

\* ... renewed for the last time: the answer says that it is not renewable any more ...
RenewedForTheLastTime ==
  /\ rec.pc = "renew" /\ "notRenewable" \in Events
  /\ rec.o.lease.id \in live
  /\ Done
  /\ UNCHANGED <<obj, reg>> /\ UNCHANGED events /\ UNCHANGED world

\* ... answered with another lease ID, which is an error ...
RenewedAnother ==
  /\ rec.pc = "renew" /\ "idChanged" \in Events
  /\ rec.o.lease.id \in live
  /\ Requeue
  /\ UNCHANGED <<obj, reg>> /\ UNCHANGED events /\ UNCHANGED world

\* ... or the renewal fails, truncates the duration, or finds no lease: the secret is synced,
\* though doSync stays as it was.
RenewFailed ==
  /\ rec.pc = "renew"
  /\ rec' = [rec EXCEPT !.pc = "transform"]
  /\ UNCHANGED <<obj, reg, timer>> /\ UNCHANGED events /\ UNCHANGED world

\* The SecretTransformation is read, or that fails.
TransformationRead ==
  /\ rec.pc = "transform"
  /\ rec' = [rec EXCEPT !.pc = "vault", !.trans = trans]
  /\ UNCHANGED <<obj, reg, timer>> /\ UNCHANGED events /\ UNCHANGED world

TransformationFailed ==
  /\ rec.pc = "transform" /\ "syncError" \in Events
  /\ Requeue
  /\ UNCHANGED <<obj, reg>> /\ UNCHANGED events /\ UNCHANGED world

\* Vault issues a lease.  An identifier that nothing refers to stands for a fresh one, and
\* whether it is still live is forgotten.  (With too few identifiers leases share them, which
\* only the properties about leases can tell.)
Fresh ==
  LET refs == {obj.lease, cached.lease, rec.o.lease} \cup (IF dest = None THEN {} ELSE {dest.lease})
      unused == {l \in Lease : \A r \in refs \ {None} : r.id # l}
  IN  IF unused = {} THEN Lease ELSE unused

VaultRead(kind) ==
  /\ rec.pc = "vault"
  /\ LET l == CHOOSE l \in Fresh : TRUE
     IN  /\ live' = (live \ Fresh) \cup {l}
         /\ rec' = [rec EXCEPT !.pc = "write", !.lease = [id |-> l, kind |-> kind]]
  /\ UNCHANGED <<obj, dest, tok, trans, reg, timer>> /\ UNCHANGED events

\* syncSecret's second result: TRUE after every sync of credentials that are not static.
staticCredsUpdated == TRUE

\* The destination Secret is created or updated (SyncSecret).
DestWritten ==
  /\ rec.pc = "write" /\ (rec.o.create \/ dest # None)
  /\ dest' = [lease |-> rec.lease, tok |-> rec.tok, gen |-> rec.o.gen, ann |-> rec.o.ann,
              trans |-> rec.trans]
  /\ rec' = [rec EXCEPT !.pc = "status", !.then = "rollout",
                         !.restart = (rec.sync /\ rec.o.lastGen > 1) \/ staticCredsUpdated]
  /\ UNCHANGED <<obj, live, tok, trans, reg, timer>> /\ UNCHANGED events

\* Mutant: a failed sync is not retried.
SyncFailedForGood ==
  /\ rec.pc \in {"vault", "write"}
  /\ "syncError" \in Events \/ (rec.pc = "write" /\ ~rec.o.create /\ dest = None)
  /\ reg' = TRUE
  /\ Done
  /\ UNCHANGED obj /\ UNCHANGED events /\ UNCHANGED world

\* syncSecret fails, reading from Vault or writing the destination: the object is put in the
\* SyncRegistry and retried after a back-off (which by default never stops).
SyncFailed ==
  /\ rec.pc \in {"vault", "write"}
  /\ "syncError" \in Events \/ (rec.pc = "write" /\ ~rec.o.create /\ dest = None)
  /\ reg' = TRUE
  /\ Requeue
  /\ UNCHANGED obj /\ UNCHANGED events /\ UNCHANGED world
-----------------------------------------------------------------------------
\* updateStatus.

\* The object Reconcile writes, from its copy.
NewStatus == [rec.o EXCEPT !.lastGen = rec.o.gen, !.lease = rec.lease, !.tok = rec.tok, !.pod = pod]
AfterStatus == IF rec.o.fin THEN rec.then ELSE "finalizer"

\* What follows updateStatus: the end of a sync, or the RequeueAfter of a renewal or of the
\* window check.
Continue(pc, o) ==
  IF pc = "requeue" THEN Requeue ELSE rec' = [rec EXCEPT !.pc = pc, !.o = o] /\ UNCHANGED timer

\* The status is written when the copy is the current version of the object.
StatusWritten ==
  /\ rec.pc = "status"
  /\ rec.o = obj
  /\ obj' = NewStatus
  /\ Continue(AfterStatus, NewStatus)
  /\ UNCHANGED reg /\ UNCHANGED events /\ UNCHANGED world

\* Any failure, the conflict of a changed object included, is reported as an event only.
StatusFailed ==
  /\ rec.pc = "status"
  /\ rec.o # obj \/ "writeError" \in Events
  /\ Continue(AfterStatus, rec.o)
  /\ UNCHANGED <<obj, reg>> /\ UNCHANGED events /\ UNCHANGED world

\* The finalizer is added to an object that has none.
FinalizerAdded ==
  /\ rec.pc = "finalizer"
  /\ rec.o = obj
  /\ obj' = [obj EXCEPT !.fin = TRUE]
  /\ Continue(rec.then, obj')
  /\ UNCHANGED reg /\ UNCHANGED events /\ UNCHANGED world

FinalizerFailed ==
  /\ rec.pc = "finalizer"
  /\ rec.o # obj \/ "writeError" \in Events
  /\ Requeue
  /\ UNCHANGED <<obj, reg>> /\ UNCHANGED events /\ UNCHANGED world

\* The end of a sync: the rollout-restart targets are restarted, the SyncRegistry entry is
\* deleted, and a request is left for the horizon of the lease, unless that is zero.
Synced ==
  /\ rec.pc = "rollout"
  /\ reg' = FALSE
  /\ IF rec.lease.kind = "endless" THEN Done ELSE Requeue
  /\ UNCHANGED obj /\ UNCHANGED events /\ UNCHANGED world
-----------------------------------------------------------------------------
\* handleDeletion.

\* Mutant: the lease is not revoked.
RevokeLeaseSkipped(ok) ==
  /\ rec.pc = "revoke"
  /\ UNCHANGED live
  /\ reg' = FALSE
  /\ IF rec.o.fin THEN rec' = [rec EXCEPT !.pc = "unfinalize"] /\ UNCHANGED timer ELSE Done
  /\ ref' = FALSE
  /\ UNCHANGED <<obj, dest, tok, trans, cached, queue, cb, pod>>

\* The lease in the status is revoked; a failure is ignored.
RevokeLease(ok) ==
  /\ rec.pc = "revoke"
  /\ ok \/ "revokeError" \in Events
  /\ live' = IF ok /\ rec.o.lease # None THEN live \ {rec.o.lease.id} ELSE live
  /\ reg' = FALSE
  /\ IF rec.o.fin THEN rec' = [rec EXCEPT !.pc = "unfinalize"] /\ UNCHANGED timer ELSE Done
  /\ ref' = FALSE
  /\ UNCHANGED <<obj, dest, tok, trans, cached, queue, cb, pod>>

FinalizerRemoved ==
  /\ rec.pc = "unfinalize"
  /\ rec.o = obj
  /\ obj' = [obj EXCEPT !.st = "gone"]
  /\ Done
  /\ UNCHANGED reg /\ UNCHANGED events /\ UNCHANGED world

FinalizerKept ==
  /\ rec.pc = "unfinalize"
  /\ rec.o # obj \/ "writeError" \in Events
  /\ Requeue
  /\ UNCHANGED <<obj, reg>> /\ UNCHANGED events /\ UNCHANGED world
-----------------------------------------------------------------------------
\* The event machinery.

\* The informer delivers the object's current version.  A new generation (a deletion is one)
\* passes the first predicate; otherwise changed annotations or labels put the object in the
\* SyncRegistry and have it queued.  Status changes are filtered out.
InformerDelivers ==
  /\ cached # obj
  /\ cached' = obj
  /\ LET newGen == cached.gen # obj.gen \/ cached.st # obj.st
         newAnn == cached.ann # obj.ann
     IN  /\ queue' = (queue \/ newGen \/ newAnn)
         /\ reg' = (reg \/ (newAnn /\ ~newGen))
  /\ UNCHANGED <<obj, ref, timer, cb, rec, pod>> /\ UNCHANGED world

TimerFires ==
  /\ timer
  /\ timer' = FALSE /\ queue' = TRUE
  /\ UNCHANGED <<obj, cached, reg, ref, cb, rec, pod>> /\ UNCHANGED world

\* vaultClientCallback for client t: the objects of the informer that were synced with a
\* client of the same key go into the SyncRegistry ...
CallbackLists(t) ==
  /\ cb[t] = "list"
  /\ LET match == cached.st # "gone" /\ cached.tok # 0 /\ KeyOf(cached.tok) = KeyOf(t)
     IN  /\ reg' = (reg \/ match)
         /\ cb' = [cb EXCEPT ![t] = IF match THEN "send" ELSE "none"]
  /\ UNCHANGED <<obj, cached, ref, queue, timer, rec, pod>> /\ UNCHANGED world

\* ... and then through the source channel, whose handler delays the request.
CallbackSends(t) ==
  /\ cb[t] = "send"
  /\ cb' = [cb EXCEPT ![t] = "none"]
  /\ timer' = TRUE
  /\ UNCHANGED <<obj, cached, reg, ref, queue, rec, pod>> /\ UNCHANGED world

\* The SecretTransformation changes: its referrers, as recorded by Reconcile since the
\* last restart, go into the SyncRegistry and are queued with a delay.
TransformationChanged ==
  /\ trans < MaxTrans
  /\ trans' = trans + 1
  /\ reg' = (reg \/ ref) /\ timer' = (timer \/ ref)
  /\ UNCHANGED <<obj, dest, live, tok, rec>> /\ UNCHANGED events

\* The destination Secret is deleted: its owner is queued with a delay.
DestDeleted ==
  /\ "destDelete" \in Events /\ dest # None
  /\ dest' = None
  /\ timer' = (timer \/ obj.create)  \* only a Secret that was created has an owner reference
  /\ UNCHANGED <<obj, live, tok, trans, reg, rec>> /\ UNCHANGED events

\* A Secret that the operator is not to create is provided by the user.
DestProvided ==
  /\ ~obj.create /\ dest = None
  /\ dest' = ProvidedDest
  /\ UNCHANGED <<obj, live, tok, trans, reg, timer, rec>> /\ UNCHANGED events

\* Labels or annotations of a Secret with the object's name change: the controller's event
\* filter puts that name in the SyncRegistry, and the Secret predicate then drops the event.
SecretMetaChanged ==
  /\ "destMeta" \in Events /\ dest # None /\ ~reg
  /\ reg' = TRUE
  /\ UNCHANGED <<obj, timer, rec>> /\ UNCHANGED events /\ UNCHANGED world
-----------------------------------------------------------------------------
\* The environment.

SpecChanged ==
  /\ obj.st = "present" /\ obj.gen < MaxGen
  /\ obj' = [obj EXCEPT !.gen = @ + 1]
  /\ UNCHANGED <<reg, timer, rec>> /\ UNCHANGED events /\ UNCHANGED world

MetaChanged ==
  /\ obj.st = "present" /\ obj.ann < MaxAnn
  /\ obj' = [obj EXCEPT !.ann = @ + 1]
  /\ UNCHANGED <<reg, timer, rec>> /\ UNCHANGED events /\ UNCHANGED world

ObjDeleted ==
  /\ "delete" \in Events /\ obj.st = "present"
  /\ obj' = [obj EXCEPT !.st = IF obj.fin THEN "deleting" ELSE "gone"]
  /\ UNCHANGED <<reg, timer, rec>> /\ UNCHANGED events /\ UNCHANGED world

\* The factory's client is replaced, by one with the same or another key.  Its callbacks are
\* started unless it left the cache by eviction.
ClientReplaced(notified) ==
  /\ tok < MaxTok
  /\ tok' = tok + 1
  /\ cb' = IF notified THEN [cb EXCEPT ![tok] = "list"] ELSE cb
  /\ UNCHANGED <<obj, cached, dest, live, trans, reg, ref, queue, timer, rec, pod>>

\* The operator restarts at any point; the initial list has every object queued.
Restart ==
  /\ pod < MaxRestarts
  /\ pod' = pod + 1
  /\ cached' = obj
  /\ reg' = FALSE /\ ref' = FALSE /\ queue' = TRUE /\ timer' = FALSE
  /\ cb' = [t \in 1..MaxTok |-> "none"]
  /\ rec' = Idle
  /\ UNCHANGED obj /\ UNCHANGED world
-----------------------------------------------------------------------------
Reconcile ==
  \/ BeginNotFound \/ BeginDeleting \/ \E exists \in BOOLEAN : BeginPresent(exists)
  \/ ClientGot \/ ClientFailed
  \/ \E inWindow \in BOOLEAN : Window(inWindow)
  \/ Renewed \/ RenewedForTheLastTime \/ RenewedAnother \/ RenewFailed
  \/ TransformationRead \/ TransformationFailed
  \/ \E kind \in Kinds : VaultRead(kind)
  \/ DestWritten \/ SyncFailed
  \/ StatusWritten \/ StatusFailed \/ FinalizerAdded \/ FinalizerFailed \/ Synced
  \/ \E ok \in BOOLEAN : RevokeLease(ok)
  \/ FinalizerRemoved \/ FinalizerKept

Callback == \E t \in 1..MaxTok : CallbackLists(t) \/ CallbackSends(t)

Next ==
  \/ Reconcile
  \/ InformerDelivers \/ TimerFires
  \/ Callback
  \/ TransformationChanged \/ DestDeleted \/ DestProvided \/ SecretMetaChanged
  \/ SpecChanged \/ MetaChanged \/ ObjDeleted
  \/ \E notified \in BOOLEAN : ClientReplaced(notified)
  \/ Restart

Spec == Init /\ [][Next]_vars

\* The operator's goroutines run, delayed requests come due, and Vault and Kubernetes do not
\* refuse the same request forever.
Fairness ==
  /\ WF_vars(Reconcile) /\ WF_vars(InformerDelivers) /\ WF_vars(TimerFires) /\ WF_vars(Callback)
  /\ SF_vars(ClientGot) /\ SF_vars(TransformationRead)
  /\ SF_vars(\E kind \in Kinds : VaultRead(kind)) /\ SF_vars(DestWritten)
  /\ SF_vars(StatusWritten) /\ SF_vars(FinalizerAdded) /\ SF_vars(FinalizerRemoved)

LiveSpec == Spec /\ Fairness
-----------------------------------------------------------------------------
\* Nothing is running, queued, delayed or to be delivered for the object.
Quiet == rec.pc = "idle" /\ ~queue /\ ~timer /\ cached = obj

\* An object is never forgotten: when nothing is running or pending for it, it is gone, or its
\* destination holds credentials that do not end.  Every error return, conflict and horizon,
\* the deletion of the destination and a deletion that fails leave a later request.  Nothing
\* watches a destination that the user provides and takes away or replaces.  (A renewal that
\* ends the lease's renewability, the event "notRenewable", is the exception.)
NeverForgotten ==
  Quiet => \/ obj.st = "gone"
           \/ /\ obj.st = "present"
              /\ IF dest = None \/ dest.lease = None THEN ~obj.create
                 ELSE dest.lease.kind = "endless"

\* The finalizer is removed only after the lease that the status records was revoked, even
\* when the deletion was reconciled from a stale copy (as long as Vault does not fail).
DeletionRevokes ==
  [][obj.st = "deleting" /\ obj'.st = "gone" /\ obj.lease # None => obj.lease.id \notin live]_vars

\* Every generation of the spec reaches the destination, unless the object is deleted.
GenerationSynced ==
  \A g \in 1..MaxGen :
    obj.gen = g ~> obj.st # "present" \/ (dest # None /\ dest.gen >= g)

\* The credentials follow the client: when the client is replaced, with or without a callback,
\* the destination gets credentials that were obtained with the new one or a later one, unless
\* nothing is due for the object any more (see NeverForgotten).
CredentialsFollowClient ==
  \A t \in 1..MaxTok :
    tok = t ~> obj.st # "present" \/ (dest # None /\ dest.tok >= t) \/ Quiet
-----------------------------------------------------------------------------
\* What comments in the code say, and the code does not do.

\* SyncRegistry: "When an object is found in the registry it must be synced by the
\* corresponding secret controller".  A request made through the registry, by a change of the
\* metadata or of the SecretTransformation, leaves it when the destination was rendered from
\* what the request was made for.
RequestAnswered ==
  [][reg /\ ~reg' /\ cached.st = "present" /\ pod' = pod =>
       dest # None /\ dest.ann >= cached.ann /\ dest.trans = trans]_vars

\* Reconcile: "The resource will periodically be reconciled to renew the dynamic secrets lease
\* in Vault".  The lease that a later Reconcile renews is the one of the credentials in the
\* destination.
RenewsDestination ==
  rec.pc = "renew" /\ dest # None /\ rec.o = obj => rec.o.lease = dest.lease

\* handleDeletion: "revoking any associated outstanding leases".  The credentials in the
\* destination end with the object.
DestinationRevoked ==
  [][obj.st = "deleting" /\ obj'.st = "gone" /\ dest # None => dest.lease.id \notin live]_vars

\* Reconcile: "If a secret rotation occurs and the resource has RolloutRestartTargets
\* configured, then a request to "rollout restart" the configured Deployment, StatefulSet,
\* ReplicaSet will be made".  A first sync is no rotation, and restarts nothing.
RestartOnRotation == rec.pc = "rollout" /\ rec.restart => rec.rotated
=============================================================================
