------------------------- MODULE HCPVaultSecretsApp -------------------------
(***************************************************************************)
(* The HCPVaultSecretsApp controller                                       *)
(* (controllers/hcpvaultsecretsapp_controller.go) for one name: an app of  *)
(* HCP Vault Secrets (HVS) with static secrets and a dynamic one, whose    *)
(* opened credentials are written to the destination and kept in a shadow  *)
(* Secret until they are due.  The object may be deleted and created again *)
(* under its name, and the operator restarted anywhere.                    *)
(***************************************************************************)
EXTENDS Naturals

CONSTANTS
  Cred,         \* credentials HVS opens, enough for one to be unused at any time
  None,
  Refreshes,    \* whether spec.refreshAfter is set, a subset of BOOLEAN
  MaxChanges,   \* bound on changes of the app's secrets and of the spec, and on recreations
  MaxFaults     \* bound on failures, restarts and the user's changes of Secrets

Version == 0..MaxChanges + 1    \* of the app's secrets; 0: there is none
Uid == 1..MaxChanges + 1        \* the incarnations of the object

\* Opened credentials, with the version of the dynamic secret and the object they were opened for.
CredRec == [id: Cred, ver: Version, uid: Uid]
\* What the destination is built from; kv 0: it was edited.  A MAC stands for it.
DataRec == [kv: Version, cred: CredRec \cup {None}]
DestRec == [data: DataRec, gen: 1..MaxChanges + 1, uid: Uid]
\* The shadow Secret: valid says that its MAC is that of its data, uid is in its labels.
ShadowRec == [cred: CredRec, uid: Uid, valid: BOOLEAN]
ObjRec == [st: {"present", "deleting", "gone"}, uid: Uid, refresh: Refreshes,
           gen: 1..MaxChanges + 1, fin: BOOLEAN, lastGen: 0..MaxChanges + 1,
           mac: DataRec \cup {None}]
\* A running Reconcile: its copy of the object, the static secrets it read and the
\* credentials it is to write.
RecRec == [pc: {"idle", "list", "open", "build", "sync", "store", "create",
                "status", "finalizer", "unshadow", "unfinalize"},
           o: ObjRec, kv: Version, cred: CredRec \cup {None}]

ASSUME HCPAssumption ==
  /\ Cred # {} /\ Refreshes \subseteq BOOLEAN /\ Refreshes # {}
  /\ MaxChanges \in Nat /\ MaxFaults \in Nat
  /\ \A S \in {CredRec, DataRec, DestRec, ShadowRec} : None \notin S

VARIABLES
  obj,       \* the object in Kubernetes
  cached,    \* the informer's copy
  app,       \* the versions of the app's static and dynamic secrets in HVS
  due,       \* the credentials whose time for renewal has come
  dest,      \* the destination Secret, or None
  shadow,    \* the shadow Secret, or None
  queue,     \* the object is in the work queue
  timer,     \* a delayed or rate-limited request for it is pending
  gaveUp,    \* the last Reconcile did not store the shadow Secret, and left no request
  rec, changes, faults

vars == <<obj, cached, app, due, dest, shadow, queue, timer, gaveUp, rec, changes, faults>>

NewObj(u, r) == [st |-> "present", uid |-> u, refresh |-> r, gen |-> 1, fin |-> FALSE,
                 lastGen |-> 0, mac |-> None]
Idle(o) == [pc |-> "idle", o |-> o, kv |-> 0, cred |-> None]
Nothing == Idle(NewObj(1, CHOOSE r \in Refreshes : TRUE))

Init ==
  /\ \E r \in Refreshes : obj = NewObj(1, r)
  /\ cached = obj
  /\ app = [kv |-> 1, dyn |-> 1] /\ due = {}
  /\ dest = None /\ shadow = None
  /\ queue = TRUE /\ timer = FALSE /\ gaveUp = FALSE
  /\ rec = Nothing
  /\ changes = 0 /\ faults = 0

Fault == faults < MaxFaults /\ faults' = faults + 1
Answered(ok) == IF ok THEN UNCHANGED faults ELSE Fault

\* Reconcile returns with RequeueAfter or an error, which both leave a later request, or without.
Requeue == rec' = Nothing /\ timer' = TRUE
Done == rec' = Nothing /\ UNCHANGED timer
Goto(pc) == rec' = [rec EXCEPT !.pc = pc] /\ UNCHANGED timer

world == <<app, due, changes>>
events == <<cached, queue>>
-----------------------------------------------------------------------------
\* A request is taken and the object read from the informer's copy.  Unless it is to be deleted,
\* the SecretTransformation is set up, the HVS client configured and the static secrets fetched.
Begin ==
  /\ queue /\ rec.pc = "idle"
  /\ queue' = FALSE /\ gaveUp' = FALSE
  /\ rec' = CASE cached.st = "gone" -> Nothing
              [] cached.st = "deleting" -> [Idle(cached) EXCEPT !.pc = "unshadow"]
              [] cached.st = "present" -> [Idle(cached) EXCEPT !.pc = "list", !.kv = app.kv]
  /\ UNCHANGED <<obj, cached, dest, shadow, timer, faults, world>>

\* (The mutant does not look at the labels.)
UsableAnyLabels(s, o) == s # None /\ s.valid
\* The shadow Secret is used if its MAC is right and its labels are the object's, ...
Usable(s, o) == s # None /\ s.valid /\ s.uid = o.uid

\* ... and Reconcile goes on without it if not, or if reading it fails.
getShadowSecretData(ok) == IF ok /\ Usable(shadow, rec.o) THEN shadow.cred ELSE None

\* The dynamic secret is listed.  Shadowed credentials are used again until they are due, or the
\* secret's version has changed.
Reused(c) == c # None /\ c.id \notin due /\ c.ver = app.dyn

getHVSDynamicSecrets(ok) ==
  LET c == getShadowSecretData(ok) IN
  /\ rec.pc = "list"
  /\ Answered(ok)
  /\ rec' = IF app.dyn = 0 THEN [rec EXCEPT !.pc = "build"]
            ELSE IF Reused(c) THEN [rec EXCEPT !.pc = "build", !.cred = c]
            ELSE [rec EXCEPT !.pc = "open"]
  /\ UNCHANGED <<obj, dest, shadow, timer, gaveUp, world, events>>

\* An identifier that nothing refers to stands for a new one.
IdOf(c) == IF c = None THEN {} ELSE {c.id}
Fresh == Cred \ (IdOf(rec.cred)
                   \cup (IF dest = None THEN {} ELSE IdOf(dest.data.cred))
                   \cup (IF shadow = None THEN {} ELSE IdOf(shadow.cred))
                   \cup UNION {IF o.mac = None THEN {} ELSE IdOf(o.mac.cred)
                               : o \in {obj, cached, rec.o}})

\* HVS opens new credentials, unless the secret was deleted meanwhile (404): then it is skipped.
OpenAppSecret ==
  LET c == CHOOSE c \in Fresh : TRUE IN
  /\ rec.pc = "open" /\ Fresh # {}
  /\ due' = due \ Fresh
  /\ rec' = [rec EXCEPT !.pc = "build",
                        !.cred = IF app.dyn = 0 THEN None
                                 ELSE [id |-> c, ver |-> app.dyn, uid |-> rec.o.uid]]
  /\ UNCHANGED <<obj, app, dest, shadow, timer, gaveUp, changes, faults, events>>

Data == [kv |-> rec.kv, cred |-> rec.cred]

\* The data are built, and compared with the MAC of the status and with the destination, unless
\* the spec has changed.
doSync ==
  IF rec.o.lastGen \in {0, rec.o.gen}
    THEN ~(rec.o.mac = Data /\ dest # None /\ dest.data = Data)
    ELSE TRUE

HandleSecretHMAC ==
  /\ rec.pc = "build"
  /\ Goto(IF doSync THEN "sync" ELSE "status")
  /\ UNCHANGED <<obj, dest, shadow, gaveUp, faults, world, events>>

\* Until here, and in SyncSecret, a failure leads to another attempt.
Failed ==
  /\ rec.pc \in {"list", "open", "build", "sync"} /\ Fault
  /\ Requeue
  /\ UNCHANGED <<obj, dest, shadow, gaveUp, world, events>>

\* SyncSecret, which refuses a destination that an earlier object of the name still owns.
SyncSecret ==
  /\ rec.pc = "sync"
  /\ IF dest # None /\ dest.uid # rec.o.uid
       THEN Requeue /\ UNCHANGED dest
       ELSE /\ dest' = [data |-> Data, gen |-> rec.o.gen, uid |-> rec.o.uid]
            /\ Goto("store")
  /\ UNCHANGED <<obj, shadow, gaveUp, faults, world, events>>

NewShadow == [cred |-> rec.cred, uid |-> rec.o.uid, valid |-> TRUE]

\* (The mutant leaves a shadow Secret that exists as it is.)
StoreShadowOnce ==
  /\ rec.pc = "store"
  /\ shadow' = IF rec.cred = None THEN None ELSE IF shadow = None THEN NewShadow ELSE shadow
  /\ Goto("status")
  /\ UNCHANGED <<obj, dest, gaveUp, faults, world, events>>
\* storeShadowSecretData: deleted if there is nothing to keep, created, ...
StoreShadow ==
  /\ rec.pc = "store"
  /\ \/ rec.cred = None /\ shadow' = None /\ Goto("status")
     \/ rec.cred # None /\ shadow = None /\ shadow' = NewShadow /\ Goto("status")
     \/ rec.cred # None /\ shadow # None /\ shadow' = None /\ Goto("create")
  /\ UNCHANGED <<obj, dest, gaveUp, faults, world, events>>

\* ... or deleted and created again, since it is immutable.
RecreateShadow ==
  /\ rec.pc = "create"
  /\ shadow' = NewShadow
  /\ Goto("status")
  /\ UNCHANGED <<obj, dest, gaveUp, faults, world, events>>

\* A failure of it ends Reconcile without an error, a status update or a later request.
StoreFailed ==
  /\ rec.pc \in {"store", "create"} /\ Fault
  /\ gaveUp' = TRUE
  /\ Done
  /\ UNCHANGED <<obj, dest, shadow, world, events>>

\* updateStatus: a failure is only reported as an event; then the finalizer is added.
NewStatus == [rec.o EXCEPT !.mac = Data, !.lastGen = rec.o.gen]
\* A later request is left for spec.refreshAfter and for the renewal of dynamic credentials.
\* (The mutant thinks of spec.refreshAfter only.)
FollowRefresh == IF rec.o.refresh THEN Requeue ELSE Done
Follow == IF rec.o.refresh \/ rec.cred # None THEN Requeue ELSE Done

UpdateStatus ==
  /\ rec.pc = "status"
  /\ obj' = IF rec.o = obj THEN NewStatus ELSE obj
  /\ IF rec.o.fin THEN Follow
     ELSE /\ rec' = [rec EXCEPT !.pc = "finalizer",
                                !.o = IF rec.o = obj THEN NewStatus ELSE rec.o]
          /\ UNCHANGED timer
  /\ UNCHANGED <<dest, shadow, gaveUp, faults, world, events>>

StatusFailed ==
  /\ rec.pc = "status" /\ Fault
  /\ IF rec.o.fin THEN Follow ELSE Goto("finalizer")
  /\ UNCHANGED <<obj, dest, shadow, gaveUp, world, events>>

\* An update is accepted when the copy is the object's current version.
AddFinalizer ==
  /\ rec.pc = "finalizer" /\ rec.o = obj
  /\ obj' = [obj EXCEPT !.fin = TRUE]
  /\ Follow
  /\ UNCHANGED <<dest, shadow, gaveUp, faults, world, events>>

\* handleDeletion: a shadow Secret that cannot be deleted is left ...
DeleteShadow(ok) ==
  /\ rec.pc = "unshadow"
  /\ Answered(ok)
  /\ shadow' = IF ok THEN None ELSE shadow
  /\ Goto("unfinalize")
  /\ UNCHANGED <<obj, dest, gaveUp, world, events>>

\* ... and the finalizer is removed.
RemoveFinalizer ==
  /\ rec.pc = "unfinalize" /\ rec.o = obj
  /\ obj' = [obj EXCEPT !.fin = FALSE, !.st = "gone"]
  /\ Done
  /\ UNCHANGED <<dest, shadow, gaveUp, faults, world, events>>

FinalizerFailed ==
  /\ rec.pc \in {"finalizer", "unfinalize"}
  /\ Answered(rec.o # obj)
  /\ Requeue
  /\ UNCHANGED <<obj, dest, shadow, gaveUp, world, events>>
-----------------------------------------------------------------------------
\* What goes on around Reconcile.
here == <<dest, shadow, gaveUp, rec>>

TimerFires ==
  /\ timer
  /\ timer' = FALSE /\ queue' = TRUE
  /\ UNCHANGED <<obj, cached, faults, world, here>>

\* The informer's copy catches up; changes of the spec and deletions pass the predicates.
Informed ==
  /\ cached # obj
  /\ cached' = obj
  /\ queue' = (queue \/ obj.gen # cached.gen \/ obj.st # cached.st \/ obj.uid # cached.uid)
  /\ UNCHANGED <<obj, timer, faults, world, here>>

Change == changes < MaxChanges /\ changes' = changes + 1

SpecChanged ==
  /\ Change /\ obj.st = "present" /\ obj.gen <= MaxChanges
  /\ obj' = [obj EXCEPT !.gen = @ + 1]
  /\ UNCHANGED <<timer, faults, app, due, events, here>>

ObjDeleted ==
  /\ Change /\ obj.st = "present"
  /\ obj' = [obj EXCEPT !.st = IF obj.fin THEN "deleting" ELSE "gone"]
  /\ UNCHANGED <<timer, faults, app, due, events, here>>

ObjRecreated ==
  /\ obj.st = "gone" /\ obj.uid <= MaxChanges
  /\ obj' = NewObj(obj.uid + 1, obj.refresh)
  /\ UNCHANGED <<timer, faults, world, events, here>>

\* The static secrets change, the dynamic one does, is deleted or created again.
AppChanged ==
  /\ Change
  /\ \/ app' = [app EXCEPT !.kv = changes + 2]
     \/ app' = [app EXCEPT !.dyn = IF @ = 0 THEN changes + 2 ELSE 0]
     \/ app.dyn # 0 /\ app' = [app EXCEPT !.dyn = changes + 2]
  /\ UNCHANGED <<obj, due, timer, faults, events, here>>

\* Time passes.  Credentials live longer than a Reconcile takes.
RenewalDue ==
  LET c == dest.data.cred IN
  /\ rec.pc = "idle" /\ dest # None /\ c # None /\ c.id \notin due
  /\ due' = due \cup {c.id}
  /\ UNCHANGED <<obj, app, timer, changes, faults, events, here>>

\* Kubernetes deletes the destination of an object that is gone, the user one that is not; both
\* are reported.  The user may edit Secrets.
DestDeleted ==
  /\ dest # None
  /\ Answered(obj.st = "gone" \/ dest.uid # obj.uid)
  /\ dest' = None /\ queue' = TRUE
  /\ UNCHANGED <<obj, cached, shadow, timer, gaveUp, rec, world>>

Orphaned == dest # None /\ (obj.st = "gone" \/ dest.uid # obj.uid)
GarbageCollected == Orphaned /\ DestDeleted

DestEdited ==
  /\ dest # None /\ dest.data.kv # 0 /\ Fault
  /\ dest' = [dest EXCEPT !.data = [kv |-> 0, cred |-> None]]
  /\ UNCHANGED <<obj, shadow, timer, gaveUp, rec, world, events>>

ShadowEdited ==
  /\ shadow # None /\ shadow.valid /\ Fault
  /\ shadow' = [shadow EXCEPT !.valid = FALSE]
  /\ UNCHANGED <<obj, dest, timer, gaveUp, rec, world, events>>

Restart ==
  /\ Fault
  /\ rec' = Nothing /\ timer' = FALSE /\ gaveUp' = FALSE
  /\ cached' = obj /\ queue' = TRUE
  /\ UNCHANGED <<obj, dest, shadow, world>>

Reconcile ==
  \/ Begin
  \/ \E ok \in BOOLEAN : getHVSDynamicSecrets(ok)
  \/ OpenAppSecret
  \/ HandleSecretHMAC
  \/ Failed
  \/ SyncSecret
  \/ StoreShadow
  \/ RecreateShadow
  \/ StoreFailed
  \/ UpdateStatus
  \/ StatusFailed
  \/ AddFinalizer
  \/ \E ok \in BOOLEAN : DeleteShadow(ok)
  \/ RemoveFinalizer
  \/ FinalizerFailed

Next ==
  \/ Reconcile
  \/ TimerFires
  \/ Informed
  \/ SpecChanged
  \/ ObjDeleted
  \/ ObjRecreated
  \/ AppChanged
  \/ RenewalDue
  \/ DestDeleted
  \/ DestEdited
  \/ ShadowEdited
  \/ Restart

Spec == Init /\ [][Next]_vars

\* A taken request is worked on, delayed requests come, the informer catches up, credentials get
\* old, and what an object that is gone owned is deleted.
LiveSpec ==
  /\ Spec
  /\ WF_vars(Reconcile) /\ WF_vars(TimerFires) /\ WF_vars(Informed) /\ WF_vars(RenewalDue)
  /\ WF_vars(GarbageCollected)
-----------------------------------------------------------------------------
TypeOK ==
  /\ obj \in ObjRec /\ cached \in ObjRec
  /\ app \in [kv: Version, dyn: Version] /\ due \subseteq Cred
  /\ dest \in DestRec \cup {None} /\ shadow \in ShadowRec \cup {None}
  /\ queue \in BOOLEAN /\ timer \in BOOLEAN /\ gaveUp \in BOOLEAN
  /\ rec \in RecRec
  /\ changes \in 0..MaxChanges /\ faults \in 0..MaxFaults

\* An object's destination never has the credentials that were opened for an earlier object of its
\* name, although the shadow Secret is found by that name and may outlive its object
\* (controllers/hcpvaultsecretsapp_controller.go:381-384, 442-453).
OwnCredentials ==
  dest # None /\ dest.data.cred # None => dest.data.cred.uid = dest.uid

\* Without failures, the credentials in the shadow Secret are those in the destination whenever no
\* Reconcile is running: what is used again is what the applications have
\* (controllers/hcpvaultsecretsapp_controller.go:251-272).
ShadowFollows ==
  rec.pc = "idle" /\ faults = 0 /\ dest # None /\ dest.uid = obj.uid /\ obj.st = "present"
    => IF dest.data.cred = None THEN shadow = None ELSE shadow # None /\ shadow.cred = dest.data.cred

\* As long as the object exists, its destination again and again has credentials that are not due,
\* for the current spec; with spec.refreshAfter also those of the current version, and the current
\* static secrets (controllers/hcpvaultsecretsapp_controller.go:177-247, 276-289).  (Except when
\* storing the shadow Secret failed, which is the end of reconciling.)
CredentialsRenewed ==
  []<>(\/ obj.st # "present" \/ gaveUp
       \/ /\ dest # None /\ dest.uid = obj.uid /\ dest.gen = obj.gen
          /\ dest.data.cred # None => dest.data.cred.id \notin due
          /\ obj.refresh => /\ dest.data.kv = app.kv
                            /\ IF app.dyn = 0 THEN dest.data.cred = None
                               ELSE dest.data.cred # None /\ dest.data.cred.ver = app.dyn)

\* "the shadow secret will just be recreated at the end of Reconcile()"
\* (controllers/hcpvaultsecretsapp_controller.go:182-184): again and again it can be used.
ShadowRecreated ==
  []<>(obj.st # "present" \/ app.dyn = 0 \/ Usable(shadow, obj))
=============================================================================
