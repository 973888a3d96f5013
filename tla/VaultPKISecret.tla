--------------------------- MODULE VaultPKISecret ---------------------------
(***************************************************************************)
(* The VaultPKISecret controller (controllers/vaultpkisecret_controller.go)*)
(* for one object: certificates that Vault issues, that are written to the *)
(* destination, recorded in the status, revoked and replaced, each by a    *)
(* request of its own that may fail, or be the last before a restart.      *)
(* Reconcile works on the informer's copy of the object.                   *)
(***************************************************************************)
EXTENDS Naturals

CONSTANTS
  Cert,         \* serial numbers of certificates, enough for one to be unused at any time
  None,
  Modes,        \* what a spec may ask for, a subset of Mode
  MaxChanges,   \* bound on changes of the spec, and of labels and annotations
  MaxFaults     \* bound on failures, restarts and the user's changes of the destination

\* spec.revoke, spec.clear, spec.destination.create
Mode == [revoke: BOOLEAN, clear: BOOLEAN, create: BOOLEAN]

\* The object.  serial, lastGen, mac: of its status; mac stands for the data it is the MAC of, and
\* is the serial of the certificate in these.  LastRotation is set when serial is.  finalized: it
\* is gone because its finalizer was removed.
ObjRec == [st: {"present", "deleting", "gone", "finalized"}, mode: Modes, gen: 1..MaxChanges + 1, ann: 0..MaxChanges,
           fin: BOOLEAN, lastGen: 0..MaxChanges + 1, serial: Cert \cup {None}, mac: Cert \cup {None}]
\* The data of the destination, with the generation and the metadata they were rendered for.
\* cert None: they are not, or no longer, as the operator wrote them.
DestRec == [cert: Cert \cup {None}, gen: 0..MaxChanges + 1, ann: 0..MaxChanges]

ASSUME PKIAssumption ==
  /\ Cert # {} /\ None \notin Cert /\ None \notin DestRec
  /\ Modes \subseteq Mode /\ Modes # {}
  /\ MaxChanges \in Nat /\ MaxFaults \in Nat

\* A running Reconcile: its copy of the object, the certificate it was issued, and what follows
\* updateStatus.
RecRec == [pc: {"idle", "client", "write", "revoke", "status", "finalizer", "unfinalize",
                "finalize", "clear"},
           o: ObjRec, cert: Cert \cup {None}, then: {"requeue", "register", "synced"}]

VARIABLES
  obj,       \* the object in Kubernetes
  cached,    \* the informer's copy
  dest,      \* the destination Secret, or None
  live,      \* the certificates issued and not revoked
  due,       \* the certificate in the status is in its renewal window
  reg,       \* the object is in the SyncRegistry
  queue,     \* the object is in the work queue
  timer,     \* a delayed or rate-limited request for it is pending
  rec,       \* the running Reconcile
  faults

vars == <<obj, cached, dest, live, due, reg, queue, timer, rec, faults>>

NewObj(m) == [st |-> "present", mode |-> m, gen |-> 1, ann |-> 0, fin |-> FALSE, lastGen |-> 0,
              serial |-> None, mac |-> None]
Idle(o) == [pc |-> "idle", o |-> o, cert |-> None, then |-> "requeue"]
Nothing == Idle(NewObj(CHOOSE m \in Modes : TRUE))

Init ==
  /\ \E m \in Modes : obj = NewObj(m)
  /\ cached = obj
  /\ dest = None /\ live = {} /\ due = FALSE
  /\ reg = FALSE /\ queue = TRUE /\ timer = FALSE
  /\ rec = Nothing
  /\ faults = 0

Fault == faults < MaxFaults /\ faults' = faults + 1
\* A request either is answered, or fails.
Answered(ok) == IF ok THEN UNCHANGED faults ELSE Fault

\* Reconcile returns with RequeueAfter or an error, which both leave a later request, or without.
Requeue == rec' = Nothing /\ timer' = TRUE
Done == rec' = Nothing /\ UNCHANGED timer
Goto(pc) == rec' = [rec EXCEPT !.pc = pc] /\ UNCHANGED timer
outside == <<cached, queue>>
-----------------------------------------------------------------------------
\* A request is taken and the object read from the informer's copy.
Begin == queue /\ rec.pc = "idle" /\ queue' = FALSE /\ UNCHANGED <<obj, cached, dest, live, due>>

BeginGone == Begin /\ cached.st \in {"gone", "finalized"} /\ Done /\ UNCHANGED <<reg, faults>>

\* An object in deletion has the finalizer: nobody else is taken to hold it.
BeginDeleting ==
  /\ Begin /\ cached.st = "deleting"
  /\ reg' = FALSE
  /\ rec' = [Idle(cached) EXCEPT !.pc = "unfinalize"]
  /\ UNCHANGED <<timer, faults>>

\* (The mutant forgets the renewal window.)
MustSyncOnce(o, exists, validated, inWindow) ==
  \/ o.serial = None
  \/ reg
  \/ o.gen # o.lastGen
  \/ o.mode.create /\ ~exists
  \/ exists /\ validated /\ dest.cert # o.mac
\* The reasons to sync, in the order of the code: no serial number, the SyncRegistry, a new
\* generation, no destination, a destination that drifted (unless the MAC could not be computed),
\* the renewal window.
MustSync(o, exists, validated, inWindow) ==
  \/ o.serial = None
  \/ reg
  \/ o.gen # o.lastGen
  \/ o.mode.create /\ ~exists
  \/ exists /\ validated /\ dest.cert # o.mac
  \/ inWindow

\* exists: CheckSecretExists, which takes an error for an absence; validated: HMACDestinationSecret
\* returned no error; transformed: so did NewSecretTransformationOption; inWindow: the certificate in
\* the copy is in its renewal window, which is left open for one that was replaced since.
BeginPresent(exists, validated, transformed, inWindow) ==
  LET o == cached IN
  /\ Begin /\ o.st = "present"
  /\ exists => dest # None
  /\ o.serial = obj.serial => inWindow = due
  /\ Answered(exists = (dest # None) /\ validated /\ transformed)
  /\ UNCHANGED reg
  /\ \/ /\ ~o.mode.create /\ ~exists
        /\ rec' = [Idle(o) EXCEPT !.pc = "status", !.then = "requeue"] /\ UNCHANGED timer
     \/ /\ o.mode.create \/ exists
        /\ IF transformed /\ MustSync(o, exists, validated, inWindow)
             THEN rec' = [Idle(o) EXCEPT !.pc = "client"] /\ UNCHANGED timer
             ELSE Requeue

ClientFailed ==
  /\ rec.pc = "client" /\ Fault
  /\ Requeue
  /\ UNCHANGED <<obj, dest, live, due, reg, outside>>

\* A serial number that nothing refers to stands for a new one.
Fresh == Cert \ ({obj.serial, obj.mac, cached.serial, cached.mac, rec.o.serial, rec.o.mac}
                   \cup (IF dest = None THEN {} ELSE {dest.cert}))

\* Vault issues a certificate.
Issued ==
  LET c == CHOOSE c \in Fresh : TRUE IN
  /\ rec.pc = "client" /\ Fresh # {}
  /\ live' = (live \ Fresh) \cup {c}
  /\ rec' = [rec EXCEPT !.pc = "write", !.cert = c]
  /\ UNCHANGED <<obj, dest, due, reg, timer, faults, outside>>

IssueFailed ==
  /\ rec.pc = "client" /\ Fault
  /\ rec' = [rec EXCEPT !.pc = "status", !.then = "register"]
  /\ UNCHANGED <<obj, dest, live, due, reg, timer, outside>>

\* The answer cannot be used: it does not parse, has no serial number, cannot be rendered, or its
\* MAC cannot be computed.
AnswerRefused ==
  /\ rec.pc = "write" /\ Fault
  /\ rec' = [rec EXCEPT !.pc = "status", !.then = "requeue"]
  /\ UNCHANGED <<obj, dest, live, due, reg, timer, outside>>

\* The status gets the MAC of the new data ...
WithMAC == [rec EXCEPT !.o.mac = rec.cert]
\* ... before they are written to the destination (SyncSecret), which fails when that was to exist
\* and does not.
DestWritten ==
  /\ rec.pc = "write" /\ (rec.o.mode.create \/ dest # None)
  /\ dest' = [cert |-> rec.cert, gen |-> rec.o.gen, ann |-> rec.o.ann]
  /\ rec' = [WithMAC EXCEPT !.pc = IF rec.o.mode.revoke /\ rec.o.serial # None
                                     THEN "revoke" ELSE "status",
                            !.then = "synced"]
  /\ UNCHANGED <<obj, live, due, reg, timer, faults, outside>>

DestFailed ==
  /\ rec.pc = "write"
  /\ Answered(~rec.o.mode.create /\ dest = None)
  /\ rec' = [WithMAC EXCEPT !.pc = "status", !.then = "requeue"]
  /\ UNCHANGED <<obj, dest, live, due, reg, timer, outside>>

\* (The mutant revokes the certificate that it is about to record.)
RevokedNew ==
  /\ rec.pc = "revoke"
  /\ live' = live \ {rec.cert}
  /\ Goto("status")
  /\ UNCHANGED <<obj, dest, due, reg, faults, outside>>
\* The certificate in the status is revoked.
Revoked ==
  /\ rec.pc = "revoke"
  /\ live' = live \ {rec.o.serial}
  /\ Goto("status")
  /\ UNCHANGED <<obj, dest, due, reg, faults, outside>>

\* The new certificate is not recorded then.
RevokeFailed ==
  /\ rec.pc = "revoke" /\ Fault
  /\ Requeue
  /\ UNCHANGED <<obj, dest, live, due, reg, outside>>
-----------------------------------------------------------------------------
\* updateStatus: the generation is recorded on every path.
NewStatus ==
  [rec.o EXCEPT !.lastGen = rec.o.gen,
                !.serial = IF rec.then = "synced" THEN rec.cert ELSE rec.o.serial]

\* What follows it: after a sync the SyncRegistry entry is deleted, after a failed request for a
\* certificate one is added, and each path ends with RequeueAfter.
Follow ==
  /\ reg' = (rec.then = "register" \/ (reg /\ rec.then # "synced"))
  /\ Requeue

\* An update is accepted when the copy is the object's current version.
StatusWritten ==
  /\ rec.pc = "status" /\ rec.o = [obj EXCEPT !.mac = rec.o.mac]
  /\ obj' = NewStatus
  /\ due' = (due /\ rec.then # "synced")
  /\ IF rec.o.fin THEN Follow
     ELSE rec' = [rec EXCEPT !.pc = "finalizer", !.o = obj'] /\ UNCHANGED <<timer, reg>>
  /\ UNCHANGED <<dest, live, faults, outside>>

StatusFailed ==
  /\ rec.pc = "status"
  /\ Answered(rec.o # [obj EXCEPT !.mac = rec.o.mac])
  /\ Requeue
  /\ UNCHANGED <<obj, dest, live, due, reg, outside>>

FinalizerAdded ==
  /\ rec.pc = "finalizer" /\ rec.o = obj
  /\ obj' = [obj EXCEPT !.fin = TRUE]
  /\ Follow
  /\ UNCHANGED <<dest, live, due, faults, outside>>

FinalizerFailed ==
  /\ rec.pc = "finalizer"
  /\ Answered(rec.o # obj)
  /\ Requeue
  /\ UNCHANGED <<obj, dest, live, due, reg, outside>>
-----------------------------------------------------------------------------
\* handleDeletion: the finalizer is removed first ...
FinalizerRemoved ==
  /\ rec.pc = "unfinalize" /\ rec.o = obj
  /\ obj' = [obj EXCEPT !.fin = FALSE, !.st = "finalized"]
  /\ Goto("finalize")
  /\ UNCHANGED <<dest, live, due, reg, faults, outside>>

FinalizerNotRemoved ==
  /\ rec.pc = "unfinalize"
  /\ Answered(rec.o # obj)
  /\ Requeue
  /\ UNCHANGED <<obj, dest, live, due, reg, outside>>

\* ... then finalizePKI revokes the certificate in the status, if that was asked for ...  (The
\* mutant is done after that.)
FinalizedUncleared ==
  /\ rec.pc = "finalize" /\ (rec.o.mode.revoke => rec.o.serial # None)
  /\ live' = IF rec.o.mode.revoke THEN live \ {rec.o.serial} ELSE live
  /\ Done
  /\ UNCHANGED <<obj, dest, due, reg, faults, outside>>
Finalized ==
  /\ rec.pc = "finalize" /\ (rec.o.mode.revoke => rec.o.serial # None)
  /\ live' = IF rec.o.mode.revoke THEN live \ {rec.o.serial} ELSE live
  /\ IF ~rec.o.mode.create /\ rec.o.mode.clear THEN Goto("clear") ELSE Done
  /\ UNCHANGED <<obj, dest, due, reg, faults, outside>>

\* ... and clears a destination that the user provided.
Cleared ==
  /\ rec.pc = "clear" /\ dest # None
  /\ dest' = [dest EXCEPT !.cert = None]
  /\ Done
  /\ UNCHANGED <<obj, live, due, reg, faults, outside>>

\* An error, the revocation of no certificate included, ends it and is only logged.
FinalizeFailed ==
  /\ \/ rec.pc = "finalize" /\ Answered(rec.o.mode.revoke /\ rec.o.serial = None)
     \/ rec.pc = "clear" /\ Answered(dest = None)
  /\ Done
  /\ UNCHANGED <<obj, dest, live, due, reg, outside>>
-----------------------------------------------------------------------------
\* What goes on around Reconcile.

TimerFires ==
  /\ timer
  /\ timer' = FALSE /\ queue' = TRUE
  /\ UNCHANGED <<obj, cached, dest, live, due, reg, rec, faults>>

\* The informer's copy catches up.  The predicates let changes of the spec, of labels and
\* annotations, and deletions through; a change of labels or annotations forces a sync.
Informed ==
  /\ cached # obj
  /\ cached' = obj
  /\ reg' = (reg \/ obj.ann # cached.ann)
  /\ queue' = (queue \/ obj.gen # cached.gen \/ obj.ann # cached.ann \/ obj.st # cached.st)
  /\ UNCHANGED <<obj, dest, live, due, timer, rec, faults>>

SpecChanged ==
  /\ obj.st = "present" /\ obj.gen + obj.ann <= MaxChanges
  /\ obj' = [obj EXCEPT !.gen = @ + 1]
  /\ UNCHANGED <<cached, dest, live, due, reg, queue, timer, rec, faults>>

MetaChanged ==
  /\ obj.st = "present" /\ obj.gen + obj.ann <= MaxChanges
  /\ obj' = [obj EXCEPT !.ann = @ + 1]
  /\ UNCHANGED <<cached, dest, live, due, reg, queue, timer, rec, faults>>

ObjDeleted ==
  /\ obj.st = "present"
  /\ obj' = [obj EXCEPT !.st = IF obj.fin THEN "deleting" ELSE "gone"]
  /\ UNCHANGED <<cached, dest, live, due, reg, queue, timer, rec, faults>>

\* Time passes.  A certificate lives longer than the Reconcile that records it takes.
RenewalWindow ==
  /\ obj.st = "present" /\ obj.serial # None /\ ~due
  /\ due' = TRUE
  /\ UNCHANGED <<obj, cached, dest, live, reg, queue, timer, rec, faults>>

\* The user provides a destination that the object does not create, edits or deletes it.  A
\* deletion is reported if the Secret has owner labels.
DestProvided ==
  /\ obj.st = "present" /\ dest = None /\ ~obj.mode.create
  /\ dest' = [cert |-> None, gen |-> 0, ann |-> 0]
  /\ UNCHANGED <<obj, cached, live, due, reg, queue, timer, rec, faults>>

DestEdited ==
  /\ dest # None /\ dest.cert # None /\ Fault
  /\ dest' = [dest EXCEPT !.cert = None]
  /\ UNCHANGED <<obj, cached, live, due, reg, queue, timer, rec>>

DestDeleted ==
  /\ dest # None /\ Fault
  /\ dest' = None
  /\ queue' = (queue \/ obj.mode.create)
  /\ UNCHANGED <<obj, cached, live, due, reg, timer, rec>>

Restart ==
  /\ Fault
  /\ rec' = Nothing /\ timer' = FALSE /\ reg' = FALSE
  /\ cached' = obj /\ queue' = TRUE
  /\ UNCHANGED <<obj, dest, live, due>>

Reconcile ==
  \/ BeginGone
  \/ BeginDeleting
  \/ \E e, v, t, w \in BOOLEAN : BeginPresent(e, v, t, w)
  \/ ClientFailed
  \/ Issued
  \/ IssueFailed
  \/ AnswerRefused
  \/ DestWritten
  \/ DestFailed
  \/ Revoked
  \/ RevokeFailed
  \/ StatusWritten
  \/ StatusFailed
  \/ FinalizerAdded
  \/ FinalizerFailed
  \/ FinalizerRemoved
  \/ FinalizerNotRemoved
  \/ Finalized
  \/ Cleared
  \/ FinalizeFailed

Next ==
  \/ Reconcile
  \/ TimerFires
  \/ Informed
  \/ SpecChanged
  \/ MetaChanged
  \/ ObjDeleted
  \/ RenewalWindow
  \/ DestProvided
  \/ DestEdited
  \/ DestDeleted
  \/ Restart

Spec == Init /\ [][Next]_vars

\* A taken request is worked on, delayed requests come, the informer catches up, certificates get
\* old, and the user provides the destination.
LiveSpec ==
  /\ Spec
  /\ WF_vars(Reconcile) /\ WF_vars(TimerFires) /\ WF_vars(Informed) /\ WF_vars(DestProvided)
  /\ WF_vars(RenewalWindow)
-----------------------------------------------------------------------------
TypeOK ==
  /\ obj \in ObjRec /\ cached \in ObjRec
  /\ dest \in DestRec \cup {None}
  /\ live \subseteq Cert /\ due \in BOOLEAN
  /\ reg \in BOOLEAN /\ queue \in BOOLEAN /\ timer \in BOOLEAN
  /\ rec \in RecRec
  /\ faults \in 0..MaxFaults

\* The certificate in the destination of an existing object is not a revoked one, although
\* Reconcile revokes what a possibly stale status says, after failures in any of its steps
\* (controllers/vaultpkisecret_controller.go:280-298).
ServedNotRevoked ==
  obj.st = "present" /\ dest # None /\ dest.cert # None => dest.cert \in live

\* Without failures and restarts, a deleted object's certificate has been revoked and its
\* destination cleared, as the spec asks, from whatever copy its deletion was handled
\* (controllers/vaultpkisecret_controller.go:320-347, 377-391).
DeletionFinalizes ==
  obj.st = "finalized" /\ rec.pc = "idle" /\ faults = 0 /\ obj.serial # None
    => /\ obj.mode.revoke => obj.serial \notin live
       /\ ~obj.mode.create /\ obj.mode.clear => dest = None \/ dest.cert = None

\* As long as the object exists, its destination again and again has the recorded certificate,
\* rendered for the current spec and metadata and not due for renewal: no failure, edit, conflict
\* or lost request keeps it from being replaced (vaultpkisecret_controller.go:113-176).
CertificateServed ==
  []<>(\/ obj.st # "present"
       \/ /\ dest # None /\ dest.cert # None
          /\ dest.cert = obj.serial /\ ~due
          /\ dest.gen = obj.gen /\ dest.ann = obj.ann)

\* "Revoke the certificate when the resource is deleted."
\* (api/v1beta1/vaultpkisecret_types.go:33): whatever failed before.
DeletedRevoked ==
  obj.st \in {"gone", "finalized"} /\ rec.pc = "idle" /\ obj.mode.revoke => live = {}
=============================================================================
