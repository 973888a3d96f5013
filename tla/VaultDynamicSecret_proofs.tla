---------------------- MODULE VaultDynamicSecret_proofs ----------------------
(***************************************************************************)
(* Proofs about VaultDynamicSecret, for any leases, clients, restarts and  *)
(* changes of the spec, the metadata and the SecretTransformation.         *)
(***************************************************************************)
EXTENDS VaultDynamicSecret, TLAPS

\* The informer will queue the object when it delivers it.
Behind == cached.gen # obj.gen \/ cached.st # obj.st \/ cached.ann # obj.ann
Pending == queue \/ timer \/ Behind

\* Nothing needs to be done for the object.
Settled ==
  \/ obj.st = "gone"
  \/ /\ obj.st = "present"
     /\ IF dest = None \/ dest.lease = None THEN ~obj.create ELSE dest.lease.kind = "endless"

\* The informer's copy is behind the object, and an object has its finalizer while it is deleted.
ObjOK ==
  /\ cached.gen <= obj.gen /\ cached.ann <= obj.ann /\ cached.create = obj.create
  /\ obj.st = "present" => cached.st = "present"
  /\ cached.st = "gone" => obj.st = "gone"
  /\ obj.st = "deleting" => obj.fin
  /\ cached.st = "deleting" => cached.fin

\* The destination has the credentials of Reconcile r, unless somebody provides it.
Shown(r) == IF dest = None \/ dest.lease = None THEN ~obj.create ELSE dest.lease = r.lease

\* A Reconcile that has begun before the deletion, or before the destination was lost, leaves
\* something pending behind it.
RecOK(r) ==
  /\ r.pc # "idle" => r.o.create = obj.create
  /\ r.pc \in {"revoke", "unfinalize"} => r.o.fin
  /\ r.pc \notin {"idle", "revoke", "unfinalize"} => obj.st # "deleting" \/ Pending
  /\ r.pc = "write" => r.lease # None
  /\ r.pc = "rollout" => r.then = "rollout"
  /\ r.pc \in {"status", "finalizer", "rollout"} /\ r.then = "rollout" => Pending \/ Shown(r)
  /\ r.pc \in {"status", "finalizer", "rollout"} /\ r.then = "rollout" => r.lease # None
  /\ r.pc = "idle" => Pending \/ Settled \/ "notRenewable" \in Events

VDSInv == TypeOK /\ ObjOK /\ RecOK(rec)
-----------------------------------------------------------------------------
LEMMA IdleType == NewObj \in ObjRec /\ Idle \in RecRec /\ Idle.pc = "idle"
<1>1. NewObj \in ObjRec
  BY VDSAssumption DEF NewObj, ObjRec
<1> HIDE DEF NewObj
<1> QED
  BY <1>1, VDSAssumption DEF Idle, RecRec

\* None is a model value.
LEMMA NoneIsNoLease == None \notin LeaseRec /\ None \notin DestRec
BY Zenon, VDSAssumption

LEMMA InitVDS == Init => VDSInv
<1> SUFFICES ASSUME Init PROVE VDSInv
  BY Zenon
<1>1. PICK create \in BOOLEAN : obj = [NewObj EXCEPT !.create = create]
  BY Zenon, VDSAssumption DEF Init
<1>2. obj \in ObjRec /\ obj.st = "present" /\ cached = obj
  BY Zenon, <1>1, IdleType DEF Init, NewObj, ObjRec
<1>3. TypeOK
  <2>1. /\ reg \in BOOLEAN /\ ref \in BOOLEAN /\ queue \in BOOLEAN /\ timer \in BOOLEAN
        /\ live \subseteq Lease /\ dest = None /\ rec = Idle
    BY Zenon DEF Init
  <2>2. tok \in 1..MaxTok /\ trans \in 0..MaxTrans /\ pod \in 0..MaxRestarts
    BY VDSAssumption DEF Init
  <2>3. cb \in [1..MaxTok -> {"none", "list", "send"}]
    BY Zenon DEF Init
  <2> QED
    BY Zenon, <1>2, <2>1, <2>2, <2>3, IdleType DEF TypeOK
<1>4. ObjOK
  <2>1. obj.gen \in Int /\ obj.ann \in Int
    BY <1>2, VDSAssumption DEF ObjRec
  <2> QED
    BY <1>2, <2>1 DEF ObjOK
<1>5. RecOK(rec)
  BY Zenon, IdleType DEF Init, RecOK, Pending
<1> QED
  BY Zenon, <1>3, <1>4, <1>5 DEF VDSInv
-----------------------------------------------------------------------------
\* Reconcile goes on, and changes nothing that is observed.
LEMMA GoesOn ==
  ASSUME VDSInv, rec' \in RecRec, RecOK(rec'), UNCHANGED <<obj, cached, dest, tok, trans, cb, pod>>,
         queue' = queue, timer' = timer, ref' \in BOOLEAN, reg' \in BOOLEAN, live' \subseteq Lease
  PROVE  VDSInv'
<1>1. TypeOK' /\ ObjOK'
  BY Zenon DEF VDSInv, TypeOK, ObjOK
<1>2. RecOK(rec)'
  BY Zenon DEF RecOK, Pending, Behind, Settled, Shown
<1> QED
  BY Zenon, <1>1, <1>2 DEF VDSInv

\* Reconcile ends with a later request.
LEMMA Requeued ==
  ASSUME VDSInv, Requeue, UNCHANGED <<obj, cached, dest, live, tok, trans, cb, pod>>,
         queue' \in BOOLEAN, ref' \in BOOLEAN, reg' \in BOOLEAN
  PROVE  VDSInv'
<1>1. TypeOK' /\ ObjOK'
  BY Zenon, IdleType DEF VDSInv, TypeOK, ObjOK, Requeue
<1>2. RecOK(rec)'
  BY Zenon, IdleType DEF RecOK, Requeue, Pending
<1> QED
  BY Zenon, <1>1, <1>2 DEF VDSInv

\* What happens beside Reconcile.
LEMMA BesideKeeps ==
  ASSUME VDSInv, rec' = rec, TypeOK', ObjOK', obj'.create = obj.create,
         Pending => Pending',
         obj'.st = "deleting" => obj.st = "deleting" \/ Pending',
         Pending' \/ (Settled => Settled'),
         \A r \in RecRec : Pending' \/ (Shown(r) => Shown(r)')
  PROVE  VDSInv'
<1>1. rec \in RecRec
  BY Zenon DEF VDSInv, TypeOK
<1>2. RecOK(rec)'
  BY Zenon, <1>1 DEF VDSInv, RecOK
<1> QED
  BY Zenon, <1>2 DEF VDSInv

\* The most common case: the object, its copy and the destination stay.
LEMMA QuietKeeps ==
  ASSUME VDSInv, UNCHANGED <<rec, obj, cached, dest, live, pod>>,
         queue => queue', timer => timer' \/ queue',
         tok' \in 1..MaxTok, trans' \in 0..MaxTrans, reg' \in BOOLEAN, ref' \in BOOLEAN,
         queue' \in BOOLEAN, timer' \in BOOLEAN, cb' \in [1..MaxTok -> {"none", "list", "send"}]
  PROVE  VDSInv'
<1>1. TypeOK' /\ ObjOK'
  BY Zenon DEF VDSInv, TypeOK, ObjOK
<1>2. /\ Pending => Pending'
      /\ Settled => Settled'
      /\ \A r \in RecRec : Shown(r) => Shown(r)'
  BY Zenon DEF Pending, Behind, Settled, Shown
<1> QED
  BY Zenon, <1>1, <1>2, BesideKeeps
-----------------------------------------------------------------------------
LEMMA BeginKeeps ==
  ASSUME VDSInv, BeginNotFound \/ BeginDeleting \/ \E exists \in BOOLEAN : BeginPresent(exists)
  PROVE  VDSInv'
<1>1. /\ UNCHANGED <<obj, cached, reg, cb, pod, dest, live, tok, trans>>
      /\ queue' \in BOOLEAN /\ ref' \in BOOLEAN /\ cached \in ObjRec /\ rec.pc = "idle"
  BY Zenon DEF VDSInv, TypeOK, BeginNotFound, BeginDeleting, BeginPresent, Begin, world
<1>2. CASE Requeue
  BY Zenon, <1>1, <1>2, Requeued DEF VDSInv, TypeOK
<1>3. CASE BeginNotFound
  <2>1. TypeOK' /\ ObjOK'
    BY Zenon, <1>1, <1>3, IdleType DEF BeginNotFound, Done, VDSInv, TypeOK, ObjOK
  <2>2. obj'.st = "gone" /\ rec' = Idle
    BY Zenon, <1>1, <1>3 DEF BeginNotFound, Done, VDSInv, ObjOK
  <2>3. RecOK(rec)'
    BY Zenon, <2>2, IdleType DEF RecOK, Settled
  <2> QED
    BY Zenon, <2>1, <2>3 DEF VDSInv
<1>4. CASE BeginDeleting \/ ((\E exists \in BOOLEAN : BeginPresent(exists)) /\ ~Requeue)
  <2>1. \/ /\ rec' = [Idle EXCEPT !.pc = "revoke", !.o = cached]
           /\ timer' = timer /\ cached.st = "deleting"
        \/ /\ \E exists \in BOOLEAN :
                 rec' = [Idle EXCEPT !.pc = "client", !.o = cached, !.exists = exists]
           /\ timer' = timer /\ cached.st = "present"
    BY ZenonT(40), <1>4 DEF BeginDeleting, BeginPresent
  <2>2. /\ rec' \in RecRec /\ rec'.o = cached /\ timer' = timer
        /\ \/ rec'.pc = "revoke" /\ cached.st = "deleting"
           \/ rec'.pc = "client" /\ cached.st = "present"
    BY ZenonT(40), <1>1, <2>1, IdleType DEF RecRec
  <2>3. TypeOK' /\ ObjOK'
    BY Zenon, <1>1, <2>2 DEF VDSInv, TypeOK, ObjOK
  <2>4. rec'.pc = "client" => obj'.st # "deleting" \/ Pending'
    BY Zenon, <1>1, <2>2 DEF Pending, Behind
  <2>5. RecOK(rec)'
    BY Zenon, <1>1, <2>2, <2>4 DEF RecOK, VDSInv, ObjOK
  <2> QED
    BY Zenon, <2>3, <2>5 DEF VDSInv
<1> QED
  BY Zenon, <1>2, <1>3, <1>4

\* Every way from the client to the request to Vault, or to the update of the status.
LEMMA ClientKeeps ==
  ASSUME VDSInv, ClientGot \/ (\E inWindow \in BOOLEAN : Window(inWindow)) \/ Renewed \/ RenewFailed
                 \/ TransformationRead
  PROVE  VDSInv'
<1>1. /\ UNCHANGED <<obj, cached, dest, live, tok, trans, reg, ref, cb, pod>>
      /\ queue' = queue /\ timer' = timer
  BY Zenon DEF ClientGot, Window, Renewed, RenewFailed, TransformationRead, events, world
<1>2. /\ rec \in RecRec /\ rec.pc \in {"client", "window", "renew", "transform"}
      /\ tok \in 0..MaxTok /\ trans \in 0..MaxTrans /\ rec.o \in ObjRec
  BY VDSAssumption
     DEF VDSInv, TypeOK, RecRec, ClientGot, Window, Renewed, RenewFailed, TransformationRead
<1>3. /\ rec' \in RecRec /\ rec'.o = rec.o
      /\ rec'.pc \in {"window", "renew", "transform", "vault", "status"}
      /\ rec'.pc = "status" => rec'.then = "requeue"
  <2>1. CASE ClientGot
    <3> DEFINE s == SyncReason(rec.o, tok)
               r == rec.o.lastGen > 0
               pc == IF s THEN "transform" ELSE IF pod # rec.o.pod THEN "window"
                     ELSE IF Renewable(rec.o) THEN "renew" ELSE "transform"
    <3>1. rec' = [rec EXCEPT !.tok = tok, !.exists = FALSE, !.sync = s, !.rotated = r, !.pc = pc]
      BY Zenon, <2>1 DEF ClientGot
    <3>2. s \in BOOLEAN
      BY Zenon DEF SyncReason
    <3>3. r \in BOOLEAN
      BY <1>2, VDSAssumption DEF ObjRec
    <3>4. pc \in {"window", "renew", "transform"}
      BY Zenon
    <3> HIDE DEF s, r, pc
    <3> QED
      BY ZenonT(40), <1>2, <3>1, <3>2, <3>3, <3>4 DEF RecRec
  <2>2. CASE \E inWindow \in BOOLEAN : Window(inWindow)
    <3>1. \/ \E pc \in {"renew", "transform"} : rec' = [rec EXCEPT !.pc = pc]
          \/ rec' = [rec EXCEPT !.pc = "status", !.lease = rec.o.lease, !.then = "requeue"]
      BY Zenon, <2>2 DEF Window
    <3>2. ASSUME NEW pc \in {"renew", "transform"}, rec' = [rec EXCEPT !.pc = pc]
          PROVE  rec' \in RecRec /\ rec'.o = rec.o /\ rec'.pc = pc
      BY Zenon, <1>2, <3>2 DEF RecRec
    <3>3. CASE rec' = [rec EXCEPT !.pc = "status", !.lease = rec.o.lease, !.then = "requeue"]
      BY Zenon, <1>2, <3>3 DEF RecRec, ObjRec
    <3> QED
      BY Zenon, <3>1, <3>2, <3>3
  <2>3. CASE Renewed
    BY Zenon, <1>2, <2>3 DEF Renewed, RecRec, ObjRec
  <2>4. CASE RenewFailed \/ TransformationRead
    BY ZenonT(40), <1>2, <2>4 DEF RenewFailed, TransformationRead, RecRec
  <2> QED
    BY Zenon, <2>1, <2>2, <2>3, <2>4
<1>4. RecOK(rec')
  BY Zenon, <1>2, <1>3 DEF VDSInv, RecOK
<1> QED
  BY Zenon, <1>1, <1>3, <1>4, GoesOn DEF VDSInv, TypeOK

\* The one return that leaves nothing behind.
LEMMA LastRenewalKeeps == ASSUME VDSInv, RenewedForTheLastTime PROVE VDSInv'
<1>1. /\ UNCHANGED <<obj, cached, dest, live, tok, trans, reg, ref, queue, timer, cb, pod>>
      /\ rec' = Idle /\ "notRenewable" \in Events
  BY Zenon DEF RenewedForTheLastTime, Done, events, world
<1>2. TypeOK' /\ ObjOK'
  BY <1>1, IdleType DEF VDSInv, TypeOK, ObjOK
<1>3. RecOK(rec)'
  BY Zenon, <1>1, IdleType DEF RecOK
<1> QED
  BY Zenon, <1>2, <1>3 DEF VDSInv

LEMMA FailureKeeps ==
  ASSUME VDSInv, \/ ClientFailed \/ RenewedAnother \/ TransformationFailed \/ SyncFailed
                 \/ FinalizerFailed \/ FinalizerKept
  PROVE  VDSInv'
BY Zenon, Requeued
   DEF VDSInv, TypeOK, ClientFailed, RenewedAnother, TransformationFailed, SyncFailed,
   FinalizerFailed, FinalizerKept, events, world

LEMMA ReadKeeps == ASSUME VDSInv, NEW kind \in Kinds, VaultRead(kind) PROVE VDSInv'
<1>1. PICK l \in Lease : /\ live' = (live \ Fresh) \cup {l}
                         /\ rec' = [rec EXCEPT !.pc = "write", !.lease = [id |-> l, kind |-> kind]]
  <2>1. Fresh \subseteq Lease /\ Fresh # {}
    BY Zenon, VDSAssumption DEF Fresh
  <2> QED
    BY Zenon, <2>1 DEF VaultRead
<1>2. [id |-> l, kind |-> kind] \in LeaseRec
  BY Zenon, VDSAssumption DEF LeaseRec
<1>3. [id |-> l, kind |-> kind] # None
  BY Zenon, <1>2, NoneIsNoLease
<1>4. rec \in RecRec /\ rec.pc = "vault" /\ live' \subseteq Lease
  BY Zenon, <1>1 DEF VDSInv, TypeOK, VaultRead
<1>5. rec' \in RecRec /\ rec'.pc = "write" /\ rec'.lease # None /\ rec'.o = rec.o
  BY Zenon, <1>1, <1>2, <1>3, <1>4 DEF RecRec
<1>6. RecOK(rec')
  BY Zenon, <1>4, <1>5 DEF VDSInv, RecOK
<1> QED
  BY Zenon, <1>4, <1>5, <1>6, GoesOn DEF VaultRead, events, VDSInv, TypeOK

LEMMA WriteKeeps == ASSUME VDSInv, DestWritten PROVE VDSInv'
<1>1. /\ rec \in RecRec /\ rec.pc = "write" /\ rec.lease # None /\ rec.o \in ObjRec
  BY Zenon DEF VDSInv, TypeOK, RecOK, DestWritten, RecRec
<1>2. UNCHANGED <<obj, cached, live, tok, trans, reg, ref, queue, timer, cb, pod>>
  BY Zenon DEF DestWritten, events
<1>3. rec' = [rec EXCEPT !.pc = "status", !.then = "rollout", !.restart = TRUE]
  BY Zenon DEF DestWritten, staticCredsUpdated
<1>4. /\ rec' \in RecRec /\ rec'.pc = "status" /\ rec'.then = "rollout"
      /\ rec'.lease = rec.lease /\ rec'.o = rec.o
  BY Zenon, <1>1, <1>3 DEF RecRec
<1>5. /\ dest' = [lease |-> rec.lease, tok |-> rec.tok, gen |-> rec.o.gen, ann |-> rec.o.ann,
                  trans |-> rec.trans]
  BY Zenon DEF DestWritten
<1>6. dest' \in DestRec /\ dest'.lease = rec.lease
  BY <1>1, <1>5, VDSAssumption DEF DestRec, RecRec, ObjRec
<1>7. dest' # None
  BY Zenon, <1>6, NoneIsNoLease
<1>8. TypeOK' /\ ObjOK'
  BY <1>2, <1>4, <1>6 DEF VDSInv, TypeOK, ObjOK
<1>9. Shown(rec)'
  BY Zenon, <1>1, <1>4, <1>6, <1>7 DEF Shown
<1>10. RecOK(rec)'
  BY Zenon, <1>1, <1>2, <1>4, <1>9 DEF VDSInv, RecOK, Pending, Behind
<1> QED
  BY Zenon, <1>8, <1>10 DEF VDSInv

LEMMA StatusKeeps == ASSUME VDSInv, StatusWritten \/ StatusFailed \/ FinalizerAdded PROVE VDSInv'
<1>1. /\ UNCHANGED <<cached, dest, live, tok, trans, reg, ref, queue, cb, pod>>
      /\ rec.pc \in {"status", "finalizer"} /\ rec \in RecRec /\ rec.o \in ObjRec /\ obj \in ObjRec
  BY Zenon DEF StatusWritten, StatusFailed, FinalizerAdded, events, world, VDSInv, TypeOK, RecRec
<1>2. /\ NewStatus \in ObjRec /\ NewStatus.create = rec.o.create /\ NewStatus.gen = rec.o.gen
      /\ NewStatus.ann = rec.o.ann /\ NewStatus.st = rec.o.st /\ NewStatus.fin = rec.o.fin
  <2>1. rec.lease \in LeaseRec \cup {None} /\ rec.tok \in 0..MaxTok /\ pod \in 0..MaxRestarts
    BY Zenon, <1>1 DEF RecRec, VDSInv, TypeOK
  <2>2. rec.o.gen \in 1..MaxGen
    BY Zenon, <1>1 DEF ObjRec
  <2>3. rec.o.gen \in 0..MaxGen
    BY <2>2
  <2>4. PICK x \in ObjRec, g \in 0..MaxGen, l \in LeaseRec \cup {None}, t \in 0..MaxTok,
             p \in 0..MaxRestarts :
          /\ NewStatus = [x EXCEPT !.lastGen = g, !.lease = l, !.tok = t, !.pod = p]
          /\ x = rec.o
    BY Zenon, <1>1, <2>1, <2>3 DEF NewStatus
  <2> QED
    BY Zenon, <2>4 DEF ObjRec
<1>3. /\ obj' \in ObjRec /\ obj'.create = obj.create /\ obj'.gen = obj.gen /\ obj'.ann = obj.ann
      /\ obj'.st = obj.st /\ (obj.fin => obj'.fin)
  <2>1. CASE StatusWritten
    BY Zenon, <1>1, <1>2, <2>1 DEF StatusWritten
  <2>2. CASE StatusFailed
    BY Zenon, <1>1, <2>2 DEF StatusFailed
  <2>3. CASE FinalizerAdded
    BY Zenon, <1>1, <2>3 DEF FinalizerAdded, ObjRec
  <2> QED
    BY Zenon, <2>1, <2>2, <2>3
<1>4. ObjOK'
  BY Zenon, <1>1, <1>3 DEF VDSInv, ObjOK
<1>5. PICK pc \in {"rollout", "requeue", "finalizer"}, o \in ObjRec :
        /\ Continue(pc, o) /\ o.create = obj.create
        /\ pc \in {rec.then, "finalizer"}
  <2>1. rec.o.create = obj.create /\ rec.then \in {"rollout", "requeue"}
    BY Zenon, <1>1 DEF VDSInv, RecOK, RecRec
  <2>2. CASE StatusWritten
    BY Zenon, <1>1, <1>2, <2>1, <2>2 DEF StatusWritten, AfterStatus
  <2>3. CASE StatusFailed
    BY Zenon, <1>1, <2>1, <2>3 DEF StatusFailed, AfterStatus
  <2>4. CASE FinalizerAdded
    BY Zenon, <1>3, <2>1, <2>4 DEF FinalizerAdded
  <2> QED
    BY Zenon, <2>2, <2>3, <2>4
<1>6. CASE pc = "requeue"
  <2>1. rec' = Idle /\ timer' = TRUE
    BY Zenon, <1>5, <1>6 DEF Continue, Requeue
  <2>2. TypeOK'
    BY Zenon, <1>1, <1>3, <2>1, IdleType DEF VDSInv, TypeOK
  <2>3. RecOK(rec)'
    BY Zenon, <2>1, IdleType DEF RecOK, Pending
  <2> QED
    BY Zenon, <1>4, <2>2, <2>3 DEF VDSInv
<1>7. CASE pc # "requeue"
  <2>1. rec' = [rec EXCEPT !.pc = pc, !.o = o] /\ timer' = timer
    BY Zenon, <1>5, <1>7 DEF Continue
  <2>2. /\ rec' \in RecRec /\ rec'.pc = pc /\ rec'.o = o /\ rec'.then = rec.then
        /\ rec'.lease = rec.lease
    BY Zenon, <1>1, <1>5, <1>7, <2>1 DEF RecRec
  <2>3. TypeOK'
    BY Zenon, <1>1, <1>3, <2>1, <2>2 DEF VDSInv, TypeOK
  <2>4. (Pending => Pending') /\ (Shown(rec) => Shown(rec)')
    BY Zenon, <1>1, <1>3, <2>1, <2>2 DEF Pending, Behind, Shown
  <2>5. RecOK(rec)'
    BY Zenon, <1>1, <1>3, <1>5, <1>7, <2>2, <2>4 DEF VDSInv, RecOK
  <2> QED
    BY Zenon, <1>4, <2>3, <2>5 DEF VDSInv
<1> QED
  BY Zenon, <1>6, <1>7

\* The end of a sync of credentials that do not end leaves nothing pending: then they are in the
\* destination, or what was lost meanwhile is pending.
LEMMA SyncedKeeps == ASSUME VDSInv, Synced PROVE VDSInv'
<1>1. /\ UNCHANGED <<obj, cached, dest, live, tok, trans, ref, queue, cb, pod>> /\ reg' = FALSE
      /\ rec.pc = "rollout"
  BY Zenon DEF Synced, events, world
<1>2. CASE Requeue
  BY Zenon, <1>1, <1>2, Requeued DEF VDSInv, TypeOK
<1>3. CASE rec.lease.kind = "endless" /\ Done
  <2>1. rec' = Idle /\ timer' = timer
    BY Zenon, <1>3 DEF Done
  <2>2. TypeOK' /\ ObjOK'
    BY Zenon, <1>1, <2>1, IdleType DEF VDSInv, TypeOK, ObjOK
  <2>3. Pending \/ (Shown(rec) /\ obj.st # "deleting")
    BY Zenon, <1>1 DEF VDSInv, RecOK
  <2>4. obj.st \in {"present", "deleting", "gone"}
    BY Zenon DEF VDSInv, TypeOK, ObjRec
  <2>5. Pending' \/ Settled'
    BY Zenon, <1>1, <1>3, <2>1, <2>3, <2>4 DEF Pending, Behind, Shown, Settled
  <2>6. RecOK(rec)'
    BY Zenon, <2>1, <2>5, IdleType DEF RecOK
  <2> QED
    BY Zenon, <2>2, <2>6 DEF VDSInv
<1> QED
  BY Zenon, <1>2, <1>3 DEF Synced

LEMMA DeletionKeeps ==
  ASSUME VDSInv, (\E ok \in BOOLEAN : RevokeLease(ok)) \/ FinalizerRemoved
  PROVE  VDSInv'
<1>1. CASE \E ok \in BOOLEAN : RevokeLease(ok)
  <2>1. /\ UNCHANGED <<obj, cached, dest, tok, trans, queue, cb, pod>>
        /\ live' \subseteq Lease /\ ref' = FALSE /\ reg' = FALSE /\ rec.pc = "revoke"
    BY Zenon, <1>1 DEF RevokeLease, VDSInv, TypeOK
  <2>2. rec.o.fin /\ rec \in RecRec
    BY Zenon, <2>1 DEF VDSInv, RecOK, TypeOK
  <2>3. rec' = [rec EXCEPT !.pc = "unfinalize"] /\ timer' = timer
    BY Zenon, <1>1, <2>2 DEF RevokeLease
  <2>4. rec' \in RecRec /\ rec'.pc = "unfinalize" /\ rec'.o = rec.o
    BY Zenon, <2>2, <2>3 DEF RecRec
  <2>5. RecOK(rec')
    BY Zenon, <2>1, <2>2, <2>4 DEF VDSInv, RecOK
  <2> QED
    BY Zenon, <2>1, <2>3, <2>4, <2>5, GoesOn
<1>2. CASE FinalizerRemoved
  <2>1. /\ UNCHANGED <<cached, dest, live, tok, trans, reg, ref, queue, timer, cb, pod>>
        /\ rec' = Idle /\ obj' = [obj EXCEPT !.st = "gone"]
    BY Zenon, <1>2 DEF FinalizerRemoved, Done, events, world
  <2>2. obj \in ObjRec /\ cached \in ObjRec
    BY Zenon DEF VDSInv, TypeOK
  <2>3. /\ obj' \in ObjRec /\ obj'.st = "gone" /\ obj'.gen = obj.gen /\ obj'.ann = obj.ann
        /\ obj'.create = obj.create
    BY Zenon, <2>1, <2>2 DEF ObjRec
  <2>4. TypeOK'
    BY Zenon, <2>1, <2>3, IdleType DEF VDSInv, TypeOK
  <2>5. ObjOK'
    BY Zenon, <2>1, <2>3 DEF VDSInv, ObjOK
  <2>6. RecOK(rec)'
    BY Zenon, <2>1, <2>3, IdleType DEF RecOK, Settled
  <2> QED
    BY Zenon, <2>4, <2>5, <2>6 DEF VDSInv
<1> QED
  BY Zenon, <1>1, <1>2
-----------------------------------------------------------------------------
LEMMA InformerKeeps == ASSUME VDSInv, InformerDelivers PROVE VDSInv'
<1>1. /\ UNCHANGED <<obj, dest, live, tok, trans, ref, timer, cb, rec, pod>> /\ cached' = obj
      /\ queue' = (queue \/ Behind) /\ reg' \in BOOLEAN /\ queue' \in BOOLEAN
  BY Zenon DEF InformerDelivers, world, Behind, VDSInv, TypeOK
<1>2. TypeOK'
  BY Zenon, <1>1 DEF VDSInv, TypeOK
<1>3. obj.gen \in Int /\ obj.ann \in Int
  BY VDSAssumption DEF VDSInv, TypeOK, ObjRec
<1>4. ObjOK'
  BY <1>1, <1>3 DEF VDSInv, ObjOK
<1>5. /\ Pending => Pending'
      /\ Settled => Settled'
      /\ \A r \in RecRec : Shown(r) => Shown(r)'
  BY Zenon, <1>1 DEF Pending, Settled, Shown
<1> QED
  BY Zenon, <1>1, <1>2, <1>4, <1>5, BesideKeeps

LEMMA MachineryKeeps ==
  ASSUME VDSInv, \/ TimerFires \/ Callback \/ TransformationChanged \/ SecretMetaChanged
                 \/ \E notified \in BOOLEAN : ClientReplaced(notified)
  PROVE  VDSInv'
<1>1. CASE TimerFires
  BY Zenon, <1>1, QuietKeeps DEF TimerFires, world, VDSInv, TypeOK
<1>2. CASE Callback
  <2>1. PICK t \in 1..MaxTok : CallbackLists(t) \/ CallbackSends(t)
    BY Zenon, <1>2 DEF Callback
  <2>2. /\ cb' \in [1..MaxTok -> {"none", "list", "send"}] /\ reg' \in BOOLEAN
        /\ timer' \in BOOLEAN /\ (timer => timer')
        /\ UNCHANGED <<rec, obj, cached, dest, live, pod, tok, trans, ref, queue>>
    BY Zenon, <2>1 DEF CallbackLists, CallbackSends, world, VDSInv, TypeOK
  <2> QED
    BY Zenon, <2>2, QuietKeeps DEF VDSInv, TypeOK
<1>3. CASE TransformationChanged
  <2>1. trans' \in 0..MaxTrans
    BY <1>3, VDSAssumption DEF TransformationChanged, VDSInv, TypeOK
  <2> QED
    BY Zenon, <1>3, <2>1, QuietKeeps DEF TransformationChanged, events, VDSInv, TypeOK
<1>4. CASE SecretMetaChanged
  BY Zenon, <1>4, QuietKeeps DEF SecretMetaChanged, events, world, VDSInv, TypeOK
<1>5. CASE \E notified \in BOOLEAN : ClientReplaced(notified)
  <2>1. tok' \in 1..MaxTok /\ cb' \in [1..MaxTok -> {"none", "list", "send"}]
    BY <1>5, VDSAssumption DEF ClientReplaced, VDSInv, TypeOK
  <2> QED
    BY <1>5, <2>1, QuietKeeps DEF ClientReplaced, VDSInv, TypeOK
<1> QED
  BY Zenon, <1>1, <1>2, <1>3, <1>4, <1>5

LEMMA DestKeeps == ASSUME VDSInv, DestDeleted \/ DestProvided PROVE VDSInv'
<1>1. /\ UNCHANGED <<obj, cached, live, tok, trans, reg, ref, queue, cb, rec, pod>>
      /\ timer' \in BOOLEAN /\ (timer => timer')
  BY Zenon DEF DestDeleted, DestProvided, events, VDSInv, TypeOK, ObjRec
<1>2. dest' \in DestRec \cup {None} /\ (dest' = None \/ dest'.lease = None)
  BY VDSAssumption DEF DestDeleted, DestProvided, ProvidedDest, DestRec
<1>3. timer' \/ ~obj.create
  BY Zenon DEF DestDeleted, DestProvided
<1>4. TypeOK' /\ ObjOK'
  BY Zenon, <1>1, <1>2 DEF VDSInv, TypeOK, ObjOK
<1>5. /\ Pending => Pending'
      /\ Pending' \/ (Settled => Settled')
      /\ \A r \in RecRec : Pending' \/ Shown(r)'
  BY Zenon, <1>1, <1>2, <1>3 DEF Pending, Behind, Settled, Shown
<1> QED
  BY Zenon, <1>1, <1>4, <1>5, BesideKeeps

LEMMA ObjectKeeps == ASSUME VDSInv, SpecChanged \/ MetaChanged \/ ObjDeleted PROVE VDSInv'
<1>1. /\ UNCHANGED <<cached, dest, live, tok, trans, reg, ref, queue, timer, cb, rec, pod>>
      /\ obj.st = "present"
  BY Zenon DEF SpecChanged, MetaChanged, ObjDeleted, events, world
<1>2. /\ obj \in ObjRec /\ cached \in ObjRec /\ cached.st = "present"
      /\ obj.gen \in 1..MaxGen /\ obj.ann \in 0..MaxAnn
      /\ cached.gen \in 1..MaxGen /\ cached.ann \in 0..MaxAnn
  BY Zenon, <1>1 DEF VDSInv, TypeOK, ObjOK, ObjRec
<1>3. /\ obj' \in ObjRec /\ obj'.create = obj.create
      /\ cached.gen <= obj'.gen /\ cached.ann <= obj'.ann
      /\ obj'.st = "deleting" => obj'.fin
      /\ cached.gen # obj'.gen \/ cached.ann # obj'.ann \/ obj'.st # "present"
  <2>1. CASE SpecChanged
    <3>1. obj.gen + 1 \in 1..MaxGen /\ cached.gen < obj.gen + 1
      BY <1>2, <2>1, VDSAssumption DEF SpecChanged, VDSInv, ObjOK
    <3>2. /\ obj' \in ObjRec /\ obj'.gen = obj.gen + 1 /\ obj'.ann = obj.ann /\ obj'.st = obj.st
          /\ obj'.create = obj.create
      BY Zenon, <1>2, <2>1, <3>1 DEF SpecChanged, ObjRec
    <3>3. cached.gen <= obj'.gen /\ cached.gen # obj'.gen
      BY <1>2, <3>1, <3>2
    <3> QED
      BY Zenon, <1>1, <3>2, <3>3 DEF VDSInv, ObjOK
  <2>2. CASE MetaChanged
    <3>1. obj.ann + 1 \in 0..MaxAnn /\ cached.ann < obj.ann + 1
      BY <1>2, <2>2, VDSAssumption DEF MetaChanged, VDSInv, ObjOK
    <3>2. /\ obj' \in ObjRec /\ obj'.ann = obj.ann + 1 /\ obj'.gen = obj.gen /\ obj'.st = obj.st
          /\ obj'.create = obj.create
      BY Zenon, <1>2, <2>2, <3>1 DEF MetaChanged, ObjRec
    <3>3. cached.ann <= obj'.ann /\ cached.ann # obj'.ann
      BY <1>2, <3>1, <3>2
    <3> QED
      BY Zenon, <1>1, <3>2, <3>3 DEF VDSInv, ObjOK
  <2>3. CASE ObjDeleted
    <3>1. PICK st \in {"deleting", "gone"} : /\ obj' = [obj EXCEPT !.st = st]
                                             /\ st = "deleting" => obj.fin
      BY Zenon, <2>3 DEF ObjDeleted
    <3>2. /\ obj' \in ObjRec /\ obj'.ann = obj.ann /\ obj'.gen = obj.gen /\ obj'.st = st
          /\ obj'.create = obj.create /\ obj'.fin = obj.fin
      BY Zenon, <1>2, <3>1 DEF ObjRec
    <3> QED
      BY Zenon, <3>1, <3>2 DEF VDSInv, ObjOK
  <2> QED
    BY Zenon, <2>1, <2>2, <2>3
<1>4. TypeOK' /\ ObjOK'
  BY Zenon, <1>1, <1>2, <1>3 DEF VDSInv, TypeOK, ObjOK
<1>5. Pending'
  BY Zenon, <1>1, <1>2, <1>3 DEF Pending, Behind
<1> QED
  BY Zenon, <1>1, <1>3, <1>4, <1>5, BesideKeeps

LEMMA RestartKeeps == ASSUME VDSInv, Restart PROVE VDSInv'
<1>1. /\ UNCHANGED <<obj, dest, live, tok, trans>> /\ cached' = obj /\ rec' = Idle
      /\ queue' = TRUE /\ timer' = FALSE /\ reg' = FALSE /\ ref' = FALSE
      /\ cb' \in [1..MaxTok -> {"none", "list", "send"}]
  BY Zenon DEF Restart, world
<1>2. pod' \in 0..MaxRestarts
  BY VDSAssumption DEF Restart, VDSInv, TypeOK
<1>3. TypeOK'
  BY Zenon, <1>1, <1>2, IdleType DEF VDSInv, TypeOK
<1>4. obj.gen \in Int /\ obj.ann \in Int
  BY VDSAssumption DEF VDSInv, TypeOK, ObjRec
<1>5. ObjOK'
  BY <1>1, <1>4 DEF VDSInv, ObjOK
<1>6. RecOK(rec)'
  BY Zenon, <1>1, IdleType DEF RecOK, Pending
<1> QED
  BY Zenon, <1>3, <1>5, <1>6 DEF VDSInv
-----------------------------------------------------------------------------
LEMMA NextKeeps == VDSInv /\ [Next]_vars => VDSInv'
<1> SUFFICES ASSUME VDSInv, [Next]_vars PROVE VDSInv'
  BY Zenon
<1>1. CASE Reconcile
  BY Zenon, <1>1, BeginKeeps, ClientKeeps, LastRenewalKeeps, FailureKeeps, ReadKeeps, WriteKeeps,
     StatusKeeps,
     SyncedKeeps, DeletionKeeps
  DEF Reconcile
<1>2. CASE UNCHANGED vars
  BY <1>2 DEF vars, VDSInv, TypeOK, ObjOK, RecOK, Pending, Behind, Settled, Shown
<1> QED
  BY Zenon, <1>1, <1>2, InformerKeeps, MachineryKeeps, DestKeeps, ObjectKeeps, RestartKeeps DEF Next

\* The variables keep their types.
THEOREM TypeCorrect == Spec => []TypeOK
<1>1. VDSInv => TypeOK
  BY Zenon DEF VDSInv
<1> QED
  BY <1>1, InitVDS, NextKeeps, PTL DEF Spec

\* An object is never forgotten: no early return, error, conflict, deletion of the destination or
\* restart leaves an object that is due without a request, a timer or an event to come
\* (controllers/vaultdynamicsecret_controller.go:99-325), unless Vault ends the renewability of a
\* lease with a renewal.
THEOREM ObjectsAreNotForgotten == "notRenewable" \notin Events => (Spec => []NeverForgotten)
<1> SUFFICES ASSUME "notRenewable" \notin Events PROVE Spec => []NeverForgotten
  BY Zenon
<1>1. VDSInv => NeverForgotten
  BY Zenon DEF VDSInv, RecOK, Pending, Behind, Settled, NeverForgotten, Quiet
<1> QED
  BY <1>1, InitVDS, NextKeeps, PTL DEF Spec
-----------------------------------------------------------------------------
\* Between the revocation and the removal of the finalizer the lease stays revoked.
RevokedFirst ==
  rec.pc = "unfinalize" /\ rec.o.lease # None => rec.o.lease.id \notin live

LEMMA InitRevoked == Init => RevokedFirst
BY Zenon, IdleType DEF Init, RevokedFirst

LEMMA NextRevoked ==
  "revokeError" \notin Events /\ TypeOK /\ RevokedFirst /\ [Next]_vars => RevokedFirst'
<1> SUFFICES ASSUME "revokeError" \notin Events, TypeOK, RevokedFirst, [Next]_vars,
                    rec'.pc = "unfinalize", rec'.o.lease # None
             PROVE  rec'.o.lease.id \notin live'
  BY Zenon DEF RevokedFirst
<1>1. rec \in RecRec
  BY Zenon DEF TypeOK
<1>2. CASE \E ok \in BOOLEAN : RevokeLease(ok)
  <2>1. PICK ok \in BOOLEAN : RevokeLease(ok)
    BY Zenon, <1>2
  <2>2. ok /\ rec' = [rec EXCEPT !.pc = "unfinalize"]
    BY Zenon, <2>1, IdleType DEF RevokeLease, Done
  <2>3. rec'.o = rec.o
    BY Zenon, <1>1, <2>2 DEF RecRec
  <2> QED
    BY <2>1, <2>2, <2>3 DEF RevokeLease
<1>3. CASE rec' = rec /\ live' = live
  BY Zenon, <1>3 DEF RevokedFirst
<1>4. ~Reconcile => rec' = rec /\ live' = live
  BY Zenon, IdleType
     DEF Next, vars, InformerDelivers, TimerFires, Callback, CallbackLists, CallbackSends,
     TransformationChanged, DestDeleted, DestProvided, SecretMetaChanged, SpecChanged, MetaChanged,
     ObjDeleted, ClientReplaced, Restart, world, events
<1>5. Reconcile => \E ok \in BOOLEAN : RevokeLease(ok)
  <2>1. rec' # Idle
    BY Zenon, IdleType
  <2>3. BeginNotFound \/ BeginDeleting \/ (\E exists \in BOOLEAN : BeginPresent(exists)) => FALSE
    BY ZenonT(40), <2>1, IdleType
       DEF BeginNotFound, BeginDeleting, BeginPresent, Done, Requeue, RecRec
  <2>4. ClientGot \/ (\E inWindow \in BOOLEAN : Window(inWindow)) \/ Renewed \/ RenewFailed
        \/ TransformationRead \/ (\E kind \in Kinds : VaultRead(kind)) \/ DestWritten => FALSE
    BY ZenonT(40), <1>1
       DEF ClientGot, Window, Renewed, RenewFailed, TransformationRead, VaultRead, DestWritten,
       RecRec
  <2>5. StatusWritten \/ StatusFailed \/ FinalizerAdded => FALSE
    BY ZenonT(40), <1>1, <2>1
       DEF StatusWritten, StatusFailed, FinalizerAdded, Continue, AfterStatus, Requeue,
       RecRec
  <2>6. ClientFailed \/ RenewedForTheLastTime \/ RenewedAnother \/ TransformationFailed \/ SyncFailed
        \/ FinalizerFailed \/ Synced \/ FinalizerRemoved \/ FinalizerKept => FALSE
    BY Zenon, <2>1
       DEF ClientFailed, RenewedForTheLastTime, RenewedAnother, TransformationFailed, SyncFailed,
       FinalizerFailed, Synced, FinalizerRemoved, FinalizerKept, Done, Requeue
  <2> QED
    BY Zenon, <2>3, <2>4, <2>5, <2>6 DEF Reconcile
<1> QED
  BY Zenon, <1>2, <1>3, <1>4, <1>5

\* The finalizer is removed only after the lease in the status was revoked, from whatever copy the
\* deletion was reconciled (controllers/vaultdynamicsecret_controller.go:650-708), while Vault does
\* not fail to revoke.
THEOREM LeaseIsRevokedFirst == "revokeError" \notin Events => (Spec => DeletionRevokes)
<1> SUFFICES ASSUME "revokeError" \notin Events PROVE Spec => DeletionRevokes
  BY Zenon
<1> DEFINE A == obj.st = "deleting" /\ obj'.st = "gone" /\ obj.lease # None => obj.lease.id \notin live
<1>1. TypeOK /\ RevokedFirst /\ [Next]_vars => [A]_vars
  <2> SUFFICES ASSUME TypeOK, RevokedFirst, Next, obj.st = "deleting", obj'.st = "gone",
                      obj.lease # None
               PROVE  obj.lease.id \notin live
    BY Zenon DEF vars
  <2>1. obj \in ObjRec /\ rec \in RecRec /\ rec.o \in ObjRec
    BY Zenon DEF TypeOK, RecRec
  <2>2. CASE FinalizerRemoved
    BY Zenon, <2>2 DEF FinalizerRemoved, RevokedFirst
  <2>3. StatusWritten \/ FinalizerAdded => obj'.st = obj.st
    BY Zenon, <2>1 DEF StatusWritten, FinalizerAdded, NewStatus, ObjRec
  <2>4. ~FinalizerRemoved /\ ~StatusWritten /\ ~FinalizerAdded => obj'.st = obj.st
    BY Zenon, <2>1
       DEF Next, Reconcile, BeginNotFound, BeginDeleting, BeginPresent, Begin, ClientGot,
       ClientFailed, Window, Renewed, RenewedForTheLastTime, RenewedAnother, RenewFailed,
       TransformationRead, TransformationFailed, VaultRead, DestWritten, SyncFailed, StatusFailed,
       FinalizerFailed, Synced, RevokeLease, FinalizerKept, InformerDelivers, TimerFires, Callback,
       CallbackLists, CallbackSends, TransformationChanged, DestDeleted, DestProvided,
       SecretMetaChanged, SpecChanged, MetaChanged, ObjDeleted, ClientReplaced, Restart
  <2> QED
    BY Zenon, <2>2, <2>3, <2>4
<1>2. TypeOK /\ RevokedFirst /\ [Next]_vars => RevokedFirst'
  BY Zenon, NextRevoked
<1> QED
  BY <1>1, <1>2, InitRevoked, TypeCorrect, PTL DEF Spec, DeletionRevokes
=============================================================================
