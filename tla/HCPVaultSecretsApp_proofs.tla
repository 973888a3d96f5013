---------------------- MODULE HCPVaultSecretsApp_proofs ----------------------
(***************************************************************************)
(* Proofs about HCPVaultSecretsApp, for any number of credentials, changes *)
(* of the app and the object, and faults.                                  *)
(***************************************************************************)
EXTENDS HCPVaultSecretsApp, TLAPS

\* Why no credentials pass from an object to a later one of its name: those in the shadow Secret
\* are of the object in its labels, and those a Reconcile works with of the object it has read.
HCPInv ==
  /\ TypeOK
  /\ OwnCredentials
  /\ shadow # None => shadow.cred.uid = shadow.uid
  /\ rec.cred # None => rec.cred.uid = rec.o.uid
  /\ rec.pc = "create" => rec.cred # None

LEMMA NothingType == Nothing \in RecRec /\ Nothing.cred = None /\ Nothing.pc = "idle"
<1>1. (CHOOSE r \in Refreshes : TRUE) \in Refreshes
  BY Zenon, HCPAssumption
<1> QED
  BY <1>1, HCPAssumption DEF Nothing, Idle, NewObj, RecRec, ObjRec, Uid, Version

LEMMA FaultType == ASSUME HCPInv, Fault PROVE faults' \in 0..MaxFaults
BY HCPAssumption DEF Fault, HCPInv, TypeOK

\* Reconcile ends, and leaves Secrets alone.
LEMMA EndKeeps ==
  ASSUME HCPInv, rec' = Nothing, obj' \in ObjRec, cached' \in ObjRec, dest' = dest,
         shadow' = shadow, app' = app, due' = due, changes' = changes, queue' \in BOOLEAN,
         timer' \in BOOLEAN, gaveUp' \in BOOLEAN, faults' \in 0..MaxFaults
  PROVE  HCPInv'
BY Zenon, NothingType DEF HCPInv, TypeOK, OwnCredentials

\* It goes on with the credentials that it has.
LEMMA GoesOn ==
  ASSUME HCPInv, rec' \in RecRec, rec'.cred = rec.cred, rec'.o.uid = rec.o.uid,
         rec'.pc = "create" => rec.cred # None, obj' \in ObjRec,
         cached' = cached, dest' = dest, app' = app, due' = due, changes' = changes,
         queue' = queue, timer' \in BOOLEAN, gaveUp' = gaveUp, faults' \in 0..MaxFaults,
         shadow' \in ShadowRec \cup {None}, shadow' # None => shadow'.cred.uid = shadow'.uid
  PROVE  HCPInv'
BY Zenon DEF HCPInv, TypeOK, OwnCredentials

LEMMA InitHCP == Init => HCPInv
<1> SUFFICES ASSUME Init PROVE HCPInv
  BY Zenon
<1>1. PICK r \in Refreshes : obj = NewObj(1, r)
  BY Zenon DEF Init
<1>2. obj \in ObjRec /\ cached = obj
  BY <1>1, HCPAssumption DEF Init, NewObj, ObjRec, Uid
<1>3. rec \in RecRec /\ rec.cred = None /\ rec.pc = "idle" /\ dest = None /\ shadow = None
  BY Zenon, NothingType DEF Init
<1>4. queue \in BOOLEAN /\ timer \in BOOLEAN /\ gaveUp \in BOOLEAN
  BY Zenon DEF Init
<1>5. /\ app \in [kv: Version, dyn: Version] /\ due \subseteq Cred
      /\ changes \in 0..MaxChanges /\ faults \in 0..MaxFaults
  BY HCPAssumption DEF Init, Version
<1>6. TypeOK
  BY Zenon, <1>2, <1>3, <1>4, <1>5 DEF TypeOK
<1> QED
  BY Zenon, <1>3, <1>6 DEF HCPInv, OwnCredentials

LEMMA BeginKeeps == ASSUME HCPInv, Begin PROVE HCPInv'
<1>1. cached \in ObjRec /\ app.kv \in Version
  BY Zenon DEF HCPInv, TypeOK
<1>2. \/ rec' = Nothing
      \/ rec' = [Idle(cached) EXCEPT !.pc = "unshadow"]
      \/ rec' = [Idle(cached) EXCEPT !.pc = "list", !.kv = app.kv]
  BY Zenon, <1>1 DEF Begin, ObjRec
<1>3. rec' \in RecRec /\ rec'.cred = None /\ rec'.pc # "create"
  <2>1. 0 \in Version
    BY HCPAssumption DEF Version
  <2>2. Idle(cached) \in RecRec /\ Idle(cached).cred = None
    BY Zenon, <1>1, <2>1 DEF Idle, RecRec
  <2> QED
    BY Zenon, <1>1, <1>2, <2>2, NothingType DEF RecRec
<1>4. /\ queue' = FALSE /\ gaveUp' = FALSE /\ obj' = obj /\ cached' = cached /\ dest' = dest
      /\ shadow' = shadow /\ timer' = timer /\ faults' = faults /\ app' = app /\ due' = due
      /\ changes' = changes
  BY Zenon DEF Begin, world
<1>5. TypeOK'
  BY Zenon, <1>3, <1>4 DEF HCPInv, TypeOK
<1> QED
  BY Zenon, <1>3, <1>4, <1>5 DEF HCPInv, OwnCredentials

\* What the shadow Secret gives a Reconcile was opened for its object.
LEMMA DynamicKeeps == ASSUME HCPInv, NEW ok \in BOOLEAN, getHVSDynamicSecrets(ok) PROVE HCPInv'
<1> DEFINE c == getShadowSecretData(ok)
<1>1. rec \in RecRec
  BY Zenon DEF HCPInv, TypeOK
<1>2. c \in CredRec \cup {None} /\ (c # None => c.uid = rec.o.uid)
  BY Zenon DEF getShadowSecretData, Usable, HCPInv, TypeOK, ShadowRec
<1>3. \/ rec' = [rec EXCEPT !.pc = "build"]
      \/ rec' = [rec EXCEPT !.pc = "build", !.cred = c]
      \/ rec' = [rec EXCEPT !.pc = "open"]
  BY Zenon DEF getHVSDynamicSecrets
<1> HIDE DEF c
<1>4. /\ rec' \in RecRec /\ rec'.o = rec.o /\ rec'.cred \in {rec.cred, c} /\ rec'.pc # "create"
  BY Zenon, <1>1, <1>2, <1>3 DEF RecRec
<1>5. faults' \in 0..MaxFaults
  BY Zenon, FaultType DEF getHVSDynamicSecrets, Answered, HCPInv, TypeOK
<1>6. TypeOK'
  BY Zenon, <1>4, <1>5 DEF getHVSDynamicSecrets, world, events, HCPInv, TypeOK
<1> QED
  BY Zenon, <1>2, <1>4, <1>6 DEF getHVSDynamicSecrets, HCPInv, OwnCredentials

LEMMA OpenKeeps == ASSUME HCPInv, OpenAppSecret PROVE HCPInv'
<1>1. rec \in RecRec /\ rec.o.uid \in Uid /\ app.dyn \in Version
  BY Zenon DEF HCPInv, TypeOK, RecRec, ObjRec
<1>2. PICK i \in Cred : i = CHOOSE c \in Fresh : TRUE
  BY Zenon DEF OpenAppSecret, Fresh
<1> DEFINE c == [id |-> i, ver |-> app.dyn, uid |-> rec.o.uid]
<1>3. c \in CredRec /\ c.uid = rec.o.uid
  BY Zenon, <1>1 DEF CredRec
<1>4. rec' = [rec EXCEPT !.pc = "build", !.cred = IF app.dyn = 0 THEN None ELSE c]
  BY Zenon, <1>2 DEF OpenAppSecret
<1> HIDE DEF c
<1>5. rec' \in RecRec /\ rec'.o = rec.o /\ rec'.cred \in {None, c} /\ rec'.pc # "create"
  BY Zenon, <1>1, <1>3, <1>4 DEF RecRec
<1>6. due' \subseteq Cred
  BY Zenon DEF OpenAppSecret, HCPInv, TypeOK
<1>7. TypeOK'
  BY Zenon, <1>5, <1>6 DEF OpenAppSecret, events, HCPInv, TypeOK
<1> QED
  BY Zenon, <1>3, <1>5, <1>7 DEF OpenAppSecret, HCPInv, OwnCredentials

LEMMA DataType == ASSUME HCPInv PROVE Data \in DataRec /\ Data.cred = rec.cred
BY Zenon DEF HCPInv, TypeOK, RecRec, Data, DataRec

LEMMA SyncKeeps == ASSUME HCPInv, HandleSecretHMAC \/ Failed \/ SyncSecret PROVE HCPInv'
<1>1. rec \in RecRec /\ rec.o \in ObjRec
  BY Zenon DEF HCPInv, TypeOK, RecRec
<1>2. CASE HandleSecretHMAC
  <2>1. rec' \in RecRec /\ rec'.cred = rec.cred /\ rec'.o = rec.o /\ rec'.pc # "create"
    BY Zenon, <1>1, <1>2 DEF HandleSecretHMAC, Goto, RecRec
  <2> QED
    BY Zenon, <1>2, <2>1, GoesOn DEF HandleSecretHMAC, Goto, world, events, HCPInv, TypeOK
<1>3. CASE Failed
  BY Zenon, <1>3, EndKeeps, FaultType DEF Failed, Requeue, world, events, HCPInv, TypeOK
<1>4. CASE SyncSecret /\ dest' = dest /\ Requeue
  BY Zenon, <1>4, EndKeeps DEF SyncSecret, Requeue, world, events, HCPInv, TypeOK
<1>5. CASE SyncSecret /\ dest' = [data |-> Data, gen |-> rec.o.gen, uid |-> rec.o.uid] /\ Goto("store")
  <2>1. rec' \in RecRec /\ rec'.cred = rec.cred /\ rec'.o = rec.o /\ rec'.pc # "create"
    BY Zenon, <1>1, <1>5 DEF Goto, RecRec
  <2>2. dest' \in DestRec /\ dest'.data.cred = rec.cred /\ dest'.uid = rec.o.uid
    BY Zenon, <1>1, <1>5, DataType DEF DestRec, ObjRec
  <2>3. TypeOK'
    BY Zenon, <1>5, <2>1, <2>2 DEF SyncSecret, Goto, world, events, HCPInv, TypeOK
  <2> QED
    BY Zenon, <1>5, <2>1, <2>2, <2>3 DEF SyncSecret, HCPInv, OwnCredentials
<1> QED
  BY Zenon, <1>2, <1>3, <1>4, <1>5 DEF SyncSecret

LEMMA NewShadowType ==
  ASSUME HCPInv, rec.cred # None
  PROVE  NewShadow \in ShadowRec /\ NewShadow.cred.uid = NewShadow.uid
BY Zenon DEF HCPInv, TypeOK, RecRec, ObjRec, NewShadow, ShadowRec

LEMMA StoreKeeps == ASSUME HCPInv, StoreShadow \/ RecreateShadow \/ StoreFailed PROVE HCPInv'
<1>1. rec \in RecRec
  BY Zenon DEF HCPInv, TypeOK
<1>2. CASE StoreShadow \/ RecreateShadow
  <2>1. /\ rec' \in RecRec /\ rec'.cred = rec.cred /\ rec'.o = rec.o
        /\ rec'.pc = "create" => rec.cred # None
    BY Zenon, <1>1, <1>2 DEF StoreShadow, RecreateShadow, Goto, RecRec
  <2>2. shadow' = None \/ (rec.cred # None /\ shadow' = NewShadow)
    BY Zenon, <1>2 DEF StoreShadow, RecreateShadow, HCPInv
  <2> QED
    BY Zenon, <1>2, <2>1, <2>2, NewShadowType, GoesOn
       DEF StoreShadow, RecreateShadow, Goto, world, events, HCPInv, TypeOK
<1>3. CASE StoreFailed
  BY Zenon, <1>3, EndKeeps, FaultType DEF StoreFailed, Done, world, events, HCPInv, TypeOK
<1> QED
  BY Zenon, <1>2, <1>3

LEMMA NewStatusType ==
  ASSUME HCPInv
  PROVE  NewStatus \in ObjRec /\ NewStatus.uid = rec.o.uid
<1>1. rec.o \in ObjRec /\ rec.o.gen \in 0..MaxChanges + 1
  BY HCPAssumption DEF HCPInv, TypeOK, RecRec, ObjRec
<1> QED
  BY Zenon, <1>1, DataType DEF NewStatus, ObjRec

LEMMA StatusKeeps == ASSUME HCPInv, UpdateStatus \/ StatusFailed PROVE HCPInv'
<1>1. rec \in RecRec /\ obj \in ObjRec /\ rec.o \in ObjRec
  BY Zenon DEF HCPInv, TypeOK, RecRec
<1>2. obj' \in ObjRec /\ faults' \in 0..MaxFaults
  BY Zenon, <1>1, NewStatusType, FaultType DEF UpdateStatus, StatusFailed, HCPInv, TypeOK
<1>3. /\ cached' = cached /\ dest' = dest /\ shadow' = shadow /\ app' = app /\ due' = due
      /\ changes' = changes /\ queue' = queue /\ gaveUp' = gaveUp
  BY Zenon DEF UpdateStatus, StatusFailed, world, events
<1>4. CASE Follow
  BY Zenon, <1>2, <1>3, <1>4, EndKeeps DEF Follow, Requeue, Done, HCPInv, TypeOK
<1>5. CASE ~Follow
  <2>1. /\ rec' \in RecRec /\ rec'.cred = rec.cred /\ rec'.o.uid = rec.o.uid
        /\ rec'.pc = "finalizer" /\ timer' = timer
    BY Zenon, <1>1, <1>5, NewStatusType DEF UpdateStatus, StatusFailed, Goto, RecRec
  <2> QED
    BY Zenon, <1>2, <1>3, <2>1, GoesOn DEF HCPInv, TypeOK
<1> QED
  BY Zenon, <1>4, <1>5

LEMMA FinalizerKeeps ==
  ASSUME HCPInv,
         AddFinalizer \/ RemoveFinalizer \/ FinalizerFailed \/ \E ok \in BOOLEAN : DeleteShadow(ok)
  PROVE  HCPInv'
<1>1. rec \in RecRec /\ obj \in ObjRec
  BY Zenon DEF HCPInv, TypeOK
<1>2. CASE AddFinalizer \/ RemoveFinalizer \/ FinalizerFailed
  <2>1. obj' \in ObjRec
    BY ZenonT(40), <1>1, <1>2 DEF AddFinalizer, RemoveFinalizer, FinalizerFailed, ObjRec
  <2>2. faults' \in 0..MaxFaults
    BY Zenon, <1>2, FaultType
       DEF AddFinalizer, RemoveFinalizer, FinalizerFailed, Answered, HCPInv, TypeOK
  <2>3. rec' = Nothing /\ timer' \in BOOLEAN
    BY Zenon, <1>2
       DEF AddFinalizer, RemoveFinalizer, FinalizerFailed, Follow, Requeue, Done, HCPInv, TypeOK
  <2> QED
    BY Zenon, <1>2, <2>1, <2>2, <2>3, EndKeeps
       DEF AddFinalizer, RemoveFinalizer, FinalizerFailed, world, events, HCPInv, TypeOK
<1>3. CASE \E ok \in BOOLEAN : DeleteShadow(ok)
  <2>1. /\ rec' \in RecRec /\ rec'.cred = rec.cred /\ rec'.o = rec.o /\ rec'.pc # "create"
    BY Zenon, <1>1, <1>3 DEF DeleteShadow, Goto, RecRec
  <2>2. faults' \in 0..MaxFaults
    BY Zenon, <1>3, FaultType DEF DeleteShadow, Answered, HCPInv, TypeOK
  <2>3. shadow' \in {None, shadow}
    BY Zenon, <1>3 DEF DeleteShadow
  <2> QED
    BY Zenon, <1>3, <2>1, <2>2, <2>3, GoesOn DEF DeleteShadow, Goto, world, events, HCPInv, TypeOK
<1> QED
  BY Zenon, <1>2, <1>3

\* What goes on around Reconcile leaves rec alone, and puts no credentials anywhere.
LEMMA AroundKeeps ==
  ASSUME HCPInv,
         \/ TimerFires \/ Informed \/ SpecChanged \/ ObjDeleted \/ ObjRecreated \/ AppChanged
         \/ RenewalDue \/ DestDeleted \/ DestEdited \/ ShadowEdited
  PROVE  HCPInv'
<1> USE DEF Change
<1>1. rec' = rec
  BY Zenon DEF TimerFires, Informed, SpecChanged, ObjDeleted, ObjRecreated, AppChanged, RenewalDue,
         DestDeleted, DestEdited, ShadowEdited, here
<1>2. obj' \in ObjRec /\ cached' \in ObjRec
  <2>1. obj \in ObjRec /\ cached \in ObjRec
    BY Zenon DEF HCPInv, TypeOK
  <2>2. CASE ObjRecreated
    <3>1. obj.uid + 1 \in Uid /\ obj.refresh \in Refreshes
      BY <2>1, <2>2, HCPAssumption DEF ObjRecreated, ObjRec, Uid
    <3>2. NewObj(obj.uid + 1, obj.refresh) \in ObjRec
      BY <3>1, HCPAssumption DEF NewObj, ObjRec
    <3> QED
      BY Zenon, <2>1, <2>2, <3>2 DEF ObjRecreated, events
  <2>3. CASE SpecChanged
    <3>1. obj.gen \in 1..MaxChanges
      BY <2>1, <2>3, HCPAssumption DEF SpecChanged, ObjRec
    <3> QED
      BY <2>1, <2>3, <3>1, HCPAssumption DEF SpecChanged, ObjRec, events
  <2>4. CASE ObjDeleted
    BY Zenon, <2>1, <2>4 DEF ObjDeleted, ObjRec, events
  <2> QED
    BY Zenon, <2>1, <2>2, <2>3, <2>4 DEF TimerFires, Informed, AppChanged, RenewalDue, DestDeleted,
                                  DestEdited, ShadowEdited, events
<1>3. app' \in [kv: Version, dyn: Version] /\ due' \subseteq Cred /\ changes' \in 0..MaxChanges
  <2>1. /\ app \in [kv: Version, dyn: Version] /\ due \subseteq Cred /\ changes \in 0..MaxChanges
        /\ dest \in DestRec \cup {None}
    BY Zenon DEF HCPInv, TypeOK
  <2>2. CASE SpecChanged \/ ObjDeleted
    BY <2>1, <2>2, HCPAssumption DEF SpecChanged, ObjDeleted
  <2>3. CASE AppChanged
    <3>1. changes + 2 \in Version /\ 0 \in Version /\ changes' \in 0..MaxChanges
      BY <2>1, <2>3, HCPAssumption DEF AppChanged, Version
    <3> QED
      BY Zenon, <2>1, <2>3, <3>1 DEF AppChanged
  <2>4. CASE RenewalDue
    BY Zenon, <2>1, <2>4 DEF RenewalDue, DestRec, DataRec, CredRec
  <2> QED
    BY Zenon, <2>1, <2>2, <2>3, <2>4 DEF TimerFires, Informed, ObjRecreated, DestDeleted,
                                  DestEdited, ShadowEdited, world
<1>4. /\ dest' \in DestRec \cup {None}
      /\ dest' = dest \/ dest' = None \/ dest'.data.cred = None
  <2>1. dest \in DestRec \cup {None}
    BY Zenon DEF HCPInv, TypeOK
  <2>2. CASE DestEdited
    <3>1. [kv |-> 0, cred |-> None] \in DataRec
      BY HCPAssumption DEF DataRec, Version
    <3> QED
      BY Zenon, <2>1, <2>2, <3>1 DEF DestEdited, DestRec
  <2> QED
    BY Zenon, <2>1, <2>2
       DEF TimerFires, Informed, SpecChanged, ObjDeleted, ObjRecreated, AppChanged,
                      RenewalDue, DestDeleted, ShadowEdited, here
<1>5. /\ shadow' \in ShadowRec \cup {None}
      /\ shadow' # None => /\ shadow # None
                           /\ shadow'.cred = shadow.cred /\ shadow'.uid = shadow.uid
  <2>1. shadow \in ShadowRec \cup {None}
    BY Zenon DEF HCPInv, TypeOK
  <2>2. CASE ShadowEdited
    BY Zenon, <2>1, <2>2 DEF ShadowEdited, ShadowRec
  <2> QED
    BY Zenon, <2>1, <2>2
       DEF TimerFires, Informed, SpecChanged, ObjDeleted, ObjRecreated, AppChanged,
                      RenewalDue, DestDeleted, DestEdited, here
<1>6. faults' \in 0..MaxFaults
  BY Zenon, FaultType DEF TimerFires, Informed, SpecChanged, ObjDeleted, ObjRecreated, AppChanged,
                   RenewalDue, DestDeleted, DestEdited, ShadowEdited, Answered, HCPInv, TypeOK
<1>7. queue' \in BOOLEAN /\ timer' \in BOOLEAN /\ gaveUp' \in BOOLEAN
  BY Zenon DEF TimerFires, Informed, SpecChanged, ObjDeleted, ObjRecreated, AppChanged, RenewalDue,
         DestDeleted, DestEdited, ShadowEdited, here, events, HCPInv, TypeOK
<1>8. TypeOK'
  BY Zenon, <1>1, <1>2, <1>3, <1>4, <1>5, <1>6, <1>7 DEF HCPInv, TypeOK
<1> QED
  BY Zenon, <1>1, <1>4, <1>5, <1>8 DEF HCPInv, OwnCredentials

LEMMA NextHCP == HCPInv /\ [Next]_vars => HCPInv'
<1> SUFFICES ASSUME HCPInv, [Next]_vars PROVE HCPInv'
  BY Zenon
<1>1. CASE Reconcile
  BY Zenon, <1>1, BeginKeeps, DynamicKeeps, OpenKeeps, SyncKeeps, StoreKeeps, StatusKeeps,
     FinalizerKeeps DEF Reconcile
<1>2. CASE Restart
  BY Zenon, <1>2, EndKeeps, FaultType DEF Restart, world, HCPInv, TypeOK
<1>3. CASE UNCHANGED vars
  BY Zenon, <1>3 DEF vars, HCPInv, TypeOK, OwnCredentials
<1> QED
  BY Zenon, <1>1, <1>2, <1>3, AroundKeeps DEF Next

\* Every variable keeps its type.
THEOREM TypeCorrect == Spec => []TypeOK
<1>1. HCPInv => TypeOK
  BY Zenon DEF HCPInv
<1> QED
  BY <1>1, InitHCP, NextHCP, PTL DEF Spec

\* The credentials in a destination were opened for the object that owns it.
THEOREM CredentialsAreOwn == Spec => []OwnCredentials
<1>1. HCPInv => OwnCredentials
  BY Zenon DEF HCPInv
<1> QED
  BY <1>1, InitHCP, NextHCP, PTL DEF Spec
-----------------------------------------------------------------------------
\* The credentials of the destination are those kept in the shadow Secret.
Shadowed ==
  IF dest.data.cred = None THEN shadow = None ELSE shadow # None /\ shadow.cred = dest.data.cred

\* Between the two writes, the credentials of the destination are those the Reconcile has.
ShadowKept ==
  faults = 0 /\ dest # None /\ dest.uid = obj.uid /\ obj.st = "present" =>
    IF rec.pc \in {"store", "create"} THEN dest.data.cred = rec.cred ELSE Shadowed

\* Why ShadowFollows holds.  The informer's copy, what a Reconcile has read of it and what the
\* destination was written for are never of a later object than the one before, so that a Reconcile
\* that deletes the shadow Secret, found by its name, does not do so to a present object's.
ShadowInv ==
  /\ HCPInv
  /\ cached.uid <= obj.uid
  /\ cached.uid = obj.uid /\ obj.st = "present" => cached.st = "present"
  /\ rec.pc # "idle" => rec.o.uid <= cached.uid
  /\ rec.pc = "unshadow" /\ rec.o.uid = obj.uid => obj.st # "present"
  /\ dest # None => dest.uid <= cached.uid /\ (rec.pc # "idle" => dest.uid <= rec.o.uid)
  /\ ShadowKept

LEMMA FaultCounts == ASSUME HCPInv, Fault PROVE faults' # 0
BY HCPAssumption DEF Fault, HCPInv, TypeOK

LEMMA UidType ==
  ASSUME HCPInv
  PROVE  /\ obj.uid \in Nat /\ cached.uid \in Nat /\ rec.o.uid \in Nat
         /\ dest # None => dest.uid \in Nat
<1>1. obj.uid \in Uid /\ cached.uid \in Uid /\ rec.o.uid \in Uid /\ (dest # None => dest.uid \in Uid)
  BY Zenon DEF HCPInv, TypeOK, RecRec, ObjRec, DestRec
<1>2. \A u \in Uid : u \in Nat
  BY HCPAssumption DEF Uid
<1> QED
  BY Zenon, <1>1, <1>2

\* What follows for the objects of the Reconcile and of the destination.
LEMMA UidOrder ==
  ASSUME ShadowInv
  PROVE  /\ rec.pc # "idle" => rec.o.uid <= obj.uid
         /\ dest # None => dest.uid <= obj.uid
         /\ dest # None /\ dest.uid = obj.uid /\ rec.pc # "idle" => rec.o.uid = obj.uid
<1>1. /\ cached.uid <= obj.uid
      /\ rec.pc # "idle" => rec.o.uid <= cached.uid
      /\ dest # None => dest.uid <= cached.uid /\ (rec.pc # "idle" => dest.uid <= rec.o.uid)
  BY Zenon DEF ShadowInv
<1>2. /\ obj.uid \in Nat /\ cached.uid \in Nat /\ rec.o.uid \in Nat
      /\ dest # None => dest.uid \in Nat
  BY Zenon, UidType DEF ShadowInv
<1> QED
  BY <1>1, <1>2

LEMMA InitShadow == Init => ShadowInv
<1> SUFFICES ASSUME Init PROVE ShadowInv
  BY Zenon
<1>1. HCPInv /\ cached = obj /\ dest = None /\ rec.pc = "idle"
  BY Zenon, InitHCP, NothingType DEF Init
<1>2. cached.uid <= obj.uid
  BY <1>1, UidType
<1> QED
  BY Zenon, <1>1, <1>2 DEF ShadowInv, ShadowKept

LEMMA BeginKeepsShadow == ASSUME ShadowInv, HCPInv', Begin PROVE ShadowInv'
<1>1. /\ rec.pc = "idle" /\ obj' = obj /\ cached' = cached /\ dest' = dest /\ shadow' = shadow
      /\ faults' = faults /\ HCPInv /\ cached \in ObjRec
  BY Zenon DEF Begin, ShadowInv, HCPInv, TypeOK
<1>2. \/ rec' = Nothing
      \/ cached.st = "deleting" /\ rec' = [Idle(cached) EXCEPT !.pc = "unshadow"]
      \/ cached.st = "present" /\ rec' = [Idle(cached) EXCEPT !.pc = "list", !.kv = app.kv]
  BY Zenon, <1>1 DEF Begin, ObjRec
<1>3. /\ rec'.pc \in {"idle", "unshadow", "list"}
      /\ rec'.pc # "idle" => rec'.o = cached
      /\ rec'.pc = "unshadow" => cached.st = "deleting"
  BY Zenon, <1>2, NothingType DEF Idle
<1>4. cached.uid <= cached.uid
  BY <1>1, UidType
<1>5. ShadowKept'
  BY Zenon, <1>1, <1>3 DEF ShadowInv, ShadowKept, Shadowed
<1> QED
  BY Zenon, <1>1, <1>3, <1>4, <1>5 DEF ShadowInv

\* The later steps of a Reconcile go on with what it has read, or are its last, and leave the
\* uids alone; what remains to be shown is what they do to Secrets.
LEMMA RunningKeepsShadow ==
  ASSUME ShadowInv, HCPInv', cached' = cached, obj'.uid = obj.uid,
         obj'.st = "present" => obj.st = "present", rec.pc # "idle",
         rec'.pc = "idle" \/ (rec'.o.uid = rec.o.uid /\ rec'.pc # "unshadow"),
         dest' = dest \/ (dest' # None /\ dest'.uid = rec.o.uid), ShadowKept'
  PROVE  ShadowInv'
<1>1. rec.o.uid <= rec.o.uid
  BY UidType DEF ShadowInv
<1>2. dest' # None => dest'.uid <= cached.uid /\ (rec'.pc # "idle" => dest'.uid <= rec'.o.uid)
  BY Zenon, <1>1 DEF ShadowInv
<1> QED
  BY Zenon, <1>2 DEF ShadowInv

LEMMA SecretsUnchanged ==
  ASSUME ShadowInv, dest' = dest, shadow' = shadow, obj'.uid = obj.uid,
         obj'.st = "present" => obj.st = "present",
         faults' = 0 => faults = 0 /\ rec.pc \notin {"store", "create"},
         rec'.pc \notin {"store", "create"}
  PROVE  ShadowKept'
BY Zenon DEF ShadowInv, ShadowKept, Shadowed

\* The steps before the destination is written.
LEMMA FetchKeepsShadow ==
  ASSUME ShadowInv, HCPInv',
         \/ \E ok \in BOOLEAN : getHVSDynamicSecrets(ok)
         \/ OpenAppSecret \/ HandleSecretHMAC \/ Failed
  PROVE  ShadowInv'
<1>1. HCPInv /\ rec \in RecRec
  BY Zenon DEF ShadowInv, HCPInv, TypeOK
<1>2. cached' = cached /\ obj' = obj /\ dest' = dest /\ shadow' = shadow
  BY Zenon DEF getHVSDynamicSecrets, OpenAppSecret, HandleSecretHMAC, Failed, events
<1>3. rec.pc \in {"list", "open", "build", "sync"}
  BY Zenon DEF getHVSDynamicSecrets, OpenAppSecret, HandleSecretHMAC, Failed
<1>4. faults' = 0 => faults = 0
  BY Zenon, <1>1, FaultCounts
     DEF getHVSDynamicSecrets, Answered, OpenAppSecret, HandleSecretHMAC, Failed
<1>5. rec'.pc = "idle" \/ (rec'.o = rec.o /\ rec'.pc \in {"build", "open", "sync", "status"})
  <2>1. CASE Failed
    BY Zenon, <2>1, NothingType DEF Failed, Requeue
  <2>2. CASE OpenAppSecret \/ HandleSecretHMAC
    BY Zenon, <1>1, <2>2 DEF OpenAppSecret, HandleSecretHMAC, Goto, RecRec
  <2>3. CASE \E ok \in BOOLEAN : getHVSDynamicSecrets(ok)
    <3>1. PICK ok \in BOOLEAN : getHVSDynamicSecrets(ok)
      BY Zenon, <2>3
    <3>2. \/ rec' = [rec EXCEPT !.pc = "build"]
          \/ rec' = [rec EXCEPT !.pc = "build", !.cred = getShadowSecretData(ok)]
          \/ rec' = [rec EXCEPT !.pc = "open"]
      BY Zenon, <3>1 DEF getHVSDynamicSecrets
    <3> QED
      BY Zenon, <1>1, <3>2 DEF RecRec
  <2> QED
    BY Zenon, <2>1, <2>2, <2>3
<1>6. ShadowKept'
  BY Zenon, <1>2, <1>3, <1>4, <1>5, SecretsUnchanged
<1> QED
  BY Zenon, <1>2, <1>3, <1>5, <1>6, RunningKeepsShadow

\* The destination, and then the shadow Secret, are written.
LEMMA WriteKeepsShadow ==
  ASSUME ShadowInv, HCPInv', SyncSecret \/ StoreShadow \/ RecreateShadow \/ StoreFailed
  PROVE  ShadowInv'
<1>1. HCPInv /\ rec \in RecRec
  BY Zenon DEF ShadowInv, HCPInv, TypeOK
<1>2. cached' = cached /\ obj' = obj /\ rec.pc \in {"sync", "store", "create"}
  BY Zenon DEF SyncSecret, StoreShadow, RecreateShadow, StoreFailed, events
<1>3. CASE SyncSecret /\ dest' = dest /\ Requeue
  <2>1. /\ shadow' = shadow /\ faults' = faults /\ rec.pc = "sync" /\ rec'.pc = "idle"
        /\ dest' = dest
    BY Zenon, <1>3, NothingType DEF SyncSecret, Requeue
  <2>2. ShadowKept'
    BY Zenon, <1>2, <2>1, SecretsUnchanged
  <2> QED
    BY Zenon, <1>2, <2>1, <2>2, RunningKeepsShadow
<1>4. CASE SyncSecret /\ dest' = [data |-> Data, gen |-> rec.o.gen, uid |-> rec.o.uid] /\ Goto("store")
  <2>1. rec'.pc = "store" /\ rec'.o = rec.o /\ rec'.cred = rec.cred
    BY Zenon, <1>1, <1>4 DEF Goto, RecRec
  <2>2. dest'.uid = rec.o.uid /\ dest'.data.cred = rec.cred
    BY Zenon, <1>1, <1>4, DataType
  <2>3. dest' # None
    <3>1. rec.o \in ObjRec /\ Data \in DataRec
      BY Zenon, <1>1, DataType DEF RecRec
    <3>2. dest' \in DestRec
      BY Zenon, <1>4, <3>1 DEF DestRec, ObjRec
    <3> QED
      BY Zenon, <3>2, HCPAssumption
  <2>4. ShadowKept'
    BY Zenon, <2>1, <2>2 DEF ShadowKept
  <2> QED
    BY Zenon, <1>2, <2>1, <2>2, <2>3, <2>4, RunningKeepsShadow
<1>5. CASE StoreShadow \/ RecreateShadow
  <2>1. dest' = dest /\ faults' = faults /\ rec.pc \in {"store", "create"}
    BY Zenon, <1>5 DEF StoreShadow, RecreateShadow
  <2>2. rec'.pc \in {"create", "status"} /\ rec'.o = rec.o /\ rec'.cred = rec.cred
    BY Zenon, <1>1, <1>5 DEF StoreShadow, RecreateShadow, Goto, RecRec
  <2>3. rec'.pc = "status" => IF rec.cred = None THEN shadow' = None
                              ELSE shadow' = NewShadow
    BY Zenon, <1>1, <1>5 DEF StoreShadow, RecreateShadow, Goto, RecRec, HCPInv
  <2>4. rec.cred # None => NewShadow # None /\ NewShadow.cred = rec.cred
    BY Zenon, <1>1, NewShadowType, HCPAssumption DEF NewShadow
  <2>5. ASSUME faults = 0, dest # None, dest.uid = obj.uid, obj.st = "present"
        PROVE  dest.data.cred = rec.cred
    BY Zenon, <2>1, <2>5 DEF ShadowInv, ShadowKept
  <2>6. ShadowKept'
    BY Zenon, <1>2, <2>1, <2>2, <2>3, <2>4, <2>5 DEF ShadowKept, Shadowed
  <2> QED
    BY Zenon, <1>2, <2>1, <2>2, <2>6, RunningKeepsShadow
<1>6. CASE StoreFailed
  <2>1. faults' # 0 /\ dest' = dest /\ rec'.pc = "idle"
    BY Zenon, <1>1, <1>6, FaultCounts, NothingType DEF StoreFailed, Done
  <2>2. ShadowKept'
    BY Zenon, <2>1 DEF ShadowKept
  <2> QED
    BY Zenon, <1>2, <2>1, <2>2, RunningKeepsShadow
<1> QED
  BY Zenon, <1>3, <1>4, <1>5, <1>6 DEF SyncSecret

\* The status and the finalizer are written.
LEMMA StatusKeepsShadow ==
  ASSUME ShadowInv, HCPInv',
         UpdateStatus \/ StatusFailed \/ AddFinalizer \/ RemoveFinalizer \/ FinalizerFailed
  PROVE  ShadowInv'
<1>1. HCPInv /\ rec \in RecRec /\ obj \in ObjRec
  BY Zenon DEF ShadowInv, HCPInv, TypeOK
<1>2. /\ cached' = cached /\ dest' = dest /\ shadow' = shadow
      /\ rec.pc \in {"status", "finalizer", "unfinalize"}
  BY Zenon DEF UpdateStatus, StatusFailed, AddFinalizer, RemoveFinalizer, FinalizerFailed, events
<1>3. faults' = 0 => faults = 0
  BY Zenon, <1>1, FaultCounts
     DEF UpdateStatus, StatusFailed, AddFinalizer, RemoveFinalizer, FinalizerFailed, Answered
<1>4. obj'.uid = obj.uid /\ (obj'.st = "present" => obj.st = "present")
  <2>1. CASE UpdateStatus
    <3>1. CASE rec.o = obj
      <4>1. obj' = NewStatus /\ NewStatus.uid = rec.o.uid
        BY Zenon, <1>1, <2>1, <3>1, NewStatusType DEF UpdateStatus
      <4>2. NewStatus.st = rec.o.st
        BY Zenon, <1>1, <3>1 DEF NewStatus, ObjRec
      <4> QED
        BY Zenon, <3>1, <4>1, <4>2
    <3>2. CASE rec.o # obj
      BY Zenon, <2>1, <3>2 DEF UpdateStatus
    <3> QED
      BY Zenon, <3>1, <3>2
  <2>2. CASE AddFinalizer
    BY Zenon, <1>1, <2>2 DEF AddFinalizer, ObjRec
  <2>3. CASE RemoveFinalizer
    BY Zenon, <1>1, <2>3 DEF RemoveFinalizer, ObjRec
  <2> QED
    BY Zenon, <2>1, <2>2, <2>3 DEF StatusFailed, FinalizerFailed
<1>5. rec'.pc = "idle" \/ (rec'.o.uid = rec.o.uid /\ rec'.pc = "finalizer")
  <2>1. CASE rec' = Nothing
    BY Zenon, <2>1, NothingType
  <2>2. CASE rec' = [rec EXCEPT !.pc = "finalizer"]
    BY Zenon, <1>1, <2>2 DEF RecRec
  <2>3. CASE rec' = [rec EXCEPT !.pc = "finalizer", !.o = IF rec.o = obj THEN NewStatus ELSE rec.o]
    BY Zenon, <1>1, <2>3, NewStatusType DEF RecRec
  <2> QED
    BY Zenon, <2>1, <2>2, <2>3 DEF UpdateStatus, StatusFailed, AddFinalizer, RemoveFinalizer,
       FinalizerFailed, Follow, Requeue, Done, Goto
<1>6. ShadowKept'
  BY Zenon, <1>2, <1>3, <1>4, <1>5, SecretsUnchanged
<1> QED
  BY Zenon, <1>2, <1>4, <1>5, <1>6, RunningKeepsShadow

\* A deletion is handled: the destination of a present object, if there is one, is a later one's.
LEMMA DeleteKeepsShadow ==
  ASSUME ShadowInv, HCPInv', NEW ok \in BOOLEAN, DeleteShadow(ok)
  PROVE  ShadowInv'
<1>1. HCPInv /\ rec \in RecRec
  BY Zenon DEF ShadowInv, HCPInv, TypeOK
<1>2. cached' = cached /\ obj' = obj /\ dest' = dest /\ rec.pc = "unshadow"
  BY Zenon DEF DeleteShadow, events
<1>3. rec'.pc = "unfinalize" /\ rec'.o = rec.o
  BY Zenon, <1>1 DEF DeleteShadow, Goto, RecRec
<1>4. ~(dest # None /\ dest.uid = obj.uid /\ obj.st = "present")
  BY Zenon, <1>2, UidOrder DEF ShadowInv
<1>5. ShadowKept'
  BY Zenon, <1>2, <1>4 DEF ShadowKept
<1> QED
  BY Zenon, <1>2, <1>3, <1>5, RunningKeepsShadow

LEMMA AroundKeepsShadow ==
  ASSUME ShadowInv, HCPInv',
         \/ TimerFires \/ Informed \/ SpecChanged \/ ObjDeleted \/ ObjRecreated \/ AppChanged
         \/ RenewalDue \/ DestDeleted \/ DestEdited \/ ShadowEdited
  PROVE  ShadowInv'
<1>1. rec' = rec /\ HCPInv /\ obj \in ObjRec /\ dest \in DestRec \cup {None}
  BY Zenon DEF TimerFires, Informed, SpecChanged, ObjDeleted, ObjRecreated, AppChanged, RenewalDue,
         DestDeleted, DestEdited, ShadowEdited, here, ShadowInv, HCPInv, TypeOK
<1>2. CASE TimerFires \/ AppChanged \/ RenewalDue
  <2>1. obj' = obj /\ cached' = cached /\ dest' = dest /\ shadow' = shadow /\ faults' = faults
    BY Zenon, <1>2 DEF TimerFires, AppChanged, RenewalDue, here, events
  <2> QED
    BY Zenon, <1>1, <2>1 DEF ShadowInv, ShadowKept, Shadowed
<1>3. CASE Informed
  <2>1. obj' = obj /\ cached' = obj /\ dest' = dest /\ shadow' = shadow /\ faults' = faults
    BY Zenon, <1>3 DEF Informed, here
  <2>2. obj.uid <= obj.uid
    BY <1>1, UidType
  <2> QED
    BY Zenon, <1>1, <2>1, <2>2, UidOrder DEF ShadowInv, ShadowKept, Shadowed
<1>4. CASE SpecChanged \/ ObjDeleted
  <2>1. /\ cached' = cached /\ dest' = dest /\ shadow' = shadow /\ faults' = faults
        /\ obj.st = "present"
    BY Zenon, <1>4 DEF SpecChanged, ObjDeleted, events, here
  <2>2. obj'.uid = obj.uid
    BY Zenon, <1>1, <1>4 DEF SpecChanged, ObjDeleted, ObjRec
  <2> QED
    BY Zenon, <1>1, <2>1, <2>2 DEF ShadowInv, ShadowKept, Shadowed
<1>5. CASE ObjRecreated
  <2>1. cached' = cached /\ dest' = dest /\ obj' = NewObj(obj.uid + 1, obj.refresh)
    BY Zenon, <1>5 DEF ObjRecreated, events, here
  <2>2. obj'.uid = obj.uid + 1
    BY Zenon, <2>1 DEF NewObj
  <2>3. cached.uid <= obj.uid
    BY Zenon DEF ShadowInv
  <2>4. cached.uid <= obj'.uid /\ cached.uid # obj'.uid
    BY <1>1, <2>2, <2>3, UidType
  <2>5. (rec.pc # "idle" => rec.o.uid # obj'.uid) /\ (dest # None => dest.uid # obj'.uid)
    BY <1>1, <2>2, UidType, UidOrder
  <2> QED
    BY Zenon, <1>1, <2>1, <2>4, <2>5 DEF ShadowInv, ShadowKept
<1>6. CASE DestDeleted
  <2>1. obj' = obj /\ cached' = cached /\ dest' = None
    BY Zenon, <1>6 DEF DestDeleted
  <2> QED
    BY Zenon, <1>1, <2>1 DEF ShadowInv, ShadowKept
<1>7. CASE DestEdited \/ ShadowEdited
  <2>1. obj' = obj /\ cached' = cached /\ faults' # 0
    BY Zenon, <1>1, <1>7, FaultCounts DEF DestEdited, ShadowEdited, events
  <2>2. dest' # None => dest # None /\ dest'.uid = dest.uid
    <3>1. CASE DestEdited
      BY Zenon, <1>1, <3>1 DEF DestEdited, DestRec
    <3>2. CASE ShadowEdited
      <4>1. dest' = dest
        BY Zenon, <3>2 DEF ShadowEdited
      <4> QED
        BY Zenon, <4>1
    <3> QED
      BY Zenon, <1>7, <3>1, <3>2
  <2> QED
    BY Zenon, <1>1, <2>1, <2>2 DEF ShadowInv, ShadowKept
<1> QED
  BY Zenon, <1>2, <1>3, <1>4, <1>5, <1>6, <1>7

LEMMA NextShadow == ShadowInv /\ [Next]_vars => ShadowInv'
<1> SUFFICES ASSUME ShadowInv, [Next]_vars PROVE ShadowInv'
  BY Zenon
<1>1. HCPInv /\ HCPInv'
  BY Zenon, NextHCP DEF ShadowInv
<1>2. CASE Reconcile
  BY Zenon, <1>1, <1>2, BeginKeepsShadow, FetchKeepsShadow, WriteKeepsShadow, StatusKeepsShadow,
     DeleteKeepsShadow DEF Reconcile
<1>3. CASE Restart
  <2>1. obj' = obj /\ cached' = obj /\ dest' = dest /\ rec'.pc = "idle" /\ faults' # 0
    BY Zenon, <1>1, <1>3, FaultCounts, NothingType DEF Restart
  <2>2. obj.uid <= obj.uid
    BY <1>1, UidType
  <2> QED
    BY Zenon, <1>1, <2>1, <2>2, UidOrder DEF ShadowInv, ShadowKept
<1>4. CASE UNCHANGED vars
  <2>1. UNCHANGED <<obj, cached, dest, shadow, rec, faults>>
    BY Zenon, <1>4 DEF vars
  <2> QED
    BY Zenon, <1>1, <2>1 DEF ShadowInv, ShadowKept, Shadowed
<1> QED
  BY Zenon, <1>1, <1>2, <1>3, <1>4, AroundKeepsShadow DEF Next

\* Without failures, a present object's shadow Secret keeps the credentials of its destination
\* whenever no Reconcile is running.
THEOREM ShadowIsFollowing == Spec => []ShadowFollows
<1>1. ShadowInv => ShadowFollows
  BY Zenon DEF ShadowInv, ShadowKept, Shadowed, ShadowFollows
<1> QED
  BY <1>1, InitShadow, NextShadow, PTL DEF Spec
=============================================================================
