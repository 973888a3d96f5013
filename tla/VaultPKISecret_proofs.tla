------------------------ MODULE VaultPKISecret_proofs ------------------------
(***************************************************************************)
(* Proofs about VaultPKISecret, for any specs, and any number of           *)
(* certificates, changes and faults.                                       *)
(***************************************************************************)
EXTENDS VaultPKISecret, TLAPS

\* Why the destination's certificate is not the one that is revoked: what a Reconcile was issued is
\* not what its copy of the status names, and finalizing comes after the object.
PKIInv ==
  /\ TypeOK
  /\ ServedNotRevoked
  /\ rec.pc = "write" => rec.cert \in live /\ rec.cert # rec.o.serial
  /\ rec.pc = "revoke" => /\ rec.cert # rec.o.serial /\ rec.cert \in Cert
                          /\ dest # None => dest.cert \in {None, rec.cert}
  /\ rec.pc \in {"finalize", "clear"} => obj.st = "finalized"
  /\ rec.pc = "status" /\ rec.then = "synced" => rec.cert \in Cert

LEMMA NothingType == Nothing \in RecRec /\ Nothing.pc = "idle"
<1>1. (CHOOSE m \in Modes : TRUE) \in Modes
  BY Zenon, PKIAssumption
<1> QED
  BY <1>1, PKIAssumption DEF Nothing, Idle, NewObj, RecRec, ObjRec

\* A step that leaves the object, the destination and the certificates alone, and ends Reconcile.
LEMMA EndKeeps ==
  ASSUME PKIInv, rec' = Nothing, obj' = obj, dest' = dest, live' = live, cached' \in ObjRec,
         due' \in BOOLEAN, reg' \in BOOLEAN, queue' \in BOOLEAN, timer' \in BOOLEAN,
         faults' \in 0..MaxFaults
  PROVE  PKIInv'
BY Zenon, NothingType DEF PKIInv, TypeOK, ServedNotRevoked

LEMMA FaultType == ASSUME PKIInv, Fault PROVE faults' \in 0..MaxFaults
BY PKIAssumption DEF Fault, PKIInv, TypeOK

LEMMA InitPKI == Init => PKIInv
<1> SUFFICES ASSUME Init PROVE PKIInv
  BY Zenon
<1>1. PICK m \in Modes : obj = NewObj(m)
  BY Zenon DEF Init
<1>2. obj \in ObjRec
  BY <1>1, PKIAssumption DEF NewObj, ObjRec
<1>3. rec \in RecRec /\ rec.pc = "idle" /\ dest = None /\ cached = obj
  BY Zenon, NothingType DEF Init
<1>4. due \in BOOLEAN /\ reg \in BOOLEAN /\ queue \in BOOLEAN /\ timer \in BOOLEAN
  BY Zenon DEF Init
<1>5. faults \in 0..MaxFaults /\ live \subseteq Cert
  BY PKIAssumption DEF Init
<1>6. TypeOK
  BY Zenon, <1>2, <1>3, <1>4, <1>5 DEF TypeOK
<1> QED
  BY Zenon, <1>3, <1>6 DEF PKIInv, ServedNotRevoked

LEMMA BeginKeeps ==
  ASSUME PKIInv, BeginGone \/ BeginDeleting \/ \E e, v, t, w \in BOOLEAN : BeginPresent(e, v, t, w)
  PROVE  PKIInv'
<1>1. /\ cached \in ObjRec /\ queue' = FALSE /\ obj' = obj /\ cached' = cached /\ dest' = dest
      /\ live' = live /\ due' = due
  BY Zenon DEF PKIInv, TypeOK, BeginGone, BeginDeleting, BeginPresent, Begin
<1>2. faults' \in 0..MaxFaults /\ reg' \in BOOLEAN
  BY Zenon, FaultType DEF PKIInv, TypeOK, BeginGone, BeginDeleting, BeginPresent, Answered
<1>3. \/ rec' = Nothing
      \/ rec' = [Idle(cached) EXCEPT !.pc = "unfinalize"]
      \/ rec' = [Idle(cached) EXCEPT !.pc = "status", !.then = "requeue"]
      \/ rec' = [Idle(cached) EXCEPT !.pc = "client"]
  BY Zenon DEF BeginGone, BeginDeleting, BeginPresent, Done, Requeue
<1>4. timer' \in BOOLEAN
  BY Zenon DEF PKIInv, TypeOK, BeginGone, BeginDeleting, BeginPresent, Done, Requeue
<1>5. /\ rec' \in RecRec /\ rec'.pc \in {"idle", "unfinalize", "status", "client"}
      /\ rec'.pc = "status" => rec'.then = "requeue"
  BY Zenon, <1>1, <1>3, NothingType DEF Idle, RecRec
<1> QED
  BY Zenon, <1>1, <1>2, <1>4, <1>5 DEF PKIInv, TypeOK, ServedNotRevoked

LEMMA IssueKeeps == ASSUME PKIInv, Issued \/ IssueFailed \/ ClientFailed PROVE PKIInv'
<1>1. rec \in RecRec /\ rec.pc = "client"
  BY Zenon DEF PKIInv, TypeOK, Issued, IssueFailed, ClientFailed
<1>2. CASE Issued
  <2>1. PICK c \in Fresh : /\ live' = (live \ Fresh) \cup {c}
                           /\ rec' = [rec EXCEPT !.pc = "write", !.cert = c]
    BY Zenon, <1>2 DEF Issued
  <2>2. c \in Cert /\ c # rec.o.serial /\ (dest # None => dest.cert \notin Fresh)
    BY Zenon, <2>1 DEF Fresh
  <2>3. rec' \in RecRec /\ rec'.pc = "write" /\ rec'.cert = c /\ rec'.o = rec.o
    BY Zenon, <1>1, <2>1, <2>2 DEF RecRec
  <2>4. /\ obj' = obj /\ dest' = dest /\ due' = due /\ reg' = reg /\ timer' = timer
        /\ faults' = faults /\ cached' = cached /\ queue' = queue
    BY Zenon, <1>2 DEF Issued, outside
  <2>5. live' \subseteq Cert /\ c \in live'
    BY Zenon, <2>1, <2>2 DEF PKIInv, TypeOK
  <2>6. ServedNotRevoked'
    BY Zenon, <2>1, <2>2, <2>4 DEF PKIInv, ServedNotRevoked
  <2> QED
    BY Zenon, <2>2, <2>3, <2>4, <2>5, <2>6 DEF PKIInv, TypeOK
<1>3. CASE IssueFailed
  <2>1. rec' \in RecRec /\ rec'.pc = "status" /\ rec'.then = "register"
    BY Zenon, <1>1, <1>3 DEF IssueFailed, RecRec
  <2>2. faults' \in 0..MaxFaults
    BY Zenon, <1>3, FaultType DEF IssueFailed
  <2> QED
    BY Zenon, <1>3, <2>1, <2>2 DEF IssueFailed, outside, PKIInv, TypeOK, ServedNotRevoked
<1>4. CASE ClientFailed
  BY Zenon, <1>4, EndKeeps, FaultType DEF ClientFailed, Requeue, outside, PKIInv, TypeOK
<1> QED
  BY Zenon, <1>2, <1>3, <1>4

LEMMA WriteKeeps == ASSUME PKIInv, AnswerRefused \/ DestWritten \/ DestFailed PROVE PKIInv'
<1>1. /\ rec \in RecRec /\ rec.pc = "write" /\ rec.cert \in live /\ rec.cert \in Cert
      /\ rec.cert # rec.o.serial /\ rec.o \in ObjRec
  BY Zenon DEF PKIInv, TypeOK, AnswerRefused, DestWritten, DestFailed, RecRec
<1>2. CASE AnswerRefused
  <2>1. rec' \in RecRec /\ rec'.pc = "status" /\ rec'.then = "requeue"
    BY Zenon, <1>1, <1>2 DEF AnswerRefused, RecRec
  <2>2. faults' \in 0..MaxFaults
    BY Zenon, <1>2, FaultType DEF AnswerRefused
  <2> QED
    BY Zenon, <1>2, <2>1, <2>2 DEF AnswerRefused, outside, PKIInv, TypeOK, ServedNotRevoked
<1>3. /\ WithMAC \in RecRec /\ WithMAC.cert = rec.cert /\ WithMAC.o.serial = rec.o.serial
  BY Zenon, <1>1 DEF WithMAC, RecRec, ObjRec
<1>4. CASE DestWritten
  <2>1. /\ rec' \in RecRec /\ rec'.pc \in {"revoke", "status"} /\ rec'.cert = rec.cert
        /\ rec'.o.serial = rec.o.serial
    BY Zenon, <1>3, <1>4 DEF DestWritten, RecRec
  <2>2. dest' = [cert |-> rec.cert, gen |-> rec.o.gen, ann |-> rec.o.ann]
    BY Zenon, <1>4 DEF DestWritten
  <2>3. dest' \in DestRec /\ dest'.cert = rec.cert
    BY <1>1, <2>2, PKIAssumption DEF DestRec, ObjRec
  <2> QED
    BY Zenon, <1>1, <1>4, <2>1, <2>3 DEF DestWritten, outside, PKIInv, TypeOK, ServedNotRevoked
<1>5. CASE DestFailed
  <2>1. rec' \in RecRec /\ rec'.pc = "status" /\ rec'.then = "requeue"
    BY Zenon, <1>3, <1>5 DEF DestFailed, RecRec
  <2>2. faults' \in 0..MaxFaults
    BY Zenon, <1>5, FaultType DEF DestFailed, Answered, PKIInv, TypeOK
  <2> QED
    BY Zenon, <1>5, <2>1, <2>2 DEF DestFailed, outside, PKIInv, TypeOK, ServedNotRevoked
<1> QED
  BY Zenon, <1>2, <1>4, <1>5

LEMMA RevokeKeeps == ASSUME PKIInv, Revoked \/ RevokeFailed PROVE PKIInv'
<1>1. rec \in RecRec /\ rec.pc = "revoke"
  BY Zenon DEF PKIInv, TypeOK, Revoked, RevokeFailed
<1>2. CASE Revoked
  <2>1. rec' \in RecRec /\ rec'.pc = "status" /\ rec'.cert = rec.cert /\ rec'.then = rec.then
    BY Zenon, <1>1, <1>2 DEF Revoked, Goto, RecRec
  <2> QED
    BY Zenon, <1>1, <1>2, <2>1 DEF Revoked, Goto, outside, PKIInv, TypeOK, ServedNotRevoked
<1>3. CASE RevokeFailed
  BY Zenon, <1>3, EndKeeps, FaultType DEF RevokeFailed, Requeue, outside, PKIInv, TypeOK
<1> QED
  BY Zenon, <1>2, <1>3

LEMMA StatusKeeps == ASSUME PKIInv, StatusWritten \/ StatusFailed PROVE PKIInv'
<1>1. rec \in RecRec /\ rec.pc = "status" /\ rec.o \in ObjRec
  BY Zenon DEF PKIInv, TypeOK, StatusWritten, StatusFailed, RecRec
<1>2. CASE StatusWritten
  <2>1. obj' = NewStatus /\ NewStatus \in ObjRec /\ NewStatus.st = rec.o.st
    <3>1. rec.o.gen \in 0..MaxChanges + 1 /\ rec.cert \in Cert \cup {None}
      BY <1>1, PKIAssumption DEF ObjRec, RecRec
    <3> QED
      BY Zenon, <1>1, <1>2, <3>1 DEF StatusWritten, NewStatus, ObjRec
  <2>2. rec.o.st = obj.st
    BY Zenon, <1>2 DEF StatusWritten, PKIInv, TypeOK, ObjRec
  <2>3. /\ rec' \in RecRec /\ rec'.pc \in {"idle", "finalizer"} /\ reg' \in BOOLEAN
        /\ timer' \in BOOLEAN
    BY ZenonT(40), <1>1, <1>2, <2>1, NothingType
       DEF StatusWritten, Follow, Requeue, RecRec, PKIInv, TypeOK
  <2>4. due' \in BOOLEAN /\ dest' = dest /\ live' = live /\ faults' = faults
        /\ cached' = cached /\ queue' = queue
    BY Zenon, <1>2 DEF StatusWritten, outside
  <2>5. TypeOK'
    BY Zenon, <2>1, <2>3, <2>4 DEF PKIInv, TypeOK
  <2> QED
    BY Zenon, <2>1, <2>2, <2>3, <2>4, <2>5 DEF PKIInv, ServedNotRevoked
<1>3. CASE StatusFailed
  <2>1. faults' \in 0..MaxFaults
    BY Zenon, <1>3, FaultType DEF StatusFailed, Answered, PKIInv, TypeOK
  <2> QED
    BY Zenon, <1>3, <2>1, EndKeeps DEF StatusFailed, Requeue, outside, PKIInv, TypeOK
<1> QED
  BY Zenon, <1>2, <1>3

LEMMA FinalizerKeeps == ASSUME PKIInv, FinalizerAdded \/ FinalizerFailed PROVE PKIInv'
<1>1. CASE FinalizerAdded
  <2>1. obj' \in ObjRec /\ obj'.st = obj.st
    BY Zenon, <1>1 DEF FinalizerAdded, PKIInv, TypeOK, ObjRec
  <2>2. rec' \in RecRec /\ rec'.pc = "idle" /\ reg' \in BOOLEAN /\ timer' = TRUE
    BY Zenon, <1>1, NothingType DEF FinalizerAdded, Follow, Requeue
  <2>3. /\ due' = due /\ dest' = dest /\ live' = live /\ faults' = faults
        /\ cached' = cached /\ queue' = queue
    BY Zenon, <1>1 DEF FinalizerAdded, outside
  <2>4. TypeOK'
    BY Zenon, <2>1, <2>2, <2>3 DEF PKIInv, TypeOK
  <2> QED
    BY Zenon, <2>1, <2>2, <2>3, <2>4 DEF PKIInv, ServedNotRevoked
<1>2. CASE FinalizerFailed
  <2>1. faults' \in 0..MaxFaults
    BY Zenon, <1>2, FaultType DEF FinalizerFailed, Answered, PKIInv, TypeOK
  <2> QED
    BY Zenon, <1>2, <2>1, EndKeeps DEF FinalizerFailed, Requeue, outside, PKIInv, TypeOK
<1> QED
  BY Zenon, <1>1, <1>2

LEMMA DeletionKeeps ==
  ASSUME PKIInv,
         FinalizerRemoved \/ FinalizerNotRemoved \/ Finalized \/ Cleared \/ FinalizeFailed
  PROVE  PKIInv'
<1>1. rec \in RecRec
  BY Zenon DEF PKIInv, TypeOK
<1>2. CASE FinalizerRemoved
  <2>1. obj' \in ObjRec /\ obj'.st = "finalized"
    BY Zenon, <1>2 DEF FinalizerRemoved, PKIInv, TypeOK, ObjRec
  <2>2. rec' \in RecRec /\ rec'.pc = "finalize"
    BY Zenon, <1>1, <1>2 DEF FinalizerRemoved, Goto, RecRec
  <2> QED
    BY Zenon, <1>2, <2>1, <2>2 DEF FinalizerRemoved, Goto, outside, PKIInv, TypeOK, ServedNotRevoked
<1>3. CASE FinalizerNotRemoved
  <2>1. faults' \in 0..MaxFaults
    BY Zenon, <1>3, FaultType DEF FinalizerNotRemoved, Answered, PKIInv, TypeOK
  <2> QED
    BY Zenon, <1>3, <2>1, EndKeeps DEF FinalizerNotRemoved, Requeue, outside, PKIInv, TypeOK
<1>4. CASE Finalized
  <2>1. /\ rec' \in RecRec /\ rec'.pc \in {"idle", "clear"} /\ timer' = timer /\ obj' = obj
        /\ obj.st = "finalized" /\ live' \subseteq live
    BY <1>1, <1>4, NothingType DEF Finalized, Goto, Done, RecRec, PKIInv
  <2>2. TypeOK'
    BY Zenon, <1>4, <2>1 DEF Finalized, outside, PKIInv, TypeOK
  <2> QED
    BY Zenon, <2>1, <2>2 DEF PKIInv, ServedNotRevoked
<1>5. CASE Cleared
  <2>1. dest' \in DestRec /\ obj' = obj /\ obj.st = "finalized"
    BY Zenon, <1>5 DEF Cleared, PKIInv, TypeOK, DestRec
  <2> QED
    BY Zenon, <1>5, <2>1, NothingType DEF Cleared, Done, outside, PKIInv, TypeOK, ServedNotRevoked
<1>6. CASE FinalizeFailed
  <2>1. faults' \in 0..MaxFaults
    BY Zenon, <1>6, FaultType DEF FinalizeFailed, Answered, PKIInv, TypeOK
  <2> QED
    BY Zenon, <1>6, <2>1, EndKeeps DEF FinalizeFailed, Done, outside, PKIInv, TypeOK
<1> QED
  BY Zenon, <1>2, <1>3, <1>4, <1>5, <1>6

\* What goes on around Reconcile leaves rec alone, and a present object's destination is only
\* changed to one without a certificate.
LEMMA AroundKeeps ==
  ASSUME PKIInv,
         \/ TimerFires \/ Informed \/ SpecChanged \/ MetaChanged \/ ObjDeleted \/ RenewalWindow
         \/ DestProvided \/ DestEdited \/ DestDeleted
  PROVE  PKIInv'
<1>1. rec' = rec /\ live' = live
  BY Zenon
     DEF TimerFires, Informed, SpecChanged, MetaChanged, ObjDeleted, RenewalWindow, DestProvided,
         DestEdited, DestDeleted
<1>2. obj' \in ObjRec /\ (obj.st = "finalized" => obj'.st = "finalized")
      /\ (obj'.st = "present" => obj.st = "present")
  <2>1. obj \in ObjRec
    BY Zenon DEF PKIInv, TypeOK
  <2>2. CASE obj' = obj
    BY Zenon, <2>1, <2>2
  <2>3. CASE SpecChanged \/ MetaChanged \/ ObjDeleted
    BY <2>1, <2>3, PKIAssumption DEF SpecChanged, MetaChanged, ObjDeleted, ObjRec
  <2> QED
    BY Zenon, <2>2, <2>3
       DEF TimerFires, Informed, RenewalWindow, DestProvided, DestEdited, DestDeleted
<1>3. /\ dest' \in DestRec \cup {None}
      /\ dest' = dest \/ dest' = None \/ dest'.cert = None
  <2>1. dest \in DestRec \cup {None}
    BY Zenon DEF PKIInv, TypeOK
  <2>2. CASE dest' = dest \/ dest' = None
    BY Zenon, <2>1, <2>2
  <2>3. CASE DestProvided \/ DestEdited
    BY <2>1, <2>3, PKIAssumption DEF DestProvided, DestEdited, DestRec
  <2> QED
    BY Zenon, <2>2, <2>3
       DEF TimerFires, Informed, SpecChanged, MetaChanged, ObjDeleted, RenewalWindow,
                      DestDeleted
<1>4. faults' \in 0..MaxFaults
  BY Zenon, FaultType DEF TimerFires, Informed, SpecChanged, MetaChanged, ObjDeleted, RenewalWindow,
                   DestProvided, DestEdited, DestDeleted, PKIInv, TypeOK
<1>5. /\ cached' \in ObjRec /\ due' \in BOOLEAN /\ reg' \in BOOLEAN /\ queue' \in BOOLEAN
      /\ timer' \in BOOLEAN
  BY Zenon DEF TimerFires, Informed, SpecChanged, MetaChanged, ObjDeleted, RenewalWindow,
         DestProvided, DestEdited, DestDeleted, PKIInv, TypeOK
<1>6. TypeOK'
  BY Zenon, <1>1, <1>2, <1>3, <1>4, <1>5 DEF PKIInv, TypeOK
<1>7. ServedNotRevoked'
  BY Zenon, <1>1, <1>2, <1>3 DEF PKIInv, ServedNotRevoked
<1> QED
  BY Zenon, <1>1, <1>2, <1>3, <1>6, <1>7 DEF PKIInv

LEMMA NextPKI == PKIInv /\ [Next]_vars => PKIInv'
<1> SUFFICES ASSUME PKIInv, [Next]_vars PROVE PKIInv'
  BY Zenon
<1>1. CASE Reconcile
  BY Zenon, <1>1, BeginKeeps, IssueKeeps, WriteKeeps, RevokeKeeps, StatusKeeps, FinalizerKeeps,
     DeletionKeeps DEF Reconcile
<1>2. CASE Restart
  BY Zenon, <1>2, EndKeeps, FaultType DEF Restart, PKIInv, TypeOK
<1>3. CASE UNCHANGED vars
  BY <1>3 DEF vars, PKIInv, TypeOK, ServedNotRevoked
<1> QED
  BY Zenon, <1>1, <1>2, <1>3, AroundKeeps DEF Next

\* Every variable keeps its type.
THEOREM TypeCorrect == Spec => []TypeOK
<1>1. PKIInv => TypeOK
  BY Zenon DEF PKIInv
<1> QED
  BY <1>1, InitPKI, NextPKI, PTL DEF Spec

\* The certificate in the destination of an existing object was not revoked.
THEOREM ServedIsNotRevoked == Spec => []ServedNotRevoked
<1>1. PKIInv => ServedNotRevoked
  BY Zenon DEF PKIInv
<1> QED
  BY <1>1, InitPKI, NextPKI, PTL DEF Spec
-----------------------------------------------------------------------------
\* What DeletionFinalizes asks for.
Finalizing ==
  /\ obj.mode.revoke => obj.serial \notin live
  /\ ~obj.mode.create /\ obj.mode.clear => dest = None \/ dest.cert = None

\* Why it holds.  A Reconcile that handles a deletion saw the object in deletion, and the informer's
\* copy does not go back: none that starts later works on the object as if it were present.  The
\* one that removed the finalizer did so from the last version of the object.
DeletionInv ==
  /\ PKIInv
  /\ obj.st = "present" => cached.st = "present"
  /\ rec.pc = "unfinalize" => rec.o.st = "deleting" /\ cached.st # "present"
  /\ obj.st = "finalized" => cached.st # "present"
                             /\ rec.pc \in {"idle", "unfinalize", "finalize", "clear"}
  /\ rec.pc \in {"finalize", "clear"} => rec.o.mode = obj.mode /\ rec.o.serial = obj.serial
  /\ rec.pc = "clear" => (obj.mode.revoke => obj.serial \notin live)
  /\ obj.st = "finalized" /\ rec.pc \in {"idle", "unfinalize"} /\ faults = 0 /\ obj.serial # None
       => Finalizing

LEMMA FaultCounts == ASSUME PKIInv, Fault PROVE faults' # 0
BY PKIAssumption DEF Fault, PKIInv, TypeOK

LEMMA InitDeletion == Init => DeletionInv
<1> SUFFICES ASSUME Init PROVE DeletionInv
  BY Zenon
<1>1. PICK m \in Modes : obj = NewObj(m)
  BY Zenon DEF Init
<1>2. obj.st = "present" /\ cached = obj /\ rec.pc = "idle"
  BY Zenon, <1>1, NothingType DEF Init, NewObj
<1> QED
  BY Zenon, <1>2, InitPKI DEF DeletionInv

\* A step of a Reconcile that works on the object, or begins to, while it is not finalized.
LEMMA WorkKeepsDeletion ==
  ASSUME DeletionInv, PKIInv', obj'.st = obj.st, cached' = cached, obj.st # "finalized",
         rec'.pc \notin {"unfinalize", "finalize", "clear"}
  PROVE  DeletionInv'
BY Zenon DEF DeletionInv

LEMMA SyncKeepsDeletion ==
  ASSUME DeletionInv, PKIInv',
         \/ \E e, v, t, w \in BOOLEAN : BeginPresent(e, v, t, w)
         \/ ClientFailed \/ Issued \/ IssueFailed \/ AnswerRefused \/ DestWritten \/ DestFailed
         \/ Revoked \/ RevokeFailed \/ StatusWritten \/ StatusFailed \/ FinalizerAdded
         \/ FinalizerFailed
  PROVE  DeletionInv'
<1>1. PKIInv /\ rec \in RecRec /\ obj \in ObjRec /\ cached \in ObjRec
  BY Zenon DEF DeletionInv, PKIInv, TypeOK
<1>2. cached' = cached
  BY Zenon DEF BeginPresent, Begin, ClientFailed, Issued, IssueFailed, AnswerRefused, DestWritten,
     DestFailed, Revoked, RevokeFailed, StatusWritten, StatusFailed, FinalizerAdded,
     FinalizerFailed, outside
<1>3. obj'.st = obj.st
  <2>1. CASE StatusWritten
    <3>1. rec.o \in ObjRec
      BY Zenon, <1>1 DEF RecRec
    <3>2. rec.o.st = obj.st
      BY Zenon, <1>1, <2>1 DEF StatusWritten, ObjRec
    <3>3. obj' = NewStatus /\ NewStatus.st = rec.o.st
      BY Zenon, <2>1, <3>1 DEF StatusWritten, NewStatus, ObjRec
    <3> QED
      BY Zenon, <3>2, <3>3
  <2>2. CASE FinalizerAdded
    BY Zenon, <1>1, <2>2 DEF FinalizerAdded, ObjRec
  <2>3. CASE obj' = obj
    BY Zenon, <2>3
  <2> QED
    BY Zenon, <2>1, <2>2, <2>3 DEF BeginPresent, Begin, ClientFailed, Issued, IssueFailed,
       AnswerRefused, DestWritten, DestFailed, Revoked, RevokeFailed, StatusFailed, FinalizerFailed
<1>4. obj.st # "finalized"
  <2>1. CASE \E e, v, t, w \in BOOLEAN : BeginPresent(e, v, t, w)
    BY Zenon, <2>1 DEF BeginPresent, DeletionInv
  <2>2. CASE rec.pc \notin {"idle", "unfinalize", "finalize", "clear"}
    BY Zenon, <2>2 DEF DeletionInv
  <2> QED
    BY Zenon, <2>1, <2>2 DEF ClientFailed, Issued, IssueFailed, AnswerRefused, DestWritten,
       DestFailed, Revoked, RevokeFailed, StatusWritten, StatusFailed, FinalizerAdded,
       FinalizerFailed
<1>5. rec'.pc \notin {"unfinalize", "finalize", "clear"}
  <2>1. CASE rec' = Nothing
    BY Zenon, <2>1, NothingType
  <2>2. CASE \E e, v, t, w \in BOOLEAN : BeginPresent(e, v, t, w)
    <3>1. \/ rec' = Nothing
          \/ rec' = [Idle(cached) EXCEPT !.pc = "status", !.then = "requeue"]
          \/ rec' = [Idle(cached) EXCEPT !.pc = "client"]
      BY Zenon, <2>2 DEF BeginPresent, Requeue
    <3> QED
      BY Zenon, <2>1, <3>1 DEF Idle
  <2>3. CASE Issued \/ IssueFailed \/ AnswerRefused \/ Revoked
    BY Zenon, <1>1, <2>3 DEF Issued, IssueFailed, AnswerRefused, Revoked, Goto, RecRec
  <2>4. CASE DestWritten \/ DestFailed
    <3>1. rec.o \in ObjRec /\ rec.cert \in Cert \cup {None}
      BY Zenon, <1>1 DEF RecRec
    <3>2. WithMAC \in RecRec
      BY Zenon, <1>1, <3>1 DEF WithMAC, RecRec, ObjRec
    <3> QED
      BY Zenon, <2>4, <3>2 DEF DestWritten, DestFailed, RecRec
  <2>5. CASE StatusWritten
    BY Zenon, <1>1, <2>1, <2>5 DEF StatusWritten, Follow, Requeue, RecRec
  <2> QED
    BY Zenon, <2>1, <2>2, <2>3, <2>4, <2>5
       DEF ClientFailed, RevokeFailed, StatusFailed, FinalizerAdded, FinalizerFailed, Follow,
          Requeue
<1> QED
  BY Zenon, <1>2, <1>3, <1>4, <1>5, WorkKeepsDeletion

\* A Reconcile of an object in deletion, or gone.
LEMMA BeginKeepsDeletion ==
  ASSUME DeletionInv, PKIInv', BeginGone \/ BeginDeleting
  PROVE  DeletionInv'
<1>1. /\ rec.pc = "idle" /\ obj' = obj /\ cached' = cached /\ dest' = dest /\ live' = live
      /\ faults' = faults
  BY Zenon DEF BeginGone, BeginDeleting, Begin
<1>2. Finalizing' = Finalizing
  BY Zenon, <1>1 DEF Finalizing
<1>3. rec'.pc \in {"idle", "unfinalize"}
      /\ (rec'.pc = "unfinalize" => rec'.o = cached /\ cached.st = "deleting")
  BY Zenon, NothingType DEF BeginGone, BeginDeleting, Done, Idle
<1> QED
  BY Zenon, <1>1, <1>2, <1>3 DEF DeletionInv

LEMMA FinalizerRemovedKeepsDeletion ==
  ASSUME DeletionInv, PKIInv', FinalizerRemoved
  PROVE  DeletionInv'
<1>1. obj \in ObjRec /\ rec \in RecRec
  BY Zenon DEF DeletionInv, PKIInv, TypeOK
<1>2. /\ rec.pc = "unfinalize" /\ rec.o = obj /\ cached' = cached
      /\ obj' = [obj EXCEPT !.fin = FALSE, !.st = "finalized"]
      /\ rec' = [rec EXCEPT !.pc = "finalize"]
  BY Zenon DEF FinalizerRemoved, Goto, outside
<1>3. obj'.st = "finalized" /\ obj'.mode = obj.mode /\ obj'.serial = obj.serial
  BY Zenon, <1>1, <1>2 DEF ObjRec
<1>4. rec'.pc = "finalize" /\ rec'.o = obj
  BY Zenon, <1>1, <1>2 DEF RecRec
<1> QED
  BY Zenon, <1>2, <1>3, <1>4 DEF DeletionInv

\* A Reconcile of the deletion ends: either it has done its part, or something failed.
LEMMA EndKeepsDeletion ==
  ASSUME DeletionInv, PKIInv', obj' = obj, cached' = cached, rec' = Nothing,
         rec.pc \in {"unfinalize", "finalize", "clear"},
         faults' = 0 /\ obj.st = "finalized" /\ obj.serial # None => Finalizing'
  PROVE  DeletionInv'
BY Zenon, NothingType DEF DeletionInv

LEMMA FinalizeKeepsDeletion ==
  ASSUME DeletionInv, PKIInv', FinalizerNotRemoved \/ Finalized \/ Cleared \/ FinalizeFailed
  PROVE  DeletionInv'
<1>1. /\ PKIInv /\ rec \in RecRec /\ obj' = obj /\ cached' = cached
      /\ rec.pc \in {"unfinalize", "finalize", "clear"}
  BY Zenon DEF DeletionInv, PKIInv, TypeOK, FinalizerNotRemoved, Finalized, Cleared, FinalizeFailed,
     outside
<1>2. CASE FinalizerNotRemoved
  <2>1. faults' = 0 => faults = 0
    BY Zenon, <1>1, <1>2, FaultCounts DEF FinalizerNotRemoved, Answered
  <2>2. Finalizing' = Finalizing /\ rec' = Nothing
    BY Zenon, <1>2 DEF FinalizerNotRemoved, Requeue, Finalizing
  <2>3. rec.pc = "unfinalize"
    BY Zenon, <1>2 DEF FinalizerNotRemoved
  <2>4. faults = 0 /\ obj.st = "finalized" /\ obj.serial # None => Finalizing
    BY Zenon, <2>3 DEF DeletionInv
  <2> QED
    BY Zenon, <1>1, <2>1, <2>2, <2>4, EndKeepsDeletion
<1>3. ASSUME rec.pc \in {"finalize", "clear"}
      PROVE  obj.st = "finalized" /\ rec.o.mode = obj.mode /\ rec.o.serial = obj.serial
  BY Zenon, <1>3 DEF DeletionInv, PKIInv
<1>4. CASE Finalized
  <2>1. /\ rec.pc = "finalize" /\ dest' = dest
        /\ live' = IF obj.mode.revoke THEN live \ {obj.serial} ELSE live
        /\ IF ~obj.mode.create /\ obj.mode.clear THEN Goto("clear") ELSE Done
    BY Zenon, <1>3, <1>4 DEF Finalized
  <2>2. obj.mode.revoke => obj.serial \notin live'
    BY Zenon, <2>1
  <2>3. CASE ~obj.mode.create /\ obj.mode.clear
    <3>1. rec'.pc = "clear" /\ rec'.o = rec.o
      BY Zenon, <1>1, <2>1, <2>3 DEF Goto, RecRec
    <3> QED
      BY Zenon, <1>1, <1>3, <2>1, <2>2, <3>1 DEF DeletionInv
  <2>4. CASE ~(~obj.mode.create /\ obj.mode.clear)
    <3>1. rec' = Nothing
      BY Zenon, <2>1, <2>4 DEF Done
    <3>2. Finalizing'
      BY Zenon, <1>1, <2>2, <2>4 DEF Finalizing
    <3> QED
      BY Zenon, <1>1, <3>1, <3>2, EndKeepsDeletion
  <2> QED
    BY Zenon, <2>3, <2>4
<1>5. ASSUME rec.pc = "clear" PROVE obj.mode.revoke => obj.serial \notin live
  BY Zenon, <1>5 DEF DeletionInv
<1>6. CASE Cleared
  <2>1. rec.pc = "clear" /\ dest # None /\ dest' = [dest EXCEPT !.cert = None] /\ live' = live
        /\ rec' = Nothing
    BY Zenon, <1>6 DEF Cleared, Done
  <2>2. dest'.cert = None
    BY Zenon, <1>1, <2>1 DEF PKIInv, TypeOK, DestRec
  <2>3. Finalizing'
    BY Zenon, <1>1, <1>5, <2>1, <2>2 DEF Finalizing
  <2> QED
    BY Zenon, <1>1, <2>1, <2>3, EndKeepsDeletion
<1>7. CASE FinalizeFailed
  <2>1. dest' = dest /\ live' = live /\ rec' = Nothing
    BY Zenon, <1>7 DEF FinalizeFailed, Done
  <2>2. faults' = 0 => \/ rec.pc = "finalize" /\ rec.o.serial = None
                       \/ rec.pc = "clear" /\ dest = None
    BY Zenon, <1>1, <1>7, FaultCounts DEF FinalizeFailed, Answered
  <2>3. faults' = 0 /\ obj.serial # None => Finalizing'
    BY Zenon, <1>1, <1>3, <1>5, <2>1, <2>2 DEF Finalizing
  <2> QED
    BY Zenon, <1>1, <2>1, <2>3, EndKeepsDeletion
<1> QED
  BY Zenon, <1>2, <1>4, <1>6, <1>7

LEMMA AroundKeepsDeletion ==
  ASSUME DeletionInv, PKIInv',
         \/ TimerFires \/ Informed \/ SpecChanged \/ MetaChanged \/ ObjDeleted \/ RenewalWindow
         \/ DestProvided \/ DestEdited \/ DestDeleted
  PROVE  DeletionInv'
<1>1. PKIInv /\ rec' = rec /\ live' = live /\ obj \in ObjRec
  BY Zenon
     DEF TimerFires, Informed, SpecChanged, MetaChanged, ObjDeleted, RenewalWindow, DestProvided,
         DestEdited, DestDeleted, DeletionInv, PKIInv, TypeOK
<1>2. CASE SpecChanged \/ MetaChanged \/ ObjDeleted
  <2>1. /\ obj.st = "present" /\ cached' = cached /\ obj'.st \in {"present", "deleting", "gone"}
        /\ obj'.st = "present" => cached.st = "present"
    BY Zenon, <1>1, <1>2 DEF SpecChanged, MetaChanged, ObjDeleted, ObjRec, DeletionInv
  <2>2. rec.pc \notin {"finalize", "clear"}
    BY Zenon, <1>1, <2>1 DEF PKIInv
  <2> QED
    BY Zenon, <1>1, <2>1, <2>2 DEF DeletionInv
<1>3. CASE Informed
  <2>1. obj' = obj /\ cached' = obj /\ faults' = faults /\ dest' = dest
    BY Zenon, <1>3 DEF Informed
  <2>2. Finalizing' = Finalizing
    BY Zenon, <1>1, <2>1 DEF Finalizing
  <2> QED
    BY Zenon, <1>1, <2>1, <2>2 DEF DeletionInv
<1>4. CASE TimerFires \/ RenewalWindow
  <2>1. obj' = obj /\ cached' = cached /\ faults' = faults /\ dest' = dest
    BY Zenon, <1>4 DEF TimerFires, RenewalWindow
  <2>2. Finalizing' = Finalizing
    BY Zenon, <1>1, <2>1 DEF Finalizing
  <2> QED
    BY Zenon, <1>1, <2>1, <2>2 DEF DeletionInv
<1>5. CASE DestProvided \/ DestEdited \/ DestDeleted
  <2>1. obj' = obj /\ cached' = cached /\ (obj.st = "present" \/ faults' # 0)
    BY Zenon, <1>1, <1>5, FaultCounts DEF DestProvided, DestEdited, DestDeleted
  <2> QED
    BY Zenon, <1>1, <2>1 DEF DeletionInv
<1> QED
  BY Zenon, <1>2, <1>3, <1>4, <1>5

LEMMA NextDeletion == DeletionInv /\ [Next]_vars => DeletionInv'
<1> SUFFICES ASSUME DeletionInv, [Next]_vars PROVE DeletionInv'
  BY Zenon
<1>1. PKIInv /\ PKIInv'
  BY Zenon, NextPKI DEF DeletionInv
<1>2. CASE Reconcile
  BY Zenon, <1>1, <1>2, SyncKeepsDeletion, BeginKeepsDeletion, FinalizerRemovedKeepsDeletion,
     FinalizeKeepsDeletion DEF Reconcile
<1>3. CASE Restart
  <2>1. obj' = obj /\ cached' = obj /\ rec' = Nothing /\ faults' # 0
    BY Zenon, <1>1, <1>3, FaultCounts DEF Restart
  <2> QED
    BY Zenon, <1>1, <2>1, NothingType DEF DeletionInv
<1>4. CASE UNCHANGED vars
  <2>1. UNCHANGED <<obj, cached, rec, faults, dest, live>>
    BY Zenon, <1>4 DEF vars
  <2> QED
    BY Zenon, <1>1, <2>1 DEF DeletionInv, Finalizing
<1> QED
  BY Zenon, <1>1, <1>2, <1>3, <1>4, AroundKeepsDeletion DEF Next

\* Without failures and restarts, a deleted object's certificate is revoked and its destination
\* cleared, as its spec asks, once the Reconcile that removed its finalizer has ended.
THEOREM DeletionIsFinalized == Spec => []DeletionFinalizes
<1>1. DeletionInv => DeletionFinalizes
  BY Zenon DEF DeletionInv, DeletionFinalizes, Finalizing
<1> QED
  BY <1>1, InitDeletion, NextDeletion, PTL DEF Spec
=============================================================================
