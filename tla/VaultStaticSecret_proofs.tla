---------------------- MODULE VaultStaticSecret_proofs ----------------------
(***************************************************************************)
(* Proofs about VaultStaticSecret, for any number of watchers, changes,    *)
(* errors and restarts.                                                    *)
(***************************************************************************)
EXTENDS VaultStaticSecret, TLAPS

\* A watcher that has seen too many errors is on its way to its end.
ErrsBound ==
  \A x \in Watcher : w[x].pc \notin {"requeue", "close"} => w[x].errs < errorThreshold

TypeInv == TypeOK /\ ErrsBound

LEMMA ObjType == ASSUME NEW inst \in BOOLEAN PROVE NewObj(inst) \in ObjRec
BY VSSAssumption DEF NewObj, ObjRec

LEMMA IdleType == Idle \in RecRec /\ Idle.pc = "idle"
<1>1. 0 \in 0..MaxTok /\ 0 \in 0..MaxVal
  BY VSSAssumption
<1>2. NewObj(FALSE) \in ObjRec
  BY Zenon, ObjType
<1> QED
  BY Zenon, <1>1, <1>2 DEF Idle, RecRec

LEMMA FreeType == Free \in WatcherRec /\ Free.pc = "free" /\ Free.errs < errorThreshold
<1>1. 0 \in 0..MaxTok /\ 0 \in 0..MaxGen /\ 0 \in 0..errorThreshold /\ 0 < errorThreshold
  BY VSSAssumption
<1> QED
  BY Zenon, <1>1 DEF Free, WatcherRec

LEMMA InitTypes == Init => TypeInv
<1> SUFFICES ASSUME Init PROVE TypeInv
  BY Zenon
<1>1. obj \in ObjRec /\ cached \in ObjRec
  BY Zenon, ObjType DEF Init
<1>2. dest \in (0..MaxVal) \cup {None} /\ val \in 1..MaxVal /\ tok \in 1..MaxTok
  BY VSSAssumption DEF Init
<1>3. queue \in BOOLEAN /\ timer \in BOOLEAN /\ rec \in RecRec /\ reg \in Watcher \cup {None}
  BY Zenon, IdleType DEF Init
<1>4. w \in [Watcher -> WatcherRec] /\ ErrsBound
  BY Zenon, FreeType DEF Init, ErrsBound
<1>5. NoMeta \in [gen: 0..MaxGen, tok: 0..MaxTok] /\ restarts \in 0..MaxRestarts
  BY VSSAssumption DEF NoMeta, Init
<1>6. meta \in [Watcher -> [gen: 0..MaxGen, tok: 0..MaxTok]]
  BY Zenon, <1>5 DEF Init
<1> QED
  BY Zenon, <1>1, <1>2, <1>3, <1>4, <1>5, <1>6 DEF TypeInv, TypeOK

\* Watcher x is where it was, and runs with what it ran with.
Alike(x) ==
  /\ w'[x].pc = w[x].pc /\ w'[x].gen = w[x].gen /\ w'[x].tok = w[x].tok
  /\ w'[x].errs = w[x].errs /\ w'[x].held = w[x].held
  /\ w[x].cancelled => w'[x].cancelled

\* What a Reconcile does to the watchers, other than starting one, is to cancel the registered one.
Cancelling ==
  /\ w' \in [Watcher -> WatcherRec]
  /\ \A x \in Watcher : Alike(x)
  /\ w' = w \/ w'[reg].cancelled

LEMMA CancelType ==
  ASSUME NEW r \in WatcherRec PROVE [r EXCEPT !.cancelled = TRUE] \in WatcherRec
BY Zenon DEF WatcherRec

LEMMA CancelEffect ==
  ASSUME TypeOK, \/ w' = w
                 \/ reg \in Watcher /\ w' = [w EXCEPT ![reg].cancelled = TRUE]
  PROVE  Cancelling
<1>1. w \in [Watcher -> WatcherRec]
  BY Zenon DEF TypeOK
<1>2. CASE w' = w
  <2>1. w' \in [Watcher -> WatcherRec]
    BY Zenon, <1>1, <1>2
  <2>2. ASSUME NEW x \in Watcher PROVE Alike(x)
    <3>1. w'[x] = w[x]
      BY Zenon, <1>2
    <3> QED
      BY Zenon, <3>1 DEF Alike
  <2>3. w' = w \/ w'[reg].cancelled
    BY Zenon, <1>2
  <2> QED
    BY Zenon, <2>1, <2>2, <2>3 DEF Cancelling
<1>3. CASE reg \in Watcher /\ w' = [w EXCEPT ![reg].cancelled = TRUE]
  <2>0. w[reg] \in WatcherRec
    BY Zenon, <1>1, <1>3
  <2>1. [w[reg] EXCEPT !.cancelled = TRUE] \in WatcherRec
    BY Zenon, <2>0, CancelType
  <2>2. w' \in [Watcher -> WatcherRec] /\ w'[reg].cancelled
    BY Zenon, <1>1, <1>3, <2>1 DEF WatcherRec
  <2>3. ASSUME NEW x \in Watcher PROVE Alike(x)
    <3>1. CASE x = reg
      BY Zenon, <1>1, <1>3, <3>1 DEF WatcherRec, Alike
    <3>2. CASE x # reg
      BY Zenon, <1>1, <1>3, <3>2 DEF Alike
    <3> QED
      BY Zenon, <3>1, <3>2
  <2> QED
    BY Zenon, <2>2, <2>3 DEF Cancelling
<1> QED
  BY Zenon, <1>2, <1>3

LEMMA UnwatchEffect == ASSUME TypeOK, unWatchEvents PROVE Cancelling
BY Zenon, CancelEffect DEF unWatchEvents, TypeOK

LEMMA NewStatusType == ASSUME TypeOK PROVE NewStatus \in ObjRec
<1>1. rec.o \in ObjRec /\ rec.val \in 0..MaxVal
  BY Zenon DEF TypeOK, RecRec
<1>2. rec.o.gen \in 0..MaxGen
  BY <1>1, VSSAssumption DEF ObjRec
<1> QED
  BY Zenon, <1>1, <1>2 DEF NewStatus, ObjRec

LEMMA ReconcileTypes == ASSUME TypeInv, Reconcile PROVE TypeInv'
<1>1. TypeOK /\ ErrsBound /\ rec \in RecRec /\ obj \in ObjRec /\ cached \in ObjRec
  BY Zenon DEF TypeInv, TypeOK
<1>2. rec' \in RecRec
  <2>1. CASE rec' = Idle
    BY Zenon, <2>1, IdleType
  <2>2. CASE Begin
    BY Zenon, <1>1, <2>2, IdleType DEF Begin, Done, RecRec
  <2>3. CASE ClientGot \/ SecretRead
    <3>1. tok \in 0..MaxTok /\ val \in 0..MaxVal
      BY <1>1, VSSAssumption DEF TypeOK
    <3> QED
      BY Zenon, <1>1, <2>3, <3>1 DEF ClientGot, SecretRead, RecRec
  <2>4. CASE SecretSynced
    <3>1. (Hmac /\ doSync /\ rec.o.mac # 0) \in BOOLEAN
      BY Zenon
    <3> QED
      BY Zenon, <1>1, <2>4, <3>1 DEF SecretSynced, RecRec
  <2>5. CASE \E pc \in {"status", "start"} : rec' = [rec EXCEPT !.pc = pc]
    BY Zenon, <1>1, <2>5 DEF RecRec
  <2>6. CASE rec' = [rec EXCEPT !.pc = "wait", !.w = reg]
    BY Zenon, <1>1, <2>6 DEF RecRec, TypeOK
  <2>7. CASE rec' = [rec EXCEPT !.pc = "start", !.w = None]
    BY Zenon, <1>1, <2>7 DEF RecRec
  <2>8. CASE StatusWritten \/ StatusFailed
    <3>1. PICK o \in ObjRec : AfterStatus(o)
      BY Zenon, <1>1, <2>8, NewStatusType DEF StatusWritten, StatusFailed, RecRec
    <3> QED
      BY Zenon, <1>1, <2>1, <3>1 DEF AfterStatus, Finish, Requeue, Done, RecRec
  <2> QED
    BY Zenon, <2>1, <2>2, <2>3, <2>4, <2>5, <2>6, <2>7, <2>8
       DEF Reconcile, ReconcileFailed, Unwatched, WatcherFound, WatcherNotFound, WatcherStopped,
           WatcherStarted, WatcherNotStarted, FinalizerAdded, FinalizerRemoved, FinalizerFailed,
           Goto, Finish, Requeue, Done
<1>3. obj' \in ObjRec
  <2>1. CASE FinalizerAdded \/ FinalizerRemoved
    BY Zenon, <1>1, <2>1 DEF FinalizerAdded, FinalizerRemoved, ObjRec
  <2>2. CASE StatusWritten
    BY Zenon, <1>1, <2>2, NewStatusType DEF StatusWritten
  <2>3. CASE obj' = obj
    BY Zenon, <1>1, <2>3
  <2> QED
    BY Zenon, <2>1, <2>2, <2>3
       DEF Reconcile, Begin, ClientGot, SecretRead, ReconcileFailed, SecretSynced, Unwatched,
           WatcherFound, WatcherNotFound, WatcherStopped, WatcherStarted, WatcherNotStarted,
           StatusFailed, FinalizerFailed
<1>4. /\ w' \in [Watcher -> WatcherRec] /\ ErrsBound' /\ reg' \in Watcher \cup {None}
      /\ meta' \in [Watcher -> [gen: 0..MaxGen, tok: 0..MaxTok]]
  <2>1. CASE UNCHANGED watchers
    BY Zenon, <1>1, <2>1 DEF watchers, TypeOK, ErrsBound
  <2>2. CASE unWatchEvents
    BY Zenon, <1>1, <2>2, UnwatchEffect DEF unWatchEvents, Cancelling, Alike, TypeOK, ErrsBound
  <2>3. CASE WatcherFound
    <3>1. Cancelling
      BY Zenon, <1>1, <2>3, CancelEffect DEF WatcherFound, TypeOK
    <3> QED
      BY Zenon, <1>1, <2>3, <3>1 DEF WatcherFound, Cancelling, Alike, TypeOK, ErrsBound
  <2>4. CASE WatcherStarted
    <3>1. PICK x \in Unused :
            /\ w' = [w EXCEPT ![x] = [Free EXCEPT !.pc = "loop", !.gen = rec.o.gen, !.tok = rec.tok]]
            /\ meta' = [meta EXCEPT ![x] = [gen |-> rec.o.gen, tok |-> rec.tok]]
            /\ reg' = x
      BY Zenon, <2>4 DEF WatcherStarted
    <3>2. rec.o.gen \in 1..MaxGen /\ rec.tok \in 0..MaxTok /\ x \in Watcher
      BY Zenon, <1>1, <3>1 DEF RecRec, ObjRec, Unused
    <3>3. rec.o.gen \in 0..MaxGen
      BY <3>2, VSSAssumption
    <3> DEFINE r == [Free EXCEPT !.pc = "loop", !.gen = rec.o.gen, !.tok = rec.tok]
    <3>4. r \in WatcherRec /\ r.errs < errorThreshold
      BY Zenon, <3>2, <3>3, FreeType DEF WatcherRec
    <3>5. [gen |-> rec.o.gen, tok |-> rec.tok] \in [gen: 0..MaxGen, tok: 0..MaxTok]
      BY Zenon, <3>2, <3>3
    <3>6. w' = [w EXCEPT ![x] = r]
      BY Zenon, <3>1
    <3> HIDE DEF r
    <3> QED
      BY Zenon, <1>1, <3>1, <3>2, <3>4, <3>5, <3>6 DEF TypeOK, ErrsBound
  <2> QED
    BY Zenon, <2>1, <2>2, <2>3, <2>4
       DEF Reconcile, Begin, ClientGot, SecretRead, ReconcileFailed, SecretSynced, Unwatched,
           WatcherNotFound, WatcherStopped, WatcherNotStarted, StatusWritten, StatusFailed,
           FinalizerAdded, FinalizerRemoved, FinalizerFailed
<1>5. dest' \in (0..MaxVal) \cup {None}
  <2>1. CASE SecretSynced
    BY Zenon, <1>1, <2>1 DEF SecretSynced, RecRec, TypeOK
  <2>2. CASE dest' = dest
    BY Zenon, <1>1, <2>2 DEF TypeOK
  <2> QED
    BY Zenon, <2>1, <2>2
       DEF Reconcile, Begin, ClientGot, SecretRead, ReconcileFailed, Unwatched,
           WatcherFound, WatcherNotFound, WatcherStopped, WatcherStarted, WatcherNotStarted,
           StatusWritten, StatusFailed, FinalizerAdded, FinalizerRemoved, FinalizerFailed, world
<1>6. cached' = cached /\ val' = val /\ tok' = tok /\ restarts' = restarts
  BY Zenon DEF Reconcile, Begin, ClientGot, SecretRead, ReconcileFailed, SecretSynced, Unwatched,
     WatcherFound, WatcherNotFound, WatcherStopped, WatcherStarted, WatcherNotStarted,
     StatusWritten, StatusFailed, FinalizerAdded, FinalizerRemoved, FinalizerFailed, world
<1>7. queue' \in BOOLEAN /\ timer' \in BOOLEAN
  BY Zenon, <1>1 DEF TypeOK, Reconcile, Begin, ClientGot, SecretRead, ReconcileFailed, SecretSynced,
     Unwatched, WatcherFound, WatcherNotFound, WatcherStopped, WatcherStarted, WatcherNotStarted,
     StatusWritten, StatusFailed, FinalizerAdded, FinalizerRemoved, FinalizerFailed, AfterStatus,
     Goto, Finish, Requeue, Done
<1> QED
  BY Zenon, <1>1, <1>2, <1>3, <1>4, <1>5, <1>6, <1>7 DEF TypeInv, TypeOK

\* A step of a watcher that leaves the registry, and what the watcher runs with, alone.
Moves(x) ==
  \E r \in WatcherRec :
    /\ w' = [w EXCEPT ![x] = r]
    /\ w[x].pc \notin {"free", "lookup"} /\ r.pc \notin {"free", "lookup", "register"}
    /\ r.gen = w[x].gen /\ r.tok = w[x].tok /\ r.cancelled = w[x].cancelled
    /\ r.pc \notin {"requeue", "close"} => r.errs < errorThreshold
    /\ UNCHANGED <<meta, reg>>

LEMMA MoveEffect ==
  ASSUME TypeInv, NEW x \in Watcher, w[x].pc \notin {"free", "lookup"},
         NEW p \in {"loop", "connect", "stream", "error", "requeue", "close"},
         w[x].pc \notin {"requeue", "close"} \/ p = "close",
         NEW e \in BOOLEAN,
         \/ w' = [w EXCEPT ![x].pc = p]
         \/ w' = [w EXCEPT ![x].pc = p, ![x].event = e],
         UNCHANGED <<meta, reg>>
  PROVE  Moves(x)
<1>1. w \in [Watcher -> WatcherRec] /\ w[x] \in WatcherRec
  BY Zenon DEF TypeInv, TypeOK
<1>2. p \notin {"requeue", "close"} => w[x].errs < errorThreshold
  BY Zenon DEF TypeInv, ErrsBound
<1>3. PICK f \in BOOLEAN : w' = [w EXCEPT ![x] = [w[x] EXCEPT !.pc = p, !.event = f]]
  <2>1. CASE w' = [w EXCEPT ![x].pc = p]
    <3>1. [w[x] EXCEPT !.pc = p] = [w[x] EXCEPT !.pc = p, !.event = w[x].event]
      BY Zenon, <1>1 DEF WatcherRec
    <3>2. w[x].event \in BOOLEAN
      BY Zenon, <1>1 DEF WatcherRec
    <3> QED
      BY Zenon, <1>1, <2>1, <3>1, <3>2
  <2>2. CASE w' = [w EXCEPT ![x].pc = p, ![x].event = e]
    BY Zenon, <1>1, <2>2
  <2> QED
    BY Zenon, <2>1, <2>2
<1> DEFINE r == [w[x] EXCEPT !.pc = p, !.event = f]
<1>4. /\ r \in WatcherRec /\ r.pc = p /\ r.gen = w[x].gen /\ r.tok = w[x].tok
      /\ r.cancelled = w[x].cancelled /\ r.errs = w[x].errs
  BY Zenon, <1>1 DEF WatcherRec
<1>5. w' = [w EXCEPT ![x] = r]
  BY Zenon, <1>3
<1> HIDE DEF r
<1>6. r.pc \notin {"free", "lookup", "register"}
  BY Zenon, <1>4
<1> QED
  BY Zenon, <1>2, <1>4, <1>5, <1>6 DEF Moves

LEMMA StreamErrorMoves == ASSUME TypeInv, NEW x \in Watcher, StreamError(x) PROVE Moves(x)
<1>1. w \in [Watcher -> WatcherRec] /\ w[x] \in WatcherRec /\ w[x].pc = "error"
  BY Zenon DEF TypeInv, TypeOK, StreamError
<1>2. w[x].errs < errorThreshold /\ w[x].errs \in 0..errorThreshold
  BY Zenon, <1>1 DEF TypeInv, ErrsBound, WatcherRec
<1> DEFINE n == w[x].errs + 1
           p == IF n >= errorThreshold THEN "requeue" ELSE "client"
           r == [w[x] EXCEPT !.errs = n, !.pc = p]
<1>3. n \in 0..errorThreshold /\ (p # "requeue" => n < errorThreshold)
  BY <1>2, VSSAssumption
<1>4. w' = [w EXCEPT ![x] = r]
  BY Zenon, <1>1 DEF StreamError
<1>5. p \in {"requeue", "client"}
  BY Zenon
<1> HIDE DEF n, p
<1>6. /\ r \in WatcherRec /\ r.pc = p /\ r.gen = w[x].gen /\ r.tok = w[x].tok
      /\ r.cancelled = w[x].cancelled /\ r.errs = n
  BY Zenon, <1>1, <1>3, <1>5 DEF WatcherRec
<1>7. UNCHANGED <<meta, reg>>
  BY Zenon DEF StreamError
<1>8. r.pc \notin {"free", "lookup", "register"}
  BY Zenon, <1>5, <1>6
<1> HIDE DEF r
<1> QED
  BY Zenon, <1>1, <1>3, <1>4, <1>6, <1>7, <1>8 DEF Moves

\* The steps of a watcher that are more than a move.
Tells(x) == NewClient(x) \/ LookUp(x) \/ Register(x) \/ Closed(x)

LEMMA GetEventsMoves == ASSUME TypeInv, NEW x \in Watcher, getEvents(x) PROVE Moves(x) \/ Tells(x)
<1>1. CASE LoopCancelled(x) \/ Loop(x) \/ LoopGivesUp(x)
  BY Zenon, <1>1, MoveEffect DEF LoopCancelled, Loop, LoopGivesUp
<1>2. CASE Connected(x) \/ StreamFailed(x) \/ StreamClosed(x) \/ StreamCancelled(x)
  BY Zenon, <1>2, MoveEffect DEF Connected, StreamFailed, StreamClosed, StreamCancelled
<1>3. CASE EventReceived(x)
  <2>1. w \in [Watcher -> WatcherRec] /\ w[x] \in WatcherRec /\ w[x].pc = "stream"
    BY Zenon, <1>3 DEF TypeInv, TypeOK, EventReceived
  <2>2. [w EXCEPT ![x].event = FALSE] = [w EXCEPT ![x].pc = "stream", ![x].event = FALSE]
    BY Zenon, <2>1 DEF WatcherRec
  <2> QED
    BY Zenon, <1>3, <2>2, MoveEffect DEF EventReceived
<1>4. CASE StreamError(x)
  BY Zenon, <1>4, StreamErrorMoves
<1>5. CASE NewClientFailed(x) \/ RequeueSent(x)
  BY Zenon, <1>5, MoveEffect DEF NewClientFailed, RequeueSent
<1> QED
  BY Zenon, <1>1, <1>2, <1>3, <1>4, <1>5 DEF getEvents, Tells

LEMMA GetEventsElsewhere ==
  ASSUME NEW x \in Watcher, getEvents(x)
  PROVE  UNCHANGED Elsewhere /\ (timer' = timer \/ timer' = TRUE)
BY Zenon DEF getEvents, LoopCancelled, Loop, LoopGivesUp, Connected, EventReceived, StreamFailed,
   StreamClosed, StreamCancelled, StreamError, NewClient, NewClientFailed, LookUp, Register,
   RequeueSent, Closed

\* What the telling steps put into w.
LEMMA TellsRecord ==
  ASSUME TypeInv, NEW x \in Watcher, Tells(x)
  PROVE  \E r \in WatcherRec :
           /\ w' = [w EXCEPT ![x] = r]
           /\ r.pc \notin {"requeue", "close"} => r.errs < errorThreshold
           /\ r.pc # "free" => r.gen = w[x].gen /\ r.cancelled = w[x].cancelled
           /\ NewClient(x) => w[x].pc = "client" /\ r.pc = "lookup"
           /\ LookUp(x) => /\ w[x].pc = "lookup" /\ r.tok = w[x].tok
                           /\ reg = None => r.pc = "requeue"
                           /\ reg # None => r.pc = "register" /\ r.held = reg
           /\ Register(x) => w[x].pc = "register" /\ r.pc = "loop" /\ r.tok = w[x].tok
           /\ Closed(x) => w[x].pc = "close" /\ r.pc = "free"
<1>1. w \in [Watcher -> WatcherRec] /\ w[x] \in WatcherRec /\ reg \in Watcher \cup {None}
  BY Zenon DEF TypeInv, TypeOK
<1>2. w[x].pc \notin {"requeue", "close"} => w[x].errs < errorThreshold
  BY Zenon DEF TypeInv, ErrsBound
<1>3. tok \in 0..MaxTok
  BY VSSAssumption DEF TypeInv, TypeOK
<1>4. CASE NewClient(x)
  <2> DEFINE r == [w[x] EXCEPT !.pc = "lookup", !.tok = tok]
  <2>1. w[x].pc = "client" /\ ~LookUp(x) /\ ~Register(x) /\ ~Closed(x)
    BY Zenon, <1>4 DEF NewClient, LookUp, Register, Closed
  <2>2. w' = [w EXCEPT ![x] = r]
    BY Zenon, <1>1, <1>4 DEF NewClient
  <2>3. /\ r \in WatcherRec /\ r.pc = "lookup" /\ r.gen = w[x].gen /\ r.errs = w[x].errs
        /\ r.cancelled = w[x].cancelled
    BY Zenon, <1>1, <1>3 DEF WatcherRec
  <2> HIDE DEF r
  <2>4. r.errs < errorThreshold
    BY Zenon, <1>2, <2>1, <2>3
  <2> QED
    BY Zenon, <2>1, <2>2, <2>3, <2>4
<1>5. CASE LookUp(x)
  <2>1. w[x].pc = "lookup" /\ ~NewClient(x) /\ ~Register(x) /\ ~Closed(x)
    BY Zenon, <1>5 DEF NewClient, LookUp, Register, Closed
  <2>2. w[x].errs < errorThreshold
    BY Zenon, <1>2, <2>1
  <2>3. CASE reg = None
    <3> DEFINE r == [w[x] EXCEPT !.pc = "requeue"]
    <3>1. w' = [w EXCEPT ![x] = r]
      BY Zenon, <1>5, <2>3 DEF LookUp
    <3>2. /\ r \in WatcherRec /\ r.pc = "requeue" /\ r.gen = w[x].gen /\ r.tok = w[x].tok
          /\ r.cancelled = w[x].cancelled
      BY Zenon, <1>1 DEF WatcherRec
    <3> HIDE DEF r
    <3> QED
      BY Zenon, <2>1, <2>3, <3>1, <3>2
  <2>4. CASE reg # None
    <3> DEFINE r == [w[x] EXCEPT !.pc = "register", !.held = reg]
    <3>1. w' = [w EXCEPT ![x] = r]
      BY Zenon, <1>1, <1>5, <2>4 DEF LookUp
    <3>2. /\ r \in WatcherRec /\ r.pc = "register" /\ r.gen = w[x].gen /\ r.tok = w[x].tok
          /\ r.cancelled = w[x].cancelled /\ r.held = reg /\ r.errs = w[x].errs
      BY Zenon, <1>1 DEF WatcherRec
    <3> HIDE DEF r
    <3> QED
      BY Zenon, <2>1, <2>2, <2>4, <3>1, <3>2
  <2> QED
    BY Zenon, <2>3, <2>4
<1>6. CASE Register(x)
  <2> DEFINE r == [w[x] EXCEPT !.pc = "loop", !.held = None]
  <2>1. w[x].pc = "register" /\ ~NewClient(x) /\ ~LookUp(x) /\ ~Closed(x)
    BY Zenon, <1>6 DEF NewClient, LookUp, Register, Closed
  <2>2. w' = [w EXCEPT ![x] = r]
    BY Zenon, <1>1, <1>6 DEF Register
  <2>3. /\ r \in WatcherRec /\ r.pc = "loop" /\ r.gen = w[x].gen /\ r.tok = w[x].tok
        /\ r.cancelled = w[x].cancelled /\ r.errs = w[x].errs
    BY Zenon, <1>1 DEF WatcherRec
  <2> HIDE DEF r
  <2>4. r.errs < errorThreshold
    BY Zenon, <1>2, <2>1, <2>3
  <2> QED
    BY Zenon, <2>1, <2>2, <2>3, <2>4
<1>7. CASE Closed(x)
  <2>1. w[x].pc = "close" /\ ~NewClient(x) /\ ~LookUp(x) /\ ~Register(x)
    BY Zenon, <1>7 DEF NewClient, LookUp, Register, Closed
  <2>2. w' = [w EXCEPT ![x] = Free]
    BY Zenon, <1>7 DEF Closed
  <2> QED
    BY Zenon, <2>1, <2>2, FreeType
<1> QED
  BY Zenon, <1>4, <1>5, <1>6, <1>7 DEF Tells

LEMMA GetEventsTypes == ASSUME TypeInv, NEW x \in Watcher, getEvents(x) PROVE TypeInv'
<1>1. TypeOK /\ ErrsBound /\ w \in [Watcher -> WatcherRec]
  BY Zenon DEF TypeInv, TypeOK
<1>2. PICK r \in WatcherRec : /\ w' = [w EXCEPT ![x] = r]
                              /\ r.pc \notin {"requeue", "close"} => r.errs < errorThreshold
  BY Zenon, GetEventsMoves, TellsRecord DEF Moves
<1>3. w' \in [Watcher -> WatcherRec] /\ ErrsBound'
  BY Zenon, <1>1, <1>2 DEF ErrsBound
<1>4. reg' \in Watcher \cup {None}
  <2>1. CASE Moves(x)
    BY Zenon, <1>1, <2>1 DEF Moves, TypeOK
  <2>2. CASE Tells(x)
    BY Zenon, <1>1, <2>2 DEF Tells, NewClient, LookUp, Register, Closed, TypeOK, WatcherRec
  <2> QED
    BY Zenon, <2>1, <2>2, GetEventsMoves
<1>5. meta' \in [Watcher -> [gen: 0..MaxGen, tok: 0..MaxTok]]
  <2>1. CASE LookUp(x) /\ reg # None
    <3>1. w[x].tok \in 0..MaxTok /\ reg \in Watcher
      BY Zenon, <1>1, <2>1 DEF TypeOK, WatcherRec
    <3>2. [meta[reg] EXCEPT !.tok = w[x].tok] \in [gen: 0..MaxGen, tok: 0..MaxTok]
      BY Zenon, <1>1, <3>1 DEF TypeOK
    <3> QED
      BY Zenon, <1>1, <2>1, <3>2 DEF LookUp, TypeOK
  <2>2. CASE meta' = meta
    BY Zenon, <1>1, <2>2 DEF TypeOK
  <2> QED
    BY Zenon, <2>1, <2>2, GetEventsMoves DEF Moves, Tells, NewClient, LookUp, Register, Closed
<1>6. timer' \in BOOLEAN /\ UNCHANGED Elsewhere
  BY Zenon, <1>1, GetEventsElsewhere DEF TypeOK
<1> QED
  BY Zenon, <1>1, <1>3, <1>4, <1>5, <1>6 DEF TypeInv, TypeOK, Elsewhere

\* The machinery and the environment.
Around ==
  \/ InformerDelivers \/ TimerFires
  \/ \E inst \in BOOLEAN : SpecChanged(inst)
  \/ ObjDeleted \/ SecretModified \/ ClientReplaced \/ DestEdited \/ DestDeleted \/ Restart

LEMMA ModifiedEffect ==
  ASSUME TypeOK, SecretModified
  PROVE  /\ w' \in [Watcher -> WatcherRec]
         /\ \A x \in Watcher : Alike(x) /\ w'[x].cancelled = w[x].cancelled
<1>1. w \in [Watcher -> WatcherRec]
  BY Zenon DEF TypeOK
<1>2. ASSUME NEW x \in Watcher
      PROVE  /\ [w[x] EXCEPT !.event = TRUE] \in WatcherRec
             /\ w'[x] = w[x] \/ w'[x] = [w[x] EXCEPT !.event = TRUE]
  BY Zenon, <1>1, <1>2 DEF SecretModified, WatcherRec
<1>3. w' \in [Watcher -> WatcherRec]
  BY Zenon, <1>1, <1>2 DEF SecretModified
<1>4. ASSUME NEW x \in Watcher PROVE Alike(x) /\ w'[x].cancelled = w[x].cancelled
  <2>1. CASE w'[x] = w[x]
    BY Zenon, <2>1 DEF Alike
  <2>2. CASE w'[x] = [w[x] EXCEPT !.event = TRUE]
    <3>1. w[x] \in WatcherRec
      BY Zenon, <1>1
    <3> DEFINE r == [w[x] EXCEPT !.event = TRUE]
    <3>2. /\ r.pc = w[x].pc /\ r.gen = w[x].gen /\ r.tok = w[x].tok
          /\ r.errs = w[x].errs /\ r.held = w[x].held /\ r.cancelled = w[x].cancelled
      BY Zenon, <3>1 DEF WatcherRec
    <3>3. w'[x] = r
      BY Zenon, <2>2
    <3> HIDE DEF r
    <3> QED
      BY Zenon, <3>2, <3>3 DEF Alike
  <2> QED
    BY Zenon, <1>2, <2>1, <2>2
<1> QED
  BY Zenon, <1>3, <1>4

LEMMA AroundTypes == ASSUME TypeInv, Around PROVE TypeInv'
<1>1. TypeOK /\ ErrsBound /\ obj \in ObjRec /\ cached \in ObjRec
  BY Zenon DEF TypeInv, TypeOK
<1>2. obj' \in ObjRec /\ cached' \in ObjRec
  <2>1. ASSUME NEW inst \in BOOLEAN, SpecChanged(inst) PROVE obj' \in ObjRec /\ cached' \in ObjRec
    <3>1. obj.gen + 1 \in 1..MaxGen
      BY <1>1, <2>1, VSSAssumption DEF SpecChanged, ObjRec
    <3> QED
      BY Zenon, <1>1, <2>1, <3>1 DEF SpecChanged, ObjRec
  <2>2. CASE ObjDeleted
    BY Zenon, <1>1, <2>2 DEF ObjDeleted, ObjRec
  <2> QED
    BY Zenon, <1>1, <2>1, <2>2 DEF Around, InformerDelivers, TimerFires, SecretModified,
       ClientReplaced, DestEdited, DestDeleted, Restart
<1>3. dest' \in (0..MaxVal) \cup {None} /\ val' \in 1..MaxVal /\ tok' \in 1..MaxTok
  <2>1. CASE SecretModified
    BY <1>1, <2>1, VSSAssumption DEF SecretModified, TypeOK
  <2>2. CASE ClientReplaced
    BY <1>1, <2>2, VSSAssumption DEF ClientReplaced, TypeOK
  <2>3. CASE DestEdited
    BY <1>1, <2>3, VSSAssumption DEF DestEdited, TypeOK
  <2> QED
    BY Zenon, <1>1, <2>1, <2>2, <2>3 DEF TypeOK, Around, InformerDelivers, TimerFires, SpecChanged,
       ObjDeleted, DestDeleted, Restart, world
<1>4. queue' \in BOOLEAN /\ timer' \in BOOLEAN /\ rec' \in RecRec
  BY Zenon, <1>1, IdleType DEF TypeOK, Around, InformerDelivers, TimerFires, SpecChanged,
     ObjDeleted, SecretModified, ClientReplaced, DestEdited, DestDeleted, Restart
<1>5. /\ w' \in [Watcher -> WatcherRec] /\ ErrsBound' /\ reg' \in Watcher \cup {None}
      /\ meta' \in [Watcher -> [gen: 0..MaxGen, tok: 0..MaxTok]]
  <2>1. CASE SecretModified
    BY Zenon, <1>1, <2>1, ModifiedEffect DEF SecretModified, Alike, TypeOK, ErrsBound
  <2>2. CASE Restart
    BY Zenon, <1>1, <2>2, FreeType DEF Restart, TypeOK, ErrsBound
  <2>3. CASE UNCHANGED watchers
    BY Zenon, <1>1, <2>3 DEF watchers, TypeOK, ErrsBound
  <2> QED
    BY Zenon, <2>1, <2>2, <2>3 DEF Around, InformerDelivers, TimerFires, SpecChanged,
       ObjDeleted, ClientReplaced, DestEdited, DestDeleted
<1>6. restarts' \in 0..MaxRestarts
  <2>1. CASE Restart
    BY <1>1, <2>1, VSSAssumption DEF Restart, TypeOK
  <2> QED
    BY Zenon, <1>1, <2>1 DEF TypeOK, Around, InformerDelivers, TimerFires, SpecChanged,
       ObjDeleted, SecretModified, ClientReplaced, DestEdited, DestDeleted, world
<1> QED
  BY Zenon, <1>2, <1>3, <1>4, <1>5, <1>6 DEF TypeInv, TypeOK

LEMMA TypesStep == TypeInv /\ [Next]_vars => TypeInv'
<1> SUFFICES ASSUME TypeInv, [Next]_vars PROVE TypeInv'
  BY Zenon
<1>1. CASE UNCHANGED vars
  BY Zenon, <1>1 DEF TypeInv, TypeOK, ErrsBound, vars
<1>2. ASSUME NEW x \in Watcher, getEvents(x) PROVE TypeInv'
  BY Zenon, <1>2, GetEventsTypes
<1> QED
  BY Zenon, <1>1, <1>2, ReconcileTypes, AroundTypes DEF Next, Around

\* Every variable of VaultStaticSecret keeps its type: in particular the errors that getEvents
\* counts never pass errorThreshold, since the one that reaches it ends the goroutine.
THEOREM TypeCorrect == Spec => []TypeOK
<1>1. Init => TypeInv
  BY InitTypes
<1>2. TypeInv /\ [Next]_vars => TypeInv'
  BY TypesStep
<1>3. TypeInv => TypeOK
  BY Zenon DEF TypeInv
<1> QED
  BY <1>1, <1>2, <1>3, PTL DEF Spec
-----------------------------------------------------------------------------
\* What the properties of the registry are about: instant updates are not switched, and a
\* cancelled watcher stops within the time that ensureEventWatcher waits for it.
SteadyWatching == "toggle" \notin Events /\ "waitTimeout" \notin Events

\* Where a Reconcile is that found the object present.
Present == {"client", "read", "sync", "watch", "wait", "start", "status", "finalizer"}

\* The copies of the object agree on instant updates, and the informer's is never ahead.
CopiesAgree ==
  /\ obj.st = "present" => cached.st = "present"
  /\ cached.inst = obj.inst
  /\ rec.pc # "idle" => rec.o.inst = obj.inst
  /\ rec.pc \in {"wait", "start"} => rec.o.inst

\* At most one watcher runs, and the registry refers to it or to none.
OneWatcher ==
  /\ \A x, y \in Watcher : Running(x) /\ Running(y) => x = y
  /\ reg # None => Running(reg)
  /\ \A x \in Watcher : w[x].pc = "register" => w[x].held = x

\* It runs for an object with instant updates.  It is the registered one, or an object that is
\* being deleted has had it cancelled.
Owned(x) ==
  /\ obj.inst
  /\ reg = x \/ (w[x].cancelled /\ cached.st # "present" /\ rec.pc \notin Present)
  /\ rec.pc = "wait" => x = rec.w
  /\ rec.pc # "start"
  /\ rec.pc = "unfinalize" => w[x].cancelled

\* The registry has what it runs with, unless it is cancelled.
Recorded(x) ==
  w[x].cancelled \/ ( /\ meta[x].gen = w[x].gen
                      /\ w[x].pc # "lookup" => meta[x].tok = w[x].tok )

WatchersOwned == \A x \in Watcher : Running(x) => Owned(x) /\ Recorded(x)

\* The inductive invariant for the registry.
WatcherInv ==
  /\ CopiesAgree
  /\ OneWatcher
  /\ WatchersOwned
  /\ rec.pc = "unfinalize" => cached.st # "present"

LEMMA WatcherInvInit == Init => WatcherInv
<1> SUFFICES ASSUME Init PROVE WatcherInv
  BY Zenon
<1>1. PICK inst \in BOOLEAN : obj = NewObj(inst)
  BY Zenon DEF Init
<1>2. cached = obj /\ rec.pc = "idle" /\ reg = None
  BY Zenon, IdleType DEF Init
<1>3. \A x \in Watcher : w[x].pc = "free" /\ ~Running(x)
  BY Zenon, FreeType DEF Init, Running
<1>4. CopiesAgree
  BY Zenon, <1>2 DEF CopiesAgree
<1>5. OneWatcher
  BY Zenon, <1>2, <1>3 DEF OneWatcher
<1> QED
  BY Zenon, <1>2, <1>3, <1>4, <1>5 DEF WatcherInv, WatchersOwned

\* A step that does not start, stop or move a watcher, but may take one out of the registry.
LEMMA WatchersKept ==
  ASSUME WatcherInv, \A x \in Watcher : Alike(x), meta' = meta, reg' \in {reg, None},
         reg \in Watcher \cup {None}
  PROVE  OneWatcher' /\ \A x \in Watcher : Running(x)' => Running(x) /\ Recorded(x)'
<1>1. \A x \in Watcher : Running(x)' <=> Running(x)
  BY Zenon DEF Running, Alike
<1>2. OneWatcher'
  <2>1. OneWatcher
    BY Zenon DEF WatcherInv
  <2>2. \A x, y \in Watcher : Running(x)' /\ Running(y)' => x = y
    BY Zenon, <1>1, <2>1 DEF OneWatcher
  <2>3. \A x \in Watcher : w'[x].pc = "register" => w'[x].held = x
    BY Zenon, <2>1 DEF OneWatcher, Alike
  <2>4. reg' # None => w'[reg'].pc # "free"
    BY Zenon, <2>1 DEF OneWatcher, Running, Alike
  <2> QED
    BY Zenon, <2>2, <2>3, <2>4 DEF OneWatcher, Running
<1>3. ASSUME NEW x \in Watcher, Running(x)' PROVE Running(x) /\ Recorded(x)'
  <2>1. Running(x) /\ Recorded(x)
    BY Zenon, <1>1, <1>3 DEF WatcherInv, WatchersOwned
  <2>2. w'[x].pc = w[x].pc /\ w'[x].gen = w[x].gen /\ w'[x].tok = w[x].tok
    BY Zenon DEF Alike
  <2>3. w[x].cancelled => w'[x].cancelled
    BY Zenon DEF Alike
  <2> QED
    BY Zenon, <2>1, <2>2, <2>3 DEF Recorded
<1> QED
  BY Zenon, <1>2, <1>3

LEMMA SameAlike == ASSUME w' = w PROVE \A x \in Watcher : Alike(x)
<1> SUFFICES ASSUME NEW x \in Watcher PROVE Alike(x)
  BY Zenon
<1>1. w'[x] = w[x]
  BY Zenon
<1> QED
  BY Zenon, <1>1 DEF Alike

\* A Reconcile goes on, away from the watchers, or ends.
LEMMA ReconcileMoves ==
  ASSUME WatcherInv, TypeOK, UNCHANGED watchers, cached' = cached,
         obj'.inst = obj.inst, obj'.st = "present" => obj.st = "present",
         \/ rec'.pc = "idle"
         \/ /\ rec.pc \in Present /\ rec'.pc \in Present \ {"wait", "start"}
            /\ rec'.o.inst = rec.o.inst
  PROVE  WatcherInv'
<1>1. reg' = reg /\ meta' = meta /\ w' = w
  BY Zenon DEF watchers
<1>2. OneWatcher' /\ \A x \in Watcher : Running(x)' => Running(x) /\ Recorded(x)'
  BY Zenon, <1>1, SameAlike, WatchersKept DEF TypeOK
<1>3. rec'.pc \notin {"wait", "start", "unfinalize"}
  BY Zenon DEF Present
<1>4. rec.pc \in Present => rec.pc # "idle"
  BY Zenon DEF Present
<1>5. CopiesAgree'
  BY Zenon, <1>3, <1>4 DEF WatcherInv, CopiesAgree
<1>6. ASSUME NEW x \in Watcher, Running(x) PROVE Owned(x)'
  <2>1. Owned(x)
    BY Zenon, <1>6 DEF WatcherInv, WatchersOwned
  <2>2. obj'.inst
    BY Zenon, <2>1 DEF Owned
  <2>3. rec'.pc \in Present => rec.pc \in Present
    BY Zenon DEF Present
  <2>4. reg' = x \/ (w'[x].cancelled /\ cached'.st # "present" /\ rec'.pc \notin Present)
    BY Zenon, <1>1, <2>1, <2>3 DEF Owned
  <2> QED
    BY Zenon, <1>3, <2>2, <2>4 DEF Owned
<1> QED
  BY Zenon, <1>2, <1>3, <1>5, <1>6 DEF WatcherInv, WatchersOwned

LEMMA QuietKeepsWatchers ==
  ASSUME WatcherInv, TypeOK,
         \/ ClientGot \/ SecretRead \/ ReconcileFailed \/ SecretSynced \/ WatcherNotStarted
         \/ StatusWritten \/ StatusFailed \/ FinalizerAdded \/ FinalizerRemoved \/ FinalizerFailed
  PROVE  WatcherInv'
<1>1. rec \in RecRec /\ obj \in ObjRec /\ rec.o \in ObjRec
  BY Zenon DEF TypeOK, RecRec
<1>2. UNCHANGED watchers /\ cached' = cached
  BY Zenon DEF ClientGot, SecretRead, ReconcileFailed, SecretSynced, WatcherNotStarted,
     StatusWritten, StatusFailed, FinalizerAdded, FinalizerRemoved, FinalizerFailed
<1>3. obj'.inst = obj.inst /\ (obj'.st = "present" => obj.st = "present")
  <2>1. CASE StatusWritten
    <3>1. NewStatus.inst = rec.o.inst /\ NewStatus.st = rec.o.st
      BY Zenon, <1>1 DEF NewStatus, ObjRec
    <3> QED
      BY Zenon, <2>1, <3>1 DEF StatusWritten
  <2>2. CASE FinalizerAdded
    BY Zenon, <1>1, <2>2 DEF FinalizerAdded, ObjRec
  <2>3. CASE FinalizerRemoved
    BY Zenon, <1>1, <2>3 DEF FinalizerRemoved, ObjRec
  <2>4. CASE obj' = obj
    BY Zenon, <2>4
  <2> QED
    BY Zenon, <2>1, <2>2, <2>3, <2>4
       DEF ClientGot, SecretRead, ReconcileFailed, SecretSynced, WatcherNotStarted, StatusFailed,
           FinalizerFailed
<1>4. \/ rec'.pc = "idle"
      \/ /\ rec.pc \in Present /\ rec'.pc \in Present \ {"wait", "start"}
         /\ rec'.o.inst = rec.o.inst
  <2>1. CASE rec' = Idle
    BY Zenon, <2>1, IdleType
  <2>2. CASE ClientGot \/ SecretRead \/ SecretSynced
    BY Zenon, <1>1, <2>2 DEF ClientGot, SecretRead, SecretSynced, RecRec, Present
  <2>3. CASE WatcherNotStarted
    BY Zenon, <1>1, <2>3 DEF WatcherNotStarted, Goto, RecRec, Present
  <2>4. CASE StatusWritten \/ StatusFailed
    <3>1. NewStatus.inst = rec.o.inst
      BY Zenon, <1>1 DEF NewStatus, ObjRec
    <3>2. PICK o \in {NewStatus, rec.o} : AfterStatus(o)
      BY Zenon, <2>4 DEF StatusWritten, StatusFailed
    <3>3. rec.pc = "status" /\ o.inst = rec.o.inst
      BY Zenon, <2>4, <3>1, <3>2 DEF StatusWritten, StatusFailed
    <3>4. CASE rec' = [rec EXCEPT !.pc = "finalizer", !.o = o]
      BY Zenon, <1>1, <3>3, <3>4 DEF RecRec, Present
    <3> QED
      BY Zenon, <2>1, <3>2, <3>4 DEF AfterStatus, Finish, Requeue, Done
  <2> QED
    BY Zenon, <2>1, <2>2, <2>3, <2>4
       DEF ReconcileFailed, FinalizerAdded, FinalizerRemoved, FinalizerFailed, Finish, Requeue, Done
<1> QED
  BY Zenon, <1>2, <1>3, <1>4, ReconcileMoves

\* A Reconcile begins; it unregisters and cancels the watcher of an object that is being deleted.
LEMMA BeginKeepsWatchers == ASSUME WatcherInv, TypeOK, Begin PROVE WatcherInv'
<1>1. cached' = cached /\ obj' = obj /\ reg \in Watcher \cup {None}
  BY Zenon DEF Begin, TypeOK
<1>2. CopiesAgree /\ WatchersOwned /\ rec.pc = "idle"
  BY Zenon DEF WatcherInv, Begin
<1>3. CASE cached.st = "gone" /\ Done /\ UNCHANGED watchers
  <2>1. rec'.pc = "idle"
    BY Zenon, <1>3, IdleType DEF Done
  <2>2. obj'.inst = obj.inst /\ (obj'.st = "present" => obj.st = "present")
    BY Zenon, <1>1
  <2> QED
    BY Zenon, <1>1, <1>3, <2>1, <2>2, ReconcileMoves
<1>4. CASE /\ cached.st = "deleting"
           /\ unWatchEvents
           /\ IF cached.fin
              THEN rec' = [Idle EXCEPT !.pc = "unfinalize", !.o = cached] /\ UNCHANGED timer
              ELSE Done
  <2>1. rec'.pc \in {"idle", "unfinalize"} /\ (rec'.pc # "idle" => rec'.o = cached)
    <3>1. CASE rec' = [Idle EXCEPT !.pc = "unfinalize", !.o = cached]
      BY Zenon, <3>1, IdleType DEF RecRec
    <3> QED
      BY Zenon, <1>4, <3>1, IdleType DEF Done
  <2>2. /\ \A x \in Watcher : Alike(x)
        /\ meta' = meta /\ reg' = None
    BY Zenon, <1>4, UnwatchEffect DEF unWatchEvents, Cancelling
  <2>3. OneWatcher' /\ \A x \in Watcher : Running(x)' => Running(x) /\ Recorded(x)'
    BY Zenon, <1>1, <2>2, WatchersKept
  <2>4. rec'.pc \notin Present /\ rec'.pc \notin {"wait", "start"}
    BY Zenon, <2>1 DEF Present
  <2>5. CopiesAgree'
    BY Zenon, <1>1, <1>2, <2>1, <2>4 DEF CopiesAgree
  <2>6. ASSUME NEW x \in Watcher, Running(x) PROVE Owned(x)'
    <3>1. Owned(x)
      BY Zenon, <1>2, <2>6 DEF WatchersOwned
    <3>2. w'[x].cancelled
      <4>1. CASE reg = x
        <5>1. w' = [w EXCEPT ![x].cancelled = TRUE]
          BY Zenon, <1>4, <2>6, <4>1, VSSAssumption DEF unWatchEvents
        <5> QED
          BY Zenon, <5>1 DEF TypeOK, WatcherRec
      <4>2. CASE reg # x
        BY Zenon, <2>2, <3>1, <4>2 DEF Owned, Alike
      <4> QED
        BY Zenon, <4>1, <4>2
    <3> QED
      BY Zenon, <1>1, <1>4, <2>4, <3>1, <3>2 DEF Owned
  <2> QED
    BY Zenon, <1>1, <1>4, <2>3, <2>5, <2>6 DEF WatcherInv, WatchersOwned
<1>5. CASE /\ cached.st = "present"
           /\ rec' = [Idle EXCEPT !.pc = "client", !.o = cached] /\ UNCHANGED timer
           /\ UNCHANGED watchers
  <2>1. rec'.pc = "client" /\ rec'.o = cached
    BY Zenon, <1>5, IdleType DEF RecRec
  <2>2. reg' = reg /\ meta' = meta /\ w' = w
    BY Zenon, <1>5 DEF watchers
  <2>3. OneWatcher' /\ \A x \in Watcher : Running(x)' => Running(x) /\ Recorded(x)'
    BY Zenon, <1>1, <2>2, SameAlike, WatchersKept
  <2>4. CopiesAgree'
    BY Zenon, <1>1, <1>2, <2>1 DEF CopiesAgree
  <2>5. ASSUME NEW x \in Watcher, Running(x) PROVE Owned(x)'
    <3>1. obj.inst /\ reg = x
      BY Zenon, <1>2, <1>5, <2>5 DEF WatchersOwned, Owned
    <3> QED
      BY Zenon, <1>1, <2>1, <2>2, <3>1 DEF Owned
  <2> QED
    BY Zenon, <2>1, <2>3, <2>4, <2>5 DEF WatcherInv, WatchersOwned
<1> QED
  BY Zenon, <1>3, <1>4, <1>5 DEF Begin

LEMMA UnwatchedKeepsWatchers == ASSUME WatcherInv, TypeOK, Unwatched PROVE WatcherInv'
<1>1. /\ cached' = cached /\ obj' = obj /\ rec.pc = "watch" /\ ~rec.o.inst /\ reg' = None
      /\ rec \in RecRec /\ CopiesAgree
  BY Zenon DEF Unwatched, unWatchEvents, TypeOK, WatcherInv
<1>2. rec'.pc = "status" /\ rec'.o = rec.o
  BY Zenon, <1>1 DEF Unwatched, Goto, RecRec
<1>3. CopiesAgree'
  BY Zenon, <1>1, <1>2 DEF CopiesAgree
<1>4. \A x \in Watcher : ~Running(x)
  BY Zenon, <1>1 DEF CopiesAgree, WatcherInv, WatchersOwned, Owned
<1>5. \A x \in Watcher : Alike(x)
  BY Zenon, UnwatchEffect DEF Unwatched, Cancelling
<1>6. \A x \in Watcher : ~Running(x)'
  BY Zenon, <1>4, <1>5 DEF Running, Alike
<1> QED
  BY Zenon, <1>1, <1>2, <1>3, <1>6 DEF WatcherInv, OneWatcher, WatchersOwned, Running

LEMMA FoundKeepsWatchers == ASSUME WatcherInv, TypeOK, WatcherFound PROVE WatcherInv'
<1>1. /\ cached' = cached /\ obj' = obj /\ rec.pc = "watch" /\ rec.o.inst
      /\ rec \in RecRec /\ CopiesAgree /\ reg' = reg /\ meta' = meta /\ reg \in Watcher
  BY Zenon DEF WatcherFound, TypeOK, WatcherInv
<1>2. CASE Goto("status") /\ UNCHANGED w
  <2>1. rec'.pc = "status" /\ rec'.o = rec.o
    BY Zenon, <1>1, <1>2 DEF Goto, RecRec
  <2>2. /\ rec.pc \in Present /\ rec'.pc \in Present \ {"wait", "start"}
        /\ rec'.o.inst = rec.o.inst
    BY Zenon, <1>1, <2>1 DEF Present
  <2>3. obj'.inst = obj.inst /\ (obj'.st = "present" => obj.st = "present") /\ UNCHANGED watchers
    BY Zenon, <1>1, <1>2 DEF watchers
  <2> QED
    BY Zenon, <1>1, <2>2, <2>3, ReconcileMoves
<1>3. CASE /\ w' = IF Running(reg) THEN [w EXCEPT ![reg].cancelled = TRUE] ELSE w
           /\ rec' = [rec EXCEPT !.pc = "wait", !.w = reg] /\ UNCHANGED timer
  <2>1. rec'.pc = "wait" /\ rec'.o = rec.o /\ rec'.w = reg
    BY Zenon, <1>1, <1>3 DEF RecRec
  <2>2. \A x \in Watcher : Alike(x)
    BY Zenon, <1>1, <1>3, CancelEffect DEF Cancelling
  <2>3. OneWatcher' /\ \A x \in Watcher : Running(x)' => Running(x) /\ Recorded(x)'
    BY Zenon, <1>1, <2>2, WatchersKept
  <2>4. CopiesAgree'
    BY Zenon, <1>1, <2>1 DEF CopiesAgree
  <2>5. ASSUME NEW x \in Watcher, Running(x) PROVE Owned(x)'
    <3>1. obj.inst /\ reg = x
      BY Zenon, <1>1, <2>5 DEF WatcherInv, WatchersOwned, Owned, Present
    <3> QED
      BY Zenon, <1>1, <2>1, <3>1 DEF Owned
  <2> QED
    BY Zenon, <2>1, <2>3, <2>4, <2>5 DEF WatcherInv, WatchersOwned
<1> QED
  BY Zenon, <1>2, <1>3 DEF WatcherFound

\* ensureEventWatcher comes to the start of a new watcher only when none is left.
LEMMA ReadyKeepsWatchers ==
  ASSUME SteadyWatching, WatcherInv, TypeOK, WatcherNotFound \/ WatcherStopped
  PROVE  WatcherInv'
<1>1. /\ cached' = cached /\ obj' = obj /\ rec.pc \in {"watch", "wait"} /\ rec.o.inst
      /\ rec \in RecRec /\ CopiesAgree /\ UNCHANGED watchers
  BY Zenon DEF WatcherNotFound, WatcherStopped, TypeOK, WatcherInv, CopiesAgree
<1>2. rec'.pc = "start" /\ rec'.o = rec.o
  BY Zenon, <1>1 DEF WatcherNotFound, WatcherStopped, Goto, RecRec
<1>3. CopiesAgree'
  BY Zenon, <1>1, <1>2 DEF CopiesAgree
<1>4. \A x \in Watcher : ~Running(x)
  <2>1. CASE WatcherNotFound
    BY Zenon, <2>1, VSSAssumption
       DEF WatcherNotFound, WatcherInv, WatchersOwned, Owned, Present
  <2>2. CASE WatcherStopped
    BY Zenon, <2>2 DEF WatcherStopped, SteadyWatching, WatcherInv, WatchersOwned, Owned
  <2> QED
    BY Zenon, <2>1, <2>2
<1>5. reg = None
  BY Zenon, <1>4 DEF WatcherInv, OneWatcher, TypeOK
<1>6. reg' = None /\ w' = w
  BY Zenon, <1>1, <1>5 DEF watchers
<1>7. \A x \in Watcher : ~Running(x)'
  BY Zenon, <1>4, <1>6 DEF Running
<1> QED
  BY Zenon, <1>2, <1>3, <1>6, <1>7 DEF WatcherInv, OneWatcher, WatchersOwned, Running

LEMMA StartedKeepsWatchers == ASSUME WatcherInv, TypeOK, WatcherStarted PROVE WatcherInv'
<1>1. /\ cached' = cached /\ obj' = obj /\ rec.pc = "start" /\ rec.o.inst /\ obj.inst
      /\ rec \in RecRec /\ CopiesAgree
  BY Zenon DEF WatcherStarted, TypeOK, WatcherInv, CopiesAgree
<1>2. rec'.pc = "status" /\ rec'.o = rec.o
  BY Zenon, <1>1 DEF WatcherStarted, Goto, RecRec
<1>3. CopiesAgree'
  BY Zenon, <1>1, <1>2 DEF CopiesAgree
<1>4. \A x \in Watcher : w[x].pc = "free"
  BY Zenon, <1>1 DEF WatcherInv, WatchersOwned, Owned, Running
<1>5. PICK x \in Watcher :
        /\ w' = [w EXCEPT ![x] = [Free EXCEPT !.pc = "loop", !.gen = rec.o.gen, !.tok = rec.tok]]
        /\ meta' = [meta EXCEPT ![x] = [gen |-> rec.o.gen, tok |-> rec.tok]]
        /\ reg' = x
  BY Zenon DEF WatcherStarted, Unused
<1> DEFINE r == [Free EXCEPT !.pc = "loop", !.gen = rec.o.gen, !.tok = rec.tok]
           m == [gen |-> rec.o.gen, tok |-> rec.tok]
<1>6. r.pc = "loop" /\ r.gen = m.gen /\ r.tok = m.tok
  BY Zenon, FreeType DEF WatcherRec
<1>7. w' = [w EXCEPT ![x] = r] /\ meta' = [meta EXCEPT ![x] = m]
  BY Zenon, <1>5
<1> HIDE DEF r, m
<1>8. w'[x] = r /\ meta'[x] = m /\ \A y \in Watcher : y # x => w'[y] = w[y]
  BY Zenon, <1>7 DEF TypeOK
<1>9. \A y \in Watcher : Running(y)' <=> y = x
  BY Zenon, <1>4, <1>6, <1>8 DEF Running
<1>10. OneWatcher'
  <2>1. w'[reg'].pc # "free"
    BY Zenon, <1>5, <1>6, <1>8
  <2>2. \A y \in Watcher : w'[y].pc # "register"
    BY Zenon, <1>4, <1>6, <1>8
  <2>3. \A y, z \in Watcher : Running(y)' /\ Running(z)' => y = z
    BY Zenon, <1>9
  <2> QED
    BY Zenon, <2>1, <2>2, <2>3 DEF OneWatcher, Running
<1>11. Owned(x)' /\ Recorded(x)'
  BY Zenon, <1>1, <1>2, <1>5, <1>6, <1>8 DEF Owned, Recorded
<1>12. WatchersOwned'
  BY Zenon, <1>9, <1>11 DEF WatchersOwned
<1> QED
  BY Zenon, <1>2, <1>3, <1>10, <1>12 DEF WatcherInv

LEMMA ReconcileKeepsWatchers ==
  ASSUME SteadyWatching, WatcherInv, TypeOK, Reconcile PROVE WatcherInv'
BY Zenon, QuietKeepsWatchers, BeginKeepsWatchers, UnwatchedKeepsWatchers, FoundKeepsWatchers,
   ReadyKeepsWatchers, StartedKeepsWatchers DEF Reconcile

\* A step of watcher x that keeps it running, and the registry as it is or on x.
LEMMA WatcherSteps ==
  ASSUME WatcherInv, TypeOK, NEW x \in Watcher, NEW r \in WatcherRec,
         w' = [w EXCEPT ![x] = r], w[x].pc # "free", r.pc # "free",
         r.cancelled = w[x].cancelled, r.pc = "register" => r.held = x,
         reg' = reg, Recorded(x)', \A y \in Watcher : y # x => meta'[y] = meta[y],
         UNCHANGED Elsewhere
  PROVE  WatcherInv'
<1>1. w'[x] = r /\ \A y \in Watcher : y # x => w'[y] = w[y]
  BY Zenon DEF TypeOK
<1>2. obj' = obj /\ cached' = cached /\ rec' = rec
  BY Zenon DEF Elsewhere
<1>3. \A y \in Watcher : Running(y)' <=> Running(y)
  BY Zenon, <1>1 DEF Running
<1>4. CopiesAgree'
  BY Zenon, <1>2 DEF WatcherInv, CopiesAgree
<1>5. OneWatcher'
  <2>1. OneWatcher
    BY Zenon DEF WatcherInv
  <2>2. reg' # None => w'[reg'].pc # "free"
    BY Zenon, <1>3, <2>1 DEF OneWatcher, Running, TypeOK
  <2>3. \A y, z \in Watcher : Running(y)' /\ Running(z)' => y = z
    BY Zenon, <1>3, <2>1 DEF OneWatcher
  <2>4. \A y \in Watcher : w'[y].pc = "register" => w'[y].held = y
    BY Zenon, <1>1, <2>1 DEF OneWatcher
  <2> QED
    BY Zenon, <2>2, <2>3, <2>4 DEF OneWatcher, Running
<1>6. ASSUME NEW y \in Watcher, Running(y) PROVE Owned(y)' /\ Recorded(y)'
  <2>1. y = x
    BY Zenon, <1>6 DEF WatcherInv, OneWatcher, Running
  <2>2. Owned(y) /\ w'[y].cancelled = w[y].cancelled
    BY Zenon, <1>1, <1>6, <2>1 DEF WatcherInv, WatchersOwned
  <2> QED
    BY Zenon, <1>2, <2>1, <2>2 DEF Owned
<1> QED
  BY Zenon, <1>2, <1>3, <1>4, <1>5, <1>6 DEF WatcherInv, WatchersOwned

LEMMA MovesKeepWatchers ==
  ASSUME WatcherInv, TypeOK, NEW x \in Watcher, Moves(x), UNCHANGED Elsewhere PROVE WatcherInv'
<1>1. PICK r \in WatcherRec :
        /\ w' = [w EXCEPT ![x] = r]
        /\ w[x].pc \notin {"free", "lookup"} /\ r.pc \notin {"free", "lookup", "register"}
        /\ r.gen = w[x].gen /\ r.tok = w[x].tok /\ r.cancelled = w[x].cancelled
        /\ meta' = meta /\ reg' = reg
  BY Zenon DEF Moves
<1>2. w'[x] = r
  BY Zenon, <1>1 DEF TypeOK
<1>3. Recorded(x)
  BY Zenon, <1>1 DEF WatcherInv, WatchersOwned, Running
<1>4. Recorded(x)'
  BY Zenon, <1>1, <1>2, <1>3 DEF Recorded
<1> QED
  BY Zenon, <1>1, <1>4, WatcherSteps

LEMMA TellsKeepWatchers ==
  ASSUME WatcherInv, TypeInv, NEW x \in Watcher, Tells(x), UNCHANGED Elsewhere PROVE WatcherInv'
<1>1. TypeOK /\ w \in [Watcher -> WatcherRec] /\ reg \in Watcher \cup {None}
  BY Zenon DEF TypeInv, TypeOK
<1>2. PICK r \in WatcherRec :
           /\ w' = [w EXCEPT ![x] = r]
           /\ r.pc # "free" => r.gen = w[x].gen /\ r.cancelled = w[x].cancelled
           /\ NewClient(x) => w[x].pc = "client" /\ r.pc = "lookup"
           /\ LookUp(x) => /\ w[x].pc = "lookup" /\ r.tok = w[x].tok
                           /\ reg = None => r.pc = "requeue"
                           /\ reg # None => r.pc = "register" /\ r.held = reg
           /\ Register(x) => w[x].pc = "register" /\ r.pc = "loop" /\ r.tok = w[x].tok
           /\ Closed(x) => w[x].pc = "close" /\ r.pc = "free"
  BY Zenon, TellsRecord
<1>3. w'[x] = r /\ \A y \in Watcher : y # x => w'[y] = w[y]
  BY Zenon, <1>1, <1>2
<1>4. Running(x) => Owned(x) /\ Recorded(x)
  BY Zenon DEF WatcherInv, WatchersOwned
<1>5. CASE NewClient(x)
  <2>1. w[x].pc = "client" /\ r.pc = "lookup" /\ meta' = meta /\ reg' = reg
    BY Zenon, <1>2, <1>5 DEF NewClient
  <2>2. r.gen = w[x].gen /\ r.cancelled = w[x].cancelled
    BY Zenon, <1>2, <2>1
  <2>3. Recorded(x)'
    BY Zenon, <1>3, <1>4, <2>1, <2>2 DEF Recorded, Running
  <2> QED
    BY Zenon, <1>1, <1>2, <2>1, <2>2, <2>3, WatcherSteps
<1>6. CASE LookUp(x)
  <2>1. w[x].pc = "lookup" /\ r.tok = w[x].tok /\ reg' = reg /\ Running(x)
    BY Zenon, <1>2, <1>6 DEF LookUp, Running
  <2>2. CASE reg = None
    <3>1. r.pc = "requeue" /\ meta' = meta
      BY Zenon, <1>2, <1>6, <2>2 DEF LookUp
    <3>2. r.gen = w[x].gen /\ r.cancelled = w[x].cancelled
      BY Zenon, <1>2, <3>1
    <3>3. w[x].cancelled
      BY Zenon, <1>4, <2>1, <2>2, VSSAssumption DEF Owned
    <3>4. Recorded(x)'
      BY Zenon, <1>3, <3>2, <3>3 DEF Recorded
    <3> QED
      BY Zenon, <1>1, <1>2, <2>1, <3>1, <3>2, <3>4, WatcherSteps
  <2>3. CASE reg # None
    <3>1. reg = x
      BY Zenon, <1>1, <2>1, <2>3 DEF WatcherInv, OneWatcher
    <3>2. r.pc = "register" /\ r.held = x /\ meta' = [meta EXCEPT ![x].tok = w[x].tok]
      BY Zenon, <1>2, <1>6, <2>3, <3>1 DEF LookUp
    <3>3. r.gen = w[x].gen /\ r.cancelled = w[x].cancelled
      BY Zenon, <1>2, <3>2
    <3>4. /\ meta'[x].tok = w[x].tok /\ meta'[x].gen = meta[x].gen
          /\ \A y \in Watcher : y # x => meta'[y] = meta[y]
      BY Zenon, <1>1, <3>2 DEF TypeOK
    <3>5. Recorded(x)'
      BY Zenon, <1>3, <1>4, <2>1, <3>3, <3>4 DEF Recorded
    <3> QED
      BY Zenon, <1>1, <1>2, <2>1, <3>2, <3>3, <3>4, <3>5, WatcherSteps
  <2> QED
    BY Zenon, <2>2, <2>3
<1>7. CASE Register(x)
  <2>1. w[x].pc = "register" /\ r.pc = "loop" /\ r.tok = w[x].tok /\ meta' = meta
    BY Zenon, <1>2, <1>7 DEF Register
  <2>2. r.gen = w[x].gen /\ r.cancelled = w[x].cancelled
    BY Zenon, <1>2, <2>1
  <2>3. reg' = x /\ Running(x)
    BY Zenon, <1>7, <2>1 DEF Register, WatcherInv, OneWatcher, Running
  <2>4. Recorded(x)'
    BY Zenon, <1>3, <1>4, <2>1, <2>2, <2>3 DEF Recorded
  <2>5. obj' = obj /\ cached' = cached /\ rec' = rec
    BY Zenon DEF Elsewhere
  <2>6. \A y \in Watcher : Running(y)' <=> y = x
    BY Zenon, <1>3, <2>1, <2>3 DEF Running, WatcherInv, OneWatcher
  <2>7. CopiesAgree'
    BY Zenon, <2>5 DEF WatcherInv, CopiesAgree
  <2>8. OneWatcher'
    <3>1. w'[reg'].pc # "free"
      BY Zenon, <1>3, <2>1, <2>3
    <3>2. \A y \in Watcher : w'[y].pc # "register"
      BY Zenon, <1>3, <2>1, <2>6 DEF Running
    <3>3. \A y, z \in Watcher : Running(y)' /\ Running(z)' => y = z
      BY Zenon, <2>6
    <3> QED
      BY Zenon, <3>1, <3>2, <3>3 DEF OneWatcher, Running
  <2>9. Owned(x)'
    BY Zenon, <1>3, <1>4, <2>2, <2>3, <2>5 DEF Owned
  <2> QED
    BY Zenon, <2>4, <2>5, <2>6, <2>7, <2>8, <2>9 DEF WatcherInv, WatchersOwned
<1>8. CASE Closed(x)
  <2>1. w[x].pc = "close" /\ r.pc = "free" /\ reg' = None
    BY Zenon, <1>2, <1>8 DEF Closed
  <2>2. obj' = obj /\ cached' = cached /\ rec' = rec
    BY Zenon DEF Elsewhere
  <2>3. \A y \in Watcher : w'[y].pc = "free"
    BY Zenon, <1>3, <2>1 DEF Running, WatcherInv, OneWatcher
  <2>4. CopiesAgree'
    BY Zenon, <2>2 DEF WatcherInv, CopiesAgree
  <2> QED
    BY Zenon, <2>1, <2>2, <2>3, <2>4 DEF WatcherInv, OneWatcher, WatchersOwned, Running
<1> QED
  BY Zenon, <1>5, <1>6, <1>7, <1>8 DEF Tells

LEMMA AroundKeepsWatchers ==
  ASSUME SteadyWatching, WatcherInv, TypeOK, Around PROVE WatcherInv'
<1>1. /\ CopiesAgree /\ WatchersOwned /\ obj \in ObjRec /\ reg \in Watcher \cup {None}
      /\ rec.pc = "unfinalize" => cached.st # "present"
  BY Zenon DEF WatcherInv, TypeOK
<1>2. CASE Restart
  <2>1. rec'.pc = "idle" /\ reg' = None /\ cached' = obj /\ obj' = obj
    BY Zenon, <1>2, IdleType DEF Restart
  <2>2. \A x \in Watcher : w'[x].pc = "free"
    BY Zenon, <1>2, FreeType DEF Restart
  <2>3. CopiesAgree'
    BY Zenon, <2>1 DEF CopiesAgree
  <2> QED
    BY Zenon, <2>1, <2>2, <2>3 DEF WatcherInv, OneWatcher, WatchersOwned, Running
<1>3. CASE ~Restart
  <2>1. rec' = rec /\ reg' = reg /\ meta' = meta
    BY Zenon, <1>3 DEF Around, InformerDelivers, TimerFires, SpecChanged, ObjDeleted,
       SecretModified, ClientReplaced, DestEdited, DestDeleted, watchers
  <2>2. \A x \in Watcher : Alike(x)
    <3>1. w' = w \/ SecretModified
      BY Zenon, <1>3 DEF Around, InformerDelivers, TimerFires, SpecChanged, ObjDeleted,
         ClientReplaced, DestEdited, DestDeleted, watchers
    <3> QED
      BY Zenon, <3>1, SameAlike, ModifiedEffect
  <2>3. OneWatcher' /\ \A x \in Watcher : Running(x)' => Running(x) /\ Recorded(x)'
    BY Zenon, <1>1, <2>1, <2>2, WatchersKept
  <2>4. obj'.inst = obj.inst /\ (obj'.st = "present" => obj.st = "present")
    <3>1. CASE \E inst \in BOOLEAN : SpecChanged(inst)
      BY Zenon, <1>1, <3>1 DEF SpecChanged, SteadyWatching, ObjRec
    <3>2. CASE ObjDeleted
      BY Zenon, <1>1, <3>2 DEF ObjDeleted, ObjRec
    <3>3. CASE obj' = obj
      BY Zenon, <3>3
    <3> QED
      BY Zenon, <1>3, <3>1, <3>2, <3>3 DEF Around, InformerDelivers, TimerFires, SecretModified,
         ClientReplaced, DestEdited, DestDeleted
  <2>5. \/ cached' = cached
        \/ cached' = obj /\ obj' = obj
    BY Zenon, <1>3 DEF Around, InformerDelivers, TimerFires, SpecChanged, ObjDeleted,
       SecretModified, ClientReplaced, DestEdited, DestDeleted
  <2>6. CopiesAgree' /\ (cached.st # "present" => cached'.st # "present")
    <3>1. CASE cached' = cached
      BY Zenon, <1>1, <2>1, <2>4, <3>1 DEF CopiesAgree
    <3>2. CASE cached' = obj /\ obj' = obj
      BY Zenon, <1>1, <2>1, <3>2 DEF CopiesAgree
    <3> QED
      BY Zenon, <2>5, <3>1, <3>2
  <2>7. ASSUME NEW x \in Watcher, Running(x) PROVE Owned(x)'
    <3>1. Owned(x)
      BY Zenon, <1>1, <2>7 DEF WatchersOwned
    <3>2. w[x].cancelled => w'[x].cancelled
      BY Zenon, <2>2 DEF Alike
    <3> QED
      BY Zenon, <2>1, <2>4, <2>6, <3>1, <3>2 DEF Owned
  <2> QED
    BY Zenon, <1>1, <2>1, <2>3, <2>6, <2>7 DEF WatcherInv, WatchersOwned
<1> QED
  BY Zenon, <1>2, <1>3

LEMMA WatcherInvStep ==
  ASSUME SteadyWatching, TypeInv, WatcherInv, [Next]_vars PROVE WatcherInv'
<1>1. TypeOK
  BY Zenon DEF TypeInv
<1>2. CASE UNCHANGED vars
  <2>1. UNCHANGED watchers /\ obj' = obj /\ cached' = cached /\ rec' = rec
    BY Zenon, <1>2 DEF vars, watchers
  <2>2. CopiesAgree' /\ OneWatcher'
    BY Zenon, <2>1 DEF WatcherInv, CopiesAgree, OneWatcher, Running, watchers
  <2>3. WatchersOwned'
    BY Zenon, <2>1 DEF WatcherInv, WatchersOwned, Owned, Recorded, Running, watchers
  <2> QED
    BY Zenon, <2>1, <2>2, <2>3 DEF WatcherInv
<1>3. ASSUME NEW x \in Watcher, getEvents(x) PROVE WatcherInv'
  BY Zenon, <1>1, <1>3, GetEventsMoves, GetEventsElsewhere, MovesKeepWatchers, TellsKeepWatchers
<1> QED
  BY Zenon, <1>1, <1>2, <1>3, ReconcileKeepsWatchers, AroundKeepsWatchers DEF Next, Around

\* RegistryTracksWatcher, for any number of watchers, generations, clients and errors: while
\* instant updates are not switched and no wait for a cancelled watcher times out, a watcher
\* that is not cancelled is the one that ensureEventWatcher finds in the eventWatcherRegistry,
\* under the generation and the client it runs with.
THEOREM RegistryIsTracking == SteadyWatching => (Spec => []RegistryTracksWatcher)
<1> SUFFICES ASSUME SteadyWatching PROVE Spec => []RegistryTracksWatcher
  BY Zenon
<1>1. Init => TypeInv /\ WatcherInv
  BY Zenon, InitTypes, WatcherInvInit
<1>2. TypeInv /\ WatcherInv /\ [Next]_vars => TypeInv' /\ WatcherInv'
  BY Zenon, TypesStep, WatcherInvStep
<1>3. WatcherInv => RegistryTracksWatcher
  BY Zenon DEF WatcherInv, WatchersOwned, Owned, Recorded, RegistryTracksWatcher
<1> QED
  BY <1>1, <1>2, <1>3, PTL DEF Spec

LEMMA RemovedStopped ==
  ASSUME TypeInv, WatcherInv, [Next]_vars
  PROVE  [obj.st = "deleting" /\ obj'.st = "gone" =>
            \A x \in Watcher : Running(x) => w[x].cancelled \/ w[x].pc = "close"]_vars
<1> SUFFICES ASSUME Next, obj.st = "deleting", obj'.st = "gone"
             PROVE  \A x \in Watcher : Running(x) => w[x].cancelled
  BY Zenon DEF vars
<1>1. obj \in ObjRec
  BY Zenon DEF TypeInv, TypeOK
<1>2. obj' # obj
  BY Zenon
<1>3. FinalizerRemoved
  <2>1. ~FinalizerAdded
    BY Zenon, <1>1 DEF FinalizerAdded, ObjRec
  <2>2. ~StatusWritten
    BY Zenon, <1>1 DEF StatusWritten, NewStatus, ObjRec
  <2>3. ~ObjDeleted /\ ~ \E inst \in BOOLEAN : SpecChanged(inst)
    BY Zenon DEF ObjDeleted, SpecChanged
  <2>4. ~ \E x \in Watcher : getEvents(x)
    BY Zenon, <1>2, GetEventsElsewhere DEF Elsewhere
  <2> QED
    BY Zenon, <1>2, <2>1, <2>2, <2>3, <2>4
       DEF Next, Reconcile, Begin, ClientGot, SecretRead, ReconcileFailed, SecretSynced, Unwatched,
           WatcherFound, WatcherNotFound, WatcherStopped, WatcherStarted, WatcherNotStarted,
           StatusFailed, FinalizerFailed, InformerDelivers, TimerFires, SecretModified,
           ClientReplaced, DestEdited, DestDeleted, Restart
<1> QED
  BY Zenon, <1>3 DEF FinalizerRemoved, WatcherInv, WatchersOwned, Owned

\* DeletionStopsWatcher, under the same conditions: handleDeletion takes the finalizer away only
\* when every goroutine that still runs for the object has had its context cancelled.
THEOREM WatcherStopsFirst == SteadyWatching => (Spec => DeletionStopsWatcher)
<1> SUFFICES ASSUME SteadyWatching PROVE Spec => DeletionStopsWatcher
  BY Zenon
<1>1. Init => TypeInv /\ WatcherInv
  BY Zenon, InitTypes, WatcherInvInit
<1>2. TypeInv /\ WatcherInv /\ [Next]_vars => TypeInv' /\ WatcherInv'
  BY Zenon, TypesStep, WatcherInvStep
<1>3. TypeInv /\ WatcherInv /\ [Next]_vars =>
        [obj.st = "deleting" /\ obj'.st = "gone" =>
           \A x \in Watcher : Running(x) => w[x].cancelled \/ w[x].pc = "close"]_vars
  BY Zenon, RemovedStopped
<1> QED
  BY <1>1, <1>2, <1>3, PTL DEF Spec, DeletionStopsWatcher
-----------------------------------------------------------------------------
\* The refinement of EventWatcher.

\* The copies of the object are of a generation it has or had, and a finalizer is removed from
\* the copy of an object that is being deleted.
CopiesOld ==
  /\ cached.gen \in 1..obj.gen
  /\ rec.pc # "idle" => rec.o.gen \in 1..obj.gen
  /\ rec.pc = "unfinalize" => rec.o.st = "deleting"

LEMMA CopiesOldInit == Init => CopiesOld
<1> SUFFICES ASSUME Init PROVE CopiesOld
  BY Zenon
<1>1. PICK inst \in BOOLEAN : obj = NewObj(inst)
  BY Zenon DEF Init
<1>2. obj.gen = 1
  BY Zenon, <1>1 DEF NewObj
<1>3. cached.gen = 1 /\ rec.pc = "idle"
  BY Zenon, <1>2, IdleType DEF Init
<1>4. 1 \in 1..1
  OBVIOUS
<1> QED
  BY Zenon, <1>2, <1>3, <1>4 DEF CopiesOld

\* What each step does to the generation, and to the generations of the copies.
LEMMA CopiesMove ==
  ASSUME TypeOK, Next
  PROVE  /\ obj'.gen = obj.gen \/ (obj'.gen = obj.gen + 1 /\ obj.st = "present" /\ obj'.st = "present")
         /\ cached' \in {cached, obj}
         /\ rec'.pc = "idle" \/ rec'.o.gen = cached.gen \/ (rec.pc # "idle" /\ rec'.o.gen = rec.o.gen)
         /\ rec'.pc = "unfinalize" => rec' = rec \/ rec'.o.st = "deleting"
<1>1. obj \in ObjRec /\ rec \in RecRec /\ rec.o \in ObjRec
  BY Zenon DEF TypeOK, RecRec
<1>2. NewStatus.gen = rec.o.gen
  BY Zenon, <1>1 DEF NewStatus, ObjRec
<1>3. obj'.gen = obj.gen \/ (obj'.gen = obj.gen + 1 /\ obj.st = "present" /\ obj'.st = "present")
  <2>1. ASSUME NEW inst \in BOOLEAN, SpecChanged(inst)
        PROVE  obj'.gen = obj.gen + 1 /\ obj.st = "present" /\ obj'.st = "present"
    BY Zenon, <1>1, <2>1 DEF SpecChanged, ObjRec
  <2>2. CASE ObjDeleted
    BY Zenon, <1>1, <2>2 DEF ObjDeleted, ObjRec
  <2>3. CASE StatusWritten
    BY Zenon, <1>2, <2>3 DEF StatusWritten
  <2>4. CASE FinalizerAdded \/ FinalizerRemoved
    BY Zenon, <1>1, <2>4 DEF FinalizerAdded, FinalizerRemoved, ObjRec
  <2>5. CASE obj' = obj
    BY Zenon, <2>5
  <2>6. ASSUME NEW x \in Watcher, getEvents(x) PROVE obj' = obj
    BY Zenon, <2>6, GetEventsElsewhere DEF Elsewhere
  <2> QED
    BY Zenon, <2>1, <2>2, <2>3, <2>4, <2>5, <2>6
       DEF Next, Reconcile, Begin, ClientGot, SecretRead, ReconcileFailed, SecretSynced, Unwatched,
           WatcherFound, WatcherNotFound, WatcherStopped, WatcherStarted, WatcherNotStarted,
           StatusFailed, FinalizerFailed, InformerDelivers, TimerFires, SecretModified,
           ClientReplaced, DestEdited, DestDeleted, Restart
<1>4. cached' \in {cached, obj}
  <2>1. ASSUME NEW x \in Watcher, getEvents(x) PROVE cached' = cached
    BY Zenon, <2>1, GetEventsElsewhere DEF Elsewhere
  <2> QED
    BY Zenon, <2>1
       DEF Next, Reconcile, Begin, ClientGot, SecretRead, ReconcileFailed, SecretSynced, Unwatched,
           WatcherFound, WatcherNotFound, WatcherStopped, WatcherStarted, WatcherNotStarted,
           StatusWritten, StatusFailed, FinalizerAdded, FinalizerRemoved, FinalizerFailed,
           InformerDelivers, TimerFires, SpecChanged, ObjDeleted, SecretModified,
           ClientReplaced, DestEdited, DestDeleted, Restart
<1>5. rec'.pc = "idle" \/ rec'.o.gen = cached.gen \/ (rec.pc # "idle" /\ rec'.o.gen = rec.o.gen)
  <2>1. CASE rec' = Idle
    BY Zenon, <2>1, IdleType
  <2>2. CASE rec' = rec
    BY Zenon, <2>2
  <2>3. CASE Begin
    BY Zenon, <2>1, <2>3, IdleType DEF Begin, Done, RecRec
  <2>4. CASE ClientGot \/ SecretRead \/ SecretSynced \/ WatcherStopped
    BY Zenon, <1>1, <2>4 DEF ClientGot, SecretRead, SecretSynced, WatcherStopped, RecRec
  <2>5. CASE Unwatched \/ WatcherNotFound \/ WatcherStarted \/ WatcherNotStarted
    BY Zenon, <1>1, <2>5
       DEF Unwatched, WatcherNotFound, WatcherStarted, WatcherNotStarted, Goto, RecRec
  <2>6. CASE WatcherFound
    BY Zenon, <1>1, <2>6 DEF WatcherFound, Goto, RecRec
  <2>7. CASE StatusWritten \/ StatusFailed
    <3>1. PICK o \in {NewStatus, rec.o} : AfterStatus(o)
      BY Zenon, <2>7 DEF StatusWritten, StatusFailed
    <3>2. rec.pc = "status" /\ o.gen = rec.o.gen
      BY Zenon, <1>2, <2>7, <3>1 DEF StatusWritten, StatusFailed
    <3>3. CASE rec' = [rec EXCEPT !.pc = "finalizer", !.o = o]
      BY Zenon, <1>1, <3>2, <3>3 DEF RecRec
    <3> QED
      BY Zenon, <2>1, <3>1, <3>3 DEF AfterStatus, Finish, Requeue, Done
  <2>8. ASSUME NEW x \in Watcher, getEvents(x) PROVE rec' = rec
    BY Zenon, <2>8, GetEventsElsewhere DEF Elsewhere
  <2>9. CASE ReconcileFailed \/ FinalizerAdded \/ FinalizerRemoved \/ FinalizerFailed
    BY Zenon, <2>1, <2>9
       DEF ReconcileFailed, FinalizerAdded, FinalizerRemoved, FinalizerFailed, Finish, Requeue, Done
  <2> QED
    BY Zenon, <2>1, <2>2, <2>3, <2>4, <2>5, <2>6, <2>7, <2>8, <2>9
       DEF Next, Reconcile, InformerDelivers, TimerFires, SpecChanged, ObjDeleted, SecretModified,
           ClientReplaced, DestEdited, DestDeleted, Restart
<1>6. rec'.pc = "unfinalize" => rec' = rec \/ rec'.o.st = "deleting"
  <2>1. CASE rec' = Idle
    BY Zenon, <2>1, IdleType
  <2>2. CASE Begin
    BY Zenon, <2>1, <2>2, IdleType DEF Begin, Done, RecRec
  <2>3. CASE ClientGot \/ SecretRead \/ SecretSynced \/ WatcherStopped
    BY Zenon, <1>1, <2>3 DEF ClientGot, SecretRead, SecretSynced, WatcherStopped, RecRec
  <2>4. CASE Unwatched \/ WatcherNotFound \/ WatcherStarted \/ WatcherNotStarted
    BY Zenon, <1>1, <2>4
       DEF Unwatched, WatcherNotFound, WatcherStarted, WatcherNotStarted, Goto, RecRec
  <2>5. CASE WatcherFound
    BY Zenon, <1>1, <2>5 DEF WatcherFound, Goto, RecRec
  <2>6. CASE StatusWritten \/ StatusFailed
    <3>1. PICK o \in {NewStatus, rec.o} : AfterStatus(o)
      BY Zenon, <2>6 DEF StatusWritten, StatusFailed
    <3>2. CASE rec' = [rec EXCEPT !.pc = "finalizer", !.o = o]
      BY Zenon, <1>1, <3>2 DEF RecRec
    <3> QED
      BY Zenon, <2>1, <3>1, <3>2 DEF AfterStatus, Finish, Requeue, Done
  <2>7. ASSUME NEW x \in Watcher, getEvents(x) PROVE rec' = rec
    BY Zenon, <2>7, GetEventsElsewhere DEF Elsewhere
  <2>8. CASE ReconcileFailed \/ FinalizerAdded \/ FinalizerRemoved \/ FinalizerFailed
    BY Zenon, <2>1, <2>8
       DEF ReconcileFailed, FinalizerAdded, FinalizerRemoved, FinalizerFailed, Finish, Requeue, Done
  <2> QED
    BY Zenon, <2>1, <2>2, <2>3, <2>4, <2>5, <2>6, <2>7, <2>8
       DEF Next, Reconcile, InformerDelivers, TimerFires, SpecChanged, ObjDeleted, SecretModified,
           ClientReplaced, DestEdited, DestDeleted, Restart
<1> QED
  BY Zenon, <1>3, <1>4, <1>5, <1>6

LEMMA CopiesOldStep == ASSUME TypeOK, CopiesOld, [Next]_vars PROVE CopiesOld'
<1>1. CASE UNCHANGED vars
  BY Zenon, <1>1 DEF CopiesOld, vars
<1>2. CASE Next
  <2>1. obj.gen \in 1..MaxGen
    BY Zenon DEF TypeOK, ObjRec
  <2>2. obj'.gen = obj.gen \/ obj'.gen = obj.gen + 1
    BY Zenon, <1>2, CopiesMove
  <2>3. obj.gen \in 1..obj'.gen /\ \A g \in 1..obj.gen : g \in 1..obj'.gen
    BY <2>1, <2>2, VSSAssumption
  <2>4. cached'.gen \in 1..obj'.gen
    BY Zenon, <1>2, <2>3, CopiesMove DEF CopiesOld
  <2>5. rec'.pc # "idle" => rec'.o.gen \in 1..obj'.gen
    BY Zenon, <1>2, <2>3, CopiesMove DEF CopiesOld
  <2>6. rec'.pc = "unfinalize" => rec'.o.st = "deleting"
    BY Zenon, <1>2, CopiesMove DEF CopiesOld
  <2> QED
    BY Zenon, <2>4, <2>5, <2>6 DEF CopiesOld
<1> QED
  BY Zenon, <1>1, <1>2

\* The goroutines that the records f stand for.
LiveOf(f) ==
  {[id |-> x, gen |-> f[x].gen, told |-> f[x].cancelled] : x \in {y \in Watcher : f[y].pc # "free"}}

LEMMA LiveIsLiveOf == Live = LiveOf(w) /\ Live' = LiveOf(w')
BY Zenon DEF Live, LiveOf, Running

LEMMA LiveNone == ASSUME NEW f, \A x \in Watcher : f[x].pc = "free" PROVE LiveOf(f) = {}
BY Zenon DEF LiveOf

LEMMA LiveOne ==
  ASSUME NEW f, NEW x \in Watcher, f[x].pc # "free", \A y \in Watcher : f[y].pc # "free" => y = x
  PROVE  LiveOf(f) = {[id |-> x, gen |-> f[x].gen, told |-> f[x].cancelled]}
<1>1. {y \in Watcher : f[y].pc # "free"} = {x}
  BY Zenon
<1> QED
  BY <1>1 DEF LiveOf

LEMMA LiveSame ==
  ASSUME NEW f, NEW g,
         \A x \in Watcher : f[x].pc # "free" <=> g[x].pc # "free",
         \A x \in Watcher : f[x].pc # "free" => f[x].gen = g[x].gen /\ f[x].cancelled = g[x].cancelled
  PROVE  LiveOf(f) = LiveOf(g)
<1>1. {y \in Watcher : f[y].pc # "free"} = {y \in Watcher : g[y].pc # "free"}
  BY Zenon
<1> QED
  BY <1>1 DEF LiveOf

LEMMA InitRefines == Init => Watch!Init
<1> SUFFICES ASSUME Init PROVE Watch!Init
  BY Zenon
<1>1. PICK inst \in BOOLEAN : obj = NewObj(inst)
  BY Zenon DEF Init
<1>2. obj.st = "present" /\ obj.gen = 1
  BY Zenon, <1>1 DEF NewObj
<1>3. \A x \in Watcher : w[x].pc = "free"
  BY Zenon, FreeType DEF Init
<1>4. Live = {}
  BY Zenon, <1>3, LiveNone, LiveIsLiveOf
<1> QED
  BY Zenon, <1>2, <1>4 DEF Watch!Init

\* A step that neither starts, ends nor cancels a watcher, nor touches the object.
LEMMA StutterRefines ==
  ASSUME obj'.st = obj.st, obj'.gen = obj.gen,
         \A x \in Watcher : w'[x].pc # "free" <=> w[x].pc # "free",
         \A x \in Watcher : w'[x].pc # "free" =>
           w'[x].gen = w[x].gen /\ w'[x].cancelled = w[x].cancelled
  PROVE  UNCHANGED Watch!vars
<1>1. Live' = Live
  BY Zenon, LiveSame, LiveIsLiveOf
<1> QED
  BY Zenon, <1>1 DEF Watch!vars

LEMMA SameRefines ==
  ASSUME obj'.st = obj.st, obj'.gen = obj.gen, w' = w PROVE UNCHANGED Watch!vars
<1>1. Live' = Live
  BY Zenon DEF Live, Running
<1> QED
  BY Zenon, <1>1 DEF Watch!vars

\* The running watcher is cancelled.
LEMMA TellRefines ==
  ASSUME NEW x \in Watcher, w'[x].gen = w[x].gen, w'[x].cancelled = TRUE,
         w[x].pc # "free", \A y \in Watcher : w[y].pc # "free" => y = x,
         w'[x].pc # "free", \A y \in Watcher : w'[y].pc # "free" => y = x,
         obj' = obj
  PROVE  Watch!Tell
<1> DEFINE v == [id |-> x, gen |-> w[x].gen, told |-> w[x].cancelled]
<1>1. Live = {v}
  BY Zenon, LiveOne, LiveIsLiveOf
<1>2. Live' = {[id |-> x, gen |-> w'[x].gen, told |-> w'[x].cancelled]}
  BY Zenon, LiveOne, LiveIsLiveOf
<1>3. v.id = x /\ v.gen = w[x].gen
  BY Zenon
<1> HIDE DEF v
<1>4. Live' = {[id |-> v.id, gen |-> v.gen, told |-> TRUE]}
  BY Zenon, <1>2, <1>3
<1>5. (obj.st)' = obj.st /\ (obj.gen)' = obj.gen
  BY Zenon
<1> QED
  BY Zenon, <1>1, <1>4, <1>5 DEF Watch!Tell

LEMMA CancelRefines ==
  ASSUME TypeOK, OneWatcher, obj' = obj,
         \/ w' = w
         \/ reg \in Watcher /\ Running(reg) /\ w' = [w EXCEPT ![reg].cancelled = TRUE]
  PROVE  Watch!Tell \/ UNCHANGED Watch!vars
<1>1. CASE w' = w
  BY Zenon, <1>1, SameRefines
<1>2. CASE reg \in Watcher /\ Running(reg) /\ w' = [w EXCEPT ![reg].cancelled = TRUE]
  <2>1. /\ w'[reg].pc = w[reg].pc /\ w'[reg].gen = w[reg].gen /\ w'[reg].cancelled = TRUE
        /\ \A x \in Watcher : x # reg => w'[x] = w[x]
    BY Zenon, <1>2 DEF TypeOK, WatcherRec
  <2>2. w[reg].pc # "free" /\ \A y \in Watcher : w[y].pc # "free" => y = reg
    BY Zenon, <1>2 DEF OneWatcher, Running
  <2>3. w'[reg].pc # "free" /\ \A y \in Watcher : w'[y].pc # "free" => y = reg
    BY Zenon, <2>1, <2>2
  <2> QED
    BY Zenon, <1>2, <2>1, <2>2, <2>3, TellRefines
<1> QED
  BY Zenon, <1>1, <1>2

LEMMA StartRefines ==
  ASSUME TypeOK, WatcherInv, CopiesOld, WatcherStarted PROVE Watch!Start
<1>1. rec.pc = "start" /\ obj' = obj /\ rec.o.gen \in 1..obj.gen
  BY Zenon DEF WatcherStarted, CopiesOld
<1>2. \A x \in Watcher : w[x].pc = "free"
  BY Zenon, <1>1 DEF WatcherInv, WatchersOwned, Owned, Running
<1>3. PICK x \in Watcher :
        w' = [w EXCEPT ![x] = [Free EXCEPT !.pc = "loop", !.gen = rec.o.gen, !.tok = rec.tok]]
  BY Zenon DEF WatcherStarted, Unused
<1> DEFINE r == [Free EXCEPT !.pc = "loop", !.gen = rec.o.gen, !.tok = rec.tok]
<1>4. r.pc = "loop" /\ r.gen = rec.o.gen /\ r.cancelled = FALSE
  BY Zenon DEF Free
<1>5. w' = [w EXCEPT ![x] = r]
  BY Zenon, <1>3
<1> HIDE DEF r
<1>6. w'[x] = r /\ \A y \in Watcher : y # x => w'[y] = w[y]
  BY Zenon, <1>5 DEF TypeOK
<1>7. Live = {}
  BY Zenon, <1>2, LiveNone, LiveIsLiveOf
<1>8. w'[x].pc # "free" /\ \A y \in Watcher : w'[y].pc # "free" => y = x
  BY Zenon, <1>2, <1>4, <1>6
<1>9. Live' = {[id |-> x, gen |-> w'[x].gen, told |-> w'[x].cancelled]}
  BY Zenon, <1>8, LiveOne, LiveIsLiveOf
<1>10. Live' = {[id |-> x, gen |-> rec.o.gen, told |-> FALSE]}
  BY Zenon, <1>4, <1>6, <1>9
<1> QED
  BY Zenon, <1>1, <1>7, <1>10 DEF Watch!Start

LEMMA EndRefines ==
  ASSUME OneWatcher, obj' = obj, \A y \in Watcher : w'[y].pc = "free"
  PROVE  Watch!End \/ UNCHANGED Watch!vars
<1>1. Live' = {}
  BY Zenon, LiveNone, LiveIsLiveOf
<1>2. (obj.st)' = obj.st /\ (obj.gen)' = obj.gen
  BY Zenon
<1>3. CASE Live = {}
  BY Zenon, <1>1, <1>2, <1>3 DEF Watch!vars
<1>4. CASE Live # {}
  BY Zenon, <1>1, <1>2, <1>4 DEF Watch!End
<1> QED
  BY Zenon, <1>3, <1>4

LEMMA GetEventsRefines ==
  ASSUME TypeInv, WatcherInv, NEW x \in Watcher, getEvents(x)
  PROVE  Watch!Next \/ UNCHANGED Watch!vars
<1>1. w \in [Watcher -> WatcherRec] /\ OneWatcher
  BY Zenon DEF TypeInv, TypeOK, WatcherInv
<1>2. obj' = obj
  BY Zenon, GetEventsElsewhere DEF Elsewhere
<1>3. CASE Closed(x)
  <2>1. w[x].pc = "close" /\ w' = [w EXCEPT ![x] = Free]
    BY Zenon, <1>3 DEF Closed
  <2>2. \A y \in Watcher : w'[y].pc = "free"
    BY Zenon, <1>1, <2>1, FreeType DEF OneWatcher, Running
  <2> QED
    BY Zenon, <1>1, <1>2, <2>2, EndRefines DEF Watch!Next
<1>4. CASE ~Closed(x)
  <2>1. PICK r \in WatcherRec :
          /\ w' = [w EXCEPT ![x] = r]
          /\ w[x].pc # "free" /\ r.pc # "free" /\ r.gen = w[x].gen /\ r.cancelled = w[x].cancelled
    <3>1. CASE Moves(x)
      BY Zenon, <3>1 DEF Moves
    <3>2. CASE Tells(x)
      <4>1. PICK r \in WatcherRec :
               /\ w' = [w EXCEPT ![x] = r]
               /\ r.pc # "free" => r.gen = w[x].gen /\ r.cancelled = w[x].cancelled
               /\ NewClient(x) => w[x].pc = "client" /\ r.pc = "lookup"
               /\ LookUp(x) => /\ w[x].pc = "lookup" /\ r.tok = w[x].tok
                               /\ reg = None => r.pc = "requeue"
                               /\ reg # None => r.pc = "register" /\ r.held = reg
               /\ Register(x) => w[x].pc = "register" /\ r.pc = "loop" /\ r.tok = w[x].tok
        BY Zenon, <3>2, TellsRecord
      <4>2. w[x].pc # "free" /\ r.pc # "free"
        BY Zenon, <1>4, <3>2, <4>1 DEF Tells
      <4> QED
        BY Zenon, <4>1, <4>2
    <3> QED
      BY Zenon, <3>1, <3>2, GetEventsMoves
  <2>2. w'[x] = r /\ \A y \in Watcher : y # x => w'[y] = w[y]
    BY Zenon, <1>1, <2>1
  <2>3. \A y \in Watcher : w'[y].pc # "free" <=> w[y].pc # "free"
    BY Zenon, <2>1, <2>2
  <2>4. \A y \in Watcher : w'[y].gen = w[y].gen /\ w'[y].cancelled = w[y].cancelled
    BY Zenon, <2>1, <2>2
  <2> QED
    BY Zenon, <1>2, <2>3, <2>4, StutterRefines
<1> QED
  BY Zenon, <1>3, <1>4

LEMMA ReconcileRefines ==
  ASSUME TypeOK, WatcherInv, CopiesOld, Reconcile PROVE Watch!Next \/ UNCHANGED Watch!vars
<1>1. OneWatcher /\ obj \in ObjRec /\ rec.o \in ObjRec /\ reg \in Watcher \cup {None}
  BY Zenon DEF WatcherInv, TypeOK, RecRec
<1>2. CASE \/ obj' = obj /\ unWatchEvents
           \/ WatcherFound
  <2>1. \/ w' = w
        \/ reg \in Watcher /\ Running(reg) /\ w' = [w EXCEPT ![reg].cancelled = TRUE]
    BY Zenon, <1>1, <1>2 DEF unWatchEvents, WatcherFound
  <2>2. obj' = obj
    BY Zenon, <1>2 DEF WatcherFound
  <2> QED
    BY Zenon, <1>1, <2>1, <2>2, CancelRefines DEF Watch!Next
<1>3. CASE WatcherStarted
  BY Zenon, <1>3, StartRefines DEF Watch!Next
<1>4. CASE obj' = obj /\ UNCHANGED watchers
  BY Zenon, <1>4, SameRefines DEF watchers
<1>5. CASE StatusWritten \/ FinalizerAdded
  <2>1. NewStatus.st = rec.o.st /\ NewStatus.gen = rec.o.gen
    BY Zenon, <1>1 DEF NewStatus, ObjRec
  <2>2. obj'.st = obj.st /\ obj'.gen = obj.gen
    BY Zenon, <1>1, <1>5, <2>1 DEF StatusWritten, FinalizerAdded, ObjRec
  <2>3. w' = w
    BY Zenon, <1>5 DEF StatusWritten, FinalizerAdded, watchers
  <2> QED
    BY Zenon, <2>2, <2>3, SameRefines
<1>6. CASE FinalizerRemoved
  <2>1. obj'.st = "gone" /\ obj'.gen = obj.gen /\ w' = w /\ rec.pc = "unfinalize" /\ rec.o = obj
    BY Zenon, <1>1, <1>6 DEF FinalizerRemoved, ObjRec, watchers
  <2>2. Live' = Live
    BY Zenon, <2>1 DEF Live, Running
  <2>3. obj.st = "deleting"
    BY Zenon, <2>1 DEF CopiesOld
  <2>4. ASSUME NEW v \in Live PROVE v.told
    <3>1. PICK x \in Watcher : /\ Running(x)
                              /\ v = [id |-> x, gen |-> w[x].gen, told |-> w[x].cancelled]
      BY Zenon, <2>4 DEF Live
    <3>2. w[x].cancelled
      BY Zenon, <2>1, <3>1 DEF WatcherInv, WatchersOwned, Owned
    <3>3. v.told = w[x].cancelled
      BY Zenon, <3>1
    <3> QED
      BY Zenon, <3>2, <3>3
  <2> QED
    BY Zenon, <2>1, <2>2, <2>3, <2>4 DEF Watch!Remove, Watch!Next
<1> QED
  BY Zenon, <1>2, <1>3, <1>4, <1>5, <1>6
     DEF Reconcile, Begin, ClientGot, SecretRead, ReconcileFailed, SecretSynced, Unwatched,
         WatcherNotFound, WatcherStopped, WatcherNotStarted, StatusFailed, FinalizerFailed

LEMMA AroundRefines ==
  ASSUME TypeOK, WatcherInv, Around PROVE Watch!Next \/ UNCHANGED Watch!vars
<1>1. OneWatcher /\ obj \in ObjRec
  BY Zenon DEF WatcherInv, TypeOK
<1>2. CASE Restart
  <2>1. obj' = obj /\ \A y \in Watcher : w'[y].pc = "free"
    BY Zenon, <1>2, FreeType DEF Restart
  <2> QED
    BY Zenon, <1>1, <2>1, EndRefines DEF Watch!Next
<1>3. CASE SecretModified
  <2>1. \A x \in Watcher : /\ w'[x].pc = w[x].pc /\ w'[x].gen = w[x].gen
                           /\ w'[x].cancelled = w[x].cancelled
    BY Zenon, <1>3, ModifiedEffect DEF Alike
  <2>2. obj' = obj
    BY Zenon, <1>3 DEF SecretModified
  <2>3. \A x \in Watcher : w'[x].pc # "free" <=> w[x].pc # "free"
    BY Zenon, <2>1
  <2> QED
    BY Zenon, <2>1, <2>2, <2>3, StutterRefines
<1>4. CASE obj' = obj /\ w' = w
  BY Zenon, <1>4, SameRefines
<1>5. ASSUME NEW inst \in BOOLEAN, SpecChanged(inst) PROVE Watch!Change
  <2>1. obj.st = "present" /\ obj'.st = obj.st /\ obj'.gen = obj.gen + 1 /\ w' = w
    BY Zenon, <1>1, <1>5 DEF SpecChanged, ObjRec, watchers
  <2>2. Live' = Live
    BY Zenon, <2>1 DEF Live, Running
  <2> QED
    BY Zenon, <2>1, <2>2 DEF Watch!Change
<1>6. CASE ObjDeleted
  <2>1. obj.st = "present" /\ obj'.st \in {"deleting", "gone"} /\ obj'.gen = obj.gen /\ w' = w
    BY Zenon, <1>1, <1>6 DEF ObjDeleted, ObjRec, watchers
  <2>2. Live' = Live
    BY Zenon, <2>1 DEF Live, Running
  <2> QED
    BY Zenon, <2>1, <2>2 DEF Watch!Delete, Watch!Next
<1> QED
  BY Zenon, <1>2, <1>3, <1>4, <1>5, <1>6
     DEF Around, InformerDelivers, TimerFires, ClientReplaced, DestEdited, DestDeleted, watchers,
         Watch!Next

LEMMA StepRefines ==
  ASSUME TypeInv, WatcherInv, CopiesOld, [Next]_vars PROVE [Watch!Next]_(Watch!vars)
<1>1. TypeOK
  BY Zenon DEF TypeInv
<1>2. CASE UNCHANGED vars
  <2>1. obj'.st = obj.st /\ obj'.gen = obj.gen /\ w' = w
    BY Zenon, <1>2 DEF vars
  <2> QED
    BY Zenon, <2>1, SameRefines
<1>3. ASSUME NEW x \in Watcher, getEvents(x) PROVE [Watch!Next]_(Watch!vars)
  BY Zenon, <1>3, GetEventsRefines
<1> QED
  BY Zenon, <1>1, <1>2, <1>3, ReconcileRefines, AroundRefines DEF Next, Around

\* ImplementsEventWatcher, under the same conditions: every step of Reconcile, of the goroutines
\* of getEvents and of what surrounds them is one of EventWatcher's steps or none of its business,
\* whatever the registry goes through meanwhile.
THEOREM EventWatcherIsImplemented == SteadyWatching => (Spec => ImplementsEventWatcher)
<1> SUFFICES ASSUME SteadyWatching PROVE Spec => ImplementsEventWatcher
  BY Zenon
<1>1. Init => TypeInv /\ WatcherInv /\ CopiesOld /\ Watch!Init
  BY Zenon, InitTypes, WatcherInvInit, CopiesOldInit, InitRefines
<1>2. TypeInv /\ WatcherInv /\ CopiesOld /\ [Next]_vars => TypeInv' /\ WatcherInv' /\ CopiesOld'
  BY Zenon, TypesStep, WatcherInvStep, CopiesOldStep DEF TypeInv
<1>3. TypeInv /\ WatcherInv /\ CopiesOld /\ [Next]_vars => [Watch!Next]_(Watch!vars)
  BY Zenon, StepRefines
<1> QED
  BY <1>1, <1>2, <1>3, PTL DEF Spec, ImplementsEventWatcher, Watch!Spec
=============================================================================
