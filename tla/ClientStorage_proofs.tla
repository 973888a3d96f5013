------------------------- MODULE ClientStorage_proofs -------------------------
(***************************************************************************)
(* Proofs about ClientStorage, for any number of workers, goroutines,      *)
(* keys, failures and restarts.                                            *)
(***************************************************************************)
EXTENDS ClientStorage, TLAPS

Writing == {"encrypt", "create", "recreate", "prune"}
Reading == {"get", "check", "discard"}

\* Every MAC there is was computed for the key of the token it covers, though perhaps not for the
\* Secret it is in.
Sound(e) == e # None => e.mac.key = e.mac.data.tok.key

\* What a worker has read is what is stored, or that has been deleted since.
AsRead(o) ==
  entries[op[o].key] = None \/ entries[op[o].key].data.tok.n = op[o].entry.data.tok.n

\* What is true of a worker wherever it is: it has the lock it needs, and what it read.
OpInv(o) ==
  /\ op[o].key \in Requested
  /\ op[o].pc \in {"wait", "close"} => op[o].g # None
  /\ op[o].pc \in Writing => writer = o
  /\ op[o].pc \in Reading => o \in readers
  /\ Sound(op[o].entry)
  /\ op[o].pc \in {"create", "recreate", "check", "discard"} => op[o].entry # None
  /\ op[o].pc \in {"check", "discard"} => AsRead(o)
  /\ op[o].pc = "done" => op[o].got.key = op[o].key /\ op[o].entry.mac.hmac = hmacKey

StorageInv ==
  /\ TypeOK
  /\ writer # None => readers = {}
  /\ \A g \in Gor : gor[g].pc \in {"login", "cache"} => gor[g].auth # None
  /\ \A k \in Requested : Sound(entries[k])
  /\ \A o \in Op : OpInv(o)
-----------------------------------------------------------------------------
LEMMA IdleType ==
  /\ IdleOp \in OpRec /\ IdleOp.pc = "idle" /\ IdleOp.key \in Requested /\ IdleOp.entry = None
  /\ IdleGor \in GorRec /\ IdleGor.pc = "none"
<1>1. (CHOOSE k \in Requested : TRUE) \in Requested
  BY Zenon, StorageAssumption
<1> QED
  BY Zenon, <1>1, StorageAssumption DEF IdleOp, OpRec, IdleGor, GorRec

LEMMA FaultType == ASSUME StorageInv, Fault PROVE faults' \in 0..MaxFaults
BY StorageAssumption DEF Fault, StorageInv, TypeOK

\* A worker that is idle has nothing to keep.
LEMMA IdleKeeps == ASSUME NEW o \in Op, op'[o] = IdleOp PROVE OpInv(o)'
BY Zenon, IdleType DEF OpInv, Sound, Writing, Reading

\* What another worker or a user does leaves a worker alone, if it keeps the worker's locks and
\* does not store anything under a reader's eyes.
LEMMA OthersKeep ==
  ASSUME NEW p \in Op, OpInv(p), op'[p] = op[p], hmacKey' = hmacKey,
         writer = p => writer' = p, p \in readers => p \in readers',
         p \in readers => \A k \in Requested :
           \/ entries'[k] = None
           \/ entries[k] # None /\ entries'[k].data.tok.n = entries[k].data.tok.n
  PROVE  OpInv(p)'
<1>1. op[p].pc \in {"check", "discard"} => AsRead(p)'
  BY Zenon DEF OpInv, AsRead, Reading
<1> QED
  BY Zenon, <1>1 DEF OpInv, Sound, Writing, Reading

LEMMA InitStorage == Init => StorageInv
<1> SUFFICES ASSUME Init PROVE StorageInv
  BY Zenon
<1>1. (CHOOSE a \in AuthName : TRUE) \in AuthName
  BY Zenon, StorageAssumption
<1>2. TypeOK
  BY <1>1, IdleType, StorageAssumption DEF Init, TypeOK
<1>3. \A o \in Op : OpInv(o)
  BY Zenon, IdleType DEF Init, OpInv, Sound, Writing, Reading
<1> QED
  BY Zenon, <1>2, <1>3, IdleType DEF Init, StorageInv, Sound
-----------------------------------------------------------------------------
\* A worker that asks for the encryption client, or for nothing, holds no lock.
LEMMA SetupKeeps ==
  ASSUME StorageInv, NEW o \in Op, NEW r \in OpRec, op' = [op EXCEPT ![o] = r],
         r.pc \in {"idle", "client", "setup", "wait", "close", "lock"},
         r.pc \in {"wait", "close"} => r.g # None, r.key \in Requested, Sound(r.entry),
         gor' \in [Gor -> GorRec],
         \A g \in Gor : gor'[g].pc \in {"login", "cache"} => gor'[g].auth # None,
         encrypt' \in AuthName \cup {None}, cache' \subseteq AuthName, encLock' \in Op \cup {None},
         faults' \in 0..MaxFaults, UNCHANGED <<entries, config, mutex>>
  PROVE  StorageInv'
<1>1. /\ op'[o] = r /\ \A p \in Op : p # o => op'[p] = op[p]
      /\ op' \in [Op -> OpRec]
  BY Zenon DEF StorageInv, TypeOK
<1>2. TypeOK'
  BY Zenon, <1>1 DEF StorageInv, TypeOK, config, mutex
<1>3. OpInv(o)'
  BY Zenon, <1>1 DEF OpInv, Sound, Writing, Reading
<1>4. ASSUME NEW p \in Op, p # o PROVE OpInv(p)'
  BY SMTT(30), <1>1, <1>4 DEF StorageInv, OpInv, Sound, AsRead, Writing, Reading, config, mutex
<1> QED
  BY Zenon, <1>2, <1>3, <1>4 DEF StorageInv, Sound, config, mutex

LEMMA RequestKeeps ==
  ASSUME StorageInv, NEW o \in Op, NEW k \in Requested, NEW kind \in {"store", "restore", "prune"},
         Request(o, kind, k)
  PROVE  StorageInv'
<1> DEFINE r == [IdleOp EXCEPT !.pc = IF kind # "prune" /\ model = "direct-encrypted"
                                      THEN "client" ELSE "lock",
                               !.kind = kind, !.key = k]
<1>1. r \in OpRec /\ r.pc \in {"client", "lock"} /\ r.key \in Requested /\ r.entry = None
  BY Zenon, IdleType, StorageAssumption DEF IdleOp, OpRec
<1>2. op' = [op EXCEPT ![o] = r] /\ UNCHANGED <<entries, faults, config, enc, mutex>>
  BY Zenon DEF Request
<1> HIDE DEF r
<1> QED
  BY Zenon, <1>1, <1>2, SetupKeeps DEF Sound, enc, StorageInv, TypeOK

LEMMA ClientKeeps ==
  ASSUME StorageInv, NEW o \in Op, storageEncryptionClient(o) \/ setEncryptionClient(o)
  PROVE  StorageInv'
<1>1. op[o] \in OpRec /\ op[o].key \in Requested /\ Sound(op[o].entry) /\ op \in [Op -> OpRec]
  BY Zenon DEF StorageInv, TypeOK, OpInv
<1>2. CASE storageEncryptionClient(o)
  <2>1. PICK r : /\ op' = [op EXCEPT ![o] = r]
                 /\ \/ r = [op[o] EXCEPT !.client = encrypt, !.pc = "lock"]
                    \/ r = [op[o] EXCEPT !.pc = "setup"]
    BY Zenon, <1>1, <1>2 DEF storageEncryptionClient, Goto
  <2>2. /\ r \in OpRec /\ r.pc \in {"lock", "setup"} /\ r.key \in Requested
        /\ r.entry = op[o].entry
    BY ZenonT(40), <1>1, <2>1 DEF OpRec, StorageInv, TypeOK
  <2> QED
    BY Zenon, <1>1, <1>2, <2>1, <2>2, SetupKeeps
    DEF storageEncryptionClient, enc, StorageInv, TypeOK
<1>3. CASE setEncryptionClient(o)
  <2>1. PICK g \in Gor : /\ gor' = [gor EXCEPT ![g] = [IdleGor EXCEPT !.pc = "find"]]
                         /\ op' = [op EXCEPT ![o].pc = "wait", ![o].g = g]
    BY Zenon, <1>3 DEF setEncryptionClient
  <2> DEFINE r == [op[o] EXCEPT !.pc = "wait", !.g = g]
  <2>2. op' = [op EXCEPT ![o] = r]
    BY Zenon, <1>1, <2>1
  <2>3. r \in OpRec /\ r.pc = "wait" /\ r.g # None /\ r.key = op[o].key /\ r.entry = op[o].entry
    BY Zenon, <1>1, StorageAssumption DEF OpRec
  <2>4. /\ gor' \in [Gor -> GorRec]
        /\ \A h \in Gor : gor'[h].pc \in {"login", "cache"} => gor'[h].auth # None
    BY Zenon, <2>1, IdleType DEF StorageInv, TypeOK, GorRec
  <2> HIDE DEF r
  <2> QED
    BY Zenon, <1>1, <1>3, <2>2, <2>3, <2>4, SetupKeeps DEF setEncryptionClient, StorageInv, TypeOK
<1> QED
  BY Zenon, <1>2, <1>3

\* Closing a goroutine's channels, or taking what is in them.
LEMMA ChannelKeeps ==
  ASSUME StorageInv, NEW g \in Gor, NEW r,
         gor' = [gor EXCEPT ![g] = r],
         \/ r = IdleGor
         \/ r = [gor[g] EXCEPT !.closed = TRUE]
         \/ r = [gor[g] EXCEPT !.buf = "empty"]
  PROVE  /\ gor' \in [Gor -> GorRec]
         /\ \A h \in Gor : gor'[h].pc \in {"login", "cache"} => gor'[h].auth # None
<1>1. gor \in [Gor -> GorRec] /\ gor[g] \in GorRec
  BY Zenon DEF StorageInv, TypeOK
<1>2. r \in GorRec /\ (r.pc = "none" \/ (r.pc = gor[g].pc /\ r.auth = gor[g].auth))
  <2>1. CASE r = IdleGor
    BY Zenon, <2>1, IdleType
  <2>2. CASE r = [gor[g] EXCEPT !.closed = TRUE]
    BY Zenon, <1>1, <2>2 DEF GorRec
  <2>3. CASE r = [gor[g] EXCEPT !.buf = "empty"]
    BY Zenon, <1>1, <2>3 DEF GorRec
  <2> QED
    BY Zenon, <2>1, <2>2, <2>3
<1> QED
  BY Zenon, <1>1, <1>2 DEF StorageInv

LEMMA ReceiveKeeps ==
  ASSUME StorageInv, NEW o \in Op, Received(o) \/ Close(o) \/ SetupFailed(o)
  PROVE  StorageInv'
<1>1. /\ op[o] \in OpRec /\ op[o].key \in Requested /\ Sound(op[o].entry) /\ op \in [Op -> OpRec]
      /\ op[o].g \in Gor /\ gor \in [Gor -> GorRec]
  BY Zenon DEF StorageInv, TypeOK, OpInv, Received, Close, SetupFailed, At, OpRec
<1>2. gor[op[o].g] \in GorRec
  BY Zenon, <1>1
<1>3. CASE Received(o)
  <2> DEFINE r == [op[o] EXCEPT !.pc = "close", !.client = gor[op[o].g].auth]
  <2>1. op' = [op EXCEPT ![o] = r] /\ gor' = [gor EXCEPT ![op[o].g] = [@ EXCEPT !.buf = "empty"]]
    BY Zenon, <1>1, <1>3 DEF Received
  <2>2. r \in OpRec /\ r.pc = "close" /\ r.g = op[o].g /\ r.key = op[o].key /\ r.entry = op[o].entry
    BY Zenon, <1>1, <1>2 DEF OpRec, GorRec
  <2>3. r.g # None
    BY Zenon, <1>1, <2>2, StorageAssumption
  <2>4. /\ gor' \in [Gor -> GorRec]
        /\ \A h \in Gor : gor'[h].pc \in {"login", "cache"} => gor'[h].auth # None
    BY Zenon, <1>1, <2>1, ChannelKeeps
  <2>5. /\ encrypt' \in AuthName \cup {None} /\ cache' \subseteq AuthName
        /\ encLock' \in Op \cup {None} /\ faults' \in 0..MaxFaults
        /\ UNCHANGED <<entries, config, mutex>>
    BY Zenon, <1>3 DEF Received, StorageInv, TypeOK
  <2> HIDE DEF r
  <2> QED
    BY Zenon, <1>1, <2>1, <2>2, <2>3, <2>4, <2>5, SetupKeeps
<1>4. CASE Close(o)
  <2> DEFINE r == [op[o] EXCEPT !.pc = "lock", !.g = None]
  <2>1. op' = [op EXCEPT ![o] = r]
    BY Zenon, <1>1, <1>4 DEF Close
  <2>2. r \in OpRec /\ r.pc = "lock" /\ r.key = op[o].key /\ r.entry = op[o].entry
    BY Zenon, <1>1 DEF OpRec
  <2>3. /\ gor' \in [Gor -> GorRec]
        /\ \A h \in Gor : gor'[h].pc \in {"login", "cache"} => gor'[h].auth # None
    BY Zenon, <1>1, <1>4, ChannelKeeps DEF Close
  <2> HIDE DEF r
  <2> QED
    BY Zenon, <1>1, <1>4, <2>1, <2>2, <2>3, SetupKeeps DEF Close, StorageInv, TypeOK
<1>5. CASE SetupFailed(o)
  <2>1. /\ gor' \in [Gor -> GorRec]
        /\ \A h \in Gor : gor'[h].pc \in {"login", "cache"} => gor'[h].auth # None
    BY Zenon, <1>1, <1>5, ChannelKeeps DEF SetupFailed
  <2>2. faults' \in 0..MaxFaults
    BY Zenon, <1>5, FaultType DEF SetupFailed, StorageInv, TypeOK
  <2>3. Sound(IdleOp.entry) /\ cache' \subseteq AuthName
    BY Zenon, <1>5, IdleType DEF Sound, SetupFailed, StorageInv, TypeOK
  <2> QED
    BY Zenon, <1>5, <2>1, <2>2, <2>3, IdleType, SetupKeeps DEF SetupFailed
<1> QED
  BY Zenon, <1>3, <1>4, <1>5

\* A goroutine touches the encryption client and its channels only.
LEMMA GorKeeps ==
  ASSUME StorageInv, NEW g \in Gor, GorStep(g)
  PROVE  StorageInv'
<1>1. gor \in [Gor -> GorRec] /\ gor[g] \in GorRec
  BY Zenon DEF StorageInv, TypeOK
<1>2. UNCHANGED <<op, encLock, entries, config, mutex>>
  BY Zenon DEF GorStep, FindVaultAuth, Login, CacheClient, Send, ByGor
<1>3. faults' \in 0..MaxFaults
  BY Zenon, FaultType DEF GorStep, FindVaultAuth, Login, CacheClient, Send, StorageInv, TypeOK
<1>4. PICK r : /\ gor' = [gor EXCEPT ![g] = r] /\ r \in GorRec
               /\ r.pc \in {"login", "cache"} => r.auth # None
  <2>1. CASE FindVaultAuth(g)
    BY <1>1, <2>1 DEF FindVaultAuth, GorRec, StorageInv, TypeOK
  <2>2. CASE Login(g)
    BY <1>1, <2>2 DEF Login, GorRec, StorageInv
  <2>3. CASE CacheClient(g)
    <3>1. [gor[g] EXCEPT !.pc = "send"] \in GorRec
      BY Zenon, <1>1 DEF GorRec
    <3> QED
      BY Zenon, <1>1, <2>3, <3>1 DEF CacheClient, GorRec
  <2>4. CASE Send(g)
    <3>1. PICK pc \in {"resend", "none"}, buf \in {"client", "error"} :
            gor' = [gor EXCEPT ![g] = [gor[g] EXCEPT !.pc = pc, !.buf = buf]]
      BY Zenon, <2>4 DEF Send
    <3>2. [gor[g] EXCEPT !.pc = pc, !.buf = buf] \in GorRec
      BY Zenon, <1>1 DEF GorRec
    <3> QED
      BY Zenon, <1>1, <3>1, <3>2 DEF GorRec
  <2> QED
    BY Zenon, <2>1, <2>2, <2>3, <2>4 DEF GorStep
<1>5. encrypt' \in AuthName \cup {None} /\ cache' \subseteq AuthName
  <2>1. CASE CacheClient(g)
    <3>1. gor[g].auth \in AuthName
      BY Zenon, <1>1, <2>1 DEF CacheClient, GorRec, StorageInv
    <3> QED
      BY Zenon, <2>1, <3>1 DEF CacheClient, StorageInv, TypeOK
  <2>2. CASE FindVaultAuth(g) \/ Login(g) \/ Send(g)
    BY Zenon, <2>2 DEF FindVaultAuth, Login, Send, StorageInv, TypeOK
  <2> QED
    BY Zenon, <2>1, <2>2 DEF GorStep
<1>6. TypeOK' /\ \A h \in Gor : gor'[h].pc \in {"login", "cache"} => gor'[h].auth # None
  BY Zenon, <1>1, <1>2, <1>3, <1>4, <1>5 DEF StorageInv, TypeOK, config, mutex
<1> QED
  BY Zenon, <1>2, <1>6 DEF StorageInv, OpInv, AsRead, Sound, config, mutex
-----------------------------------------------------------------------------
\* A worker's step on the storage, that leaves the others their locks and what they read.
LEMMA StepKeeps ==
  ASSUME StorageInv, NEW o \in Op, NEW r \in OpRec, op' = [op EXCEPT ![o] = r],
         UNCHANGED <<config, enc>>, faults' \in 0..MaxFaults,
         writer' \in Op \cup {None}, readers' \subseteq Op, writer' # None => readers' = {},
         entries' \in [Requested -> EntryRec \cup {None}], \A k \in Requested : Sound(entries'[k]),
         \A p \in Op : p # o => /\ writer = p => writer' = p
                                /\ p \in readers => p \in readers',
         \A p \in Op, k \in Requested : p # o /\ p \in readers =>
           \/ entries'[k] = None
           \/ entries[k] # None /\ entries'[k].data.tok.n = entries[k].data.tok.n,
         OpInv(o)'
  PROVE  StorageInv'
<1>1. op' \in [Op -> OpRec] /\ \A p \in Op : p # o => op'[p] = op[p]
  BY Zenon DEF StorageInv, TypeOK
<1>2. TypeOK'
  BY Zenon, <1>1 DEF StorageInv, TypeOK, config, enc
<1>3. ASSUME NEW p \in Op, p # o PROVE OpInv(p)'
  <2>1. OpInv(p) /\ hmacKey' = hmacKey
    BY Zenon DEF StorageInv, config
  <2> QED
    BY <1>1, <1>3, <2>1, OthersKeep
<1> QED
  BY Zenon, <1>2, <1>3 DEF StorageInv, enc, Sound

\* The case of a step that changes no Secret.
LEMMA ReadKeeps ==
  ASSUME StorageInv, NEW o \in Op, NEW r \in OpRec, op' = [op EXCEPT ![o] = r],
         UNCHANGED <<entries, config, enc>>, faults' \in 0..MaxFaults,
         writer' \in Op \cup {None}, readers' \subseteq Op, writer' # None => readers' = {},
         \A p \in Op : p # o => /\ writer = p => writer' = p
                                /\ p \in readers => p \in readers',
         OpInv(o)'
  PROVE  StorageInv'
<1>1. \A p \in Op, k \in Requested : p # o /\ p \in readers =>
        \/ entries'[k] = None
        \/ entries[k] # None /\ entries'[k].data.tok.n = entries[k].data.tok.n
  BY Zenon
<1>2. /\ entries' \in [Requested -> EntryRec \cup {None}]
      /\ \A k \in Requested : Sound(entries'[k])
  BY Zenon DEF StorageInv, TypeOK, Sound
<1> QED
  BY Zenon, <1>1, <1>2, StepKeeps

LEMMA UnlockKeeps ==
  ASSUME StorageInv, NEW o \in Op, Unlock(o)
  PROVE  /\ writer' \in Op \cup {None} /\ readers' \subseteq Op /\ (writer' # None => readers' = {})
         /\ \A p \in Op : p # o => /\ writer = p => writer' = p
                                   /\ p \in readers => p \in readers'
BY Zenon, StorageAssumption DEF Unlock, StorageInv, TypeOK

\* A request that ends without having changed a Secret.
LEMMA EndKeeps ==
  ASSUME StorageInv, NEW o \in Op, op' = [op EXCEPT ![o] = IdleOp], Unlock(o) \/ UNCHANGED mutex,
         faults' \in 0..MaxFaults, UNCHANGED <<entries, config, enc>>
  PROVE  StorageInv'
<1>1. op'[o] = IdleOp
  BY Zenon DEF StorageInv, TypeOK
<1>2. /\ writer' \in Op \cup {None} /\ readers' \subseteq Op /\ (writer' # None => readers' = {})
      /\ \A p \in Op : p # o => /\ writer = p => writer' = p
                                /\ p \in readers => p \in readers'
  BY Zenon, UnlockKeeps DEF mutex, StorageInv, TypeOK
<1> QED
  BY Zenon, <1>1, <1>2, IdleType, IdleKeeps, ReadKeeps

LEMMA LockKeeps == ASSUME StorageInv, NEW o \in Op, Lock(o) PROVE StorageInv'
<1>1. op[o] \in OpRec /\ op \in [Op -> OpRec] /\ OpInv(o)
  BY Zenon DEF StorageInv, TypeOK
<1>2. PICK pc \in {"encrypt", "get", "prune"} :
        /\ op' = [op EXCEPT ![o].pc = pc]
        /\ IF op[o].kind = "restore" THEN pc = "get" ELSE pc # "get"
  BY Zenon, <1>1 DEF Lock, Goto, OpRec
<1> DEFINE r == [op[o] EXCEPT !.pc = pc]
<1>3. r \in OpRec /\ op' = [op EXCEPT ![o] = r] /\ op'[o] = r
  BY <1>1, <1>2 DEF OpRec
<1>4. r.pc = pc /\ r.key = op[o].key /\ r.entry = op[o].entry
  BY Zenon, <1>1 DEF OpRec
<1>5. /\ writer' \in Op \cup {None} /\ readers' \subseteq Op /\ (writer' # None => readers' = {})
      /\ \A p \in Op : p # o => /\ writer = p => writer' = p
                                /\ p \in readers => p \in readers'
  BY Zenon, StorageAssumption DEF Lock, MayLock, StorageInv, TypeOK
<1>6. (pc = "get" => o \in readers') /\ (pc # "get" => writer' = o)
  BY Zenon, <1>2 DEF Lock
<1> HIDE DEF r
<1>7. OpInv(o)'
  BY Zenon, <1>1, <1>3, <1>4, <1>6 DEF OpInv, Sound, Writing, Reading
<1>8. UNCHANGED <<entries, config, enc>> /\ faults' \in 0..MaxFaults
  BY Zenon DEF Lock, StorageInv, TypeOK
<1> QED
  BY Zenon, <1>3, <1>5, <1>7, <1>8, ReadKeeps

LEMMA FailedKeeps == ASSUME StorageInv, NEW o \in Op, RequestFailed(o) PROVE StorageInv'
BY Zenon, FaultType, EndKeeps DEF RequestFailed

LEMMA ReturnKeeps == ASSUME StorageInv, NEW o \in Op, Return(o) PROVE StorageInv'
<1>1. faults' \in 0..MaxFaults
  BY Zenon DEF Return, StorageInv, TypeOK
<1> QED
  BY Zenon, <1>1, EndKeeps DEF Return

LEMMA EncryptedKeeps == ASSUME StorageInv, NEW o \in Op, Encrypted(o) PROVE StorageInv'
<1>1. op[o] \in OpRec /\ op \in [Op -> OpRec] /\ OpInv(o) /\ op[o].pc = "encrypt"
  BY Zenon DEF StorageInv, TypeOK, Encrypted, At
<1>2. op[o].key \in Key /\ op[o].client \in AuthName \cup {None} /\ hmacKey \in 1..MaxHmac
  BY Zenon, <1>1 DEF OpRec, StorageInv, TypeOK
<1>3. PICK n \in Serial :
        op' = [op EXCEPT ![o].pc = "create",
          ![o].entry = [data |-> [tok |-> [key |-> op[o].key, n |-> n], enc |-> op[o].client],
                        ref |-> op[o].client,
                        mac |-> MAC(op[o].key, [tok |-> [key |-> op[o].key, n |-> n],
                                                enc |-> op[o].client])]]
  BY Zenon DEF Encrypted
<1> DEFINE d == [tok |-> [key |-> op[o].key, n |-> n], enc |-> op[o].client]
           e == [data |-> d, ref |-> op[o].client, mac |-> MAC(op[o].key, d)]
           r == [op[o] EXCEPT !.pc = "create", !.entry = e]
<1>4. d \in DataRec /\ d.tok.key = op[o].key
  BY Zenon, <1>2 DEF DataRec, TokenRec
<1>5. op' = [op EXCEPT ![o] = r]
  BY Zenon, <1>1, <1>3
<1> HIDE DEF d
<1>6. e \in EntryRec /\ Sound(e)
  BY Zenon, <1>2, <1>4 DEF EntryRec, MAC, Sound
<1>7. e # None
  BY Zenon, <1>6, StorageAssumption
<1> HIDE DEF e
<1>8. r \in OpRec /\ r.pc = "create" /\ r.key = op[o].key /\ r.entry = e
  BY Zenon, <1>1, <1>6 DEF OpRec
<1> HIDE DEF r
<1>9. UNCHANGED <<entries, config, enc, mutex>> /\ faults' \in 0..MaxFaults
  BY Zenon DEF Encrypted, StorageInv, TypeOK
<1>10. op'[o] = r
  BY Zenon, <1>1, <1>5
<1>11. OpInv(o)'
  BY Zenon, <1>1, <1>6, <1>7, <1>8, <1>9, <1>10 DEF OpInv, Sound, Writing, Reading, mutex
<1>12. /\ writer' \in Op \cup {None} /\ readers' \subseteq Op /\ (writer' # None => readers' = {})
       /\ \A p \in Op : p # o => /\ writer = p => writer' = p
                                 /\ p \in readers => p \in readers'
  BY Zenon, <1>9 DEF mutex, StorageInv, TypeOK
<1> QED
  BY Zenon, <1>5, <1>8, <1>9, <1>11, <1>12, ReadKeeps

\* A writer that stores or deletes the Secret of its key has no readers beside it.
LEMMA CreateKeeps == ASSUME StorageInv, NEW o \in Op, Create(o) PROVE StorageInv'
<1>1. /\ op[o] \in OpRec /\ op \in [Op -> OpRec] /\ OpInv(o) /\ op[o].key \in Requested
      /\ op[o].pc \in {"create", "recreate"} /\ writer = o /\ readers = {}
      /\ op[o].entry \in EntryRec /\ Sound(op[o].entry)
  BY StorageAssumption DEF StorageInv, TypeOK, Create, OpInv, Writing, OpRec
<1>2. entries \in [Requested -> EntryRec \cup {None}] /\ \A k \in Requested : Sound(entries[k])
  BY Zenon DEF StorageInv, TypeOK
<1>3. UNCHANGED <<config, enc>> /\ faults' \in 0..MaxFaults
  BY Zenon DEF Create, StorageInv, TypeOK
<1>4. CASE entries[op[o].key] = None
  <2>1. /\ entries' = [entries EXCEPT ![op[o].key] = op[o].entry]
        /\ op' = [op EXCEPT ![o] = IdleOp] /\ Unlock(o)
    BY Zenon, <1>4 DEF Create
  <2>2. /\ entries' \in [Requested -> EntryRec \cup {None}]
        /\ \A k \in Requested : Sound(entries'[k])
    BY Zenon, <1>1, <1>2, <2>1
  <2>3. op'[o] = IdleOp
    BY Zenon, <1>1, <2>1
  <2>4. /\ writer' \in Op \cup {None} /\ readers' \subseteq Op /\ (writer' # None => readers' = {})
        /\ \A p \in Op : p # o => /\ writer = p => writer' = p
                                  /\ p \in readers => p \in readers'
    BY Zenon, <2>1, UnlockKeeps
  <2> QED
    BY Zenon, <1>1, <1>3, <2>1, <2>2, <2>3, <2>4, IdleType, IdleKeeps, StepKeeps
<1>5. CASE entries[op[o].key] # None
  <2> DEFINE r == [op[o] EXCEPT !.pc = "recreate"]
  <2>1. /\ entries' = [entries EXCEPT ![op[o].key] = None]
        /\ op' = [op EXCEPT ![o] = r] /\ UNCHANGED mutex
    BY Zenon, <1>1, <1>5 DEF Create, Goto
  <2>2. /\ entries' \in [Requested -> EntryRec \cup {None}]
        /\ \A k \in Requested : Sound(entries'[k])
    BY Zenon, <1>1, <1>2, <2>1 DEF Sound
  <2>3. r \in OpRec /\ r.pc = "recreate" /\ r.key = op[o].key /\ r.entry = op[o].entry
    BY Zenon, <1>1 DEF OpRec
  <2> HIDE DEF r
  <2>4. op'[o] = r
    BY Zenon, <1>1, <2>1
  <2>5. OpInv(o)'
    BY Zenon, <1>1, <2>1, <2>3, <2>4 DEF OpInv, Sound, Writing, Reading, mutex
  <2>6. /\ writer' \in Op \cup {None} /\ readers' \subseteq Op /\ (writer' # None => readers' = {})
        /\ \A p \in Op : p # o => /\ writer = p => writer' = p
                                  /\ p \in readers => p \in readers'
    BY Zenon, <1>1, <2>1 DEF mutex
  <2> QED
    BY Zenon, <1>1, <1>3, <2>1, <2>2, <2>3, <2>5, <2>6, StepKeeps
<1> QED
  BY Zenon, <1>4, <1>5

LEMMA GetKeeps == ASSUME StorageInv, NEW o \in Op, Get(o) PROVE StorageInv'
<1>1. /\ op[o] \in OpRec /\ op \in [Op -> OpRec] /\ OpInv(o) /\ op[o].key \in Requested
      /\ op[o].pc = "get" /\ o \in readers
  BY Zenon DEF StorageInv, TypeOK, Get, At, OpInv, Reading
<1>2. UNCHANGED <<entries, config, enc>> /\ faults' \in 0..MaxFaults
  BY Zenon DEF Get, StorageInv, TypeOK
<1>3. CASE entries[op[o].key] = None
  BY Zenon, <1>2, <1>3, EndKeeps DEF Get
<1>4. CASE entries[op[o].key] # None
  <2> DEFINE r == [op[o] EXCEPT !.pc = "check", !.entry = entries[op[o].key]]
  <2>1. op' = [op EXCEPT ![o] = r] /\ UNCHANGED mutex
    BY Zenon, <1>1, <1>4 DEF Get
  <2>2. entries[op[o].key] \in EntryRec /\ Sound(entries[op[o].key])
    BY Zenon, <1>1, <1>4 DEF StorageInv, TypeOK
  <2>3. r \in OpRec /\ r.pc = "check" /\ r.key = op[o].key /\ r.entry = entries[op[o].key]
    BY Zenon, <1>1, <2>2 DEF OpRec
  <2> HIDE DEF r
  <2>4. op'[o] = r
    BY Zenon, <1>1, <2>1
  <2>5. OpInv(o)'
    BY Zenon, <1>1, <1>2, <1>4, <2>1, <2>2, <2>3, <2>4
       DEF OpInv, AsRead, Sound, Writing, Reading, mutex
  <2>6. /\ writer' \in Op \cup {None} /\ readers' \subseteq Op /\ (writer' # None => readers' = {})
        /\ \A p \in Op : p # o => /\ writer = p => writer' = p
                                  /\ p \in readers => p \in readers'
    BY Zenon, <2>1 DEF mutex, StorageInv, TypeOK
  <2> QED
    BY Zenon, <1>2, <2>1, <2>3, <2>5, <2>6, ReadKeeps
<1> QED
  BY Zenon, <1>3, <1>4

\* The MAC that is right for the key of the worker names that key, and so does the token it covers.
LEMMA CheckKeeps == ASSUME StorageInv, NEW o \in Op, Check(o) PROVE StorageInv'
<1>1. /\ op[o] \in OpRec /\ op \in [Op -> OpRec] /\ OpInv(o) /\ op[o].key \in Requested
      /\ op[o].pc = "check" /\ o \in readers /\ op[o].entry \in EntryRec /\ Sound(op[o].entry)
      /\ op[o].entry # None
  BY Zenon DEF StorageInv, TypeOK, Check, At, OpInv, Reading, OpRec
<1>2. UNCHANGED <<entries, config, enc>> /\ faults' \in 0..MaxFaults
  BY Zenon, FaultType DEF Check, StorageInv, TypeOK
<1>3. CASE Restorable(o) /\ op' = [op EXCEPT ![o].pc = "done", ![o].got = op[o].entry.data.tok]
           /\ Unlock(o)
  <2> DEFINE r == [op[o] EXCEPT !.pc = "done", !.got = op[o].entry.data.tok]
  <2>1. op' = [op EXCEPT ![o] = r] /\ Unlock(o)
    BY Zenon, <1>1, <1>3
  <2>2. /\ op[o].entry.mac.key = op[o].key /\ op[o].entry.mac.data = op[o].entry.data
        /\ op[o].entry.mac.hmac = hmacKey
    BY <1>3 DEF Restorable, MAC
  <2>3. op[o].entry.data.tok.key = op[o].key /\ op[o].entry.data.tok \in TokenRec
    BY Zenon, <1>1, <2>2 DEF Sound, EntryRec, DataRec
  <2>4. /\ r \in OpRec /\ r.pc = "done" /\ r.key = op[o].key /\ r.entry = op[o].entry
        /\ r.got = op[o].entry.data.tok
    BY Zenon, <1>1, <2>3 DEF OpRec
  <2> HIDE DEF r
  <2>5. op'[o] = r /\ hmacKey' = hmacKey
    BY Zenon, <1>1, <1>2, <2>1 DEF config
  <2>6. OpInv(o)'
    BY Zenon, <1>1, <2>2, <2>3, <2>4, <2>5 DEF OpInv, Sound, Writing, Reading
  <2> QED
    BY Zenon, <1>2, <2>1, <2>4, <2>6, UnlockKeeps, ReadKeeps
<1>4. CASE Goto(o, "discard") /\ UNCHANGED mutex
  <2> DEFINE r == [op[o] EXCEPT !.pc = "discard"]
  <2>1. op' = [op EXCEPT ![o] = r] /\ UNCHANGED mutex
    BY Zenon, <1>1, <1>4 DEF Goto
  <2>2. r \in OpRec /\ r.pc = "discard" /\ r.key = op[o].key /\ r.entry = op[o].entry
    BY Zenon, <1>1 DEF OpRec
  <2> HIDE DEF r
  <2>3. op'[o] = r
    BY Zenon, <1>1, <2>1
  <2>4. OpInv(o)'
    BY Zenon, <1>1, <1>2, <2>1, <2>2, <2>3 DEF OpInv, AsRead, Sound, Writing, Reading, mutex
  <2>5. /\ writer' \in Op \cup {None} /\ readers' \subseteq Op /\ (writer' # None => readers' = {})
        /\ \A p \in Op : p # o => /\ writer = p => writer' = p
                                  /\ p \in readers => p \in readers'
    BY Zenon, <2>1 DEF mutex, StorageInv, TypeOK
  <2> QED
    BY Zenon, <1>2, <2>1, <2>2, <2>4, <2>5, ReadKeeps
<1> QED
  BY Zenon, <1>3, <1>4 DEF Check

LEMMA DeleteKeeps == ASSUME StorageInv, NEW o \in Op, Delete(o) PROVE StorageInv'
<1>1. op \in [Op -> OpRec] /\ op[o].key \in Requested
  BY Zenon DEF StorageInv, TypeOK, OpInv
<1>2. UNCHANGED <<config, enc>> /\ faults' \in 0..MaxFaults
  BY Zenon DEF Delete, StorageInv, TypeOK
<1>3. /\ entries' = [entries EXCEPT ![op[o].key] = None]
      /\ op' = [op EXCEPT ![o] = IdleOp] /\ Unlock(o)
  BY Zenon DEF Delete
<1>4. /\ entries' \in [Requested -> EntryRec \cup {None}]
      /\ \A k \in Requested : Sound(entries'[k])
      /\ \A k \in Requested : entries'[k] = None \/ entries'[k] = entries[k]
  BY Zenon, <1>1, <1>3 DEF Sound, StorageInv, TypeOK
<1>5. op'[o] = IdleOp
  BY Zenon, <1>1, <1>3
<1>6. \A p \in Op, k \in Requested : p # o /\ p \in readers =>
        \/ entries'[k] = None
        \/ entries[k] # None /\ entries'[k].data.tok.n = entries[k].data.tok.n
  BY Zenon, <1>4
<1> QED
  BY Zenon, <1>2, <1>3, <1>4, <1>5, <1>6, UnlockKeeps, IdleType, IdleKeeps, StepKeeps
-----------------------------------------------------------------------------
LEMMA StartKeeps ==
  ASSUME StorageInv, NEW m \in Models, Start(m), hmacKey' \in 1..MaxHmac, faults' \in 0..MaxFaults
  PROVE  StorageInv'
<1>1. /\ entries' \in [Requested -> EntryRec \cup {None}]
      /\ \A k \in Requested : Sound(entries'[k])
  BY Zenon DEF Start, StorageInv, TypeOK, Sound
<1>2. op' \in [Op -> OpRec] /\ gor' \in [Gor -> GorRec] /\ \A g \in Gor : gor'[g].pc = "none"
  BY Zenon, IdleType DEF Start
<1>3. TypeOK'
  BY Zenon, <1>1, <1>2 DEF Start, StorageInv, TypeOK
<1>4. \A o \in Op : OpInv(o)'
  BY Zenon, IdleKeeps DEF Start
<1> QED
  BY Zenon, <1>1, <1>2, <1>3, <1>4 DEF Start, StorageInv

LEMMA RestartKeeps == ASSUME StorageInv, Restart \/ Panic PROVE StorageInv'
<1>1. CASE Restart
  <2>1. hmacKey' \in 1..MaxHmac
    BY <1>1, StorageAssumption DEF Restart, StorageInv, TypeOK
  <2>2. PICK m \in Models : Start(m)
    BY Zenon, <1>1 DEF Restart
  <2> QED
    BY Zenon, <1>1, <2>1, <2>2, FaultType, StartKeeps DEF Restart
<1>2. CASE Panic
  <2>1. /\ model \in Models /\ Start(model) /\ hmacKey' \in 1..MaxHmac
        /\ faults' \in 0..MaxFaults
    BY Zenon, <1>2 DEF Panic, StorageInv, TypeOK
  <2>2. \A m \in Models : Start(m) => StorageInv'
    BY Zenon, <2>1, StartKeeps
  <2> QED
    BY Zenon, <2>1, <2>2
<1> QED
  BY Zenon, <1>1, <1>2

LEMMA AroundKeeps == ASSUME StorageInv, AuthChanged \/ ClientLost PROVE StorageInv'
<1>1. faults' \in 0..MaxFaults
  BY Zenon, FaultType DEF AuthChanged, ClientLost
<1>2. /\ UNCHANGED <<model, hmacKey, encrypt, encLock, writer, readers, entries, op, gor>>
      /\ auth' \in AuthName \cup {None} /\ cache' \subseteq AuthName
  BY Zenon DEF AuthChanged, ClientLost, enc, config, mutex, StorageInv, TypeOK
<1>3. TypeOK'
  BY Zenon, <1>1, <1>2 DEF StorageInv, TypeOK
<1> QED
  BY <1>2, <1>3 DEF StorageInv, OpInv, AsRead, Sound

\* The user can put Secrets under other names, but makes no MAC of their own.
LEMMA TamperedKeeps == ASSUME StorageInv, Tampered PROVE StorageInv'
<1>1. faults' \in 0..MaxFaults /\ UNCHANGED <<op, config, enc, mutex>>
  BY Zenon, FaultType DEF Tampered
<1>2. entries \in [Requested -> EntryRec \cup {None}]
  BY Zenon DEF StorageInv, TypeOK
<1>3. PICK k \in Requested, e \in EntryRec :
        /\ entries[k] # None /\ entries' = [entries EXCEPT ![k] = e]
        /\ e \in EntryRec /\ Sound(e) /\ e.data.tok.n = entries[k].data.tok.n
  <2>1. PICK k \in Requested :
          /\ entries[k] # None
          /\ \/ \E l \in Key \ {k} :
                  LET d == [entries[k].data EXCEPT !.tok.key = l] IN
                  entries' = [entries EXCEPT ![k].data = d,
                               ![k].mac = [MAC(l, d) EXCEPT !.hmac = entries[k].mac.hmac]]
             \/ entries' = [entries EXCEPT ![k].ref = None]
    BY Zenon DEF Tampered
  <2>2. entries[k] \in EntryRec /\ Sound(entries[k])
    BY Zenon, <1>2, <2>1 DEF StorageInv
  <2>3. CASE entries' = [entries EXCEPT ![k].ref = None]
    <3>1. /\ [entries[k] EXCEPT !.ref = None] \in EntryRec
          /\ [entries[k] EXCEPT !.ref = None].data = entries[k].data
          /\ Sound([entries[k] EXCEPT !.ref = None])
      BY Zenon, <2>1, <2>2 DEF EntryRec, Sound
    <3> QED
      BY Zenon, <1>2, <2>1, <2>3, <3>1
  <2>4. ASSUME NEW l \in Key,
               LET d == [entries[k].data EXCEPT !.tok.key = l] IN
               entries' = [entries EXCEPT ![k].data = d,
                            ![k].mac = [MAC(l, d) EXCEPT !.hmac = entries[k].mac.hmac]]
        PROVE  \E e : /\ entries' = [entries EXCEPT ![k] = e]
                      /\ e \in EntryRec /\ Sound(e) /\ e.data.tok.n = entries[k].data.tok.n
    <3> DEFINE d == [entries[k].data EXCEPT !.tok.key = l]
               mac == [MAC(l, d) EXCEPT !.hmac = entries[k].mac.hmac]
               e == [entries[k] EXCEPT !.data = d, !.mac = mac]
    <3>1. d \in DataRec /\ d.tok.key = l /\ d.tok.n = entries[k].data.tok.n
      BY Zenon, <2>2 DEF EntryRec, DataRec, TokenRec
    <3>2. entries' = [entries EXCEPT ![k] = e]
      BY Zenon, <1>2, <2>4
    <3> HIDE DEF d
    <3>3. mac = [hmac |-> entries[k].mac.hmac, key |-> l, data |-> d]
      BY DEF MAC
    <3> HIDE DEF mac
    <3>4. e \in EntryRec /\ e.mac = mac /\ e.data = d
      BY Zenon, <2>2, <3>1, <3>3 DEF EntryRec
    <3> HIDE DEF e
    <3>5. Sound(e)
      BY <3>1, <3>3, <3>4 DEF Sound
    <3> QED
      BY Zenon, <3>1, <3>2, <3>4, <3>5
  <2> QED
    BY ZenonT(40), <2>1, <2>3, <2>4
<1>4. /\ entries' \in [Requested -> EntryRec \cup {None}]
      /\ \A x \in Requested : Sound(entries'[x])
      /\ \A x \in Requested : \/ entries'[x] = None
                              \/ entries[x] # None /\ entries'[x].data.tok.n = entries[x].data.tok.n
  BY Zenon, <1>2, <1>3 DEF StorageInv
<1>5. TypeOK'
  BY Zenon, <1>1, <1>4 DEF StorageInv, TypeOK, config, enc, mutex
<1>6. ASSUME NEW p \in Op PROVE OpInv(p)'
  BY Zenon, <1>1, <1>4, OthersKeep DEF StorageInv, config, mutex
<1> QED
  BY Zenon, <1>1, <1>4, <1>5, <1>6 DEF StorageInv, enc, mutex
-----------------------------------------------------------------------------
LEMMA NextKeeps == StorageInv /\ [Next]_vars => StorageInv'
<1> SUFFICES ASSUME StorageInv, [Next]_vars PROVE StorageInv'
  BY Zenon
<1>1. ASSUME NEW o \in Op, OpStep(o) PROVE StorageInv'
  BY Zenon, <1>1, ClientKeeps, ReceiveKeeps, LockKeeps, FailedKeeps, EncryptedKeeps, CreateKeeps,
     GetKeeps,
     CheckKeeps, DeleteKeeps, ReturnKeeps
  DEF OpStep
<1>2. CASE UNCHANGED vars
  BY <1>2 DEF vars, StorageInv, TypeOK, OpInv, AsRead, Sound
<1> QED
  BY Zenon, <1>1, <1>2, RequestKeeps, GorKeeps, RestartKeeps, AroundKeeps, TamperedKeeps DEF Next

\* The variables keep their types.
THEOREM TypeCorrect == Spec => []TypeOK
<1>1. StorageInv => TypeOK
  BY Zenon DEF StorageInv
<1> QED
  BY <1>1, InitStorage, NextKeeps, PTL DEF Spec

\* A token that is restored was stored for the same cache key under the HMAC key in use: users can
\* move Secrets and change labels, but not make a MAC (vault/cache_storage.go:513-550).
THEOREM RestoredIsAsStored == Spec => []RestoredAsStored
<1>1. StorageInv => RestoredAsStored
  BY Zenon DEF StorageInv, OpInv, RestoredAsStored, At
<1> QED
  BY <1>1, InitStorage, NextKeeps, PTL DEF Spec

\* A Restore that gives up an entry does not delete one that was stored since: the read lock it holds
\* keeps every Store out (vault/cache_storage.go:201, 316, 349-362).
THEOREM OnlyTheReadIsDiscarded == Spec => DiscardsWhatItRead
<1>1. StorageInv /\ [Next]_vars =>
        [\A o \in Op : At(o, "discard") /\ op'[o].pc = "idle" /\ Delete(o)
           => entries[op[o].key] = None \/ entries[op[o].key].data.tok.n = op[o].entry.data.tok.n]_vars
  BY Zenon DEF StorageInv, OpInv, AsRead, At
<1> QED
  BY <1>1, InitStorage, NextKeeps, PTL DEF Spec, DiscardsWhatItRead
=============================================================================
