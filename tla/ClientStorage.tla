---------------------------- MODULE ClientStorage ----------------------------
(***************************************************************************)
(* The storage of Vault clients in Secrets (vault/cache_storage.go), and   *)
(* the client with which the factory encrypts what it stores               *)
(* (vault/client_factory.go, storageEncryptionClient and                   *)
(* setEncryptionClient): requests of several workers, the goroutines that  *)
(* set up the encryption client, users who change Secrets, and restarts    *)
(* with another persistence model.                                         *)
(***************************************************************************)
EXTENDS Naturals

CONSTANTS
  Op,          \* the workers that store and restore clients
  Gor,         \* the goroutines of setEncryptionClient
  Key,         \* cache keys
  Requested,   \* those of the clients that the workers store and restore
  AuthName,    \* VaultAuths for storage encryption, which name a transit key
  None,
  Models,      \* the persistence models the operator is started with
  Serial,      \* tells tokens of one key apart, enough for one to be unused at any time
  MaxHmac,     \* bound on the HMAC keys generated
  MaxFaults    \* bound on failures, restarts, and what users do

TokenRec == [key: Key, n: Serial]
\* The bytes stored: a token, encrypted with the transit key of a VaultAuth, or not.
DataRec == [tok: TokenRec, enc: AuthName \cup {None}]
\* A stored client: its data, the label vaultTransitRef, and the MAC, which stands for its arguments.
EntryRec == [data: DataRec, ref: AuthName \cup {None},
             mac: [hmac: 1..MaxHmac, key: Key, data: DataRec]]
OpRec == [pc: {"idle", "client", "setup", "wait", "close", "lock", "encrypt", "create", "recreate",
               "get", "check", "discard", "prune", "done"},
          kind: {"store", "restore", "prune"}, key: Key, g: Gor \cup {None},
          client: AuthName \cup {None}, entry: EntryRec \cup {None}, got: TokenRec \cup {None}]
\* A goroutine: what it found, whether its channels are closed, and what is in them.
GorRec == [pc: {"none", "find", "login", "cache", "send", "resend", "error"},
           auth: AuthName \cup {None}, closed: BOOLEAN, buf: {"empty", "client", "error"}]

ASSUME StorageAssumption ==
  /\ None \notin Op /\ None \notin Gor /\ None \notin AuthName
  /\ None \notin EntryRec /\ None \notin TokenRec /\ AuthName # {}
  /\ Requested \subseteq Key /\ Requested # {} /\ MaxHmac \in Nat \ {0} /\ MaxFaults \in Nat
  /\ Models # {} /\ Models \subseteq {"none", "direct-unencrypted", "direct-encrypted"}

VARIABLES
  model,      \* the persistence model
  hmacKey,    \* the HMAC key, by its number
  auth,       \* the one VaultAuth labelled for storage encryption, or None
  encrypt,    \* clientCacheKeyEncrypt
  cache,      \* the encryption clients in the cache that are valid
  encLock,    \* encClientLock: the worker that holds it
  writer, readers,  \* the storage's RWMutex
  entries,    \* the Secrets of stored clients
  op, gor,
  faults

vars == <<model, hmacKey, auth, encrypt, cache, encLock, writer, readers, entries,
          op, gor, faults>>

IdleOp == [pc |-> "idle", kind |-> "prune", key |-> CHOOSE k \in Requested : TRUE, g |-> None,
           client |-> None, entry |-> None, got |-> None]
IdleGor == [pc |-> "none", auth |-> None, closed |-> FALSE, buf |-> "empty"]

Init ==
  /\ model \in Models
  /\ hmacKey = 1
  /\ auth = CHOOSE a \in AuthName : TRUE
  /\ encrypt = None /\ cache = {} /\ encLock = None
  /\ writer = None /\ readers = {}
  /\ entries = [k \in Requested |-> None]
  /\ op = [o \in Op |-> IdleOp]
  /\ gor = [g \in Gor |-> IdleGor]
  /\ faults = 0

At(o, pc) == op[o].pc = pc
Goto(o, pc) == op' = [op EXCEPT ![o].pc = pc]
Fault == faults < MaxFaults /\ faults' = faults + 1

config == <<model, hmacKey, auth>>
enc == <<encrypt, cache, encLock, gor>>
mutex == <<writer, readers>>
-----------------------------------------------------------------------------
(* The encryption client *)

\* The factory stores or restores a client, or prunes it; with encryption, a client is needed first.
Request(o, kind, k) ==
  /\ At(o, "idle") /\ model # "none"
  /\ op' = [op EXCEPT ![o] = [IdleOp EXCEPT !.pc = IF kind # "prune" /\ model = "direct-encrypted"
                                                   THEN "client" ELSE "lock",
                                            !.kind = kind, !.key = k]]
  /\ UNCHANGED <<entries, faults, config, enc, mutex>>

\* storageEncryptionClient: the cached one if it is valid.
storageEncryptionClient(o) ==
  /\ At(o, "client")
  /\ IF encrypt \in cache
       THEN op' = [op EXCEPT ![o].client = encrypt, ![o].pc = "lock"]
       ELSE Goto(o, "setup")
  /\ UNCHANGED <<entries, faults, config, enc, mutex>>

\* setEncryptionClient takes the lock, starts a goroutine and waits.
setEncryptionClient(o) ==
  /\ At(o, "setup") /\ encLock = None
  /\ \E g \in Gor :
       /\ gor[g].pc = "none" /\ \A p \in Op : op[p].g # g
       /\ gor' = [gor EXCEPT ![g] = [IdleGor EXCEPT !.pc = "find"]]
       /\ op' = [op EXCEPT ![o].pc = "wait", ![o].g = g]
  /\ encLock' = o
  /\ UNCHANGED <<encrypt, cache, entries, faults, config, mutex>>

ByGor == <<op, encLock, entries, config, mutex>>

\* The goroutine finds the VaultAuth; the old client is dropped if there is none.
FindVaultAuth(g) ==
  /\ gor[g].pc = "find"
  /\ IF auth = None
       THEN /\ gor' = [gor EXCEPT ![g].pc = "error"]
            /\ cache' = cache \ {encrypt} /\ encrypt' = None
       ELSE gor' = [gor EXCEPT ![g].pc = "login", ![g].auth = auth] /\ UNCHANGED <<encrypt, cache>>
  /\ UNCHANGED <<faults, ByGor>>

Login(g) ==
  /\ gor[g].pc = "login"
  /\ \/ gor' = [gor EXCEPT ![g].pc = "cache"] /\ UNCHANGED faults
     \/ gor' = [gor EXCEPT ![g].pc = "error"] /\ Fault
  /\ UNCHANGED <<encrypt, cache, ByGor>>

\* The new client is cached, and replaces the old one.
CacheClient(g) ==
  /\ gor[g].pc = "cache"
  /\ cache' = (IF encrypt = gor[g].auth THEN cache ELSE cache \ {encrypt}) \cup {gor[g].auth}
  /\ encrypt' = gor[g].auth
  /\ gor' = [gor EXCEPT ![g].pc = "send"]
  /\ UNCHANGED <<faults, ByGor>>

\* The client is sent, and sent again by the deferred function; an error is sent by that one only.
Send(g) ==
  /\ gor[g].pc \in {"send", "resend", "error"} /\ ~gor[g].closed /\ gor[g].buf = "empty"
  /\ gor' = [gor EXCEPT ![g] =
       CASE gor[g].pc = "send"   -> [@ EXCEPT !.pc = "resend", !.buf = "client"]
         [] gor[g].pc = "resend" -> [@ EXCEPT !.pc = "none", !.buf = "client"]
         [] gor[g].pc = "error"  -> [@ EXCEPT !.pc = "none", !.buf = "error"]]
  /\ UNCHANGED <<encrypt, cache, faults, ByGor>>

\* A client is received.
Received(o) ==
  LET g == op[o].g IN
  /\ At(o, "wait") /\ gor[g].buf = "client"
  /\ gor' = [gor EXCEPT ![g].buf = "empty"]
  /\ op' = [op EXCEPT ![o].pc = "close", ![o].client = gor[g].auth]
  /\ UNCHANGED <<encrypt, cache, encLock, entries, faults, config, mutex>>

\* The deferred function unlocks, and closes the channels.
Close(o) ==
  LET g == op[o].g IN
  /\ At(o, "close")
  /\ encLock' = None
  /\ gor' = [gor EXCEPT ![g] = IF @.pc = "none" THEN IdleGor ELSE [@ EXCEPT !.closed = TRUE]]
  /\ op' = [op EXCEPT ![o].pc = "lock", ![o].g = None]
  /\ UNCHANGED <<encrypt, cache, entries, faults, config, mutex>>

\* An error is received, or the time is up: the client is dropped too.  A goroutine goes on.
\* (The mutant does not unlock.)
SetupFailedLocked(o) ==
  /\ At(o, "wait") /\ gor[op[o].g].buf = "error"
  /\ op' = [op EXCEPT ![o] = IdleOp]
  /\ UNCHANGED <<entries, faults, config, enc, mutex>>
SetupFailed(o) ==
  LET g == op[o].g IN
  /\ At(o, "wait")
  /\ \/ gor[g].buf = "error" /\ UNCHANGED faults
     \/ gor[g].pc # "none" /\ Fault
  /\ encLock' = None
  /\ cache' = cache \ {encrypt} /\ encrypt' = None
  /\ gor' = [gor EXCEPT ![g] = IF @.pc = "none" THEN IdleGor ELSE [@ EXCEPT !.closed = TRUE]]
  /\ op' = [op EXCEPT ![o] = IdleOp]
  /\ UNCHANGED <<entries, config, mutex>>
-----------------------------------------------------------------------------
(* Store, Restore and Prune *)

\* (The mutant lets a store go on while there are readers.)
MayLockAnyway(kind) == writer = None
\* Store and Prune lock the RWMutex, Restore locks it for reading.
MayLock(kind) == writer = None /\ (kind # "restore" => readers = {})

Lock(o) ==
  /\ At(o, "lock") /\ MayLock(op[o].kind)
  /\ IF op[o].kind = "restore" THEN readers' = readers \cup {o} /\ UNCHANGED writer
                               ELSE writer' = o /\ UNCHANGED readers
  /\ Goto(o, CASE op[o].kind = "store" -> "encrypt"
               [] op[o].kind = "restore" -> "get"
               [] op[o].kind = "prune" -> "prune")
  /\ UNCHANGED <<entries, faults, config, enc>>

Unlock(o) == writer' = (IF writer = o THEN None ELSE writer) /\ readers' = readers \ {o}

\* Any call of Kubernetes or Vault under the lock may fail, which ends the request.
RequestFailed(o) ==
  /\ op[o].pc \in {"encrypt", "create", "recreate", "get", "discard", "prune"} /\ Fault
  /\ Unlock(o)
  /\ op' = [op EXCEPT ![o] = IdleOp]
  /\ UNCHANGED <<entries, config, enc>>

\* (The mutant's message is the data only.)
MACOfData(k, d) == [hmac |-> hmacKey, key |-> CHOOSE x \in Key : TRUE, data |-> d]
\* The MAC is over the Secret's name, which the cache key determines, the cache key and the data.
MAC(k, d) == [hmac |-> hmacKey, key |-> k, data |-> d]

\* What a store writes is encrypted with the encryption client it has got.
Encrypted(o) ==
  LET entry(d) == [data |-> d, ref |-> op[o].client, mac |-> MAC(op[o].key, d)]
      used == {e.data.tok.n : e \in {entries[k] : k \in Requested} \ {None}}
                \cup {e.data.tok.n : e \in {op[p].entry : p \in Op} \ {None}} IN
  /\ At(o, "encrypt")
  /\ Serial \ used # {}
  /\ op' = [op EXCEPT ![o].pc = "create",
       ![o].entry = entry([tok |-> [key |-> op[o].key, n |-> CHOOSE n \in Serial \ used : TRUE],
                           enc |-> op[o].client])]
  /\ UNCHANGED <<entries, faults, config, enc, mutex>>

\* An immutable Secret is created, or deleted and created again.
Create(o) ==
  LET k == op[o].key IN
  /\ op[o].pc \in {"create", "recreate"}
  /\ IF entries[k] = None
       THEN /\ entries' = [entries EXCEPT ![k] = op[o].entry]
            /\ op' = [op EXCEPT ![o] = IdleOp]
            /\ Unlock(o)
       ELSE /\ entries' = [entries EXCEPT ![k] = None]
            /\ Goto(o, "recreate")
            /\ UNCHANGED mutex
  /\ UNCHANGED <<faults, config, enc>>

\* Restore reads the Secret; if there is none, that is the end.
Get(o) ==
  LET e == entries[op[o].key] IN
  /\ At(o, "get")
  /\ IF e = None THEN op' = [op EXCEPT ![o] = IdleOp] /\ Unlock(o)
     ELSE op' = [op EXCEPT ![o].pc = "check", ![o].entry = e] /\ UNCHANGED mutex
  /\ UNCHANGED <<entries, faults, config, enc>>

\* The MAC is right, and the data can be decrypted as the label says, and unmarshalled.
Restorable(o) ==
  LET e == op[o].entry IN
  /\ e.mac = MAC(op[o].key, e.data)
  /\ e.ref # None => op[o].client = e.ref
  /\ e.data.enc = e.ref

\* restore: an entry that is not, or that Vault fails to decrypt, is deleted.
Check(o) ==
  /\ At(o, "check")
  /\ \/ /\ Restorable(o)
        /\ op' = [op EXCEPT ![o].pc = "done", ![o].got = op[o].entry.data.tok]
        /\ Unlock(o) /\ UNCHANGED faults
     \/ /\ IF Restorable(o) THEN op[o].entry.ref # None /\ Fault ELSE UNCHANGED faults
        /\ Goto(o, "discard") /\ UNCHANGED mutex
  /\ UNCHANGED <<entries, config, enc>>

Delete(o) ==
  /\ op[o].pc \in {"discard", "prune"}
  /\ entries' = [entries EXCEPT ![op[o].key] = None]
  /\ op' = [op EXCEPT ![o] = IdleOp]
  /\ Unlock(o)
  /\ UNCHANGED <<faults, config, enc>>

Return(o) ==
  /\ At(o, "done")
  /\ op' = [op EXCEPT ![o] = IdleOp]
  /\ UNCHANGED <<entries, faults, config, enc, mutex>>
-----------------------------------------------------------------------------
(* What goes on around the storage *)

\* The operator starts, and purges all stored clients without persistence.
Start(m) ==
  /\ model' = m
  /\ encrypt' = None /\ cache' = {} /\ encLock' = None
  /\ writer' = None /\ readers' = {}
  /\ op' = [o \in Op |-> IdleOp] /\ gor' = [g \in Gor |-> IdleGor]
  /\ entries' = IF m = "none" THEN [k \in Requested |-> None] ELSE entries
  /\ UNCHANGED auth

\* The HMAC key is kept in memory; a new one is created if its Secret is missing.
Restart ==
  /\ Fault
  /\ hmacKey' \in {hmacKey, hmacKey + 1} /\ hmacKey' <= MaxHmac
  /\ \E m \in Models : Start(m)

\* A goroutine that sends on a closed channel ends the operator, which is started again.
Panic ==
  /\ \E g \in Gor : gor[g].pc \in {"send", "resend", "error"} /\ gor[g].closed
  /\ Start(model)
  /\ UNCHANGED <<hmacKey, faults>>

AuthChanged ==
  /\ Fault
  /\ auth' \in (AuthName \cup {None}) \ {auth}
  /\ UNCHANGED <<model, hmacKey, entries, op, enc, mutex>>

\* The encryption client is evicted, or its token no longer valid.
ClientLost ==
  /\ cache # {} /\ Fault
  /\ cache' = {}
  /\ UNCHANGED <<encrypt, encLock, gor, entries, op, config, mutex>>

\* The user copies the Secret of another client, stored just
\* like this one, to its name, or removes its label.
Tampered ==
  /\ Fault
  /\ \E k \in Requested :
       /\ entries[k] # None
       /\ \/ \E l \in Key \ {k} :
               LET d == [entries[k].data EXCEPT !.tok.key = l] IN
               entries' = [entries EXCEPT ![k].data = d, ![k].mac = [MAC(l, d) EXCEPT !.hmac = entries[k].mac.hmac]]
          \/ entries[k].ref # None /\ entries' = [entries EXCEPT ![k].ref = None]
  /\ UNCHANGED <<op, config, enc, mutex>>

OpStep(o) ==
  \/ storageEncryptionClient(o)
  \/ setEncryptionClient(o)
  \/ Received(o)
  \/ Close(o)
  \/ SetupFailed(o)
  \/ Lock(o)
  \/ RequestFailed(o)
  \/ Encrypted(o)
  \/ Create(o)
  \/ Get(o)
  \/ Check(o)
  \/ Delete(o)
  \/ Return(o)

GorStep(g) == FindVaultAuth(g) \/ Login(g) \/ CacheClient(g) \/ Send(g)

Next ==
  \/ \E o \in Op : OpStep(o) \/ \E k \in Requested, kind \in {"store", "restore", "prune"} :
                                  Request(o, kind, k)
  \/ \E g \in Gor : GorStep(g)
  \/ Panic
  \/ Restart
  \/ AuthChanged
  \/ ClientLost
  \/ Tampered

Spec == Init /\ [][Next]_vars

\* Goroutines are scheduled, and Go's mutexes are handed to whoever waits long enough.
LiveSpec ==
  /\ Spec /\ WF_vars(Panic)
  /\ \A g \in Gor : WF_vars(GorStep(g))
  /\ \A o \in Op : WF_vars(OpStep(o)) /\ SF_vars(setEncryptionClient(o)) /\ SF_vars(Lock(o))
-----------------------------------------------------------------------------
TypeOK ==
  /\ model \in Models
  /\ hmacKey \in 1..MaxHmac
  /\ auth \in AuthName \cup {None}
  /\ encrypt \in AuthName \cup {None} /\ cache \subseteq AuthName /\ encLock \in Op \cup {None}
  /\ writer \in Op \cup {None} /\ readers \subseteq Op
  /\ entries \in [Requested -> EntryRec \cup {None}]
  /\ op \in [Op -> OpRec] /\ gor \in [Gor -> GorRec]
  /\ faults \in 0..MaxFaults

\* A token that is restored was stored for the same cache key, by an operator with the same HMAC key,
\* whatever users do to the Secrets (vault/cache_storage.go:513-550).
RestoredAsStored ==
  \A o \in Op : At(o, "done") => /\ op[o].got.key = op[o].key
                                 /\ op[o].entry.mac.hmac = hmacKey

\* A Restore deletes by name an entry that it could not restore.  It never deletes one that was stored
\* since it read it, because a Store waits for it (vault/cache_storage.go:201, 316, 349-362).
DiscardsWhatItRead ==
  [][\A o \in Op : At(o, "discard") /\ op'[o].pc = "idle" /\ Delete(o)
       => entries[op[o].key] = None \/ entries[op[o].key].data.tok.n = op[o].entry.data.tok.n]_vars

\* Every request returns: no worker waits forever for the encryption client, its lock, its channels
\* or the storage's lock (vault/client_factory.go:620-750, vault/cache_storage.go:172-338).
RequestReturns ==
  \A o \in Op : []<>At(o, "idle")
=============================================================================
