--------------------------- MODULE ClientFactory ---------------------------
(***************************************************************************)
(* The caching client factory (vault/client_factory.go) with the parts it  *)
(* drives: Vault clients and their lifetime-watcher goroutines             *)
(* (vault/client.go), the in-memory client cache and its clone cache       *)
(* (vault/cache.go), the persistent client storage (vault/cache_storage.go *)
(* as the factory uses it), the client callback handler goroutine, and the *)
(* VaultAuth controller's pruning of the cache                             *)
(* (controllers/vaultauth_controller.go).                                  *)
(*                                                                         *)
(* Processes: the Getters (reconcilers that call Get and then use the      *)
(* client), one lifetime watcher per logged-in client, the callback        *)
(* handler, the VaultAuth controller, Vault (tokens end), the user (specs  *)
(* change) and process restarts.                                           *)
(***************************************************************************)
EXTENDS Integers, FiniteSets

CONSTANTS
  Getter,        \* concurrent callers of Get
  Auth,          \* VaultAuth objects (by UID)
  NS,            \* Vault namespaces of the callers; RootNS is the client's own
  RootNS,
  Client,        \* client objects that may ever be created
  Token,         \* Vault tokens that may ever be issued
  None,
  CacheSize,     \* size of each of the two LRU caches
  MaxSpec,       \* bound on the number of merged-spec versions of a VaultAuth
  Persist,       \* storageEnabled(): clients are persisted
  Renewables,    \* whether tokens may be renewable, a subset of BOOLEAN
  Events,        \* what may happen besides the normal course of things, a subset of AllEvents
  ShutDowns,     \* the ways ShutDown may be called, a subset of {"keep", "revoke"}
  MaxRestarts    \* bound on operator restarts

AllEvents == {"watcherDone", "revoke", "lapse", "delete", "reconcileError", "writeError",
              "abandon"}

ASSUME ConstAssumption ==
  /\ Auth # {} /\ RootNS \in NS
  /\ None \notin Client \cup Token
  /\ CacheSize \in Nat \ {0}
  /\ MaxSpec \in Nat \ {0}
  /\ Persist \in BOOLEAN
  /\ Events \subseteq AllEvents
  /\ Renewables \subseteq BOOLEAN
  /\ ShutDowns \subseteq {"keep", "revoke"}
  /\ MaxRestarts \in Nat

Spec0 == 0                         \* no spec hash recorded yet
Unmerged == -1                     \* the hash of a spec whose merge with VaultAuthGlobal failed
SpecV == 1..MaxSpec                \* versions of the spec merged with VaultAuthGlobal
Key == Auth \X SpecV               \* cache keys: VaultAuth UID and generation
CloneKey == Key \X (NS \ {RootNS}) \* "<key>-<namespace>"

ClientRec == [st: {"free", "open", "closed"}, key: Key, tok: Token \cup {None}, ns: NS,
              taint: BOOLEAN, watch: {"none", "run", "orphan", "sending"}]
TokenRec == [st: {"free", "live", "lapsed", "revoked"}, spec: SpecV, renewable: BOOLEAN]

\* Where a caller is in Get.  From "validate" to "ns" it holds the factory's
\* read lock and the lock of its key.
InLock == {"validate", "untaint", "send", "restore", "read", "login", "uncache", "add", "store", "ns"}
OpRec == [pc: {"idle", "lock", "have"} \cup InLock, key: Key, ns: NS,
          c: Client \cup {None}, nkey: Key, nspec: SpecV, fresh: BOOLEAN]
PruneRec == [pc: {"idle", "wait", "send", "unstore", "status", "finalize"}, a: Auth, gen: SpecV,
             hash: SpecV \cup {Unmerged}, all: BOOLEAN, skip: BOOLEAN, err: BOOLEAN,
             todo: SUBSET Key]
HandlerRec == [pc: {"idle", "remove", "prune", "call"}, key: Key]

VARIABLES
  auth,     \* the VaultAuth objects: generation, merged-spec version, status.SpecHash, existence
  authq,    \* the VaultAuth controller's work queue
  pruned,   \* history: the newest merged spec for which every client was pruned
  token,    \* Vault's tokens
  client,   \* client objects, roots and clones
  cache,    \* clientCache.cache
  clones,   \* clientCache.cloneCache
  store,    \* client storage: the token persisted under a key
  op,       \* the Get calls
  pr,       \* the VaultAuth controller's reconcile
  hd,       \* the callback handler goroutine
  down,     \* shutDown: "no", or how the factory was shut down
  restarts

vars == <<auth, authq, pruned, token, client, cache, clones, store, op, pr, hd,
          down, restarts>>
authVars == <<auth, authq, pruned>>

AuthRec == [gen: SpecV, spec: SpecV, hash: SpecV \cup {Spec0, Unmerged}, fin: BOOLEAN,
            st: {"present", "deleting", "gone"}]

TypeOK ==
  /\ auth \in [Auth -> AuthRec]
  /\ authq \subseteq Auth
  /\ pruned \in [Auth -> SpecV \cup {Spec0}]
  /\ token \in [Token -> TokenRec]
  /\ client \in [Client -> ClientRec]
  /\ cache \in [Key -> Client \cup {None}]
  /\ clones \in [CloneKey -> Client \cup {None}]
  /\ store \in [Key -> Token \cup {None}]
  /\ op \in [Getter -> OpRec]
  /\ pr \in PruneRec
  /\ hd \in HandlerRec
  /\ down \in {"no", "keep", "revoke"}
  /\ restarts \in 0..MaxRestarts
-----------------------------------------------------------------------------
\* The null representations.

AnyKey == CHOOSE k \in Key : TRUE
FreeClient == [st |-> "free", key |-> AnyKey, tok |-> None, ns |-> RootNS,
               taint |-> FALSE, watch |-> "none"]
FreeToken == [st |-> "free", spec |-> 1, renewable |-> FALSE]
IdleOp == [pc |-> "idle", key |-> AnyKey, ns |-> RootNS, c |-> None, nkey |-> AnyKey,
           nspec |-> 1, fresh |-> FALSE]
IdlePrune == [pc |-> "idle", a |-> CHOOSE a \in Auth : TRUE, gen |-> 1, hash |-> 1,
              all |-> FALSE, skip |-> FALSE, err |-> FALSE, todo |-> {}]
IdleHandler == [pc |-> "idle", key |-> AnyKey]
NewAuth == [gen |-> 1, spec |-> 1, hash |-> Spec0, fin |-> FALSE, st |-> "present"]

Init ==
  /\ auth = [a \in Auth |-> NewAuth]
  /\ authq = Auth
  /\ pruned = [a \in Auth |-> Spec0]
  /\ token = [t \in Token |-> FreeToken]
  /\ client = [c \in Client |-> FreeClient]
  /\ cache = [k \in Key |-> None]
  /\ clones = [k \in CloneKey |-> None]
  /\ store = [k \in Key |-> None]
  /\ op = [g \in Getter |-> IdleOp]
  /\ pr = IdlePrune
  /\ hd = IdleHandler
  /\ down = "no"
  /\ restarts = 0
-----------------------------------------------------------------------------
\* The client cache.

Cached == {k \in Key : cache[k] # None}
revokeOnEvict == down = "revoke"

\* Mutant: the eviction callback does not close the client.
EvictNotClosed(K, revoke) ==
  /\ clones' = [ck \in CloneKey |-> IF ck[1] \in K THEN None ELSE clones[ck]]
  /\ UNCHANGED <<client, token, store>>

\* The LRU's eviction callback for the roots K that leave the cache: onClientEvict
\* closes each client and, after a revoking ShutDown, revokes its token and prunes
\* its storage entry; the clones of the client go with it.
Evict(K, revoke) ==
  LET out == {cache[k] : k \in K}
  IN  /\ clones' = [ck \in CloneKey |-> IF ck[1] \in K THEN None ELSE clones[ck]]
      /\ client' = [c \in Client |-> IF c \in out THEN [client[c] EXCEPT !.st = "closed"]
                                                  ELSE client[c]]
      /\ token' = [t \in Token |->
                     IF revoke /\ token[t].st = "live" /\ \E c \in out : client[c].tok = t
                     THEN [token[t] EXCEPT !.st = "revoked"] ELSE token[t]]
      /\ store' = [k \in Key |-> IF revoke /\ Persist /\ k \in K THEN None ELSE store[k]]

\* clientCache.remove of every root in K; a key that is not cached is left alone.
CacheWithout(K) == [k \in Key |-> IF k \in K THEN None ELSE cache[k]]

Remove(K, revoke) ==
  /\ cache' = CacheWithout(K)
  /\ Evict(K \cap Cached, revoke)

\* lru.Add of client c under key k.  A full cache evicts an entry (any one here: the
\* order of use is abstracted).  A present key only has its value replaced, and no
\* eviction callback runs.
Victims(k) ==
  IF k \notin Cached /\ Cardinality(Cached) >= CacheSize THEN {{v} : v \in Cached} ELSE {{}}

AddRoot(k, c) ==
  \E K \in Victims(k) :
    /\ cache' = [CacheWithout(K) EXCEPT ![k] = c]
    /\ Evict(K, revokeOnEvict)

\* lru.Add to the clone cache, which has no eviction callback.
AddClone(ck, c) ==
  LET others == {x \in CloneKey : x # ck /\ clones[x] # None}
  IN  \E v \in IF clones[ck] = None /\ Cardinality(others) >= CacheSize THEN others ELSE {ck} :
        clones' = [clones EXCEPT ![v] = None, ![ck] = c]
-----------------------------------------------------------------------------
\* Vault clients.

\* Mutant: Validate ignores the taint.
ValidUntainted(c) ==
  /\ token[client[c].tok].renewable => client[c].watch = "run"
  /\ token[client[c].tok].st # "lapsed"

\* Client.Validate: the watcher of a renewable token is still there (it is unset together
\* with the recording of lastWatcherErr), the token's TTL has not passed, and the token of a
\* tainted client looks itself up.
Valid(c) ==
  LET t == token[client[c].tok] IN
  /\ t.renewable => client[c].watch = "run"
  /\ t.st # "lapsed"
  /\ client[c].taint => t.st = "live"

\* A client object after Login or Restore obtained token t: its lifetime watcher
\* runs when the token is renewable.
LoggedIn(k, t, renewable) ==
  [st |-> "open", key |-> k, tok |-> t, ns |-> RootNS, taint |-> FALSE,
   watch |-> IF renewable THEN "run" ELSE "none"]

\* The lifetime watcher of c ends, because a renewal failed, the token cannot be extended
\* any further, or Close stopped it.  A client that is closing is not reported.
WatcherDone(c) ==
  /\ client[c].watch \in {"run", "orphan"}
  /\ client[c].st = "closed" \/ "watcherDone" \in Events
  /\ client' = [client EXCEPT ![c].watch = IF client[c].st = "closed" THEN "none" ELSE "sending"]
  /\ UNCHANGED <<authVars, token, cache, clones, store, op, pr, hd, down, restarts>>

\* Vault revokes a token, or the TTL of a token that no watcher renews passes.
TokenRevoked(t) ==
  /\ "revoke" \in Events
  /\ token[t].st = "live"
  /\ token' = [token EXCEPT ![t].st = "revoked"]
  /\ UNCHANGED <<authVars, client, cache, clones, store, op, pr, hd, down, restarts>>

TokenLapsed(t) ==
  /\ "lapse" \in Events
  /\ token[t].st \in {"live", "revoked"}
  /\ \A c \in Client : client[c].tok = t => client[c].watch \notin {"run", "orphan"}
  /\ token' = [token EXCEPT ![t].st = "lapsed"]
  /\ UNCHANGED <<authVars, client, cache, clones, store, op, pr, hd, down, restarts>>
-----------------------------------------------------------------------------
\* Get.

UnchangedCache == UNCHANGED <<cache, clones, token, store>>
Elsewhere == <<authVars, pr, hd, down, restarts>>

\* Get entered with an object of VaultAuth a in Vault namespace n: the factory is not
\* disabled, and the cache key is computed before any lock is taken.
GetBegin(g, a, n) ==
  /\ op[g].pc = "idle" /\ down = "no"
  /\ auth[a].st # "gone"
  /\ op' = [op EXCEPT ![g] = [IdleOp EXCEPT !.pc = "lock", !.key = <<a, auth[a].gen>>, !.ns = n]]
  /\ UNCHANGED client /\ UnchangedCache /\ UNCHANGED Elsewhere

\* The read lock (a waiting or active writer blocks it) and the lock of the key,
\* then the lookup in the cache.
GetLock(g) ==
  LET k == op[g].key IN
  /\ op[g].pc = "lock"
  /\ pr.pc \notin {"wait", "send", "unstore"}
  /\ \A h \in Getter \ {g} : op[h].pc \in InLock => op[h].key # k
  /\ op' = [op EXCEPT ![g].c = cache[k],
                      ![g].pc = IF cache[k] # None THEN "validate"
                                ELSE IF Persist THEN "restore" ELSE "read"]
  /\ UNCHANGED client /\ UnchangedCache /\ UNCHANGED Elsewhere

\* A cached client passes Validate ...
GetValid(g) ==
  /\ op[g].pc = "validate" /\ Valid(op[g].c)
  /\ op' = [op EXCEPT ![g].pc = "untaint"]
  /\ UNCHANGED client /\ UnchangedCache /\ UNCHANGED Elsewhere

\* ... and is untainted.
GetUntaint(g) ==
  /\ op[g].pc = "untaint"
  /\ client' = [client EXCEPT ![op[g].c].taint = FALSE]
  /\ op' = [op EXCEPT ![g].pc = "ns"]
  /\ UnchangedCache /\ UNCHANGED Elsewhere

\* Mutant: the lookup is retried, and the invalid client not removed.
GetInvalidRetried(g) ==
  /\ op[g].pc = "validate"
  /\ ~Valid(op[g].c) \/ client[op[g].c].taint
  /\ op' = [op EXCEPT ![g].pc = "lock"]
  /\ UNCHANGED client /\ UnchangedCache /\ UNCHANGED Elsewhere

\* A cached client fails Validate (the lookup of a tainted client may fail for any
\* reason): whatever is cached under the key is removed and the caller blocks until
\* the callback handler takes its CacheRemoval request.
GetInvalid(g) ==
  /\ op[g].pc = "validate"
  /\ ~Valid(op[g].c) \/ client[op[g].c].taint
  /\ Remove({op[g].key}, revokeOnEvict)
  /\ op' = [op EXCEPT ![g].pc = "send"]
  /\ UNCHANGED Elsewhere

\* Restoring from storage: the VaultAuth must still have the key's generation, the
\* token is renewed and looked up.  A token that is not renewable never restores,
\* because Restore leaves lastRenewal at zero.
GetRestored(g, d) ==
  LET k == op[g].key
      t == store[k]
  IN
  /\ op[g].pc = "restore" /\ t # None
  /\ auth[k[1]].st # "gone" /\ auth[k[1]].gen = k[2]
  /\ token[t].st = "live" /\ token[t].renewable
  /\ client[d].st = "free"
  /\ client' = [client EXCEPT ![d] = LoggedIn(k, t, TRUE)]
  /\ op' = [op EXCEPT ![g].pc = "uncache", ![g].c = d]
  /\ UnchangedCache /\ UNCHANGED Elsewhere

\* Nothing restored: no entry, or a failure for any reason, after which the entry is
\* pruned unless that fails too.  Get then logs in.
GetNotRestored(g) ==
  /\ op[g].pc = "restore"
  /\ \/ UNCHANGED store
     \/ store' = [store EXCEPT ![op[g].key] = None]
  /\ op' = [op EXCEPT ![g].pc = "read"]
  /\ UNCHANGED <<client, cache, clones, token>> /\ UNCHANGED Elsewhere

\* The restoration fails after Restore started the lifetime watcher (the final Validate
\* fails): the client object is dropped and not closed, its watcher goroutine runs on, an
\* orphan.
GetRestoreAbandoned(g, d) ==
  LET k == op[g].key
      t == store[k]
  IN
  /\ "abandon" \in Events
  /\ op[g].pc = "restore" /\ t # None
  /\ auth[k[1]].st # "gone" /\ auth[k[1]].gen = k[2]
  /\ token[t].st = "live" /\ token[t].renewable
  /\ client[d].st = "free"
  /\ client' = [client EXCEPT ![d] = [LoggedIn(k, t, TRUE) EXCEPT !.watch = "orphan"]]
  /\ store' = [store EXCEPT ![k] = None] \/ UNCHANGED store
  /\ op' = [op EXCEPT ![g].pc = "read"]
  /\ UNCHANGED <<cache, clones, token>> /\ UNCHANGED Elsewhere

\* NewClientWithLogin reads the VaultAuth again ...
GetRead(g) ==
  LET a == op[g].key[1] IN
  /\ op[g].pc = "read"
  /\ auth[a].st # "gone"
  /\ op' = [op EXCEPT ![g].pc = "login", ![g].c = None,
                      ![g].nkey = <<a, auth[a].gen>>, ![g].nspec = auth[a].spec]
  /\ UNCHANGED client /\ UnchangedCache /\ UNCHANGED Elsewhere

\* ... and logs in with what it read.
GetLogin(g, d, t, renewable) ==
  /\ op[g].pc = "login"
  /\ client[d].st = "free" /\ token[t].st = "free"
  /\ token' = [token EXCEPT ![t] = [st |-> "live", spec |-> op[g].nspec, renewable |-> renewable]]
  /\ client' = [client EXCEPT ![d] = LoggedIn(op[g].nkey, t, renewable)]
  /\ op' = [op EXCEPT ![g] = [IdleOp EXCEPT !.pc = "uncache", !.key = op[g].key, !.ns = op[g].ns,
                                            !.c = d, !.fresh = TRUE]]
  /\ UNCHANGED <<cache, clones, store>> /\ UNCHANGED Elsewhere

\* Get returns an error: the VaultAuth is gone, the login or the cloning failed.
GetFailed(g) ==
  /\ \/ op[g].pc \in {"read", "login"}
     \/ op[g].pc = "ns" /\ op[g].ns # RootNS
  /\ op' = [op EXCEPT ![g] = IdleOp]
  /\ UNCHANGED client /\ UnchangedCache /\ UNCHANGED Elsewhere

\* cacheClient, first half: a client already cached under the key is removed.
GetUncache(g) ==
  /\ op[g].pc = "uncache"
  /\ Remove({client[op[g].c].key}, revokeOnEvict)
  /\ op' = [op EXCEPT ![g].pc = "add"]
  /\ UNCHANGED Elsewhere

\* Mutant: the client is added under the key that was computed before the login.
GetAddLockKey(g) ==
  /\ op[g].pc = "add"
  /\ AddRoot(op[g].key, op[g].c)
  /\ op' = [op EXCEPT ![g].pc = IF Persist /\ op[g].fresh THEN "store" ELSE "ns"]
  /\ UNCHANGED Elsewhere

\* cacheClient, second half: the client is added.
GetAdd(g) ==
  /\ op[g].pc = "add"
  /\ AddRoot(client[op[g].c].key, op[g].c)
  /\ op' = [op EXCEPT ![g].pc = IF Persist /\ op[g].fresh THEN "store" ELSE "ns"]
  /\ UNCHANGED Elsewhere

\* storeClient: the entry of the key is replaced; a failure is only logged and leaves
\* the old entry, or none when it had already been deleted.
GetStore(g) ==
  LET k == client[op[g].c].key IN
  /\ op[g].pc = "store"
  /\ \/ store' = [store EXCEPT ![k] = client[op[g].c].tok]
     \/ store' = [store EXCEPT ![k] = None]
     \/ UNCHANGED store
  /\ op' = [op EXCEPT ![g].pc = "ns"]
  /\ UNCHANGED <<client, cache, clones, token>> /\ UNCHANGED Elsewhere

Return(g, c) == op' = [op EXCEPT ![g] = [IdleOp EXCEPT !.pc = "have", !.c = c]]

\* namespacedClient, and the return of Get, which releases the locks: the root client
\* itself, the clone cached for the namespace (not validated) ...
GetRoot(g) ==
  /\ op[g].pc = "ns" /\ op[g].ns = RootNS
  /\ Return(g, op[g].c)
  /\ UNCHANGED client /\ UnchangedCache /\ UNCHANGED Elsewhere

CloneKeyOf(g) == <<client[op[g].c].key, op[g].ns>>

GetCloneHit(g) ==
  /\ op[g].pc = "ns" /\ op[g].ns # RootNS
  /\ clones[CloneKeyOf(g)] # None
  /\ Return(g, clones[CloneKeyOf(g)])
  /\ UNCHANGED client /\ UnchangedCache /\ UNCHANGED Elsewhere

\* ... or a new clone, with the root's token and no watcher of its own.
GetClone(g, d) ==
  LET c == op[g].c IN
  /\ op[g].pc = "ns" /\ op[g].ns # RootNS
  /\ clones[CloneKeyOf(g)] = None
  /\ client[d].st = "free"
  /\ client' = [client EXCEPT ![d] = [st |-> "open", key |-> client[c].key, tok |-> client[c].tok,
                                      ns |-> op[g].ns, taint |-> FALSE, watch |-> "none"]]
  /\ AddClone(CloneKeyOf(g), d)
  /\ Return(g, d)
  /\ UNCHANGED <<cache, token, store>> /\ UNCHANGED Elsewhere

\* The caller uses its client outside the locks; a forbidden answer taints it.
UseClient(g) ==
  /\ op[g].pc = "have"
  /\ client' = [client EXCEPT ![op[g].c].taint = @ \/ token[client[op[g].c].tok].st # "live"]
  /\ op' = [op EXCEPT ![g] = IdleOp]
  /\ UnchangedCache /\ UNCHANGED Elsewhere
-----------------------------------------------------------------------------
\* The callback handler: an unbuffered channel, so a send completes when the handler
\* receives it.  A CacheRemoval request comes from Get or from Prune ...
RecvFromGet(g) ==
  /\ hd.pc = "idle" /\ op[g].pc = "send"
  /\ hd' = [pc |-> "call", key |-> client[op[g].c].key]
  /\ op' = [op EXCEPT ![g].pc = "read"]
  /\ UNCHANGED client /\ UnchangedCache
  /\ UNCHANGED <<authVars, pr, down, restarts>>

RecvFromPrune(k) ==
  /\ hd.pc = "idle" /\ pr.pc = "send" /\ k \in pr.todo
  /\ hd' = [pc |-> "call", key |-> k]
  /\ pr' = [pr EXCEPT !.todo = @ \ {k}]
  /\ UNCHANGED client /\ UnchangedCache
  /\ UNCHANGED <<authVars, op, down, restarts>>

\* Mutant: the handler receives the request of a watcher and skips it.
RecvFromWatcherSkipped(c) ==
  /\ hd.pc = "idle" /\ client[c].watch = "sending"
  /\ client' = [client EXCEPT ![c].watch = "none"]
  /\ UnchangedCache /\ UNCHANGED <<authVars, op, pr, hd, down, restarts>>

\* ... and a LifetimeWatcherDone request from a watcher, after which the handler removes
\* whatever client is cached under that key, and then the key's storage entry (a failure
\* of which is only logged).
RecvFromWatcher(c) ==
  /\ hd.pc = "idle" /\ client[c].watch = "sending"
  /\ hd' = [pc |-> "remove", key |-> client[c].key]
  /\ client' = [client EXCEPT ![c].watch = "none"]
  /\ UnchangedCache /\ UNCHANGED <<authVars, op, pr, down, restarts>>

HandlerRemove ==
  /\ hd.pc = "remove"
  /\ Remove({hd.key}, revokeOnEvict)
  /\ hd' = [hd EXCEPT !.pc = IF Persist THEN "prune" ELSE "call"]
  /\ UNCHANGED <<authVars, op, pr, down, restarts>>

HandlerPruneStorage ==
  /\ hd.pc = "prune"
  /\ store' = [store EXCEPT ![hd.key] = None] \/ UNCHANGED store
  /\ hd' = [hd EXCEPT !.pc = "call"]
  /\ UNCHANGED <<client, cache, clones, token, authVars, op, pr, down, restarts>>

\* The registered callbacks are started, each in a goroutine of its own.
HandlerCall ==
  /\ hd.pc = "call"
  /\ hd' = IdleHandler
  /\ UNCHANGED client /\ UnchangedCache /\ UNCHANGED <<authVars, op, pr, down, restarts>>
-----------------------------------------------------------------------------
\* The VaultAuth controller.

RestOfPrune == <<client, token, cache, clones, store, op, hd, down, restarts>>

\* The user changes the VaultAuth (a new generation) or the VaultAuthGlobal it refers to.
SpecChanged(a, newGen) ==
  /\ auth[a].st = "present" /\ auth[a].spec < MaxSpec
  /\ auth' = [auth EXCEPT ![a].spec = @ + 1, ![a].gen = IF newGen THEN @ + 1 ELSE @]
  /\ authq' = authq \cup {a}
  /\ UNCHANGED <<pruned, pr, RestOfPrune>>

\* A VaultAuth without the finalizer disappears at once; with it, it gets a deletion
\* timestamp, which is a new generation.
AuthDeleted(a) ==
  /\ "delete" \in Events /\ auth[a].st = "present"
  /\ auth[a].gen < MaxSpec
  /\ auth' = [auth EXCEPT ![a].st = IF auth[a].fin THEN "deleting" ELSE "gone",
                          ![a].gen = @ + 1]
  /\ authq' = authq \cup {a}
  /\ UNCHANGED <<pruned, pr, RestOfPrune>>

\* Mutant: the hash is not compared with the recorded one.
AuthReconcileOld(a) ==
  /\ pr.pc = "idle" /\ a \in authq /\ auth[a].st = "present" /\ down = "no"
  /\ pr' = [IdlePrune EXCEPT !.pc = "wait", !.a = a, !.gen = auth[a].gen, !.hash = auth[a].spec]
  /\ authq' = authq \ {a}
  /\ UNCHANGED <<auth, pruned, RestOfPrune>>

\* Reconcile reads the object and hashes its merged spec.  A hash different from the one
\* in the status has all of the object's clients pruned, otherwise those of older
\* generations are.
AuthReconcile(a) ==
  /\ pr.pc = "idle" /\ a \in authq /\ auth[a].st = "present" /\ down = "no"
  /\ pr' = [IdlePrune EXCEPT !.pc = "wait", !.a = a, !.gen = auth[a].gen, !.hash = auth[a].spec,
                             !.all = auth[a].hash \notin {Spec0, auth[a].spec}]
  /\ authq' = authq \ {a}
  /\ UNCHANGED <<auth, pruned, RestOfPrune>>

\* With an error (an unresolvable VaultConnection, a failed merge, a disabled factory)
\* nothing is pruned, and the hash is recorded all the same.
AuthReconcileError(a, merged) ==
  /\ "reconcileError" \in Events \/ (down # "no" /\ merged)
  /\ pr.pc = "idle" /\ a \in authq /\ auth[a].st = "present"
  /\ pr' = [IdlePrune EXCEPT !.pc = "status", !.a = a, !.gen = auth[a].gen, !.err = TRUE,
                             !.hash = IF merged THEN auth[a].spec ELSE Unmerged]
  /\ authq' = authq \ {a}
  /\ UNCHANGED <<auth, pruned, RestOfPrune>>

\* Mutant: the finalizer is removed without pruning.
AuthFinalizeUnpruned(a) ==
  /\ pr.pc = "idle" /\ a \in authq /\ auth[a].st = "deleting" /\ down = "no"
  /\ pr' = [IdlePrune EXCEPT !.pc = "finalize", !.a = a]
  /\ authq' = authq \ {a}
  /\ UNCHANGED <<auth, pruned, RestOfPrune>>

\* A deleted object's finalizer prunes all of its clients, skipping the client callbacks.
AuthFinalize(a) ==
  /\ pr.pc = "idle" /\ a \in authq /\ auth[a].st = "deleting" /\ down = "no"
  /\ pr' = [IdlePrune EXCEPT !.pc = "wait", !.a = a, !.gen = auth[a].gen, !.hash = auth[a].spec,
                             !.all = TRUE, !.skip = TRUE]
  /\ authq' = authq \ {a}
  /\ UNCHANGED <<auth, pruned, RestOfPrune>>

\* An object that is gone is dropped from the queue.
AuthNotFound(a) ==
  /\ pr.pc = "idle" /\ a \in authq /\ auth[a].st = "gone"
  /\ authq' = authq \ {a}
  /\ UNCHANGED <<auth, pruned, pr, RestOfPrune>>

\* Mutant: only older generations are pruned.
PruneFilterOld == {k \in Cached : k[1] = pr.a /\ k[2] < pr.gen}

\* filterAllCacheRefs or filterOldCacheRefs, over the cached clients.
PruneFilter == {k \in Cached : k[1] = pr.a /\ (pr.all \/ k[2] < pr.gen)}

\* prune, under the factory's write lock: the matching clients leave the cache ...
PruneCache ==
  /\ pr.pc = "wait"
  /\ \A g \in Getter : op[g].pc \notin InLock
  /\ Remove(PruneFilter, revokeOnEvict)
  /\ pr' = [pr EXCEPT !.pc = IF pr.skip THEN "unstore" ELSE "send", !.todo = PruneFilter]
  /\ pruned' = IF pr.all THEN [pruned EXCEPT ![pr.a] = pr.hash] ELSE pruned
  /\ UNCHANGED <<auth, authq, op, hd, down, restarts>>

\* Mutant: the prune is repeated.
PruneSentAgain ==
  /\ pr.pc = "send" /\ pr.todo = {}
  /\ pr' = [pr EXCEPT !.pc = "wait"]
  /\ UNCHANGED <<authVars, RestOfPrune>>

\* ... and a CacheRemoval request is sent for each of them ...
PruneSent ==
  /\ pr.pc = "send" /\ pr.todo = {}
  /\ pr' = [pr EXCEPT !.pc = "status"]
  /\ UNCHANGED <<authVars, RestOfPrune>>

\* ... or, callbacks skipped, their storage entries are pruned; a failure is returned
\* after all were tried, and has the object reconciled again.
PruneUnstore(failed) ==
  /\ pr.pc = "unstore"
  /\ failed \subseteq pr.todo /\ (failed # {} => Persist)
  /\ store' = [k \in Key |-> IF k \in pr.todo \ failed THEN None ELSE store[k]]
  /\ pr' = IF failed = {} THEN [pr EXCEPT !.pc = "finalize", !.todo = {}] ELSE IdlePrune
  /\ authq' = IF failed = {} THEN authq ELSE authq \cup {pr.a}
  /\ UNCHANGED <<auth, pruned, client, token, cache, clones, op, hd, down, restarts>>

\* updateStatus: an object changed since it was read is a conflict, and any failure has
\* it reconciled again.  The hash is recorded, and then the finalizer is added, which may
\* fail by itself.  Collected errors have the object reconciled again later.
AuthStatus(finalizerAdded) ==
  LET a == pr.a IN
  /\ pr.pc = "status"
  /\ auth[a].st = "present" /\ auth[a].gen = pr.gen
  /\ finalizerAdded \/ "writeError" \in Events
  /\ auth' = [auth EXCEPT ![a].hash = pr.hash, ![a].fin = @ \/ finalizerAdded]
  /\ authq' = IF pr.err \/ ~auth'[a].fin THEN authq \cup {a} ELSE authq
  /\ pr' = IdlePrune
  /\ UNCHANGED <<pruned, RestOfPrune>>

\* The finalizer is removed, and the object disappears.
AuthFinalized ==
  /\ pr.pc = "finalize"
  /\ auth' = [auth EXCEPT ![pr.a].st = "gone"]
  /\ pr' = IdlePrune
  /\ UNCHANGED <<authq, pruned, RestOfPrune>>

\* The last write of a reconcile, to the status or the finalizers, fails.
AuthWriteFailed ==
  /\ \/ "writeError" \in Events
     \/ pr.pc = "status" /\ (auth[pr.a].st # "present" \/ auth[pr.a].gen # pr.gen)
  /\ pr.pc \in {"status", "finalize"}
  /\ authq' = authq \cup {pr.a}
  /\ pr' = IdlePrune
  /\ UNCHANGED <<auth, pruned, RestOfPrune>>
-----------------------------------------------------------------------------
\* ShutDown, under the write lock: the factory is disabled, then the cache purged.
ShutDown(mode) ==
  /\ down = "no" /\ mode \in ShutDowns
  /\ \A g \in Getter : op[g].pc \notin InLock
  /\ pr.pc \notin {"send", "unstore"}
  /\ down' = mode
  /\ Remove(Key, mode = "revoke")
  /\ UNCHANGED <<authVars, op, pr, hd, restarts>>

\* The operator's process ends at any point and is started again.  Vault's tokens, the
\* storage and the Kubernetes objects remain; every VaultAuth is reconciled again.
Restart ==
  /\ restarts < MaxRestarts
  /\ restarts' = restarts + 1
  /\ client' = [c \in Client |-> IF client[c].st = "free" THEN client[c]
                                 ELSE [client[c] EXCEPT !.st = "closed", !.watch = "none"]]
  /\ cache' = [k \in Key |-> None]
  /\ clones' = [k \in CloneKey |-> None]
  /\ op' = [g \in Getter |-> IdleOp]
  /\ pr' = IdlePrune /\ hd' = IdleHandler /\ down' = "no"
  /\ authq' = Auth
  /\ UNCHANGED <<auth, pruned, token, store>>
-----------------------------------------------------------------------------
\* What a caller does by itself once it holds the locks.
GetStep(g) ==
  \/ GetValid(g) \/ GetUntaint(g) \/ GetInvalid(g)
  \/ GetNotRestored(g)
  \/ \E d \in Client : GetRestored(g, d) \/ GetRestoreAbandoned(g, d) \/ GetClone(g, d)
  \/ GetRead(g) \/ GetFailed(g)
  \/ \E d \in Client, t \in Token, r \in Renewables : GetLogin(g, d, t, r)
  \/ GetUncache(g) \/ GetAdd(g) \/ GetStore(g)
  \/ GetRoot(g) \/ GetCloneHit(g)

HandlerStep == HandlerRemove \/ HandlerPruneStorage \/ HandlerCall

ControllerStep ==
  \/ \E a \in Auth : \/ AuthReconcile(a) \/ AuthFinalize(a) \/ AuthNotFound(a)
                     \/ \E merged \in BOOLEAN : AuthReconcileError(a, merged)
  \/ PruneCache \/ PruneSent
  \/ \E failed \in SUBSET pr.todo : PruneUnstore(failed)
  \/ \E added \in BOOLEAN : AuthStatus(added)
  \/ AuthFinalized \/ AuthWriteFailed

Environment ==
  \/ \E a \in Auth : AuthDeleted(a) \/ \E newGen \in BOOLEAN : SpecChanged(a, newGen)
  \/ \E t \in Token : TokenRevoked(t) \/ TokenLapsed(t)
  \/ \E c \in Client : WatcherDone(c)
  \/ \E mode \in ShutDowns : ShutDown(mode)
  \/ Restart

Next ==
  \/ \E g \in Getter : \/ \E a \in Auth, n \in NS : GetBegin(g, a, n)
                       \/ GetLock(g) \/ GetStep(g) \/ UseClient(g) \/ RecvFromGet(g)
  \/ \E k \in Key : RecvFromPrune(k)
  \/ \E c \in Client : RecvFromWatcher(c)
  \/ HandlerStep
  \/ ControllerStep
  \/ Environment

Spec == Init /\ [][Next]_vars

\* Goroutines that can run do run.  Go's locks hand over to a waiter that was passed over
\* (a released writer lets the waiting readers in first, a key's mutex goes into starvation
\* mode), and the senders on a channel are served in their order: strong fairness.
Fairness ==
  /\ \A g \in Getter : /\ WF_vars(GetStep(g)) /\ SF_vars(GetLock(g)) /\ SF_vars(RecvFromGet(g))
  /\ \A c \in Client : SF_vars(RecvFromWatcher(c))
  /\ \A k \in Key : SF_vars(RecvFromPrune(k))
  /\ WF_vars(HandlerStep) /\ WF_vars(ControllerStep)

LiveSpec == Spec /\ Fairness
-----------------------------------------------------------------------------
\* The cache serves open clients only: a client cached under a key was logged in or restored
\* for that key, is a root, and has not been closed by an eviction (onClientEvict, Close).
CachedOpen ==
  \A k \in Cached : LET c == client[cache[k]] IN
    c.st = "open" /\ c.key = k /\ c.ns = RootNS /\ c.tok \in Token

\* Without persistence, once the VaultAuth controller has pruned every client of a VaultAuth
\* for a new merged spec (prune under the write lock), no client that logged in with an older
\* spec is cached, and none is on its way into the cache in a concurrent Get.
PrunedSpecNotServed ==
  /\ \A k \in Cached : token[client[cache[k]].tok].spec >= pruned[k[1]]
  /\ \A g \in Getter : op[g].pc = "login" => op[g].nspec >= pruned[op[g].key[1]]
  /\ \A g \in Getter : op[g].pc \in InLock \ {"restore", "read", "login"} =>
       token[client[op[g].c].tok].spec >= pruned[op[g].key[1]]

\* No lifetime-watcher goroutine is leaked: the running watcher of a client that was not
\* closed belongs to a cached client or to one that a Get is about to cache.  (For a VaultAuth
\* that is not changed: Gets that locked different keys do overwrite each other's clients.)
WatcherOwned ==
  \A c \in Client : client[c].watch = "run" /\ client[c].st = "open" =>
    \/ cache[client[c].key] = c
    \/ \E g \in Getter : op[g].c = c /\ op[g].pc \in {"uncache", "add"}

\* A token has one lifetime watcher: a client is restored from storage only after the client
\* that stored its token was closed.  (The watcher that an abandoned restoration leaves behind
\* is in the state "orphan".)
SingleWatcher ==
  \A c, d \in Client :
    /\ client[c].watch = "run" /\ client[c].st = "open"
    /\ client[d].watch = "run" /\ client[d].st = "open"
    /\ client[c].tok = client[d].tok
    => c = d

\* A deleted VaultAuth loses its finalizer only after all of its clients were pruned.
FinalizedAfterPrune ==
  [][\A a \in Auth : auth[a].st = "deleting" /\ auth'[a].st = "gone"
       => pruned[a] = auth[a].spec]_vars

\* A reconcile without errors replaces a recorded SpecHash only after a prune of all the
\* VaultAuth's clients for the new hash, whatever failed, restarted or changed in between.
HashRecordsPrune ==
  [][\A a \in Auth : auth[a].hash # Spec0 /\ auth'[a].hash # auth[a].hash /\ ~pr.err
       => pruned[a] = auth'[a].hash]_vars

\* Get returns: no caller waits forever for the locks, or for the callback handler to take
\* its request while it holds them.
GetReturns == \A g \in Getter : op[g].pc = "lock" ~> op[g].pc \in {"idle", "have"}

\* Prune, which sends to the callback handler with the write lock held, completes.
PruneCompletes == pr.pc = "wait" ~> pr.pc \notin {"wait", "send", "unstore"}

\* The end of a lifetime watcher reaches the registered client callbacks.
WatcherDoneReported ==
  \A c \in Client : client[c].watch = "sending" ~> hd = [pc |-> "call", key |-> client[c].key]

\* A cached client that answered forbidden and whose token is gone for good leaves the cache
\* at the next Get (its taint has Validate look the token up).  The next is one that gets the
\* key's lock from now on: the holder may untaint the client after a Validate that came
\* before the taint.
DeadClientDropped ==
  \A k \in Key, c \in Client :
    /\ \E g \in Getter : op[g].pc = "lock" /\ op[g].key = k
    /\ \A g \in Getter : op[g].key = k => op[g].pc \notin InLock
    /\ cache[k] = c /\ client[c].taint /\ token[client[c].tok].st # "live"
    ~> cache[k] # c
-----------------------------------------------------------------------------
\* What comments in the code say, and the code does not do.

\* prune: "the callback handler will remove the client from the storage".  Once the requests
\* of a prune were all handled, no token of an older spec is left in the client storage.
PrunedNotStored ==
  pr.pc = "status" /\ ~pr.err /\ hd.pc = "idle" =>
    \A k \in Key : k[1] = pr.a /\ store[k] # None => token[store[k]].spec >= pruned[pr.a]

\* VaultAuthReconciler.Reconcile: the spec hash "can be used to determine if the VaultAuth
\* resource has changed since the last reconciliation".  When one recorded hash replaces
\* another, the clients that logged in with the older spec have left the cache.
ChangeDetected ==
  [][\A a \in Auth : auth[a].hash \in SpecV /\ auth'[a].hash # auth[a].hash =>
       \A k \in Cached : k[1] = a => token[client[cache[k]].tok].spec >= auth'[a].hash]_vars

\* Get: "we cache and return the namespaced Clone of the "root" Client".  The clone that is
\* returned for a root client has the root's token.
CloneOfRoot ==
  \A g \in Getter : op[g].pc = "ns" /\ op[g].ns # RootNS /\ clones[CloneKeyOf(g)] # None =>
    client[clones[CloneKeyOf(g)]].tok = client[op[g].c].tok

\* Tainted: "A tainted client should be inspected before use".  Get returns no tainted client.
NoTaintedClient ==
  [][\A g \in Getter : op[g].pc \in InLock /\ op'[g].pc = "have" => ~client'[op'[g].c].taint]_vars

\* ShutDown: "This will shut down client cache, "blocking" future ClientFactory interface
\* calls".  Nothing is cached after it.
NothingAfterShutDown == down # "no" => Cached = {}

\* Reconcile: "Upon deletion of the resource, it will prune all referent Vault Client(s)".
\* A VaultAuth whose finalizer was removed has no cached client.
GoneHasNoClient == \A k \in Cached : ~(auth[k[1]].st = "gone" /\ auth[k[1]].fin)
=============================================================================
