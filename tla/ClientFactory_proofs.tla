------------------------ MODULE ClientFactory_proofs ------------------------
(***************************************************************************)
(* Proofs about ClientFactory, for every number of callers, VaultAuths,    *)
(* clients, tokens and spec versions and every cache size:                 *)
(*  - types, and the cache serves open clients only (CacheInv);            *)
(*  - without persistence, a prune of all of a VaultAuth's clients is      *)
(*    final (SpecInv);                                                     *)
(*  - a SpecHash is recorded, and a finalizer removed, after the prune     *)
(*    (PruneInv);                                                          *)
(*  - every running lifetime watcher belongs to a client that is cached    *)
(*    or about to be (OwnInv), and no token has two (TokenInv).            *)
(***************************************************************************)
EXTENDS ClientFactory, TLAPS

\* Where a caller holds a client, and where that client is new and not cached yet.
Holding == {"validate", "untaint", "send", "uncache", "add", "store", "ns", "have"}
Caching == {"uncache", "add"}

\* Every generation of a VaultAuth that is not deleted came with a new spec.
GenBound == \A a \in Auth : auth[a].st = "present" => auth[a].gen <= auth[a].spec

\* A prune that waits for the lock is for a spec that the VaultAuth has or had.
HashBound == pr.pc = "wait" => pr.hash \in SpecV /\ pr.hash <= auth[pr.a].spec

\* A client in use was logged in.
Held ==
  /\ \A c \in Client : client[c].st # "free" => client[c].tok \in Token
  /\ \A g \in Getter : op[g].pc \in Holding => op[g].c \in Client /\ client[op[g].c].st # "free"
  /\ \A k \in CloneKey : clones[k] # None => client[clones[k]].st # "free"

\* A client that is about to be cached is an open root in the hands of one caller only.
NewInHand ==
  \A g \in Getter : op[g].pc \in Caching =>
    /\ client[op[g].c].st = "open" /\ client[op[g].c].ns = RootNS
    /\ \A k \in Key : cache[k] # op[g].c
    /\ \A h \in Getter : op[h].pc \in Caching /\ op[h].c = op[g].c => h = g

\* The inductive invariant behind CachedOpen.
CacheInv == TypeOK /\ GenBound /\ HashBound /\ CachedOpen /\ Held /\ NewInHand
-----------------------------------------------------------------------------
\* The null records are well typed.
LEMMA NullTypes ==
  /\ AnyKey \in Key /\ FreeClient \in ClientRec /\ FreeToken \in TokenRec
  /\ IdleOp \in OpRec /\ IdlePrune \in PruneRec /\ IdleHandler \in HandlerRec
  /\ NewAuth \in AuthRec
<1>1. 1 \in SpecV
  BY ConstAssumption DEF SpecV
<1>2. AnyKey \in Key
  <2>1. \E a \in Auth : <<a, 1>> \in Key
    BY Zenon, <1>1, ConstAssumption DEF Key
  <2> QED
    BY Zenon, <2>1 DEF AnyKey
<1>3. (CHOOSE a \in Auth : TRUE) \in Auth
  BY Zenon, ConstAssumption
<1>4. FreeClient \in ClientRec /\ FreeToken \in TokenRec /\ IdleHandler \in HandlerRec
      /\ NewAuth \in AuthRec
  BY Zenon, <1>1, <1>2, ConstAssumption
     DEF FreeClient, ClientRec, FreeToken, TokenRec, IdleHandler, HandlerRec, NewAuth, AuthRec
<1>5. IdleOp \in OpRec
  BY Zenon, <1>1, <1>2, ConstAssumption DEF IdleOp, OpRec
<1>6. IdlePrune \in PruneRec
  BY Zenon, <1>1, <1>3, ConstAssumption DEF IdlePrune, PruneRec
<1> QED
  BY Zenon, <1>2, <1>4, <1>5, <1>6

\* What a removal of the roots K does: it keeps every type, closes exactly the cached clients
\* of K, and leaves the other cached clients, the clones and the tokens they hold in place.
LEMMA EvictEffect ==
  ASSUME TypeOK, CachedOpen, NEW K \in SUBSET Key, K \subseteq Cached, NEW r \in BOOLEAN,
         Evict(K, r)
  PROVE  /\ client' \in [Client -> ClientRec] /\ token' \in [Token -> TokenRec]
         /\ clones' \in [CloneKey -> Client \cup {None}] /\ store' \in [Key -> Token \cup {None}]
         /\ \A c \in Client : /\ client'[c].key = client[c].key /\ client'[c].tok = client[c].tok
                              /\ client'[c].ns = client[c].ns
                              /\ client'[c].st = "free" <=> client[c].st = "free"
         /\ \A c \in Client : (\A k \in K : cache[k] # c) => client'[c] = client[c]
         /\ \A t \in Token : token'[t].spec = token[t].spec
                             /\ (token'[t].st = "free" <=> token[t].st = "free")
         /\ \A ck \in CloneKey : clones'[ck] # None => clones'[ck] = clones[ck]
<1> USE ConstAssumption
<1>1. client' = [c \in Client |-> IF c \in {cache[k] : k \in K}
                                  THEN [client[c] EXCEPT !.st = "closed"] ELSE client[c]]
  BY Zenon DEF Evict
<1>2. \A c \in Client : client[c] \in ClientRec
  BY Zenon DEF TypeOK
<1>3. \A c \in Client : [client[c] EXCEPT !.st = "closed"] \in ClientRec
  BY <1>2 DEF ClientRec
<1>4. client' \in [Client -> ClientRec]
  BY Zenon, <1>1, <1>2, <1>3
<1>5. \A c \in Client : (\A k \in K : cache[k] # c) => client'[c] = client[c]
  BY Zenon, <1>1
<1>6. \A c \in Client : c \in {cache[k] : k \in K} => client[c].st = "open"
  BY DEF CachedOpen, Cached
<1>7. \A c \in Client : /\ client'[c].key = client[c].key /\ client'[c].tok = client[c].tok
                        /\ client'[c].ns = client[c].ns
                        /\ client'[c].st = "free" <=> client[c].st = "free"
  BY <1>1, <1>2, <1>6 DEF ClientRec
<1>8. token' = [t \in Token |->
                  IF r /\ token[t].st = "live" /\ \E c \in {cache[k] : k \in K} : client[c].tok = t
                  THEN [token[t] EXCEPT !.st = "revoked"] ELSE token[t]]
  BY Zenon DEF Evict
<1>9. \A t \in Token : token[t] \in TokenRec /\ [token[t] EXCEPT !.st = "revoked"] \in TokenRec
  BY DEF TypeOK, TokenRec
<1>10. /\ token' \in [Token -> TokenRec]
       /\ \A t \in Token : token'[t].spec = token[t].spec
                           /\ (token'[t].st = "free" <=> token[t].st = "free")
  BY <1>8, <1>9 DEF TokenRec
<1>11. /\ clones' \in [CloneKey -> Client \cup {None}]
       /\ \A ck \in CloneKey : clones'[ck] # None => clones'[ck] = clones[ck]
  BY Zenon DEF Evict, TypeOK
<1>12. store' \in [Key -> Token \cup {None}]
  BY Zenon DEF Evict, TypeOK
<1> QED
  BY Zenon, <1>4, <1>5, <1>7, <1>10, <1>11, <1>12

\* Removing roots from the cache keeps the invariant, whatever the callers hold.
LEMMA RemoveEffect ==
  ASSUME TypeOK, CachedOpen, NEW K \in SUBSET Key, NEW r \in BOOLEAN, Remove(K, r)
  PROVE  /\ client' \in [Client -> ClientRec] /\ token' \in [Token -> TokenRec]
         /\ clones' \in [CloneKey -> Client \cup {None}] /\ store' \in [Key -> Token \cup {None}]
         /\ cache' \in [Key -> Client \cup {None}]
         /\ CachedOpen'
         /\ \A c \in Client : /\ client'[c].key = client[c].key /\ client'[c].tok = client[c].tok
                              /\ client'[c].ns = client[c].ns
                              /\ client'[c].st = "free" <=> client[c].st = "free"
         /\ \A c \in Client : (\A k \in Key : cache[k] # c) => client'[c] = client[c]
         /\ \A k \in Key : cache'[k] # None => cache'[k] = cache[k] /\ k \notin K
         /\ \A t \in Token : token'[t].spec = token[t].spec
                             /\ (token'[t].st = "free" <=> token[t].st = "free")
         /\ \A ck \in CloneKey : clones'[ck] # None => clones'[ck] = clones[ck]
<1> USE ConstAssumption
<1>0. PICK X \in SUBSET Key : X = K \cap Cached
  BY Zenon
<1>1. X \subseteq Cached /\ Evict(X, r)
  BY Zenon, <1>0 DEF Remove
<1>2. cache' = [k \in Key |-> IF k \in K THEN None ELSE cache[k]]
  BY Zenon DEF Remove, CacheWithout
<1>3. /\ cache' \in [Key -> Client \cup {None}]
      /\ \A k \in Key : cache'[k] # None => cache'[k] = cache[k] /\ k \notin K
  BY Zenon, <1>2 DEF TypeOK
<1>4. ASSUME NEW k \in Key, cache'[k] # None
      PROVE  client'[cache'[k]] = client[cache[k]]
  <2>1. cache'[k] = cache[k] /\ cache[k] \in Client /\ k \notin K
    BY Zenon, <1>3, <1>4 DEF TypeOK
  <2>2. \A j \in X : cache[j] # cache[k]
    BY <1>0, <2>1, <1>4 DEF CachedOpen, Cached
  <2> QED
    BY SMTT(30), <1>1, <2>1, <2>2, EvictEffect
<1>5. CachedOpen'
  <2>1. \A k \in Cached' : k \in Cached /\ client'[cache'[k]] = client[cache[k]]
    BY Zenon, <1>3, <1>4 DEF Cached
  <2> QED
    BY <2>1 DEF CachedOpen
<1>6. \A c \in Client : (\A k \in Key : cache[k] # c) => \A k \in X : cache[k] # c
  BY Zenon
<1>7. /\ client' \in [Client -> ClientRec] /\ token' \in [Token -> TokenRec]
      /\ clones' \in [CloneKey -> Client \cup {None}] /\ store' \in [Key -> Token \cup {None}]
      /\ \A ck \in CloneKey : clones'[ck] # None => clones'[ck] = clones[ck]
  BY Zenon, <1>1, EvictEffect
<1>8. \A c \in Client : /\ client'[c].key = client[c].key /\ client'[c].tok = client[c].tok
                        /\ client'[c].ns = client[c].ns
                        /\ client'[c].st = "free" <=> client[c].st = "free"
  BY Zenon, <1>1, EvictEffect
<1>9. \A c \in Client : (\A k \in Key : cache[k] # c) => client'[c] = client[c]
  BY ZenonT(40), <1>1, <1>6, EvictEffect
<1>10. \A t \in Token : token'[t].spec = token[t].spec
                        /\ (token'[t].st = "free" <=> token[t].st = "free")
  BY Zenon, <1>1, EvictEffect
<1> QED
  BY Zenon, <1>3, <1>5, <1>7, <1>8, <1>9, <1>10

\* A step that moves no client and no caller only has types to keep.
LEMMA Untouched ==
  ASSUME CacheInv, TypeOK', GenBound', HashBound', UNCHANGED <<client, cache, clones, op>>
  PROVE  CacheInv'
BY Zenon DEF CacheInv, CachedOpen, Cached, Held, NewInHand
-----------------------------------------------------------------------------
\* The user's changes to a VaultAuth keep the invariant.
LEMMA UserKeeps ==
  ASSUME CacheInv, NEW a \in Auth,
         AuthDeleted(a) \/ \E newGen \in BOOLEAN : SpecChanged(a, newGen)
  PROVE  CacheInv'
<1> USE ConstAssumption
<1>0. \A n \in SpecV : n \in Nat /\ (n < MaxSpec => n + 1 \in SpecV)
  BY DEF SpecV
<1>1. ASSUME NEW rec \in AuthRec, auth' = [auth EXCEPT ![a] = rec], authq' = authq \cup {a},
             rec.st = "present" => rec.gen <= rec.spec, rec.spec >= auth[a].spec,
             UNCHANGED <<pruned, pr, RestOfPrune>>
      PROVE  CacheInv'
  <2>1. TypeOK'
    BY Zenon, <1>1 DEF CacheInv, TypeOK, RestOfPrune
  <2>2. GenBound'
    BY Zenon, <1>1 DEF CacheInv, TypeOK, GenBound
  <2>3. HashBound'
    <3>1. pr.a \in Auth /\ auth[pr.a].spec \in SpecV /\ rec.spec \in SpecV /\ auth[a].spec \in SpecV
      BY Zenon, <1>1 DEF CacheInv, TypeOK, AuthRec, PruneRec
    <3>2. auth'[pr.a] = IF pr.a = a THEN rec ELSE auth[pr.a]
      BY Zenon, <1>1, <3>1 DEF CacheInv, TypeOK
    <3>3. auth'[pr.a].spec \in SpecV /\ auth'[pr.a].spec >= auth[pr.a].spec
      BY <1>0, <1>1, <3>1, <3>2
    <3> QED
      BY <1>0, <1>1, <3>1, <3>2, <3>3 DEF CacheInv, HashBound
  <2> QED
    BY Zenon, <1>1, <2>1, <2>2, <2>3, Untouched DEF RestOfPrune
<1>2. auth[a] \in AuthRec /\ (auth[a].st = "present" => auth[a].gen <= auth[a].spec)
  BY Zenon DEF CacheInv, TypeOK, GenBound
<1>3. CASE AuthDeleted(a)
  <2> DEFINE rec == [auth[a] EXCEPT !.st = IF auth[a].fin THEN "deleting" ELSE "gone",
                                    !.gen = @ + 1]
  <2>1. rec \in AuthRec /\ rec.st # "present" /\ rec.spec >= auth[a].spec
    <3>1. auth[a].gen + 1 \in SpecV /\ auth[a].spec >= auth[a].spec
      BY <1>2, <1>3, <1>0 DEF AuthDeleted, AuthRec
    <3> QED
      BY Zenon, <1>2, <3>1 DEF AuthRec
  <2>2. auth' = [auth EXCEPT ![a] = rec] /\ authq' = authq \cup {a}
        /\ UNCHANGED <<pruned, pr, RestOfPrune>>
    BY Zenon, <1>3 DEF AuthDeleted, CacheInv, TypeOK
  <2> QED
    BY Zenon, <1>1, <2>1, <2>2
<1>4. ASSUME NEW newGen \in BOOLEAN, SpecChanged(a, newGen)
      PROVE  CacheInv'
  <2> DEFINE rec == [auth[a] EXCEPT !.spec = @ + 1, !.gen = IF newGen THEN @ + 1 ELSE @]
  <2>1. rec \in AuthRec /\ rec.gen <= rec.spec /\ rec.spec >= auth[a].spec
    <3>1. auth[a].gen \in SpecV /\ auth[a].spec \in SpecV /\ auth[a].gen <= auth[a].spec
          /\ auth[a].spec < MaxSpec
      BY Zenon, <1>2, <1>4 DEF SpecChanged, AuthRec
    <3>2. auth[a].gen < MaxSpec
      BY <1>0, <3>1
    <3>3. rec \in AuthRec
      BY Zenon, <1>2, <1>0, <3>1, <3>2 DEF AuthRec
    <3>4. rec.spec = auth[a].spec + 1 /\ rec.gen \in {auth[a].gen, auth[a].gen + 1}
      BY Zenon, <1>2 DEF AuthRec
    <3> QED
      BY <1>0, <3>1, <3>3, <3>4
  <2>2. auth' = [auth EXCEPT ![a] = rec] /\ authq' = authq \cup {a}
        /\ UNCHANGED <<pruned, pr, RestOfPrune>>
    BY Zenon, <1>4 DEF SpecChanged, CacheInv, TypeOK
  <2> QED
    BY Zenon, <1>1, <2>1, <2>2
<1> QED
  BY Zenon, <1>3, <1>4

\* The steps of the VaultAuth controller keep the invariant.
LEMMA ControllerKeeps ==
  ASSUME CacheInv, ControllerStep
  PROVE  CacheInv'
<1>inv. TypeOK /\ GenBound /\ HashBound /\ CachedOpen /\ Held /\ NewInHand
  BY Zenon DEF CacheInv
<1>1. ASSUME NEW a \in Auth, \/ AuthReconcile(a) \/ AuthFinalize(a) \/ AuthNotFound(a)
                             \/ \E merged \in BOOLEAN : AuthReconcileError(a, merged)
      PROVE  CacheInv'
  <2>1. auth[a] \in AuthRec
    BY Zenon, <1>inv DEF TypeOK
  <2>2. pr' \in PruneRec /\ HashBound'
    <3>1. CASE AuthNotFound(a)
      BY Zenon, <1>inv, <3>1 DEF AuthNotFound, TypeOK, HashBound, RestOfPrune
    <3>2. CASE AuthReconcile(a)
      <4>1. pr' = [pc |-> "wait", a |-> a, gen |-> auth[a].gen, hash |-> auth[a].spec,
                   all |-> auth[a].hash \notin {Spec0, auth[a].spec}, skip |-> FALSE,
                   err |-> FALSE, todo |-> {}]
        BY Zenon, <3>2 DEF AuthReconcile, IdlePrune
      <4> QED
        <5>1. pr' \in PruneRec
          BY Zenon, <4>1, <2>1 DEF PruneRec, AuthRec
        <5>2. pr'.a = a /\ pr'.hash = auth[a].spec /\ auth' = auth
          BY Zenon, <3>2, <4>1 DEF AuthReconcile
        <5>3. auth[a].spec \in SpecV /\ auth[a].spec <= auth[a].spec
          BY <2>1 DEF AuthRec, SpecV
        <5> QED
          BY Zenon, <1>inv, <5>1, <5>2, <5>3 DEF HashBound
    <3>3. CASE AuthFinalize(a)
      <4>1. pr' = [pc |-> "wait", a |-> a, gen |-> auth[a].gen, hash |-> auth[a].spec,
                   all |-> TRUE, skip |-> TRUE, err |-> FALSE, todo |-> {}]
        BY Zenon, <3>3 DEF AuthFinalize, IdlePrune
      <4> QED
        <5>1. pr' \in PruneRec
          BY Zenon, <4>1, <2>1 DEF PruneRec, AuthRec
        <5>2. pr'.a = a /\ pr'.hash = auth[a].spec /\ auth' = auth
          BY Zenon, <3>3, <4>1 DEF AuthFinalize
        <5>3. auth[a].spec \in SpecV /\ auth[a].spec <= auth[a].spec
          BY <2>1 DEF AuthRec, SpecV
        <5> QED
          BY Zenon, <1>inv, <5>1, <5>2, <5>3 DEF HashBound
    <3>4. ASSUME NEW merged \in BOOLEAN, AuthReconcileError(a, merged)
          PROVE  pr' \in PruneRec /\ HashBound'
      <4>1. pr' = [pc |-> "status", a |-> a, gen |-> auth[a].gen,
                   hash |-> IF merged THEN auth[a].spec ELSE Unmerged,
                   all |-> FALSE, skip |-> FALSE, err |-> TRUE, todo |-> {}]
        BY Zenon, <3>4 DEF AuthReconcileError, IdlePrune
      <4> QED
        BY Zenon, <1>inv, <4>1, <2>1 DEF PruneRec, AuthRec, HashBound
    <3> QED
      BY Zenon, <1>1, <3>1, <3>2, <3>3, <3>4
  <2>3. UNCHANGED <<auth, pruned, RestOfPrune>> /\ authq' \subseteq Auth
    BY Zenon, <1>inv, <1>1 DEF TypeOK, AuthReconcile, AuthFinalize, AuthNotFound, AuthReconcileError
  <2>4. TypeOK' /\ GenBound'
    BY Zenon, <1>inv, <2>2, <2>3 DEF TypeOK, GenBound, RestOfPrune
  <2> QED
    BY Zenon, <2>2, <2>3, <2>4, Untouched DEF RestOfPrune
<1>2. CASE PruneSent \/ AuthWriteFailed
  <2>1. pr' \in PruneRec /\ authq' \subseteq Auth
    BY ConstAssumption, NullTypes, <1>inv, <1>2
       DEF TypeOK, PruneSent, AuthWriteFailed, PruneRec, authVars
  <2>4. HashBound'
    BY <1>inv, <1>2 DEF TypeOK, PruneSent, AuthWriteFailed, HashBound, IdlePrune, PruneRec
  <2>2. UNCHANGED <<auth, pruned, RestOfPrune>>
    BY Zenon, <1>2 DEF PruneSent, AuthWriteFailed, authVars
  <2>3. TypeOK' /\ GenBound'
    BY Zenon, <1>inv, <2>1, <2>2 DEF TypeOK, GenBound, RestOfPrune
  <2> QED
    BY Zenon, <2>2, <2>3, <2>4, Untouched DEF RestOfPrune
<1>3. ASSUME NEW failed \in SUBSET pr.todo, PruneUnstore(failed)
      PROVE  CacheInv'
  <2>1. pr' \in PruneRec /\ authq' \subseteq Auth /\ store' \in [Key -> Token \cup {None}]
    BY ZenonT(40), ConstAssumption, NullTypes, <1>inv, <1>3 DEF TypeOK, PruneUnstore, PruneRec
  <2>2. TypeOK' /\ GenBound'
    BY Zenon, <1>inv, <1>3, <2>1 DEF TypeOK, GenBound, PruneUnstore
  <2>3. HashBound'
    BY Zenon, <1>inv, <1>3 DEF TypeOK, PruneUnstore, HashBound, IdlePrune, PruneRec
  <2> QED
    BY Zenon, <1>3, <2>2, <2>3, Untouched DEF PruneUnstore
<1>4. ASSUME NEW added \in BOOLEAN, AuthStatus(added)
      PROVE  CacheInv'
  <2>1. auth' \in [Auth -> AuthRec] /\ GenBound'
    BY SMTT(30), <1>inv, <1>4 DEF TypeOK, GenBound, AuthStatus, AuthRec, PruneRec
  <2>2. pr' \in PruneRec /\ authq' \subseteq Auth
    BY ConstAssumption, NullTypes, <1>inv, <1>4 DEF TypeOK, AuthStatus, PruneRec
  <2>3. TypeOK'
    BY Zenon, <1>inv, <1>4, <2>1, <2>2 DEF TypeOK, AuthStatus, RestOfPrune
  <2>4. HashBound'
    BY Zenon, <1>inv, <1>4 DEF AuthStatus, HashBound, IdlePrune
  <2> QED
    BY Zenon, <1>4, <2>1, <2>3, <2>4, Untouched DEF AuthStatus, RestOfPrune
<1>5. CASE AuthFinalized
  <2> DEFINE rec == [auth[pr.a] EXCEPT !.st = "gone"]
  <2>1. pr.a \in Auth /\ auth' = [auth EXCEPT ![pr.a] = rec] /\ pr' = IdlePrune
    BY Zenon, <1>inv, <1>5 DEF TypeOK, AuthFinalized, PruneRec
  <2>2. rec \in AuthRec /\ rec.st # "present"
    BY ZenonT(40), ConstAssumption, NullTypes, <1>inv, <2>1 DEF TypeOK, AuthRec
  <2>3. TypeOK'
    BY ConstAssumption, NullTypes, <1>inv, <1>5, <2>1, <2>2 DEF TypeOK, AuthFinalized, RestOfPrune
  <2>4. GenBound'
    BY Zenon, <1>inv, <2>1, <2>2 DEF TypeOK, GenBound
  <2>5. HashBound'
    BY Zenon, <1>inv, <2>1 DEF HashBound, IdlePrune
  <2> QED
    BY Zenon, <1>5, <2>3, <2>4, <2>5, Untouched DEF AuthFinalized, RestOfPrune
<1>6. CASE PruneCache
  <2>1. PICK K \in SUBSET Key, r \in BOOLEAN : K = PruneFilter /\ Remove(K, r)
    BY Zenon, <1>6 DEF PruneCache, PruneFilter, Cached, revokeOnEvict
  <2>2. pr' = [pr EXCEPT !.pc = IF pr.skip THEN "unstore" ELSE "send", !.todo = K]
    BY Zenon, <1>6, <2>1 DEF PruneCache
  <2>3. pr' \in PruneRec /\ HashBound'
    BY Zenon, <1>inv, <2>2 DEF TypeOK, PruneRec, HashBound
  <2>4. pruned' \in [Auth -> SpecV \cup {Spec0}]
    <3>1. pr.hash \in SpecV /\ pr.a \in Auth
      BY Zenon, <1>inv, <1>6 DEF PruneCache, HashBound, TypeOK, PruneRec
    <3> QED
      BY Zenon, <1>inv, <1>6, <3>1 DEF TypeOK, PruneCache
  <2>5. /\ client' \in [Client -> ClientRec] /\ token' \in [Token -> TokenRec]
        /\ clones' \in [CloneKey -> Client \cup {None}] /\ store' \in [Key -> Token \cup {None}]
        /\ cache' \in [Key -> Client \cup {None}] /\ CachedOpen'
    BY Zenon, <1>inv, <2>1, RemoveEffect
  <2>6. TypeOK' /\ GenBound'
    BY Zenon, <1>inv, <1>6, <2>3, <2>4, <2>5 DEF TypeOK, GenBound, PruneCache
  <2>8. Held'
    <3>1. /\ \A c \in Client : /\ client'[c].tok = client[c].tok
                               /\ client'[c].st = "free" <=> client[c].st = "free"
          /\ \A ck \in CloneKey : clones'[ck] # None => clones'[ck] = clones[ck]
      BY Zenon, <1>inv, <2>1, RemoveEffect
    <3>2. UNCHANGED op
      BY Zenon, <1>6 DEF PruneCache
    <3> QED
      BY SMTT(30), <1>inv, <3>1, <3>2 DEF Held, TypeOK
  <2>7. NewInHand'
    BY Zenon, <1>inv, <1>6 DEF PruneCache, NewInHand, Caching, InLock
  <2> QED
    BY Zenon, <2>3, <2>5, <2>6, <2>7, <2>8 DEF CacheInv
<1> QED
  BY Zenon, <1>1, <1>2, <1>3, <1>4, <1>5, <1>6 DEF ControllerStep

\* The steps of a caller that move no client keep the invariant: the caller's new record is
\* well typed, and it holds the client it held, or one that is cached, or none.
LEMMA CallerMoves ==
  ASSUME CacheInv, NEW g \in Getter, NEW rec \in OpRec, op' = [op EXCEPT ![g] = rec],
         UNCHANGED <<auth, pr, client, cache, clones>>, TypeOK',
         rec.pc \notin Caching,
         rec.pc \in Holding => rec.c \in Client /\ client[rec.c].st # "free"
  PROVE  CacheInv'
<1>1. op'[g] = rec /\ \A h \in Getter \ {g} : op'[h] = op[h]
  BY Zenon DEF CacheInv, TypeOK
<1>2. CachedOpen' /\ GenBound' /\ HashBound'
  BY Zenon DEF CacheInv, CachedOpen, Cached, GenBound, HashBound
<1>3. Held'
  BY Zenon, <1>1 DEF CacheInv, Held
<1>4. NewInHand'
  BY SMTT(30), <1>1 DEF CacheInv, NewInHand
<1> QED
  BY Zenon, <1>2, <1>3, <1>4 DEF CacheInv

\* The steps of a caller that only change its own record keep the invariant.
LEMMA CallerKeeps ==
  ASSUME CacheInv, NEW g \in Getter,
         \/ \E a \in Auth, n \in NS : GetBegin(g, a, n)
         \/ GetLock(g) \/ GetValid(g) \/ GetNotRestored(g) \/ GetRead(g) \/ GetFailed(g)
         \/ GetStore(g) \/ GetRoot(g) \/ GetCloneHit(g) \/ RecvFromGet(g)
  PROVE  CacheInv'
<1> USE DEF Elsewhere, UnchangedCache, authVars
<1>inv. TypeOK /\ CachedOpen /\ Held
  BY Zenon DEF CacheInv
<1>0. op[g] \in OpRec /\ op[g].key \in Key
  BY Zenon, <1>inv DEF TypeOK, OpRec
<1>1. ASSUME NEW a \in Auth, NEW n \in NS, GetBegin(g, a, n)
      PROVE  CacheInv'
  <2> DEFINE rec == [IdleOp EXCEPT !.pc = "lock", !.key = <<a, auth[a].gen>>, !.ns = n]
  <2>1. <<a, auth[a].gen>> \in Key
    BY Zenon, <1>inv DEF TypeOK, AuthRec, Key
  <2>2. rec \in OpRec /\ rec.pc = "lock"
    BY ZenonT(40), ConstAssumption, NullTypes, <2>1 DEF OpRec
  <2>3. op' = [op EXCEPT ![g] = rec] /\ TypeOK'
    BY Zenon, <1>inv, <1>1, <2>2 DEF GetBegin, TypeOK
  <2> QED
    BY Zenon, <1>1, <2>2, <2>3, CallerMoves DEF GetBegin, Caching, Holding
<1>2. CASE GetLock(g)
  <2> DEFINE k == op[g].key
             rec == [op[g] EXCEPT !.c = cache[k], !.pc = IF cache[k] # None THEN "validate"
                                                         ELSE IF Persist THEN "restore" ELSE "read"]
  <2>1. cache[k] \in Client \cup {None} /\ (cache[k] # None => client[cache[k]].st # "free")
    BY Zenon, <1>inv, <1>0 DEF TypeOK, CachedOpen, Cached
  <2>2. rec \in OpRec /\ rec.c = cache[k]
        /\ rec.pc = IF cache[k] # None THEN "validate" ELSE IF Persist THEN "restore" ELSE "read"
    BY Zenon, <1>0, <2>1 DEF OpRec, InLock
  <2>3. op' = [op EXCEPT ![g] = rec] /\ TypeOK'
    BY Zenon, <1>inv, <1>2, <2>2 DEF GetLock, TypeOK
  <2>4. rec.pc \notin Caching /\ (rec.pc \in Holding => rec.c \in Client /\ client[rec.c].st # "free")
    BY <2>1, <2>2 DEF Caching, Holding
  <2>5. UNCHANGED <<auth, pr, client, cache, clones>>
    BY Zenon, <1>2 DEF GetLock
  <2> HIDE DEF rec
  <2> QED
    BY Zenon, <2>2, <2>3, <2>4, <2>5, CallerMoves
<1>3. ASSUME NEW pc \in {"untaint", "read", "ns"}, op' = [op EXCEPT ![g].pc = pc],
             op[g].pc \in Holding \/ pc = "read", store' \in [Key -> Token \cup {None}],
             UNCHANGED <<client, cache, clones, token, authVars, pr, hd, down, restarts>>
      PROVE  CacheInv'
  <2> DEFINE rec == [op[g] EXCEPT !.pc = pc]
  <2>1. rec \in OpRec /\ rec.c = op[g].c /\ rec.pc = pc
    BY Zenon, <1>0 DEF OpRec, InLock
  <2>2. op' = [op EXCEPT ![g] = rec]
    BY Zenon, <1>inv, <1>3 DEF TypeOK
  <2>3. TypeOK'
    BY Zenon, <1>inv, <1>3, <2>1, <2>2 DEF TypeOK
  <2> QED
    BY ZenonT(40), <1>inv, <1>3, <2>1, <2>2, <2>3, CallerMoves DEF Caching, Holding, Held
<1>4. CASE GetValid(g)
  BY Zenon, <1>inv, <1>3, <1>4 DEF GetValid, Holding, TypeOK
<1>5. CASE GetNotRestored(g)
  BY Zenon, <1>inv, <1>0, <1>3, <1>5 DEF GetNotRestored, TypeOK
<1>6. CASE GetStore(g)
  <2>1. op[g].c \in Client /\ client[op[g].c].tok \in Token
    BY Zenon, <1>inv, <1>6 DEF GetStore, Holding, Held
  <2>2. store' \in [Key -> Token \cup {None}]
    BY Zenon, <1>inv, <1>6, <2>1 DEF GetStore, TypeOK
  <2> QED
    BY Zenon, <1>3, <1>6, <2>2 DEF GetStore, Holding
<1>7. CASE GetRead(g)
  <2> DEFINE a == op[g].key[1]
             rec == [op[g] EXCEPT !.pc = "login", !.c = None, !.nkey = <<a, auth[a].gen>>,
                                  !.nspec = auth[a].spec]
  <2>1. a \in Auth /\ <<a, auth[a].gen>> \in Key /\ auth[a].spec \in SpecV
    BY Zenon, <1>inv, <1>0 DEF TypeOK, AuthRec, Key
  <2>2. rec \in OpRec /\ rec.pc = "login"
    BY Zenon, <1>0, <2>1 DEF OpRec, InLock
  <2>3. op' = [op EXCEPT ![g] = rec]
    BY Zenon, <1>inv, <1>7 DEF GetRead, TypeOK
  <2> HIDE DEF rec
  <2>4. UNCHANGED <<client, cache, clones, token, store, auth, authq, pruned, pr, hd, down, restarts>>
    BY Zenon, <1>7 DEF GetRead
  <2>5. TypeOK'
    BY Zenon, <1>inv, <2>2, <2>3, <2>4 DEF TypeOK
  <2> QED
    BY ZenonT(40), <2>2, <2>3, <2>4, <2>5, CallerMoves DEF Caching, Holding
<1>8. CASE GetFailed(g)
  <2>1. TypeOK' /\ IdleOp.pc = "idle"
    BY Zenon, ConstAssumption, NullTypes, <1>inv, <1>8 DEF GetFailed, TypeOK, IdleOp
  <2> QED
    BY Zenon, ConstAssumption, NullTypes, <1>8, <2>1, CallerMoves DEF GetFailed, Caching, Holding
<1>9. ASSUME NEW c \in Client, client[c].st # "free", Return(g, c), UNCHANGED client,
             UnchangedCache, UNCHANGED Elsewhere
      PROVE  CacheInv'
  <2> DEFINE rec == [IdleOp EXCEPT !.pc = "have", !.c = c]
  <2>1. rec \in OpRec /\ rec.pc = "have" /\ rec.c = c
    BY ZenonT(40), ConstAssumption, NullTypes DEF OpRec
  <2>2. op' = [op EXCEPT ![g] = rec]
    BY Zenon, <1>9 DEF Return
  <2>3. TypeOK'
    BY Zenon, <1>inv, <1>9, <2>1, <2>2 DEF TypeOK
  <2> QED
    BY Zenon, <1>9, <2>1, <2>2, <2>3, CallerMoves DEF Caching, Holding
<1>10. CASE GetRoot(g)
  BY Zenon, <1>inv, <1>9, <1>10 DEF GetRoot, Held, Holding
<1>11. CASE GetCloneHit(g)
  <2>1. CloneKeyOf(g) \in CloneKey
    BY Zenon, <1>inv, <1>0, <1>11
       DEF GetCloneHit, CloneKeyOf, CloneKey, Held, Holding, TypeOK, OpRec, ClientRec
  <2> QED
    BY ZenonT(40), <1>inv, <1>9, <1>11, <2>1 DEF GetCloneHit, Held, TypeOK
<1>12. CASE RecvFromGet(g)
  <2> DEFINE rec == [op[g] EXCEPT !.pc = "read"]
  <2>1. rec \in OpRec /\ rec.pc = "read"
    BY Zenon, <1>0 DEF OpRec, InLock
  <2>2. op' = [op EXCEPT ![g] = rec]
    BY Zenon, <1>inv, <1>12 DEF RecvFromGet, TypeOK
  <2>3. hd' \in HandlerRec
    BY Zenon, <1>inv, <1>12 DEF RecvFromGet, TypeOK, HandlerRec, ClientRec, Held, Holding
  <2>4. TypeOK'
    BY Zenon, <1>inv, <1>12, <2>1, <2>2, <2>3 DEF RecvFromGet, TypeOK
  <2> QED
    BY ZenonT(40), <1>12, <2>1, <2>2, <2>4, CallerMoves DEF RecvFromGet, Caching, Holding
<1> QED
  BY Zenon, <1>1, <1>2, <1>4, <1>5, <1>6, <1>7, <1>8, <1>10, <1>11, <1>12

\* A step that puts a new root client d, logged in, into the hands of caller g (or of no one)
\* keeps the invariant.
LEMMA LoginKeeps ==
  ASSUME CacheInv, NEW g \in Getter, NEW d \in Client, NEW C \in ClientRec,
         C.st = "open", C.tok \in Token, C.ns = RootNS,
         NEW rec \in OpRec, client[d].st = "free",
         client' = [client EXCEPT ![d] = C],
         op' = [op EXCEPT ![g] = rec], rec.pc \in Caching => rec.c = d, rec.pc \in Caching \cup {"read"},
         UNCHANGED <<auth, pr, cache, clones>>,
         token' \in [Token -> TokenRec], store' \in [Key -> Token \cup {None}],
         UNCHANGED <<authq, pruned, hd, down, restarts>>
  PROVE  CacheInv'
<1>inv. TypeOK /\ GenBound /\ HashBound /\ CachedOpen /\ Held /\ NewInHand
  BY Zenon DEF CacheInv
<1>2. C.st = "open" /\ C.tok \in Token /\ C.ns = RootNS
  BY ZenonT(40)
<1>3. TypeOK'
  BY Zenon, <1>inv DEF TypeOK
<1>4. client'[d] = C /\ \A c \in Client \ {d} : client'[c] = client[c]
  BY Zenon, <1>inv DEF TypeOK
<1>5. op'[g] = rec /\ \A h \in Getter \ {g} : op'[h] = op[h]
  BY Zenon, <1>inv DEF TypeOK
<1>6. \A j \in Key : cache[j] # d
  BY SMTT(30), ConstAssumption, <1>inv DEF CachedOpen, Cached
<1>7. CachedOpen'
  BY SMTT(30), <1>inv, <1>4, <1>6 DEF CachedOpen, Cached, TypeOK
<1>8. Held'
  <2>1. \A h \in Getter : op'[h].pc \in Holding => op'[h].c \in Client /\ client'[op'[h].c].st # "free"
    BY SMTT(30), <1>inv, <1>2, <1>4, <1>5 DEF Held, Holding, Caching
  <2>2. \A c \in Client : client'[c].st # "free" => client'[c].tok \in Token
    BY Zenon, <1>inv, <1>2, <1>4 DEF Held
  <2>3. \A ck \in CloneKey : clones'[ck] # None => client'[clones'[ck]].st # "free"
    BY Zenon, <1>inv, <1>2, <1>4 DEF Held, TypeOK
  <2> QED
    BY Zenon, <2>1, <2>2, <2>3 DEF Held
<1>9. NewInHand'
  <2>1. \A h \in Getter : h # g /\ op[h].pc \in Caching => op[h].c # d /\ op[h].c \in Client
    BY Zenon, <1>inv DEF NewInHand, Held, Holding, Caching
  <2> QED
    BY SMTT(30), <1>inv, <1>2, <1>4, <1>5, <1>6, <2>1 DEF NewInHand
<1>10. GenBound' /\ HashBound'
  BY Zenon, <1>inv DEF GenBound, HashBound
<1> QED
  BY Zenon, <1>3, <1>7, <1>8, <1>9, <1>10 DEF CacheInv

\* No caller has a client in its hands that it did not have before.
OpKept ==
  \A h \in Getter :
    /\ op'[h].pc \in Caching => op[h].pc \in Caching /\ op'[h].c = op[h].c
    /\ op'[h].pc \in Holding => op[h].pc \in Holding /\ op'[h].c = op[h].c

\* Changing nothing of the clients but taints and watchers keeps the invariant.
LEMMA ClientMoves ==
  ASSUME CacheInv, TypeOK', HashBound', OpKept, UNCHANGED <<auth, cache, clones>>,
         \A c \in Client : /\ client'[c].st = client[c].st /\ client'[c].key = client[c].key
                           /\ client'[c].tok = client[c].tok /\ client'[c].ns = client[c].ns
  PROVE  CacheInv'
<1>1. CachedOpen'
  BY SMTT(30) DEF CacheInv, CachedOpen, Cached, TypeOK
<1>2. Held'
  BY SMTT(30) DEF CacheInv, Held, TypeOK, OpKept
<1>3. NewInHand'
  BY DEF CacheInv, NewInHand, Held, Holding, Caching, OpKept
<1> QED
  BY Zenon, <1>1, <1>2, <1>3 DEF CacheInv, GenBound

\* Removing roots from the cache keeps the invariant.
LEMMA RemoveMoves ==
  ASSUME CacheInv, NEW K \in SUBSET Key, NEW r \in BOOLEAN, Remove(K, r),
         UNCHANGED <<auth, authq, pruned, pr, restarts>>, OpKept,
         op' \in [Getter -> OpRec], hd' \in HandlerRec, down' \in {"no", "keep", "revoke"}
  PROVE  CacheInv'
<1>inv. TypeOK /\ GenBound /\ HashBound /\ CachedOpen /\ Held /\ NewInHand
  BY Zenon DEF CacheInv
<1>1. /\ client' \in [Client -> ClientRec] /\ token' \in [Token -> TokenRec]
      /\ clones' \in [CloneKey -> Client \cup {None}] /\ store' \in [Key -> Token \cup {None}]
      /\ cache' \in [Key -> Client \cup {None}] /\ CachedOpen'
  BY Zenon, <1>inv, RemoveEffect
<1>2. /\ \A c \in Client : /\ client'[c].tok = client[c].tok /\ client'[c].ns = client[c].ns
                           /\ client'[c].st = "free" <=> client[c].st = "free"
      /\ \A ck \in CloneKey : clones'[ck] # None => clones'[ck] = clones[ck]
  BY Zenon, <1>inv, RemoveEffect
<1>3. /\ \A c \in Client : (\A k \in Key : cache[k] # c) => client'[c] = client[c]
      /\ \A k \in Key : cache'[k] # None => cache'[k] = cache[k]
  BY Zenon, <1>inv, RemoveEffect
<1>4. TypeOK' /\ GenBound' /\ HashBound'
  BY Zenon, <1>inv, <1>1 DEF TypeOK, GenBound, HashBound
<1>5. Held'
  <2>1. \A h \in Getter : op'[h].pc \in Holding => op'[h].c \in Client /\ client'[op'[h].c].st # "free"
    BY <1>inv, <1>2 DEF Held, OpKept
  <2>2. \A c \in Client : client'[c].st # "free" => client'[c].tok \in Token
    BY Zenon, <1>inv, <1>2 DEF Held
  <2>3. \A ck \in CloneKey : clones'[ck] # None => client'[clones'[ck]].st # "free"
    BY <1>inv, <1>2 DEF Held, TypeOK
  <2> QED
    BY Zenon, <2>1, <2>2, <2>3 DEF Held
<1>6. NewInHand'
  <2>1. \A g \in Getter : op'[g].pc \in Caching =>
          op'[g].c \in Client /\ op'[g].c # None /\ client'[op'[g].c] = client[op'[g].c]
    BY SMTT(60), <1>inv, <1>3, ConstAssumption DEF NewInHand, OpKept, Held, Caching, Holding
  <2> QED
    BY <1>inv, <1>3, <2>1 DEF NewInHand, OpKept
<1> QED
  BY Zenon, <1>1, <1>4, <1>5, <1>6 DEF CacheInv

\* A caller's steps that move clients keep the invariant: taints ...
LEMMA TaintKeeps ==
  ASSUME CacheInv, NEW g \in Getter, GetUntaint(g) \/ UseClient(g)
  PROVE  CacheInv'
<1>inv. TypeOK /\ HashBound /\ Held
  BY Zenon DEF CacheInv
<1>1. op[g].c \in Client /\ op[g] \in OpRec /\ client[op[g].c] \in ClientRec
  BY Zenon, <1>inv DEF GetUntaint, UseClient, Held, Holding, TypeOK
<1>2. PICK b \in BOOLEAN : client' = [client EXCEPT ![op[g].c].taint = b]
  <2>1. CASE GetUntaint(g)
    BY Zenon, <2>1 DEF GetUntaint
  <2>2. CASE UseClient(g)
    <3>1. (client[op[g].c].taint \/ token[client[op[g].c].tok].st # "live") \in BOOLEAN
      BY Zenon
    <3> QED
      BY Zenon, <2>2, <3>1 DEF UseClient
  <2> QED
    BY Zenon, <2>1, <2>2
<1>3. /\ client' \in [Client -> ClientRec]
      /\ \A c \in Client : /\ client'[c].st = client[c].st /\ client'[c].key = client[c].key
                           /\ client'[c].tok = client[c].tok /\ client'[c].ns = client[c].ns
  BY Zenon, <1>inv, <1>1, <1>2 DEF TypeOK, ClientRec
<1>4. PICK rec \in OpRec : /\ op' = [op EXCEPT ![g] = rec]
                           /\ rec.pc = "idle" \/ (rec.pc = "ns" /\ op[g].pc = "untaint" /\ rec.c = op[g].c)
  <2>1. CASE GetUntaint(g)
    <3> DEFINE rec == [op[g] EXCEPT !.pc = "ns"]
    <3>1. rec \in OpRec /\ rec.pc = "ns" /\ rec.c = op[g].c
      BY Zenon, <1>1 DEF OpRec, InLock
    <3>2. op' = [op EXCEPT ![g] = rec] /\ op[g].pc = "untaint"
      BY Zenon, <1>inv, <2>1 DEF GetUntaint, TypeOK
    <3> QED
      BY Zenon, <3>1, <3>2
  <2>2. CASE UseClient(g)
    BY ZenonT(40), NullTypes, <2>2 DEF UseClient, IdleOp
  <2> QED
    BY Zenon, <2>1, <2>2
<1>5. OpKept
  BY Zenon, <1>inv, <1>4 DEF OpKept, Holding, Caching, TypeOK
<1>6. UNCHANGED <<auth, cache, clones, token, store, authq, pruned, pr, hd, down, restarts>>
  BY Zenon DEF GetUntaint, UseClient, UnchangedCache, Elsewhere, authVars
<1>7. TypeOK' /\ HashBound'
  BY Zenon, <1>inv, <1>3, <1>4, <1>6 DEF TypeOK, HashBound
<1> QED
  BY Zenon, <1>3, <1>5, <1>6, <1>7, ClientMoves

\* ... removals ...
LEMMA UncacheKeeps ==
  ASSUME CacheInv, NEW g \in Getter, GetInvalid(g) \/ GetUncache(g)
  PROVE  CacheInv'
<1>inv. TypeOK /\ Held
  BY Zenon DEF CacheInv
<1>1. op[g].c \in Client /\ op[g] \in OpRec /\ client[op[g].c].key \in Key /\ op[g].key \in Key
  BY Zenon, <1>inv DEF GetInvalid, GetUncache, Held, Holding, TypeOK, OpRec, ClientRec
<1>2. PICK K \in SUBSET Key, r \in BOOLEAN : Remove(K, r)
  <2>1. CASE GetInvalid(g)
    BY Zenon, <1>1, <2>1 DEF GetInvalid, revokeOnEvict
  <2>2. CASE GetUncache(g)
    BY Zenon, <1>1, <2>2 DEF GetUncache, revokeOnEvict
  <2> QED
    BY Zenon, <2>1, <2>2
<1>3. PICK pc \in {"send", "add"} : /\ op' = [op EXCEPT ![g].pc = pc]
                                    /\ pc = "send" => op[g].pc = "validate"
                                    /\ pc = "add" => op[g].pc = "uncache"
  BY Zenon DEF GetInvalid, GetUncache
<1> DEFINE rec == [op[g] EXCEPT !.pc = pc]
<1>4. rec \in OpRec /\ rec.pc = pc /\ rec.c = op[g].c
  BY Zenon, <1>1, <1>3 DEF OpRec, InLock
<1>5. op' = [op EXCEPT ![g] = rec]
  BY Zenon, <1>inv, <1>3 DEF TypeOK
<1> HIDE DEF rec
<1>6. OpKept /\ op' \in [Getter -> OpRec]
  BY <1>inv, <1>3, <1>4, <1>5 DEF OpKept, Holding, Caching, TypeOK
<1>7. UNCHANGED <<auth, authq, pruned, pr, restarts, hd, down>>
  BY Zenon DEF GetInvalid, GetUncache, Elsewhere, authVars
<1> QED
  BY Zenon, <1>inv, <1>2, <1>6, <1>7, RemoveMoves DEF TypeOK

\* ... new root clients ...
LEMMA NewRootKeeps ==
  ASSUME CacheInv, NEW g \in Getter, NEW d \in Client,
         \/ GetRestored(g, d) \/ GetRestoreAbandoned(g, d)
         \/ \E t \in Token, r \in Renewables : GetLogin(g, d, t, r)
  PROVE  CacheInv'
<1>inv. TypeOK
  BY Zenon DEF CacheInv
<1>1. op[g] \in OpRec /\ op[g].key \in Key /\ op[g].nkey \in Key /\ op[g].nspec \in SpecV
  BY Zenon, <1>inv DEF TypeOK, OpRec
<1>2. UNCHANGED <<auth, authq, pruned, pr, hd, down, restarts, cache, clones>>
  BY ZenonT(40) DEF GetRestored, GetRestoreAbandoned, GetLogin, UnchangedCache, Elsewhere, authVars
<1>3. CASE GetRestored(g, d)
  <2>1. PICK t \in Token : t = store[op[g].key]
    BY Zenon, <1>inv, <1>1, <1>3 DEF GetRestored, TypeOK
  <2> DEFINE rec == [op[g] EXCEPT !.pc = "uncache", !.c = d]
  <2>2. rec \in OpRec /\ rec.pc = "uncache" /\ rec.c = d
    BY Zenon, <1>1 DEF OpRec, InLock
  <2>3. op' = [op EXCEPT ![g] = rec]
    BY Zenon, <1>inv, <1>3 DEF GetRestored, TypeOK
  <2> HIDE DEF rec
  <2>4. /\ client' = [client EXCEPT ![d] = LoggedIn(op[g].key, t, TRUE)] /\ client[d].st = "free"
        /\ token' \in [Token -> TokenRec] /\ store' \in [Key -> Token \cup {None}]
    BY Zenon, <1>inv, <1>3, <2>1 DEF GetRestored, UnchangedCache, TypeOK
  <2>5. PICK C \in ClientRec : /\ C = LoggedIn(op[g].key, t, TRUE)
                              /\ C.st = "open" /\ C.tok \in Token /\ C.ns = RootNS
    <3>1. PICK k \in Key : k = op[g].key
      BY Zenon, <1>1
    <3>2. /\ LoggedIn(k, t, TRUE) \in ClientRec /\ LoggedIn(k, t, TRUE).st = "open"
          /\ LoggedIn(k, t, TRUE).tok = t /\ LoggedIn(k, t, TRUE).ns = RootNS
      BY Zenon, ConstAssumption DEF LoggedIn, ClientRec
    <3> QED
      BY Zenon, <3>1, <3>2
  <2> QED
    BY Zenon, <1>2, <2>2, <2>3, <2>4, <2>5, LoginKeeps DEF Caching
<1>4. CASE GetRestoreAbandoned(g, d)
  <2>1. PICK t \in Token : t = store[op[g].key]
    BY Zenon, <1>inv, <1>1, <1>4 DEF GetRestoreAbandoned, TypeOK
  <2> DEFINE rec == [op[g] EXCEPT !.pc = "read"]
  <2>2. rec \in OpRec /\ rec.pc = "read"
    BY Zenon, <1>1 DEF OpRec, InLock
  <2>3. op' = [op EXCEPT ![g] = rec]
    BY Zenon, <1>inv, <1>4 DEF GetRestoreAbandoned, TypeOK
  <2> HIDE DEF rec
  <2>4. /\ client' = [client EXCEPT ![d] = [LoggedIn(op[g].key, t, TRUE) EXCEPT !.watch = "orphan"]]
        /\ client[d].st = "free"
        /\ token' \in [Token -> TokenRec] /\ store' \in [Key -> Token \cup {None}]
    BY Zenon, <1>inv, <1>4, <2>1 DEF GetRestoreAbandoned, TypeOK
  <2>5. PICK C \in ClientRec : /\ C = [LoggedIn(op[g].key, t, TRUE) EXCEPT !.watch = "orphan"]
                              /\ C.st = "open" /\ C.tok \in Token /\ C.ns = RootNS
    <3>1. PICK k \in Key : k = op[g].key
      BY Zenon, <1>1
    <3>2. /\ [LoggedIn(k, t, TRUE) EXCEPT !.watch = "orphan"] \in ClientRec /\ [LoggedIn(k, t, TRUE) EXCEPT !.watch = "orphan"].st = "open"
          /\ [LoggedIn(k, t, TRUE) EXCEPT !.watch = "orphan"].tok = t /\ [LoggedIn(k, t, TRUE) EXCEPT !.watch = "orphan"].ns = RootNS
      BY ZenonT(40), ConstAssumption DEF LoggedIn, ClientRec
    <3> QED
      BY Zenon, <3>1, <3>2
  <2> QED
    BY Zenon, <1>2, <2>2, <2>3, <2>4, <2>5, LoginKeeps DEF Caching
<1>5. ASSUME NEW t \in Token, NEW r \in Renewables, GetLogin(g, d, t, r)
      PROVE  CacheInv'
  <2> DEFINE rec == [IdleOp EXCEPT !.pc = "uncache", !.key = op[g].key, !.ns = op[g].ns,
                                   !.c = d, !.fresh = TRUE]
  <2>1. op[g].ns \in NS /\ IdleOp \in OpRec /\ "uncache" \in InLock
    BY Zenon, <1>1, NullTypes DEF OpRec, InLock
  <2>2. rec \in OpRec /\ rec.pc = "uncache" /\ rec.c = d
    BY Zenon, <1>1, <2>1 DEF OpRec
  <2>3. op' = [op EXCEPT ![g] = rec]
    BY Zenon, <1>5 DEF GetLogin
  <2> HIDE DEF rec
  <2>4. r \in BOOLEAN
    BY Zenon, ConstAssumption
  <2>5. [st |-> "live", spec |-> op[g].nspec, renewable |-> r] \in TokenRec
    BY Zenon, <1>1, <2>4 DEF TokenRec
  <2>6. /\ client' = [client EXCEPT ![d] = LoggedIn(op[g].nkey, t, r)] /\ client[d].st = "free"
        /\ token' \in [Token -> TokenRec] /\ store' \in [Key -> Token \cup {None}]
    BY Zenon, <1>inv, <1>5, <2>5 DEF GetLogin, TypeOK
  <2>7. PICK C \in ClientRec : /\ C = LoggedIn(op[g].nkey, t, r)
                              /\ C.st = "open" /\ C.tok \in Token /\ C.ns = RootNS
    <3>1. PICK k \in Key : k = op[g].nkey
      BY Zenon, <1>1
    <3>2. /\ LoggedIn(k, t, r) \in ClientRec /\ LoggedIn(k, t, r).st = "open"
          /\ LoggedIn(k, t, r).tok = t /\ LoggedIn(k, t, r).ns = RootNS
      BY Zenon, ConstAssumption, <2>4 DEF LoggedIn, ClientRec
    <3> QED
      BY Zenon, <3>1, <3>2
  <2> QED
    BY Zenon, <1>2, <2>2, <2>3, <2>4, <2>6, <2>7, LoginKeeps DEF Caching
<1> QED
  BY Zenon, <1>3, <1>4, <1>5

\* ... the addition of a root to the cache, which may evict another ...
LEMMA AddKeeps ==
  ASSUME CacheInv, NEW g \in Getter, GetAdd(g)
  PROVE  CacheInv'
<1>inv. TypeOK /\ GenBound /\ HashBound /\ CachedOpen /\ Held /\ NewInHand
  BY Zenon DEF CacheInv
<1>1. PICK c \in Client : c = op[g].c
  BY Zenon, <1>inv DEF GetAdd, Held, Holding
<1>2. PICK k \in Key : k = client[c].key
  BY Zenon, <1>inv, <1>1 DEF TypeOK, ClientRec
<1>3. /\ client[c].st = "open" /\ client[c].ns = RootNS /\ client[c].tok \in Token
      /\ \A j \in Key : cache[j] # c
      /\ \A h \in Getter : op[h].pc \in Caching /\ op[h].c = c => h = g
  BY Zenon, <1>inv, <1>1 DEF GetAdd, NewInHand, Held, Caching
<1>4. PICK K \in Victims(k) : /\ cache' = [CacheWithout(K) EXCEPT ![k] = c]
                              /\ Evict(K, revokeOnEvict)
  BY Zenon, <1>1, <1>2 DEF GetAdd, AddRoot
<1>5. K \in SUBSET Key /\ K \subseteq Cached
  BY Zenon, <1>4 DEF Victims, Cached
<1>6. PICK r \in BOOLEAN : r = revokeOnEvict
  BY ZenonT(40) DEF revokeOnEvict
<1>7. PICK X \in SUBSET Key : X = K
  BY Zenon, <1>5
<1>8. X \subseteq Cached /\ Evict(X, r)
  BY Zenon, <1>4, <1>5, <1>6, <1>7
<1>9. /\ client' \in [Client -> ClientRec] /\ token' \in [Token -> TokenRec]
      /\ clones' \in [CloneKey -> Client \cup {None}] /\ store' \in [Key -> Token \cup {None}]
  BY Zenon, <1>inv, <1>8, EvictEffect
<1>10. /\ \A e \in Client : /\ client'[e].tok = client[e].tok /\ client'[e].ns = client[e].ns
                            /\ client'[e].st = "free" <=> client[e].st = "free"
       /\ \A e \in Client : (\A j \in X : cache[j] # e) => client'[e] = client[e]
       /\ \A ck \in CloneKey : clones'[ck] # None => clones'[ck] = clones[ck]
  BY ZenonT(40), <1>inv, <1>8, EvictEffect
<1>11. /\ cache' \in [Key -> Client \cup {None}]
       /\ cache'[k] = c
       /\ \A j \in Key \ {k} : cache'[j] # None => cache'[j] = cache[j] /\ j \notin X
  BY Zenon, <1>inv, <1>4, <1>7 DEF CacheWithout, TypeOK
<1> DEFINE pc == IF Persist /\ op[g].fresh THEN "store" ELSE "ns"
<1> DEFINE rec == [op[g] EXCEPT !.pc = pc]
<1>12. rec \in OpRec /\ rec.pc \in {"store", "ns"} /\ rec.c = c
  BY ZenonT(40), <1>inv, <1>1 DEF OpRec, InLock, TypeOK
<1>13. op' = [op EXCEPT ![g] = rec]
  BY Zenon, <1>inv DEF GetAdd, TypeOK
<1> HIDE DEF pc, rec
<1>14. op'[g] = rec /\ \A h \in Getter \ {g} : op'[h] = op[h]
  BY Zenon, <1>inv, <1>13 DEF TypeOK
<1>15. UNCHANGED <<auth, authq, pruned, pr, hd, down, restarts>>
  BY Zenon DEF GetAdd, Elsewhere, authVars
<1>16. TypeOK' /\ GenBound' /\ HashBound'
  BY ZenonT(40), <1>inv, <1>9, <1>11, <1>12, <1>13, <1>15 DEF TypeOK, GenBound, HashBound
<1>17. CachedOpen'
  <2>1. client'[c] = client[c]
    BY Zenon, <1>3, <1>10
  <2>2. ASSUME NEW j \in Key, j # k, cache'[j] # None
        PROVE  cache'[j] = cache[j] /\ client'[cache[j]] = client[cache[j]] /\ cache[j] # None
    <3>1. cache'[j] = cache[j] /\ j \notin X /\ cache[j] \in Client
      BY Zenon, <1>inv, <1>11, <2>2 DEF TypeOK
    <3>2. client[cache[j]].key = j /\ \A i \in X : cache[i] # None /\ client[cache[i]].key = i
      BY Zenon, <1>inv, <1>8, <2>2, <3>1 DEF CachedOpen, Cached
    <3>3. \A i \in X : cache[i] # cache[j]
      BY <3>1, <3>2
    <3> QED
      BY Zenon, <1>10, <2>2, <3>1, <3>3
  <2>3. ASSUME NEW j \in Key, cache'[j] # None
        PROVE  LET e == client'[cache'[j]] IN
                 e.st = "open" /\ e.key = j /\ e.ns = RootNS /\ e.tok \in Token
    <3>1. CASE j = k
      BY Zenon, <1>2, <1>3, <1>11, <2>1, <3>1
    <3>2. CASE j # k
      BY <1>inv, <2>2, <2>3, <3>2 DEF CachedOpen, Cached
    <3> QED
      BY Zenon, <3>1, <3>2
  <2> QED
    BY Zenon, <2>3 DEF CachedOpen, Cached
<1>18. Held'
  <2>1. \A h \in Getter : op'[h].pc \in Holding => op[h].pc \in Holding /\ op'[h].c = op[h].c
    BY Zenon, <1>1, <1>12, <1>14 DEF Holding, GetAdd
  <2>2. \A h \in Getter : op'[h].pc \in Holding => op'[h].c \in Client /\ client'[op'[h].c].st # "free"
    BY <1>inv, <1>10, <2>1 DEF Held
  <2>3. \A e \in Client : client'[e].st # "free" => client'[e].tok \in Token
    BY Zenon, <1>inv, <1>10 DEF Held
  <2>4. \A ck \in CloneKey : clones'[ck] # None => client'[clones'[ck]].st # "free"
    BY <1>inv, <1>10 DEF Held, TypeOK
  <2> QED
    BY Zenon, <2>2, <2>3, <2>4 DEF Held
<1>19. NewInHand'
  <2>1. ASSUME NEW h \in Getter, op'[h].pc \in Caching
        PROVE  /\ h # g /\ op'[h] = op[h] /\ op[h].c \in Client /\ op[h].c # c
               /\ client'[op[h].c] = client[op[h].c] /\ \A j \in Key : cache'[j] # op[h].c
    <3>1. h # g /\ op'[h] = op[h]
      BY Zenon, <1>12, <1>14, <2>1 DEF Caching
    <3>2. op[h].c \in Client /\ op[h].c # c /\ \A j \in Key : cache[j] # op[h].c
      BY Zenon, <1>inv, <1>3, <2>1, <3>1 DEF NewInHand, Held, Holding, Caching
    <3>3. client'[op[h].c] = client[op[h].c]
      BY Zenon, <1>10, <3>2
    <3>4. \A j \in Key : cache'[j] # op[h].c
      BY Zenon, ConstAssumption, <1>11, <3>2
    <3> QED
      BY Zenon, <3>1, <3>2, <3>3, <3>4
  <2> QED
    BY <1>inv, <2>1 DEF NewInHand
<1> QED
  BY Zenon, <1>16, <1>17, <1>18, <1>19 DEF CacheInv

\* ... and a new clone.
LEMMA CloneKeeps ==
  ASSUME CacheInv, NEW g \in Getter, NEW d \in Client, GetClone(g, d)
  PROVE  CacheInv'
<1>inv. TypeOK /\ GenBound /\ HashBound /\ CachedOpen /\ Held /\ NewInHand
  BY Zenon DEF CacheInv
<1>1. PICK c \in Client : c = op[g].c /\ client[c].st # "free"
  BY Zenon, <1>inv DEF GetClone, Held, Holding
<1>2. PICK ck \in CloneKey : ck = CloneKeyOf(g)
  BY Zenon, <1>inv, <1>1 DEF GetClone, CloneKeyOf, CloneKey, TypeOK, OpRec, ClientRec
<1> DEFINE new == [st |-> "open", key |-> client[c].key, tok |-> client[c].tok, ns |-> op[g].ns,
                   taint |-> FALSE, watch |-> "none"]
<1>3. new \in ClientRec /\ new.st = "open" /\ new.tok \in Token
  BY Zenon, <1>inv, <1>1 DEF ClientRec, TypeOK, OpRec, Held
<1>4. client' = [client EXCEPT ![d] = new] /\ client[d].st = "free"
  BY Zenon, <1>1 DEF GetClone
<1> HIDE DEF new
<1>5. client'[d] = new /\ \A e \in Client \ {d} : client'[e] = client[e]
  BY Zenon, <1>inv, <1>4 DEF TypeOK
<1>6. PICK v \in CloneKey : clones' = [clones EXCEPT ![v] = None, ![ck] = d]
  <2>1. AddClone(ck, d)
    BY Zenon, <1>2 DEF GetClone
  <2> QED
    BY Zenon, <2>1 DEF AddClone
<1>7. /\ clones' \in [CloneKey -> Client \cup {None}]
      /\ \A x \in CloneKey : clones'[x] # None => clones'[x] \in {clones[x], d}
  BY Zenon, <1>inv, <1>6 DEF TypeOK
<1> DEFINE rec == [IdleOp EXCEPT !.pc = "have", !.c = d]
<1>8. rec \in OpRec /\ rec.pc = "have" /\ rec.c = d
  BY ZenonT(40), NullTypes DEF OpRec
<1>9. op' = [op EXCEPT ![g] = rec]
  BY Zenon DEF GetClone, Return
<1> HIDE DEF rec
<1>10. op'[g] = rec /\ \A h \in Getter \ {g} : op'[h] = op[h]
  BY Zenon, <1>inv, <1>9 DEF TypeOK
<1>11. UNCHANGED <<auth, authq, pruned, pr, hd, down, restarts, cache, token, store>>
  BY Zenon DEF GetClone, Elsewhere, authVars
<1>12. TypeOK' /\ GenBound' /\ HashBound'
  BY Zenon, <1>inv, <1>3, <1>4, <1>7, <1>8, <1>9, <1>11 DEF TypeOK, GenBound, HashBound
<1>13. \A j \in Key : cache[j] # d
  BY SMTT(30), ConstAssumption, <1>inv, <1>4 DEF CachedOpen, Cached
<1>14. CachedOpen'
  BY SMTT(30), <1>inv, <1>5, <1>11, <1>13 DEF CachedOpen, Cached, TypeOK
<1>15. Held'
  <2>1. \A h \in Getter : op'[h].pc \in Holding => op'[h].c \in Client /\ client'[op'[h].c].st # "free"
    BY SMTT(30), <1>inv, <1>3, <1>5, <1>8, <1>10 DEF Held
  <2>2. \A e \in Client : client'[e].st # "free" => client'[e].tok \in Token
    BY Zenon, <1>inv, <1>3, <1>5 DEF Held
  <2>3. \A x \in CloneKey : clones'[x] # None => client'[clones'[x]].st # "free"
    BY ZenonT(40), <1>inv, <1>3, <1>5, <1>7 DEF Held, TypeOK
  <2> QED
    BY Zenon, <2>1, <2>2, <2>3 DEF Held
<1>16. NewInHand'
  <2>1. \A h \in Getter : op[h].pc \in Caching => op[h].c # d /\ op[h].c \in Client
    BY Zenon, <1>inv, <1>4 DEF NewInHand, Held, Holding, Caching
  <2> QED
    BY SMTT(60), <1>inv, <1>5, <1>8, <1>10, <1>11, <2>1 DEF NewInHand, Caching
<1> QED
  BY Zenon, <1>12, <1>14, <1>15, <1>16 DEF CacheInv
-----------------------------------------------------------------------------
\* The steps of the callback handler keep the invariant.
LEMMA HandlerKeeps ==
  ASSUME CacheInv, \/ HandlerStep \/ \E k \in Key : RecvFromPrune(k)
                   \/ \E c \in Client : RecvFromWatcher(c)
  PROVE  CacheInv'
<1>inv. TypeOK /\ GenBound /\ HashBound
  BY Zenon DEF CacheInv
<1>1. CASE HandlerRemove
  <2>1. PICK K \in SUBSET Key : K = {hd.key}
    BY Zenon, <1>inv DEF TypeOK, HandlerRec
  <2>2. PICK r \in BOOLEAN : r = revokeOnEvict
    BY Zenon DEF revokeOnEvict
  <2>3. Remove(K, r) /\ UNCHANGED <<auth, authq, pruned, op, pr, down, restarts>>
    BY Zenon, <1>1, <2>1, <2>2 DEF HandlerRemove, authVars
  <2>4. hd' \in HandlerRec
    BY Zenon, <1>inv, <1>1 DEF HandlerRemove, TypeOK, HandlerRec
  <2>5. OpKept /\ op' \in [Getter -> OpRec] /\ down' \in {"no", "keep", "revoke"}
    BY Zenon, <1>inv, <2>3 DEF OpKept, TypeOK
  <2> QED
    BY Zenon, <2>3, <2>4, <2>5, RemoveMoves
<1>2. CASE HandlerPruneStorage
  <2>1. TypeOK'
    BY Zenon, <1>inv, <1>2 DEF HandlerPruneStorage, TypeOK, HandlerRec, authVars
  <2> QED
    BY Zenon, <1>inv, <1>2, <2>1, Untouched DEF HandlerPruneStorage, authVars, GenBound, HashBound
<1>3. CASE HandlerCall
  <2>1. TypeOK'
    BY Zenon, NullTypes, <1>inv, <1>3 DEF HandlerCall, UnchangedCache, TypeOK, authVars
  <2> QED
    BY Zenon, <1>inv, <1>3, <2>1, Untouched
       DEF HandlerCall, UnchangedCache, authVars, GenBound, HashBound
<1>4. ASSUME NEW k \in Key, RecvFromPrune(k)
      PROVE  CacheInv'
  <2>1. pr' \in PruneRec /\ pr'.pc = pr.pc
    BY Zenon, <1>inv, <1>4 DEF RecvFromPrune, TypeOK, PruneRec
  <2>2. hd' \in HandlerRec
    BY Zenon, <1>4 DEF RecvFromPrune, HandlerRec
  <2>3. UNCHANGED <<auth, authq, pruned, op, down, restarts, client, cache, clones, token, store>>
    BY Zenon, <1>4 DEF RecvFromPrune, UnchangedCache, authVars
  <2>4. TypeOK' /\ HashBound' /\ GenBound'
    BY Zenon, <1>inv, <1>4, <2>1, <2>2, <2>3 DEF TypeOK, HashBound, GenBound, RecvFromPrune
  <2> QED
    BY Zenon, <2>3, <2>4, Untouched
<1>5. ASSUME NEW c \in Client, RecvFromWatcher(c)
      PROVE  CacheInv'
  <2>1. client[c] \in ClientRec
    BY Zenon, <1>inv DEF TypeOK
  <2>2. hd' \in HandlerRec
    BY Zenon, <1>5, <2>1 DEF RecvFromWatcher, HandlerRec, ClientRec
  <2>3. /\ client' \in [Client -> ClientRec]
        /\ \A e \in Client : /\ client'[e].st = client[e].st /\ client'[e].key = client[e].key
                             /\ client'[e].tok = client[e].tok /\ client'[e].ns = client[e].ns
    BY Zenon, <1>inv, <1>5, <2>1 DEF RecvFromWatcher, TypeOK, ClientRec
  <2>4. UNCHANGED <<auth, authq, pruned, op, pr, down, restarts, cache, clones, token, store>>
    BY Zenon, <1>5 DEF RecvFromWatcher, UnchangedCache, authVars
  <2>5. TypeOK' /\ HashBound' /\ OpKept
    BY Zenon, <1>inv, <2>2, <2>3, <2>4 DEF TypeOK, HashBound, OpKept
  <2> QED
    BY Zenon, <2>3, <2>4, <2>5, ClientMoves
<1> QED
  BY Zenon, <1>1, <1>2, <1>3, <1>4, <1>5 DEF HandlerStep

\* The environment's steps keep the invariant.
LEMMA EnvironmentKeeps ==
  ASSUME CacheInv, Environment
  PROVE  CacheInv'
<1>inv. TypeOK /\ GenBound /\ HashBound /\ CachedOpen /\ Held /\ NewInHand
  BY Zenon DEF CacheInv
<1>1. ASSUME NEW t \in Token, TokenRevoked(t) \/ TokenLapsed(t)
      PROVE  CacheInv'
  <2>1. TypeOK'
    <3>1. PICK st \in {"revoked", "lapsed"} : token' = [token EXCEPT ![t].st = st]
      BY Zenon, <1>1 DEF TokenRevoked, TokenLapsed
    <3>2. token \in [Token -> TokenRec] /\ [token[t] EXCEPT !.st = st] \in TokenRec
      BY Zenon, <1>inv DEF TypeOK, TokenRec
    <3>3. token' \in [Token -> TokenRec]
      BY Zenon, <3>1, <3>2
    <3> QED
      BY Zenon, <1>inv, <1>1, <3>3 DEF TokenRevoked, TokenLapsed, TypeOK, authVars
  <2> QED
    BY Zenon, <1>inv, <1>1, <2>1, Untouched
       DEF TokenRevoked, TokenLapsed, authVars, GenBound, HashBound
<1>2. ASSUME NEW c \in Client, WatcherDone(c)
      PROVE  CacheInv'
  <2>1. client[c] \in ClientRec
    BY Zenon, <1>inv DEF TypeOK
  <2>2. /\ client' \in [Client -> ClientRec]
        /\ \A e \in Client : /\ client'[e].st = client[e].st /\ client'[e].key = client[e].key
                             /\ client'[e].tok = client[e].tok /\ client'[e].ns = client[e].ns
    BY Zenon, <1>inv, <1>2, <2>1 DEF WatcherDone, TypeOK, ClientRec
  <2>3. UNCHANGED <<auth, authq, pruned, op, pr, hd, down, restarts, cache, clones, token, store>>
    BY Zenon, <1>2 DEF WatcherDone, authVars
  <2>4. TypeOK' /\ HashBound' /\ OpKept
    BY Zenon, <1>inv, <2>2, <2>3 DEF TypeOK, HashBound, OpKept
  <2> QED
    BY Zenon, <2>2, <2>3, <2>4, ClientMoves
<1>3. ASSUME NEW mode \in ShutDowns, ShutDown(mode)
      PROVE  CacheInv'
  <2>1. PICK r \in BOOLEAN : r = (mode = "revoke")
    BY Zenon
  <2>2. Remove(Key, r) /\ UNCHANGED <<auth, authq, pruned, op, pr, hd, restarts>>
    BY Zenon, <1>3, <2>1 DEF ShutDown, authVars
  <2>3. OpKept /\ op' \in [Getter -> OpRec] /\ hd' \in HandlerRec
    BY Zenon, <1>inv, <2>2 DEF OpKept, TypeOK
  <2>4. down' \in {"no", "keep", "revoke"}
    BY Zenon, ConstAssumption, NullTypes, <1>3 DEF ShutDown
  <2> QED
    BY Zenon, <2>2, <2>3, <2>4, RemoveMoves
<1>4. CASE Restart
  <2>1. /\ client' \in [Client -> ClientRec]
        /\ \A c \in Client : /\ client'[c].tok = client[c].tok
                             /\ client'[c].st = "free" <=> client[c].st = "free"
    <3>1. \A c \in Client : /\ client[c] \in ClientRec
                            /\ [client[c] EXCEPT !.st = "closed", !.watch = "none"] \in ClientRec
      BY ZenonT(40), <1>inv DEF TypeOK, ClientRec
    <3> QED
      BY ZenonT(40), <1>4, <3>1 DEF Restart, ClientRec
  <2>2. restarts' \in 0..MaxRestarts
    <3>1. restarts \in 0..MaxRestarts /\ MaxRestarts \in Nat
      BY Zenon, ConstAssumption, NullTypes, <1>inv DEF TypeOK
    <3>2. restarts < MaxRestarts /\ restarts' = restarts + 1
      BY Zenon, <1>4 DEF Restart
    <3> QED
      BY <3>1, <3>2
  <2>3. TypeOK'
    BY ZenonT(40), ConstAssumption, NullTypes, <1>inv, <1>4, <2>1, <2>2 DEF Restart, TypeOK
  <2>4. GenBound' /\ HashBound'
    BY ZenonT(40), <1>inv, <1>4 DEF Restart, GenBound, HashBound, IdlePrune
  <2>6. CachedOpen'
    BY ZenonT(40), <1>inv, <1>4 DEF Restart, CachedOpen, Cached
  <2>7. NewInHand'
    BY ZenonT(40), <1>inv, <1>4 DEF Restart, NewInHand, IdleOp, Caching
  <2>5. Held'
    BY Zenon, <1>inv, <1>4, <2>1 DEF Restart, Held, IdleOp, Holding
  <2> QED
    BY Zenon, <2>3, <2>4, <2>5, <2>6, <2>7 DEF CacheInv
<1> QED
  BY Zenon, <1>1, <1>2, <1>3, <1>4, UserKeeps DEF Environment
-----------------------------------------------------------------------------
\* The initial states satisfy the invariant.
LEMMA CacheInvInit == Init => CacheInv
<1> SUFFICES ASSUME Init PROVE CacheInv
  BY Zenon
<1> USE ConstAssumption, NullTypes DEF Init
<1>1. TypeOK
  BY SMTT(30) DEF TypeOK, Spec0
<1>2. GenBound /\ HashBound
  BY SMTT(30) DEF GenBound, HashBound, NewAuth, IdlePrune
<1>3. CachedOpen
  BY ZenonT(40) DEF CachedOpen, Cached
<1>4. Held
  BY Zenon DEF Held, FreeClient, IdleOp, Holding
<1>5. NewInHand
  BY Zenon DEF NewInHand, IdleOp, Caching
<1> QED
  BY Zenon, <1>1, <1>2, <1>3, <1>4, <1>5 DEF CacheInv

\* Every step preserves the invariant.
LEMMA CacheInvStep == CacheInv /\ [Next]_vars => CacheInv'
<1> SUFFICES ASSUME CacheInv, [Next]_vars PROVE CacheInv'
  BY Zenon
<1>1. ASSUME NEW g \in Getter, GetStep(g)
      PROVE  CacheInv'
  BY Zenon, <1>1, CallerKeeps, TaintKeeps, UncacheKeeps, NewRootKeeps, AddKeeps, CloneKeeps
     DEF GetStep
<1>2. ASSUME NEW g \in Getter,
             \/ \E a \in Auth, n \in NS : GetBegin(g, a, n)
             \/ GetLock(g) \/ UseClient(g) \/ RecvFromGet(g)
      PROVE  CacheInv'
  BY Zenon, <1>2, CallerKeeps, TaintKeeps
<1>3. CASE \/ HandlerStep \/ \E k \in Key : RecvFromPrune(k)
           \/ \E c \in Client : RecvFromWatcher(c)
  BY Zenon, <1>3, HandlerKeeps
<1>4. CASE ControllerStep
  BY Zenon, <1>4, ControllerKeeps
<1>5. CASE Environment
  BY Zenon, <1>5, EnvironmentKeeps
<1>6. CASE UNCHANGED vars
  BY Zenon, <1>6
     DEF vars, CacheInv, TypeOK, GenBound, HashBound, CachedOpen, Cached, Held, NewInHand
<1> QED
  BY Zenon, <1>1, <1>2, <1>3, <1>4, <1>5, <1>6 DEF Next

\* The state keeps its types: no handler, callback or controller step stores a client, key or
\* hash of the wrong kind, whatever restarts or fails.
THEOREM TypeCorrect == Spec => []TypeOK
<1>1. CacheInv => TypeOK
  BY Zenon DEF CacheInv
<1> QED
  BY <1>1, CacheInvInit, CacheInvStep, PTL DEF Spec

\* The cache serves open clients only, under the key they were logged in for: onClientEvict
\* closes no client that is still cached, and no caller caches a closed client or a clone.
THEOREM CacheServesOpenClients == Spec => []CachedOpen
<1>1. CacheInv => CachedOpen
  BY Zenon DEF CacheInv
<1> QED
  BY <1>1, CacheInvInit, CacheInvStep, PTL DEF Spec
-----------------------------------------------------------------------------
\* Where a caller that holds the locks has a root client of its key.
Served == InLock \ {"restore", "read", "login"}

\* The inductive invariant behind PrunedSpecNotServed: clients have issued tokens, a caller
\* works on the VaultAuth it locked, nothing is restored, and the spec that was pruned last is
\* not newer than the VaultAuth's.
SpecInv ==
  /\ \A c \in Client : client[c].st # "free" => token[client[c].tok].st # "free"
  /\ \A g \in Getter : op[g].pc \in Served => client[op[g].c].key[1] = op[g].key[1]
  /\ \A g \in Getter : op[g].pc = "login" => op[g].nkey[1] = op[g].key[1]
  /\ \A g \in Getter : op[g].pc # "restore"
  /\ \A a \in Auth : pruned[a] <= auth[a].spec
  /\ PrunedSpecNotServed

\* No client is created, and none changes its key or token; no token is issued.
ClientsKept ==
  /\ \A c \in Client : client'[c].st # "free" =>
       client[c].st # "free" /\ client'[c].key = client[c].key /\ client'[c].tok = client[c].tok
  /\ \A t \in Token : token'[t].spec = token[t].spec /\ (token[t].st # "free" => token'[t].st # "free")

\* No caller comes to hold a client or to log in.
CallersKept ==
  \A g \in Getter :
    /\ op'[g].pc \in Served =>
         op[g].pc \in Served /\ op'[g].c = op[g].c /\ op'[g].key = op[g].key
    /\ op'[g].pc = "login" => op'[g] = op[g]
    /\ op'[g].pc # "restore"

\* Versions are numbers.
LEMMA Versions ==
  ASSUME TypeOK
  PROVE  /\ \A a \in Auth : auth[a].spec \in Int /\ pruned[a] \in Int
         /\ \A t \in Token : token[t].spec \in Int
         /\ \A k \in Key : k[1] \in Auth
<1>1. SpecV \subseteq Int /\ Spec0 \in Int
  BY DEF SpecV, Spec0
<1> QED
  BY Zenon, <1>1 DEF TypeOK, AuthRec, TokenRec, Key

\* A caller that holds the locks and is not about to log in holds a client.
LEMMA ServedHolds == Served \subseteq Holding /\ "have" \notin Served /\ "idle" \notin Served
BY Zenon DEF Served, InLock, Holding

\* A step that issues nothing, caches nothing and prunes nothing keeps the invariant.
LEMMA SpecFrame ==
  ASSUME CacheInv, CacheInv', SpecInv, ClientsKept, CallersKept, UNCHANGED pruned,
         \A k \in Key : cache'[k] # None => cache'[k] = cache[k],
         \A a \in Auth : auth[a].spec <= auth'[a].spec
  PROVE  SpecInv'
<1> USE ServedHolds
<1>1. TypeOK /\ TypeOK' /\ Held /\ Held' /\ CachedOpen /\ CachedOpen'
  BY Zenon DEF CacheInv
<1>2. \A c \in Client : client'[c].st # "free" => token'[client'[c].tok].st # "free"
  BY Zenon, <1>1 DEF SpecInv, ClientsKept, Held
<1>3. \A g \in Getter : op'[g].pc \in Served =>
        /\ op'[g].c \in Client /\ client'[op'[g].c].st # "free"
        /\ op'[g].key = op[g].key /\ op'[g].c = op[g].c /\ op[g].pc \in Served
  BY Zenon, <1>1 DEF CallersKept, Held
<1>4. \A g \in Getter : op'[g].pc \in Served =>
        /\ client'[op'[g].c].key = client[op[g].c].key /\ client'[op'[g].c].tok = client[op[g].c].tok
        /\ client[op[g].c].tok \in Token
  <2> SUFFICES ASSUME NEW g \in Getter, op'[g].pc \in Served
               PROVE  /\ client'[op'[g].c].key = client[op[g].c].key
                      /\ client'[op'[g].c].tok = client[op[g].c].tok
                      /\ client[op[g].c].tok \in Token
    OBVIOUS
  <2>1. op'[g].c = op[g].c /\ op[g].c \in Client /\ client'[op[g].c].st # "free"
    BY Zenon, <1>3
  <2>2. /\ client[op[g].c].st # "free" /\ client'[op[g].c].key = client[op[g].c].key
        /\ client'[op[g].c].tok = client[op[g].c].tok
    BY Zenon, <2>1 DEF ClientsKept
  <2>3. client[op[g].c].tok \in Token
    BY Zenon, <1>1, <2>1, <2>2 DEF Held
  <2> QED
    BY Zenon, <2>1, <2>2, <2>3
<1>5. \A g \in Getter : op'[g].pc \in Served => client'[op'[g].c].key[1] = op'[g].key[1]
  BY Zenon, <1>3, <1>4 DEF SpecInv
<1>6. \A g \in Getter : /\ op'[g].pc = "login" => op'[g].nkey[1] = op'[g].key[1]
                        /\ op'[g].pc # "restore"
  BY DEF SpecInv, CallersKept
<1>7. \A a \in Auth : pruned'[a] <= auth'[a].spec
  <2>1. \A a \in Auth : /\ pruned[a] \in Int /\ auth[a].spec \in Int /\ auth'[a].spec \in Int
                        /\ pruned[a] <= auth[a].spec
    <3>1. SpecV \subseteq Int
      BY DEF SpecV
    <3> QED
      BY Zenon, <1>1, <3>1, Versions DEF SpecInv, TypeOK, AuthRec
  <2> QED
    BY <2>1
<1>8. ASSUME NEW k \in Key, cache'[k] # None
      PROVE  token'[client'[cache'[k]].tok].spec >= pruned'[k[1]]
  <2>1. /\ cache'[k] = cache[k] /\ cache[k] \in Client /\ client'[cache'[k]].st = "open"
        /\ client[cache[k]].tok \in Token
    BY <1>1, <1>8 DEF CachedOpen, Cached, TypeOK
  <2>2. client'[cache'[k]].tok = client[cache[k]].tok
    BY Zenon, <2>1 DEF ClientsKept
  <2>3. token[client[cache[k]].tok].spec >= pruned[k[1]]
    BY Zenon, <1>8, <2>1 DEF SpecInv, PrunedSpecNotServed, Cached
  <2> QED
    BY Zenon, <2>1, <2>2, <2>3 DEF ClientsKept
<1>9. \A g \in Getter : op'[g].pc = "login" => op'[g].nspec >= pruned'[op'[g].key[1]]
  BY Zenon DEF SpecInv, PrunedSpecNotServed, CallersKept
<1>10. \A g \in Getter : op'[g].pc \in Served =>
         token'[client'[op'[g].c].tok].spec >= pruned'[op'[g].key[1]]
  <2> SUFFICES ASSUME NEW g \in Getter, op'[g].pc \in Served
               PROVE  token'[client'[op'[g].c].tok].spec >= pruned'[op'[g].key[1]]
    OBVIOUS
  <2>1. token[client[op[g].c].tok].spec >= pruned[op[g].key[1]]
    BY Zenon, <1>3 DEF SpecInv, PrunedSpecNotServed, Served
  <2>2. token'[client'[op'[g].c].tok].spec = token[client[op[g].c].tok].spec
    BY Zenon, <1>4 DEF ClientsKept
  <2>3. pruned'[op'[g].key[1]] = pruned[op[g].key[1]]
    BY Zenon, <1>3
  <2> QED
    BY Zenon, <2>1, <2>2, <2>3
<1>11. PrunedSpecNotServed'
  BY Zenon, <1>8, <1>9, <1>10 DEF PrunedSpecNotServed, Cached, Served
<1> QED
  BY Zenon, <1>2, <1>5, <1>6, <1>7, <1>11 DEF SpecInv

\* A caller that moves on with the client it has, or without one, is kept.
LEMMA MoveKept ==
  ASSUME CacheInv, SpecInv, NEW g \in Getter, NEW rec, op' = [op EXCEPT ![g] = rec],
         rec.pc \notin {"login", "restore"},
         rec.pc \in Served => op[g].pc \in Served /\ rec.c = op[g].c /\ rec.key = op[g].key
  PROVE  CallersKept
BY Zenon DEF CallersKept, CacheInv, TypeOK, SpecInv

\* The same for a change of the caller's pc only.
LEMMA PcMoveKept ==
  ASSUME CacheInv, SpecInv, NEW g \in Getter, NEW pc \in {"untaint", "send", "add", "ns", "store", "read"},
         op' = [op EXCEPT ![g].pc = pc], op[g].pc \in Served
  PROVE  CallersKept
<1> DEFINE rec == [op[g] EXCEPT !.pc = pc]
<1>1. rec.pc = pc /\ rec.c = op[g].c /\ rec.key = op[g].key
  BY Zenon DEF CacheInv, TypeOK, OpRec
<1>2. op' = [op EXCEPT ![g] = rec]
  BY Zenon DEF CacheInv, TypeOK
<1> HIDE DEF rec
<1> QED
  BY Zenon, <1>1, <1>2, MoveKept

\* A removal from the cache creates no client and caches none.
LEMMA RemoveKept ==
  ASSUME CacheInv, NEW K \in SUBSET Key, NEW r \in BOOLEAN, Remove(K, r)
  PROVE  ClientsKept /\ \A k \in Key : cache'[k] # None => cache'[k] = cache[k] /\ k \notin K
<1>1. TypeOK /\ CachedOpen
  BY Zenon DEF CacheInv
<1>2. /\ \A c \in Client : /\ client'[c].key = client[c].key /\ client'[c].tok = client[c].tok
                           /\ client'[c].st = "free" <=> client[c].st = "free"
      /\ \A k \in Key : cache'[k] # None => cache'[k] = cache[k] /\ k \notin K
      /\ \A t \in Token : token'[t].spec = token[t].spec
                          /\ (token'[t].st = "free" <=> token[t].st = "free")
  BY ZenonT(40), <1>1, RemoveEffect
<1> QED
  BY Zenon, <1>2 DEF ClientsKept

\* The steps of a caller that create, cache and look up nothing keep the invariant.
LEMMA SpecCallerKeeps ==
  ASSUME CacheInv, CacheInv', SpecInv, NEW g \in Getter,
         \/ \E a \in Auth, n \in NS : GetBegin(g, a, n)
         \/ GetValid(g) \/ GetUntaint(g) \/ GetInvalid(g) \/ GetFailed(g) \/ GetUncache(g)
         \/ GetStore(g) \/ GetRoot(g) \/ GetCloneHit(g) \/ UseClient(g) \/ RecvFromGet(g)
  PROVE  SpecInv'
<1>1. UNCHANGED <<auth, pruned>>
  BY Zenon DEF GetBegin, GetValid, GetUntaint, GetInvalid, GetFailed, GetUncache, GetStore, GetRoot,
         GetCloneHit, UseClient, RecvFromGet, Elsewhere, authVars
<1>2. \A a \in Auth : auth[a].spec <= auth'[a].spec
  BY <1>1, Versions DEF CacheInv
<1>3. CallersKept
  <2>1. CASE \E a \in Auth, n \in NS : GetBegin(g, a, n)
    <3>1. PICK a \in Auth, n \in NS : GetBegin(g, a, n)
      BY Zenon, <2>1
    <3> DEFINE rec == [IdleOp EXCEPT !.pc = "lock", !.key = <<a, auth[a].gen>>, !.ns = n]
    <3>2. rec.pc = "lock"
      BY Zenon DEF IdleOp
    <3>3. op' = [op EXCEPT ![g] = rec]
      BY Zenon, <3>1 DEF GetBegin
    <3> HIDE DEF rec
    <3> QED
      BY Zenon, <3>2, <3>3, MoveKept DEF Served, InLock
  <2>2. CASE GetFailed(g) \/ UseClient(g)
    <3>1. IdleOp.pc = "idle"
      BY Zenon DEF IdleOp
    <3> QED
      BY <2>2, <3>1, MoveKept, ServedHolds DEF GetFailed, UseClient
  <2>3. CASE GetRoot(g) \/ GetCloneHit(g)
    <3>1. PICK c : op' = [op EXCEPT ![g] = [IdleOp EXCEPT !.pc = "have", !.c = c]]
      BY Zenon, <2>3 DEF GetRoot, GetCloneHit, Return
    <3> DEFINE rec == [IdleOp EXCEPT !.pc = "have", !.c = c]
    <3>2. rec.pc = "have"
      BY Zenon DEF IdleOp
    <3>3. op' = [op EXCEPT ![g] = rec]
      BY Zenon, <3>1
    <3> HIDE DEF rec
    <3> QED
      BY Zenon, <3>2, <3>3, MoveKept, ServedHolds
  <2>4. CASE \/ GetValid(g) \/ GetUntaint(g) \/ GetInvalid(g) \/ GetUncache(g) \/ GetStore(g)
             \/ RecvFromGet(g)
    <3>1. PICK pc \in {"untaint", "send", "add", "ns", "store", "read"} :
            op' = [op EXCEPT ![g].pc = pc]
      BY Zenon, <2>4 DEF GetValid, GetUntaint, GetInvalid, GetUncache, GetStore, RecvFromGet
    <3>2. op[g].pc \in Served
      BY Zenon, <2>4
         DEF GetValid, GetUntaint, GetInvalid, GetUncache, GetStore, RecvFromGet, Served, InLock
    <3> QED
      BY ZenonT(40), <3>1, <3>2, PcMoveKept
  <2> QED
    BY Zenon, <2>1, <2>2, <2>3, <2>4
<1>4. ClientsKept /\ \A k \in Key : cache'[k] # None => cache'[k] = cache[k]
  <2>1. CASE GetInvalid(g) \/ GetUncache(g)
    <3>1. op[g].c \in Client /\ client[op[g].c].key \in Key /\ op[g].key \in Key
      BY Zenon, <2>1 DEF CacheInv, GetInvalid, GetUncache, Held, Holding, TypeOK, OpRec, ClientRec
    <3>2. PICK K \in SUBSET Key, r \in BOOLEAN : Remove(K, r)
      BY ZenonT(40), <2>1, <3>1 DEF GetInvalid, GetUncache, revokeOnEvict
    <3> QED
      BY Zenon, <3>2, RemoveKept
  <2>2. CASE GetUntaint(g) \/ UseClient(g)
    <3>1. UNCHANGED <<token, cache>>
      BY Zenon, <2>2 DEF GetUntaint, UseClient, UnchangedCache
    <3>2. \A c \in Client : /\ client'[c].st = client[c].st /\ client'[c].key = client[c].key
                            /\ client'[c].tok = client[c].tok
      <4>1. op[g].c \in Client /\ client \in [Client -> ClientRec]
        BY Zenon, <2>2 DEF CacheInv, TypeOK, Held, Holding, GetUntaint, UseClient
      <4>2. \E b : client' = [client EXCEPT ![op[g].c].taint = b]
        BY Zenon, <2>2 DEF GetUntaint, UseClient
      <4> QED
        BY <4>1, <4>2 DEF ClientRec
    <3> QED
      BY Zenon, <3>1, <3>2 DEF ClientsKept
  <2>3. CASE \/ \E a \in Auth, n \in NS : GetBegin(g, a, n)
             \/ GetValid(g) \/ GetFailed(g) \/ GetStore(g) \/ GetRoot(g) \/ GetCloneHit(g)
             \/ RecvFromGet(g)
    <3>1. UNCHANGED <<client, token, cache>>
      BY Zenon, <2>3 DEF GetBegin, GetValid, GetFailed, GetStore, GetRoot, GetCloneHit, RecvFromGet,
                  UnchangedCache
    <3> QED
      BY Zenon, <3>1 DEF ClientsKept
  <2> QED
    BY Zenon, <2>1, <2>2, <2>3
<1> QED
  BY Zenon, <1>1, <1>2, <1>3, <1>4, SpecFrame

\* The callback handler and the environment keep the invariant.
LEMMA SpecRestKeeps ==
  ASSUME CacheInv, CacheInv', SpecInv,
         \/ HandlerStep
         \/ \E k \in Key : RecvFromPrune(k)
         \/ \E c \in Client : RecvFromWatcher(c)
         \/ Environment
  PROVE  SpecInv'
<1>inv. TypeOK
  BY Zenon DEF CacheInv
<1>1. CASE HandlerRemove \/ \E mode \in ShutDowns : ShutDown(mode)
  <2>1. PICK K \in SUBSET Key, r \in BOOLEAN : Remove(K, r)
    BY Zenon, <1>inv, <1>1 DEF HandlerRemove, ShutDown, revokeOnEvict, TypeOK, HandlerRec
  <2>2. UNCHANGED <<auth, pruned, op>>
    BY Zenon, <1>1 DEF HandlerRemove, ShutDown, authVars
  <2>3. CallersKept
    BY Zenon, <2>2 DEF CallersKept, SpecInv
  <2>4. \A a \in Auth : auth[a].spec <= auth'[a].spec
    BY <1>inv, <2>2, Versions
  <2> QED
    BY Zenon, <2>1, <2>2, <2>3, <2>4, RemoveKept, SpecFrame
<1>2. CASE \/ HandlerPruneStorage \/ HandlerCall
           \/ \E k \in Key : RecvFromPrune(k)
           \/ \E c \in Client : RecvFromWatcher(c) \/ WatcherDone(c)
           \/ \E t \in Token : TokenRevoked(t) \/ TokenLapsed(t)
           \/ \E a \in Auth : AuthDeleted(a) \/ \E newGen \in BOOLEAN : SpecChanged(a, newGen)
  <2>1. UNCHANGED <<op, cache, pruned>>
    BY Zenon, <1>2
       DEF HandlerPruneStorage, HandlerCall, RecvFromPrune, RecvFromWatcher, WatcherDone,
                TokenRevoked, TokenLapsed, AuthDeleted, SpecChanged, RestOfPrune, UnchangedCache,
                authVars
  <2>2. CallersKept
    BY Zenon, <2>1 DEF CallersKept, SpecInv
  <2>3. \A c \in Client : /\ client'[c].st = client[c].st /\ client'[c].key = client[c].key
                          /\ client'[c].tok = client[c].tok
    <3>1. ASSUME NEW d \in Client, RecvFromWatcher(d) \/ WatcherDone(d)
          PROVE  \A c \in Client : /\ client'[c].st = client[c].st /\ client'[c].key = client[c].key
                                   /\ client'[c].tok = client[c].tok
      <4>1. PICK w \in {"none", "sending"} : client' = [client EXCEPT ![d].watch = w]
        BY Zenon, <3>1 DEF RecvFromWatcher, WatcherDone
      <4> QED
        BY <1>inv, <4>1 DEF TypeOK, ClientRec
    <3>2. CASE client' = client
      BY Zenon, <3>2
    <3> QED
      BY Zenon, <1>2, <3>1, <3>2 DEF HandlerPruneStorage, HandlerCall, RecvFromPrune, TokenRevoked,
           TokenLapsed, AuthDeleted, SpecChanged, RestOfPrune
  <2>4. \A t \in Token : token'[t].spec = token[t].spec
                         /\ (token[t].st # "free" => token'[t].st # "free")
    <3>1. CASE \E t \in Token : TokenRevoked(t) \/ TokenLapsed(t)
      BY <1>inv, <3>1 DEF TokenRevoked, TokenLapsed, TypeOK, TokenRec
    <3>2. CASE token' = token
      BY Zenon, <3>2
    <3> QED
      BY Zenon, <1>2, <3>1, <3>2
         DEF HandlerPruneStorage, HandlerCall, RecvFromPrune, RecvFromWatcher,
           WatcherDone, AuthDeleted, SpecChanged, RestOfPrune, UnchangedCache
  <2>5. \A a \in Auth : auth[a].spec <= auth'[a].spec
    <3>0. \A a \in Auth : auth[a].spec \in Int
      BY Zenon, <1>inv, Versions
    <3>1. CASE \E a \in Auth : AuthDeleted(a) \/ \E newGen \in BOOLEAN : SpecChanged(a, newGen)
      <4>1. PICK a \in Auth : AuthDeleted(a) \/ \E newGen \in BOOLEAN : SpecChanged(a, newGen)
        BY Zenon, <3>1
      <4>2. /\ \A b \in Auth \ {a} : auth'[b] = auth[b]
            /\ auth'[a].spec \in {auth[a].spec, auth[a].spec + 1}
        BY <1>inv, <4>1 DEF AuthDeleted, SpecChanged, TypeOK, AuthRec
      <4> QED
        BY <3>0, <4>2
    <3>2. CASE auth' = auth
      BY <3>0, <3>2
    <3> QED
      BY Zenon, <1>2, <3>1, <3>2
         DEF HandlerPruneStorage, HandlerCall, RecvFromPrune, RecvFromWatcher,
           WatcherDone, TokenRevoked, TokenLapsed, authVars
  <2>6. ClientsKept
    BY Zenon, <2>3, <2>4 DEF ClientsKept
  <2> QED
    BY Zenon, <2>1, <2>2, <2>5, <2>6, SpecFrame
<1>3. CASE Restart
  <2>1. UNCHANGED <<auth, pruned, token>> /\ \A k \in Key : cache'[k] = None
    BY ZenonT(40), <1>3 DEF Restart
  <2>2. CallersKept
    BY Zenon, <1>3, ServedHolds DEF Restart, CallersKept, IdleOp
  <2>3. ClientsKept
    <3>1. \A c \in Client : client'[c].st # "free" => client[c].st # "free" /\
            client'[c] = [client[c] EXCEPT !.st = "closed", !.watch = "none"]
      BY ZenonT(40), <1>3 DEF Restart
    <3>2. \A c \in Client : client'[c].st # "free" =>
            /\ client[c].st # "free"
            /\ client'[c].key = client[c].key /\ client'[c].tok = client[c].tok
      <4>1. \A c \in Client : client[c] \in ClientRec
        BY Zenon, <1>inv DEF TypeOK
      <4> QED
        BY ZenonT(40), <3>1, <4>1 DEF ClientRec
    <3> QED
      BY Zenon, <2>1, <3>2 DEF ClientsKept
  <2>4. \A a \in Auth : auth[a].spec <= auth'[a].spec
    BY <1>inv, <2>1, Versions
  <2> QED
    BY Zenon, <2>1, <2>2, <2>3, <2>4, SpecFrame
<1> QED
  BY Zenon, <1>1, <1>2, <1>3 DEF HandlerStep, Environment

\* The controller's steps keep the invariant.  Its prune runs under the write lock, when no
\* caller is between the locks, and removes every client of the VaultAuth.
LEMMA SpecControllerKeeps ==
  ASSUME CacheInv, CacheInv', SpecInv, ControllerStep
  PROVE  SpecInv'
<1>inv. TypeOK /\ HashBound /\ CachedOpen /\ CachedOpen' /\ Held
  BY Zenon DEF CacheInv
<1>1. CASE PruneCache
  <2>1. PICK K \in SUBSET Key, r \in BOOLEAN : Remove(K, r) /\ K = PruneFilter
    BY Zenon, <1>1 DEF PruneCache, PruneFilter, Cached, revokeOnEvict
  <2>2. UNCHANGED <<auth, op>> /\ \A g \in Getter : op[g].pc \notin InLock
    BY Zenon, <1>1 DEF PruneCache
  <2>3. CASE ~pr.all
    <3>1. UNCHANGED pruned
      BY Zenon, <1>1, <2>3 DEF PruneCache
    <3>2. CallersKept
      BY Zenon, <2>2 DEF CallersKept, SpecInv
    <3>3. \A a \in Auth : auth[a].spec <= auth'[a].spec
      BY <1>inv, <2>2, Versions
    <3> QED
      BY Zenon, <2>1, <2>2, <3>1, <3>2, <3>3, RemoveKept, SpecFrame
  <2>4. CASE pr.all
    <3>1. /\ ClientsKept
          /\ \A k \in Key : cache'[k] # None => cache'[k] = cache[k] /\ k \notin K
      BY Zenon, <2>1, RemoveKept
    <3>2. pruned' = [pruned EXCEPT ![pr.a] = pr.hash] /\ pr.a \in Auth
      BY Zenon, <1>inv, <1>1, <2>4 DEF PruneCache, TypeOK, PruneRec
    <3>3. \A a \in Auth : pruned'[a] <= auth'[a].spec
      <4>1. pruned \in [Auth -> SpecV \cup {Spec0}] /\ pr.hash <= auth[pr.a].spec
        BY Zenon, <1>inv, <1>1 DEF PruneCache, HashBound, TypeOK
      <4>2. \A a \in Auth : pruned[a] <= auth[a].spec
        BY Zenon DEF SpecInv
      <4> QED
        BY Zenon, <2>2, <3>2, <4>1, <4>2
    <3>4. ASSUME NEW k \in Key, cache'[k] # None
          PROVE  token'[client'[cache'[k]].tok].spec >= pruned'[k[1]]
      <4>1. k[1] # pr.a /\ cache'[k] = cache[k] /\ cache[k] \in Client /\ k \in Cached
        BY Zenon, <1>inv, <2>1, <2>4, <3>1, <3>4 DEF PruneFilter, Cached, TypeOK
      <4>2. client'[cache'[k]].tok = client[cache[k]].tok /\ client[cache[k]].tok \in Token
        <5>1. client'[cache'[k]].st = "open" /\ client[cache[k]].tok \in Token
          BY Zenon, <1>inv, <3>4, <4>1 DEF CachedOpen, Cached
        <5> QED
          BY Zenon, <3>1, <4>1, <5>1 DEF ClientsKept
      <4>3. pruned'[k[1]] = pruned[k[1]]
        BY Zenon, <1>inv, <3>2, <4>1 DEF TypeOK, Key
      <4>4. token'[client'[cache'[k]].tok].spec = token[client[cache[k]].tok].spec
        BY Zenon, <3>1, <4>2 DEF ClientsKept
      <4>5. token[client[cache[k]].tok].spec >= pruned[k[1]]
        BY Zenon, <4>1 DEF SpecInv, PrunedSpecNotServed
      <4> QED
        BY Zenon, <4>3, <4>4, <4>5
    <3>5. \A g \in Getter : op'[g].pc \notin InLock
      BY Zenon, <2>2
    <3>6. \A c \in Client : client'[c].st # "free" => token'[client'[c].tok].st # "free"
      BY Zenon, <1>inv, <3>1 DEF ClientsKept, SpecInv, Held
    <3>7. PrunedSpecNotServed'
      BY Zenon, <3>4, <3>5 DEF PrunedSpecNotServed, Cached, InLock
    <3> QED
      BY Zenon, <3>3, <3>5, <3>6, <3>7 DEF SpecInv, Served, InLock
  <2> QED
    BY Zenon, <1>inv, <2>3, <2>4 DEF TypeOK, PruneRec
<1>2. CASE ~PruneCache
  <2>1. UNCHANGED <<client, token, cache, op, pruned>>
    BY ZenonT(40), <1>2
       DEF ControllerStep, AuthReconcile, AuthFinalize, AuthNotFound, AuthReconcileError,
                PruneSent, PruneUnstore, AuthStatus, AuthFinalized, AuthWriteFailed, RestOfPrune,
                authVars
  <2>2. \A a \in Auth : auth'[a].spec = auth[a].spec
    <3>1. CASE auth' = auth
      BY Zenon, <3>1
    <3>2. CASE AuthFinalized \/ \E added \in BOOLEAN : AuthStatus(added)
      <4>1. auth \in [Auth -> AuthRec] /\ pr.a \in Auth
        BY Zenon, <1>inv DEF TypeOK, PruneRec
      <4>2. CASE AuthFinalized
        BY Zenon, <4>1, <4>2 DEF AuthFinalized, AuthRec
      <4>3. ASSUME NEW added \in BOOLEAN, AuthStatus(added)
            PROVE  \A a \in Auth : auth'[a].spec = auth[a].spec
        <5> DEFINE rec == [auth[pr.a] EXCEPT !.hash = pr.hash, !.fin = @ \/ added]
        <5>1. auth' = [auth EXCEPT ![pr.a] = rec]
          BY Zenon, <4>1, <4>3 DEF AuthStatus
        <5>2. rec.spec = auth[pr.a].spec
          BY ZenonT(40), <4>1 DEF AuthRec
        <5> HIDE DEF rec
        <5> QED
          BY Zenon, <4>1, <5>1, <5>2
      <4> QED
        BY Zenon, <3>2, <4>2, <4>3
    <3> QED
      BY Zenon, <1>2, <3>1, <3>2 DEF ControllerStep, AuthReconcile, AuthFinalize, AuthNotFound,
           AuthReconcileError, PruneSent, PruneUnstore, AuthWriteFailed, authVars
  <2>3. CallersKept /\ ClientsKept
    BY Zenon, <2>1 DEF CallersKept, ClientsKept, SpecInv
  <2>4. \A a \in Auth : auth[a].spec <= auth'[a].spec
    BY <1>inv, <2>2, Versions
  <2> QED
    BY Zenon, <2>1, <2>3, <2>4, SpecFrame
<1> QED
  BY Zenon, <1>1, <1>2

\* Looking a client up, logging in, cloning and caching keep the invariant: a caller reads the
\* VaultAuth when it already holds the read lock, so no prune comes before it is cached.
LEMMA SpecLockKeeps ==
  ASSUME CacheInv, CacheInv', SpecInv, NEW g \in Getter, ~Persist, GetLock(g)
  PROVE  SpecInv'
<1> USE ConstAssumption
<1>inv. TypeOK /\ CachedOpen
  BY Zenon DEF CacheInv
<1>1. PICK k \in Key : k = op[g].key
  BY Zenon, <1>inv DEF TypeOK, OpRec
<1> DEFINE rec == [op[g] EXCEPT !.c = cache[k], !.pc = IF cache[k] # None THEN "validate" ELSE "read"]
<1>2. op' = [op EXCEPT ![g] = rec]
  BY ZenonT(40), <1>inv, <1>1 DEF GetLock, TypeOK
<1>3. rec.pc = (IF cache[k] # None THEN "validate" ELSE "read") /\ rec.c = cache[k] /\ rec.key = k
  BY <1>inv, <1>1 DEF TypeOK, OpRec
<1> HIDE DEF rec
<1>4. op'[g] = rec /\ \A h \in Getter \ {g} : op'[h] = op[h]
  BY Zenon, <1>inv, <1>2 DEF TypeOK
<1>5. UNCHANGED <<auth, pruned, client, token, cache>>
  BY Zenon DEF GetLock, UnchangedCache, Elsewhere, authVars
<1>6. cache[k] # None => /\ client[cache[k]].key = k
                         /\ token[client[cache[k]].tok].spec >= pruned[k[1]]
  BY Zenon, <1>inv DEF CachedOpen, Cached, SpecInv, PrunedSpecNotServed
<1>7. \A h \in Getter : op'[h].pc \in Served =>
        /\ client'[op'[h].c].key[1] = op'[h].key[1]
        /\ token'[client'[op'[h].c].tok].spec >= pruned'[op'[h].key[1]]
  <2>1. \A h \in Getter : op[h].pc \in Served =>
          /\ client[op[h].c].key[1] = op[h].key[1]
          /\ token[client[op[h].c].tok].spec >= pruned[op[h].key[1]]
    BY Zenon DEF SpecInv, PrunedSpecNotServed, Served
  <2>2. op'[g].pc \in Served => cache[k] # None
    BY Zenon, <1>3, <1>4 DEF Served
  <2> QED
    BY <1>3, <1>4, <1>5, <1>6, <2>1, <2>2
<1>8. \A h \in Getter : /\ op'[h].pc = "login" => op'[h] = op[h]
                        /\ op'[h].pc # "restore"
  BY Zenon, <1>3, <1>4 DEF SpecInv
<1>9. PrunedSpecNotServed'
  BY ZenonT(40), <1>5, <1>7, <1>8 DEF SpecInv, PrunedSpecNotServed, Cached, Served
<1> QED
  BY ZenonT(40), <1>5, <1>7, <1>8, <1>9 DEF SpecInv

\* Reading the VaultAuth under the locks records a spec that no later prune precedes.
LEMMA SpecReadKeeps ==
  ASSUME CacheInv, CacheInv', SpecInv, NEW g \in Getter, GetRead(g)
  PROVE  SpecInv'
<1>inv. TypeOK
  BY Zenon DEF CacheInv
<1>1. PICK a \in Auth : a = op[g].key[1]
  BY Zenon, <1>inv DEF TypeOK, OpRec, Key
<1> DEFINE rec == [op[g] EXCEPT !.pc = "login", !.c = None, !.nkey = <<a, auth[a].gen>>,
                                !.nspec = auth[a].spec]
<1>2. op' = [op EXCEPT ![g] = rec]
  BY Zenon, <1>inv, <1>1 DEF GetRead, TypeOK
<1>3. /\ rec.pc = "login" /\ rec.nkey = <<a, auth[a].gen>> /\ rec.nspec = auth[a].spec
      /\ rec.key = op[g].key
  BY <1>inv DEF TypeOK, OpRec
<1> HIDE DEF rec
<1>4. op'[g] = rec /\ \A h \in Getter \ {g} : op'[h] = op[h]
  BY Zenon, <1>inv, <1>2 DEF TypeOK
<1>5. UNCHANGED <<auth, pruned, client, token, cache>>
  BY Zenon DEF GetRead, UnchangedCache, Elsewhere, authVars
<1>6. auth[a].spec >= pruned[a]
  BY Zenon, Versions DEF SpecInv
<1>7. \A h \in Getter : op'[h].pc = "login" =>
        op'[h].nkey[1] = op'[h].key[1] /\ op'[h].nspec >= pruned'[op'[h].key[1]]
  <2>1. \A h \in Getter : op[h].pc = "login" =>
          op[h].nkey[1] = op[h].key[1] /\ op[h].nspec >= pruned[op[h].key[1]]
    BY Zenon DEF SpecInv, PrunedSpecNotServed
  <2>2. rec.nkey[1] = a /\ pruned' = pruned
    BY <1>3, <1>5
  <2> QED
    BY <1>1, <1>3, <1>4, <1>6, <2>1, <2>2
<1>8. \A h \in Getter : /\ op'[h].pc \in Served => op'[h] = op[h]
                        /\ op'[h].pc # "restore"
  BY Zenon, <1>3, <1>4 DEF SpecInv, Served
<1>9. PrunedSpecNotServed'
  BY ZenonT(40), <1>5, <1>7, <1>8 DEF SpecInv, PrunedSpecNotServed, Cached, Served
<1> QED
  BY ZenonT(40), <1>5, <1>7, <1>8, <1>9 DEF SpecInv

\* Cloning a cached root gives a client with the root's token, hence with its spec.
LEMMA SpecCloneKeeps ==
  ASSUME CacheInv, CacheInv', SpecInv, NEW g \in Getter, NEW d \in Client, GetClone(g, d)
  PROVE  SpecInv'
<1> USE ServedHolds
<1>inv. TypeOK /\ CachedOpen /\ Held
  BY Zenon DEF CacheInv
<1>1. PICK c \in Client : c = op[g].c /\ client[c].st # "free" /\ client[c].tok \in Token
  BY Zenon, <1>inv DEF GetClone, Held, Holding
<1>2. /\ \A e \in Client \ {d} : client'[e] = client[e]
      /\ client'[d].tok = client[c].tok /\ client[d].st = "free"
  BY Zenon, <1>inv, <1>1 DEF GetClone, TypeOK
<1> DEFINE rec == [IdleOp EXCEPT !.pc = "have", !.c = d]
<1>3. op' = [op EXCEPT ![g] = rec] /\ rec.pc = "have"
  BY Zenon DEF GetClone, Return, IdleOp
<1> HIDE DEF rec
<1>4. op'[g] = rec /\ \A h \in Getter \ {g} : op'[h] = op[h]
  BY Zenon, <1>inv, <1>3 DEF TypeOK
<1>5. UNCHANGED <<auth, pruned, token, cache>>
  BY Zenon DEF GetClone, Elsewhere, authVars
<1>6. \A e \in Client : client'[e].st # "free" => token'[client'[e].tok].st # "free"
  <2> SUFFICES ASSUME NEW e \in Client, client'[e].st # "free"
               PROVE  token[client'[e].tok].st # "free"
    BY Zenon, <1>5
  <2>1. CASE e = d
    BY Zenon, <1>1, <1>2, <2>1 DEF SpecInv
  <2>2. CASE e # d
    BY Zenon, <1>2, <2>2 DEF SpecInv
  <2> QED
    BY Zenon, <2>1, <2>2
<1>7. \A h \in Getter : op'[h].pc \in Served =>
        /\ op'[h] = op[h] /\ op[h].c \in Client /\ client'[op[h].c] = client[op[h].c]
  <2> SUFFICES ASSUME NEW h \in Getter, op'[h].pc \in Served
               PROVE  /\ op'[h] = op[h] /\ op[h].c \in Client
                      /\ client'[op[h].c] = client[op[h].c]
    OBVIOUS
  <2>1. op'[h] = op[h]
    BY Zenon, <1>3, <1>4
  <2>2. op[h].c \in Client /\ client[op[h].c].st # "free"
    BY Zenon, <1>inv, <2>1 DEF Held
  <2> QED
    BY Zenon, <1>2, <2>1, <2>2
<1>8. \A h \in Getter : /\ op'[h].pc = "login" => op'[h] = op[h]
                        /\ op'[h].pc # "restore"
  BY Zenon, <1>3, <1>4 DEF SpecInv
<1>9. ASSUME NEW k \in Key, cache[k] # None
      PROVE  client'[cache[k]] = client[cache[k]]
  <2>1. cache[k] \in Client /\ client[cache[k]].st = "open"
    BY Zenon, <1>inv, <1>9 DEF CachedOpen, Cached, TypeOK
  <2> QED
    BY Zenon, <1>2, <2>1
<1>10. PrunedSpecNotServed'
  <2>1. ASSUME NEW k \in Key, cache'[k] # None
        PROVE  token'[client'[cache'[k]].tok].spec >= pruned'[k[1]]
    <3>1. token[client[cache[k]].tok].spec >= pruned[k[1]]
      BY Zenon, <1>5, <2>1 DEF SpecInv, PrunedSpecNotServed, Cached
    <3>2. client'[cache[k]] = client[cache[k]]
      BY Zenon, <1>5, <1>9, <2>1
    <3> QED
      BY Zenon, <1>5, <3>1, <3>2
  <2>2. ASSUME NEW h \in Getter, op'[h].pc = "login"
        PROVE  op'[h].nspec >= pruned'[op'[h].key[1]]
    <3>1. op'[h] = op[h]
      BY Zenon, <1>8, <2>2
    <3>2. op[h].nspec >= pruned[op[h].key[1]]
      BY Zenon, <2>2, <3>1 DEF SpecInv, PrunedSpecNotServed
    <3> QED
      BY Zenon, <1>5, <3>1, <3>2
  <2>3. ASSUME NEW h \in Getter, op'[h].pc \in Served
        PROVE  token'[client'[op'[h].c].tok].spec >= pruned'[op'[h].key[1]]
    <3>1. op'[h] = op[h] /\ client'[op[h].c] = client[op[h].c]
      BY Zenon, <1>7, <2>3
    <3>2. token[client[op[h].c].tok].spec >= pruned[op[h].key[1]]
      BY Zenon, <2>3, <3>1 DEF SpecInv, PrunedSpecNotServed, Served
    <3> QED
      BY Zenon, <1>5, <3>1, <3>2
  <2> QED
    BY Zenon, <2>1, <2>2, <2>3 DEF PrunedSpecNotServed, Cached, Served
<1>11. ASSUME NEW h \in Getter, op'[h].pc \in Served
       PROVE  client'[op'[h].c].key[1] = op'[h].key[1]
  <2>1. op'[h] = op[h] /\ client'[op[h].c] = client[op[h].c]
    BY Zenon, <1>7, <1>11
  <2>2. client[op[h].c].key[1] = op[h].key[1]
    BY Zenon, <1>11, <2>1 DEF SpecInv
  <2> QED
    BY Zenon, <2>1, <2>2
<1>12. ASSUME NEW h \in Getter
       PROVE  /\ op'[h].pc = "login" => op'[h].nkey[1] = op'[h].key[1]
              /\ op'[h].pc # "restore"
  BY Zenon, <1>8 DEF SpecInv
<1>13. \A a \in Auth : pruned'[a] <= auth'[a].spec
  BY Zenon, <1>5 DEF SpecInv
<1> QED
  BY Zenon, <1>6, <1>10, <1>11, <1>12, <1>13 DEF SpecInv

\* Logging in creates a client of the spec that the caller read under the locks.
LEMMA SpecLoginKeeps ==
  ASSUME CacheInv, CacheInv', SpecInv, NEW g \in Getter, NEW d \in Client, NEW t \in Token,
         NEW r \in Renewables, GetLogin(g, d, t, r)
  PROVE  SpecInv'
<1> USE ServedHolds
<1>inv. TypeOK /\ CachedOpen /\ Held
  BY Zenon DEF CacheInv
<1>1. op[g] \in OpRec /\ op[g].pc = "login" /\ client[d].st = "free" /\ token[t].st = "free"
  BY Zenon, <1>inv DEF GetLogin, TypeOK
<1>2. /\ \A e \in Client \ {d} : client'[e] = client[e]
      /\ client'[d].tok = t /\ client'[d].key = op[g].nkey
  BY Zenon, <1>inv DEF GetLogin, LoggedIn, TypeOK
<1>3. /\ \A u \in Token \ {t} : token'[u] = token[u]
      /\ token'[t].spec = op[g].nspec /\ token'[t].st = "live"
  BY Zenon, <1>inv DEF GetLogin, TypeOK
<1> DEFINE rec == [IdleOp EXCEPT !.pc = "uncache", !.key = op[g].key, !.ns = op[g].ns,
                                 !.c = d, !.fresh = TRUE]
<1>4. op' = [op EXCEPT ![g] = rec]
  BY Zenon DEF GetLogin
<1>5. rec.pc = "uncache" /\ rec.key = op[g].key /\ rec.c = d
  BY Zenon DEF IdleOp
<1> HIDE DEF rec
<1>6. op'[g] = rec /\ \A h \in Getter \ {g} : op'[h] = op[h]
  BY Zenon, <1>inv, <1>4 DEF TypeOK
<1>7. UNCHANGED <<auth, pruned, cache>>
  BY Zenon DEF GetLogin, Elsewhere, authVars
<1>8. \A e \in Client \ {d} : client[e].st # "free" =>
        client[e].tok \in Token \ {t} /\ token'[client'[e].tok] = token[client[e].tok]
  BY ZenonT(40), <1>inv, <1>1, <1>2, <1>3 DEF SpecInv, Held
<1>9. \A e \in Client : client'[e].st # "free" => token'[client'[e].tok].st # "free"
  <2>1. token'[client'[d].tok].st # "free"
    BY Zenon, <1>2, <1>3
  <2> QED
    <3> SUFFICES ASSUME NEW e \in Client \ {d}, client'[e].st # "free"
                 PROVE  token'[client'[e].tok].st # "free"
      BY Zenon, <2>1
    <3>1. client[e].st # "free"
      BY Zenon, <1>2
    <3>2. token'[client'[e].tok] = token[client[e].tok]
      BY Zenon, <1>8, <3>1
    <3> QED
      BY Zenon, <3>1, <3>2 DEF SpecInv
<1>10. \A h \in Getter : h # g /\ op'[h].pc \in Served =>
         /\ op'[h] = op[h] /\ op[h].c \in Client \ {d} /\ client'[op[h].c] = client[op[h].c]
         /\ client[op[h].c].st # "free"
  BY ZenonT(40), <1>inv, <1>1, <1>2, <1>6 DEF Held
<1>11. \A h \in Getter : op'[h].pc \in Served =>
         /\ client'[op'[h].c].key[1] = op'[h].key[1]
         /\ token'[client'[op'[h].c].tok].spec >= pruned'[op'[h].key[1]]
  <2>1. \A h \in Getter : h # g /\ op'[h].pc \in Served =>
          /\ client'[op'[h].c].key[1] = op'[h].key[1]
          /\ token'[client'[op'[h].c].tok].spec >= pruned'[op'[h].key[1]]
    <3>1. \A h \in Getter : op[h].pc \in Served =>
            /\ client[op[h].c].key[1] = op[h].key[1]
            /\ token[client[op[h].c].tok].spec >= pruned[op[h].key[1]]
      BY Zenon DEF SpecInv, PrunedSpecNotServed, Served
    <3>2. pruned' = pruned
      BY Zenon, <1>7
    <3> SUFFICES ASSUME NEW h \in Getter, h # g, op'[h].pc \in Served
                 PROVE  /\ client'[op'[h].c].key[1] = op'[h].key[1]
                        /\ token'[client'[op'[h].c].tok].spec >= pruned'[op'[h].key[1]]
      OBVIOUS
    <3>3. /\ op'[h] = op[h] /\ op[h].c \in Client \ {d} /\ client'[op[h].c] = client[op[h].c]
          /\ client[op[h].c].st # "free"
      BY Zenon, <1>10
    <3>4. token'[client'[op[h].c].tok] = token[client[op[h].c].tok]
      BY Zenon, <1>8, <3>3
    <3> QED
      BY Zenon, <3>1, <3>2, <3>3, <3>4
  <2>2. /\ client'[op'[g].c].key[1] = op'[g].key[1]
        /\ token'[client'[op'[g].c].tok].spec >= pruned'[op'[g].key[1]]
    <3>1. op'[g].c = d /\ op'[g].key = op[g].key
      BY Zenon, <1>5, <1>6
    <3>2. op[g].nkey[1] = op[g].key[1] /\ op[g].nspec >= pruned[op[g].key[1]]
      BY Zenon, <1>1 DEF SpecInv, PrunedSpecNotServed
    <3>3. client'[d].key = op[g].nkey /\ token'[client'[d].tok].spec = op[g].nspec
      BY Zenon, <1>2, <1>3
    <3> QED
      BY Zenon, <1>7, <3>1, <3>2, <3>3
  <2> QED
    BY ZenonT(40), <2>1, <2>2
<1>12. \A h \in Getter : /\ op'[h].pc = "login" => op'[h] = op[h]
                         /\ op'[h].pc # "restore"
  BY Zenon, <1>5, <1>6 DEF SpecInv
<1>13. ASSUME NEW k \in Key, cache[k] # None
       PROVE  /\ client'[cache[k]] = client[cache[k]]
              /\ token'[client'[cache[k]].tok] = token[client[cache[k]].tok]
  <2>1. cache[k] \in Client /\ client[cache[k]].st = "open"
    BY Zenon, <1>inv, <1>13 DEF CachedOpen, Cached, TypeOK
  <2> QED
    BY Zenon, <1>1, <1>2, <1>8, <2>1
<1>14. PrunedSpecNotServed'
  BY ZenonT(40), <1>7, <1>11, <1>12, <1>13 DEF SpecInv, PrunedSpecNotServed, Cached, Served
<1> QED
  BY ZenonT(40), <1>7, <1>9, <1>11, <1>12, <1>14 DEF SpecInv

\* Caching the client in hand: no prune can have come since its spec was read.
LEMMA SpecAddKeeps ==
  ASSUME CacheInv, CacheInv', SpecInv, NEW g \in Getter, GetAdd(g)
  PROVE  SpecInv'
<1> USE ServedHolds, ConstAssumption
<1>inv. TypeOK /\ CachedOpen /\ Held
  BY Zenon DEF CacheInv
<1>1. PICK c \in Client : c = op[g].c
  BY Zenon, <1>inv DEF GetAdd, Held, Holding
<1>2. PICK k \in Key : k = client[c].key
  BY Zenon, <1>inv, <1>1 DEF TypeOK, ClientRec
<1>3. PICK K \in Victims(k) : /\ cache' = [CacheWithout(K) EXCEPT ![k] = c]
                              /\ Evict(K, revokeOnEvict)
  BY Zenon, <1>1, <1>2 DEF GetAdd, AddRoot
<1>4. PICK X \in SUBSET Key, r \in BOOLEAN : X = K /\ X \subseteq Cached /\ Evict(X, r)
  <2>1. K \in SUBSET Key /\ K \subseteq Cached
    BY Zenon, <1>3 DEF Victims, Cached
  <2>2. revokeOnEvict \in BOOLEAN
    BY Zenon DEF revokeOnEvict
  <2> QED
    BY Zenon, <1>3, <2>1, <2>2
<1>5. /\ \A e \in Client : /\ client'[e].key = client[e].key /\ client'[e].tok = client[e].tok
                           /\ client'[e].st = "free" <=> client[e].st = "free"
      /\ \A t \in Token : token'[t].spec = token[t].spec
                          /\ (token'[t].st = "free" <=> token[t].st = "free")
  BY Zenon, <1>inv, <1>4, EvictEffect
<1>spec. \A t \in Token : token'[t].spec = token[t].spec
  BY Zenon, <1>5
<1>6. \A j \in Key : j # k /\ cache'[j] # None => cache'[j] = cache[j]
  BY Zenon, <1>inv, <1>3 DEF CacheWithout, TypeOK
<1>7. cache'[k] = c
  BY Zenon, <1>inv, <1>3 DEF CacheWithout, TypeOK
<1> DEFINE pc == IF Persist /\ op[g].fresh THEN "store" ELSE "ns"
<1>8. op' = [op EXCEPT ![g].pc = pc] /\ pc \in {"store", "ns"} /\ op[g].pc \in Served
  BY Zenon DEF GetAdd, Served, InLock
<1> HIDE DEF pc
<1>9. CallersKept
  BY ZenonT(40), <1>8, PcMoveKept
<1>10. ClientsKept
  BY Zenon, <1>5 DEF ClientsKept
<1>11. UNCHANGED <<auth, pruned>>
  BY Zenon DEF GetAdd, Elsewhere, authVars
<1>12. \A e \in Client : client'[e].st # "free" => token'[client'[e].tok].st # "free"
  BY <1>inv, <1>10 DEF SpecInv, ClientsKept, Held
<1>13. \A h \in Getter : op'[h].pc \in Served =>
         /\ op'[h].c = op[h].c /\ op'[h].key = op[h].key /\ op[h].pc \in Served
         /\ op[h].c \in Client /\ client[op[h].c].tok \in Token
         /\ client'[op[h].c].key = client[op[h].c].key /\ client'[op[h].c].tok = client[op[h].c].tok
  BY ZenonT(40), <1>inv, <1>5, <1>9 DEF CallersKept, Held
<1>14. \A h \in Getter : op'[h].pc \in Served =>
         /\ client'[op'[h].c].key[1] = op'[h].key[1]
         /\ token'[client'[op'[h].c].tok].spec >= pruned'[op'[h].key[1]]
  <2>1. \A h \in Getter : op[h].pc \in Served =>
          /\ client[op[h].c].key[1] = op[h].key[1]
          /\ token[client[op[h].c].tok].spec >= pruned[op[h].key[1]]
    BY Zenon DEF SpecInv, PrunedSpecNotServed, Served
  <2>2. pruned' = pruned
    BY Zenon, <1>11
  <2> SUFFICES ASSUME NEW h \in Getter, op'[h].pc \in Served
               PROVE  /\ client'[op'[h].c].key[1] = op'[h].key[1]
                      /\ token'[client'[op'[h].c].tok].spec >= pruned'[op'[h].key[1]]
    OBVIOUS
  <2>3. /\ op'[h].c = op[h].c /\ op'[h].key = op[h].key /\ op[h].pc \in Served
        /\ client[op[h].c].tok \in Token
        /\ client'[op[h].c].key = client[op[h].c].key /\ client'[op[h].c].tok = client[op[h].c].tok
    BY Zenon, <1>13
  <2>4. token'[client'[op[h].c].tok].spec = token[client[op[h].c].tok].spec
    BY Zenon, <1>spec, <2>3
  <2>5. /\ client[op[h].c].key[1] = op[h].key[1]
        /\ token[client[op[h].c].tok].spec >= pruned[op[h].key[1]]
    BY Zenon, <2>1, <2>3
  <2>6. token'[client'[op'[h].c].tok].spec = token[client[op[h].c].tok].spec
    BY Zenon, <2>3, <2>4
  <2>7. pruned'[op'[h].key[1]] = pruned[op[h].key[1]]
    BY Zenon, <2>2, <2>3
  <2>8. client'[op'[h].c].key[1] = op'[h].key[1]
    BY Zenon, <2>3, <2>5
  <2> QED
    BY Zenon, <2>5, <2>6, <2>7, <2>8
<1>15. \A h \in Getter : /\ op'[h].pc = "login" => op'[h] = op[h]
                         /\ op'[h].pc # "restore"
  BY Zenon, <1>9 DEF CallersKept
<1>16. ASSUME NEW j \in Key, cache'[j] # None
       PROVE  token'[client'[cache'[j]].tok].spec >= pruned'[j[1]]
  <2>1. CASE j = k
    <3>1. token[client[c].tok].spec >= pruned[k[1]] /\ client[c].tok \in Token
      <4>1. token[client[c].tok].spec >= pruned[op[g].key[1]] /\ client[c].key[1] = op[g].key[1]
        BY Zenon, <1>1, <1>8 DEF SpecInv, PrunedSpecNotServed, Served
      <4>2. client[c].tok \in Token
        BY Zenon, <1>inv, <1>1, <1>8 DEF Held
      <4> QED
        BY Zenon, <1>2, <4>1, <4>2
    <3>2. token'[client'[cache'[j]].tok].spec = token[client[c].tok].spec
      <4>1. client'[c].tok = client[c].tok
        BY Zenon, <1>5
      <4> QED
        BY Zenon, <1>spec, <1>7, <2>1, <3>1, <4>1
    <3> QED
      BY Zenon, <1>11, <2>1, <3>1, <3>2
  <2>2. CASE j # k
    <3>1. cache'[j] = cache[j] /\ cache[j] \in Client /\ client[cache[j]].tok \in Token
      <4>1. cache'[j] = cache[j]
        BY Zenon, <1>6, <1>16, <2>2
      <4>2. cache[j] # None /\ cache[j] \in Client
        BY Zenon, <1>inv, <1>16, <4>1 DEF TypeOK
      <4> QED
        BY Zenon, <1>inv, <4>1, <4>2 DEF CachedOpen, Cached
    <3>2. token[client[cache[j]].tok].spec >= pruned[j[1]]
      BY ZenonT(40), <1>16, <3>1 DEF SpecInv, PrunedSpecNotServed, Cached
    <3>3. token'[client'[cache'[j]].tok].spec = token[client[cache[j]].tok].spec
      <4>1. client'[cache[j]].tok = client[cache[j]].tok
        BY Zenon, <1>5, <3>1
      <4> QED
        BY Zenon, <1>spec, <3>1, <4>1
    <3> QED
      BY Zenon, <1>11, <3>2, <3>3
  <2> QED
    BY Zenon, <2>1, <2>2
<1>17. PrunedSpecNotServed'
  BY ZenonT(40), <1>11, <1>14, <1>15, <1>16 DEF SpecInv, PrunedSpecNotServed, Cached, Served
<1> QED
  BY ZenonT(40), <1>11, <1>12, <1>14, <1>15, <1>17 DEF SpecInv
-----------------------------------------------------------------------------
\* The initial states satisfy the invariant.
LEMMA SpecInvInit == Init => SpecInv
<1> SUFFICES ASSUME Init PROVE SpecInv
  BY Zenon
<1> USE ConstAssumption DEF Init
<1>1. \A c \in Client : client[c].st = "free"
  BY Zenon DEF FreeClient
<1>2. \A g \in Getter : op[g].pc = "idle"
  BY Zenon DEF IdleOp
<1>3. \A a \in Auth : pruned[a] <= auth[a].spec
  BY DEF NewAuth, Spec0
<1>4. Cached = {}
  BY Zenon DEF Cached
<1> QED
  BY Zenon, <1>1, <1>2, <1>3, <1>4 DEF SpecInv, PrunedSpecNotServed, Served, InLock

\* Every step preserves it.
LEMMA SpecInvStep ==
  ASSUME ~Persist
  PROVE  CacheInv /\ SpecInv /\ [Next]_vars => SpecInv'
<1> SUFFICES ASSUME CacheInv, SpecInv, [Next]_vars PROVE SpecInv'
  BY Zenon
<1>1. CacheInv'
  BY Zenon, CacheInvStep
<1>2. ASSUME NEW g \in Getter, GetStep(g)
      PROVE  SpecInv'
  <2>1. op[g].pc # "restore"
    BY Zenon DEF SpecInv
  <2>2. CASE \E d \in Client : GetClone(g, d)
    BY Zenon, <1>1, <2>2, SpecCloneKeeps
  <2>3. CASE \E d \in Client, t \in Token, r \in Renewables : GetLogin(g, d, t, r)
    BY Zenon, <1>1, <2>3, SpecLoginKeeps
  <2> QED
    BY Zenon, <1>1, <1>2, <2>1, <2>2, <2>3, SpecCallerKeeps, SpecReadKeeps, SpecAddKeeps
       DEF GetStep, GetNotRestored, GetRestored, GetRestoreAbandoned
<1>3. ASSUME NEW g \in Getter,
             \/ \E a \in Auth, n \in NS : GetBegin(g, a, n)
             \/ GetLock(g) \/ UseClient(g) \/ RecvFromGet(g)
      PROVE  SpecInv'
  BY Zenon, <1>1, <1>3, SpecCallerKeeps, SpecLockKeeps
<1>4. CASE \/ HandlerStep
           \/ \E k \in Key : RecvFromPrune(k)
           \/ \E c \in Client : RecvFromWatcher(c)
           \/ Environment
  BY Zenon, <1>1, <1>4, SpecRestKeeps
<1>5. CASE ControllerStep
  BY Zenon, <1>1, <1>5, SpecControllerKeeps
<1>6. CASE UNCHANGED vars
  BY Zenon, <1>6 DEF vars, SpecInv, PrunedSpecNotServed, Cached
<1> QED
  BY Zenon, <1>2, <1>3, <1>4, <1>5, <1>6 DEF Next

\* Without persistence, a prune of all of a VaultAuth's clients is final: no client that logged
\* in with an older spec is cached afterwards, whichever Gets ran while prune waited for the
\* write lock and however the controller's reconciles, the callback handler and restarts
\* interleave with them.
THEOREM PrunedSpecIsNotServed == ~Persist => (Spec => []PrunedSpecNotServed)
<1> SUFFICES ASSUME ~Persist PROVE Spec => []PrunedSpecNotServed
  BY Zenon
<1>1. SpecInv => PrunedSpecNotServed
  BY Zenon DEF SpecInv
<1>2. CacheInv /\ SpecInv /\ [Next]_vars => CacheInv' /\ SpecInv'
  BY Zenon, CacheInvStep, SpecInvStep
<1>3. Init => CacheInv /\ SpecInv
  BY Zenon, CacheInvInit, SpecInvInit
<1> QED
  BY <1>1, <1>2, <1>3, PTL DEF Spec
-----------------------------------------------------------------------------
\* What the VaultAuth controller knows of its own prune: whether all clients were to be pruned
\* still follows from the recorded hash, once they were the prune is on record, and a deletion
\* has them all pruned, for a spec that does not change any more.
PruneInv ==
  /\ pr.pc \in {"wait", "send", "status"} /\ ~pr.skip /\ ~pr.err =>
       (pr.all <=> auth[pr.a].hash \notin {Spec0, pr.hash})
  /\ pr.pc \in {"send", "status"} => ~pr.skip
  /\ pr.pc \in {"send", "status"} /\ ~pr.err /\ pr.all => pruned[pr.a] = pr.hash
  /\ pr.skip => pr.all /\ auth[pr.a].st # "present" /\ pr.hash = auth[pr.a].spec
  /\ pr.pc \in {"unstore", "finalize"} => pr.skip /\ pruned[pr.a] = pr.hash

\* The steps that concern it; the others leave the VaultAuths and their reconcile alone.
LEMMA PruneTouched ==
  ASSUME [Next]_vars
  PROVE  \/ UNCHANGED <<auth, pruned, pr>>
         \/ ControllerStep
         \/ \E a \in Auth : AuthDeleted(a) \/ \E newGen \in BOOLEAN : SpecChanged(a, newGen)
         \/ \E k \in Key : RecvFromPrune(k)
         \/ Restart
<1>1. CASE \E g \in Getter : \/ \E a \in Auth, n \in NS : GetBegin(g, a, n)
                             \/ GetLock(g) \/ GetStep(g) \/ UseClient(g) \/ RecvFromGet(g)
  <2>1. Elsewhere' = Elsewhere => UNCHANGED <<auth, pruned, pr>>
    BY Zenon DEF Elsewhere, authVars
  <2>2. ASSUME NEW g \in Getter, \/ \E a \in Auth, n \in NS : GetBegin(g, a, n)
                                 \/ GetLock(g) \/ UseClient(g) \/ RecvFromGet(g)
        PROVE  UNCHANGED <<auth, pruned, pr>>
    BY Zenon, <2>1, <2>2 DEF GetBegin, GetLock, UseClient, RecvFromGet, authVars
  <2>3. ASSUME NEW g \in Getter, GetValid(g) \/ GetUntaint(g) \/ GetInvalid(g) \/ GetNotRestored(g)
        PROVE  UNCHANGED <<auth, pruned, pr>>
    BY Zenon, <2>1, <2>3 DEF GetValid, GetUntaint, GetInvalid, GetNotRestored
  <2>4. ASSUME NEW g \in Getter, NEW d \in Client,
               GetRestored(g, d) \/ GetRestoreAbandoned(g, d) \/ GetClone(g, d)
        PROVE  UNCHANGED <<auth, pruned, pr>>
    BY Zenon, <2>1, <2>4 DEF GetRestored, GetRestoreAbandoned, GetClone
  <2>5. ASSUME NEW g \in Getter, \/ GetRead(g) \/ GetFailed(g)
                                 \/ \E d \in Client, t \in Token, r \in Renewables : GetLogin(g, d, t, r)
        PROVE  UNCHANGED <<auth, pruned, pr>>
    BY Zenon, <2>1, <2>5 DEF GetRead, GetFailed, GetLogin
  <2>6. ASSUME NEW g \in Getter,
               GetUncache(g) \/ GetAdd(g) \/ GetStore(g) \/ GetRoot(g) \/ GetCloneHit(g)
        PROVE  UNCHANGED <<auth, pruned, pr>>
    BY Zenon, <2>1, <2>6 DEF GetUncache, GetAdd, GetStore, GetRoot, GetCloneHit
  <2> QED
    BY Zenon, <1>1, <2>2, <2>3, <2>4, <2>5, <2>6 DEF GetStep
<1>2. CASE HandlerStep \/ \E c \in Client : RecvFromWatcher(c)
  BY Zenon, <1>2
     DEF HandlerStep, HandlerRemove, HandlerPruneStorage, HandlerCall, RecvFromWatcher, authVars
<1>3. CASE Environment
  BY Zenon, <1>3 DEF Environment, TokenRevoked, TokenLapsed, WatcherDone, ShutDown, authVars
<1>4. CASE UNCHANGED vars
  BY Zenon, <1>4 DEF vars
<1> QED
  BY Zenon, <1>1, <1>2, <1>3, <1>4 DEF Next

LEMMA PruneInvInit == Init => PruneInv
<1>1. IdlePrune.pc = "idle" /\ ~IdlePrune.skip
  BY Zenon DEF IdlePrune
<1>2. Init => pr = IdlePrune
  BY Zenon DEF Init
<1> QED
  BY Zenon, <1>1, <1>2 DEF PruneInv

\* The reads of a reconcile's beginning.
LEMMA PruneBegins ==
  ASSUME TypeOK, PruneInv, NEW a \in Auth,
         \/ AuthReconcile(a) \/ AuthFinalize(a) \/ AuthNotFound(a)
         \/ \E merged \in BOOLEAN : AuthReconcileError(a, merged)
  PROVE  PruneInv' /\ UNCHANGED auth
<1>1. UNCHANGED <<auth, pruned>>
  BY Zenon DEF AuthReconcile, AuthFinalize, AuthNotFound, AuthReconcileError
<1>2. CASE AuthNotFound(a)
  BY Zenon, <1>1, <1>2 DEF AuthNotFound, PruneInv
<1>3. CASE AuthReconcile(a)
  <2>1. pr' = [pc |-> "wait", a |-> a, gen |-> auth[a].gen, hash |-> auth[a].spec,
               all |-> auth[a].hash \notin {Spec0, auth[a].spec}, skip |-> FALSE,
               err |-> FALSE, todo |-> {}]
    BY Zenon, <1>3 DEF AuthReconcile, IdlePrune
  <2> QED
    BY Zenon, <1>1, <2>1 DEF PruneInv
<1>4. CASE AuthFinalize(a)
  <2>1. pr' = [pc |-> "wait", a |-> a, gen |-> auth[a].gen, hash |-> auth[a].spec,
               all |-> TRUE, skip |-> TRUE, err |-> FALSE, todo |-> {}]
    BY Zenon, <1>4 DEF AuthFinalize, IdlePrune
  <2>2. pr'.pc = "wait" /\ pr'.a = a /\ pr'.skip /\ pr'.all /\ pr'.hash = auth[a].spec
    BY Zenon, <2>1
  <2>3. auth[a].st # "present"
    BY Zenon, <1>4 DEF AuthFinalize
  <2> QED
    BY Zenon, <1>1, <2>2, <2>3 DEF PruneInv
<1>5. CASE \E merged \in BOOLEAN : AuthReconcileError(a, merged)
  <2>1. pr'.pc = "status" /\ pr'.err /\ ~pr'.skip
    BY Zenon, <1>5 DEF AuthReconcileError, IdlePrune
  <2> QED
    BY Zenon, <1>1, <2>1 DEF PruneInv
<1> QED
  BY Zenon, <1>1, <1>2, <1>3, <1>4, <1>5

\* The later steps of a reconcile.
LEMMA PruneGoesOn ==
  ASSUME TypeOK, PruneInv,
         \/ PruneCache \/ PruneSent \/ \E failed \in SUBSET pr.todo : PruneUnstore(failed)
         \/ \E k \in Key : RecvFromPrune(k)
  PROVE  PruneInv' /\ UNCHANGED auth
<1>1. pr \in PruneRec /\ pr.a \in Auth /\ pruned \in [Auth -> SpecV \cup {Spec0}]
  BY Zenon DEF TypeOK, PruneRec
<1>2. auth' = auth
  BY Zenon DEF PruneCache, PruneSent, PruneUnstore, RecvFromPrune, authVars
<1>3. \/ pr' = IdlePrune
      \/ /\ pr'.a = pr.a /\ pr'.hash = pr.hash /\ pr'.all = pr.all /\ pr'.skip = pr.skip
         /\ pr'.err = pr.err
  <2>1. CASE PruneCache
    BY Zenon, <1>1, <2>1 DEF PruneCache, PruneRec
  <2>2. CASE PruneSent \/ \E k \in Key : RecvFromPrune(k)
    BY Zenon, <1>1, <2>2 DEF PruneSent, RecvFromPrune, PruneRec
  <2>3. CASE \E failed \in SUBSET pr.todo : PruneUnstore(failed)
    <3>1. pr' = IdlePrune \/ pr' = [pr EXCEPT !.pc = "finalize", !.todo = {}]
      BY Zenon, <2>3 DEF PruneUnstore
    <3> QED
      BY Zenon, <1>1, <3>1 DEF PruneRec
  <2> QED
    BY Zenon, <2>1, <2>2, <2>3
<1>i. IdlePrune.pc = "idle" /\ ~IdlePrune.skip
  BY Zenon DEF IdlePrune
<1>4. CASE PruneCache
  <2>1. pr'.pc = IF pr.skip THEN "unstore" ELSE "send"
    BY Zenon, <1>1, <1>4 DEF PruneCache, PruneRec
  <2>2. pr.all => pruned'[pr.a] = pr.hash
    BY Zenon, <1>1, <1>4 DEF PruneCache
  <2>3. pr.pc = "wait" /\ pr'.pc \in {"unstore", "send"}
    BY Zenon, <1>4, <2>1 DEF PruneCache
  <2>4. pr' # IdlePrune
    BY Zenon, <1>i, <2>3
  <2> QED
    BY Zenon, <1>2, <1>3, <2>1, <2>2, <2>3, <2>4 DEF PruneInv
<1>5. CASE PruneSent \/ \E k \in Key : RecvFromPrune(k)
  <2>1. pr.pc = "send" /\ pr'.pc \in {"send", "status"} /\ pruned' = pruned
    BY Zenon, <1>1, <1>5 DEF PruneSent, RecvFromPrune, PruneRec, authVars
  <2>2. pr' # IdlePrune
    BY Zenon, <1>i, <2>1
  <2> QED
    BY Zenon, <1>2, <1>3, <2>1, <2>2 DEF PruneInv
<1>6. CASE \E failed \in SUBSET pr.todo : PruneUnstore(failed)
  <2>1. /\ pr.pc = "unstore" /\ pruned' = pruned
        /\ pr' = IdlePrune \/ pr' = [pr EXCEPT !.pc = "finalize", !.todo = {}]
    BY Zenon, <1>6 DEF PruneUnstore
  <2>2. pr'.pc \in {"finalize", "idle"}
    BY Zenon, <1>1, <1>i, <2>1 DEF PruneRec
  <2> QED
    BY Zenon, <1>i, <1>2, <1>3, <2>1, <2>2 DEF PruneInv
<1> QED
  BY Zenon, <1>2, <1>4, <1>5, <1>6

\* Its last step, and a restart.
LEMMA PruneEnds ==
  ASSUME PruneInv,
         \/ \E added \in BOOLEAN : AuthStatus(added)
         \/ AuthFinalized \/ AuthWriteFailed \/ Restart
  PROVE  PruneInv'
<1>1. pr' = IdlePrune
  BY Zenon DEF AuthStatus, AuthFinalized, AuthWriteFailed, Restart
<1> QED
  BY Zenon, <1>1 DEF PruneInv, IdlePrune

\* A change of a VaultAuth leaves its recorded hash, and after its deletion its spec.
LEMMA PruneUser ==
  ASSUME TypeOK, PruneInv, NEW a \in Auth,
         AuthDeleted(a) \/ \E newGen \in BOOLEAN : SpecChanged(a, newGen)
  PROVE  /\ PruneInv'
         /\ \A b \in Auth : auth'[b].hash = auth[b].hash /\ (auth[b].st = "deleting" => auth'[b] = auth[b])
<1>1. UNCHANGED <<pruned, pr>> /\ pr.a \in Auth /\ auth[a].st = "present"
  BY Zenon DEF AuthDeleted, SpecChanged, TypeOK, PruneRec
<1>2. \A b \in Auth : auth'[b].hash = auth[b].hash /\ (auth[b].st # "present" => auth'[b] = auth[b])
  <2> SUFFICES ASSUME NEW b \in Auth
               PROVE  auth'[b].hash = auth[b].hash /\ (auth[b].st # "present" => auth'[b] = auth[b])
    OBVIOUS
  <2>1. auth \in [Auth -> AuthRec]
    BY Zenon DEF TypeOK
  <2>2. CASE AuthDeleted(a)
    BY Zenon, <1>1, <2>1, <2>2 DEF AuthDeleted, AuthRec
  <2>3. CASE \E newGen \in BOOLEAN : SpecChanged(a, newGen)
    <3>1. PICK newGen \in BOOLEAN : SpecChanged(a, newGen)
      BY Zenon, <2>3
    <3>2. auth' = [auth EXCEPT ![a].spec = @ + 1, ![a].gen = IF newGen THEN @ + 1 ELSE @]
      BY Zenon, <3>1 DEF SpecChanged
    <3>3. b # a => auth'[b] = auth[b]
      BY Zenon, <2>1, <3>2
    <3>4. auth'[a].hash = auth[a].hash
      BY Zenon, <2>1, <3>2 DEF AuthRec
    <3> QED
      BY Zenon, <1>1, <3>3, <3>4
  <2> QED
    BY Zenon, <2>2, <2>3
<1> QED
  BY Zenon, <1>1, <1>2 DEF PruneInv

LEMMA PruneInvStep == ASSUME TypeOK, PruneInv, [Next]_vars PROVE PruneInv'
<1>1. CASE UNCHANGED <<auth, pruned, pr>>
  BY Zenon, <1>1 DEF PruneInv
<1>2. CASE ControllerStep
  BY Zenon, <1>2, PruneBegins, PruneGoesOn, PruneEnds DEF ControllerStep
<1>3. CASE \E a \in Auth : AuthDeleted(a) \/ \E newGen \in BOOLEAN : SpecChanged(a, newGen)
  BY Zenon, <1>3, PruneUser
<1> QED
  BY Zenon, <1>1, <1>2, <1>3, PruneGoesOn, PruneEnds, PruneTouched

\* What a step does to the recorded hash and to the existence of a VaultAuth.
LEMMA PruneRecorded ==
  ASSUME TypeOK, PruneInv, [Next]_vars, NEW a \in Auth
  PROVE  /\ auth[a].hash # Spec0 /\ auth'[a].hash # auth[a].hash /\ ~pr.err => pruned[a] = auth'[a].hash
         /\ auth[a].st = "deleting" /\ auth'[a].st = "gone" => pruned[a] = auth[a].spec
<1>1. CASE UNCHANGED auth
  BY Zenon, <1>1
<1>2. CASE \E added \in BOOLEAN : AuthStatus(added)
  <2>1. PICK added \in BOOLEAN : AuthStatus(added)
    BY Zenon, <1>2
  <2>2. /\ pr.pc = "status" /\ auth[pr.a].st = "present" /\ pr.a \in Auth /\ pr.all \in BOOLEAN
        /\ auth' = [auth EXCEPT ![pr.a].hash = pr.hash, ![pr.a].fin = @ \/ added]
    BY Zenon, <2>1 DEF AuthStatus, TypeOK, PruneRec
  <2>3. /\ auth'[a].st = auth[a].st
        /\ auth'[a].hash = IF a = pr.a THEN pr.hash ELSE auth[a].hash
    BY Zenon, <2>2 DEF TypeOK, AuthRec
  <2>4. ASSUME a = pr.a, auth[a].hash # Spec0, auth'[a].hash # auth[a].hash, ~pr.err
        PROVE  pruned[a] = auth'[a].hash
    BY Zenon, <2>2, <2>3, <2>4 DEF PruneInv
  <2> QED
    BY Zenon, <2>3, <2>4
<1>3. CASE AuthFinalized
  <2>1. /\ pr.pc = "finalize" /\ pr.a \in Auth
        /\ auth' = [auth EXCEPT ![pr.a].st = "gone"]
    BY Zenon, <1>3 DEF AuthFinalized, TypeOK, PruneRec
  <2>2. /\ auth'[a].hash = auth[a].hash
        /\ a # pr.a => auth'[a].st = auth[a].st
    BY Zenon, <2>1 DEF TypeOK, AuthRec
  <2>3. pruned[pr.a] = auth[pr.a].spec
    BY Zenon, <2>1 DEF PruneInv
  <2> QED
    BY Zenon, <2>2, <2>3
<1>4. CASE \E b \in Auth : AuthDeleted(b) \/ \E newGen \in BOOLEAN : SpecChanged(b, newGen)
  BY Zenon, <1>4, PruneUser
<1>5. CASE AuthWriteFailed \/ Restart
  BY Zenon, <1>1, <1>5 DEF AuthWriteFailed, Restart
<1> QED
  BY Zenon, <1>1, <1>2, <1>3, <1>4, <1>5, PruneTouched, PruneBegins, PruneGoesOn DEF ControllerStep

\* A reconcile without errors replaces a recorded hash only after a prune for the new one.
THEOREM HashIsRecordedAfterPrune == Spec => HashRecordsPrune
<1>1. TypeOK /\ PruneInv /\ [Next]_vars =>
        [\A a \in Auth : auth[a].hash # Spec0 /\ auth'[a].hash # auth[a].hash /\ ~pr.err
           => pruned[a] = auth'[a].hash]_vars
  BY Zenon, PruneRecorded
<1>2. TypeOK /\ PruneInv /\ [Next]_vars => PruneInv'
  BY Zenon, PruneInvStep
<1> QED
  BY <1>1, <1>2, PruneInvInit, TypeCorrect, PTL DEF Spec, HashRecordsPrune

\* The finalizer of a deleted VaultAuth is removed only after all of its clients were pruned.
THEOREM ClientsArePrunedFirst == Spec => FinalizedAfterPrune
<1>1. TypeOK /\ PruneInv /\ [Next]_vars =>
        [\A a \in Auth : auth[a].st = "deleting" /\ auth'[a].st = "gone"
           => pruned[a] = auth[a].spec]_vars
  BY Zenon, PruneRecorded
<1>2. TypeOK /\ PruneInv /\ [Next]_vars => PruneInv'
  BY Zenon, PruneInvStep
<1> QED
  BY <1>1, <1>2, PruneInvInit, TypeCorrect, PTL DEF Spec, FinalizedAfterPrune
-----------------------------------------------------------------------------
\* One caller at a time, or VaultAuths that are not changed, so that a VaultAuth has one key.
OneKeyAtATime == (\A g, h \in Getter : g = h) \/ MaxSpec = 1

\* A client whose lifetime watcher runs, and a caller that logged in and has not stored its
\* token yet.
Runs(c) == client[c].watch = "run" /\ client[c].st = "open"
Fresh(g) == op[g].fresh /\ op[g].pc \in {"uncache", "add", "store"}

\* A token that some client has had, or that is stored.
InUse(t) == (\E c \in Client : client[c].st # "free" /\ client[c].tok = t)
            \/ \E k \in Key : store[k] = t

\* Callers that hold locks work for different VaultAuths, and log in and cache for their own.
\* What is about to be cached has nothing cached under its key.
OwnInv ==
  /\ \A g, h \in Getter : op[g].pc \in InLock /\ op[h].pc \in InLock
                          /\ op[g].key[1] = op[h].key[1] => g = h
  /\ \A g \in Getter :
       /\ op[g].pc \in Caching => client[op[g].c].key[1] = op[g].key[1]
       /\ op[g].pc = "login" => op[g].nkey[1] = op[g].key[1]
       /\ op[g].pc = "add" => cache[client[op[g].c].key] = None
       /\ op[g].pc = "restore" => cache[op[g].key] = None
       /\ op[g].fresh => op[g].pc \in {"uncache", "add", "store", "ns"}
       /\ op[g].pc = "store" => op[g].fresh
  /\ WatcherOwned

\* A stored token is stored once, and only the client of its key renews it; the token of a
\* new login is known to nobody else.
TokenInv ==
  /\ \A t \in Token : InUse(t) => token[t].st # "free"
  /\ \A j, k \in Key : store[j] # None /\ store[j] = store[k] => j = k
  /\ \A k \in Key, c \in Client : Runs(c) /\ client[c].tok = store[k] => client[c].key = k
  /\ \A g \in Getter : Fresh(g) =>
       /\ \A k \in Key : store[k] # client[op[g].c].tok
       /\ \A c \in Client : Runs(c) /\ client[c].tok = client[op[g].c].tok => c = op[g].c
       /\ \A h \in Getter : Fresh(h) /\ client[op[h].c].tok = client[op[g].c].tok => h = g
  /\ SingleWatcher

\* A step that starts no watcher, puts no token in use and stores none ...
WatchersCalm ==
  /\ \A c \in Client : Runs(c)' => Runs(c)
  /\ \A c \in Client : client[c].st # "free" =>
       client'[c].key = client[c].key /\ client'[c].tok = client[c].tok
  /\ \A t \in Token : InUse(t)' => InUse(t)
  /\ \A t \in Token : token[t].st # "free" => token'[t].st # "free"
  /\ \A k \in Key : store'[k] # None => store'[k] = store[k]

\* ... that caches nothing, and takes no client with a running watcher out of the cache ...
CacheCalm ==
  /\ \A k \in Key : cache'[k] # None => cache'[k] = cache[k]
  /\ \A c \in Client : Runs(c)' /\ cache[client[c].key] = c => cache'[client[c].key] = c

\* ... and has no caller lock, log in, or drop a client with a running watcher.
CallersCalm ==
  \A g \in Getter :
    /\ op'[g].pc \in InLock => op[g].pc \in InLock /\ op'[g].key = op[g].key
    /\ op'[g].pc \in Caching => op[g].pc \in Caching /\ op'[g].c = op[g].c
    /\ op'[g].pc = "add" => op[g].pc = "add" \/ cache'[client[op[g].c].key] = None
    /\ op[g].pc \in Caching =>
         (op'[g].pc \in Caching /\ op'[g].c = op[g].c) \/ \A c \in Client : ~Runs(c)'
    /\ op'[g].pc = "restore" => op[g].pc = "restore"
    /\ op'[g].pc = "login" => op'[g].nkey[1] = op'[g].key[1]
    /\ op'[g].fresh => op'[g].pc \in {"uncache", "add", "store", "ns"}
    /\ op'[g].pc = "store" => op'[g].fresh
    /\ Fresh(g)' => Fresh(g) /\ op'[g].c = op[g].c
-----------------------------------------------------------------------------
\* A caller about to cache a client, or to store its token, holds it.
LEMMA CachingHolds ==
  ASSUME CacheInv
  PROVE  /\ \A g \in Getter : op[g].pc \in Caching => op[g].c \in Client /\ client[op[g].c].st # "free"
         /\ \A g \in Getter : Fresh(g) => op[g].c \in Client /\ client[op[g].c].st # "free"
                                          /\ client[op[g].c].tok \in Token
BY Zenon DEF CacheInv, Held, Holding, Caching, Fresh

\* A calm step keeps every watcher owned ...
LEMMA OwnFrame ==
  ASSUME CacheInv, OwnInv, CacheCalm, CallersCalm,
         \A c \in Client : Runs(c)' => Runs(c),
         \A c \in Client : client[c].st # "free" => client'[c].key = client[c].key
  PROVE  OwnInv'
<1>0. \A g \in Getter : op'[g].pc \in Caching =>
        /\ op[g].pc \in Caching /\ op'[g].c = op[g].c /\ op'[g].key = op[g].key
        /\ client'[op'[g].c].key = client[op[g].c].key /\ client[op[g].c].key \in Key
  <2> SUFFICES ASSUME NEW g \in Getter, op'[g].pc \in Caching
               PROVE  /\ op[g].pc \in Caching /\ op'[g].c = op[g].c /\ op'[g].key = op[g].key
                      /\ client'[op'[g].c].key = client[op[g].c].key /\ client[op[g].c].key \in Key
    BY Zenon
  <2>1. op[g].pc \in Caching /\ op'[g].c = op[g].c /\ op'[g].key = op[g].key
    BY Zenon DEF CallersCalm, Caching, InLock
  <2>2. op[g].c \in Client /\ client[op[g].c].st # "free" /\ client[op[g].c].key \in Key
    BY Zenon, <2>1, CachingHolds DEF CacheInv, TypeOK, ClientRec
  <2> QED
    BY Zenon, <2>1, <2>2
<1>1. \A g, h \in Getter : op'[g].pc \in InLock /\ op'[h].pc \in InLock
                           /\ op'[g].key[1] = op'[h].key[1] => g = h
  <2>1. \A g \in Getter : op'[g].pc \in InLock => op[g].pc \in InLock /\ op'[g].key = op[g].key
    BY Zenon DEF CallersCalm
  <2>2. \A g, h \in Getter : op[g].pc \in InLock /\ op[h].pc \in InLock
                             /\ op[g].key[1] = op[h].key[1] => g = h
    BY Zenon DEF OwnInv
  <2> SUFFICES ASSUME NEW g \in Getter, NEW h \in Getter, op'[g].pc \in InLock,
                      op'[h].pc \in InLock, op'[g].key[1] = op'[h].key[1]
               PROVE  g = h
    BY Zenon
  <2>3. op'[g].key = op[g].key /\ op'[h].key = op[h].key
    BY Zenon, <2>1
  <2>4. op[g].key[1] = op[h].key[1]
    BY Zenon, <2>3
  <2> QED
    BY Zenon, <2>1, <2>2, <2>4
<1>cache. \A k \in Key : cache[k] = None => cache'[k] = None
  BY Zenon DEF CacheCalm
<1>2. ASSUME NEW g \in Getter
      PROVE  /\ op'[g].pc \in Caching => client'[op'[g].c].key[1] = op'[g].key[1]
             /\ op'[g].pc = "add" => cache'[client'[op'[g].c].key] = None
             /\ op'[g].pc = "restore" => cache'[op'[g].key] = None
  <2>1. op'[g].pc \in Caching => client'[op'[g].c].key[1] = op'[g].key[1]
    <3>1. op[g].pc \in Caching => client[op[g].c].key[1] = op[g].key[1]
      BY Zenon DEF OwnInv
    <3> QED
      BY Zenon, <1>0, <3>1
  <2>2. op'[g].pc = "add" => cache'[client'[op'[g].c].key] = None
    <3> SUFFICES ASSUME op'[g].pc = "add" PROVE cache'[client'[op'[g].c].key] = None
      BY Zenon
    <3>1. client'[op'[g].c].key = client[op[g].c].key /\ client[op[g].c].key \in Key
      BY Zenon, <1>0 DEF Caching
    <3>2. op[g].pc = "add" => cache[client[op[g].c].key] = None
      BY Zenon DEF OwnInv
    <3>3. op[g].pc = "add" \/ cache'[client[op[g].c].key] = None
      BY Zenon DEF CallersCalm
    <3> QED
      BY Zenon, <1>cache, <3>1, <3>2, <3>3
  <2>3. op'[g].pc = "restore" => cache'[op'[g].key] = None
    <3> SUFFICES ASSUME op'[g].pc = "restore" PROVE cache'[op'[g].key] = None
      BY Zenon
    <3>1. op[g].pc = "restore" /\ op'[g].key = op[g].key
      BY Zenon DEF CallersCalm, InLock
    <3>2. op[g].key \in Key
      BY Zenon DEF CacheInv, TypeOK, OpRec
    <3>3. cache[op[g].key] = None
      BY Zenon, <3>1 DEF OwnInv
    <3> QED
      BY Zenon, <1>cache, <3>1, <3>2, <3>3
  <2> QED
    BY Zenon, <2>1, <2>2, <2>3
<1>3. WatcherOwned'
  <2> SUFFICES ASSUME NEW c \in Client, Runs(c)'
               PROVE  \/ cache'[client'[c].key] = c
                      \/ \E g \in Getter : op'[g].c = c /\ op'[g].pc \in Caching
    BY Zenon DEF WatcherOwned, Runs, Caching
  <2>1. Runs(c) /\ client'[c].key = client[c].key
    BY Zenon DEF Runs
  <2>2. cache[client[c].key] = c \/ \E g \in Getter : op[g].c = c /\ op[g].pc \in Caching
    BY Zenon, <2>1 DEF OwnInv, WatcherOwned, Runs, Caching
  <2>3. CASE cache[client[c].key] = c
    BY Zenon, <2>1, <2>3 DEF CacheCalm
  <2>4. CASE \E g \in Getter : op[g].c = c /\ op[g].pc \in Caching
    <3>1. PICK g \in Getter : op[g].c = c /\ op[g].pc \in Caching
      BY Zenon, <2>4
    <3>2. op'[g].pc \in Caching /\ op'[g].c = op[g].c
      BY Zenon, <3>1 DEF CallersCalm
    <3> QED
      BY Zenon, <3>1, <3>2
  <2> QED
    BY Zenon, <2>2, <2>3, <2>4
<1> QED
  BY Zenon, <1>1, <1>2, <1>3 DEF OwnInv, CallersCalm

\* ... and every token watched once.
LEMMA TokenFrame ==
  ASSUME CacheInv, TokenInv, WatchersCalm,
         \A g \in Getter : Fresh(g)' => Fresh(g) /\ op'[g].c = op[g].c
  PROVE  TokenInv'
<1>1. \A c \in Client : Runs(c)' =>
        Runs(c) /\ client'[c].key = client[c].key /\ client'[c].tok = client[c].tok
  BY Zenon DEF WatchersCalm, Runs
<1>2. \A g \in Getter : Fresh(g)' =>
        Fresh(g) /\ op'[g].c = op[g].c /\ client'[op'[g].c].tok = client[op[g].c].tok
  <2> SUFFICES ASSUME NEW g \in Getter, Fresh(g)'
               PROVE  Fresh(g) /\ op'[g].c = op[g].c
                      /\ client'[op'[g].c].tok = client[op[g].c].tok
    BY Zenon
  <2>1. Fresh(g) /\ op'[g].c = op[g].c
    BY Zenon
  <2>2. op[g].c \in Client /\ client[op[g].c].st # "free"
    BY Zenon, <2>1, CachingHolds
  <2> QED
    BY Zenon, <2>1, <2>2 DEF WatchersCalm
<1>3. \A t \in Token : InUse(t)' => token'[t].st # "free"
  BY Zenon DEF TokenInv, WatchersCalm
<1>4. \A k \in Key : store'[k] # None => store'[k] = store[k]
  BY Zenon DEF WatchersCalm
<1>5. \A j, k \in Key : store'[j] # None /\ store'[j] = store'[k] => j = k
  <2>1. \A j, k \in Key : store[j] # None /\ store[j] = store[k] => j = k
    BY Zenon DEF TokenInv
  <2> QED
    BY Zenon, <1>4, <2>1
<1>6. ASSUME NEW k \in Key, NEW c \in Client, Runs(c)', client'[c].tok = store'[k]
      PROVE  client'[c].key = k
  <2>1. client[c].tok # None /\ Runs(c) /\ client'[c].key = client[c].key
        /\ client'[c].tok = client[c].tok
    BY Zenon, <1>1, <1>6, ConstAssumption DEF CacheInv, Held, Runs
  <2>2. client[c].tok = store[k]
    BY Zenon, <1>4, <1>6, <2>1
  <2> QED
    BY Zenon, <2>1, <2>2 DEF TokenInv
<1>7. ASSUME NEW g \in Getter, Fresh(g)'
      PROVE  /\ \A k \in Key : store'[k] # client'[op'[g].c].tok
             /\ \A c \in Client : Runs(c)' /\ client'[c].tok = client'[op'[g].c].tok => c = op'[g].c
             /\ \A h \in Getter : Fresh(h)' /\ client'[op'[h].c].tok = client'[op'[g].c].tok => h = g
  <2>1. Fresh(g) /\ op'[g].c = op[g].c /\ client'[op'[g].c].tok = client[op[g].c].tok
    BY Zenon, <1>2, <1>7
  <2>2. client[op[g].c].tok # None
    BY Zenon, <2>1, CachingHolds, ConstAssumption
  <2>3. \A k \in Key : store'[k] # client'[op'[g].c].tok
    <3>1. \A k \in Key : store[k] # client[op[g].c].tok
      BY Zenon, <2>1 DEF TokenInv
    <3> QED
      BY Zenon, <1>4, <2>1, <2>2, <3>1
  <2>4. \A c \in Client : Runs(c)' /\ client'[c].tok = client'[op'[g].c].tok => c = op'[g].c
    BY Zenon, <1>1, <2>1 DEF TokenInv
  <2>5. \A h \in Getter : Fresh(h)' /\ client'[op'[h].c].tok = client'[op'[g].c].tok => h = g
    BY Zenon, <1>2, <2>1 DEF TokenInv
  <2> QED
    BY Zenon, <2>3, <2>4, <2>5
<1>8. SingleWatcher'
  <2> SUFFICES ASSUME NEW c \in Client, NEW d \in Client, Runs(c)', Runs(d)',
                      client'[c].tok = client'[d].tok
               PROVE  c = d
    BY Zenon DEF SingleWatcher, Runs
  <2>1. Runs(c) /\ Runs(d) /\ client[c].tok = client[d].tok
    BY Zenon, <1>1
  <2> QED
    BY Zenon, <2>1 DEF TokenInv, SingleWatcher, Runs
<1> QED
  BY Zenon, <1>3, <1>5, <1>6, <1>7, <1>8 DEF TokenInv
-----------------------------------------------------------------------------
\* Steps that leave the clients and the cache alone are calm ...
LEMMA SameCalm ==
  ASSUME UNCHANGED <<client, cache>>,
         \A t \in Token : token[t].st # "free" => token'[t].st # "free",
         \A k \in Key : store'[k] # None => store'[k] = store[k], TypeOK
  PROVE  WatchersCalm /\ CacheCalm
<1>1. \A t \in Token : InUse(t)' => InUse(t)
  BY Zenon, ConstAssumption DEF InUse
<1> QED
  BY Zenon, <1>1 DEF WatchersCalm, CacheCalm, Runs

\* ... and so are those that only taint a client or end its watcher ...
LEMMA ClientCalm ==
  ASSUME UNCHANGED <<cache, token, store>>,
         \A c \in Client : /\ client'[c].st = client[c].st /\ client'[c].key = client[c].key
                           /\ client'[c].tok = client[c].tok
                           /\ client'[c].watch = "run" => client[c].watch = "run"
  PROVE  WatchersCalm /\ CacheCalm
<1>1. \A t \in Token : InUse(t)' => InUse(t)
  BY Zenon DEF InUse
<1> QED
  BY Zenon, <1>1 DEF WatchersCalm, CacheCalm, Runs

\* ... those that create a client without a watcher, with a token that is in use ...
LEMMA NewCalm ==
  ASSUME TypeOK, NEW d \in Client, NEW r, client[d].st = "free", client' = [client EXCEPT ![d] = r],
         r.watch # "run", InUse(r.tok), UNCHANGED <<cache, token>>,
         \A k \in Key : store'[k] # None => store'[k] = store[k]
  PROVE  WatchersCalm /\ CacheCalm
<1>1. client'[d] = r /\ \A c \in Client \ {d} : client'[c] = client[c]
  BY Zenon DEF TypeOK
<1>2. ASSUME NEW t \in Token, InUse(t)' PROVE InUse(t)
  <2>1. CASE \E c \in Client : client'[c].st # "free" /\ client'[c].tok = t
    <3>1. PICK c \in Client : client'[c].st # "free" /\ client'[c].tok = t
      BY Zenon, <2>1
    <3> QED
      BY Zenon, <1>1, <3>1 DEF InUse
  <2>2. CASE \E k \in Key : store'[k] = t
    BY Zenon, <2>2, ConstAssumption DEF InUse
  <2> QED
    BY Zenon, <1>2, <2>1, <2>2 DEF InUse
<1>3. \A c \in Client : Runs(c)' => Runs(c) /\ c # d
  BY Zenon, <1>1 DEF Runs
<1> QED
  BY Zenon, <1>1, <1>2, <1>3 DEF WatchersCalm, CacheCalm

\* ... and evictions, which close the clients that leave the cache.
LEMMA EvictCalm ==
  ASSUME TypeOK, CachedOpen, NEW K \in SUBSET Key, K \subseteq Cached, NEW r \in BOOLEAN,
         Evict(K, r)
  PROVE  /\ WatchersCalm
         /\ \A c \in Client : Runs(c)' => client'[c] = client[c] /\ \A k \in K : cache[k] # c
<1>1. client' = [c \in Client |-> IF c \in {cache[k] : k \in K}
                                  THEN [client[c] EXCEPT !.st = "closed"] ELSE client[c]]
  BY Zenon DEF Evict
<1>2. ASSUME NEW c \in Client, Runs(c)'
      PROVE  client'[c] = client[c] /\ \A k \in K : cache[k] # c
  <2>1. CASE c \in {cache[k] : k \in K}
    <3>1. client'[c] = [client[c] EXCEPT !.st = "closed"] /\ client[c] \in ClientRec
      BY Zenon, <1>1, <2>1 DEF TypeOK
    <3>2. client'[c].st = "closed"
      BY Zenon, <3>1 DEF ClientRec
    <3> QED
      BY Zenon, <1>2, <3>2 DEF Runs
  <2> QED
    BY Zenon, <1>1, <2>1
<1>3. \A c \in Client : /\ client'[c].key = client[c].key /\ client'[c].tok = client[c].tok
                        /\ client'[c].st = "free" <=> client[c].st = "free"
  BY Zenon, EvictEffect
<1>4. \A t \in Token : token'[t].st = "free" <=> token[t].st = "free"
  BY Zenon, EvictEffect
<1>5. \A k \in Key : store'[k] # None => store'[k] = store[k]
  BY Zenon DEF Evict
<1>6. ASSUME NEW t \in Token, InUse(t)' PROVE InUse(t)
  <2>1. CASE \E c \in Client : client'[c].st # "free" /\ client'[c].tok = t
    BY Zenon, <1>3, <2>1 DEF InUse
  <2>2. CASE \E k \in Key : store'[k] = t
    BY Zenon, <1>5, <2>2, ConstAssumption DEF InUse
  <2> QED
    BY Zenon, <1>6, <2>1, <2>2 DEF InUse
<1> QED
  BY Zenon, <1>2, <1>3, <1>4, <1>5, <1>6 DEF WatchersCalm, Runs

\* Removing roots from the cache is calm.
LEMMA RemoveCalm ==
  ASSUME CacheInv, NEW K \in SUBSET Key, NEW r \in BOOLEAN, Remove(K, r)
  PROVE  WatchersCalm /\ CacheCalm /\ \A k \in K : cache'[k] = None
<1>0. TypeOK /\ CachedOpen
  BY Zenon DEF CacheInv
<1>1. PICK X \in SUBSET Key : X = K \cap Cached
  BY Zenon
<1>2. X \subseteq Cached /\ Evict(X, r)
  BY Zenon, <1>1 DEF Remove
<1>3. /\ WatchersCalm
      /\ \A c \in Client : Runs(c)' => client'[c] = client[c] /\ \A k \in X : cache[k] # c
  BY Zenon, <1>0, <1>2, EvictCalm
<1>4. \A k \in Key : cache'[k] = IF k \in K THEN None ELSE cache[k]
  BY Zenon DEF Remove, CacheWithout
<1>5. \A c \in Client : Runs(c)' /\ cache[client[c].key] = c => cache'[client[c].key] = c
  <2> SUFFICES ASSUME NEW c \in Client, Runs(c)', cache[client[c].key] = c
               PROVE  cache'[client[c].key] = c
    BY Zenon
  <2>1. client[c].key \in Key /\ c # None
    BY Zenon, <1>0, ConstAssumption DEF TypeOK, ClientRec
  <2>2. client[c].key \notin K
    BY Zenon, <1>1, <1>3, <2>1 DEF Cached
  <2> QED
    BY Zenon, <1>4, <2>1, <2>2
<1> QED
  BY Zenon, <1>3, <1>4, <1>5 DEF CacheCalm

\* A caller whose new record is neither a lookup nor about a client to cache is calm.
LEMMA CallerCalm ==
  ASSUME CacheInv, OwnInv, NEW g \in Getter, NEW rec, op' = [op EXCEPT ![g] = rec],
         op[g].pc \notin Caching, rec.pc \notin Caching \cup {"restore", "store"},
         rec.pc \in InLock => op[g].pc \in InLock /\ rec.key = op[g].key,
         rec.pc = "login" => rec.nkey[1] = rec.key[1],
         rec.fresh => rec.pc = "ns"
  PROVE  CallersCalm
<1>1. op'[g] = rec /\ \A h \in Getter \ {g} : op'[h] = op[h]
  BY Zenon DEF CacheInv, TypeOK
<1>2. ~Fresh(g)'
  BY Zenon, <1>1 DEF Fresh, Caching
<1>3. ASSUME NEW h \in Getter, op'[h] = op[h]
      PROVE  /\ op'[h].pc = "login" => op'[h].nkey[1] = op'[h].key[1]
             /\ op'[h].fresh => op'[h].pc \in {"uncache", "add", "store", "ns"}
             /\ op'[h].pc = "store" => op'[h].fresh
             /\ Fresh(h)' => Fresh(h)
  BY Zenon, <1>3 DEF OwnInv, Fresh
<1> QED
  BY Zenon, <1>1, <1>2, <1>3 DEF CallersCalm, Caching

\* The callers that do not move are calm.
LEMMA IdleCallersCalm ==
  ASSUME OwnInv, UNCHANGED op
  PROVE  CallersCalm
<1>1. \A h \in Getter : /\ op[h].pc = "login" => op[h].nkey[1] = op[h].key[1]
                        /\ op[h].fresh => op[h].pc \in {"uncache", "add", "store", "ns"}
                        /\ op[h].pc = "store" => op[h].fresh
                        /\ Fresh(h)' => Fresh(h)
  BY Zenon DEF OwnInv, Fresh
<1> QED
  BY Zenon, <1>1 DEF CallersCalm

\* A calm step keeps both invariants.
LEMMA CalmKeeps ==
  ASSUME CacheInv, OwnInv, TokenInv, WatchersCalm, CacheCalm, CallersCalm
  PROVE  OwnInv' /\ TokenInv'
<1>1. /\ \A c \in Client : Runs(c)' => Runs(c)
      /\ \A c \in Client : client[c].st # "free" => client'[c].key = client[c].key
  BY Zenon DEF WatchersCalm
<1>2. \A g \in Getter : Fresh(g)' => Fresh(g) /\ op'[g].c = op[g].c
  BY Zenon DEF CallersCalm
<1> QED
  BY Zenon, <1>1, <1>2, OwnFrame, TokenFrame

\* The steps of a caller that create, cache and look up nothing keep the invariants.
LEMMA CallerOwns ==
  ASSUME CacheInv, OwnInv, TokenInv, NEW g \in Getter,
         \/ \E a \in Auth, n \in NS : GetBegin(g, a, n)
         \/ GetValid(g) \/ GetNotRestored(g) \/ GetRead(g) \/ GetFailed(g)
         \/ GetRoot(g) \/ GetCloneHit(g) \/ RecvFromGet(g)
         \/ GetUntaint(g) \/ UseClient(g) \/ GetInvalid(g)
  PROVE  OwnInv' /\ TokenInv'
<1>inv. TypeOK /\ Held
  BY Zenon DEF CacheInv
<1>0. op[g] \in OpRec /\ (op[g].fresh => op[g].pc \in {"uncache", "add", "store", "ns"})
  BY Zenon, <1>inv DEF TypeOK, OwnInv
<1>1. CallersCalm
  <2>1. CASE \E a \in Auth, n \in NS : GetBegin(g, a, n)
    <3>1. PICK a \in Auth, n \in NS : GetBegin(g, a, n)
      BY Zenon, <2>1
    <3> DEFINE rec == [IdleOp EXCEPT !.pc = "lock", !.key = <<a, auth[a].gen>>, !.ns = n]
    <3>2. rec.pc = "lock" /\ rec.fresh = FALSE
      BY Zenon DEF IdleOp
    <3>3. op' = [op EXCEPT ![g] = rec] /\ op[g].pc = "idle"
      BY Zenon, <3>1 DEF GetBegin
    <3> HIDE DEF rec
    <3> QED
      BY Zenon, <3>2, <3>3, CallerCalm DEF InLock, Caching
  <2>2. CASE GetFailed(g) \/ UseClient(g)
    <3>1. IdleOp.pc = "idle" /\ IdleOp.fresh = FALSE
      BY Zenon DEF IdleOp
    <3>2. op' = [op EXCEPT ![g] = IdleOp] /\ op[g].pc \in {"read", "login", "ns", "have"}
      BY Zenon, <2>2 DEF GetFailed, UseClient
    <3> QED
      BY Zenon, <3>1, <3>2, CallerCalm DEF InLock, Caching
  <2>3. CASE GetRoot(g) \/ GetCloneHit(g)
    <3>1. PICK c : op' = [op EXCEPT ![g] = [IdleOp EXCEPT !.pc = "have", !.c = c]]
      BY Zenon, <2>3 DEF GetRoot, GetCloneHit, Return
    <3> DEFINE rec == [IdleOp EXCEPT !.pc = "have", !.c = c]
    <3>2. rec.pc = "have" /\ rec.fresh = FALSE
      BY Zenon DEF IdleOp
    <3>3. op' = [op EXCEPT ![g] = rec] /\ op[g].pc = "ns"
      BY Zenon, <2>3, <3>1 DEF GetRoot, GetCloneHit
    <3> HIDE DEF rec
    <3> QED
      BY Zenon, <3>2, <3>3, CallerCalm DEF InLock, Caching
  <2>4. CASE GetRead(g)
    <3> DEFINE nkey == <<op[g].key[1], auth[op[g].key[1]].gen>>
               rec == [op[g] EXCEPT !.pc = "login", !.c = None, !.nkey = nkey,
                                    !.nspec = auth[op[g].key[1]].spec]
    <3>1. op' = [op EXCEPT ![g] = rec] /\ op[g].pc = "read"
      BY Zenon, <1>inv, <2>4 DEF GetRead, TypeOK
    <3>2. nkey[1] = op[g].key[1]
      BY Zenon
    <3> HIDE DEF nkey
    <3>3. rec.pc = "login" /\ rec.key = op[g].key /\ rec.nkey = nkey /\ rec.fresh = op[g].fresh
      BY Zenon, <1>0 DEF OpRec
    <3> HIDE DEF rec
    <3>4. ~rec.fresh /\ rec.nkey[1] = rec.key[1]
      BY Zenon, <1>0, <3>1, <3>2, <3>3
    <3> QED
      BY Zenon, <3>1, <3>3, <3>4, CallerCalm DEF InLock, Caching
  <2>5. CASE GetValid(g) \/ GetNotRestored(g) \/ RecvFromGet(g) \/ GetUntaint(g) \/ GetInvalid(g)
    <3>1. PICK pc \in {"untaint", "read", "ns", "send"} : op' = [op EXCEPT ![g].pc = pc]
      BY Zenon, <2>5 DEF GetValid, GetNotRestored, RecvFromGet, GetUntaint, GetInvalid
    <3> DEFINE rec == [op[g] EXCEPT !.pc = pc]
    <3>2. op' = [op EXCEPT ![g] = rec]
      BY Zenon, <1>inv, <3>1 DEF TypeOK
    <3>3. rec.pc = pc /\ rec.key = op[g].key /\ rec.fresh = op[g].fresh
      BY Zenon, <1>0 DEF OpRec
    <3> HIDE DEF rec
    <3>4. op[g].pc \in {"validate", "restore", "send", "untaint"}
      BY Zenon, <2>5 DEF GetValid, GetNotRestored, RecvFromGet, GetUntaint, GetInvalid
    <3>5. op[g].pc \in InLock /\ op[g].pc \notin Caching /\ ~rec.fresh
      BY Zenon, <1>0, <3>3, <3>4 DEF InLock, Caching
    <3>6. rec.pc \notin Caching \cup {"restore", "store"} /\ rec.pc # "login"
      BY Zenon, <3>1, <3>3 DEF Caching
    <3> QED
      BY Zenon, <3>2, <3>3, <3>5, <3>6, CallerCalm
  <2> QED
    BY Zenon, <2>1, <2>2, <2>3, <2>4, <2>5
<1>2. WatchersCalm /\ CacheCalm
  <2>1. CASE GetInvalid(g)
    <3>1. PICK K \in SUBSET Key, r \in BOOLEAN : Remove(K, r)
      BY Zenon, <1>0, <2>1 DEF GetInvalid, revokeOnEvict, OpRec
    <3> QED
      BY Zenon, <3>1, RemoveCalm
  <2>2. CASE GetUntaint(g) \/ UseClient(g)
    <3>1. op[g].c \in Client /\ client \in [Client -> ClientRec]
      BY Zenon, <1>inv, <2>2 DEF TypeOK, Held, Holding, GetUntaint, UseClient
    <3>2. PICK b : client' = [client EXCEPT ![op[g].c].taint = b]
      BY Zenon, <2>2 DEF GetUntaint, UseClient
    <3>3. UNCHANGED <<cache, token, store>>
      BY Zenon, <2>2 DEF GetUntaint, UseClient, UnchangedCache
    <3>4. \A c \in Client : /\ client'[c].st = client[c].st /\ client'[c].key = client[c].key
                            /\ client'[c].tok = client[c].tok /\ client'[c].watch = client[c].watch
      BY Zenon, <3>1, <3>2 DEF ClientRec
    <3> QED
      BY Zenon, <3>3, <3>4, ClientCalm
  <2>3. CASE \/ \E a \in Auth, n \in NS : GetBegin(g, a, n)
             \/ GetValid(g) \/ GetNotRestored(g) \/ GetRead(g) \/ GetFailed(g)
             \/ GetRoot(g) \/ GetCloneHit(g) \/ RecvFromGet(g)
    <3>1. UNCHANGED <<client, cache, token>>
      BY Zenon, <2>3
         DEF GetBegin, GetValid, GetNotRestored, GetRead, GetFailed, GetRoot, GetCloneHit,
                         RecvFromGet, UnchangedCache
    <3>2. \A k \in Key : store'[k] # None => store'[k] = store[k]
      BY Zenon, <1>inv, <2>3 DEF GetBegin, GetValid, GetNotRestored, GetRead, GetFailed, GetRoot,
                         GetCloneHit, RecvFromGet, UnchangedCache, TypeOK
    <3> QED
      BY Zenon, <1>inv, <3>1, <3>2, SameCalm
  <2> QED
    BY Zenon, <2>1, <2>2, <2>3
<1> QED
  BY Zenon, <1>1, <1>2, CalmKeeps

\* Taking out what is cached under the key of the client to cache.
LEMMA UncacheOwns ==
  ASSUME CacheInv, OwnInv, TokenInv, NEW g \in Getter, GetUncache(g)
  PROVE  OwnInv' /\ TokenInv'
<1>inv. TypeOK /\ Held
  BY Zenon DEF CacheInv
<1>0. op[g] \in OpRec /\ op[g].pc = "uncache"
  BY Zenon, <1>inv DEF TypeOK, GetUncache
<1>1. PICK k \in Key : k = client[op[g].c].key
  BY Zenon, <1>inv, <1>0, CachingHolds DEF Caching, TypeOK, ClientRec
<1>2. PICK r \in BOOLEAN : Remove({k}, r)
  BY Zenon, <1>1 DEF GetUncache, revokeOnEvict
<1>3. WatchersCalm /\ CacheCalm /\ cache'[k] = None
  <2>1. PICK K \in SUBSET Key : K = {k}
    BY Zenon
  <2> QED
    BY Zenon, <1>2, <2>1, RemoveCalm
<1> DEFINE rec == [op[g] EXCEPT !.pc = "add"]
<1>4. rec.pc = "add" /\ rec.key = op[g].key /\ rec.c = op[g].c /\ rec.fresh = op[g].fresh
  BY Zenon, <1>0 DEF OpRec
<1>5. op' = [op EXCEPT ![g] = rec]
  BY Zenon, <1>inv DEF GetUncache, TypeOK
<1> HIDE DEF rec
<1>6. op'[g] = rec /\ \A h \in Getter \ {g} : op'[h] = op[h]
  BY Zenon, <1>inv, <1>5 DEF TypeOK
<1>7. CallersCalm
  <2>1. ASSUME NEW h \in Getter, h # g
        PROVE  /\ op'[h] = op[h]
               /\ op'[h].pc = "login" => op'[h].nkey[1] = op'[h].key[1]
               /\ op'[h].fresh => op'[h].pc \in {"uncache", "add", "store", "ns"}
               /\ op'[h].pc = "store" => op'[h].fresh
               /\ Fresh(h)' => Fresh(h)
    BY Zenon, <1>6, <2>1 DEF OwnInv, Fresh
  <2>2. Fresh(g)' => Fresh(g)
    BY Zenon, <1>0, <1>4, <1>6 DEF Fresh
  <2> QED
    BY Zenon, <1>0, <1>1, <1>3, <1>4, <1>6, <2>1, <2>2 DEF CallersCalm, Caching, InLock
<1> QED
  BY Zenon, <1>3, <1>7, CalmKeeps

\* A client created without a watcher of its own (a clone), or that nobody keeps.
LEMMA CloneOwns ==
  ASSUME CacheInv, OwnInv, TokenInv, NEW g \in Getter, NEW d \in Client,
         GetClone(g, d) \/ GetRestoreAbandoned(g, d)
  PROVE  OwnInv' /\ TokenInv'
<1>inv. TypeOK /\ Held
  BY Zenon DEF CacheInv
<1>0. op[g] \in OpRec /\ (op[g].fresh => op[g].pc \in {"uncache", "add", "store", "ns"})
  BY Zenon, <1>inv DEF TypeOK, OwnInv
<1>1. CASE GetClone(g, d)
  <2> DEFINE r == [st |-> "open", key |-> client[op[g].c].key, tok |-> client[op[g].c].tok,
                   ns |-> op[g].ns, taint |-> FALSE, watch |-> "none"]
             rec == [IdleOp EXCEPT !.pc = "have", !.c = d]
  <2>1. /\ client[d].st = "free" /\ client' = [client EXCEPT ![d] = r]
        /\ UNCHANGED <<cache, token, store>>
    BY Zenon, <1>1 DEF GetClone
  <2>2. r.watch # "run" /\ r.tok = client[op[g].c].tok
    BY Zenon
  <2> HIDE DEF r
  <2>3. InUse(r.tok)
    BY Zenon, <1>inv, <1>1, <2>2 DEF InUse, GetClone, Held, Holding
  <2>4. op' = [op EXCEPT ![g] = rec] /\ op[g].pc = "ns"
    BY Zenon, <1>1 DEF GetClone, Return
  <2>5. rec.pc = "have" /\ rec.fresh = FALSE
    BY Zenon DEF IdleOp
  <2> HIDE DEF rec
  <2>6. CallersCalm
    BY Zenon, <2>4, <2>5, CallerCalm DEF InLock, Caching
  <2>7. WatchersCalm /\ CacheCalm
    BY Zenon, <1>inv, <2>1, <2>2, <2>3, NewCalm
  <2> QED
    BY Zenon, <2>6, <2>7, CalmKeeps
<1>2. CASE GetRestoreAbandoned(g, d)
  <2> DEFINE t == store[op[g].key]
             r == [LoggedIn(op[g].key, t, TRUE) EXCEPT !.watch = "orphan"]
             rec == [op[g] EXCEPT !.pc = "read"]
  <2>1. /\ client[d].st = "free" /\ client' = [client EXCEPT ![d] = r]
        /\ UNCHANGED <<cache, token>> /\ op[g].pc = "restore"
    BY Zenon, <1>2 DEF GetRestoreAbandoned
  <2>2. r.watch = "orphan" /\ r.tok = t
    BY Zenon DEF LoggedIn
  <2> HIDE DEF r
  <2>3. InUse(r.tok)
    BY Zenon, <1>0, <2>2 DEF InUse, OpRec
  <2>4. \A k \in Key : store'[k] # None => store'[k] = store[k]
    BY Zenon, <1>inv, <1>2 DEF GetRestoreAbandoned, TypeOK
  <2>5. op' = [op EXCEPT ![g] = rec]
    BY Zenon, <1>inv, <1>2 DEF GetRestoreAbandoned, TypeOK
  <2>6. rec.pc = "read" /\ rec.key = op[g].key /\ ~rec.fresh
    BY Zenon, <1>0, <2>1 DEF OpRec
  <2> HIDE DEF rec
  <2>7. CallersCalm
    BY Zenon, <2>1, <2>5, <2>6, CallerCalm DEF InLock, Caching
  <2>8. WatchersCalm /\ CacheCalm
    BY Zenon, <1>inv, <2>1, <2>2, <2>3, <2>4, NewCalm
  <2> QED
    BY Zenon, <2>7, <2>8, CalmKeeps
<1> QED
  BY Zenon, <1>1, <1>2

\* What a restart leaves of a client.
LEMMA EndedClient ==
  ASSUME NEW r \in ClientRec
  PROVE  LET e == [r EXCEPT !.st = "closed", !.watch = "none"] IN
         e.st = "closed" /\ e.key = r.key /\ e.tok = r.tok
BY Zenon DEF ClientRec

\* The callback handler, the VaultAuth controller and the environment keep the invariants.
LEMMA RestOwns ==
  ASSUME CacheInv, OwnInv, TokenInv,
         \/ HandlerStep
         \/ \E k \in Key : RecvFromPrune(k)
         \/ \E c \in Client : RecvFromWatcher(c)
         \/ ControllerStep
         \/ Environment
  PROVE  OwnInv' /\ TokenInv'
<1>inv. TypeOK
  BY Zenon DEF CacheInv
<1>1. CASE HandlerRemove \/ PruneCache \/ \E mode \in ShutDowns : ShutDown(mode)
  <2>1. PICK K \in SUBSET Key, r \in BOOLEAN : Remove(K, r)
    <3>1. hd.key \in Key /\ PruneFilter \subseteq Key
      BY Zenon, <1>inv DEF TypeOK, HandlerRec, PruneFilter, Cached
    <3>2. CASE HandlerRemove
      BY Zenon, <3>1, <3>2 DEF HandlerRemove, revokeOnEvict
    <3>3. CASE PruneCache
      BY Zenon, <3>1, <3>3 DEF PruneCache, revokeOnEvict
    <3>4. CASE \E mode \in ShutDowns : ShutDown(mode)
      BY Zenon, <3>4 DEF ShutDown
    <3> QED
      BY Zenon, <1>1, <3>2, <3>3, <3>4
  <2>2. UNCHANGED op
    BY Zenon, <1>1 DEF HandlerRemove, PruneCache, ShutDown
  <2> QED
    BY Zenon, <2>1, <2>2, RemoveCalm, IdleCallersCalm, CalmKeeps
<1>2. CASE \E c \in Client : RecvFromWatcher(c) \/ WatcherDone(c)
  <2>1. PICK c \in Client, w \in {"none", "sending"} : client' = [client EXCEPT ![c].watch = w]
    BY Zenon, <1>2 DEF RecvFromWatcher, WatcherDone
  <2>2. UNCHANGED <<cache, token, store, op>>
    BY Zenon, <1>2 DEF RecvFromWatcher, WatcherDone, UnchangedCache
  <2>3. \A e \in Client : /\ client'[e].st = client[e].st /\ client'[e].key = client[e].key
                          /\ client'[e].tok = client[e].tok
                          /\ client'[e].watch = "run" => client[e].watch = "run"
    BY Zenon, <1>inv, <2>1 DEF TypeOK, ClientRec
  <2> QED
    BY Zenon, <2>2, <2>3, ClientCalm, IdleCallersCalm, CalmKeeps
<1>3. CASE \/ HandlerPruneStorage \/ HandlerCall
           \/ \E k \in Key : RecvFromPrune(k)
           \/ \E t \in Token : TokenRevoked(t) \/ TokenLapsed(t)
           \/ \E a \in Auth : AuthDeleted(a) \/ \E newGen \in BOOLEAN : SpecChanged(a, newGen)
           \/ ControllerStep /\ ~PruneCache
  <2>1. UNCHANGED <<op, client, cache>>
    BY Zenon, <1>3 DEF HandlerPruneStorage, HandlerCall, RecvFromPrune, TokenRevoked, TokenLapsed,
         AuthDeleted, SpecChanged, ControllerStep, AuthReconcile, AuthFinalize, AuthNotFound,
         AuthReconcileError, PruneSent, PruneUnstore, AuthStatus, AuthFinalized, AuthWriteFailed,
         RestOfPrune, UnchangedCache
  <2>2. \A t \in Token : token[t].st # "free" => token'[t].st # "free"
    <3>1. CASE \E t \in Token : TokenRevoked(t) \/ TokenLapsed(t)
      <4>1. PICK t \in Token, st \in {"revoked", "lapsed"} : token' = [token EXCEPT ![t].st = st]
        BY Zenon, <3>1 DEF TokenRevoked, TokenLapsed
      <4> QED
        BY Zenon, <1>inv, <4>1 DEF TypeOK, TokenRec
    <3>2. CASE token' = token
      BY Zenon, <3>2
    <3> QED
      BY Zenon, <1>3, <3>1, <3>2 DEF HandlerPruneStorage, HandlerCall, RecvFromPrune, AuthDeleted,
         SpecChanged, ControllerStep, AuthReconcile, AuthFinalize, AuthNotFound, AuthReconcileError,
         PruneSent, PruneUnstore, AuthStatus, AuthFinalized, AuthWriteFailed, RestOfPrune,
         UnchangedCache
  <2>3. \A k \in Key : store'[k] # None => store'[k] = store[k]
    <3>1. CASE HandlerPruneStorage
      BY Zenon, <1>inv, <3>1 DEF HandlerPruneStorage, TypeOK
    <3>2. CASE \E failed \in SUBSET pr.todo : PruneUnstore(failed)
      BY Zenon, <3>2 DEF PruneUnstore
    <3>3. CASE store' = store
      BY Zenon, <3>3
    <3> QED
      BY Zenon, <1>3, <3>1, <3>2, <3>3 DEF HandlerCall, RecvFromPrune, TokenRevoked, TokenLapsed,
         AuthDeleted, SpecChanged, ControllerStep, AuthReconcile, AuthFinalize, AuthNotFound,
         AuthReconcileError, PruneSent, AuthStatus, AuthFinalized, AuthWriteFailed, RestOfPrune,
         UnchangedCache
  <2> QED
    BY Zenon, <1>inv, <2>1, <2>2, <2>3, SameCalm, IdleCallersCalm, CalmKeeps
<1>4. CASE Restart
  <2>1. \A c \in Client : client'[c] = IF client[c].st = "free" THEN client[c]
                                       ELSE [client[c] EXCEPT !.st = "closed", !.watch = "none"]
    BY Zenon, <1>4 DEF Restart
  <2>2. \A c \in Client : /\ client[c].st = "free" => client'[c].st = "free"
                          /\ client[c].st # "free" =>
                               client'[c].st = "closed" /\ client'[c].key = client[c].key
                               /\ client'[c].tok = client[c].tok
    <3>1. \A c \in Client : client[c] \in ClientRec
      BY Zenon, <1>inv DEF TypeOK
    <3> SUFFICES ASSUME NEW c \in Client
                 PROVE  /\ client[c].st = "free" => client'[c].st = "free"
                        /\ client[c].st # "free" =>
                             client'[c].st = "closed" /\ client'[c].key = client[c].key
                             /\ client'[c].tok = client[c].tok
      BY Zenon
    <3>2. client[c].st # "free" =>
            client'[c] = [client[c] EXCEPT !.st = "closed", !.watch = "none"]
      BY Zenon, <2>1
    <3>3. client[c].st = "free" => client'[c] = client[c]
      BY Zenon, <2>1
    <3> QED
      BY Zenon, <3>1, <3>2, <3>3, EndedClient
  <2>3. \A c \in Client : ~Runs(c)'
    BY Zenon, <2>2 DEF Runs
  <2>4. UNCHANGED <<token, store>> /\ \A k \in Key : cache'[k] = None
    BY Zenon, <1>4 DEF Restart
  <2>5. \A t \in Token : InUse(t)' => InUse(t)
    BY Zenon, <2>2, <2>4 DEF InUse
  <2>6. \A g \in Getter : op'[g].pc = "idle" /\ op'[g].fresh = FALSE
    BY Zenon, <1>4 DEF Restart, IdleOp
  <2>7. CallersCalm
    BY Zenon, <2>3, <2>6 DEF CallersCalm, Caching, InLock, Fresh
  <2>8. WatchersCalm /\ CacheCalm
    BY Zenon, <2>2, <2>3, <2>4, <2>5 DEF WatchersCalm, CacheCalm
  <2> QED
    BY Zenon, <2>7, <2>8, CalmKeeps
<1> QED
  BY Zenon, <1>1, <1>2, <1>3, <1>4 DEF HandlerStep, Environment

\* The key's lock keeps callers for the same VaultAuth apart, when it has one key.
LEMMA LockOwns ==
  ASSUME OneKeyAtATime, CacheInv, OwnInv, TokenInv, NEW g \in Getter, GetLock(g)
  PROVE  OwnInv' /\ TokenInv'
<1>inv. TypeOK /\ CachedOpen
  BY Zenon DEF CacheInv
<1> DEFINE rec == [op[g] EXCEPT !.c = cache[op[g].key],
                                !.pc = IF cache[op[g].key] # None THEN "validate"
                                       ELSE IF Persist THEN "restore" ELSE "read"]
<1>0. op[g] \in OpRec /\ op[g].pc = "lock" /\ op[g].fresh = FALSE /\ op[g].key \in Key
  <2>1. op[g] \in OpRec /\ op[g].pc = "lock" /\ op[g].key \in Key /\ op[g].fresh \in BOOLEAN
    BY Zenon, <1>inv DEF TypeOK, GetLock, OpRec
  <2> QED
    BY Zenon, <2>1 DEF OwnInv
<1>1. /\ rec.key = op[g].key /\ rec.fresh = FALSE /\ rec.pc \in {"validate", "restore", "read"}
      /\ rec.pc = "restore" => cache[op[g].key] = None
  BY Zenon, <1>0 DEF OpRec
<1>2. op' = [op EXCEPT ![g] = rec]
  BY Zenon, <1>inv DEF GetLock, TypeOK
<1> HIDE DEF rec
<1>3. op'[g] = rec /\ \A h \in Getter \ {g} : op'[h] = op[h]
  BY Zenon, <1>inv, <1>2 DEF TypeOK
<1>4. UNCHANGED <<client, cache, token, store>>
  BY Zenon DEF GetLock, UnchangedCache
<1>5. WatchersCalm
  BY Zenon, <1>inv, <1>4, SameCalm
<1>6. \A h \in Getter : Fresh(h)' => Fresh(h) /\ op'[h].c = op[h].c
  BY Zenon, <1>1, <1>3 DEF Fresh
<1>7. TokenInv'
  BY Zenon, <1>5, <1>6, TokenFrame
<1>8. ASSUME NEW h \in Getter, h # g, op[h].pc \in InLock
      PROVE  op[h].key[1] # op[g].key[1]
  <2>1. op[h].key # op[g].key /\ op[h].key \in Key
    BY Zenon, <1>inv, <1>8 DEF GetLock, TypeOK, OpRec
  <2>2. MaxSpec = 1
    BY Zenon, <1>8 DEF OneKeyAtATime
  <2>3. \A k \in Key : k = <<k[1], 1>>
    BY <2>2 DEF Key, SpecV
  <2> QED
    BY Zenon, <1>0, <2>1, <2>3
<1>9. \A i, h \in Getter : op'[i].pc \in InLock /\ op'[h].pc \in InLock
                           /\ op'[i].key[1] = op'[h].key[1] => i = h
  <2> SUFFICES ASSUME NEW i \in Getter, NEW h \in Getter, op'[i].pc \in InLock,
                      op'[h].pc \in InLock, op'[i].key[1] = op'[h].key[1], i # h
               PROVE  FALSE
    BY Zenon
  <2>1. CASE i = g
    <3>1. op'[h] = op[h] /\ op'[i].key = op[g].key
      BY Zenon, <1>1, <1>3, <2>1
    <3> QED
      BY Zenon, <1>8, <2>1, <3>1
  <2>2. CASE h = g
    <3>1. op'[i] = op[i] /\ op'[h].key = op[g].key
      BY Zenon, <1>1, <1>3, <2>2
    <3> QED
      BY Zenon, <1>8, <2>2, <3>1
  <2>3. CASE i # g /\ h # g
    <3>1. op'[i] = op[i] /\ op'[h] = op[h]
      BY Zenon, <1>3, <2>3
    <3>2. op[i].pc \in InLock /\ op[h].pc \in InLock /\ op[i].key[1] = op[h].key[1] => i = h
      BY Zenon DEF OwnInv
    <3> QED
      BY Zenon, <3>1, <3>2
  <2> QED
    BY Zenon, <2>1, <2>2, <2>3
<1>10. \A h \in Getter :
         /\ op'[h].pc \in Caching => client'[op'[h].c].key[1] = op'[h].key[1]
         /\ op'[h].pc = "login" => op'[h].nkey[1] = op'[h].key[1]
         /\ op'[h].pc = "add" => cache'[client'[op'[h].c].key] = None
         /\ op'[h].pc = "restore" => cache'[op'[h].key] = None
         /\ op'[h].fresh => op'[h].pc \in {"uncache", "add", "store", "ns"}
         /\ op'[h].pc = "store" => op'[h].fresh
  <2> SUFFICES ASSUME NEW h \in Getter
               PROVE  /\ op'[h].pc \in Caching => client'[op'[h].c].key[1] = op'[h].key[1]
                      /\ op'[h].pc = "login" => op'[h].nkey[1] = op'[h].key[1]
                      /\ op'[h].pc = "add" => cache'[client'[op'[h].c].key] = None
                      /\ op'[h].pc = "restore" => cache'[op'[h].key] = None
                      /\ op'[h].fresh => op'[h].pc \in {"uncache", "add", "store", "ns"}
                      /\ op'[h].pc = "store" => op'[h].fresh
    BY Zenon
  <2>1. CASE h = g
    BY Zenon, <1>1, <1>3, <1>4, <2>1 DEF Caching
  <2>2. CASE h # g
    <3>1. op'[h] = op[h]
      BY Zenon, <1>3, <2>2
    <3> QED
      BY ZenonT(40), <1>4, <3>1 DEF OwnInv
  <2> QED
    BY Zenon, <2>1, <2>2
<1>11. WatcherOwned'
  <2>1. \A h \in Getter : op[h].pc \in {"uncache", "add"} => op'[h] = op[h]
    BY Zenon, <1>0, <1>3
  <2>2. WatcherOwned
    BY Zenon DEF OwnInv
  <2> QED
    BY ZenonT(40), <1>4, <2>1, <2>2 DEF WatcherOwned
<1> QED
  BY Zenon, <1>7, <1>9, <1>10, <1>11 DEF OwnInv

\* A new root client, logged in or restored, in the hands of a caller that holds its key's lock.
LEMMA NewRootOwns ==
  ASSUME CacheInv, OwnInv, NEW g \in Getter, NEW d \in Client, NEW r, NEW rec,
         client[d].st = "free", client' = [client EXCEPT ![d] = r], UNCHANGED cache,
         op' = [op EXCEPT ![g] = rec], op[g].pc \in {"restore", "login"},
         rec.pc = "uncache", rec.c = d, rec.key = op[g].key, r.key[1] = op[g].key[1]
  PROVE  OwnInv'
<1>inv. TypeOK /\ CachedOpen
  BY Zenon DEF CacheInv
<1>1. client'[d] = r /\ \A c \in Client \ {d} : client'[c] = client[c]
  BY Zenon, <1>inv DEF TypeOK
<1>2. op'[g] = rec /\ \A h \in Getter \ {g} : op'[h] = op[h]
  BY Zenon, <1>inv DEF TypeOK
<1>3. op[g].pc \in InLock
  BY Zenon DEF InLock
<1>4. \A h \in Getter : op'[h].pc \in InLock => op[h].pc \in InLock /\ op'[h].key = op[h].key
  BY Zenon, <1>2, <1>3
<1>5. \A h, i \in Getter : op'[h].pc \in InLock /\ op'[i].pc \in InLock
                           /\ op'[h].key[1] = op'[i].key[1] => h = i
  <2> SUFFICES ASSUME NEW h \in Getter, NEW i \in Getter, op'[h].pc \in InLock,
                      op'[i].pc \in InLock, op'[h].key[1] = op'[i].key[1]
               PROVE  h = i
    BY Zenon
  <2>1. /\ op[h].pc \in InLock /\ op'[h].key = op[h].key
        /\ op[i].pc \in InLock /\ op'[i].key = op[i].key
    BY Zenon, <1>4
  <2>2. op[h].pc \in InLock /\ op[i].pc \in InLock /\ op[h].key[1] = op[i].key[1] => h = i
    BY Zenon DEF OwnInv
  <2> QED
    BY Zenon, <2>1, <2>2
<1>6. \A h \in Getter : h # g /\ op[h].pc \in Caching =>
        op'[h] = op[h] /\ client'[op[h].c] = client[op[h].c]
  BY Zenon, <1>1, <1>2, CachingHolds
<1>7. \A h \in Getter :
        /\ op[h].pc \in Caching => client[op[h].c].key[1] = op[h].key[1]
        /\ op[h].pc = "login" => op[h].nkey[1] = op[h].key[1]
        /\ op[h].pc = "add" => cache[client[op[h].c].key] = None
        /\ op[h].pc = "restore" => cache[op[h].key] = None
        /\ op[h].fresh => op[h].pc \in {"uncache", "add", "store", "ns"}
        /\ op[h].pc = "store" => op[h].fresh
  BY Zenon DEF OwnInv
<1>8. ASSUME NEW h \in Getter
      PROVE  /\ op'[h].pc \in Caching => client'[op'[h].c].key[1] = op'[h].key[1]
             /\ op'[h].pc = "login" => op'[h].nkey[1] = op'[h].key[1]
             /\ op'[h].pc = "add" => cache'[client'[op'[h].c].key] = None
             /\ op'[h].pc = "restore" => cache'[op'[h].key] = None
             /\ op'[h].fresh => op'[h].pc \in {"uncache", "add", "store", "ns"}
             /\ op'[h].pc = "store" => op'[h].fresh
  <2>1. CASE h = g
    <3>1. op'[h].pc = "uncache" /\ op'[h].c = d /\ op'[h].key = op[g].key
      BY Zenon, <1>2, <2>1
    <3> QED
      BY Zenon, <1>1, <3>1
  <2>2. CASE h # g
    <3>1. op'[h] = op[h] /\ (op[h].pc \in Caching => client'[op[h].c] = client[op[h].c])
      BY Zenon, <1>2, <1>6, <2>2
    <3>2. "add" \in Caching
      BY Zenon DEF Caching
    <3>3. op[h].pc \in Caching => client'[op'[h].c] = client[op[h].c]
      BY Zenon, <3>1
    <3>4. /\ op[h].pc \in Caching => client'[op'[h].c].key[1] = op[h].key[1]
          /\ op[h].pc = "add" => cache'[client'[op'[h].c].key] = None
      BY Zenon, <1>7, <3>2, <3>3
    <3>5. /\ op[h].pc = "login" => op[h].nkey[1] = op[h].key[1]
          /\ op[h].pc = "restore" => cache'[op[h].key] = None
          /\ op[h].fresh => op[h].pc \in {"uncache", "add", "store", "ns"}
          /\ op[h].pc = "store" => op[h].fresh
      BY Zenon, <1>7
    <3> QED
      BY Zenon, <3>1, <3>4, <3>5
  <2> QED
    BY Zenon, <2>1, <2>2
<1>9. WatcherOwned'
  <2> SUFFICES ASSUME NEW c \in Client, Runs(c)'
               PROVE  \/ cache'[client'[c].key] = c
                      \/ \E h \in Getter : op'[h].c = c /\ op'[h].pc \in {"uncache", "add"}
    BY Zenon DEF WatcherOwned, Runs
  <2>1. CASE c = d
    BY Zenon, <1>2, <2>1
  <2>2. CASE c # d
    <3>1. client'[c] = client[c] /\ Runs(c)
      BY Zenon, <1>1, <2>2 DEF Runs
    <3>2. \/ cache[client[c].key] = c
          \/ \E h \in Getter : op[h].c = c /\ op[h].pc \in {"uncache", "add"}
      BY Zenon, <3>1 DEF OwnInv, WatcherOwned, Runs
    <3>3. \A h \in Getter : op[h].pc \in {"uncache", "add"} => op'[h] = op[h]
      BY Zenon, <1>2
    <3> QED
      BY Zenon, <3>1, <3>2, <3>3
  <2> QED
    BY Zenon, <2>1, <2>2
<1> QED
  BY Zenon, <1>5, <1>8, <1>9 DEF OwnInv

\* A login puts a token into use that nobody had.
LEMMA LoginOwns ==
  ASSUME CacheInv, OwnInv, TokenInv, NEW g \in Getter, NEW d \in Client, NEW t \in Token,
         NEW r \in Renewables, GetLogin(g, d, t, r)
  PROVE  OwnInv' /\ TokenInv'
<1>inv. TypeOK /\ Held
  BY Zenon DEF CacheInv
<1> DEFINE new == LoggedIn(op[g].nkey, t, r)
           rec == [IdleOp EXCEPT !.pc = "uncache", !.key = op[g].key, !.ns = op[g].ns,
                                 !.c = d, !.fresh = TRUE]
<1>1. /\ client[d].st = "free" /\ token[t].st = "free" /\ op[g].pc = "login"
      /\ client' = [client EXCEPT ![d] = new] /\ op' = [op EXCEPT ![g] = rec]
      /\ UNCHANGED <<cache, store>>
  BY Zenon DEF GetLogin
<1>2. new.key = op[g].nkey /\ new.tok = t
  BY Zenon DEF LoggedIn
<1>3. rec.pc = "uncache" /\ rec.c = d /\ rec.key = op[g].key
  BY Zenon DEF IdleOp
<1> HIDE DEF new, rec
<1>4. OwnInv'
  <2>1. new.key[1] = op[g].key[1]
    BY Zenon, <1>1, <1>2 DEF OwnInv
  <2> QED
    BY Zenon, <1>1, <1>3, <2>1, NewRootOwns
<1>5. /\ client'[d].tok = t /\ \A c \in Client \ {d} : client'[c] = client[c]
  BY Zenon, <1>inv, <1>1, <1>2 DEF TypeOK
<1>6. op'[g].c = d /\ \A h \in Getter \ {g} : op'[h] = op[h]
  BY Zenon, <1>inv, <1>1, <1>3 DEF TypeOK
<1>7. token'[t].st = "live" /\ \A u \in Token \ {t} : token'[u] = token[u]
  BY Zenon, <1>inv DEF GetLogin, TypeOK
<1>8. ~InUse(t)
  BY Zenon, <1>1 DEF TokenInv
<1>9. /\ \A c \in Client : Runs(c)' /\ c # d => Runs(c) /\ client'[c] = client[c] /\ client[c].tok # t
      /\ \A k \in Key : store[k] # t
  BY Zenon, <1>5, <1>8 DEF Runs, InUse
<1>10. \A h \in Getter : Fresh(h)' /\ h # g =>
         /\ Fresh(h) /\ op'[h].c = op[h].c /\ op[h].c \in Client \ {d}
         /\ client'[op[h].c] = client[op[h].c] /\ client[op[h].c].tok # t
  <2> SUFFICES ASSUME NEW h \in Getter, Fresh(h)', h # g
               PROVE  /\ Fresh(h) /\ op'[h].c = op[h].c /\ op[h].c \in Client \ {d}
                      /\ client'[op[h].c] = client[op[h].c] /\ client[op[h].c].tok # t
    BY Zenon
  <2>1. Fresh(h) /\ op'[h] = op[h]
    BY Zenon, <1>6 DEF Fresh
  <2>2. op[h].c \in Client /\ client[op[h].c].st # "free"
    BY Zenon, <2>1, CachingHolds
  <2> QED
    BY Zenon, <1>1, <1>5, <1>8, <2>1, <2>2 DEF InUse
<1>11. \A u \in Token : InUse(u)' => token'[u].st # "free"
  <2>1. \A u \in Token : InUse(u)' /\ u # t => InUse(u)
    <3> SUFFICES ASSUME NEW u \in Token, InUse(u)', u # t PROVE InUse(u)
      BY Zenon
    <3>1. CASE \E c \in Client : client'[c].st # "free" /\ client'[c].tok = u
      <4>1. PICK c \in Client : client'[c].st # "free" /\ client'[c].tok = u
        BY Zenon, <3>1
      <4> QED
        BY Zenon, <1>5, <4>1 DEF InUse
    <3>2. CASE \E k \in Key : store'[k] = u
      BY Zenon, <1>1, <3>2 DEF InUse
    <3> QED
      BY Zenon, <3>1, <3>2 DEF InUse
  <2>2. \A u \in Token : InUse(u) => token[u].st # "free"
    BY Zenon DEF TokenInv
  <2> QED
    BY Zenon, <1>7, <2>1, <2>2
<1>12. \A j, k \in Key : store'[j] # None /\ store'[j] = store'[k] => j = k
  <2>1. \A j, k \in Key : store[j] # None /\ store[j] = store[k] => j = k
    BY Zenon DEF TokenInv
  <2> QED
    BY Zenon, <1>1, <2>1
<1>13. \A k \in Key, c \in Client : Runs(c)' /\ client'[c].tok = store'[k] => client'[c].key = k
  <2>1. \A k \in Key, c \in Client : Runs(c) /\ client[c].tok = store[k] => client[c].key = k
    BY Zenon DEF TokenInv
  <2> SUFFICES ASSUME NEW k \in Key, NEW c \in Client, Runs(c)', client'[c].tok = store'[k]
               PROVE  client'[c].key = k
    BY Zenon
  <2>2. store'[k] # t
    BY Zenon, <1>1, <1>9
  <2>3. c # d
    BY Zenon, <1>5, <2>2
  <2> QED
    BY Zenon, <1>1, <1>9, <2>1, <2>3
<1>14. ASSUME NEW h \in Getter, Fresh(h)'
       PROVE  /\ \A k \in Key : store'[k] # client'[op'[h].c].tok
              /\ \A c \in Client : Runs(c)' /\ client'[c].tok = client'[op'[h].c].tok => c = op'[h].c
              /\ \A i \in Getter : Fresh(i)' /\ client'[op'[i].c].tok = client'[op'[h].c].tok => i = h
  <2>1. CASE h = g
    <3>1. op'[h].c = d /\ client'[op'[h].c].tok = t
      BY Zenon, <1>5, <1>6, <2>1
    <3>2. \A k \in Key : store'[k] # t
      BY Zenon, <1>1, <1>9
    <3>3. \A c \in Client : Runs(c)' /\ client'[c].tok = t => c = d
      BY Zenon, <1>9
    <3>4. \A i \in Getter : Fresh(i)' /\ client'[op'[i].c].tok = t => i = g
      BY Zenon, <1>10
    <3> QED
      BY Zenon, <2>1, <3>1, <3>2, <3>3, <3>4
  <2>2. CASE h # g
    <3>1. /\ Fresh(h) /\ op'[h].c = op[h].c /\ op[h].c \in Client \ {d}
          /\ client'[op[h].c] = client[op[h].c] /\ client[op[h].c].tok # t
      BY Zenon, <1>10, <1>14, <2>2
    <3>2. /\ \A k \in Key : store[k] # client[op[h].c].tok
          /\ \A c \in Client : Runs(c) /\ client[c].tok = client[op[h].c].tok => c = op[h].c
          /\ \A i \in Getter : Fresh(i) /\ client[op[i].c].tok = client[op[h].c].tok => i = h
      BY Zenon, <3>1 DEF TokenInv
    <3>3. \A k \in Key : store'[k] # client'[op'[h].c].tok
      BY Zenon, <1>1, <3>1, <3>2
    <3>4. \A c \in Client : Runs(c)' /\ client'[c].tok = client'[op'[h].c].tok => c = op'[h].c
      BY Zenon, <1>5, <1>9, <3>1, <3>2
    <3>5. ASSUME NEW i \in Getter, Fresh(i)', client'[op'[i].c].tok = client'[op'[h].c].tok
          PROVE  i = h
      <4>1. client'[op'[h].c].tok # t
        BY Zenon, <3>1
      <4>2. i # g
        BY Zenon, <1>5, <1>6, <3>5, <4>1
      <4>3. Fresh(i) /\ client'[op'[i].c].tok = client[op[i].c].tok
        BY Zenon, <1>10, <3>5, <4>2
      <4> QED
        BY Zenon, <3>1, <3>2, <3>5, <4>3
    <3> QED
      BY Zenon, <3>3, <3>4, <3>5
  <2> QED
    BY Zenon, <2>1, <2>2
<1>15. SingleWatcher'
  <2> SUFFICES ASSUME NEW c \in Client, NEW e \in Client, Runs(c)', Runs(e)',
                      client'[c].tok = client'[e].tok, c # e
               PROVE  FALSE
    BY Zenon DEF SingleWatcher, Runs
  <2>1. CASE c = d
    BY Zenon, <1>5, <1>9, <2>1
  <2>2. CASE e = d
    BY Zenon, <1>5, <1>9, <2>2
  <2>3. CASE c # d /\ e # d
    <3>1. Runs(c) /\ Runs(e) /\ client[c].tok = client[e].tok
      BY Zenon, <1>9, <2>3
    <3> QED
      BY Zenon, <3>1 DEF TokenInv, SingleWatcher, Runs
  <2> QED
    BY Zenon, <2>1, <2>2, <2>3
<1> QED
  BY Zenon, <1>4, <1>11, <1>12, <1>13, <1>14, <1>15 DEF TokenInv

\* A restored client gets the token stored under its key: the client that had it was closed,
\* for none is cached under the key and no other caller works for the VaultAuth.
LEMMA RestoredOwns ==
  ASSUME CacheInv, OwnInv, TokenInv, NEW g \in Getter, NEW d \in Client, GetRestored(g, d)
  PROVE  OwnInv' /\ TokenInv'
<1>inv. TypeOK /\ Held
  BY Zenon DEF CacheInv
<1>0. PICK k \in Key : k = op[g].key /\ op[g] \in OpRec
  BY Zenon, <1>inv DEF TypeOK, OpRec
<1>1. PICK t \in Token : t = store[k]
  BY Zenon, <1>inv, <1>0 DEF GetRestored, TypeOK
<1> DEFINE new == LoggedIn(k, t, TRUE)
           rec == [op[g] EXCEPT !.pc = "uncache", !.c = d]
<1>2. /\ client[d].st = "free" /\ op[g].pc = "restore"
      /\ client' = [client EXCEPT ![d] = new] /\ UNCHANGED <<cache, store, token>>
  BY Zenon, <1>0, <1>1 DEF GetRestored, UnchangedCache
<1>3. op' = [op EXCEPT ![g] = rec]
  BY Zenon, <1>inv DEF GetRestored, TypeOK
<1>4. new.key = k /\ new.tok = t
  BY Zenon DEF LoggedIn
<1>5. rec.pc = "uncache" /\ rec.c = d /\ rec.key = k /\ rec.fresh = op[g].fresh
  BY Zenon, <1>0 DEF OpRec
<1> HIDE DEF new, rec
<1>6. OwnInv'
  BY Zenon, <1>0, <1>2, <1>3, <1>4, <1>5, NewRootOwns
<1>7. /\ client'[d].tok = t /\ client'[d].key = k
      /\ \A c \in Client \ {d} : client'[c] = client[c]
  BY Zenon, <1>inv, <1>2, <1>4 DEF TypeOK
<1>8. op'[g] = rec /\ \A h \in Getter \ {g} : op'[h] = op[h]
  BY Zenon, <1>inv, <1>3 DEF TypeOK
<1>9. ~op[g].fresh
  BY Zenon, <1>2 DEF OwnInv
<1>10. \A h \in Getter : Fresh(h)' =>
         /\ Fresh(h) /\ op'[h].c = op[h].c /\ op[h].c # d /\ client'[op'[h].c] = client[op[h].c]
         /\ client[op[h].c].tok # t
  <2> SUFFICES ASSUME NEW h \in Getter, Fresh(h)'
               PROVE  /\ Fresh(h) /\ op'[h].c = op[h].c /\ op[h].c # d
                      /\ client'[op'[h].c] = client[op[h].c] /\ client[op[h].c].tok # t
    BY Zenon
  <2>1. h # g
    BY Zenon, <1>5, <1>8, <1>9 DEF Fresh
  <2>2. Fresh(h) /\ op'[h] = op[h]
    BY Zenon, <1>8, <2>1 DEF Fresh
  <2>3. op[h].c \in Client /\ op[h].c # d
    BY Zenon, <1>2, <2>2, CachingHolds
  <2>4. client[op[h].c].tok # t
    BY Zenon, <1>1, <2>2 DEF TokenInv
  <2> QED
    BY Zenon, <1>7, <2>2, <2>3, <2>4
<1>11. \A c \in Client : Runs(c)' /\ c # d => Runs(c) /\ client'[c] = client[c]
  BY Zenon, <1>7 DEF Runs
<1>12. ASSUME NEW c \in Client, Runs(c), client[c].tok = t
       PROVE  FALSE
  <2>1. client[c].key = k
    BY Zenon, <1>1, <1>12 DEF TokenInv
  <2>2. cache[k] = None
    BY Zenon, <1>0, <1>2 DEF OwnInv
  <2>3. PICK h \in Getter : op[h].c = c /\ op[h].pc \in Caching
    <3>1. \/ cache[client[c].key] = c
          \/ \E h \in Getter : op[h].c = c /\ op[h].pc \in {"uncache", "add"}
      BY Zenon, <1>12 DEF OwnInv, WatcherOwned, Runs
    <3> QED
      BY Zenon, <2>1, <2>2, <3>1, ConstAssumption DEF Caching
  <2>4. op[h].key[1] = op[g].key[1] /\ op[h].pc \in InLock /\ op[g].pc \in InLock
    <3>1. client[op[h].c].key[1] = op[h].key[1]
      BY Zenon, <2>3 DEF OwnInv
    <3> QED
      BY Zenon, <1>0, <1>2, <2>1, <2>3, <3>1 DEF Caching, InLock
  <2>5. h = g
    BY Zenon, <2>4 DEF OwnInv
  <2> QED
    BY Zenon, <1>2, <2>3, <2>5 DEF Caching
<1>13. \A u \in Token : InUse(u)' => token'[u].st # "free"
  <2>1. ASSUME NEW u \in Token, InUse(u)' PROVE InUse(u)
    <3>1. CASE \E c \in Client : client'[c].st # "free" /\ client'[c].tok = u
      <4>1. PICK c \in Client : client'[c].st # "free" /\ client'[c].tok = u
        BY Zenon, <3>1
      <4>2. CASE c = d
        BY Zenon, <1>1, <1>7, <4>1, <4>2 DEF InUse
      <4>3. CASE c # d
        BY Zenon, <1>7, <4>1, <4>3 DEF InUse
      <4> QED
        BY Zenon, <4>2, <4>3
    <3>2. CASE \E j \in Key : store'[j] = u
      BY Zenon, <1>2, <3>2 DEF InUse
    <3> QED
      BY Zenon, <2>1, <3>1, <3>2 DEF InUse
  <2>2. \A u \in Token : InUse(u) => token[u].st # "free"
    BY Zenon DEF TokenInv
  <2> QED
    BY Zenon, <1>2, <2>1, <2>2
<1>14. \A j, i \in Key : store'[j] # None /\ store'[j] = store'[i] => j = i
  <2>1. \A j, i \in Key : store[j] # None /\ store[j] = store[i] => j = i
    BY Zenon DEF TokenInv
  <2> QED
    BY Zenon, <1>2, <2>1
<1>15. ASSUME NEW j \in Key, NEW c \in Client, Runs(c)', client'[c].tok = store'[j]
       PROVE  client'[c].key = j
  <2>1. CASE c = d
    <3>0. t # None /\ store' = store /\ client'[c].tok = t
      BY Zenon, <1>2, <1>7, <2>1, ConstAssumption
    <3>1. store[j] = store[k] /\ store[j] # None
      BY Zenon, <1>1, <1>15, <3>0
    <3>2. store[j] # None /\ store[j] = store[k] => j = k
      BY Zenon DEF TokenInv
    <3> QED
      BY Zenon, <1>7, <2>1, <3>1, <3>2
  <2>2. CASE c # d
    <3>1. Runs(c) /\ client'[c] = client[c]
      BY Zenon, <1>11, <1>15, <2>2
    <3>2. Runs(c) /\ client[c].tok = store[j] => client[c].key = j
      BY Zenon DEF TokenInv
    <3> QED
      BY Zenon, <1>2, <1>15, <3>1, <3>2
  <2> QED
    BY Zenon, <2>1, <2>2
<1>16. ASSUME NEW h \in Getter, Fresh(h)'
       PROVE  /\ \A j \in Key : store'[j] # client'[op'[h].c].tok
              /\ \A c \in Client : Runs(c)' /\ client'[c].tok = client'[op'[h].c].tok => c = op'[h].c
              /\ \A i \in Getter : Fresh(i)' /\ client'[op'[i].c].tok = client'[op'[h].c].tok => i = h
  <2>1. /\ Fresh(h) /\ op'[h].c = op[h].c /\ client'[op'[h].c].tok = client[op[h].c].tok
        /\ client[op[h].c].tok # t
    BY Zenon, <1>10, <1>16
  <2>2. /\ \A j \in Key : store[j] # client[op[h].c].tok
        /\ \A c \in Client : Runs(c) /\ client[c].tok = client[op[h].c].tok => c = op[h].c
        /\ \A i \in Getter : Fresh(i) /\ client[op[i].c].tok = client[op[h].c].tok => i = h
    BY Zenon, <2>1 DEF TokenInv
  <2>3. \A j \in Key : store'[j] # client'[op'[h].c].tok
    BY Zenon, <1>2, <2>1, <2>2
  <2>4. ASSUME NEW c \in Client, Runs(c)', client'[c].tok = client'[op'[h].c].tok
        PROVE  c = op'[h].c
    <3>1. c # d
      BY Zenon, <1>7, <2>1, <2>4
    <3>2. Runs(c) /\ client'[c] = client[c]
      BY Zenon, <1>11, <2>4, <3>1
    <3> QED
      BY Zenon, <2>1, <2>2, <2>4, <3>2
  <2>5. ASSUME NEW i \in Getter, Fresh(i)', client'[op'[i].c].tok = client'[op'[h].c].tok
        PROVE  i = h
    <3>1. Fresh(i) /\ client'[op'[i].c] = client[op[i].c]
      BY Zenon, <1>10, <2>5
    <3> QED
      BY Zenon, <2>1, <2>2, <2>5, <3>1
  <2> QED
    BY Zenon, <2>3, <2>4, <2>5
<1>17. SingleWatcher'
  <2> SUFFICES ASSUME NEW c \in Client, NEW e \in Client, Runs(c)', Runs(e)',
                      client'[c].tok = client'[e].tok, c # e
               PROVE  FALSE
    BY Zenon DEF SingleWatcher, Runs
  <2>1. CASE c = d
    <3>1. Runs(e) /\ client[e].tok = t
      BY Zenon, <1>7, <1>11, <2>1
    <3> QED
      BY Zenon, <1>12, <3>1
  <2>2. CASE e = d
    <3>1. Runs(c) /\ client[c].tok = t
      BY Zenon, <1>7, <1>11, <2>2
    <3> QED
      BY Zenon, <1>12, <3>1
  <2>3. CASE c # d /\ e # d
    <3>1. Runs(c) /\ Runs(e) /\ client[c].tok = client[e].tok
      BY Zenon, <1>11, <2>3
    <3> QED
      BY Zenon, <3>1 DEF TokenInv, SingleWatcher, Runs
  <2> QED
    BY Zenon, <2>1, <2>2, <2>3
<1> QED
  BY Zenon, <1>6, <1>13, <1>14, <1>15, <1>16, <1>17 DEF TokenInv

\* Caching the client in hand: nothing is cached under its key, so no running watcher is
\* overwritten, and what leaves a full cache is closed.
LEMMA AddOwns ==
  ASSUME CacheInv, OwnInv, TokenInv, NEW g \in Getter, GetAdd(g)
  PROVE  OwnInv' /\ TokenInv'
<1>inv. TypeOK /\ CachedOpen /\ Held /\ NewInHand
  BY Zenon DEF CacheInv
<1>0. op[g] \in OpRec /\ op[g].pc = "add"
  BY Zenon, <1>inv DEF TypeOK, GetAdd
<1>1. PICK c \in Client : c = op[g].c
  BY Zenon, <1>0, CachingHolds DEF Caching
<1>2. PICK k \in Key : k = client[c].key
  BY Zenon, <1>inv, <1>1 DEF TypeOK, ClientRec
<1>3. PICK K \in Victims(k) : /\ cache' = [CacheWithout(K) EXCEPT ![k] = c]
                              /\ Evict(K, revokeOnEvict)
  BY Zenon, <1>1, <1>2 DEF GetAdd, AddRoot
<1>4. PICK X \in SUBSET Key, r \in BOOLEAN : X = K /\ X \subseteq Cached /\ Evict(X, r)
  <2>1. K \in SUBSET Key /\ K \subseteq Cached
    BY Zenon, <1>3 DEF Victims, Cached
  <2>2. revokeOnEvict \in BOOLEAN
    BY Zenon DEF revokeOnEvict
  <2> QED
    BY Zenon, <1>3, <2>1, <2>2
<1>5. /\ WatchersCalm
      /\ \A e \in Client : Runs(e)' => client'[e] = client[e] /\ \A j \in X : cache[j] # e
  BY Zenon, <1>inv, <1>4, EvictCalm
<1>6. cache'[k] = c /\ \A j \in Key \ {k} : cache'[j] = IF j \in X THEN None ELSE cache[j]
  BY Zenon, <1>3, <1>4 DEF CacheWithout
<1> DEFINE rec == [op[g] EXCEPT !.pc = IF Persist /\ op[g].fresh THEN "store" ELSE "ns"]
<1>7. /\ rec.pc \in {"store", "ns"} /\ (rec.pc = "store" => op[g].fresh)
      /\ rec.c = c /\ rec.key = op[g].key /\ rec.fresh = op[g].fresh
  BY Zenon, <1>0, <1>1 DEF OpRec
<1>8. op' = [op EXCEPT ![g] = rec]
  BY Zenon, <1>inv DEF GetAdd, TypeOK
<1> HIDE DEF rec
<1>9. op'[g] = rec /\ \A h \in Getter \ {g} : op'[h] = op[h]
  BY Zenon, <1>inv, <1>8 DEF TypeOK
<1>10. TokenInv'
  <2>1. ASSUME NEW h \in Getter, Fresh(h)'
        PROVE  Fresh(h) /\ op'[h].c = op[h].c
    <3>1. CASE h = g
      BY Zenon, <1>0, <1>1, <1>7, <1>9, <2>1, <3>1 DEF Fresh
    <3>2. CASE h # g
      BY Zenon, <1>9, <2>1, <3>2 DEF Fresh
    <3> QED
      BY Zenon, <3>1, <3>2
  <2> QED
    BY Zenon, <1>5, <2>1, TokenFrame
<1>11. \A h \in Getter : op'[h].pc \in InLock => op[h].pc \in InLock /\ op'[h].key = op[h].key
  BY Zenon, <1>0, <1>7, <1>9 DEF InLock
<1>12. \A h, i \in Getter : op'[h].pc \in InLock /\ op'[i].pc \in InLock
                            /\ op'[h].key[1] = op'[i].key[1] => h = i
  <2> SUFFICES ASSUME NEW h \in Getter, NEW i \in Getter, op'[h].pc \in InLock,
                      op'[i].pc \in InLock, op'[h].key[1] = op'[i].key[1]
               PROVE  h = i
    BY Zenon
  <2>1. /\ op[h].pc \in InLock /\ op'[h].key = op[h].key
        /\ op[i].pc \in InLock /\ op'[i].key = op[i].key
    BY Zenon, <1>11
  <2>2. op[h].pc \in InLock /\ op[i].pc \in InLock /\ op[h].key[1] = op[i].key[1] => h = i
    BY Zenon DEF OwnInv
  <2> QED
    BY Zenon, <2>1, <2>2
<1>13. ASSUME NEW h \in Getter, h # g, op[h].pc \in InLock
       PROVE  op[h].key[1] # k[1]
  <2>1. op[g].pc \in InLock /\ op[g].key[1] = k[1]
    BY Zenon, <1>0, <1>1, <1>2 DEF OwnInv, InLock, Caching
  <2>2. op[h].pc \in InLock /\ op[g].pc \in InLock /\ op[h].key[1] = op[g].key[1] => h = g
    BY Zenon DEF OwnInv
  <2> QED
    BY Zenon, <1>13, <2>1, <2>2
<1>14. \A h \in Getter :
         /\ op[h].pc \in Caching => client[op[h].c].key[1] = op[h].key[1]
         /\ op[h].pc = "login" => op[h].nkey[1] = op[h].key[1]
         /\ op[h].pc = "add" => cache[client[op[h].c].key] = None
         /\ op[h].pc = "restore" => cache[op[h].key] = None
         /\ op[h].fresh => op[h].pc \in {"uncache", "add", "store", "ns"}
         /\ op[h].pc = "store" => op[h].fresh
  BY Zenon DEF OwnInv
<1>15. \A j \in Key : j # k /\ cache[j] = None => cache'[j] = None
  BY Zenon, <1>6
<1>16. ASSUME NEW h \in Getter
       PROVE  /\ op'[h].pc \in Caching => client'[op'[h].c].key[1] = op'[h].key[1]
              /\ op'[h].pc = "login" => op'[h].nkey[1] = op'[h].key[1]
              /\ op'[h].pc = "add" => cache'[client'[op'[h].c].key] = None
              /\ op'[h].pc = "restore" => cache'[op'[h].key] = None
              /\ op'[h].fresh => op'[h].pc \in {"uncache", "add", "store", "ns"}
              /\ op'[h].pc = "store" => op'[h].fresh
  <2>1. CASE h = g
    <3>1. op'[h].pc \in {"store", "ns"} /\ (op'[h].pc = "store" => op'[h].fresh)
      BY Zenon, <1>7, <1>9, <2>1
    <3> QED
      BY Zenon, <3>1 DEF Caching
  <2>2. CASE h # g
    <3>1. op'[h] = op[h]
      BY Zenon, <1>9, <2>2
    <3>2. op[h].pc \in Caching =>
            /\ client'[op[h].c].key = client[op[h].c].key /\ client[op[h].c].key \in Key
            /\ client[op[h].c].key # k
      <4> SUFFICES ASSUME op[h].pc \in Caching
                   PROVE  /\ client'[op[h].c].key = client[op[h].c].key
                          /\ client[op[h].c].key \in Key /\ client[op[h].c].key # k
        BY Zenon
      <4>1. op[h].c \in Client /\ client[op[h].c].st # "free"
        BY Zenon, CachingHolds
      <4>2. client[op[h].c].key[1] = op[h].key[1] /\ op[h].pc \in InLock
        BY Zenon, <1>14 DEF Caching, InLock
      <4>3. client[op[h].c].key # k
        BY Zenon, <1>13, <2>2, <4>2
      <4> QED
        BY Zenon, <1>inv, <1>5, <4>1, <4>3 DEF WatchersCalm, TypeOK, ClientRec
    <3>3. op[h].pc = "restore" => op[h].key \in Key /\ op[h].key # k
      BY Zenon, <1>inv, <1>13, <2>2 DEF InLock, TypeOK, OpRec
    <3>4. /\ op[h].pc \in Caching => client'[op[h].c].key[1] = op[h].key[1]
          /\ op[h].pc = "add" => cache'[client'[op[h].c].key] = None
      <4>1. "add" \in Caching
        BY Zenon DEF Caching
      <4> QED
        BY ZenonT(40), <1>14, <1>15, <3>2, <4>1
    <3>5. op[h].pc = "restore" => cache'[op[h].key] = None
      BY Zenon, <1>14, <1>15, <3>3
    <3> QED
      BY Zenon, <1>14, <3>1, <3>4, <3>5
  <2> QED
    BY Zenon, <2>1, <2>2
<1>17. WatcherOwned'
  <2> SUFFICES ASSUME NEW e \in Client, Runs(e)'
               PROVE  \/ cache'[client'[e].key] = e
                      \/ \E h \in Getter : op'[h].c = e /\ op'[h].pc \in {"uncache", "add"}
    BY Zenon DEF WatcherOwned, Runs
  <2>1. /\ client'[e] = client[e] /\ Runs(e) /\ client[e].key \in Key /\ e # None
        /\ \A j \in X : cache[j] # e
    BY Zenon, <1>inv, <1>5, ConstAssumption DEF WatchersCalm, TypeOK, ClientRec
  <2>2. \/ cache[client[e].key] = e
        \/ \E h \in Getter : op[h].c = e /\ op[h].pc \in {"uncache", "add"}
    BY Zenon, <2>1 DEF OwnInv, WatcherOwned, Runs
  <2>3. CASE cache[client[e].key] = e
    <3>1. cache[k] = None
      BY Zenon, <1>0, <1>1, <1>2, <1>14
    <3>2. client[e].key # k /\ client[e].key \notin X
      BY Zenon, <2>1, <2>3, <3>1
    <3> QED
      BY Zenon, <1>6, <2>1, <2>3, <3>2
  <2>4. CASE \E h \in Getter : op[h].c = e /\ op[h].pc \in {"uncache", "add"}
    <3>1. PICK h \in Getter : op[h].c = e /\ op[h].pc \in {"uncache", "add"}
      BY Zenon, <2>4
    <3>2. CASE h = g
      BY Zenon, <1>1, <1>2, <1>6, <2>1, <3>1, <3>2
    <3>3. CASE h # g
      BY Zenon, <1>9, <3>1, <3>3
    <3> QED
      BY Zenon, <3>2, <3>3
  <2> QED
    BY Zenon, <2>2, <2>3, <2>4
<1> QED
  BY Zenon, <1>10, <1>12, <1>16, <1>17 DEF OwnInv

\* Storing the token of a login under the key of its client.
LEMMA StoreOwns ==
  ASSUME CacheInv, OwnInv, TokenInv, NEW g \in Getter, GetStore(g)
  PROVE  OwnInv' /\ TokenInv'
<1>inv. TypeOK /\ Held
  BY Zenon DEF CacheInv
<1>0. op[g] \in OpRec /\ op[g].pc = "store" /\ op[g].fresh
  BY Zenon, <1>inv DEF TypeOK, GetStore, OwnInv
<1>1. PICK c \in Client, t \in Token : c = op[g].c /\ t = client[c].tok /\ client[c].st # "free"
  BY Zenon, <1>inv, <1>0 DEF Held, Holding
<1>2. PICK k \in Key : k = client[c].key
  BY Zenon, <1>inv, <1>1 DEF TypeOK, ClientRec
<1>3. UNCHANGED <<client, cache, token>>
  BY Zenon DEF GetStore
<1> DEFINE rec == [op[g] EXCEPT !.pc = "ns"]
<1>4. rec.pc = "ns" /\ rec.key = op[g].key /\ rec.c = c
  BY Zenon, <1>0, <1>1 DEF OpRec
<1>5. op' = [op EXCEPT ![g] = rec]
  BY Zenon, <1>inv DEF GetStore, TypeOK
<1> HIDE DEF rec
<1>6. op'[g] = rec /\ \A h \in Getter \ {g} : op'[h] = op[h]
  BY Zenon, <1>inv, <1>5 DEF TypeOK
<1>7. CallersCalm
  BY Zenon, <1>0, <1>4, <1>5, CallerCalm DEF InLock, Caching
<1>8. CASE \A j \in Key : store'[j] # None => store'[j] = store[j]
  BY Zenon, <1>inv, <1>3, <1>7, <1>8, SameCalm, CalmKeeps
<1>9. CASE store' = [store EXCEPT ![k] = t]
  <2>0. store'[k] = t /\ t # None /\ \A j \in Key \ {k} : store'[j] = store[j]
    BY Zenon, <1>inv, <1>9, ConstAssumption DEF TypeOK
  <2>1. Fresh(g)
    BY Zenon, <1>0 DEF Fresh
  <2>2. /\ \A j \in Key : store[j] # t
        /\ \A e \in Client : Runs(e) /\ client[e].tok = t => e = c
        /\ \A h \in Getter : Fresh(h) /\ client[op[h].c].tok = t => h = g
    BY Zenon, <1>1, <2>1 DEF TokenInv
  <2>3. OwnInv'
    <3>1. CacheCalm
      BY Zenon, <1>3 DEF CacheCalm
    <3>2. \A e \in Client : Runs(e)' => Runs(e)
      BY Zenon, <1>3 DEF Runs
    <3> QED
      BY Zenon, <1>3, <1>7, <3>1, <3>2, OwnFrame
  <2>4. \A h \in Getter : Fresh(h)' =>
          h # g /\ Fresh(h) /\ op'[h].c = op[h].c /\ client[op[h].c].tok # t
    <3> SUFFICES ASSUME NEW h \in Getter, Fresh(h)'
                 PROVE  h # g /\ Fresh(h) /\ op'[h].c = op[h].c /\ client[op[h].c].tok # t
      BY Zenon
    <3>1. h # g
      BY Zenon, <1>4, <1>6 DEF Fresh
    <3>2. Fresh(h) /\ op'[h].c = op[h].c
      BY Zenon, <1>6, <3>1 DEF Fresh
    <3> QED
      BY Zenon, <2>2, <3>1, <3>2
  <2>5. \A u \in Token : InUse(u)' => token'[u].st # "free"
    <3>1. ASSUME NEW u \in Token, InUse(u)' PROVE InUse(u)
      <4>1. CASE \E e \in Client : client'[e].st # "free" /\ client'[e].tok = u
        BY Zenon, <1>3, <4>1 DEF InUse
      <4>2. CASE \E j \in Key : store'[j] = u
        <5>1. PICK j \in Key : store'[j] = u
          BY Zenon, <4>2
        <5>2. CASE j = k
          BY Zenon, <1>1, <2>0, <5>1, <5>2 DEF InUse
        <5>3. CASE j # k
          BY Zenon, <2>0, <5>1, <5>3 DEF InUse
        <5> QED
          BY Zenon, <5>2, <5>3
      <4> QED
        BY Zenon, <3>1, <4>1, <4>2 DEF InUse
    <3>2. \A u \in Token : InUse(u) => token[u].st # "free"
      BY Zenon DEF TokenInv
    <3> QED
      BY Zenon, <1>3, <3>1, <3>2
  <2>6. \A i, j \in Key : store'[i] # None /\ store'[i] = store'[j] => i = j
    <3>1. \A i, j \in Key : store[i] # None /\ store[i] = store[j] => i = j
      BY Zenon DEF TokenInv
    <3> SUFFICES ASSUME NEW i \in Key, NEW j \in Key, store'[i] # None, store'[i] = store'[j], i # j
                 PROVE  FALSE
      BY Zenon
    <3>2. CASE i = k \/ j = k
      BY Zenon, <2>0, <2>2, <3>2
    <3>3. CASE i # k /\ j # k
      BY Zenon, <2>0, <3>1, <3>3
    <3> QED
      BY Zenon, <3>2, <3>3
  <2>7. ASSUME NEW j \in Key, NEW e \in Client, Runs(e)', client'[e].tok = store'[j]
        PROVE  client'[e].key = j
    <3>0. Runs(e) /\ client'[e] = client[e]
      BY Zenon, <1>3, <2>7 DEF Runs
    <3>1. CASE j = k
      BY Zenon, <1>2, <2>0, <2>2, <2>7, <3>0, <3>1
    <3>2. CASE j # k
      <4>1. Runs(e) /\ client[e].tok = store[j] => client[e].key = j
        BY Zenon DEF TokenInv
      <4> QED
        BY Zenon, <2>0, <2>7, <3>0, <3>2, <4>1
    <3> QED
      BY Zenon, <3>1, <3>2
  <2>8. ASSUME NEW h \in Getter, Fresh(h)'
        PROVE  /\ \A j \in Key : store'[j] # client'[op'[h].c].tok
               /\ \A e \in Client : Runs(e)' /\ client'[e].tok = client'[op'[h].c].tok => e = op'[h].c
               /\ \A i \in Getter : Fresh(i)' /\ client'[op'[i].c].tok = client'[op'[h].c].tok => i = h
    <3>1. Fresh(h) /\ client'[op'[h].c].tok = client[op[h].c].tok /\ client[op[h].c].tok # t
          /\ op'[h].c = op[h].c
      BY Zenon, <1>3, <2>4, <2>8
    <3>2. /\ \A j \in Key : store[j] # client[op[h].c].tok
          /\ \A e \in Client : Runs(e) /\ client[e].tok = client[op[h].c].tok => e = op[h].c
          /\ \A i \in Getter : Fresh(i) /\ client[op[i].c].tok = client[op[h].c].tok => i = h
      BY Zenon, <3>1 DEF TokenInv
    <3>3. \A j \in Key : store'[j] # client'[op'[h].c].tok
      BY Zenon, <2>0, <3>1, <3>2
    <3>4. \A e \in Client : Runs(e)' /\ client'[e].tok = client'[op'[h].c].tok => e = op'[h].c
      <4>1. \A e \in Client : Runs(e)' => Runs(e) /\ client'[e] = client[e]
        BY Zenon, <1>3 DEF Runs
      <4> QED
        BY Zenon, <3>1, <3>2, <4>1
    <3>5. ASSUME NEW i \in Getter, Fresh(i)', client'[op'[i].c].tok = client'[op'[h].c].tok
          PROVE  i = h
      <4>1. Fresh(i) /\ client'[op'[i].c] = client[op[i].c]
        BY Zenon, <1>3, <2>4, <3>5
      <4> QED
        BY Zenon, <3>1, <3>2, <3>5, <4>1
    <3> QED
      BY Zenon, <3>3, <3>4, <3>5
  <2>9. SingleWatcher'
    BY Zenon, <1>3 DEF TokenInv, SingleWatcher
  <2> QED
    BY Zenon, <2>3, <2>5, <2>6, <2>7, <2>8, <2>9 DEF TokenInv
<1>10. \/ \A j \in Key : store'[j] # None => store'[j] = store[j]
       \/ store' = [store EXCEPT ![k] = t]
  BY Zenon, <1>inv, <1>1, <1>2 DEF GetStore, TypeOK
<1> QED
  BY Zenon, <1>8, <1>9, <1>10
-----------------------------------------------------------------------------
\* The initial states satisfy the invariants.
LEMMA OwnInvInit == Init => OwnInv /\ TokenInv
<1> SUFFICES ASSUME Init PROVE OwnInv /\ TokenInv
  BY Zenon
<1>1. \A c \in Client : client[c].st = "free"
  BY Zenon DEF Init, FreeClient
<1>2. \A g \in Getter : op[g].pc = "idle" /\ op[g].fresh = FALSE
  BY Zenon DEF Init, IdleOp
<1>3. \A k \in Key : store[k] = None
  BY Zenon DEF Init
<1>4. \A t \in Token : ~InUse(t)
  BY Zenon, <1>1, <1>3, ConstAssumption DEF InUse
<1>5. \A c \in Client : ~Runs(c)
  BY Zenon, <1>1 DEF Runs
<1>6. WatcherOwned /\ SingleWatcher
  BY Zenon, <1>1 DEF WatcherOwned, SingleWatcher
<1>7. OwnInv
  BY Zenon, <1>2, <1>6 DEF OwnInv, InLock, Caching
<1>8. \A g \in Getter : ~Fresh(g)
  BY Zenon, <1>2 DEF Fresh
<1> QED
  BY Zenon, <1>3, <1>4, <1>5, <1>6, <1>7, <1>8 DEF TokenInv

\* Every step preserves them.
LEMMA OwnInvStep ==
  ASSUME OneKeyAtATime
  PROVE  CacheInv /\ OwnInv /\ TokenInv /\ [Next]_vars => OwnInv' /\ TokenInv'
<1> SUFFICES ASSUME CacheInv, OwnInv, TokenInv, [Next]_vars PROVE OwnInv' /\ TokenInv'
  BY Zenon
<1>1. ASSUME NEW g \in Getter, GetStep(g)
      PROVE  OwnInv' /\ TokenInv'
  <2>1. CASE \E d \in Client : GetRestored(g, d) \/ GetRestoreAbandoned(g, d) \/ GetClone(g, d)
    BY Zenon, <2>1, RestoredOwns, CloneOwns
  <2>2. CASE \E d \in Client, t \in Token, r \in Renewables : GetLogin(g, d, t, r)
    BY Zenon, <2>2, LoginOwns
  <2> QED
    BY Zenon, <1>1, <2>1, <2>2, CallerOwns, UncacheOwns, AddOwns, StoreOwns DEF GetStep
<1>2. ASSUME NEW g \in Getter,
             \/ \E a \in Auth, n \in NS : GetBegin(g, a, n)
             \/ GetLock(g) \/ UseClient(g) \/ RecvFromGet(g)
      PROVE  OwnInv' /\ TokenInv'
  BY Zenon, <1>2, CallerOwns, LockOwns
<1>3. CASE \/ HandlerStep
           \/ \E k \in Key : RecvFromPrune(k)
           \/ \E c \in Client : RecvFromWatcher(c)
           \/ ControllerStep
           \/ Environment
  BY Zenon, <1>3, RestOwns
<1>4. CASE UNCHANGED vars
  <2>1. UNCHANGED <<client, cache, token, store, op>>
    BY Zenon, <1>4 DEF vars
  <2> QED
    BY Zenon, <2>1, SameCalm, IdleCallersCalm, CalmKeeps DEF CacheInv
<1> QED
  BY Zenon, <1>1, <1>2, <1>3, <1>4 DEF Next

\* No lifetime-watcher goroutine is leaked, as long as a VaultAuth has one key at a time: the
\* running watcher of a client that was not closed belongs to a cached client or to one that a
\* Get is about to cache, whatever is evicted, pruned, shut down or restarted in between.
THEOREM WatchersAreOwned == OneKeyAtATime => (Spec => []WatcherOwned)
<1> SUFFICES ASSUME OneKeyAtATime PROVE Spec => []WatcherOwned
  BY Zenon
<1>1. OwnInv => WatcherOwned
  BY Zenon DEF OwnInv
<1>2. CacheInv /\ OwnInv /\ TokenInv /\ [Next]_vars => CacheInv' /\ OwnInv' /\ TokenInv'
  BY Zenon, CacheInvStep, OwnInvStep
<1>3. Init => CacheInv /\ OwnInv /\ TokenInv
  BY Zenon, CacheInvInit, OwnInvInit
<1> QED
  BY <1>1, <1>2, <1>3, PTL DEF Spec

\* A token has one lifetime watcher, under the same condition: a client is restored from
\* storage only after the client that stored its token was closed.
THEOREM TokensAreWatchedOnce == OneKeyAtATime => (Spec => []SingleWatcher)
<1> SUFFICES ASSUME OneKeyAtATime PROVE Spec => []SingleWatcher
  BY Zenon
<1>1. TokenInv => SingleWatcher
  BY Zenon DEF TokenInv
<1>2. CacheInv /\ OwnInv /\ TokenInv /\ [Next]_vars => CacheInv' /\ OwnInv' /\ TokenInv'
  BY Zenon, CacheInvStep, OwnInvStep
<1>3. Init => CacheInv /\ OwnInv /\ TokenInv
  BY Zenon, CacheInvInit, OwnInvInit
<1> QED
  BY <1>1, <1>2, <1>3, PTL DEF Spec
=============================================================================
