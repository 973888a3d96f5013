--------------------------- MODULE VaultAuthMerge ---------------------------
(***************************************************************************)
(* How the settings of a VaultAuth are completed from a VaultAuthGlobal:   *)
(* common.MergeInVaultAuthGlobal and what it calls.  A setting is the      *)
(* empty string or a word; which word does not matter.                     *)
(***************************************************************************)
EXTENDS Naturals, Sequences, FiniteSetsExt

CONSTANTS
  OperatorNamespace,  \* the namespace the operator runs in
  None,               \* no object, no method configuration, or an error
  Word,               \* what settings may be
  Param               \* the names of parameters and headers

Unset == ""

\* The fields a method cannot do without; "other" stands for the optional ones.
Required ==
  [kubernetes |-> {"role", "serviceAccount"}, jwt |-> {"role"}, appRole |-> {"roleId", "secretRef"},
   aws |-> {"role"}, gcp |-> {"role", "workloadIdentityServiceAccount"}]

Method == DOMAIN Required
Fields(m) == Required[m] \cup {"other"}

\* The objects.  A method's configuration has that method's fields.
Setting == Word \cup {Unset}
Map == UNION {[K -> Setting] : K \in SUBSET Param}
Configs == UNION {[Fields(m) -> Setting] : m \in Method}

VaultAuthGlobalRef ==
  [name : Setting, ns : Setting, allowDefault : Setting, params : Setting, headers : Setting]

VaultAuth ==
  [ns : Setting, ref : VaultAuthGlobalRef \cup {None}, method : Setting,
   config : [Method -> Configs \cup {None}], mount : Setting, namespace : Setting,
   params : Map, headers : Map, conn : Setting]

GlobalConfig ==
  [config : Configs, mount : Setting, namespace : Setting, params : Map, headers : Map]

VaultAuthGlobal ==
  [name : Setting, ns : Setting, allowed : SUBSET Setting, method : Setting,
   methods : [Method -> GlobalConfig \cup {None}], mount : Setting, namespace : Setting,
   params : Map, headers : Map, conn : Setting]

ASSUME MergeAssumption ==
  /\ None \notin Map /\ None \notin Configs
  /\ None \notin VaultAuth /\ None \notin VaultAuthGlobal

\* Names are unique in a namespace.
WellFormed(o, globals) ==
  /\ o \in VaultAuth /\ globals \subseteq VaultAuthGlobal
  /\ \A m \in Method : o.config[m] # None => DOMAIN o.config[m] = Fields(m)
  /\ \A g \in globals, m \in Method :
       g.methods[m] # None => DOMAIN g.methods[m].config = Fields(m)
  /\ \A g, h \in globals : g.ns = h.ns /\ g.name = h.name => g = h

Validate(m, c) == \A f \in Required[m] : c[f] # Unset

\* The configuration of method m, its empty fields taken from other.
MergeConfig(m, c, other) ==
  LET merged == [f \in DOMAIN c |-> IF c[f] = Unset THEN other[f] ELSE c[f]] IN
  IF Validate(m, merged) THEN merged ELSE None

\* (The mutant lets the first map win.)
mergeMapsFirst(ms) ==
  [k \in UNION {DOMAIN ms[i] : i \in DOMAIN ms} |-> ms[Min({i \in DOMAIN ms : k \in DOMAIN ms[i]})][k]]
\* Later maps win.
mergeMaps(ms) ==
  [k \in UNION {DOMAIN ms[i] : i \in DOMAIN ms} |-> ms[Max({i \in DOMAIN ms : k \in DOMAIN ms[i]})][k]]

\* The first of the values that is not the zero one.
firstNonZeroLen(zero, vs) ==
  LET nonZero == {i \in DOMAIN vs : vs[i] # zero}
  IN  IF nonZero = {} THEN zero ELSE vs[Min(nonZero)]

firstSet(vs) == firstNonZeroLen(Unset, vs)

Strategy(strategy, own, method, default) ==
  CASE strategy = "union" -> mergeMaps(<<default, method, own>>)
    [] strategy = "replace" -> firstNonZeroLen(<<>>, <<own, method, default>>)
    [] strategy = "none" -> own
    [] OTHER -> None

\* Whether an object in namespace ns may use g.
isAllowedNamespace(g, ns) ==
  \/ ns = g.ns
  \/ g.name = "default" /\ g.ns = OperatorNamespace
  \/ g.allowed = {"*"}
  \/ ns \in g.allowed

\* What the API server returns for a key.
GetGlobal(globals, ns, name) ==
  IF \E g \in globals : g.ns = ns /\ g.name = name
  THEN CHOOSE g \in globals : g.ns = ns /\ g.name = name
  ELSE None

FindVaultAuthGlobalDefault(globals, namespaces) ==
  firstNonZeroLen(None,
                  [i \in DOMAIN namespaces |-> GetGlobal(globals, namespaces[i], "default")])

\* The VaultAuthGlobal that o refers to.  opts is the operator's setting: whether default
\* globals are allowed, or "nil".
Referenced(o, globals, opts) ==
  LET ref == o.ref IN
  IF opts = "deny" /\ ref.allowDefault = "true" THEN None
  ELSE IF ref.name # Unset
       THEN GetGlobal(globals, IF ref.ns # Unset THEN ref.ns ELSE o.ns, ref.name)
       ELSE IF opts = "allow" /\ ref.allowDefault = "true"
            THEN FindVaultAuthGlobalDefault(globals, IF ref.ns # Unset THEN <<ref.ns>>
                                                     ELSE <<o.ns, OperatorNamespace>>)
            ELSE None

\* The settings a VaultAuthGlobal makes for a method it does not configure.
NoMethod == [mount |-> Unset, namespace |-> Unset, params |-> <<>>, headers |-> <<>>]

\* The method's configuration after the merge.
MergedConfig(m, own, global) ==
  IF global = None THEN own
  ELSE IF own # None THEN MergeConfig(m, own, global.config)
       ELSE IF Validate(m, global.config) THEN global.config ELSE None

\* o completed from the VaultAuthGlobal g.
MergeGlobal(o, g) ==
  LET m == firstSet(<<o.method, g.method>>)
      global == g.methods[m]
      level == IF global = None THEN NoMethod ELSE global
      config == MergedConfig(m, o.config[m], global)
      mount == firstSet(<<o.mount, level.mount, g.mount>>)
      params == Strategy(o.ref.params, o.params, level.params, g.params)
      headers == Strategy(o.ref.headers, o.headers, level.headers, g.headers) IN
  IF m \notin Method THEN None
  ELSE IF config = None \/ mount = Unset \/ params = None \/ headers = None THEN None
  ELSE [o EXCEPT !.method = m,
                 !.config = [@ EXCEPT ![m] = config],
                 !.mount = mount,
                 !.namespace = firstSet(<<o.namespace, level.namespace, g.namespace>>),
                 !.params = params,
                 !.headers = headers,
                 !.conn = firstSet(<<o.conn, g.conn>>)]

MergeInVaultAuthGlobal(o, globals, opts) ==
  IF o.ref = None THEN o
  ELSE LET g == Referenced(o, globals, opts) IN
       IF g = None THEN None
       ELSE IF isAllowedNamespace(g, o.ns) THEN MergeGlobal(o, g) ELSE None
-----------------------------------------------------------------------------
\* The reference: where a merged setting comes from.

\* v is set by the nearest of the levels that sets it at all.
FromNearest(v, levels) ==
  \/ \E i \in DOMAIN levels : v = levels[i] /\ v # Unset /\ \A j \in 1..(i - 1) : levels[j] = Unset
  \/ v = Unset /\ \A i \in DOMAIN levels : levels[i] = Unset

\* The map v is what the strategy makes of the levels' maps.
MapFromNearest(v, strategy, levels) ==
  LET defining(k) == {i \in DOMAIN levels : k \in DOMAIN levels[i]}
      nonEmpty == {i \in DOMAIN levels : DOMAIN levels[i] # {}} IN
  CASE strategy = "none" -> v = levels[1]
    [] strategy = "union" ->
         /\ DOMAIN v = UNION {DOMAIN levels[i] : i \in DOMAIN levels}
         /\ \A k \in DOMAIN v : \E i \in defining(k) :
              v[k] = levels[i][k] /\ \A j \in defining(k) : i <= j
    [] strategy = "replace" ->
         IF nonEmpty = {} THEN DOMAIN v = {}
         ELSE \E i \in nonEmpty : v = levels[i] /\ \A j \in nonEmpty : i <= j
    [] OTHER -> FALSE

\* r is o with every setting taken from the nearest of o, the method of g and g itself.
Completed(r, o, g) ==
  LET m == r.method
      global == g.methods[m]
      level == IF global = None THEN NoMethod ELSE global
      fieldLevels(f) == (IF o.config[m] = None THEN <<>> ELSE <<o.config[m][f]>>)
                           \o (IF global = None THEN <<>> ELSE <<global.config[f]>>) IN
  /\ FromNearest(m, <<o.method, g.method>>)
  /\ \A n \in Method \ {m} : r.config[n] = o.config[n]
  /\ \A f \in Fields(m) : FromNearest(r.config[m][f], fieldLevels(f))
  /\ global # None => Validate(m, r.config[m])
  /\ r.mount # Unset /\ FromNearest(r.mount, <<o.mount, level.mount, g.mount>>)
  /\ FromNearest(r.namespace, <<o.namespace, level.namespace, g.namespace>>)
  /\ FromNearest(r.conn, <<o.conn, g.conn>>)
  /\ MapFromNearest(r.params, o.ref.params, <<o.params, level.params, g.params>>)
  /\ MapFromNearest(r.headers, o.ref.headers, <<o.headers, level.headers, g.headers>>)
  /\ r.ns = o.ns /\ r.ref = o.ref

\* g is the object that o's reference means, and o may use it.
Meant(g, o, globals) ==
  /\ \/ g.ns = o.ns
     \/ g.allowed = {"*"} \/ o.ns \in g.allowed
     \/ g.ns = OperatorNamespace /\ g.name = "default"
  /\ IF o.ref.name # Unset
     THEN g.name = o.ref.name /\ g.ns = (IF o.ref.ns = Unset THEN o.ns ELSE o.ref.ns)
     ELSE /\ g.name = "default" /\ o.ref.allowDefault = "true"
          /\ IF o.ref.ns # Unset THEN g.ns = o.ref.ns
             ELSE \/ g.ns = o.ns
                  \/ g.ns = OperatorNamespace /\ ~\E h \in globals : h.ns = o.ns /\ h.name = "default"
=============================================================================
