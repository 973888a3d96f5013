---------------------------- MODULE MCOperators -----------------------------
(* Bounded inputs for the operator's computations. *)
EXTENDS Operators

Pairs(S) == UNION {[K -> S] : K \in SUBSET {"p", "q"}}
FlatConfig(m, v) == [f \in Fields(m) |-> v]

MCWord ==
  Method \cup {"ldap", "app", "operator", "other", "x", "*", "g", "default", "unset", "true", "false",
               "none", "union", "replace", "merge", "own", "method", "global"}
MCParam == {"p", "q"}

NoConfig == [m \in Method |-> None]
Ref == [name |-> "g", ns |-> Unset, allowDefault |-> "unset", params |-> "none", headers |-> "none"]
Auth == [ns |-> "app", ref |-> Ref, method |-> "kubernetes", config |-> NoConfig, mount |-> Unset,
         namespace |-> Unset, params |-> <<>>, headers |-> <<>>, conn |-> Unset]
MethodOf(m) == [config |-> FlatConfig(m, "method"), mount |-> "method", namespace |-> "method",
                params |-> <<>>, headers |-> <<>>]
Global == [name |-> "g", ns |-> "app", allowed |-> {}, method |-> "jwt",
           methods |-> [m \in Method |-> MethodOf(m)], mount |-> "global", namespace |-> "global",
           params |-> <<>>, headers |-> <<>>, conn |-> "global"]

\* which object a reference means
LookupInputs ==
  [o : {[Auth EXCEPT !.ns = n, !.ref = r] : n \in {"app", "operator"},
          r \in {None} \cup [name : {Unset, "g", "default"}, ns : {Unset, "app", "other"},
                             allowDefault : {"unset", "true", "false"}, params : {"none"}, headers : {"none"}]},
   globals : SUBSET {[Global EXCEPT !.name = "default", !.method = "aws"],
                     [Global EXCEPT !.name = "default", !.ns = "operator"],
                     [Global EXCEPT !.ns = "other", !.allowed = {"app"}],
                     [Global EXCEPT !.name = "default", !.ns = "other", !.allowed = {"*", "x"}]},
   opts : {"nil", "allow", "deny"}]

\* the method and its configuration
ConfigInputs ==
  [o : {[Auth EXCEPT !.method = m, !.mount = mt, !.config = c] :
          m \in Method \cup {Unset, "ldap"}, mt \in {Unset, "own"},
          c \in {NoConfig} \cup {[NoConfig EXCEPT !["gcp"] = [role |-> r, workloadIdentityServiceAccount |-> a, other |-> x],
                                                  !["jwt"] = [role |-> r, other |-> x]] :
                                  r, a, x \in {Unset, "own"}}},
   globals : {{[Global EXCEPT !.method = m, !.mount = mt, !.methods = ms]} :
                m \in {Unset, "jwt", "gcp"}, mt \in {Unset, "global"},
                ms \in {NoConfig} \cup
                       {[NoConfig EXCEPT !["gcp"] = [MethodOf("gcp") EXCEPT !.config["role"] = r, !.mount = l],
                                         !["jwt"] = [MethodOf("jwt") EXCEPT !.mount = l, !.config["role"] = r]] :
                          r, l \in {Unset, "method"}}},
   opts : {"nil"}]

\* the parameters and headers
StrategyInputs ==
  {[o |-> [Auth EXCEPT !.params = p, !.ref.params = s, !.headers = p, !.ref.headers = t],
    globals |-> {[Global EXCEPT !.params = d, !.headers = d,
                                !.methods["kubernetes"] = IF l = None THEN None ELSE [MethodOf("kubernetes") EXCEPT !.params = l, !.headers = l]]},
    opts |-> "nil"] :
     p \in Pairs({"own"}), d \in Pairs({"global"}), l \in Pairs({"method"}) \cup {None},
     s, t \in {"none", "union", "replace", "merge"}}

MCMergeInputs == LookupInputs \cup ConfigInputs \cup StrategyInputs

\* patterns 1 to 3, the second of which does not compile
MCText == {"field", "raw", "rendered"}
MCField == {"user", "pass", "url", Raw}
MCPattern == 1..3
MCMatches == <<{"user"}, Failed, {"user", "pass"}>>
Filter == [excludes : SUBSET MCPattern, includes : SUBSET MCPattern]
MCDataInputs ==
  {[meta |-> [excludes |-> f.excludes, includes |-> f.includes, excludeRaw |-> x],
    refs |-> <<[excludes |-> e, includes |-> i, ignoreExcludes |-> ie, ignoreIncludes |-> ii]>>,
    globalExcludeRaw |-> FALSE, fields |-> d, rendered |-> r] :
     f \in Filter, x, ie, ii \in BOOLEAN, e \in {{}, {1}}, i \in {{}, {3}},
     d \in {{"user", "pass", "url"}, {"user", Raw}},
     r \in {<<>>, [k \in {"user"} |-> "rendered"], [k \in {Raw} |-> "rendered"]}}
  \cup {[meta |-> [excludes |-> {}, includes |-> {}, excludeRaw |-> x], refs |-> <<>>,
         globalExcludeRaw |-> TRUE, fields |-> {"user", Raw}, rendered |-> <<>>] : x \in BOOLEAN}

MCKeyOrder == <<"", "0", "1", "a", "b">>
MCNameOrder == <<"", "obj", "t1", "t2">>
TemplateMaps == UNION {[K -> {"", "a", "b"}] : K \in SUBSET {"a", "b"}}
RefsTo(t, maps) ==
  [obj : {t}, valid : {TRUE}, templates : maps, sources : {<<>>, <<"">>, <<"a", "">>},
   templateRefs : {<<>>, <<[name |-> "a", keyOverride |-> ""], [name |-> "b", keyOverride |-> "a"]>>}]
Simple == {<<>>, [k \in {"a"} |-> ""], [k \in {"a"} |-> "a"], [k \in {"a"} |-> "b"], [k \in {"a", "b"} |-> ""]}
MCTemplateInputs ==
  [templates : TemplateMaps, refs : {<<r>> : r \in RefsTo("t1", TemplateMaps)}]
    \cup [templates : Simple,
          refs : {<<r, s>> : r \in RefsTo("t1", Simple), s \in RefsTo("t2", Simple) \cup RefsTo("t1", {<<>>})}]
    \cup [templates : Simple, refs : {<<[r EXCEPT !.valid = FALSE]>> : r \in RefsTo("t1", Simple)}]

MCLeaseInputs == [lease : 0..60, percent : {-1, 0, 1, 50, 67, 89, 90, 91, 100, 150}]
MCRestartInputs == [renewed : {5}, lease : {0, 1, 10, 30, 60}, percent : {0, 50, 90, 120}, now : {5, 6, 10, 30, 65}]
MCPKIInputs == [expiration : {0, 1, 2, 20, 60, 100}, offset : {0, 1, 5, 30}, now : {0, 1, 19, 60, 120}]
MCInstances == {[createdAt |-> c, expiresAt |-> c + t] : c \in {0, 10}, t \in {10, 40}}
MCHVSInputs == [instances : {<<>>} \cup {<<i>> : i \in MCInstances} \cup {<<i, j>> : i, j \in MCInstances},
                percent : {0, 50, 67, 90, 100}, now : {10, 12, 36, 60}, refresh : {0, 7, 100}]
=============================================================================
