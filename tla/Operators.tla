----------------------------- MODULE Operators ------------------------------
(***************************************************************************)
(* The computations of the operator that are functions of their inputs,    *)
(* each evaluated on the inputs of a bounded set and compared with what    *)
(* it is to compute.  A behaviour evaluates one of them, with any of the   *)
(* jitters and orders of iteration that the code may meet.                 *)
(***************************************************************************)
EXTENDS VaultAuthMerge, SecretTransformation, RenewalTimes

CONSTANTS
  MergeInputs, DataInputs, TemplateInputs, LeaseInputs, RestartInputs, PKIInputs, HVSInputs

ASSUME InputsAssumption ==
  /\ \A a \in MergeInputs : WellFormed(a.o, a.globals)
  /\ \A a \in DataInputs :
       /\ a.fields \subseteq Field /\ a.rendered \in SecretData
       /\ WellFormedFilter(a.meta) /\ \A i \in DOMAIN a.refs : WellFormedFilter(a.refs[i])
       /\ {a.meta.excludeRaw, a.globalExcludeRaw} \subseteq BOOLEAN
  /\ \A a \in TemplateInputs :
       /\ a.templates \in TemplateMap
       /\ DOMAIN a.refs = 1..Len(a.refs) /\ Len(a.refs) \in Nat
       /\ \A i \in DOMAIN a.refs : WellFormedRef(a.refs[i])
  /\ LeaseInputs \subseteq [lease : Nat, percent : Int]
  /\ RestartInputs \subseteq [renewed : Nat, lease : Nat, percent : Int, now : Nat]
  /\ PKIInputs \subseteq [expiration : Nat, offset : Nat, now : Nat]
  /\ HVSInputs \subseteq [instances : Seq(Instance), percent : Int, now : Nat, refresh : Nat]

VARIABLES
  input,  \* the computation and its arguments
  output  \* its result; None before it is computed

vars == <<input, output>>

Init ==
  /\ output = None
  /\ \/ input \in [kind : {"merge"}, arg : MergeInputs]
     \/ input \in [kind : {"data"}, arg : DataInputs]
     \/ input \in [kind : {"templates"}, arg : TemplateInputs]
     \/ input \in [kind : {"lease"}, arg : LeaseInputs]
     \/ input \in [kind : {"restart"}, arg : RestartInputs]
     \/ input \in [kind : {"pki"}, arg : PKIInputs]
     \/ input \in [kind : {"hvs"}, arg : HVSInputs]

Of(kind) == input.kind = kind /\ output = None
Computed(kind) == input.kind = kind /\ output # None
Return(v) == output' = [value |-> v] /\ UNCHANGED input

\* The VaultAuth controller and the client factory complete a VaultAuth.
Merge ==
  /\ Of("merge")
  /\ Return(MergeInVaultAuthGlobal(input.arg.o, input.arg.globals, input.arg.opts))

\* The controllers make the data of the destination Secret.
Data ==
  /\ Of("data")
  /\ Return(makeK8sData(input.arg.fields, input.arg.rendered,
                        NewSecretTransformationOption(input.arg.meta, input.arg.refs, input.arg.globalExcludeRaw)))

\* The templates are gathered, the maps visited in any order.
Templates ==
  /\ Of("templates")
  /\ \E order \in OrdersOf(input.arg.templates), orders \in RefOrders(input.arg.refs) :
       Return(gatherTemplates(input.arg.templates, input.arg.refs, order, orders))

\* The dynamic controller schedules the renewal of a lease.
Lease ==
  /\ Of("lease")
  /\ \E j \in Jitters(input.arg.lease, 10) :
       Return(computeDynamicHorizonWithJitter(input.arg.lease, input.arg.percent, j))

\* The dynamic controller finds a lease of before its restart, not yet to be renewed.
RestartCheck ==
  /\ Of("restart")
  /\ LET a == input.arg
         h == computeRelativeHorizon(a.renewed, a.lease, a.percent, a.now) IN
     /\ h >= 0
     /\ \E j \in Jitters(computeRelativeHorizonWithJitter(h, minHorizon, 0), 5) :
          Return(computeRelativeHorizonWithJitter(h, minHorizon, j))

\* The PKI controller schedules the next look at a certificate.
PKIWindow ==
  /\ Of("pki")
  /\ LET a == input.arg IN
     \E j \in Jitters(PKIHorizon(a.expiration, a.offset, a.now), 5) :
       Return(computePKIRenewalWindow(a.expiration, a.offset, a.now, j))

\* The HCP controller schedules its next reconciliation.
HVSRequeue ==
  /\ Of("hvs")
  /\ LET a == input.arg
         next == nextRenewal(a.instances, getDynamicRenewPercent(a.percent), a.now) IN
     \E j \in Jitters(next.ttl, 10), k \in Jitters(a.refresh, 10) :
       Return(requeueAfter(computeHorizonWithJitter(a.refresh, k), next, j))

Next ==
  \/ Merge \/ Data \/ Templates \/ Lease \/ RestartCheck \/ PKIWindow \/ HVSRequeue

Spec == Init /\ [][Next]_vars
-----------------------------------------------------------------------------
\* The settings are there for o to be completed from g.
Mergeable(o, g) ==
  LET m == IF o.method = Unset THEN g.method ELSE o.method IN
  /\ m \in Method
  /\ o.config[m] # None \/ g.methods[m] # None
  /\ g.methods[m] # None =>
       \A f \in Required[m] :
         \/ o.config[m] # None /\ o.config[m][f] # Unset
         \/ g.methods[m].config[f] # Unset
  /\ \/ o.mount # Unset
     \/ g.mount # Unset
     \/ g.methods[m] # None /\ g.methods[m].mount # Unset
  /\ {o.ref.params, o.ref.headers} \subseteq {"union", "replace", "none"}

\* A merged VaultAuth is completed from the VaultAuthGlobal its reference means: every setting,
\* and every parameter and header of a union, is that of the nearest level (the object, the
\* global's method, the global) that has it.  The merge fails only if no global is meant, the
\* operator does not allow it, or the settings do not suffice (MergeInVaultAuthGlobal).
MergeTakesNearest ==
  Computed("merge") =>
    LET o == input.arg.o
        globals == input.arg.globals
        opts == input.arg.opts
        meant == {g \in globals : Meant(g, o, globals)} IN
    IF o.ref = None THEN output.value = o
    ELSE IF output.value # None THEN \E g \in meant : Completed(output.value, o, g)
    ELSE \/ opts = "deny" /\ o.ref.allowDefault = "true"
         \/ opts # "allow" /\ o.ref.name = Unset
         \/ \A g \in meant : ~Mergeable(o, g)

\* The patterns of the object and those of its SecretTransformations that are not ignored, and
\* whether one of them matches k.
Used(own, refs, ignored, field) ==
  own \cup UNION {refs[i][field] : i \in {i \in DOMAIN refs : ~refs[i][ignored]}}
Matched(pats, k) == \E p \in pats : Matches[p] # Failed /\ k \in Matches[p]

\* The data of the Secret is what the templates render, the raw response unless it is excluded,
\* and the fields that no exclude matches and, if there are includes, some include does; the
\* object's filters and those of its SecretTransformations count alike.  Only a pattern that
\* does not compile, or a field or template named _raw, is an error (makeK8sData, filterData).
DataIsFiltered ==
  Computed("data") =>
    LET a == input.arg
        excludes == Used(a.meta.excludes, a.refs, "ignoreExcludes", "excludes")
        includes == Used(a.meta.includes, a.refs, "ignoreIncludes", "includes")
        raw == ~(a.meta.excludeRaw \/ a.globalExcludeRaw)
        fields == {k \in a.fields : ~Matched(excludes, k) /\ (includes # {} => Matched(includes, k))}
        data == output.value IN
    IF data = Failed
    THEN \/ \E p \in excludes \cup includes : Matches[p] = Failed
         \/ raw /\ Raw \in a.fields \cup DOMAIN a.rendered
    ELSE /\ DOMAIN data = DOMAIN a.rendered \cup fields \cup (IF raw THEN {Raw} ELSE {})
         /\ \A k \in DOMAIN a.rendered : data[k] = a.rendered[k]
         /\ raw => data[Raw] = "raw"

\* No template that a reference takes with all the others is named like the key of another one.
NamesApart(refs) ==
  \A i \in DOMAIN refs : refs[i].templateRefs = <<>> =>
    \A k, l \in DOMAIN refs[i].templates : k # l => refs[i].templates[k] # l

\* Go visits a map in any order.  The templates are gathered alike whatever the order, so that
\* two reconciliations of the same objects render the same data, as long as no template of a
\* SecretTransformation has the key of another one for its name (gatherTemplates).
TemplatesDeterministic ==
  Computed("templates") /\ NamesApart(input.arg.refs) =>
    \A order \in OrdersOf(input.arg.templates), orders \in RefOrders(input.arg.refs) :
      output.value = gatherTemplates(input.arg.templates, input.arg.refs, order, orders)

\* The renewal of a lease is scheduled neither before its renewal window begins nor after the
\* lease has ended, whatever percentage the spec asks for; after a restart a lease that is not
\* in its window is looked at no later than the window's beginning, or after the least horizon
\* (computeDynamicHorizonWithJitter, computeRelativeHorizonWithJitter).
HorizonInWindow ==
  LET a == input.arg IN
  /\ Computed("lease") => computeStartRenewingAt(a.lease, a.percent) <= output.value /\ output.value <= a.lease
  /\ Computed("restart") =>
       /\ output.value > 0
       /\ \/ output.value <= minHorizon
          \/ a.now + output.value <= a.renewed + computeStartRenewingAt(a.lease, a.percent)

\* The next look at a certificate: with an offset, or in the renewal window, it is not before
\* the rotation time, so that it renews; without an offset it is before the certificate expires,
\* and time passes before it (computePKIRenewalWindow).
CheckInWindow ==
  Computed("pki") =>
    LET a == input.arg IN
    /\ output.value.horizon > 0
    /\ output.value.inWindow => a.now + output.value.horizon >= a.expiration - a.offset
    /\ a.offset > 0 => a.now + output.value.horizon >= a.expiration - a.offset
    /\ a.offset = 0 /\ ~output.value.inWindow => a.now + output.value.horizon <= a.expiration

\* With dynamic secrets there is always a next reconciliation, no later than spec.refreshAfter
\* asks.  It is that of the secret whose renewal comes first, at or after the renewal time and
\* before that secret expires.  (A renewal time of exactly now is left out: see ZeroRenewal.)
NextRenewalFirst ==
  Computed("hvs") =>
    LET a == input.arg
        percent == getDynamicRenewPercent(a.percent)
        due(i) == TimeToRenewal(a.instances[i], percent, a.now)
        first == {i \in DOMAIN a.instances : \A j \in DOMAIN a.instances : due(i) <= due(j)} IN
    (a.instances # <<>> /\ \A i \in DOMAIN a.instances : due(i) > 0) =>
      /\ output.value > 0
      /\ a.refresh > 0 => output.value <= a.refresh
      /\ \E i \in first :
           LET ttl == a.instances[i].expiresAt - a.instances[i].createdAt IN
           /\ output.value <= due(i) + Part(ttl, 10)
           /\ a.refresh = 0 => due(i) <= output.value
           /\ ~timeForRenewal(a.instances[i], percent, a.now) =>
                a.now + output.value <= a.instances[i].expiresAt
-----------------------------------------------------------------------------
\* What the computations do not guarantee.

\* A comment of the API says that the templates of the object "take precedence over templates
\* defined in a SecretTransformation".  gatherTemplates keeps two templates of one key if their
\* names differ, and the one whose name is later in the order is rendered last.
InlinePrecedence ==
  Computed("templates") /\ output.value # Failed =>
    \A k \in DOMAIN input.arg.templates :
      renderTemplates(output.value)[k] = Named(input.arg.templates[k], "obj", k)

\* Without NamesApart the order of a map decides whether a template is rendered.
TemplatesAlwaysDeterministic ==
  Computed("templates") =>
    \A order \in OrdersOf(input.arg.templates), orders \in RefOrders(input.arg.refs) :
      output.value = gatherTemplates(input.arg.templates, input.arg.refs, order, orders)

\* The jitter may take the next look at a certificate beyond its expiration.
CheckBeforeExpiry ==
  Computed("pki") =>
    LET a == input.arg IN
    ~output.value.inWindow => a.now + output.value.horizon <= a.expiration

\* The jitter of the secret that is renewed first, a share of its own lifetime, may take the next
\* reconciliation beyond the expiration of a secret of a shorter lifetime.
RequeuedBeforeExpiry ==
  Computed("hvs") =>
    \A i \in DOMAIN input.arg.instances :
      ~timeForRenewal(input.arg.instances[i], getDynamicRenewPercent(input.arg.percent), input.arg.now) =>
        input.arg.now + output.value <= input.arg.instances[i].expiresAt

\* A secret whose renewal is due exactly now counts as none.
ZeroRenewal ==
  Computed("hvs") /\ input.arg.instances # <<>> => output.value > 0
=============================================================================
