-------------------------- MODULE Operators_proofs --------------------------
(***************************************************************************)
(* Proofs about the operator's computations, for all inputs and not only   *)
(* the ones that TLC enumerates:                                           *)
(*  - the scheduling of renewals, for all durations, percentages, offsets  *)
(*    and jitters (TimesInv);                                              *)
(*  - the merge of a VaultAuth with a VaultAuthGlobal (MergeInv);          *)
(*  - the next reconciliation of dynamic HCP secrets (RequeueInv);         *)
(*  - the filters of the data of a Secret (DataInv);                       *)
(*  - the gathering of templates from maps that are visited in any order   *)
(*    (TemplatesInv).                                                      *)
(***************************************************************************)
EXTENDS Operators, FiniteSetTheorems, WellFoundedInduction, TLAPS

\* A part of a duration is a duration, and a larger percentage is a larger part.
LEMMA PartMonotone ==
  ASSUME NEW d \in Nat, NEW p \in Nat, NEW q \in Nat, p <= q
  PROVE  Part(d, p) \in Nat /\ Part(d, p) <= Part(d, q)
<1>1. d * p \in Nat /\ d * q \in Nat /\ d * p <= d * q
  OBVIOUS
<1>. QED
  BY <1>1 DEF Part

\* The part of a duration is a duration.
LEMMA PartNat ==
  ASSUME NEW d \in Nat, NEW p \in Nat
  PROVE  Part(d, p) \in Nat
BY PartMonotone, p <= p

\* Two parts are together no more than the part of both percentages.
LEMMA PartSum ==
  ASSUME NEW d \in Nat, NEW p \in 0..90
  PROVE  Part(d, p) + Part(d, 10) <= d
<1>1. p \in Nat /\ 90 \in Nat /\ 10 \in Nat /\ p <= 90
  OBVIOUS
<1>2. Part(d, p) <= Part(d, 90)
  BY SMTT(30), <1>1, PartMonotone
<1>3. Part(d, 90) + Part(d, 10) <= d
  BY DEF Part
<1>4. Part(d, p) \in Nat
  BY SMTT(30), <1>1, PartNat
<1>5. Part(d, 90) \in Nat
  BY SMTT(30), <1>1, PartNat
<1>6. Part(d, 10) \in Nat
  BY SMTT(30), <1>1, PartNat
<1>. QED
  BY SMTT(30), <1>2, <1>3, <1>4, <1>5, <1>6

\* A jitter is less than the part it is drawn from, or zero.
LEMMA JitterBound ==
  ASSUME NEW d \in Nat, NEW p \in Nat, NEW j \in Jitters(d, p)
  PROVE  /\ j \in Nat /\ Part(d, p) \in Nat /\ j <= Part(d, p)
         /\ Part(d, p) > 0 => j < Part(d, p)
<1>1. Part(d, p) \in Nat
  BY PartNat
<1>. QED
  BY <1>1 DEF Jitters

LEMMA CapRange ==
  ASSUME NEW p \in Int
  PROVE  capRenewalPercent(p) \in 0..90
BY DEF capRenewalPercent, renewalPercentCap
-----------------------------------------------------------------------------
\* The inputs are of their sets, and the results as they are to be.
TimesInv ==
  /\ input.kind = "lease" => input.arg \in LeaseInputs
  /\ input.kind = "restart" => input.arg \in RestartInputs
  /\ input.kind = "pki" => input.arg \in PKIInputs
  /\ HorizonInWindow
  /\ CheckInWindow

LEMMA TimesInvInit == Init => TimesInv
BY Zenon DEF Init, TimesInv, HorizonInWindow, CheckInWindow, Computed

LEMMA TimesInvNext == TimesInv /\ [Next]_vars => TimesInv'
\* The horizon of a lease lies between the beginning of its renewal window and its end.
<1>LeaseHorizon.
    ASSUME NEW lease \in Nat, NEW percent \in Int, NEW j \in Jitters(lease, 10)
    PROVE  LET h == computeDynamicHorizonWithJitter(lease, percent, j) IN
           computeStartRenewingAt(lease, percent) <= h /\ h <= lease
  <2>. DEFINE c == capRenewalPercent(percent)
  <2>1. c \in 0..90 BY CapRange
  <2>2. Part(lease, c) \in Nat
    <3>. HIDE DEF c
    <3>1. c \in Nat BY <2>1
    <3>. QED BY Zenon, <3>1, PartNat
  <2>3. Part(lease, c) + Part(lease, 10) <= lease BY <2>1, PartSum
  <2>4. j \in Nat /\ Part(lease, 10) \in Nat /\ j <= Part(lease, 10) BY JitterBound
  <2>. HIDE DEF c
  <2>5. Part(lease, c) <= Part(lease, c) + Part(lease, 10) - j
        /\ Part(lease, c) + Part(lease, 10) - j <= lease
    BY <2>2, <2>3, <2>4
  <2>. QED
    BY <2>5 DEF c, computeDynamicHorizonWithJitter, computeStartRenewingAt, computeMaxJitter

\* The horizon after a restart: positive, and no later than the window's beginning.
<1>RestartHorizon.
    ASSUME NEW h \in Nat, NEW j \in Jitters(computeRelativeHorizonWithJitter(h, minHorizon, 0), 5)
    PROVE  LET r == computeRelativeHorizonWithJitter(h, minHorizon, j) IN
           r \in Int /\ r > 0 /\ (r <= minHorizon \/ r <= h)
  <2>. DEFINE d == computeRelativeHorizonWithJitter(h, minHorizon, 0)
  <2>1. d \in Nat /\ d > 0 /\ (d = minHorizon \/ d = h)
    BY TimesAssumption DEF computeRelativeHorizonWithJitter
  <2>2. computeRelativeHorizonWithJitter(h, minHorizon, j) = d - j
    BY TimesAssumption DEF computeRelativeHorizonWithJitter
  <2>3. j \in Nat /\ Part(d, 5) \in Nat /\ j <= Part(d, 5)
    BY <2>1, JitterBound
  <2>4. Part(d, 5) < d
    <3>. HIDE DEF d
    <3>. QED BY <2>1 DEF Part
  <2>. HIDE DEF d
  <2>. QED
    BY SMTT(30), <2>1, <2>2, <2>3, <2>4, TimesAssumption

\* The horizon of a certificate: the facts of CheckInWindow.
<1>PKIWindowHorizon.
    ASSUME NEW e \in Nat, NEW o \in Nat, NEW now \in Nat, NEW j \in Jitters(PKIHorizon(e, o, now), 5)
    PROVE  LET w == computePKIRenewalWindow(e, o, now, j) IN
           /\ w.horizon > 0
           /\ w.inWindow => now + w.horizon >= e - o
           /\ o > 0 => now + w.horizon >= e - o
           /\ o = 0 /\ ~w.inWindow => now + w.horizon <= e
  <2>. DEFINE h == PKIHorizon(e, o, now)
              in == PKIInWindow(e, o, now)
              w == computePKIRenewalWindow(e, o, now, j)
  <2>1. /\ h \in Nat /\ h > 0 /\ in \in BOOLEAN
        /\ in => h = minHorizon /\ e - o - now < minHorizon
        /\ ~in => h = e - o - now
    BY TimesAssumption DEF PKIHorizon, PKIInWindow, isInWindow
  <2>2. j \in Nat /\ Part(h, 5) \in Nat /\ j <= Part(h, 5)
    BY SMTT(30), <2>1, JitterBound
  <2>3. Part(h, 5) < h
    <3>. HIDE DEF h
    <3>. QED BY <2>1 DEF Part
  <2>4. /\ w.inWindow = in
        /\ o > 0 \/ in => w.horizon = h + j
        /\ ~(o > 0 \/ in) => w.horizon = h - j
    BY Zenon DEF computePKIRenewalWindow
  <2>. HIDE DEF h, in, w
  <2>5. ASSUME in
        PROVE  w.horizon > 0 /\ now + w.horizon >= e - o
    BY SMTT(30), <2>1, <2>2, <2>4, <2>5, TimesAssumption
  <2>6. ASSUME ~in, o > 0
        PROVE  w.horizon > 0 /\ now + w.horizon >= e - o
    BY SMTT(30), <2>1, <2>2, <2>4, <2>6
  <2>7. ASSUME ~in, o = 0
        PROVE  w.horizon > 0 /\ now + w.horizon <= e
    BY SMTT(30), <2>1, <2>2, <2>3, <2>4, <2>7
  <2>8. o > 0 \/ o = 0
    OBVIOUS
  <2>9. /\ w.horizon > 0
        /\ w.inWindow => now + w.horizon >= e - o
        /\ o > 0 => now + w.horizon >= e - o
        /\ o = 0 /\ ~w.inWindow => now + w.horizon <= e
    <3>1. CASE in
      BY SMTT(30), <2>4, <2>5, <3>1
    <3>2. CASE ~in
      BY SMTT(30), <2>4, <2>6, <2>7, <2>8, <3>2
    <3>. QED
      BY SMTT(30), <3>1, <3>2
  <2>. QED
    BY <2>9 DEF w

<1>. SUFFICES ASSUME TimesInv, [Next]_vars PROVE TimesInv'
  BY Zenon
<1>1. CASE Lease
  <2>1. input' = input /\ input.kind = "lease"
    BY SMTT(30), <1>1 DEF Lease, Of, Return
  <2>2. input.arg \in [lease : Nat, percent : Int]
    BY SMTT(30), <2>1, InputsAssumption DEF TimesInv
  <2>3. PICK j \in Jitters(input.arg.lease, 10) :
          output' = [value |-> computeDynamicHorizonWithJitter(input.arg.lease, input.arg.percent, j)]
    BY SMTT(30), <1>1 DEF Lease, Return
  <2>4. /\ computeStartRenewingAt(input.arg.lease, input.arg.percent) <= output'.value
        /\ output'.value <= input.arg.lease
    BY SMTT(30), <2>2, <2>3, <1>LeaseHorizon
  <2>. QED
    BY SMTT(30), <2>1, <2>4 DEF TimesInv, HorizonInWindow, CheckInWindow, Computed
<1>2. CASE RestartCheck
  <2>. DEFINE a == input.arg
              s == computeStartRenewingAt(a.lease, a.percent)
              h == computeRelativeHorizon(a.renewed, a.lease, a.percent, a.now)
  <2>1. input' = input /\ input.kind = "restart" /\ h >= 0
    BY SMTT(30), <1>2 DEF RestartCheck, Of, Return
  <2>2. a \in [renewed : Nat, lease : Nat, percent : Int, now : Nat]
    BY SMTT(30), <2>1, InputsAssumption DEF TimesInv
  <2>3. s \in Nat
    <3>1. capRenewalPercent(a.percent) \in Nat /\ a.lease \in Nat
      BY <2>2, CapRange
    <3>. QED
      BY ZenonT(40), <3>1, PartNat DEF computeStartRenewingAt
  <2>4. h = a.renewed + s - a.now
    BY DEF computeRelativeHorizon
  <2>5. h \in Nat
    <3>. HIDE DEF s, h
    <3>. QED BY <2>1, <2>2, <2>3, <2>4
  <2>6. PICK j \in Jitters(computeRelativeHorizonWithJitter(h, minHorizon, 0), 5) :
          output' = [value |-> computeRelativeHorizonWithJitter(h, minHorizon, j)]
    BY <1>2 DEF RestartCheck, Return
  <2>. HIDE DEF s, h
  <2>7. output'.value \in Int /\ output'.value > 0 /\ (output'.value <= minHorizon \/ output'.value <= h)
    BY SMTT(30), <2>5, <2>6, <1>RestartHorizon
  <2>8. output'.value <= minHorizon \/ a.now + output'.value <= a.renewed + s
    BY SMTT(30), <2>2, <2>3, <2>4, <2>7, TimesAssumption
  <2>. QED
    BY SMTT(30), <2>1, <2>7, <2>8 DEF TimesInv, HorizonInWindow, CheckInWindow, Computed, s
<1>3. CASE PKIWindow
  <2>. DEFINE a == input.arg
  <2>1. input' = input /\ input.kind = "pki"
    BY SMTT(30), <1>3 DEF PKIWindow, Of, Return
  <2>2. a \in [expiration : Nat, offset : Nat, now : Nat]
    BY SMTT(30), <2>1, InputsAssumption DEF TimesInv
  <2>3. PICK j \in Jitters(PKIHorizon(a.expiration, a.offset, a.now), 5) :
          output' = [value |-> computePKIRenewalWindow(a.expiration, a.offset, a.now, j)]
    BY SMTT(30), <1>3 DEF PKIWindow, Return
  <2>4. LET w == output'.value IN
        /\ w.horizon > 0
        /\ w.inWindow => a.now + w.horizon >= a.expiration - a.offset
        /\ a.offset > 0 => a.now + w.horizon >= a.expiration - a.offset
        /\ a.offset = 0 /\ ~w.inWindow => a.now + w.horizon <= a.expiration
    BY SMTT(30), <2>2, <2>3, <1>PKIWindowHorizon
  <2>. QED
    BY SMTT(30), <2>1, <2>4 DEF TimesInv, HorizonInWindow, CheckInWindow, Computed
<1>4. CASE Merge \/ Data \/ Templates \/ HVSRequeue
  <2>1. input' = input /\ input.kind \notin {"lease", "restart", "pki"}
    BY SMTT(30), <1>4 DEF Merge, Data, Templates, HVSRequeue, Of, Return
  <2>. QED
    BY SMTT(30), <2>1 DEF TimesInv, HorizonInWindow, CheckInWindow, Computed
<1>5. CASE UNCHANGED vars
  BY <1>5 DEF vars, TimesInv, HorizonInWindow, CheckInWindow, Computed
<1>. QED
  BY SMTT(30), <1>1, <1>2, <1>3, <1>4, <1>5 DEF Next

\* The renewal of every lease is scheduled in its renewal window and before its end, for all
\* durations and percentages (computeDynamicHorizonWithJitter and after a restart).
THEOREM LeasesRenewedInWindow == Spec => []HorizonInWindow
<1>1. TimesInv => HorizonInWindow
  BY SMTT(30) DEF TimesInv
<1>. QED
  BY <1>1, TimesInvInit, TimesInvNext, PTL DEF Spec

\* The next look at every certificate finds it in its renewal window, or comes before its
\* expiration (computePKIRenewalWindow).
THEOREM CertificatesCheckedInWindow == Spec => []CheckInWindow
<1>1. TimesInv => CheckInWindow
  BY Zenon DEF TimesInv
<1>. QED
  BY <1>1, TimesInvInit, TimesInvNext, PTL DEF Spec
-----------------------------------------------------------------------------
\* The shape that the merge relies on.
Shaped(o, g) ==
  /\ o \in VaultAuth /\ o.ref # None /\ g \in VaultAuthGlobal
  /\ \A m \in Method : o.config[m] # None => DOMAIN o.config[m] = Fields(m)
  /\ \A m \in Method : g.methods[m] # None => DOMAIN g.methods[m].config = Fields(m)

\* A VaultAuth whose settings are replaced, and its fields.
Replaced(o, m, c, mt, n, p, h, k) ==
  [o EXCEPT !.method = m, !.config = [@ EXCEPT ![m] = c], !.mount = mt, !.namespace = n,
            !.params = p, !.headers = h, !.conn = k]

\* The inputs of the merge are well formed, and its results as they are to be.
MergeInv == (input.kind = "merge" => input.arg \in MergeInputs) /\ MergeTakesNearest

\* A VaultAuth is completed from the VaultAuthGlobal that its reference means, every setting from
\* the nearest level, for all settings, maps and objects; and the merge fails only for a reason
\* (MergeInVaultAuthGlobal).
THEOREM SettingsAreNearest == Spec => []MergeTakesNearest
\* The first of two, and of three, values that is not the zero one.
<1>FirstOfTwo.
    ASSUME NEW z, NEW a, NEW b
    PROVE  firstNonZeroLen(z, <<a, b>>) = IF a # z THEN a ELSE b
  <2> DEFINE S == {i \in DOMAIN <<a, b>> : <<a, b>>[i] # z}
  <2>1. a # z => Min(S) = 1
    BY DEF Min
  <2>2. a = z /\ b # z => Min(S) = 2
    BY DEF Min
  <2>3. S = {} <=> a = z /\ b = z
    OBVIOUS
  <2> QED
    BY <2>1, <2>2, <2>3 DEF firstNonZeroLen

<1>FirstOfThree.
    ASSUME NEW z, NEW a, NEW b, NEW c
    PROVE  firstNonZeroLen(z, <<a, b, c>>) = IF a # z THEN a ELSE IF b # z THEN b ELSE c
  <2> DEFINE S == {i \in DOMAIN <<a, b, c>> : <<a, b, c>>[i] # z}
  <2>1. a # z => Min(S) = 1
    BY DEF Min
  <2>2. a = z /\ b # z => Min(S) = 2
    BY DEF Min
  <2>3. a = z /\ b = z /\ c # z => Min(S) = 3
    BY DEF Min
  <2>4. S = {} <=> a = z /\ b = z /\ c = z
    OBVIOUS
  <2> QED
    BY <2>1, <2>2, <2>3, <2>4 DEF firstNonZeroLen

<1>FirstOfOne.
    ASSUME NEW z, NEW a
    PROVE  firstNonZeroLen(z, <<a>>) = a
  <2> DEFINE S == {i \in DOMAIN <<a>> : <<a>>[i] # z}
  <2>1. a # z => Min(S) = 1
    BY DEF Min
  <2>2. S = {} <=> a = z
    OBVIOUS
  <2> QED
    BY <2>1, <2>2 DEF firstNonZeroLen

\* The first setting is that of the nearest level.
<1>NearestOfTwo.
    ASSUME NEW a, NEW b
    PROVE  /\ firstSet(<<a, b>>) = IF a # Unset THEN a ELSE b
           /\ FromNearest(firstSet(<<a, b>>), <<a, b>>)
  <2>1. firstSet(<<a, b>>) = IF a # Unset THEN a ELSE b
    BY <1>FirstOfTwo DEF firstSet
  <2>2. FromNearest(IF a # Unset THEN a ELSE b, <<a, b>>)
    BY DEF FromNearest
  <2> QED
    BY Zenon, <2>1, <2>2

<1>NearestOfThree.
    ASSUME NEW a, NEW b, NEW c
    PROVE  /\ firstSet(<<a, b, c>>) = IF a # Unset THEN a ELSE IF b # Unset THEN b ELSE c
           /\ FromNearest(firstSet(<<a, b, c>>), <<a, b, c>>)
  <2>1. firstSet(<<a, b, c>>) = IF a # Unset THEN a ELSE IF b # Unset THEN b ELSE c
    BY <1>FirstOfThree DEF firstSet
  <2>2. FromNearest(IF a # Unset THEN a ELSE IF b # Unset THEN b ELSE c, <<a, b, c>>)
    BY DEF FromNearest
  <2> QED
    BY Zenon, <2>1, <2>2

\* A map without keys is the empty one.
<1>EmptyMap.
    ASSUME NEW p \in Map
    PROVE  DOMAIN p = {} <=> p = <<>>
  <2>1. PICK K \in SUBSET Param : p \in [K -> Setting]
    BY Zenon DEF Map
  <2>2. <<>> = [k \in {} |-> Unset] /\ DOMAIN <<>> = {}
    OBVIOUS
  <2> QED
    BY <2>1, <2>2

\* A union of three maps has their keys, each with the value of the last of them that has it.
<1>UnionOfMaps.
    ASSUME NEW a, NEW b, NEW c
    PROVE  mergeMaps(<<a, b, c>>) =
             [k \in DOMAIN a \cup DOMAIN b \cup DOMAIN c |->
                IF k \in DOMAIN c THEN c[k] ELSE IF k \in DOMAIN b THEN b[k] ELSE a[k]]
  <2> DEFINE ms == <<a, b, c>>
             S(k) == {i \in DOMAIN ms : k \in DOMAIN ms[i]}
             D == UNION {DOMAIN ms[i] : i \in DOMAIN ms}
  <2>1. D = DOMAIN a \cup DOMAIN b \cup DOMAIN c
    OBVIOUS
  <2>2. ASSUME NEW k \in D
        PROVE  ms[Max(S(k))] = IF k \in DOMAIN c THEN c ELSE IF k \in DOMAIN b THEN b ELSE a
    <3>1. k \in DOMAIN c => Max(S(k)) = 3
      BY DEF Max
    <3>2. k \notin DOMAIN c /\ k \in DOMAIN b => Max(S(k)) = 2
      BY DEF Max
    <3>3. k \notin DOMAIN c /\ k \notin DOMAIN b => Max(S(k)) = 1
      BY <2>1, <2>2 DEF Max
    <3> QED
      BY <3>1, <3>2, <3>3
  <2>3. mergeMaps(ms) = [k \in D |-> ms[Max(S(k))][k]]
    BY Zenon DEF mergeMaps
  <2> HIDE DEF D, S, ms
  <2>4. mergeMaps(ms) = [k \in D |-> IF k \in DOMAIN c THEN c[k]
                                     ELSE IF k \in DOMAIN b THEN b[k] ELSE a[k]]
    BY <2>2, <2>3
  <2> QED
    BY Zenon, <2>1, <2>4 DEF ms

\* The maps are closed under union.
<1>UnionIsMap.
    ASSUME NEW a \in Map, NEW b \in Map, NEW c \in Map
    PROVE  mergeMaps(<<a, b, c>>) \in Map
  <2>1. ASSUME NEW p \in Map
        PROVE  DOMAIN p \in SUBSET Param /\ \A k \in DOMAIN p : p[k] \in Setting
    <3>1. PICK K \in SUBSET Param : p \in [K -> Setting]
      BY Zenon DEF Map
    <3> QED
      BY Zenon, <3>1
  <2> DEFINE u == mergeMaps(<<a, b, c>>)
             D == DOMAIN a \cup DOMAIN b \cup DOMAIN c
  <2>2. u = [k \in D |-> IF k \in DOMAIN c THEN c[k] ELSE IF k \in DOMAIN b THEN b[k] ELSE a[k]]
    BY <1>UnionOfMaps
  <2> HIDE DEF u
  <2>3. D \in SUBSET Param
    BY Zenon, <2>1
  <2>4. u \in [D -> Setting]
    BY <2>1, <2>2
  <2>5. u \in Map
    BY Zenon, <2>3, <2>4 DEF Map
  <2> QED
    BY Zenon, <2>5 DEF u

\* A known strategy makes a map, which comes from the nearest levels; another one is an error.
<1>StrategyNearest.
    ASSUME NEW s, NEW a \in Map, NEW b \in Map, NEW c \in Map
    PROVE  LET v == Strategy(s, a, b, c) IN
           /\ s \in {"union", "replace", "none"} => v # None
           /\ v # None => v \in Map /\ MapFromNearest(v, s, <<a, b, c>>)
  <2> DEFINE v == Strategy(s, a, b, c)
             levels == <<a, b, c>>
  <2>1. CASE s = "union"
    <3>1. v = mergeMaps(<<c, b, a>>)
      BY <2>1 DEF Strategy
    <3>2. v \in Map /\ v # None
      BY Zenon, <3>1, <1>UnionIsMap, MergeAssumption
    <3> HIDE DEF v
    <3>3. v = [k \in DOMAIN c \cup DOMAIN b \cup DOMAIN a |->
                 IF k \in DOMAIN a THEN a[k] ELSE IF k \in DOMAIN b THEN b[k] ELSE c[k]]
      BY <3>1, <1>UnionOfMaps
    <3>4. DOMAIN v = UNION {DOMAIN levels[i] : i \in DOMAIN levels}
      BY <3>3
    <3>5. ASSUME NEW k \in DOMAIN v
          PROVE  \E i \in {i \in DOMAIN levels : k \in DOMAIN levels[i]} :
                   /\ v[k] = levels[i][k]
                   /\ \A j \in {m \in DOMAIN levels : k \in DOMAIN levels[m]} : i <= j
      <4>1. CASE k \in DOMAIN a
        <5>1. v[k] = levels[1][k] /\ k \in DOMAIN levels[1] /\ 1 \in DOMAIN levels
          BY <3>3, <4>1
        <5> QED
          BY <5>1
      <4>2. CASE k \notin DOMAIN a /\ k \in DOMAIN b
        <5>1. v[k] = levels[2][k] /\ k \in DOMAIN levels[2] /\ 2 \in DOMAIN levels
          BY <3>3, <4>2
        <5> QED
          BY <5>1, <4>2
      <4>3. CASE k \notin DOMAIN a /\ k \notin DOMAIN b
        <5>1. v[k] = levels[3][k] /\ k \in DOMAIN levels[3] /\ 3 \in DOMAIN levels
          BY <3>3, <3>5, <4>3
        <5> QED
          BY <5>1, <4>3
      <4> QED
        BY Zenon, <4>1, <4>2, <4>3
    <3>6. MapFromNearest(v, s, levels)
      BY <2>1, <3>4, <3>5 DEF MapFromNearest
    <3> QED
      BY Zenon, <3>2, <3>6 DEF v
  <2>2. CASE s = "replace"
    <3>1. v = IF a # <<>> THEN a ELSE IF b # <<>> THEN b ELSE c
      BY <2>2, <1>FirstOfThree DEF Strategy
    <3>2. v \in Map /\ v # None
      BY Zenon, <3>1, MergeAssumption
    <3>3. \A p \in {a, b, c} : DOMAIN p = {} <=> p = <<>>
      BY Zenon, <1>EmptyMap
    <3> DEFINE S == {i \in DOMAIN levels : DOMAIN levels[i] # {}}
    <3>4. IF S = {} THEN DOMAIN v = {}
          ELSE \E i \in S : v = levels[i] /\ \A j \in S : i <= j
      <4> HIDE DEF v
      <4>1. CASE a # <<>>
        <5>1. 1 \in S /\ v = levels[1] /\ \A j \in S : 1 <= j
          BY <3>1, <3>3, <4>1
        <5> QED
          BY <5>1
      <4>2. CASE a = <<>> /\ b # <<>>
        <5>1. DOMAIN a = {} /\ DOMAIN b # {} /\ v = b
          BY Zenon, <3>1, <3>3, <4>2
        <5>2. 2 \in S /\ v = levels[2] /\ \A j \in S : 2 <= j
          BY <5>1
        <5> QED
          BY <5>2
      <4>3. CASE a = <<>> /\ b = <<>> /\ c # <<>>
        <5>1. DOMAIN a = {} /\ DOMAIN b = {} /\ DOMAIN c # {} /\ v = c
          BY Zenon, <3>1, <3>3, <4>3
        <5>2. 3 \in S /\ v = levels[3] /\ \A j \in S : 3 <= j
          BY <5>1
        <5> QED
          BY <5>2
      <4>4. CASE a = <<>> /\ b = <<>> /\ c = <<>>
        BY <3>1, <3>3, <4>4
      <4> QED
        BY Zenon, <4>1, <4>2, <4>3, <4>4
    <3>5. MapFromNearest(v, s, levels)
      BY <2>2, <3>4 DEF MapFromNearest
    <3> QED
      BY Zenon, <3>2, <3>5
  <2>3. CASE s = "none"
    <3>1. v = a
      BY <2>3 DEF Strategy
    <3>2. v = levels[1]
      BY <3>1
    <3>3. MapFromNearest(v, s, levels)
      BY <2>3, <3>2 DEF MapFromNearest
    <3> QED
      BY Zenon, <3>1, <3>3, MergeAssumption
  <2>4. CASE s \notin {"union", "replace", "none"}
    <3>1. v = None
      BY <2>4 DEF Strategy
    <3> QED
      BY Zenon, <2>4, <3>1
  <2> QED
    BY Zenon, <2>1, <2>2, <2>3, <2>4

\* The levels of a field of the method's configuration.
<1>FieldNearest.
    ASSUME NEW x, NEW y
    PROVE  /\ FromNearest(x, <<x>> \o <<>>)
           /\ FromNearest(x, <<>> \o <<x>>)
           /\ FromNearest(IF x = Unset THEN y ELSE x, <<x>> \o <<y>>)
  <2> DEFINE s == <<x>> \o <<>>
             t == <<>> \o <<x>>
             u == <<x>> \o <<y>>
  <2>1. <<>> \in Seq({x, y}) /\ <<x>> \in Seq({x, y}) /\ <<y>> \in Seq({x, y})
    OBVIOUS
  <2>2. s \in Seq({x, y}) /\ t \in Seq({x, y}) /\ u \in Seq({x, y})
    BY <2>1
  <2>3. Len(s) = 1 /\ s[1] = x /\ Len(t) = 1 /\ t[1] = x
    BY <2>1
  <2>4. Len(u) = 2 /\ u[1] = x /\ u[2] = y
    BY <2>1
  <2> HIDE DEF s, t, u
  <2>5. s = <<x>> /\ t = <<x>>
    BY <2>2, <2>3
  <2>6. u = <<x, y>>
    BY <2>2, <2>4
  <2>7. FromNearest(x, <<x>>)
    BY DEF FromNearest
  <2>8. FromNearest(IF x = Unset THEN y ELSE x, <<x, y>>)
    BY DEF FromNearest
  <2> QED
    BY Zenon, <2>5, <2>6, <2>7, <2>8 DEF s, t, u

\* The merged configuration of a method has every field from the nearest level, and what a
\* VaultAuthGlobal contributed to is valid; there is one if the levels suffice.
<1>ConfigNearest.
    ASSUME NEW m \in Method,
           NEW own, own # None => own \in [Fields(m) -> Setting],
           NEW global, global # None => global.config \in [Fields(m) -> Setting]
    PROVE  LET c == MergedConfig(m, own, global) IN
           /\ c # None =>
                \A f \in Fields(m) :
                  FromNearest(c[f], (IF own = None THEN <<>> ELSE <<own[f]>>)
                                      \o (IF global = None THEN <<>> ELSE <<global.config[f]>>))
           /\ c # None => c \in [Fields(m) -> Setting]
           /\ c # None /\ global # None => Validate(m, c)
           /\ /\ own # None \/ global # None
              /\ global # None =>
                   \A f \in Required[m] : (own # None /\ own[f] # Unset) \/ global.config[f] # Unset
              => c # None
  <2> USE <1>ConfigNearest
  <2> DEFINE c == MergedConfig(m, own, global)
             merged == [f \in DOMAIN own |-> IF own[f] = Unset THEN global.config[f] ELSE own[f]]
  <2>0. Required[m] \subseteq Fields(m) /\ \A d \in [Fields(m) -> Setting] : d # None
    BY Zenon, MergeAssumption DEF Fields, Configs
  <2>1. CASE global = None
    <3>1. c = own
      BY Zenon, <2>1 DEF MergedConfig
    <3>2. own # None =>
            \A f \in Fields(m) : FromNearest(own[f], <<own[f]>> \o <<>>)
      BY Zenon, <1>FieldNearest
    <3> QED
      BY Zenon, <2>1, <3>1, <3>2
  <2>2. CASE global # None /\ own = None
    <3>1. c = IF Validate(m, global.config) THEN global.config ELSE None
      BY Zenon, <2>2 DEF MergedConfig
    <3>2. \A f \in Fields(m) : FromNearest(global.config[f], <<>> \o <<global.config[f]>>)
      BY Zenon, <1>FieldNearest
    <3>3. c # None => c = global.config /\ Validate(m, c)
      BY Zenon, <3>1
    <3>4. (\A f \in Required[m] : global.config[f] # Unset) => c # None
      BY Zenon, <2>0, <2>2, <3>1 DEF Validate
    <3> QED
      BY Zenon, <2>2, <3>2, <3>3, <3>4
  <2>3. CASE global # None /\ own # None
    <3>1. c = IF Validate(m, merged) THEN merged ELSE None
      BY Zenon, <2>3 DEF MergedConfig, MergeConfig
    <3>2. DOMAIN own = Fields(m)
      BY Zenon, <2>3
    <3>3. \A f \in Fields(m) : merged[f] = IF own[f] = Unset THEN global.config[f] ELSE own[f]
      BY Zenon, <3>2
    <3>4. merged \in [Fields(m) -> Setting] /\ merged # None
      <4>1. merged \in [Fields(m) -> Setting]
        BY <2>3, <3>2
      <4> QED
        BY Zenon, <2>0, <4>1
    <3> HIDE DEF merged
    <3>5. ASSUME NEW f \in Fields(m)
          PROVE  FromNearest(merged[f], <<own[f]>> \o <<global.config[f]>>)
      BY <3>3, <1>FieldNearest
    <3>6. c # None => c = merged /\ Validate(m, c)
      BY Zenon, <3>1
    <3>7. (\A f \in Required[m] : own[f] # Unset \/ global.config[f] # Unset) => c # None
      <4>1. (\A f \in Required[m] : own[f] # Unset \/ global.config[f] # Unset)
               => \A f \in Required[m] : merged[f] # Unset
        BY <2>0, <3>3
      <4> QED
        BY Zenon, <3>1, <3>4, <4>1 DEF Validate
    <3> QED
      BY Zenon, <2>3, <3>4, <3>5, <3>6, <3>7
  <2> QED
    BY Zenon, <2>1, <2>2, <2>3

\* A configuration with the fields of a method is one of that method.
<1>ConfigShape.
    ASSUME NEW m \in Method, NEW c \in Configs, DOMAIN c = Fields(m)
    PROVE  c \in [Fields(m) -> Setting]
  <2> USE <1>ConfigShape
  <2>1. PICK n \in Method : c \in [Fields(n) -> Setting]
    BY Zenon DEF Configs
  <2>2. \A f \in DOMAIN c : c[f] \in Setting
    BY Zenon, <2>1
  <2>3. c = [f \in DOMAIN c |-> c[f]]
    BY Zenon, <2>1
  <2> QED
    BY Zenon, <2>2, <2>3

\* What the levels of the merge are for the method of the result.
<1>ShapedLevels.
    ASSUME NEW o, NEW g, Shaped(o, g), NEW m \in Method
    PROVE  LET level == IF g.methods[m] = None THEN NoMethod ELSE g.methods[m] IN
           /\ level.params \in Map /\ level.headers \in Map
           /\ o.params \in Map /\ o.headers \in Map /\ g.params \in Map /\ g.headers \in Map
           /\ o.config[m] # None => o.config[m] \in [Fields(m) -> Setting]
           /\ g.methods[m] # None => g.methods[m].config \in [Fields(m) -> Setting]
  <2> USE <1>ShapedLevels
  <2>1. /\ o.params \in Map /\ o.headers \in Map /\ g.params \in Map /\ g.headers \in Map
        /\ o.config \in [Method -> Configs \cup {None}]
        /\ g.methods \in [Method -> GlobalConfig \cup {None}]
    BY Zenon DEF Shaped, VaultAuth, VaultAuthGlobal
  <2>2. <<>> \in Map
    <3>1. {} \in SUBSET Param /\ <<>> \in [{} -> Setting]
      OBVIOUS
    <3> QED
      BY Zenon, <3>1 DEF Map
  <2>3. NoMethod.params \in Map /\ NoMethod.headers \in Map
    BY Zenon, <2>2 DEF NoMethod
  <2>4. g.methods[m] # None => /\ g.methods[m].config \in Configs
                               /\ g.methods[m].params \in Map /\ g.methods[m].headers \in Map
    BY Zenon, <2>1 DEF GlobalConfig
  <2>5. o.config[m] # None => o.config[m] \in [Fields(m) -> Setting]
    <3>1. o.config[m] # None => o.config[m] \in Configs /\ DOMAIN o.config[m] = Fields(m)
      BY Zenon, <2>1 DEF Shaped
    <3> QED
      BY Zenon, <3>1, <1>ConfigShape
  <2>6. g.methods[m] # None => g.methods[m].config \in [Fields(m) -> Setting]
    <3>1. g.methods[m] # None => DOMAIN g.methods[m].config = Fields(m)
      BY Zenon DEF Shaped
    <3> QED
      BY Zenon, <2>4, <3>1, <1>ConfigShape
  <2> QED
    BY Zenon, <2>1, <2>3, <2>4, <2>5, <2>6

<1>ReplacedFields.
    ASSUME NEW o \in VaultAuth, NEW m \in Method \cap Setting, NEW c \in Configs, NEW mt \in Setting,
           NEW n \in Setting, NEW p \in Map, NEW h \in Map, NEW k \in Setting
    PROVE  LET r == Replaced(o, m, c, mt, n, p, h, k) IN
           /\ r.method = m /\ r.mount = mt /\ r.namespace = n /\ r.params = p /\ r.headers = h
           /\ r.conn = k /\ r.ns = o.ns /\ r.ref = o.ref
           /\ r.config[m] = c
           /\ \A x \in Method \ {m} : r.config[x] = o.config[x]
           /\ r # None
  <2> DEFINE r == Replaced(o, m, c, mt, n, p, h, k)
  <2>1. o.config \in [Method -> Configs \cup {None}] /\ o.ns \in Setting
        /\ o.ref \in VaultAuthGlobalRef \cup {None}
    BY Zenon DEF VaultAuth
  <2> DEFINE C == [o.config EXCEPT ![m] = c]
  <2>2. /\ C \in [Method -> Configs \cup {None}]
        /\ C[m] = c
        /\ \A x \in Method \ {m} : C[x] = o.config[x]
    BY <2>1
  <2> HIDE DEF C
  <2> DEFINE D == {"ns", "ref", "method", "config", "mount", "namespace", "params", "headers", "conn"}
  <2>3. DOMAIN o = D
    BY Zenon DEF VaultAuth
  <2>4. r = [x \in D |-> r[x]]
    BY Zenon, <2>3 DEF Replaced
  <2>5. /\ r.method = m /\ r.mount = mt /\ r.namespace = n /\ r.params = p /\ r.headers = h
        /\ r.conn = k /\ r.ns = o.ns /\ r.ref = o.ref /\ r.config = C
    BY <2>3 DEF C, Replaced
  <2> HIDE DEF r
  <2>6. r \in VaultAuth
    BY <2>1, <2>2, <2>4, <2>5 DEF VaultAuth
  <2>7. r # None
    BY Zenon, <2>6, MergeAssumption
  <2> QED
    BY Zenon, <2>2, <2>5, <2>7 DEF r

\* A VaultAuth that is completed from a VaultAuthGlobal has every setting from the nearest level;
\* it is completed if the settings are there.
<1>MergeNearest.
    ASSUME NEW o, NEW g, Shaped(o, g)
    PROVE  /\ MergeGlobal(o, g) # None => Completed(MergeGlobal(o, g), o, g)
           /\ Mergeable(o, g) => MergeGlobal(o, g) # None
  <2> USE <1>MergeNearest
  <2> DEFINE m == firstSet(<<o.method, g.method>>)
             global == g.methods[m]
             level == IF global = None THEN NoMethod ELSE global
             config == MergedConfig(m, o.config[m], global)
             mount == firstSet(<<o.mount, level.mount, g.mount>>)
             namespace == firstSet(<<o.namespace, level.namespace, g.namespace>>)
             params == Strategy(o.ref.params, o.params, level.params, g.params)
             headers == Strategy(o.ref.headers, o.headers, level.headers, g.headers)
             conn == firstSet(<<o.conn, g.conn>>)
             bad == config = None \/ mount = Unset \/ params = None \/ headers = None
             r == Replaced(o, m, config, mount, namespace, params, headers, conn)
  <2>1. MergeGlobal(o, g) = IF m \notin Method THEN None ELSE IF bad THEN None ELSE r
    BY Zenon DEF MergeGlobal, Replaced
  <2>2. m = (IF o.method = Unset THEN g.method ELSE o.method) /\ FromNearest(m, <<o.method, g.method>>)
    BY <1>NearestOfTwo
  <2>3. CASE m \notin Method
    <3>1. MergeGlobal(o, g) = None
      BY Zenon, <2>1, <2>3
    <3>2. ~Mergeable(o, g)
      BY Zenon, <2>2, <2>3 DEF Mergeable
    <3> QED
      BY Zenon, <3>1, <3>2
  <2>4. CASE m \in Method
    <3>1. /\ level.params \in Map /\ level.headers \in Map
          /\ o.params \in Map /\ o.headers \in Map /\ g.params \in Map /\ g.headers \in Map
          /\ o.config[m] # None => o.config[m] \in [Fields(m) -> Setting]
          /\ global # None => global.config \in [Fields(m) -> Setting]
      BY Zenon, <2>4, <1>ShapedLevels
    <3>2. /\ o \in VaultAuth
          /\ o.method \in Setting /\ g.method \in Setting /\ o.mount \in Setting /\ g.mount \in Setting
          /\ o.namespace \in Setting /\ g.namespace \in Setting
          /\ o.conn \in Setting /\ g.conn \in Setting
          /\ global \in GlobalConfig \cup {None}
      BY Zenon, <2>4 DEF Shaped, VaultAuth, VaultAuthGlobal
    <3>3. level.mount \in Setting /\ level.namespace \in Setting
      BY Zenon, <3>2 DEF GlobalConfig, NoMethod, Setting
    <3> HIDE DEF m, level
    <3>4. m \in Method \cap Setting
      BY Zenon, <2>2, <2>4, <3>2
    <3>5. /\ mount = IF o.mount # Unset THEN o.mount ELSE IF level.mount # Unset THEN level.mount
                                                           ELSE g.mount
          /\ FromNearest(mount, <<o.mount, level.mount, g.mount>>)
      BY <1>NearestOfThree
    <3>6. namespace \in Setting /\ FromNearest(namespace, <<o.namespace, level.namespace, g.namespace>>)
      <4>1. namespace \in {o.namespace, level.namespace, g.namespace}
        BY <1>NearestOfThree
      <4>2. FromNearest(namespace, <<o.namespace, level.namespace, g.namespace>>)
        BY Zenon, <1>NearestOfThree
      <4> QED
        BY Zenon, <3>2, <3>3, <4>1, <4>2
    <3>7. conn \in Setting /\ FromNearest(conn, <<o.conn, g.conn>>)
      <4>1. conn \in {o.conn, g.conn}
        BY <1>NearestOfTwo
      <4>2. FromNearest(conn, <<o.conn, g.conn>>)
        BY Zenon, <1>NearestOfTwo
      <4> QED
        BY Zenon, <3>2, <4>1, <4>2
    <3>8. /\ o.ref.params \in {"union", "replace", "none"} => params # None
          /\ params # None =>
               params \in Map /\ MapFromNearest(params, o.ref.params, <<o.params, level.params, g.params>>)
      BY Zenon, <3>1, <1>StrategyNearest
    <3>9. /\ o.ref.headers \in {"union", "replace", "none"} => headers # None
          /\ headers # None =>
               /\ headers \in Map
               /\ MapFromNearest(headers, o.ref.headers, <<o.headers, level.headers, g.headers>>)
      BY Zenon, <3>1, <1>StrategyNearest
    <3>10. /\ config # None =>
                \A f \in Fields(m) :
                  FromNearest(config[f],
                              (IF o.config[m] = None THEN <<>> ELSE <<o.config[m][f]>>)
                                \o (IF global = None THEN <<>> ELSE <<global.config[f]>>))
           /\ config # None => config \in [Fields(m) -> Setting]
           /\ config # None /\ global # None => Validate(m, config)
           /\ /\ o.config[m] # None \/ global # None
              /\ global # None =>
                   \A f \in Required[m] : \/ o.config[m] # None /\ o.config[m][f] # Unset
                                          \/ global.config[f] # Unset
              => config # None
      BY Zenon, <2>4, <3>1, <1>ConfigNearest
    <3> HIDE DEF config, mount, namespace, params, headers, conn
    <3>11. ASSUME ~bad
           PROVE  r # None /\ Completed(r, o, g)
      <4>1. config \in Configs /\ mount \in Setting /\ params \in Map /\ headers \in Map
        <5>1. config \in Configs
          BY Zenon, <2>4, <3>10, <3>11 DEF Configs
        <5>2. mount \in Setting
          BY Zenon, <3>2, <3>3, <3>5
        <5> QED
          BY Zenon, <5>1, <5>2, <3>8, <3>9, <3>11
      <4>2. /\ r.method = m /\ r.mount = mount /\ r.namespace = namespace
            /\ r.params = params /\ r.headers = headers
            /\ r.conn = conn /\ r.ns = o.ns /\ r.ref = o.ref
            /\ r.config[m] = config
            /\ \A x \in Method \ {m} : r.config[x] = o.config[x]
            /\ r # None
        <5>1. o \in VaultAuth /\ namespace \in Setting /\ conn \in Setting
          BY Zenon, <3>2, <3>6, <3>7
        <5> QED
          BY SMTT(30), <3>4, <4>1, <5>1, <1>ReplacedFields
      <4> HIDE DEF r
      <4>3. /\ FromNearest(r.method, <<o.method, g.method>>)
            /\ \A n \in Method \ {r.method} : r.config[n] = o.config[n]
            /\ g.methods[r.method] # None => Validate(r.method, r.config[r.method])
        BY Zenon, <2>2, <3>10, <3>11, <4>2
      <4>4. \A f \in Fields(r.method) :
              FromNearest(r.config[r.method][f],
                          (IF o.config[r.method] = None THEN <<>> ELSE <<o.config[r.method][f]>>)
                            \o (IF g.methods[r.method] = None THEN <<>>
                                ELSE <<g.methods[r.method].config[f]>>))
        BY Zenon, <3>10, <3>11, <4>2
      <4>5. /\ level = IF g.methods[r.method] = None THEN NoMethod ELSE g.methods[r.method]
            /\ r.mount # Unset /\ FromNearest(r.mount, <<o.mount, level.mount, g.mount>>)
            /\ FromNearest(r.namespace, <<o.namespace, level.namespace, g.namespace>>)
            /\ FromNearest(r.conn, <<o.conn, g.conn>>)
        BY Zenon, <3>5, <3>6, <3>7, <3>11, <4>2 DEF level
      <4>6. /\ MapFromNearest(r.params, o.ref.params, <<o.params, level.params, g.params>>)
            /\ MapFromNearest(r.headers, o.ref.headers, <<o.headers, level.headers, g.headers>>)
        BY Zenon, <3>8, <3>9, <3>11, <4>2
      <4>7. r.ns = o.ns /\ r.ref = o.ref /\ r # None
        BY Zenon, <4>2
      <4>8. Completed(r, o, g)
        BY ZenonT(40), <4>3, <4>4, <4>5, <4>6, <4>7 DEF Completed
      <4> QED
        BY Zenon, <4>7, <4>8
    <3>12. Mergeable(o, g) => ~bad
      <4> SUFFICES ASSUME Mergeable(o, g) PROVE ~bad
        BY Zenon
      <4>1. /\ o.config[m] # None \/ global # None
            /\ global # None =>
                 \A f \in Required[m] : \/ o.config[m] # None /\ o.config[m][f] # Unset
                                        \/ global.config[f] # Unset
            /\ o.mount # Unset \/ g.mount # Unset \/ (global # None /\ global.mount # Unset)
            /\ {o.ref.params, o.ref.headers} \subseteq {"union", "replace", "none"}
        BY Zenon, <2>2 DEF Mergeable
      <4>2. config # None
        BY Zenon, <3>10, <4>1
      <4>3. mount # Unset
        BY Zenon, <3>5, <4>1 DEF level
      <4>4. params # None /\ headers # None
        BY Zenon, <3>8, <3>9, <4>1
      <4> QED
        BY Zenon, <4>2, <4>3, <4>4
    <3> HIDE DEF bad, r
    <3> QED
      BY Zenon, <2>1, <2>4, <3>11, <3>12
  <2> QED
    BY Zenon, <2>3, <2>4

\* The API server has at most one object of a name in a namespace.
<1>GlobalFound.
    ASSUME NEW o, NEW globals, WellFormed(o, globals), NEW ns, NEW name,
           NEW f, f = GetGlobal(globals, ns, name)
    PROVE  /\ f # None => f \in globals /\ f.ns = ns /\ f.name = name
           /\ \A g \in globals : g.ns = ns /\ g.name = name => f = g
           /\ f # None <=> \E g \in globals : g.ns = ns /\ g.name = name
  <2> USE <1>GlobalFound
  <2>1. /\ globals \subseteq VaultAuthGlobal
        /\ \A g, h \in globals : g.ns = h.ns /\ g.name = h.name => g = h
    BY Zenon DEF WellFormed
  <2>2. CASE \E g \in globals : g.ns = ns /\ g.name = name
    <3>1. f \in globals /\ f.ns = ns /\ f.name = name
      <4> DEFINE h == CHOOSE g \in globals : g.ns = ns /\ g.name = name
      <4>1. h \in globals /\ h.ns = ns /\ h.name = name
        BY Zenon, <2>2
      <4>2. f = h
        BY Zenon, <2>2 DEF GetGlobal
      <4> QED
        BY Zenon, <4>1, <4>2
    <3>2. f # None
      BY Zenon, <2>1, <3>1, MergeAssumption
    <3> QED
      BY Zenon, <2>1, <2>2, <3>1, <3>2
  <2>3. CASE ~\E g \in globals : g.ns = ns /\ g.name = name
    <3>1. f = None
      BY Zenon, <2>3 DEF GetGlobal
    <3> QED
      BY Zenon, <2>3, <3>1
  <2> QED
    BY Zenon, <2>2, <2>3

\* The default VaultAuthGlobal of one namespace, and of the object's and the operator's.
<1>DefaultFound.
    ASSUME NEW globals, NEW n, NEW k
    PROVE  /\ FindVaultAuthGlobalDefault(globals, <<n>>) = GetGlobal(globals, n, "default")
           /\ FindVaultAuthGlobalDefault(globals, <<n, k>>) =
                IF GetGlobal(globals, n, "default") # None THEN GetGlobal(globals, n, "default")
                ELSE GetGlobal(globals, k, "default")
  <2> DEFINE G(x) == GetGlobal(globals, x, "default")
  <2>1. [i \in DOMAIN <<n>> |-> G(<<n>>[i])] = <<G(n)>>
    OBVIOUS
  <2>2. [i \in DOMAIN <<n, k>> |-> G(<<n, k>>[i])] = <<G(n), G(k)>>
    OBVIOUS
  <2>3. /\ FindVaultAuthGlobalDefault(globals, <<n>>) = firstNonZeroLen(None, <<G(n)>>)
        /\ FindVaultAuthGlobalDefault(globals, <<n, k>>) = firstNonZeroLen(None, <<G(n), G(k)>>)
    BY Zenon, <2>1, <2>2 DEF FindVaultAuthGlobalDefault
  <2> HIDE DEF G
  <2>4. /\ firstNonZeroLen(None, <<G(n)>>) = G(n)
        /\ firstNonZeroLen(None, <<G(n), G(k)>>) = IF G(n) # None THEN G(n) ELSE G(k)
    BY <1>FirstOfOne, <1>FirstOfTwo
  <2> QED
    BY <2>3, <2>4 DEF G

\* The VaultAuthGlobal that the code takes is the one that is meant, if the object may use it; and
\* the one that is meant is taken, unless the operator does not allow it.
<1>ReferenceMeant.
    ASSUME NEW o, NEW globals, NEW opts, WellFormed(o, globals), o.ref # None
    PROVE  LET f == Referenced(o, globals, opts) IN
           /\ f # None => f \in globals
           /\ f # None /\ isAllowedNamespace(f, o.ns) => Meant(f, o, globals)
           /\ \/ opts = "deny" /\ o.ref.allowDefault = "true"
              \/ opts # "allow" /\ o.ref.name = Unset
              \/ \A g \in globals : Meant(g, o, globals) => f = g /\ isAllowedNamespace(f, o.ns)
  <2> USE <1>ReferenceMeant
  <2> DEFINE f == Referenced(o, globals, opts)
             ref == o.ref
             Allowed(g) == isAllowedNamespace(g, o.ns)
             Taken == \A g \in globals : Meant(g, o, globals) => f = g /\ Allowed(f)
  <2> SUFFICES /\ f # None => f \in globals
               /\ f # None /\ Allowed(f) => Meant(f, o, globals)
               /\ \/ opts = "deny" /\ ref.allowDefault = "true"
                  \/ opts # "allow" /\ ref.name = Unset
                  \/ Taken
    BY Zenon
  <2>2. ASSUME NEW g
        PROVE  Allowed(g) <=> \/ g.ns = o.ns
                              \/ g.allowed = {"*"} \/ o.ns \in g.allowed
                              \/ g.ns = OperatorNamespace /\ g.name = "default"
    BY Zenon DEF isAllowedNamespace
  <2> HIDE DEF Allowed
  <2>3. CASE opts = "deny" /\ ref.allowDefault = "true"
    <3>1. f = None
      BY Zenon, <2>3 DEF Referenced
    <3> QED
      BY Zenon, <2>3, <3>1
  <2>4. CASE ~(opts = "deny" /\ ref.allowDefault = "true") /\ ref.name # Unset
    <3> DEFINE n == IF ref.ns # Unset THEN ref.ns ELSE o.ns
    <3>1. f = GetGlobal(globals, n, ref.name)
      BY Zenon, <2>4 DEF Referenced
    <3>2. ASSUME NEW g
          PROVE  Meant(g, o, globals) <=> Allowed(g) /\ g.name = ref.name /\ g.ns = n
      BY Zenon, <2>2, <2>4 DEF Meant
    <3> HIDE DEF n, f
    <3>3. /\ f # None => f \in globals /\ f.ns = n /\ f.name = ref.name
          /\ \A g \in globals : g.ns = n /\ g.name = ref.name => f = g
      BY SMTT(20), <3>1, <1>GlobalFound
    <3>4. Taken
      BY Zenon, <3>2, <3>3
    <3> QED
      BY Zenon, <3>2, <3>3, <3>4
  <2>5. CASE ref.name = Unset /\ opts = "allow" /\ ref.allowDefault = "true" /\ ref.ns # Unset
    <3>1. f = GetGlobal(globals, ref.ns, "default")
      BY Zenon, <2>5, <1>DefaultFound DEF Referenced
    <3>2. ASSUME NEW g
          PROVE  Meant(g, o, globals) <=> Allowed(g) /\ g.name = "default" /\ g.ns = ref.ns
      BY Zenon, <2>2, <2>5 DEF Meant
    <3> HIDE DEF f
    <3>3. /\ f # None => f \in globals /\ f.ns = ref.ns /\ f.name = "default"
          /\ \A g \in globals : g.ns = ref.ns /\ g.name = "default" => f = g
      BY SMTT(20), <3>1, <1>GlobalFound
    <3>4. Taken
      BY Zenon, <3>2, <3>3
    <3> QED
      BY Zenon, <3>2, <3>3, <3>4
  <2>6. CASE ref.name = Unset /\ opts = "allow" /\ ref.allowDefault = "true" /\ ref.ns = Unset
    <3> DEFINE own == \E h \in globals : h.ns = o.ns /\ h.name = "default"
               n == IF own THEN o.ns ELSE OperatorNamespace
               default == GetGlobal(globals, o.ns, "default")
    <3>1. f = IF default # None THEN default ELSE GetGlobal(globals, OperatorNamespace, "default")
      BY Zenon, <2>6, <1>DefaultFound DEF Referenced
    <3>2. ASSUME NEW g
          PROVE  Meant(g, o, globals) <=>
                   /\ Allowed(g) /\ g.name = "default"
                   /\ g.ns = o.ns \/ (g.ns = OperatorNamespace /\ ~own)
      BY Zenon, <2>2, <2>6 DEF Meant
    <3> HIDE DEF f
    <3>3. own <=> default # None
      BY SMTT(20), <1>GlobalFound
    <3>4. f = GetGlobal(globals, n, "default")
      BY Zenon, <3>1, <3>3
    <3>5. /\ f # None => f \in globals /\ f.ns = n /\ f.name = "default"
          /\ \A g \in globals : g.ns = n /\ g.name = "default" => f = g
      BY SMTT(20), <3>4, <1>GlobalFound
    <3>6. ASSUME NEW g \in globals
          PROVE  Meant(g, o, globals) <=> Allowed(g) /\ g.name = "default" /\ g.ns = n
      <4>1. g.ns = o.ns /\ g.name = "default" => own
        BY Zenon
      <4> HIDE DEF own
      <4> QED
        BY Zenon, <3>2, <4>1
    <3> HIDE DEF n
    <3>7. Taken
      BY Zenon, <3>5, <3>6
    <3> QED
      BY Zenon, <3>5, <3>6, <3>7
  <2>7. CASE /\ ref.name = Unset /\ ~(opts = "deny" /\ ref.allowDefault = "true")
             /\ ~(opts = "allow" /\ ref.allowDefault = "true")
    <3>1. f = None
      BY Zenon, <2>7 DEF Referenced
    <3>2. ASSUME NEW g, Meant(g, o, globals) PROVE ref.allowDefault = "true"
      BY Zenon, <2>7, <3>2 DEF Meant
    <3> QED
      BY Zenon, <2>7, <3>1, <3>2
  <2> QED
    BY Zenon, <2>3, <2>4, <2>5, <2>6, <2>7

\* What MergeInVaultAuthGlobal returns.
<1>MergeResult.
    ASSUME NEW o, NEW globals, NEW opts, WellFormed(o, globals), o.ref # None,
           NEW v, v = MergeInVaultAuthGlobal(o, globals, opts)
    PROVE  IF v # None THEN \E g \in {g \in globals : Meant(g, o, globals)} : Completed(v, o, g)
           ELSE \/ opts = "deny" /\ o.ref.allowDefault = "true"
                \/ opts # "allow" /\ o.ref.name = Unset
                \/ \A g \in {g \in globals : Meant(g, o, globals)} : ~Mergeable(o, g)
  <2> USE <1>MergeResult
  <2> DEFINE f == Referenced(o, globals, opts)
  <2>1. v = IF f = None THEN None
            ELSE IF isAllowedNamespace(f, o.ns) THEN MergeGlobal(o, f) ELSE None
    BY Zenon DEF MergeInVaultAuthGlobal
  <2>2. /\ f # None => f \in globals
        /\ f # None /\ isAllowedNamespace(f, o.ns) => Meant(f, o, globals)
        /\ \/ opts = "deny" /\ o.ref.allowDefault = "true"
           \/ opts # "allow" /\ o.ref.name = Unset
           \/ \A g \in globals : Meant(g, o, globals) => f = g /\ isAllowedNamespace(f, o.ns)
    BY Zenon, <1>ReferenceMeant
  <2> HIDE DEF f
  <2>3. ASSUME f # None
        PROVE  /\ MergeGlobal(o, f) # None => Completed(MergeGlobal(o, f), o, f)
               /\ Mergeable(o, f) => MergeGlobal(o, f) # None
    <3>1. f \in globals
      BY Zenon, <2>2, <2>3
    <3>2. Shaped(o, f)
      BY Zenon, <3>1 DEF Shaped, WellFormed
    <3> QED
      BY Zenon, <3>2, <1>MergeNearest
  <2>4. CASE v # None
    <3>1. f # None /\ isAllowedNamespace(f, o.ns) /\ v = MergeGlobal(o, f)
      BY Zenon, <2>1, <2>4
    <3>2. f \in globals /\ Meant(f, o, globals) /\ Completed(v, o, f)
      BY Zenon, <2>2, <2>3, <2>4, <3>1
    <3> QED
      BY Zenon, <2>4, <3>2
  <2>5. CASE v = None
    <3>1. ASSUME NEW g \in globals, f = g, isAllowedNamespace(f, o.ns) PROVE ~Mergeable(o, g)
      <4>1. f # None
        BY Zenon, <3>1, MergeAssumption DEF WellFormed
      <4>2. v = MergeGlobal(o, f)
        BY Zenon, <2>1, <3>1, <4>1
      <4>3. ~Mergeable(o, f)
        BY Zenon, <2>3, <2>5, <4>1, <4>2
      <4> QED
        BY Zenon, <3>1, <4>3
    <3> QED
      BY Zenon, <2>2, <2>5, <3>1
  <2> QED
    BY Zenon, <2>4, <2>5

<1>MergeInvInit. Init => MergeInv
  BY Zenon DEF Init, MergeInv, MergeTakesNearest, Computed

<1>MergeInvNext. MergeInv /\ [Next]_vars => MergeInv'
  <2> SUFFICES ASSUME MergeInv, [Next]_vars PROVE MergeInv'
    BY Zenon
  <2>1. CASE Merge
    <3> DEFINE a == input.arg
    <3>1. input' = input /\ input.kind = "merge"
      BY Zenon, <2>1 DEF Merge, Of, Return
    <3>2. output' = [value |-> MergeInVaultAuthGlobal(a.o, a.globals, a.opts)]
      BY Zenon, <2>1 DEF Merge, Return
    <3>3. output'.value = MergeInVaultAuthGlobal(a.o, a.globals, a.opts)
      BY Zenon, <3>2
    <3>4. a \in MergeInputs /\ WellFormed(a.o, a.globals)
      BY Zenon, <3>1, InputsAssumption DEF MergeInv
    <3> DEFINE v == output'.value
               meant == {g \in a.globals : Meant(g, a.o, a.globals)}
    <3>5. IF a.o.ref = None THEN v = a.o
          ELSE IF v # None THEN \E g \in meant : Completed(v, a.o, g)
          ELSE \/ a.opts = "deny" /\ a.o.ref.allowDefault = "true"
               \/ a.opts # "allow" /\ a.o.ref.name = Unset
               \/ \A g \in meant : ~Mergeable(a.o, g)
      <4>1. CASE a.o.ref = None
        BY Zenon, <3>3, <4>1 DEF MergeInVaultAuthGlobal
      <4>2. CASE a.o.ref # None
        <5> HIDE DEF v, a
        <5>1. v = MergeInVaultAuthGlobal(a.o, a.globals, a.opts)
          BY Zenon, <3>3 DEF v
        <5> QED
          BY SMTT(20), <3>4, <4>2, <5>1, <1>MergeResult
      <4> QED
        BY Zenon, <4>1, <4>2
    <3>6. MergeTakesNearest'
      BY Zenon, <3>1, <3>5 DEF MergeTakesNearest
    <3> QED
      BY Zenon, <3>1, <3>4, <3>6 DEF MergeInv
  <2>2. CASE Data \/ Templates \/ Lease \/ RestartCheck \/ PKIWindow \/ HVSRequeue
    <3>1. input' = input /\ input.kind # "merge"
      BY Zenon, <2>2 DEF Data, Templates, Lease, RestartCheck, PKIWindow, HVSRequeue, Of, Return
    <3> QED
      BY Zenon, <3>1 DEF MergeInv, MergeTakesNearest, Computed
  <2>3. CASE UNCHANGED vars
    BY Zenon, <2>3 DEF vars, MergeInv, MergeTakesNearest, Computed
  <2> QED
    BY Zenon, <2>1, <2>2, <2>3 DEF Next

<1>1. MergeInv => MergeTakesNearest
  BY Zenon DEF MergeInv
<1> QED
  BY <1>1, <1>MergeInvInit, <1>MergeInvNext, PTL DEF Spec
-----------------------------------------------------------------------------
\* Induction, and functions that are defined by recursion.

\* Every set of natural numbers has a least element, and so there is induction.
LEMMA Least ==
  ASSUME NEW S, S \subseteq Nat, S # {}
  PROVE  \E n \in S : \A m \in S : n <= m
<1> DEFINE R == OpToRel(<, Nat)
<1>1. IsWellFoundedOn(R, Nat)
  BY Zenon, NatLessThanWellFounded
<1>2. \A x, y \in Nat : x < y => <<x, y>> \in R
  BY DEF OpToRel
<1> HIDE DEF R
<1>3. PICK n \in S : \A y \in S : ~ (<<y, n>> \in R)
  BY Zenon, <1>1, WFMin
<1>4. ASSUME NEW m \in S PROVE n <= m
  <2>1. n \in Nat /\ m \in Nat /\ ~(m < n)
    BY Zenon, <1>2, <1>3, <1>4
  <2> QED
    BY <2>1
<1> QED
  BY Zenon, <1>4

LEMMA Induction ==
  ASSUME NEW S, NEW N \in Nat, 0 \in S, \A n \in 1..N : n - 1 \in S => n \in S
  PROVE  0..N \subseteq S
<1> SUFFICES ASSUME (0..N) \ S # {} PROVE FALSE
  BY Zenon
<1>1. PICK n \in (0..N) \ S : \A m \in (0..N) \ S : n <= m
  <2>1. (0..N) \ S \subseteq Nat
    OBVIOUS
  <2> QED
    BY Zenon, <2>1, Least
<1>2. n # 0
  BY Zenon
<1>3. n \in 1..N /\ n - 1 \in 0..N /\ ~(n <= n - 1)
  BY <1>2
<1>4. n - 1 \in S
  BY Zenon, <1>1, <1>3
<1> QED
  BY Zenon, <1>3, <1>4

\* A recursive function of the numbers up to N exists.
Unfolds(f, N, b, F) == f[0] = b /\ \A n \in 1..N : f[n] = F[n][f[n - 1]]

LEMMA RecursionExists ==
  ASSUME NEW N \in Nat, NEW V, NEW b \in V, NEW F \in [1..N -> [V -> V]]
  PROVE  \E f \in [0..N -> V] : Unfolds(f, N, b, F)
<1> DEFINE Upto(n) == \E f \in [0..n -> V] : f[0] = b /\ \A m \in 1..n : f[m] = F[m][f[m - 1]]
           S == {n \in 0..N : Upto(n)}
<1>1. 0 \in S
  <2> DEFINE f == [m \in 0..0 |-> b]
  <2>1. f \in [0..0 -> V] /\ f[0] = b /\ \A m \in 1..0 : f[m] = F[m][f[m - 1]]
    OBVIOUS
  <2> HIDE DEF f
  <2>2. Upto(0)
    BY Zenon, <2>1
  <2> QED
    BY <2>2
<1>2. ASSUME NEW n \in 1..N, n - 1 \in S PROVE n \in S
  <2>1. PICK f \in [0..(n - 1) -> V] : f[0] = b /\ \A m \in 1..(n - 1) : f[m] = F[m][f[m - 1]]
    BY Zenon, <1>2
  <2> DEFINE g == [m \in 0..n |-> IF m = n THEN F[n][f[n - 1]] ELSE f[m]]
  <2>2. /\ n - 1 \in 0..(n - 1)
        /\ 0 \in 0..n /\ 0 # n /\ n \in 0..n /\ n - 1 \in 0..n /\ n - 1 # n
        /\ \A m \in 0..n : m # n => m \in 0..(n - 1)
        /\ \A m \in 1..n : m \in 0..n /\ m - 1 \in 0..n /\ m - 1 # n /\ (m # n => m \in 1..(n - 1))
    OBVIOUS
  <2>3. f[n - 1] \in V /\ F[n][f[n - 1]] \in V
    BY Zenon, <2>2
  <2>4. g \in [0..n -> V]
    BY Zenon, <2>2, <2>3
  <2>5. g[0] = b
    BY Zenon, <2>1, <2>2
  <2>6. ASSUME NEW m \in 1..n PROVE g[m] = F[m][g[m - 1]]
    <3>1. g[m - 1] = f[m - 1]
      BY Zenon, <2>2
    <3>2. CASE m = n
      BY Zenon, <2>2, <3>1, <3>2
    <3>3. CASE m # n
      <4>1. g[m] = f[m] /\ m \in 1..(n - 1)
        BY Zenon, <2>2, <3>3
      <4> QED
        BY Zenon, <2>1, <3>1, <4>1
    <3> QED
      BY Zenon, <3>2, <3>3
  <2> HIDE DEF g
  <2>7. Upto(n)
    BY Zenon, <2>4, <2>5, <2>6
  <2>8. n \in 0..N
    OBVIOUS
  <2> QED
    BY Zenon, <2>7, <2>8
<1> HIDE DEF Upto
<1>3. 0..N \subseteq S
  BY Zenon, <1>1, <1>2, Induction
<1>4. N \in 0..N
  OBVIOUS
<1>5. Upto(N)
  BY Zenon, <1>3, <1>4
<1> QED
  BY Zenon, <1>5 DEF Upto, Unfolds
-----------------------------------------------------------------------------
\* The inputs are of their set, and the next reconciliation as it is to be.
RequeueInv == (input.kind = "hvs" => input.arg \in HVSInputs) /\ NextRenewalFirst

\* The next reconciliation of an HCPVaultSecretsApp with dynamic secrets is that of the secret whose
\* renewal comes first, for any number of secrets and any times (nextRenewal, requeueAfter).
THEOREM NextRenewalIsFirst == Spec => []NextRenewalFirst
\* The next renewal is computed by such a function.
<1>NextRenewalSteps.
    ASSUME NEW is \in Seq(Instance), NEW percent \in Nat, NEW now \in Nat
    PROVE  \E f : /\ f[0] = NoRenewal
                  /\ \A n \in 1..Len(is) : f[n] = getTimeToNextRenewal(f[n - 1], is[n], percent, now)
                  /\ nextRenewal(is, percent, now) = f[Len(is)]
  <2> DEFINE N == Len(is)
             V == [timeToNextRenewal : Int, ttl : Int]
             F == [n \in 1..N |-> [v \in V |-> getTimeToNextRenewal(v, is[n], percent, now)]]
             Is(f) == f = [n \in 0..N |->
                             IF n = 0 THEN NoRenewal ELSE getTimeToNextRenewal(f[n - 1], is[n], percent, now)]
  <2>1. N \in Nat /\ NoRenewal \in V
    BY DEF NoRenewal
  <2>2. F \in [1..N -> [V -> V]]
    <3> SUFFICES ASSUME NEW n \in 1..N, NEW v \in V
                 PROVE  getTimeToNextRenewal(v, is[n], percent, now) \in V
      BY Zenon
    <3>1. is[n] \in Instance
      OBVIOUS
    <3>2. is[n].createdAt \in Nat /\ is[n].expiresAt \in Nat
      BY <3>1 DEF Instance
    <3>3. TimeToRenewal(is[n], percent, now) \in Int
      BY <3>2, TimesAssumption DEF TimeToRenewal, getRenewTime, Part
    <3> QED
      BY <3>2, <3>3 DEF getTimeToNextRenewal
  <2>3. PICK f \in [0..N -> V] : f[0] = NoRenewal /\ \A n \in 1..N : f[n] = F[n][f[n - 1]]
    <3> HIDE DEF V, F, N
    <3>1. \E f \in [0..N -> V] : Unfolds(f, N, NoRenewal, F)
      BY Zenon, <2>1, <2>2, RecursionExists
    <3> QED
      BY Zenon, <3>1 DEF Unfolds
  <2>4. \A n \in 1..N : n \in 0..N /\ n - 1 \in 0..N /\ n # 0
    BY <2>1
  <2>5. \A n \in 0..N : n # 0 => n \in 1..N
    BY <2>1
  <2>6. 0 \in 0..N
    BY <2>1
  <2> HIDE DEF N
  <2>7. \A n \in 1..N : f[n] = getTimeToNextRenewal(f[n - 1], is[n], percent, now)
    BY Zenon, <2>3, <2>4
  <2>8. Is(f)
    BY Zenon, <2>3, <2>5, <2>7
  <2>9. PICK g : Is(g) /\ nextRenewal(is, percent, now) = g[N]
    BY Zenon, <2>8 DEF nextRenewal, N
  <2>10. g[0] = NoRenewal
    BY Zenon, <2>6, <2>9
  <2>11. \A n \in 1..N : g[n] = getTimeToNextRenewal(g[n - 1], is[n], percent, now)
    BY Zenon, <2>4, <2>9
  <2> QED
    BY Zenon, <2>9, <2>10, <2>11 DEF N

\* The next renewal is that of an instance whose renewal is due first.
<1>NextRenewalOfFirst.
    ASSUME NEW is \in Seq(Instance), NEW percent \in Nat, NEW now \in Nat, is # <<>>,
           \A i \in DOMAIN is : TimeToRenewal(is[i], percent, now) > 0
    PROVE  \E i \in DOMAIN is :
             /\ \A j \in DOMAIN is : TimeToRenewal(is[i], percent, now) <= TimeToRenewal(is[j], percent, now)
             /\ nextRenewal(is, percent, now) =
                  [timeToNextRenewal |-> TimeToRenewal(is[i], percent, now),
                   ttl |-> is[i].expiresAt - is[i].createdAt]
  <2> USE <1>NextRenewalOfFirst
  <2> DEFINE N == Len(is)
             due(i) == TimeToRenewal(is[i], percent, now)
             OfInstance(i) == [timeToNextRenewal |-> due(i), ttl |-> is[i].expiresAt - is[i].createdAt]
  <2>1. N \in Nat /\ DOMAIN is = 1..N /\ N # 0
    OBVIOUS
  <2>2. ASSUME NEW i \in 1..N PROVE due(i) \in Nat /\ due(i) > 0
    <3>1. is[i] \in Instance /\ due(i) > 0
      BY <2>1, <2>2
    <3>2. is[i].createdAt \in Nat /\ is[i].expiresAt \in Nat
      BY <3>1 DEF Instance
    <3>3. due(i) \in Int
      BY <3>2, TimesAssumption DEF TimeToRenewal, getRenewTime, Part
    <3> HIDE DEF due
    <3> QED
      BY <3>1, <3>3
  <2>3. PICK f : /\ f[0] = NoRenewal
                 /\ \A n \in 1..N : f[n] = getTimeToNextRenewal(f[n - 1], is[n], percent, now)
                 /\ nextRenewal(is, percent, now) = f[N]
    BY Zenon, <1>NextRenewalSteps
  <2> DEFINE First(n) == \E i \in 1..n : (\A j \in 1..n : due(i) <= due(j)) /\ f[n] = OfInstance(i)
             S == {n \in 0..N : n # 0 => First(n)}
  <2>4. \A n \in 1..N :
          f[n] = IF due(n) < f[n - 1].timeToNextRenewal \/ f[n - 1].timeToNextRenewal = 0
                 THEN OfInstance(n) ELSE f[n - 1]
    BY Zenon, <2>3 DEF getTimeToNextRenewal
  <2>5. f[0].timeToNextRenewal = 0
    BY <2>3 DEF NoRenewal
  <2> HIDE DEF N
  <2>6. 0 \in S
    BY <2>1
  <2>7. ASSUME NEW n \in 1..N, n - 1 \in S PROVE n \in S
    <3>1. n \in 0..N /\ n \in 1..n /\ n - 1 \in Nat
      BY <2>1
    <3>2. CASE n - 1 = 0
      <4>1. f[n] = OfInstance(n)
        BY Zenon, <2>4, <2>5, <3>2
      <4>2. n = 1
        BY <3>2
      <4>3. due(n) \in Nat
        BY Zenon, <2>2
      <4>4. \A j \in 1..n : j = n
        BY <4>2
      <4> HIDE DEF due
      <4>5. due(n) <= due(n)
        BY <4>3
      <4>6. First(n)
        BY Zenon, <3>1, <4>1, <4>4, <4>5
      <4> HIDE DEF First
      <4> QED
        BY Zenon, <3>1, <4>6
    <3>3. CASE n - 1 # 0
      <4>1. First(n - 1)
        BY Zenon, <2>7, <3>3
      <4>2. PICK i \in 1..(n - 1) : (\A j \in 1..(n - 1) : due(i) <= due(j)) /\ f[n - 1] = OfInstance(i)
        BY Zenon, <4>1
      <4>3. f[n - 1].timeToNextRenewal = due(i)
        BY <4>2
      <4>4. i \in 1..N /\ i \in 1..n /\ \A j \in 1..n : j \in 1..N /\ (j # n => j \in 1..(n - 1))
        BY <2>1
      <4>5. due(i) \in Nat /\ due(i) > 0 /\ due(n) \in Nat /\ \A j \in 1..n : due(j) \in Nat
        BY Zenon, <2>2, <4>4
      <4>6. f[n] = IF due(n) < due(i) \/ due(i) = 0 THEN OfInstance(n) ELSE OfInstance(i)
        BY Zenon, <2>4, <4>2, <4>3
      <4> HIDE DEF due, OfInstance
      <4>7. CASE due(n) < due(i)
        <5>1. \A j \in 1..n : due(n) <= due(j)
          BY <4>2, <4>4, <4>5, <4>7
        <5>2. First(n)
          BY Zenon, <3>1, <4>6, <4>7, <5>1
        <5> QED
          BY Zenon, <3>1, <5>2
      <4>8. CASE ~(due(n) < due(i))
        <5>1. \A j \in 1..n : due(i) <= due(j)
          BY <4>2, <4>4, <4>5, <4>8
        <5>2. due(i) # 0
          BY <4>5
        <5>3. First(n)
          BY Zenon, <4>4, <4>6, <4>8, <5>1, <5>2
        <5> QED
          BY Zenon, <3>1, <5>3
      <4> QED
        BY Zenon, <4>7, <4>8
    <3> QED
      BY Zenon, <3>2, <3>3
  <2>8. 0..N \subseteq S
    <3> HIDE DEF S
    <3> QED
      BY Zenon, <2>1, <2>6, <2>7, Induction
  <2>9. N \in 0..N
    BY <2>1
  <2>10. First(N)
    BY Zenon, <2>1, <2>8, <2>9
  <2> QED
    BY Zenon, <2>1, <2>3, <2>10

\* When the HCP controller reconciles next: the facts of NextRenewalFirst.
<1>RequeueTime.
    ASSUME NEW i \in Instance, NEW percent \in 0..90, NEW now \in Nat, NEW refresh \in Nat,
           NEW j \in Jitters(i.expiresAt - i.createdAt, 10), NEW k \in Jitters(refresh, 10),
           NEW next,
           next = [timeToNextRenewal |-> TimeToRenewal(i, percent, now), ttl |-> i.expiresAt - i.createdAt],
           TimeToRenewal(i, percent, now) > 0
    PROVE  LET v == requeueAfter(computeHorizonWithJitter(refresh, k), next, j)
               due == TimeToRenewal(i, percent, now) IN
           /\ v > 0
           /\ refresh > 0 => v <= refresh
           /\ v <= due + Part(i.expiresAt - i.createdAt, 10)
           /\ refresh = 0 => due <= v
           /\ ~timeForRenewal(i, percent, now) => now + v <= i.expiresAt
  <2> USE <1>RequeueTime
  <2> DEFINE ttl == i.expiresAt - i.createdAt
             due == TimeToRenewal(i, percent, now)
             r == computeHorizonWithJitter(refresh, k)
             v == requeueAfter(r, next, j)
  <2>1. i.createdAt \in Nat /\ i.expiresAt \in Nat /\ ttl \in Nat
    BY DEF Instance
  <2>2. i.createdAt + ttl = i.expiresAt
    BY <2>1
  <2> HIDE DEF ttl
  <2>3. j \in Nat /\ Part(ttl, 10) \in Nat /\ j <= Part(ttl, 10)
    BY SMTT(30), <2>1, JitterBound DEF ttl
  <2>4. /\ k \in Nat /\ Part(refresh, 10) \in Nat /\ k <= Part(refresh, 10)
        /\ Part(refresh, 10) > 0 => k < Part(refresh, 10)
    BY SMTT(30), JitterBound
  <2>5. Part(ttl, percent) + Part(ttl, 10) <= ttl
    BY Zenon, <2>1, PartSum
  <2>6. percent \in Nat
    OBVIOUS
  <2>7. Part(ttl, percent) \in Nat
    BY Zenon, <2>1, <2>6, PartNat
  <2>8. r = refresh - (Part(refresh, 10) + k)
    BY Zenon DEF computeHorizonWithJitter, computeMaxJitter
  <2>9. Part(refresh, 10) * 10 <= refresh
    BY DEF Part
  <2>10. r \in Nat /\ r <= refresh /\ (refresh > 0 => r > 0) /\ (refresh = 0 => r = 0)
    <3> HIDE DEF r
    <3> DEFINE p == Part(refresh, 10)
    <3> HIDE DEF p
    <3>1. p \in Nat /\ k \in Nat /\ k <= p /\ p * 10 <= refresh /\ r = refresh - (p + k)
      BY Zenon, <2>4, <2>8, <2>9 DEF p
    <3> QED
      BY <3>1
  <2>11. getRenewTime(i, percent) = i.createdAt + Part(ttl, percent)
    BY Zenon DEF getRenewTime, ttl
  <2>12. due \in Nat /\ due > 0
    <3> DEFINE g == getRenewTime(i, percent)
    <3>1. g \in Nat
      BY <2>1, <2>7, <2>11
    <3>2. due = IF g - now < 0 THEN defaultDynamicRequeue ELSE g - now
      BY Zenon DEF TimeToRenewal
    <3>3. due > 0
      OBVIOUS
    <3> HIDE DEF g, due
    <3> QED
      BY <3>1, <3>2, <3>3, TimesAssumption
  <2>13. ~timeForRenewal(i, percent, now) => now + due = i.createdAt + Part(ttl, percent)
    <3> DEFINE g == getRenewTime(i, percent)
    <3>1. g \in Nat
      BY <2>1, <2>7, <2>11
    <3>2. due = IF g - now < 0 THEN defaultDynamicRequeue ELSE g - now
      BY Zenon DEF TimeToRenewal
    <3>3. timeForRenewal(i, percent, now) <=> now > g
      BY Zenon DEF timeForRenewal
    <3> HIDE DEF g, due
    <3>4. ~timeForRenewal(i, percent, now) => now + due = g
      BY <3>1, <3>2, <3>3
    <3> QED
      BY Zenon, <2>11, <3>4 DEF g
  <2>14. next.timeToNextRenewal = due
    BY Zenon
  <2>15. v = IF due > 0 /\ (r = 0 \/ due + j < r) THEN due + j ELSE r
    BY Zenon, <2>14 DEF requeueAfter
  <2> HIDE DEF v, r, due
  <2>16. v > 0 /\ v \in Nat /\ v <= due + j /\ (refresh > 0 => v <= refresh) /\ (refresh = 0 => due <= v)
    BY <2>3, <2>10, <2>12, <2>15
  <2>17. v <= due + Part(ttl, 10)
    BY <2>3, <2>12, <2>16
  <2>18. ~timeForRenewal(i, percent, now) => now + v <= i.expiresAt
    <3> DEFINE p == Part(ttl, percent)
               q == Part(ttl, 10)
               c == i.createdAt
               e == i.expiresAt
    <3>1. /\ p \in Nat /\ q \in Nat /\ c \in Nat /\ e \in Nat /\ ttl \in Nat
          /\ p + q <= ttl /\ c + ttl = e /\ v <= due + q
      BY Zenon, <2>1, <2>2, <2>3, <2>5, <2>7, <2>17
    <3>2. ~timeForRenewal(i, percent, now) => now + due = c + p
      BY Zenon, <2>13
    <3> HIDE DEF p, q, c, e
    <3>3. ~timeForRenewal(i, percent, now) => now + v <= e
      BY <2>12, <2>16, <3>1, <3>2
    <3> QED
      BY Zenon, <3>3 DEF e
  <2> QED
    BY Zenon, <2>16, <2>17, <2>18 DEF v, r, due, ttl

<1>RequeueInvInit. Init => RequeueInv
  BY Zenon DEF Init, RequeueInv, NextRenewalFirst, Computed

<1>RequeueInvNext. RequeueInv /\ [Next]_vars => RequeueInv'
  <2> SUFFICES ASSUME RequeueInv, [Next]_vars PROVE RequeueInv'
    BY Zenon
  <2>1. CASE HVSRequeue
    <3> DEFINE a == input.arg
               is == a.instances
               percent == getDynamicRenewPercent(a.percent)
               next == nextRenewal(is, percent, a.now)
               due(i) == TimeToRenewal(is[i], percent, a.now)
               first == {i \in DOMAIN is : \A j \in DOMAIN is : due(i) <= due(j)}
               v == output'.value
    <3>1. input' = input /\ input.kind = "hvs"
      BY Zenon, <2>1 DEF HVSRequeue, Of, Return
    <3>2. a \in [instances : Seq(Instance), percent : Int, now : Nat, refresh : Nat]
      BY Zenon, <3>1, InputsAssumption DEF RequeueInv
    <3>3. is \in Seq(Instance) /\ a.percent \in Int /\ a.now \in Nat /\ a.refresh \in Nat
      BY Zenon, <3>2
    <3>4. PICK j \in Jitters(next.ttl, 10), k \in Jitters(a.refresh, 10) :
            output' = [value |-> requeueAfter(computeHorizonWithJitter(a.refresh, k), next, j)]
      BY Zenon, <2>1 DEF HVSRequeue, Return
    <3>5. v = requeueAfter(computeHorizonWithJitter(a.refresh, k), next, j)
      BY Zenon, <3>4
    <3>6. percent \in 0..90 /\ percent \in Nat
      <4>1. (IF a.percent = 0 THEN defaultDynamicRenewPercent ELSE a.percent) \in Int
        BY <3>3 DEF defaultDynamicRenewPercent
      <4>2. percent \in 0..90
        BY Zenon, <4>1, CapRange DEF getDynamicRenewPercent
      <4> QED
        BY <4>2
    <3> HIDE DEF v, percent
    <3>7. ASSUME is # <<>>, \A i \in DOMAIN is : due(i) > 0
          PROVE  /\ v > 0
                 /\ a.refresh > 0 => v <= a.refresh
                 /\ \E i \in first :
                      LET ttl == is[i].expiresAt - is[i].createdAt IN
                      /\ v <= due(i) + Part(ttl, 10)
                      /\ a.refresh = 0 => due(i) <= v
                      /\ ~timeForRenewal(is[i], percent, a.now) => a.now + v <= is[i].expiresAt
      <4>1. PICK i \in DOMAIN is :
              /\ \A m \in DOMAIN is : due(i) <= due(m)
              /\ next = [timeToNextRenewal |-> due(i), ttl |-> is[i].expiresAt - is[i].createdAt]
        BY Zenon, <3>3, <3>6, <3>7, <1>NextRenewalOfFirst
      <4>2. is[i] \in Instance
        BY <3>3
      <4>3. next.ttl = is[i].expiresAt - is[i].createdAt /\ due(i) > 0
        BY <3>7, <4>1
      <4> DEFINE x == is[i]
                 now == a.now
                 refresh == a.refresh
      <4>4. /\ x \in Instance /\ now \in Nat /\ refresh \in Nat
            /\ j \in Jitters(x.expiresAt - x.createdAt, 10) /\ k \in Jitters(refresh, 10)
            /\ next = [timeToNextRenewal |-> TimeToRenewal(x, percent, now), ttl |-> x.expiresAt - x.createdAt]
            /\ TimeToRenewal(x, percent, now) > 0
            /\ v = requeueAfter(computeHorizonWithJitter(refresh, k), next, j)
        BY Zenon, <3>3, <3>4, <3>5, <4>1, <4>2, <4>3
      <4> HIDE DEF next, x, now, refresh
      <4>5. /\ v > 0
            /\ refresh > 0 => v <= refresh
            /\ v <= TimeToRenewal(x, percent, now) + Part(x.expiresAt - x.createdAt, 10)
            /\ refresh = 0 => TimeToRenewal(x, percent, now) <= v
            /\ ~timeForRenewal(x, percent, now) => now + v <= x.expiresAt
        BY ZenonT(60), <3>6, <4>4, <1>RequeueTime
      <4>6. i \in first
        BY Zenon, <4>1
      <4> QED
        BY Zenon, <4>5, <4>6 DEF x, now, refresh
    <3>8. NextRenewalFirst'
      BY Zenon, <3>1, <3>7 DEF NextRenewalFirst, v, percent
    <3> QED
      BY Zenon, <3>1, <3>8 DEF RequeueInv
  <2>2. CASE Merge \/ Data \/ Templates \/ Lease \/ RestartCheck \/ PKIWindow
    <3>1. input' = input /\ input.kind # "hvs"
      BY Zenon, <2>2 DEF Merge, Data, Templates, Lease, RestartCheck, PKIWindow, Of, Return
    <3> QED
      BY Zenon, <3>1 DEF RequeueInv, NextRenewalFirst, Computed
  <2>3. CASE UNCHANGED vars
    BY Zenon, <2>3 DEF vars, RequeueInv, NextRenewalFirst, Computed
  <2> QED
    BY Zenon, <2>1, <2>2, <2>3 DEF Next

<1>1. RequeueInv => NextRenewalFirst
  BY Zenon DEF RequeueInv
<1> QED
  BY <1>1, <1>RequeueInvInit, <1>RequeueInvNext, PTL DEF Spec
-----------------------------------------------------------------------------
\* What comes before x.
Below(T, R, x) == {y \in T : <<y, x>> \in R}

\* R orders T strictly; every element of T has its own rank, the number of elements before it.
StrictOrder(R, T) ==
  /\ \A x \in T : <<x, x>> \notin R
  /\ \A x, y \in T : x # y => <<x, y>> \in R \/ <<y, x>> \in R
  /\ \A x, y, z \in T : <<x, y>> \in R /\ <<y, z>> \in R => <<x, z>> \in R

Ranked(T, R) ==
  /\ Cardinality(T) \in Nat
  /\ \A n \in 0..(Cardinality(T) - 1) :
       Nth(T, R, n) \in T /\ Cardinality(Below(T, R, Nth(T, R, n))) = n
  /\ \A x \in T : /\ Cardinality(Below(T, R, x)) \in 0..(Cardinality(T) - 1)
                  /\ Nth(T, R, Cardinality(Below(T, R, x))) = x

LEMMA NthElement ==
  ASSUME NEW T, IsFiniteSet(T), NEW R, StrictOrder(R, T)
  PROVE  Ranked(T, R)
<1> DEFINE L == Cardinality(T)
           r == [x \in T |-> Cardinality(Below(T, R, x))]
<1>1. L \in Nat
  BY Zenon, FS_CardinalityType
<1>2. ASSUME NEW x \in T
      PROVE  IsFiniteSet(Below(T, R, x)) /\ r[x] \in 0..(L - 1)
  <2>1. Below(T, R, x) \in SUBSET (T \ {x})
    BY Zenon, <1>2 DEF Below, StrictOrder
  <2>2. IsFiniteSet(T \ {x}) /\ Cardinality(T \ {x}) = L - 1
    BY <1>2, FS_RemoveElement
  <2>3. IsFiniteSet(Below(T, R, x)) /\ Cardinality(Below(T, R, x)) <= L - 1
    BY <2>1, <2>2, FS_Subset
  <2>4. Cardinality(Below(T, R, x)) \in Nat
    BY Zenon, <2>3, FS_CardinalityType
  <2> QED
    BY <1>1, <1>2, <2>3, <2>4
<1>3. ASSUME NEW x \in T, NEW y \in T, <<x, y>> \in R
      PROVE  r[x] < r[y]
  <2>1. Below(T, R, x) \in SUBSET Below(T, R, y)
    BY Zenon, <1>3 DEF Below, StrictOrder
  <2>2. x \in Below(T, R, y) /\ x \notin Below(T, R, x)
    BY Zenon, <1>3 DEF Below, StrictOrder
  <2>3. Cardinality(Below(T, R, x)) <= Cardinality(Below(T, R, y))
    BY Zenon, <1>2, <2>1, FS_Subset
  <2>4. Cardinality(Below(T, R, x)) # Cardinality(Below(T, R, y))
    BY Zenon, <1>2, <2>1, <2>2, FS_Subset
  <2>5. Cardinality(Below(T, R, x)) \in Int /\ Cardinality(Below(T, R, y)) \in Int
    BY <1>2
  <2> QED
    BY <1>3, <2>3, <2>4, <2>5
<1>4. ASSUME NEW x \in T, NEW y \in T, r[x] = r[y], x # y PROVE FALSE
  <2>1. r[x] \in Int /\ r[y] \in Int
    BY <1>2
  <2>2. r[x] < r[y] \/ r[y] < r[x]
    BY Zenon, <1>3, <1>4 DEF StrictOrder
  <2> HIDE DEF r
  <2> QED
    BY <1>4, <2>1, <2>2
<1>5. IsFiniteSet(0..(L - 1)) /\ Cardinality(0..(L - 1)) = L
  <2>1. 0 \in Int /\ L - 1 \in Int
    BY <1>1
  <2>2. /\ IsFiniteSet(0..(L - 1))
        /\ Cardinality(0..(L - 1)) = IF 0 > L - 1 THEN 0 ELSE L - 1 - 0 + 1
    BY Zenon, <2>1, FS_Interval
  <2> QED
    BY <1>1, <2>2
<1>6. r \in Injection(T, 0..(L - 1))
  <2>1. r \in [T -> 0..(L - 1)]
    BY Zenon, <1>2
  <2>2. IsInjective(r)
    BY Zenon, <1>4 DEF IsInjective
  <2> QED
    BY Zenon, <2>1, <2>2 DEF Injection
<1>7. r \in Surjection(T, 0..(L - 1))
  BY Zenon, <1>5, <1>6, FS_Injection
<1>8. ASSUME NEW n \in 0..(L - 1)
      PROVE  Nth(T, R, n) \in T /\ Cardinality(Below(T, R, Nth(T, R, n))) = n
  <2>1. \E x \in T : r[x] = n
    BY Zenon, <1>7 DEF Surjection
  <2>2. \E x \in T : Cardinality({y \in T : <<y, x>> \in R}) = n
    BY Zenon, <2>1 DEF Below
  <2> QED
    BY Zenon, <2>2 DEF Nth, Below
<1>9. ASSUME NEW x \in T
      PROVE  Nth(T, R, Cardinality(Below(T, R, x))) = x
  <2> DEFINE n == Cardinality(Below(T, R, x))
  <2>1. n \in 0..(L - 1)
    BY Zenon, <1>2
  <2>2. Nth(T, R, n) \in T /\ Cardinality(Below(T, R, Nth(T, R, n))) = n
    BY Zenon, <1>8, <2>1
  <2>3. r[Nth(T, R, n)] = r[x]
    BY Zenon, <2>2
  <2> QED
    BY Zenon, <1>4, <2>2, <2>3
<1> QED
  BY Zenon, <1>1, <1>2, <1>8, <1>9 DEF Ranked

\* What DataIsFiltered says of the data that is made.
Filtered(data, fields, rendered, ex, in, raw) ==
  IF data = Failed
  THEN \/ \E p \in ex \cup in : Matches[p] = Failed
       \/ raw /\ Raw \in fields \cup DOMAIN rendered
  ELSE /\ DOMAIN data = DOMAIN rendered
                          \cup {k \in fields : ~Matched(ex, k) /\ (in # {} => Matched(in, k))}
                          \cup (IF raw THEN {Raw} ELSE {})
       /\ \A k \in DOMAIN rendered : data[k] = rendered[k]
       /\ raw => data[Raw] = "raw"

\* The inputs are of their set, and the data as it is to be.
DataInv == (input.kind = "data" => input.arg \in DataInputs) /\ DataIsFiltered

\* The data of the Secret is the rendered templates, the raw response unless it is excluded, and
\* the fields that the filters keep, for all fields, patterns and SecretTransformations; and
\* making it fails only for a reason (makeK8sData, filterData, fieldFilters).
THEOREM SecretDataIsFiltered == Spec => []DataIsFiltered
\* A function of empty domain is the empty sequence.
<1>EmptyFunction.
    \A S, V : \A f \in [S -> V] : f = <<>> <=> S = {}
  <2>1. <<>> = [k \in {} |-> 0] /\ DOMAIN <<>> = {}
    OBVIOUS
  <2> QED
    BY <2>1

\* The sorted patterns are the patterns.
<1>FiltersOf.
    ASSUME NEW pats \in SUBSET Pattern
    PROVE  /\ \A i \in DOMAIN fieldFilters(pats) : fieldFilters(pats)[i] \in pats
           /\ \A p \in pats : \E i \in DOMAIN fieldFilters(pats) : fieldFilters(pats)[i] = p
           /\ fieldFilters(pats) = <<>> <=> pats = {}
  <2> DEFINE R == {r \in pats \X pats : r[1] < r[2]}
             L == Cardinality(pats)
             f == fieldFilters(pats)
  <2>1. IsFiniteSet(pats)
    BY Zenon, FS_Subset, PatternAssumption
  <2>2. pats \subseteq Nat
    BY Zenon, PatternAssumption
  <2>3. \A x, y \in pats : <<x, y>> \in R <=> x < y
    OBVIOUS
  <2> HIDE DEF R
  <2>4. StrictOrder(R, pats)
    <3>1. /\ \A x \in pats : ~(x < x)
          /\ \A x, y \in pats : x # y => x < y \/ y < x
          /\ \A x, y, z \in pats : x < y /\ y < z => x < z
      BY <2>2
    <3>2. \A x \in pats : <<x, x>> \notin R
      BY Zenon, <2>3, <3>1
    <3>3. \A x, y \in pats : x # y => <<x, y>> \in R \/ <<y, x>> \in R
      BY Zenon, <2>3, <3>1
    <3>4. ASSUME NEW x \in pats, NEW y \in pats, NEW z \in pats, <<x, y>> \in R, <<y, z>> \in R
          PROVE  <<x, z>> \in R
      BY Zenon, <2>3, <3>1, <3>4
    <3> QED
      BY Zenon, <3>2, <3>3, <3>4 DEF StrictOrder
  <2>5. /\ L \in Nat
        /\ \A n \in 0..(L - 1) : Nth(pats, R, n) \in pats
        /\ \A x \in pats : \E n \in 0..(L - 1) : Nth(pats, R, n) = x
    <3>1. Ranked(pats, R)
      BY Zenon, <2>1, <2>4, NthElement
    <3> QED
      BY Zenon, <3>1 DEF Ranked
  <2>6. f = [i \in 1..L |-> Nth(pats, R, i - 1)]
    BY Zenon DEF fieldFilters, R
  <2> HIDE DEF f, L
  <2>7. \A i \in 1..L : i - 1 \in 0..(L - 1)
    BY <2>5
  <2>8. \A n \in 0..(L - 1) : n + 1 \in 1..L /\ (n + 1) - 1 = n
    BY <2>5
  <2>9. f \in [1..L -> pats]
    BY Zenon, <2>5, <2>6, <2>7
  <2>10. ASSUME NEW x \in pats PROVE \E i \in DOMAIN f : f[i] = x
    <3>1. PICK n \in 0..(L - 1) : Nth(pats, R, n) = x
      BY Zenon, <2>5
    <3>2. n + 1 \in 1..L /\ (n + 1) - 1 = n
      BY Zenon, <2>8
    <3>3. f[n + 1] = Nth(pats, R, (n + 1) - 1)
      BY Zenon, <2>6, <3>2
    <3>4. f[n + 1] = x
      BY Zenon, <3>1, <3>2, <3>3
    <3> QED
      BY Zenon, <2>9, <3>2, <3>4
  <2>11. f = <<>> <=> 1..L = {}
    <3> DEFINE S == 1..L
    <3>1. f \in [S -> pats]
      BY Zenon, <2>9
    <3> HIDE DEF S
    <3>2. f = <<>> <=> S = {}
      BY <3>1, <1>EmptyFunction
    <3> QED
      BY Zenon, <3>2 DEF S
  <2>12. pats = {} => 1..L = {}
    BY Zenon, <2>9
  <2>13. pats # {} => 1..L # {}
    BY Zenon, <2>9, <2>10
  <2>14. DOMAIN f = 1..L
    BY Zenon, <2>9
  <2>15. \A i \in DOMAIN f : f[i] \in pats
    BY Zenon, <2>9
  <2> QED
    BY Zenon, <2>10, <2>11, <2>12, <2>13, <2>15 DEF f

\* What the match of a field says, and when it fails.
<1>MatchResult.
    ASSUME NEW pats \in SUBSET Pattern, NEW k
    PROVE  LET m == MatchFields(fieldFilters(pats), k) IN
           /\ m \in {"error", "matched", "unmatched"}
           /\ m = "error" => \E p \in pats : Matches[p] = Failed
           /\ m = "matched" => Matched(pats, k)
           /\ m = "unmatched" => ~Matched(pats, k)
  <2> DEFINE f == fieldFilters(pats)
             hit == {i \in DOMAIN f : Matches[f[i]] # Failed /\ k \in Matches[f[i]]}
             bad == {i \in DOMAIN f : Matches[f[i]] = Failed}
             m == MatchFields(f, k)
  <2>1. m = IF \E i \in bad : \A j \in hit : i < j THEN "error"
            ELSE IF hit = {} THEN "unmatched" ELSE "matched"
    BY Zenon DEF MatchFields
  <2>2. /\ \A i \in DOMAIN f : f[i] \in pats
        /\ \A p \in pats : \E i \in DOMAIN f : f[i] = p
    BY Zenon, <1>FiltersOf
  <2> HIDE DEF m, f
  <2>3. hit = {} <=> ~Matched(pats, k)
    BY Zenon, <2>2 DEF Matched
  <2>4. bad # {} => \E p \in pats : Matches[p] = Failed
    BY Zenon, <2>2
  <2> HIDE DEF hit, bad
  <2>5. /\ m \in {"error", "matched", "unmatched"}
        /\ m = "error" => bad # {}
        /\ m = "matched" => hit # {}
        /\ m = "unmatched" => hit = {}
    BY <2>1
  <2> QED
    BY Zenon, <2>3, <2>4, <2>5 DEF m, f

\* What a filter leaves, and when it fails.
<1>FilterResult.
    ASSUME NEW pats \in SUBSET Pattern, NEW d \in SUBSET Field
    PROVE  /\ LET m == FilterKeys(d, fieldFilters(pats), "unmatched") IN
              \/ m = Failed /\ \E p \in pats : Matches[p] = Failed
              \/ m # Failed /\ m = {k \in d : ~Matched(pats, k)}
           /\ LET m == FilterKeys(d, fieldFilters(pats), "matched") IN
              \/ m = Failed /\ \E p \in pats : Matches[p] = Failed
              \/ m # Failed /\ m = {k \in d : pats # {} => Matched(pats, k)}
  <2> DEFINE f == fieldFilters(pats)
  <2>1. f = <<>> <=> pats = {}
    BY Zenon, <1>FiltersOf
  <2>2. \A k \in d : /\ MatchFields(f, k) \in {"error", "matched", "unmatched"}
                     /\ MatchFields(f, k) = "error" => \E p \in pats : Matches[p] = Failed
                     /\ MatchFields(f, k) = "matched" => Matched(pats, k)
                     /\ MatchFields(f, k) = "unmatched" => ~Matched(pats, k)
    BY Zenon, <1>MatchResult
  <2>3. \A S \in SUBSET d : S # Failed
    BY Zenon, PatternAssumption
  <2> HIDE DEF f
  <2>4. CASE pats = {}
    <3>1. FilterKeys(d, f, "unmatched") = d /\ FilterKeys(d, f, "matched") = d
      BY Zenon, <2>1, <2>4 DEF FilterKeys
    <3>2. d = {k \in d : ~Matched(pats, k)} /\ d = {k \in d : pats # {} => Matched(pats, k)}
      BY Zenon, <2>4 DEF Matched
    <3> QED
      BY Zenon, <2>3, <3>1, <3>2 DEF f
  <2>5. CASE pats # {} /\ \E k \in d : MatchFields(f, k) = "error"
    <3>1. FilterKeys(d, f, "unmatched") = Failed /\ FilterKeys(d, f, "matched") = Failed
      BY Zenon, <2>1, <2>5 DEF FilterKeys
    <3>2. \E p \in pats : Matches[p] = Failed
      BY Zenon, <2>2, <2>5
    <3> QED
      BY Zenon, <3>1, <3>2 DEF f
  <2>6. CASE pats # {} /\ ~ \E k \in d : MatchFields(f, k) = "error"
    <3>1. /\ FilterKeys(d, f, "unmatched") = {k \in d : MatchFields(f, k) = "unmatched"}
          /\ FilterKeys(d, f, "matched") = {k \in d : MatchFields(f, k) = "matched"}
      BY Zenon, <2>1, <2>6 DEF FilterKeys
    <3>2. \A k \in d : /\ MatchFields(f, k) = "unmatched" <=> ~Matched(pats, k)
                       /\ MatchFields(f, k) = "matched" <=> Matched(pats, k)
      BY Zenon, <2>2, <2>6
    <3>3. /\ {k \in d : MatchFields(f, k) = "unmatched"} = {k \in d : ~Matched(pats, k)}
          /\ {k \in d : MatchFields(f, k) = "matched"} = {k \in d : pats # {} => Matched(pats, k)}
      BY Zenon, <2>6, <3>2
    <3>4. /\ {k \in d : ~Matched(pats, k)} # Failed
          /\ {k \in d : pats # {} => Matched(pats, k)} # Failed
      BY Zenon, <2>3
    <3> QED
      BY Zenon, <3>1, <3>3, <3>4 DEF f
  <2> QED
    BY Zenon, <2>4, <2>5, <2>6

\* The patterns that gatherTemplates collects are the ones used.
<1>PatternsUsed.
    ASSUME NEW own, NEW refs, NEW ignored, NEW field
    PROVE  Patterns(own, refs, ignored, field) = fieldFilters(Used(own, refs, ignored, field))
  <2>1. UNION {IF refs[i][ignored] THEN {} ELSE refs[i][field] : i \in DOMAIN refs}
        = UNION {refs[i][field] : i \in {i \in DOMAIN refs : ~refs[i][ignored]}}
    <3>1. ASSUME NEW x, NEW i \in DOMAIN refs, x \in (IF refs[i][ignored] THEN {} ELSE refs[i][field])
          PROVE  x \in UNION {refs[j][field] : j \in {j \in DOMAIN refs : ~refs[j][ignored]}}
      BY Zenon, <3>1
    <3>2. ASSUME NEW x, NEW i \in {i \in DOMAIN refs : ~refs[i][ignored]}, x \in refs[i][field]
          PROVE  x \in UNION {IF refs[j][ignored] THEN {} ELSE refs[j][field] : j \in DOMAIN refs}
      <4>1. i \in DOMAIN refs /\ (IF refs[i][ignored] THEN {} ELSE refs[i][field]) = refs[i][field]
        BY Zenon, <3>2
      <4> QED
        BY Zenon, <3>2, <4>1
    <3> QED
      BY Zenon, <3>1, <3>2
  <2> QED
    BY Zenon, <2>1 DEF Patterns, Used

\* The excludes and then the includes.
<1>FilterDataResult.
    ASSUME NEW ex \in SUBSET Pattern, NEW in \in SUBSET Pattern, NEW d \in SUBSET Field, NEW opt,
           opt.excludes = fieldFilters(ex), opt.includes = fieldFilters(in)
    PROVE  LET m == filterData(opt, d) IN
           \/ m = Failed /\ \E p \in ex \cup in : Matches[p] = Failed
           \/ m # Failed /\ m = {k \in d : ~Matched(ex, k) /\ (in # {} => Matched(in, k))}
  <2> USE <1>FilterDataResult
  <2> DEFINE e == FilterKeys(d, fieldFilters(ex), "unmatched")
             m == filterData(opt, d)
  <2>1. m = IF e = Failed THEN Failed ELSE FilterKeys(e, fieldFilters(in), "matched")
    BY Zenon DEF filterData
  <2>2. \/ e = Failed /\ \E p \in ex : Matches[p] = Failed
        \/ e # Failed /\ e = {k \in d : ~Matched(ex, k)}
    BY Zenon, <1>FilterResult
  <2> HIDE DEF e, m
  <2>3. CASE e = Failed
    BY Zenon, <2>1, <2>2, <2>3 DEF m
  <2>4. CASE e # Failed
    <3> DEFINE i == FilterKeys(e, fieldFilters(in), "matched")
    <3>1. e = {k \in d : ~Matched(ex, k)} /\ e \in SUBSET Field
      BY Zenon, <2>2, <2>4
    <3>2. \/ i = Failed /\ \E p \in in : Matches[p] = Failed
          \/ i # Failed /\ i = {k \in e : in # {} => Matched(in, k)}
      BY Zenon, <3>1, <1>FilterResult
    <3>3. {k \in e : in # {} => Matched(in, k)} = {k \in d : ~Matched(ex, k) /\ (in # {} => Matched(in, k))}
      BY Zenon, <3>1
    <3>4. m = i
      BY Zenon, <2>1, <2>4
    <3> HIDE DEF i
    <3>5. \/ m = Failed /\ \E p \in ex \cup in : Matches[p] = Failed
          \/ m # Failed /\ m = {k \in d : ~Matched(ex, k) /\ (in # {} => Matched(in, k))}
      BY Zenon, <3>2, <3>3, <3>4
    <3> QED
      BY Zenon, <3>5 DEF m
  <2> QED
    BY Zenon, <2>3, <2>4

<1>DataResult.
    ASSUME NEW ex \in SUBSET Pattern, NEW in \in SUBSET Pattern, NEW fields \in SUBSET Field,
           NEW rendered \in SecretData, NEW opt,
           opt.excludes = fieldFilters(ex), opt.includes = fieldFilters(in), opt.excludeRaw \in BOOLEAN
    PROVE  Filtered(makeK8sData(fields, rendered, opt), fields, rendered, ex, in, ~opt.excludeRaw)
  <2> USE <1>DataResult
  <2> DEFINE data == makeK8sData(fields, rendered, opt)
             kept == {k \in fields : ~Matched(ex, k) /\ (in # {} => Matched(in, k))}
             m == filterData(opt, fields)
             D == DOMAIN rendered \cup (IF opt.excludeRaw THEN {} ELSE {Raw}) \cup m
             g == [k \in D |-> IF k \in DOMAIN rendered THEN rendered[k]
                               ELSE IF k = Raw /\ ~opt.excludeRaw THEN "raw" ELSE "field"]
  <2>1. \/ m = Failed /\ \E p \in ex \cup in : Matches[p] = Failed
        \/ m # Failed /\ m = kept
    <3>1. LET r == filterData(opt, fields) IN
          \/ r = Failed /\ \E p \in ex \cup in : Matches[p] = Failed
          \/ r # Failed /\ r = {k \in fields : ~Matched(ex, k) /\ (in # {} => Matched(in, k))}
      BY SMTT(30), <1>FilterDataResult
    <3> QED
      BY Zenon, <3>1
  <2>2. data = IF ~opt.excludeRaw /\ Raw \in fields \cup DOMAIN rendered THEN Failed
               ELSE IF m = Failed THEN Failed ELSE g
    BY Zenon DEF makeK8sData
  <2> HIDE DEF data, m
  <2>3. CASE ~opt.excludeRaw /\ Raw \in fields \cup DOMAIN rendered
    <3>1. data = Failed
      BY Zenon, <2>2, <2>3
    <3> QED
      BY Zenon, <2>3, <3>1 DEF data, Filtered
  <2>4. CASE ~(~opt.excludeRaw /\ Raw \in fields \cup DOMAIN rendered) /\ m = Failed
    <3>1. data = Failed /\ \E p \in ex \cup in : Matches[p] = Failed
      BY Zenon, <2>1, <2>2, <2>4
    <3> QED
      BY Zenon, <3>1 DEF data, Filtered
  <2>5. CASE ~(~opt.excludeRaw /\ Raw \in fields \cup DOMAIN rendered) /\ m # Failed
    <3>1. data = g /\ m = kept
      BY Zenon, <2>1, <2>2, <2>5
    <3>2. PICK K \in SUBSET Field : rendered \in [K -> Text]
      BY Zenon DEF SecretData
    <3>3. DOMAIN rendered = K
      BY Zenon, <3>2
    <3>4. D \in SUBSET Field
      BY Zenon, <3>1, <3>2, <3>3, PatternAssumption
    <3>5. \A k \in D : g[k] \in Text
      <4>1. \A k \in DOMAIN rendered : rendered[k] \in Text
        BY Zenon, <3>2
      <4>2. "raw" \in Text /\ "field" \in Text
        BY PatternAssumption
      <4> QED
        BY Zenon, <4>1, <4>2
    <3>6. g \in [D -> Text]
      BY Zenon, <3>5
    <3>7. g # Failed
      <4> HIDE DEF g, D
      <4>1. g \in SecretData
        BY Zenon, <3>4, <3>6 DEF SecretData
      <4> QED
        BY Zenon, <4>1, PatternAssumption
    <3>8. DOMAIN g = DOMAIN rendered \cup kept \cup (IF ~opt.excludeRaw THEN {Raw} ELSE {})
      <4>1. DOMAIN g = D
        BY Zenon
      <4>2. CASE opt.excludeRaw = TRUE
        BY Zenon, <3>1, <4>1, <4>2
      <4>3. CASE opt.excludeRaw = FALSE
        BY Zenon, <3>1, <4>1, <4>3
      <4> QED
        BY Zenon, <4>2, <4>3
    <3>9. \A k \in DOMAIN rendered : g[k] = rendered[k]
      BY Zenon
    <3>10. ~opt.excludeRaw => g[Raw] = "raw"
      <4> SUFFICES ASSUME ~opt.excludeRaw PROVE g[Raw] = "raw"
        BY Zenon
      <4>1. Raw \in D /\ Raw \notin DOMAIN rendered
        BY Zenon, <2>5
      <4> QED
        BY Zenon, <4>1
    <3> HIDE DEF g
    <3> QED
      BY Zenon, <3>1, <3>7, <3>8, <3>9, <3>10 DEF data, Filtered
  <2> QED
    BY Zenon, <2>3, <2>4, <2>5

<1>DataInvInit. Init => DataInv
  BY Zenon DEF Init, DataInv, DataIsFiltered, Computed

<1>DataInvNext. DataInv /\ [Next]_vars => DataInv'
  <2> SUFFICES ASSUME DataInv, [Next]_vars PROVE DataInv'
    BY Zenon
  <2>1. CASE Data
    <3> DEFINE a == input.arg
               opt == NewSecretTransformationOption(a.meta, a.refs, a.globalExcludeRaw)
               v == output'.value
               ex == Used(a.meta.excludes, a.refs, "ignoreExcludes", "excludes")
               in == Used(a.meta.includes, a.refs, "ignoreIncludes", "includes")
    <3>1. input' = input /\ input.kind = "data"
      BY Zenon, <2>1 DEF Data, Of, Return
    <3>2. output' = [value |-> makeK8sData(a.fields, a.rendered, opt)]
      BY Zenon, <2>1 DEF Data, Return
    <3>3. v = makeK8sData(a.fields, a.rendered, opt)
      BY Zenon, <3>2
    <3>4. /\ a.fields \subseteq Field /\ a.rendered \in SecretData
          /\ WellFormedFilter(a.meta) /\ \A i \in DOMAIN a.refs : WellFormedFilter(a.refs[i])
          /\ {a.meta.excludeRaw, a.globalExcludeRaw} \subseteq BOOLEAN
      BY Zenon, <3>1, InputsAssumption DEF DataInv
    <3>5. /\ opt.excludes = fieldFilters(ex)
          /\ opt.includes = fieldFilters(in)
          /\ opt.excludeRaw = (a.globalExcludeRaw \/ a.meta.excludeRaw)
      BY Zenon, <1>PatternsUsed DEF NewSecretTransformationOption
    <3>6. ex \in SUBSET Pattern /\ in \in SUBSET Pattern
      <4>1. a.meta.excludes \subseteq Pattern /\ a.meta.includes \subseteq Pattern
        BY Zenon, <3>4 DEF WellFormedFilter
      <4>2. \A i \in DOMAIN a.refs :
              a.refs[i]["excludes"] \subseteq Pattern /\ a.refs[i]["includes"] \subseteq Pattern
        BY Zenon, <3>4 DEF WellFormedFilter
      <4> HIDE DEF a
      <4> QED
        BY Zenon, <4>1, <4>2 DEF Used
    <3>7. opt.excludeRaw \in BOOLEAN
      BY Zenon, <3>4, <3>5
    <3> HIDE DEF opt, ex, in, v
    <3>8. Filtered(v, a.fields, a.rendered, ex, in, ~opt.excludeRaw)
      <4> HIDE DEF a
      <4> DEFINE fields == a.fields
                 rendered == a.rendered
      <4>1. fields \in SUBSET Field /\ rendered \in SecretData
        BY Zenon, <3>4
      <4>2. v = makeK8sData(fields, rendered, opt)
        BY Zenon, <3>3
      <4>3. opt.excludes = fieldFilters(ex) /\ opt.includes = fieldFilters(in)
        BY Zenon, <3>5
      <4> HIDE DEF fields, rendered
      <4>4. Filtered(makeK8sData(fields, rendered, opt), fields, rendered, ex, in, ~opt.excludeRaw)
        BY ZenonT(60), <3>6, <3>7, <4>1, <4>3, <1>DataResult
      <4> QED
        BY Zenon, <4>2, <4>4 DEF fields, rendered
    <3>9. (~opt.excludeRaw) = (~(a.meta.excludeRaw \/ a.globalExcludeRaw))
      BY Zenon, <3>5
    <3>10. Filtered(v, a.fields, a.rendered, ex, in, ~(a.meta.excludeRaw \/ a.globalExcludeRaw))
      BY Zenon, <3>8, <3>9
    <3>11. DataIsFiltered'
      BY Zenon, <3>1, <3>10 DEF DataIsFiltered, Filtered, ex, in, v
    <3> QED
      BY Zenon, <3>1, <3>11 DEF DataInv
  <2>2. CASE Merge \/ Templates \/ Lease \/ RestartCheck \/ PKIWindow \/ HVSRequeue
    <3>1. input' = input /\ input.kind # "data"
      BY Zenon, <2>2 DEF Merge, Templates, Lease, RestartCheck, PKIWindow, HVSRequeue, Of, Return
    <3> QED
      BY Zenon, <3>1 DEF DataInv, DataIsFiltered, Computed
  <2>3. CASE UNCHANGED vars
    BY Zenon, <2>3 DEF vars, DataInv, DataIsFiltered, Computed
  <2> QED
    BY Zenon, <2>1, <2>2, <2>3 DEF Next

<1>1. DataInv => DataIsFiltered
  BY Zenon DEF DataInv
<1> QED
  BY <1>1, <1>DataInvInit, <1>DataInvNext, PTL DEF Spec
-----------------------------------------------------------------------------
\* Names, and templates.
Name == Owner \X Key

Template == [key : Key, name : Name]

\* The place of x in the sequence s.
Pos(s, x) == CHOOSE i \in DOMAIN s : s[i] = x

LEMMA PosProperties ==
  ASSUME NEW s \in Seq(STRING)
  PROVE  /\ \A x \in Range(s) : Pos(s, x) \in Nat /\ s[Pos(s, x)] = x
         /\ \A x, y \in Range(s) : Pos(s, x) = Pos(s, y) => x = y
<1>1. \A i \in DOMAIN s : i \in Nat
  OBVIOUS
<1>2. \A x \in Range(s) : Pos(s, x) \in DOMAIN s /\ s[Pos(s, x)] = x
  <2> TAKE x \in Range(s)
  <2>1. \E i \in DOMAIN s : s[i] = x
    BY Zenon DEF Range
  <2> QED
    BY Zenon, <2>1 DEF Pos
<1> QED
  BY Zenon, <1>1, <1>2

\* The order of the templates is that of three places.
LEMMA CmpPlaces ==
  ASSUME NEW t \in Template, NEW u \in Template
  PROVE  LET a(x) == Pos(KeyOrder, x.key)
             b(x) == Pos(NameOrder, x.name[1])
             c(x) == Pos(KeyOrder, x.name[2]) IN
         /\ a(t) \in Nat /\ b(t) \in Nat /\ c(t) \in Nat
         /\ a(t) = a(u) /\ b(t) = b(u) /\ c(t) = c(u) => t = u
         /\ Cmp(t, u) <=> \/ a(t) < a(u)
                          \/ a(t) = a(u) /\ b(t) < b(u)
                          \/ a(t) = a(u) /\ b(t) = b(u) /\ c(t) < c(u)
<1>1. /\ t.key \in Key /\ t.name[1] \in Owner /\ t.name[2] \in Key
      /\ u.key \in Key /\ u.name[1] \in Owner /\ u.name[2] \in Key
  BY DEF Template, Name
<1>2. /\ \A x \in Key : Pos(KeyOrder, x) \in Nat
      /\ \A x, y \in Key : Pos(KeyOrder, x) = Pos(KeyOrder, y) => x = y
  BY Zenon, PosProperties, OrderAssumption DEF Key
<1>3. /\ \A x \in Owner : Pos(NameOrder, x) \in Nat
      /\ \A x, y \in Owner : Pos(NameOrder, x) = Pos(NameOrder, y) => x = y
  BY Zenon, PosProperties, OrderAssumption DEF Owner
<1>4. t.key = u.key /\ t.name[1] = u.name[1] /\ t.name[2] = u.name[2] => t = u
  BY DEF Template, Name
<1>5. Cmp(t, u) <=> \/ Pos(KeyOrder, t.key) < Pos(KeyOrder, u.key)
                    \/ t.key = u.key /\ Pos(NameOrder, t.name[1]) < Pos(NameOrder, u.name[1])
                    \/ /\ t.key = u.key /\ t.name[1] = u.name[1]
                       /\ Pos(KeyOrder, t.name[2]) < Pos(KeyOrder, u.name[2])
  BY Zenon DEF Cmp, Before, Pos
<1>6. /\ Pos(KeyOrder, t.key) = Pos(KeyOrder, u.key) <=> t.key = u.key
      /\ Pos(NameOrder, t.name[1]) = Pos(NameOrder, u.name[1]) <=> t.name[1] = u.name[1]
      /\ Pos(KeyOrder, t.name[2]) = Pos(KeyOrder, u.name[2]) <=> t.name[2] = u.name[2]
  BY Zenon, <1>1, <1>2, <1>3
<1> QED
  BY Zenon, <1>1, <1>2, <1>3, <1>4, <1>5, <1>6

\* It is a strict total order.
LEMMA CmpOrder ==
  /\ \A t \in Template : ~Cmp(t, t)
  /\ \A t, u \in Template : t # u => Cmp(t, u) \/ Cmp(u, t)
  /\ \A t, u, w \in Template : Cmp(t, u) /\ Cmp(u, w) => Cmp(t, w)
<1> DEFINE a(x) == Pos(KeyOrder, x.key)
           b(x) == Pos(NameOrder, x.name[1])
           c(x) == Pos(KeyOrder, x.name[2])
<1>1. \A t, u \in Template :
        /\ a(t) \in Nat /\ b(t) \in Nat /\ c(t) \in Nat
        /\ a(t) = a(u) /\ b(t) = b(u) /\ c(t) = c(u) => t = u
        /\ Cmp(t, u) <=> \/ a(t) < a(u)
                         \/ a(t) = a(u) /\ b(t) < b(u)
                         \/ a(t) = a(u) /\ b(t) = b(u) /\ c(t) < c(u)
  BY Zenon, CmpPlaces
<1> HIDE DEF a, b, c
<1>2. ASSUME NEW t \in Template PROVE ~Cmp(t, t)
  BY <1>1, <1>2
<1>3. ASSUME NEW t \in Template, NEW u \in Template, t # u PROVE Cmp(t, u) \/ Cmp(u, t)
  BY <1>1, <1>3
<1>4. ASSUME NEW t \in Template, NEW u \in Template, NEW w \in Template, Cmp(t, u), Cmp(u, w)
      PROVE  Cmp(t, w)
  BY <1>1, <1>4
<1> QED
  BY Zenon, <1>2, <1>3, <1>4

\* What templates with different names are sorted to depends only on the set of them.
Distinct(ts) == \A i, j \in DOMAIN ts : i # j => ts[i].name # ts[j].name

InOrder(S) == {r \in S \X S : Cmp(r[1], r[2])}

SortedSet(S) == [i \in 1..Cardinality(S) |-> Nth(S, InOrder(S), i - 1)]

LEMMA SortedOfSet ==
  ASSUME NEW ts \in Seq(Template), Distinct(ts)
  PROVE  Sorted(ts) = SortedSet(Range(ts))
<1> DEFINE D == DOMAIN ts
           E == Earlier(ts)
           S == Range(ts)
           C == InOrder(S)
<1>1. /\ D = 1..Len(ts) /\ Len(ts) \in Nat
      /\ \A i \in D : i \in Nat /\ ts[i] \in Template /\ ts[i] \in S
  BY DEF Range
<1>2. \A x \in S : x \in Template
  BY Zenon, <1>1 DEF Range
<1>3. \A i, j \in D : i # j => ts[i] # ts[j]
  BY Zenon DEF Distinct
<1>4. \A i, j \in D : <<i, j>> \in E <=> Cmp(ts[i], ts[j])
  <2> SUFFICES ASSUME NEW i \in D, NEW j \in D
               PROVE  <<i, j>> \in E <=> Cmp(ts[i], ts[j])
    BY Zenon
  <2>1. <<i, j>> \in E <=> Cmp(ts[i], ts[j]) \/ (i < j /\ ~Cmp(ts[j], ts[i]))
    BY DEF Earlier
  <2>2. i < j => i # j
    BY <1>1
  <2>3. i # j => Cmp(ts[i], ts[j]) \/ Cmp(ts[j], ts[i])
    BY Zenon, <1>1, <1>3, CmpOrder
  <2> QED
    BY Zenon, <2>1, <2>2, <2>3
<1>5. \A x, y \in S : <<x, y>> \in C <=> Cmp(x, y)
  BY DEF InOrder
<1>6. IsFiniteSet(D)
  <2>1. 1 \in Int /\ Len(ts) \in Int
    BY <1>1
  <2> QED
    BY Zenon, <1>1, <2>1, FS_Interval
<1>7. ts \in Bijection(D, S)
  <2>1. ts \in [D -> S]
    BY <1>1
  <2>2. IsInjective(ts)
    BY Zenon, <1>3 DEF IsInjective
  <2>3. \A x \in S : \E i \in D : ts[i] = x
    BY Zenon DEF Range
  <2> HIDE DEF D, S
  <2> QED
    BY Zenon, <2>1, <2>2, <2>3 DEF Bijection, Injection, Surjection
<1>8. IsFiniteSet(S) /\ Cardinality(S) = Cardinality(D)
  <2>1. ExistsBijection(D, S)
    BY Zenon, <1>7 DEF ExistsBijection
  <2> QED
    BY Zenon, <1>6, <2>1, FS_Bijection
<1> HIDE DEF D, E, S, C
<1>9. Cardinality(D) = Len(ts)
  <2>1. 1 \in Int /\ Len(ts) \in Int
    BY <1>1
  <2>2. Cardinality(1..Len(ts)) = IF 1 > Len(ts) THEN 0 ELSE Len(ts) - 1 + 1
    BY Zenon, <2>1, FS_Interval
  <2> QED
    BY <1>1, <2>2
<1>10. StrictOrder(E, D)
  <2>1. \A x \in D : <<x, x>> \notin E
    BY Zenon, <1>1, <1>4, CmpOrder
  <2>2. ASSUME NEW x \in D, NEW y \in D, x # y PROVE <<x, y>> \in E \/ <<y, x>> \in E
    <3>1. Cmp(ts[x], ts[y]) \/ Cmp(ts[y], ts[x])
      BY Zenon, <1>1, <1>3, <2>2, CmpOrder
    <3> QED
      BY Zenon, <1>4, <3>1
  <2>3. ASSUME NEW x \in D, NEW y \in D, NEW z \in D, <<x, y>> \in E, <<y, z>> \in E
        PROVE  <<x, z>> \in E
    <3>1. Cmp(ts[x], ts[y]) /\ Cmp(ts[y], ts[z])
      BY Zenon, <1>4, <2>3
    <3> QED
      BY Zenon, <1>1, <1>4, <3>1, CmpOrder
  <2> QED
    BY Zenon, <2>1, <2>2, <2>3 DEF StrictOrder
<1>11. StrictOrder(C, S)
  <2>1. \A x \in S : <<x, x>> \notin C
    BY Zenon, <1>2, <1>5, CmpOrder
  <2>2. \A x, y \in S : x # y => <<x, y>> \in C \/ <<y, x>> \in C
    BY Zenon, <1>2, <1>5, CmpOrder
  <2>3. ASSUME NEW x \in S, NEW y \in S, NEW z \in S, <<x, y>> \in C, <<y, z>> \in C
        PROVE  <<x, z>> \in C
    <3>1. Cmp(x, y) /\ Cmp(y, z)
      BY Zenon, <1>5, <2>3
    <3> QED
      BY Zenon, <1>2, <1>5, <3>1, CmpOrder
  <2> QED
    BY Zenon, <2>1, <2>2, <2>3 DEF StrictOrder
<1>12. \A n \in 0..(Len(ts) - 1) : Nth(D, E, n) \in D /\ Cardinality(Below(D, E, Nth(D, E, n))) = n
  <2>1. Ranked(D, E)
    BY Zenon, <1>6, <1>10, NthElement
  <2> QED
    BY Zenon, <1>9, <2>1 DEF Ranked
<1>13. \A x \in S : Nth(S, C, Cardinality(Below(S, C, x))) = x
  <2>1. Ranked(S, C)
    BY Zenon, <1>8, <1>11, NthElement
  <2> QED
    BY Zenon, <2>1 DEF Ranked
<1>14. ASSUME NEW i \in D
       PROVE  Cardinality(Below(S, C, ts[i])) = Cardinality(Below(D, E, i))
  <2> DEFINE X == Below(D, E, i)
             Y == Below(S, C, ts[i])
             h == [x \in X |-> ts[x]]
  <2>1. X \in SUBSET D /\ \A x \in D : x \in X <=> Cmp(ts[x], ts[i])
    BY Zenon, <1>4, <1>14 DEF Below
  <2>2. Y \in SUBSET S /\ \A y \in S : y \in Y <=> Cmp(y, ts[i])
    BY Zenon, <1>1, <1>5, <1>14 DEF Below
  <2> HIDE DEF X, Y
  <2>3. h \in [X -> Y]
    BY Zenon, <1>1, <2>1, <2>2
  <2>4. \A x, y \in X : h[x] = h[y] => x = y
    BY Zenon, <1>3, <2>1
  <2>5. \A y \in Y : \E x \in X : h[x] = y
    <3> SUFFICES ASSUME NEW y \in Y PROVE \E x \in X : h[x] = y
      BY Zenon
    <3>1. PICK x \in D : ts[x] = y
      BY Zenon, <2>2 DEF S, D, Range
    <3>2. x \in X
      BY Zenon, <2>1, <2>2, <3>1
    <3> QED
      BY Zenon, <3>1, <3>2
  <2> HIDE DEF h
  <2>6. h \in Bijection(X, Y)
    <3>1. IsInjective(h)
      BY Zenon, <2>3, <2>4 DEF IsInjective
    <3> QED
      BY Zenon, <2>3, <2>5, <3>1 DEF Bijection, Injection, Surjection
  <2>7. IsFiniteSet(X) /\ ExistsBijection(X, Y)
    BY Zenon, <1>6, <2>1, <2>6, FS_Subset DEF ExistsBijection
  <2> QED
    BY Zenon, <2>7, FS_Bijection DEF X, Y
<1>15. ASSUME NEW n \in 0..(Len(ts) - 1) PROVE ts[Nth(D, E, n)] = Nth(S, C, n)
  <2> DEFINE i == Nth(D, E, n)
  <2>1. i \in D /\ Cardinality(Below(D, E, i)) = n
    BY Zenon, <1>12
  <2>2. ts[i] \in S /\ Cardinality(Below(S, C, ts[i])) = n
    BY Zenon, <1>1, <1>14, <2>1
  <2> HIDE DEF i
  <2>3. Nth(S, C, n) = ts[i]
    BY Zenon, <1>13, <2>2
  <2> QED
    BY Zenon, <2>3 DEF i
<1>16. D = 1..Cardinality(S) /\ \A i \in D : i - 1 \in 0..(Len(ts) - 1)
  BY <1>1, <1>8, <1>9
<1>17. [i \in D |-> ts[Nth(D, E, i - 1)]] = [i \in D |-> Nth(S, C, i - 1)]
  BY Zenon, <1>15, <1>16
<1>18. Sorted(ts) = [i \in D |-> ts[Nth(D, E, i - 1)]]
  BY Zenon DEF Sorted, D, E
<1>19. SortedSet(S) = [i \in D |-> Nth(S, C, i - 1)]
  BY Zenon, <1>16 DEF SortedSet, C
<1> QED
  BY Zenon, <1>17, <1>18, <1>19 DEF S

\* The states of gatherTemplates.
State == [keyed : Seq(Template), failed : BOOLEAN]

\* Two states that the rest of gatherTemplates does not tell apart: both have failed, or they have
\* the same templates.
Sound(st) == st \in State /\ (st.failed \/ Distinct(st.keyed))

Alike(s, u) ==
  /\ Sound(s) /\ Sound(u)
  /\ s.failed = u.failed
  /\ s.failed \/ Range(s.keyed) = Range(u.keyed)

\* What addTemplate does to the set of templates.
LEMMA AddTemplateStep ==
  ASSUME NEW st \in State, NEW name \in Name, NEW key \in Key
  PROVE  LET u == addTemplate(st, name, key) IN
         /\ u \in State
         /\ u.failed <=> st.failed \/ name \in Seen(st) \/ name = Explicit("")
         /\ u.failed \/ Range(u.keyed) = Range(st.keyed) \cup {[key |-> key, name |-> name]}
         /\ u.failed \/ (Distinct(st.keyed) => Distinct(u.keyed))
<1> DEFINE u == addTemplate(st, name, key)
           t == [key |-> key, name |-> name]
<1>1. t \in Template /\ t.name = name
  BY DEF Template
<1>2. st.keyed \in Seq(Template) /\ st.failed \in BOOLEAN
  BY DEF State
<1>3. CASE name \in Seen(st) \/ name = Explicit("")
  <2>1. u = [st EXCEPT !.failed = TRUE]
    BY Zenon, <1>3 DEF addTemplate
  <2>2. u \in State /\ u.failed = TRUE
    BY Zenon, <2>1 DEF State
  <2> QED
    BY Zenon, <1>3, <2>2
<1>4. CASE ~(name \in Seen(st) \/ name = Explicit(""))
  <2>1. u = [st EXCEPT !.keyed = Append(@, t)]
    BY Zenon, <1>4 DEF addTemplate
  <2> HIDE DEF t
  <2>2. u \in State /\ u.failed = st.failed /\ u.keyed = Append(st.keyed, t)
    <3>1. Append(st.keyed, t) \in Seq(Template)
      BY <1>1, <1>2
    <3> QED
      BY Zenon, <1>2, <2>1, <3>1 DEF State
  <2> DEFINE a == st.keyed
             b == u.keyed
             n == Len(a)
  <2>3. /\ n \in Nat /\ DOMAIN a = 1..n /\ DOMAIN b = 1..(n + 1)
        /\ b[n + 1] = t /\ \A i \in 1..n : b[i] = a[i]
    BY <1>1, <1>2, <2>2
  <2> HIDE DEF a, b, n
  <2>4. /\ n + 1 \in 1..(n + 1)
        /\ \A i \in 1..(n + 1) : i \in 1..n \/ i = n + 1
        /\ \A i \in 1..n : i \in 1..(n + 1)
    BY <2>3
  <2>5. Range(b) = Range(a) \cup {t}
    BY Zenon, <2>3, <2>4 DEF Range
  <2>6. \A i \in 1..n : a[i].name # name
    BY Zenon, <1>4, <2>3 DEF Seen, Range, a
  <2>7. ASSUME Distinct(a) PROVE Distinct(b)
    <3> SUFFICES ASSUME NEW i \in 1..(n + 1), NEW j \in 1..(n + 1), i # j PROVE b[i].name # b[j].name
      BY Zenon, <2>3 DEF Distinct
    <3>1. CASE i \in 1..n /\ j \in 1..n
      BY Zenon, <2>3, <2>7, <3>1 DEF Distinct
    <3>2. CASE i = n + 1 /\ j \in 1..n
      BY Zenon, <1>1, <2>3, <2>6, <3>2
    <3>3. CASE i \in 1..n /\ j = n + 1
      BY Zenon, <1>1, <2>3, <2>6, <3>3
    <3> QED
      BY Zenon, <2>4, <3>1, <3>2, <3>3
  <2> QED
    BY Zenon, <1>4, <2>2, <2>5, <2>7 DEF a, b, t
<1> QED
  BY Zenon, <1>3, <1>4

\* Names seen in states that are alike.
LEMMA SeenAlike ==
  ASSUME NEW s, NEW u, Alike(s, u), ~s.failed
  PROVE  Seen(s) = Seen(u)
BY Zenon DEF Alike, Seen

\* The same template added to states that are alike.
LEMMA AddAlike ==
  ASSUME NEW s, NEW u, Alike(s, u), NEW name \in Name, NEW key \in Key
  PROVE  Alike(addTemplate(s, name, key), addTemplate(u, name, key))
<1> DEFINE a == addTemplate(s, name, key)
           b == addTemplate(u, name, key)
<1>1. s \in State /\ u \in State
  BY Zenon DEF Alike, Sound
<1>2. /\ a \in State
      /\ a.failed <=> s.failed \/ name \in Seen(s) \/ name = Explicit("")
      /\ a.failed \/ Range(a.keyed) = Range(s.keyed) \cup {[key |-> key, name |-> name]}
      /\ a.failed \/ (Distinct(s.keyed) => Distinct(a.keyed))
  BY Zenon, <1>1, AddTemplateStep
<1>3. /\ b \in State
      /\ b.failed <=> u.failed \/ name \in Seen(u) \/ name = Explicit("")
      /\ b.failed \/ Range(b.keyed) = Range(u.keyed) \cup {[key |-> key, name |-> name]}
      /\ b.failed \/ (Distinct(u.keyed) => Distinct(b.keyed))
  BY Zenon, <1>1, AddTemplateStep
<1> HIDE DEF a, b
<1>4. a.failed \in BOOLEAN /\ b.failed \in BOOLEAN
  BY Zenon, <1>2, <1>3 DEF State
<1>5. s.failed = u.failed /\ (~s.failed => Range(s.keyed) = Range(u.keyed) /\ Seen(s) = Seen(u))
  BY Zenon, SeenAlike DEF Alike
<1>6. a.failed = b.failed
  BY Zenon, <1>2, <1>3, <1>4, <1>5
<1>7. ASSUME ~a.failed PROVE Range(a.keyed) = Range(b.keyed) /\ Distinct(a.keyed) /\ Distinct(b.keyed)
  <2>1. ~s.failed /\ ~u.failed /\ ~b.failed
    BY Zenon, <1>2, <1>3, <1>6, <1>7
  <2>2. Distinct(s.keyed) /\ Distinct(u.keyed) /\ Range(s.keyed) = Range(u.keyed)
    BY Zenon, <1>5, <2>1 DEF Alike, Sound
  <2> QED
    BY Zenon, <1>2, <1>3, <1>7, <2>1, <2>2
<1> QED
  BY Zenon, <1>2, <1>3, <1>6, <1>7 DEF Alike, Sound, a, b

\* A failure of both.
LEMMA FailAlike ==
  ASSUME NEW s, NEW u, Alike(s, u)
  PROVE  Alike([s EXCEPT !.failed = TRUE], [u EXCEPT !.failed = TRUE])
<1>1. s \in State /\ u \in State
  BY Zenon DEF Alike, Sound
<1>2. /\ [s EXCEPT !.failed = TRUE] \in State /\ [s EXCEPT !.failed = TRUE].failed = TRUE
      /\ [u EXCEPT !.failed = TRUE] \in State /\ [u EXCEPT !.failed = TRUE].failed = TRUE
  BY Zenon, <1>1 DEF State
<1> QED
  BY Zenon, <1>2 DEF Alike, Sound

\* The types of names.
LEMMA NameTypes ==
  /\ \A k \in Key : Explicit(k) \in Name
  /\ \A n \in Key, s \in Owner, k \in Key : Named(n, s, k) \in Name
<1>1. "" \in Owner
  BY Zenon, OrderAssumption
<1>2. \A k \in Key : Explicit(k) \in Name
  BY Zenon, <1>1 DEF Explicit, Name
<1>3. \A s \in Owner, k \in Key : <<s, k>> \in Name
  BY Zenon DEF Name
<1> QED
  BY Zenon, <1>2, <1>3 DEF Named

\* The types of a map.
LEMMA MapTypes ==
  ASSUME NEW m \in TemplateMap
  PROVE  DOMAIN m \in SUBSET Key /\ \A k \in DOMAIN m : m[k] \in Key
<1>1. PICK K \in SUBSET Key : m \in [K -> Key]
  BY Zenon DEF TemplateMap
<1> QED
  BY Zenon, <1>1

\* The same reference to a template.
LEMMA AddRefAlike ==
  ASSUME NEW s, NEW u, Alike(s, u), NEW ref, WellFormedRef(ref), NEW t \in [name : Key, keyOverride : Key]
  PROVE  Alike(AddRef(s, ref, t), AddRef(u, ref, t))
<1> DEFINE bad(st) == Explicit(t.name) \in Seen(st) \/ t.name \notin DOMAIN ref.templates
           n == Explicit(ref.templates[t.name])
           k == IF t.keyOverride = "" THEN t.name ELSE t.keyOverride
<1>1. ref.templates \in TemplateMap
  BY Zenon DEF WellFormedRef
<1>2. t.name \in Key /\ t.keyOverride \in Key
  OBVIOUS
<1>3. k \in Key
  BY Zenon, <1>2
<1>4. t.name \in DOMAIN ref.templates => n \in Name
  BY Zenon, <1>1, MapTypes, NameTypes
<1>5. /\ AddRef(s, ref, t) = IF bad(s) THEN [s EXCEPT !.failed = TRUE] ELSE addTemplate(s, n, k)
      /\ AddRef(u, ref, t) = IF bad(u) THEN [u EXCEPT !.failed = TRUE] ELSE addTemplate(u, n, k)
  BY Zenon DEF AddRef
<1>6. s \in State /\ u \in State /\ s.failed = u.failed
  BY Zenon DEF Alike, Sound
<1>7. CASE t.name \notin DOMAIN ref.templates
  <2>1. bad(s) /\ bad(u)
    BY Zenon, <1>7
  <2> HIDE DEF bad
  <2>2. AddRef(s, ref, t) = [s EXCEPT !.failed = TRUE] /\ AddRef(u, ref, t) = [u EXCEPT !.failed = TRUE]
    BY Zenon, <1>5, <2>1
  <2>3. Alike([s EXCEPT !.failed = TRUE], [u EXCEPT !.failed = TRUE])
    BY Zenon, FailAlike
  <2> QED
    BY Zenon, <2>2, <2>3
<1>8. CASE t.name \in DOMAIN ref.templates /\ ~s.failed
  <2>1. Seen(s) = Seen(u)
    BY Zenon, <1>8, SeenAlike
  <2>2. bad(s) <=> bad(u)
    BY Zenon, <2>1
  <2>3. Alike([s EXCEPT !.failed = TRUE], [u EXCEPT !.failed = TRUE])
    BY Zenon, FailAlike
  <2>4. n \in Name
    BY Zenon, <1>4, <1>8
  <2> HIDE DEF n, k
  <2>5. Alike(addTemplate(s, n, k), addTemplate(u, n, k))
    BY Zenon, <1>3, <2>4, AddAlike
  <2> HIDE DEF bad
  <2> QED
    BY Zenon, <1>5, <2>2, <2>3, <2>5
<1>9. CASE t.name \in DOMAIN ref.templates /\ s.failed
  <2> DEFINE fs == [s EXCEPT !.failed = TRUE]
             fu == [u EXCEPT !.failed = TRUE]
             as == addTemplate(s, n, k)
             au == addTemplate(u, n, k)
  <2>1. Alike(fs, fu) /\ fs.failed = TRUE /\ fu.failed = TRUE
    BY <1>6, FailAlike DEF State
  <2>2. n \in Name
    BY Zenon, <1>4, <1>9
  <2> HIDE DEF n, k
  <2>3. Alike(as, au)
    BY Zenon, <1>3, <2>2, AddAlike
  <2>4. as.failed /\ au.failed
    BY Zenon, <1>3, <1>6, <1>9, <2>2, AddTemplateStep
  <2>5. as.failed \in BOOLEAN /\ au.failed \in BOOLEAN
    <3> HIDE DEF as, au
    <3> QED
      BY <2>3 DEF Alike, Sound, State
  <2> HIDE DEF fs, fu, as, au
  <2>6. \A x \in {fs, as}, y \in {fu, au} : Alike(x, y)
    BY Zenon, <2>1, <2>3, <2>4, <2>5 DEF Alike
  <2> QED
    BY Zenon, <1>5, <2>6 DEF fs, fu, as, au
<1> QED
  BY Zenon, <1>7, <1>8, <1>9

\* A fold of gatherTemplates is a run of its steps F: r is their result.
Run(f, N, st, F, r) ==
  /\ f \in [0..N -> State]
  /\ f[0] = st
  /\ \A n \in 1..N : f[n] = F[n][f[n - 1]]
  /\ r = f[N]

\* g follows the steps from the states that it has.
Follows(g, N, st, F) ==
  /\ g = [i \in 0..N |-> g[i]]
  /\ g[0] = st
  /\ \A n \in 1..N : g[n - 1] \in State => g[n] = F[n][g[n - 1]]

\* There is a run, and what follows the steps is one.
LEMMA FoldRun ==
  ASSUME NEW N \in Nat, NEW st \in State, NEW F \in [1..N -> [State -> State]]
  PROVE  /\ \E f : Run(f, N, st, F, f[N])
         /\ \A g : Follows(g, N, st, F) => Run(g, N, st, F, g[N])
<1>1. \E f : Run(f, N, st, F, f[N])
  <2>1. \E f \in [0..N -> State] : Unfolds(f, N, st, F)
    BY Zenon, RecursionExists
  <2> QED
    BY Zenon, <2>1 DEF Unfolds, Run
<1>2. ASSUME NEW g, Follows(g, N, st, F) PROVE Run(g, N, st, F, g[N])
  <2> DEFINE S == {n \in 0..N : g[n] \in State}
  <2>1. /\ g = [i \in 0..N |-> g[i]]
        /\ g[0] = st
        /\ \A n \in 1..N : g[n - 1] \in State => g[n] = F[n][g[n - 1]]
    BY Zenon, <1>2 DEF Follows
  <2>2. 0 \in 0..N /\ \A n \in 1..N : n \in 0..N /\ n - 1 \in 0..N
    OBVIOUS
  <2>3. 0 \in S
    BY Zenon, <2>1, <2>2
  <2>4. ASSUME NEW n \in 1..N, n - 1 \in S PROVE n \in S
    <3>1. g[n - 1] \in State /\ F[n] \in [State -> State]
      BY Zenon, <2>4
    <3> QED
      BY Zenon, <2>1, <2>2, <3>1
  <2>5. 0..N \subseteq S
    <3> HIDE DEF S
    <3> QED
      BY Zenon, <2>3, <2>4, Induction
  <2>6. g \in [0..N -> State]
    BY Zenon, <2>1, <2>5
  <2>7. \A n \in 1..N : g[n] = F[n][g[n - 1]]
    BY Zenon, <2>1, <2>2, <2>6
  <2> QED
    BY Zenon, <2>1, <2>6, <2>7 DEF Run
<1> QED
  BY Zenon, <1>1, <1>2

\* The steps of AddInline, and that it is a run of them.
InlineSteps(templates, order) ==
  [n \in 1..Len(order) |->
     [s \in State |-> addTemplate(s, Named(templates[order[n]], "obj", order[n]), order[n])]]

LEMMA AddInlineRun ==
  ASSUME NEW st \in State, NEW templates \in TemplateMap, NEW N \in Nat,
         NEW order \in [1..N -> DOMAIN templates], Len(order) = N
  PROVE  /\ InlineSteps(templates, order) \in [1..N -> [State -> State]]
         /\ \E f : Run(f, N, st, InlineSteps(templates, order), AddInline(st, templates, order))
<1> DEFINE F == InlineSteps(templates, order)
           Is(f) == f = [i \in 0..N |->
                           IF i = 0 THEN st
                           ELSE addTemplate(f[i - 1], Named(templates[order[i]], "obj", order[i]), order[i])]
<1>1. F \in [1..N -> [State -> State]]
  <2> SUFFICES ASSUME NEW n \in 1..N, NEW s \in State
               PROVE  addTemplate(s, Named(templates[order[n]], "obj", order[n]), order[n]) \in State
    BY Zenon DEF InlineSteps
  <2>1. order[n] \in Key /\ templates[order[n]] \in Key /\ "obj" \in Owner
    BY Zenon, MapTypes, OrderAssumption
  <2>2. Named(templates[order[n]], "obj", order[n]) \in Name
    BY Zenon, <2>1, NameTypes
  <2> QED
    BY Zenon, <2>1, <2>2, AddTemplateStep
<1>2. \A n \in 1..N, s \in State :
        F[n][s] = addTemplate(s, Named(templates[order[n]], "obj", order[n]), order[n])
  BY Zenon DEF InlineSteps
<1>3. /\ \A n \in 1..N : n \in 0..N /\ n - 1 \in 0..N /\ n # 0
      /\ \A n \in 0..N : n # 0 => n \in 1..N
      /\ 0 \in 0..N /\ N \in 0..N
  OBVIOUS
<1> HIDE DEF F
<1>4. PICK f : Run(f, N, st, F, f[N])
  BY Zenon, <1>1, FoldRun
<1>5. Is(f)
  <2>1. \A n \in 1..N : f[n] = addTemplate(f[n - 1], Named(templates[order[n]], "obj", order[n]), order[n])
    BY Zenon, <1>2, <1>3, <1>4 DEF Run
  <2> QED
    BY Zenon, <1>3, <1>4, <2>1 DEF Run
<1>6. PICK g : Is(g) /\ AddInline(st, templates, order) = g[N]
  BY Zenon, <1>5 DEF AddInline
<1>7. Follows(g, N, st, F)
  <2>1. g = [i \in 0..N |-> g[i]]
    BY Zenon, <1>6
  <2>2. /\ g[0] = st
        /\ \A n \in 1..N : g[n] = addTemplate(g[n - 1], Named(templates[order[n]], "obj", order[n]), order[n])
    BY Zenon, <1>3, <1>6
  <2> QED
    BY Zenon, <1>2, <2>1, <2>2 DEF Follows
<1>8. Run(g, N, st, F, g[N])
  <2> HIDE DEF Is
  <2> QED
    BY Zenon, <1>1, <1>7, FoldRun
<1> QED
  BY Zenon, <1>1, <1>6, <1>8 DEF F

\* A step leads to a state.
LEMMA AddRefState ==
  ASSUME NEW st \in State, NEW ref, WellFormedRef(ref), NEW t \in [name : Key, keyOverride : Key]
  PROVE  AddRef(st, ref, t) \in State
<1> DEFINE n == Explicit(ref.templates[t.name])
           k == IF t.keyOverride = "" THEN t.name ELSE t.keyOverride
<1>1. [st EXCEPT !.failed = TRUE] \in State
  BY Zenon DEF State
<1>2. ref.templates \in TemplateMap
  BY Zenon DEF WellFormedRef
<1>3. t.name \in Key /\ t.keyOverride \in Key
  OBVIOUS
<1>4. k \in Key
  BY Zenon, <1>3
<1>5. t.name \in DOMAIN ref.templates => n \in Name
  BY Zenon, <1>2, MapTypes, NameTypes
<1>6. t.name \in DOMAIN ref.templates => addTemplate(st, n, k) \in State
  <2> HIDE DEF n, k
  <2> QED
    BY Zenon, <1>4, <1>5, AddTemplateStep
<1> QED
  BY Zenon, <1>1, <1>6 DEF AddRef

LEMMA AddUnseenState ==
  ASSUME NEW st \in State, NEW ref, WellFormedRef(ref), NEW k \in DOMAIN ref.templates
  PROVE  AddUnseen(st, ref, k) \in State
<1>1. ref.templates \in TemplateMap /\ ref.obj \in Owner
  BY Zenon DEF WellFormedRef
<1>2. k \in Key /\ ref.templates[k] \in Key
  BY Zenon, <1>1, MapTypes
<1>3. Named(ref.templates[k], ref.obj, k) \in Name
  BY Zenon, <1>1, <1>2, NameTypes
<1>4. addTemplate(st, Named(ref.templates[k], ref.obj, k), k) \in State
  BY Zenon, <1>2, <1>3, AddTemplateStep
<1> QED
  BY Zenon, <1>4 DEF AddUnseen

\* The steps of AddRefs.
RefSteps(ref) ==
  [n \in 1..Len(ref.templateRefs) |-> [s \in State |-> AddRef(s, ref, ref.templateRefs[n])]]

LEMMA AddRefsRun ==
  ASSUME NEW st \in State, NEW ref, WellFormedRef(ref), NEW N \in Nat, N = Len(ref.templateRefs)
  PROVE  /\ RefSteps(ref) \in [1..N -> [State -> State]]
         /\ \E f : Run(f, N, st, RefSteps(ref), AddRefs(st, ref))
<1> DEFINE F == RefSteps(ref)
           Is(f) == f = [i \in 0..N |-> IF i = 0 THEN st ELSE AddRef(f[i - 1], ref, ref.templateRefs[i])]
<1>1. F \in [1..N -> [State -> State]]
  <2> SUFFICES ASSUME NEW n \in 1..N, NEW s \in State
               PROVE  AddRef(s, ref, ref.templateRefs[n]) \in State
    BY Zenon DEF RefSteps
  <2>1. ref.templateRefs[n] \in [name : Key, keyOverride : Key]
    <3>1. ref.templateRefs \in Seq([name : Key, keyOverride : Key])
      BY Zenon DEF WellFormedRef
    <3> DEFINE T == [name : Key, keyOverride : Key]
    <3> HIDE DEF T
    <3>2. ref.templateRefs \in Seq(T)
      BY Zenon, <3>1 DEF T
    <3>3. ref.templateRefs[n] \in T
      BY <3>2
    <3> QED
      BY Zenon, <3>3 DEF T
  <2> QED
    BY Zenon, <2>1, AddRefState
<1>2. \A n \in 1..N, s \in State : F[n][s] = AddRef(s, ref, ref.templateRefs[n])
  BY Zenon DEF RefSteps
<1>3. /\ \A n \in 1..N : n \in 0..N /\ n - 1 \in 0..N /\ n # 0
      /\ \A n \in 0..N : n # 0 => n \in 1..N
      /\ 0 \in 0..N /\ N \in 0..N
  OBVIOUS
<1> HIDE DEF F
<1>4. PICK f : Run(f, N, st, F, f[N])
  BY Zenon, <1>1, FoldRun
<1>5. Is(f)
  <2>1. \A n \in 1..N : f[n] = AddRef(f[n - 1], ref, ref.templateRefs[n])
    BY Zenon, <1>2, <1>3, <1>4 DEF Run
  <2> QED
    BY Zenon, <1>3, <1>4, <2>1 DEF Run
<1>6. PICK g : Is(g) /\ AddRefs(st, ref) = g[N]
  BY Zenon, <1>5 DEF AddRefs
<1>7. Follows(g, N, st, F)
  <2>1. g = [i \in 0..N |-> g[i]]
    BY Zenon, <1>6
  <2>2. g[0] = st /\ \A n \in 1..N : g[n] = AddRef(g[n - 1], ref, ref.templateRefs[n])
    BY Zenon, <1>3, <1>6
  <2> QED
    BY Zenon, <1>2, <2>1, <2>2 DEF Follows
<1>8. Run(g, N, st, F, g[N])
  <2> HIDE DEF Is
  <2> QED
    BY Zenon, <1>1, <1>7, FoldRun
<1> QED
  BY Zenon, <1>1, <1>6, <1>8 DEF F

\* The steps of AddSources.
SourceSteps(ref) ==
  [n \in 1..Len(ref.sources) |->
     [s \in State |-> addTemplate(s, Named(ref.sources[n], ref.obj, ToString(n - 1)), "")]]

LEMMA AddSourcesRun ==
  ASSUME NEW st \in State, NEW ref, WellFormedRef(ref), NEW N \in Nat, N = Len(ref.sources)
  PROVE  /\ SourceSteps(ref) \in [1..N -> [State -> State]]
         /\ \E f : Run(f, N, st, SourceSteps(ref), AddSources(st, ref))
<1> DEFINE F == SourceSteps(ref)
           Is(f) == f = [i \in 0..N |->
                           IF i = 0 THEN st
                           ELSE addTemplate(f[i - 1], Named(ref.sources[i], ref.obj, ToString(i - 1)), "")]
<1>1. F \in [1..N -> [State -> State]]
  <2> SUFFICES ASSUME NEW n \in 1..N, NEW s \in State
               PROVE  addTemplate(s, Named(ref.sources[n], ref.obj, ToString(n - 1)), "") \in State
    BY Zenon DEF SourceSteps
  <2>1. ref.sources[n] \in Key /\ ref.obj \in Owner /\ ToString(n - 1) \in Key /\ "" \in Key
    <3>1. ref.sources \in Seq(Key)
      BY Zenon DEF WellFormedRef
    <3>2. n \in DOMAIN ref.sources /\ ref.sources[n] \in Key
      BY <3>1
    <3> QED
      BY Zenon, <3>2, OrderAssumption DEF WellFormedRef
  <2>2. Named(ref.sources[n], ref.obj, ToString(n - 1)) \in Name
    BY Zenon, <2>1, NameTypes
  <2> QED
    BY Zenon, <2>1, <2>2, AddTemplateStep
<1>2. \A n \in 1..N, s \in State : F[n][s] = addTemplate(s, Named(ref.sources[n], ref.obj, ToString(n - 1)), "")
  BY Zenon DEF SourceSteps
<1>3. /\ \A n \in 1..N : n \in 0..N /\ n - 1 \in 0..N /\ n # 0
      /\ \A n \in 0..N : n # 0 => n \in 1..N
      /\ 0 \in 0..N /\ N \in 0..N
  OBVIOUS
<1> HIDE DEF F
<1>4. PICK f : Run(f, N, st, F, f[N])
  BY Zenon, <1>1, FoldRun
<1>5. Is(f)
  <2>1. \A n \in 1..N : f[n] = addTemplate(f[n - 1], Named(ref.sources[n], ref.obj, ToString(n - 1)), "")
    BY Zenon, <1>2, <1>3, <1>4 DEF Run
  <2> QED
    BY Zenon, <1>3, <1>4, <2>1 DEF Run
<1>6. PICK g : Is(g) /\ AddSources(st, ref) = g[N]
  BY Zenon, <1>5 DEF AddSources
<1>7. Follows(g, N, st, F)
  <2>1. g = [i \in 0..N |-> g[i]]
    BY Zenon, <1>6
  <2>2. /\ g[0] = st
        /\ \A n \in 1..N : g[n] = addTemplate(g[n - 1], Named(ref.sources[n], ref.obj, ToString(n - 1)), "")
    BY Zenon, <1>3, <1>6
  <2> QED
    BY Zenon, <1>2, <2>1, <2>2 DEF Follows
<1>8. Run(g, N, st, F, g[N])
  <2> HIDE DEF Is
  <2> QED
    BY Zenon, <1>1, <1>7, FoldRun
<1> QED
  BY Zenon, <1>1, <1>6, <1>8 DEF F

\* The steps of AddAll.
AllSteps(ref, order) ==
  [n \in 1..Len(order) |-> [s \in State |-> AddUnseen(s, ref, order[n])]]

LEMMA AddAllRun ==
  ASSUME NEW st \in State, NEW ref, WellFormedRef(ref), ref.templateRefs = <<>>, NEW N \in Nat,
         NEW order \in [1..N -> DOMAIN ref.templates], Len(order) = N
  PROVE  /\ AllSteps(ref, order) \in [1..N -> [State -> State]]
         /\ \E f : Run(f, N, st, AllSteps(ref, order), AddAll(st, ref, order))
<1> DEFINE F == AllSteps(ref, order)
           Is(f) == f = [i \in 0..N |-> IF i = 0 THEN st ELSE AddUnseen(f[i - 1], ref, order[i])]
<1>1. F \in [1..N -> [State -> State]]
  <2> SUFFICES ASSUME NEW n \in 1..N, NEW s \in State
               PROVE  AddUnseen(s, ref, order[n]) \in State
    BY Zenon DEF AllSteps
  <2>1. order[n] \in DOMAIN ref.templates
    BY Zenon
  <2> QED
    BY Zenon, <2>1, AddUnseenState
<1>2. \A n \in 1..N, s \in State : F[n][s] = AddUnseen(s, ref, order[n])
  BY Zenon DEF AllSteps
<1>3. /\ \A n \in 1..N : n \in 0..N /\ n - 1 \in 0..N /\ n # 0
      /\ \A n \in 0..N : n # 0 => n \in 1..N
      /\ 0 \in 0..N /\ N \in 0..N
  OBVIOUS
<1> HIDE DEF F
<1>4. PICK f : Run(f, N, st, F, f[N])
  BY Zenon, <1>1, FoldRun
<1>5. Is(f)
  <2>1. \A n \in 1..N : f[n] = AddUnseen(f[n - 1], ref, order[n])
    BY Zenon, <1>2, <1>3, <1>4 DEF Run
  <2> QED
    BY Zenon, <1>3, <1>4, <2>1 DEF Run
<1>6. PICK g : Is(g) /\ AddAll(st, ref, order) = g[N]
  BY Zenon, <1>5 DEF AddAll
<1>7. Follows(g, N, st, F)
  <2>1. g = [i \in 0..N |-> g[i]]
    BY Zenon, <1>6
  <2>2. g[0] = st /\ \A n \in 1..N : g[n] = AddUnseen(g[n - 1], ref, order[n])
    BY Zenon, <1>3, <1>6
  <2> QED
    BY Zenon, <1>2, <2>1, <2>2 DEF Follows
<1>8. Run(g, N, st, F, g[N])
  <2> HIDE DEF Is
  <2> QED
    BY Zenon, <1>1, <1>7, FoldRun
<1> QED
  BY Zenon, <1>1, <1>6, <1>8 DEF F

\* Runs from states that are alike, whose steps keep them alike, end in states that are alike.
LEMMA RunAlike ==
  ASSUME NEW N \in Nat, NEW F, NEW G, NEW s, NEW u, Alike(s, u), NEW f, NEW g, NEW r, NEW q,
         Run(f, N, s, F, r), Run(g, N, u, G, q),
         \A n \in 1..N : \A x, y \in State : Alike(x, y) => Alike(F[n][x], G[n][y])
  PROVE  Alike(r, q)
<1> DEFINE S == {n \in 0..N : Alike(f[n], g[n])}
<1>1. f \in [0..N -> State] /\ f[0] = s /\ r = f[N] /\ g \in [0..N -> State] /\ g[0] = u /\ q = g[N]
  BY Zenon DEF Run
<1>2. \A n \in 1..N : f[n] = F[n][f[n - 1]] /\ g[n] = G[n][g[n - 1]]
  BY Zenon DEF Run
<1>3. 0 \in 0..N /\ N \in 0..N /\ \A n \in 1..N : n \in 0..N /\ n - 1 \in 0..N
  OBVIOUS
<1>4. 0 \in S
  BY Zenon, <1>1, <1>3
<1>5. ASSUME NEW n \in 1..N, n - 1 \in S PROVE n \in S
  <2>1. f[n - 1] \in State /\ g[n - 1] \in State /\ Alike(f[n - 1], g[n - 1])
    BY Zenon, <1>1, <1>3, <1>5
  <2>2. Alike(F[n][f[n - 1]], G[n][g[n - 1]])
    BY Zenon, <2>1
  <2>3. Alike(f[n], g[n])
    BY Zenon, <1>2, <2>2
  <2> QED
    BY Zenon, <1>3, <2>3
<1>6. 0..N \subseteq S
  <2> HIDE DEF S
  <2> QED
    BY Zenon, <1>4, <1>5, Induction
<1> QED
  BY Zenon, <1>1, <1>3, <1>6

\* The templates that a reference names, and its source templates.
LEMMA AddRefsAlike ==
  ASSUME NEW s, NEW u, Alike(s, u), NEW ref, WellFormedRef(ref)
  PROVE  Alike(AddRefs(s, ref), AddRefs(u, ref))
<1> DEFINE N == Len(ref.templateRefs)
           F == RefSteps(ref)
           T == [name : Key, keyOverride : Key]
<1>1. ref.templateRefs \in Seq(T)
  BY Zenon DEF WellFormedRef
<1> HIDE DEF T
<1>2. N \in Nat /\ \A n \in 1..N : ref.templateRefs[n] \in T
  BY <1>1
<1>3. s \in State /\ u \in State
  BY Zenon DEF Alike, Sound
<1>4. PICK f : Run(f, N, s, F, AddRefs(s, ref))
  BY Zenon, <1>2, <1>3, AddRefsRun
<1>5. PICK g : Run(g, N, u, F, AddRefs(u, ref))
  BY Zenon, <1>2, <1>3, AddRefsRun
<1>6. \A n \in 1..N : \A x \in State : F[n][x] = AddRef(x, ref, ref.templateRefs[n])
  BY Zenon DEF RefSteps
<1> HIDE DEF N, F
<1>7. ASSUME NEW n \in 1..N, NEW x \in State, NEW y \in State, Alike(x, y)
      PROVE  Alike(F[n][x], F[n][y])
  <2>1. Alike(AddRef(x, ref, ref.templateRefs[n]), AddRef(y, ref, ref.templateRefs[n]))
    BY Zenon, <1>2, <1>7, AddRefAlike DEF T
  <2> QED
    BY Zenon, <1>6, <2>1
<1> QED
  BY Zenon, <1>2, <1>4, <1>5, <1>7, RunAlike

LEMMA AddSourcesAlike ==
  ASSUME NEW s, NEW u, Alike(s, u), NEW ref, WellFormedRef(ref)
  PROVE  Alike(AddSources(s, ref), AddSources(u, ref))
<1> DEFINE N == Len(ref.sources)
           F == SourceSteps(ref)
           name(n) == Named(ref.sources[n], ref.obj, ToString(n - 1))
<1>1. ref.sources \in Seq(Key)
  BY Zenon DEF WellFormedRef
<1>2. N \in Nat /\ \A n \in 1..N : ref.sources[n] \in Key /\ n \in DOMAIN ref.sources
  BY <1>1
<1>3. s \in State /\ u \in State
  BY Zenon DEF Alike, Sound
<1>4. PICK f : Run(f, N, s, F, AddSources(s, ref))
  BY Zenon, <1>2, <1>3, AddSourcesRun
<1>5. PICK g : Run(g, N, u, F, AddSources(u, ref))
  BY Zenon, <1>2, <1>3, AddSourcesRun
<1>6. \A n \in 1..N : \A x \in State : F[n][x] = addTemplate(x, name(n), "")
  BY Zenon DEF SourceSteps
<1>7. \A n \in 1..N : name(n) \in Name
  BY Zenon, <1>2, NameTypes DEF WellFormedRef
<1>8. "" \in Key
  BY Zenon, OrderAssumption
<1> HIDE DEF N, F, name
<1>9. ASSUME NEW n \in 1..N, NEW x \in State, NEW y \in State, Alike(x, y)
      PROVE  Alike(F[n][x], F[n][y])
  <2>1. Alike(addTemplate(x, name(n), ""), addTemplate(y, name(n), ""))
    BY Zenon, <1>7, <1>8, <1>9, AddAlike
  <2> QED
    BY Zenon, <1>6, <2>1
<1> QED
  BY Zenon, <1>2, <1>4, <1>5, <1>9, RunAlike

\* The templates of the keys D, named by nm, and whether they can be added to the templates S.
NamedBy(D, nm) == {[key |-> k, name |-> nm[k]] : k \in D}

Clash(S, D, nm) ==
  \E k \in D : \/ \E t \in S : t.name = nm[k]
               \/ nm[k] = Explicit("")
               \/ \E l \in D : l # k /\ nm[l] = nm[k]

\* u is st with them.
With(st, u, D, nm) ==
  /\ Sound(u)
  /\ u.failed <=> st.failed \/ Clash(Range(st.keyed), D, nm)
  /\ u.failed \/ Range(u.keyed) = Range(st.keyed) \cup NamedBy(D, nm)

\* One more key.
LEMMA WithStep ==
  ASSUME NEW K \in SUBSET Key, NEW nm \in [K -> Name], NEW D \in SUBSET K, NEW k \in K, k \notin D,
         NEW st, NEW u, With(st, u, D, nm), ~u.failed
  PROVE  With(st, addTemplate(u, nm[k], k), D \cup {k}, nm)
<1> DEFINE w == addTemplate(u, nm[k], k)
           S == Range(st.keyed)
           E == D \cup {k}
<1>1. u \in State /\ Distinct(u.keyed) /\ nm[k] \in Name /\ k \in Key
  BY Zenon DEF With, Sound
<1>2. /\ w \in State
      /\ w.failed <=> u.failed \/ nm[k] \in Seen(u) \/ nm[k] = Explicit("")
      /\ w.failed \/ Range(w.keyed) = Range(u.keyed) \cup {[key |-> k, name |-> nm[k]]}
      /\ w.failed \/ (Distinct(u.keyed) => Distinct(w.keyed))
  BY Zenon, <1>1, AddTemplateStep
<1> HIDE DEF w
<1>3. ~st.failed /\ ~Clash(S, D, nm) /\ Range(u.keyed) = S \cup NamedBy(D, nm)
  BY Zenon DEF With
<1> HIDE DEF S
<1>4. nm[k] \in Seen(u) <=> (\E t \in S : t.name = nm[k]) \/ (\E l \in D : nm[l] = nm[k])
  <2>1. \A l : [key |-> l, name |-> nm[l]].name = nm[l]
    BY Zenon
  <2>2. nm[k] \in Seen(u) <=> \E t \in S \cup NamedBy(D, nm) : t.name = nm[k]
    BY Zenon, <1>3 DEF Seen
  <2>3. (\E t \in NamedBy(D, nm) : t.name = nm[k]) <=> \E l \in D : nm[l] = nm[k]
    BY Zenon, <2>1 DEF NamedBy
  <2> QED
    BY Zenon, <2>2, <2>3
<1>5. Clash(S, E, nm) <=> \/ \E t \in S : t.name = nm[k]
                          \/ nm[k] = Explicit("")
                          \/ \E l \in D : nm[l] = nm[k]
  <2>1. ASSUME Clash(S, E, nm)
        PROVE  (\E t \in S : t.name = nm[k]) \/ nm[k] = Explicit("") \/ \E l \in D : nm[l] = nm[k]
    <3>1. PICK x \in E : \/ \E t \in S : t.name = nm[x]
                         \/ nm[x] = Explicit("")
                         \/ \E l \in E : l # x /\ nm[l] = nm[x]
      BY Zenon, <2>1 DEF Clash
    <3>2. CASE x = k
      BY Zenon, <3>1, <3>2
    <3>3. CASE x # k
      <4>1. x \in D
        BY Zenon, <3>3
      <4>2. ~(\E t \in S : t.name = nm[x]) /\ nm[x] # Explicit("") /\ ~ \E l \in D : l # x /\ nm[l] = nm[x]
        BY Zenon, <1>3, <4>1 DEF Clash
      <4>3. nm[k] = nm[x]
        BY Zenon, <3>1, <4>2
      <4> QED
        BY Zenon, <4>1, <4>3
    <3> QED
      BY Zenon, <3>2, <3>3
  <2>2. ASSUME (\E t \in S : t.name = nm[k]) \/ nm[k] = Explicit("") \/ \E l \in D : nm[l] = nm[k]
        PROVE  Clash(S, E, nm)
    BY Zenon, <2>2 DEF Clash
  <2> QED
    BY Zenon, <2>1, <2>2
<1>6. NamedBy(E, nm) = NamedBy(D, nm) \cup {[key |-> k, name |-> nm[k]]}
  BY Zenon DEF NamedBy
<1>7. w.failed <=> st.failed \/ Clash(S, E, nm)
  BY Zenon, <1>2, <1>3, <1>4, <1>5
<1>8. w.failed \/ Range(w.keyed) = S \cup NamedBy(E, nm)
  BY Zenon, <1>2, <1>3, <1>6
<1>9. Sound(w)
  BY Zenon, <1>1, <1>2 DEF Sound
<1> QED
  BY Zenon, <1>7, <1>8, <1>9 DEF With, w, S

\* The same templates added to states that are alike.
LEMMA WithAlike ==
  ASSUME NEW s, NEW u, Alike(s, u), NEW D, NEW E, NEW nm, NEW r, NEW q,
         With(s, r, D, nm), With(u, q, E, nm), s.failed \/ D = E
  PROVE  Alike(r, q)
<1>1. r.failed \in BOOLEAN /\ q.failed \in BOOLEAN
  BY Zenon DEF With, Sound, State
<1>2. CASE s.failed
  <2>1. u.failed
    BY Zenon, <1>2 DEF Alike
  <2>2. r.failed /\ q.failed
    BY Zenon, <1>2, <2>1 DEF With
  <2> QED
    BY Zenon, <1>1, <2>2 DEF Alike, With
<1>3. CASE ~s.failed
  <2>1. D = E /\ Range(s.keyed) = Range(u.keyed) /\ ~u.failed
    BY Zenon, <1>3 DEF Alike
  <2>2. r.failed = q.failed
    <3>1. r.failed <=> Clash(Range(s.keyed), D, nm)
      BY Zenon, <1>3 DEF With
    <3>2. q.failed <=> Clash(Range(u.keyed), E, nm)
      BY Zenon, <2>1 DEF With
    <3>3. r.failed <=> q.failed
      BY Zenon, <2>1, <3>1, <3>2
    <3> QED
      BY <1>1, <3>3
  <2>3. r.failed \/ Range(r.keyed) = Range(q.keyed)
    BY Zenon, <2>1, <2>2 DEF With
  <2> QED
    BY Zenon, <2>2, <2>3 DEF Alike, With
<1> QED
  BY Zenon, <1>2, <1>3

\* The keys visited in the first n steps.
Visited(order, n) == {order[i] : i \in 1..n}

\* order visits every element of K once, in N steps.
Visits(order, N, K) ==
  /\ order \in [1..N -> K]
  /\ \A i, j \in 1..N : order[i] = order[j] => i = j
  /\ \A k \in K : \E i \in 1..N : order[i] = k

LEMMA VisitedAll ==
  ASSUME NEW N \in Nat, NEW K, NEW order, Visits(order, N, K)
  PROVE  Visited(order, 0) = {} /\ Visited(order, N) = K
<1>1. 1..0 = {}
  OBVIOUS
<1>2. Visited(order, 0) = {}
  BY Zenon, <1>1 DEF Visited
<1> DEFINE I == 1..N
<1>3. \A k \in K : k \in {order[i] : i \in I}
  BY Zenon DEF Visits
<1>4. \A i \in I : order[i] \in K
  BY Zenon DEF Visits
<1>5. {order[i] : i \in I} = K
  BY Zenon, <1>3, <1>4
<1> QED
  BY Zenon, <1>2, <1>5 DEF Visited

LEMMA VisitedNext ==
  ASSUME NEW N \in Nat, NEW K, NEW order, Visits(order, N, K), NEW n \in 1..N
  PROVE  /\ Visited(order, n) = Visited(order, n - 1) \cup {order[n]}
         /\ order[n] \notin Visited(order, n - 1)
         /\ Visited(order, n - 1) \subseteq K
<1> DEFINE I == 1..(n - 1)
           J == 1..n
<1>1. J = I \cup {n} /\ n \notin I /\ I \subseteq 1..N
  OBVIOUS
<1> HIDE DEF I, J
<1>2. {order[i] : i \in J} = {order[i] : i \in I} \cup {order[n]}
  BY Zenon, <1>1
<1>3. order[n] \notin {order[i] : i \in I}
  <2> SUFFICES ASSUME NEW i \in I, order[i] = order[n] PROVE FALSE
    BY Zenon
  <2>1. i \in 1..N /\ i # n
    BY Zenon, <1>1
  <2> QED
    BY Zenon, <2>1 DEF Visits
<1>4. {order[i] : i \in I} \subseteq K
  <2>1. \A i \in I : order[i] \in K
    BY Zenon, <1>1 DEF Visits
  <2> QED
    BY Zenon, <2>1
<1> QED
  BY Zenon, <1>2, <1>3, <1>4 DEF Visited, I, J

LEMMA WithNothing ==
  ASSUME NEW st, Sound(st), NEW nm
  PROVE  With(st, st, {}, nm)
<1>1. ~Clash(Range(st.keyed), {}, nm) /\ NamedBy({}, nm) = {}
  BY Zenon DEF Clash, NamedBy
<1> QED
  BY Zenon, <1>1 DEF With

\* The states f add the templates of the keys visited that are not skipped, until there is an error.
Collects(f, N, st, order, Skip, nm) ==
  /\ f \in [0..N -> State]
  /\ f[0] = st
  /\ \A n \in 1..N : f[n - 1].failed => f[n].failed
  /\ \A n \in 1..N :
       /\ ~f[n - 1].failed
       /\ Range(f[n - 1].keyed) = Range(st.keyed) \cup NamedBy(Visited(order, n - 1) \ Skip, nm)
       => f[n] = IF order[n] \in Skip THEN f[n - 1] ELSE addTemplate(f[n - 1], nm[order[n]], order[n])

\* A map whose keys are visited in any order: the templates of those that are not skipped are added.
LEMMA MapRun ==
  ASSUME NEW K \in SUBSET Key, NEW nm \in [K -> Name], NEW Skip, NEW N \in Nat, NEW order, Visits(order, N, K),
         NEW st, Sound(st), NEW f, Collects(f, N, st, order, Skip, nm)
  PROVE  With(st, f[N], K \ Skip, nm)
<1> SUFFICES ASSUME order \in [1..N -> K],
                    \A i, j \in 1..N : order[i] = order[j] => i = j,
                    \A k \in K : \E i \in 1..N : order[i] = k,
                    f \in [0..N -> State], f[0] = st,
                    \A n \in 1..N : f[n - 1].failed => f[n].failed,
                    \A n \in 1..N :
                      /\ ~f[n - 1].failed
                      /\ Range(f[n - 1].keyed) = Range(st.keyed) \cup NamedBy(Visited(order, n - 1) \ Skip, nm)
                      => f[n] = IF order[n] \in Skip THEN f[n - 1]
                                ELSE addTemplate(f[n - 1], nm[order[n]], order[n])
             PROVE  With(st, f[N], K \ Skip, nm)
  BY Zenon DEF Visits, Collects
<1> DEFINE D(n) == Visited(order, n) \ Skip
           S == {n \in 0..N : With(st, f[n], D(n), nm)}
<1>1. 0 \in 0..N /\ N \in 0..N /\ \A n \in 1..N : n \in 0..N /\ n - 1 \in 0..N
  OBVIOUS
<1>2. 0 \in S
  <2>1. Visited(order, 0) = {}
    BY Zenon, VisitedAll
  <2>2. D(0) = {}
    BY Zenon, <2>1
  <2>3. With(st, st, {}, nm)
    BY Zenon, WithNothing
  <2> HIDE DEF D
  <2>4. With(st, f[0], D(0), nm)
    BY Zenon, <2>2, <2>3
  <2> QED
    BY Zenon, <1>1, <2>4
<1>3. ASSUME NEW n \in 1..N, n - 1 \in S PROVE n \in S
  <2> DEFINE k == order[n]
             d == D(n - 1)
             u == f[n - 1]
  <2>1. /\ Visited(order, n) = Visited(order, n - 1) \cup {k}
        /\ k \notin Visited(order, n - 1)
        /\ Visited(order, n - 1) \subseteq K
    BY Zenon, VisitedNext
  <2>2. D(n) = IF k \in Skip THEN d ELSE d \cup {k}
    BY Zenon, <2>1
  <2>3. k \in K /\ k \notin d /\ d \in SUBSET K
    BY Zenon, <2>1
  <2>4. With(st, u, d, nm) /\ u \in State /\ f[n] \in State
    BY Zenon, <1>1, <1>3
  <2>5. With(st, f[n], D(n), nm)
    <3>1. CASE u.failed
      <4>1. f[n].failed /\ (st.failed \/ Clash(Range(st.keyed), d, nm))
        BY Zenon, <2>4, <3>1 DEF With
      <4>2. d \in SUBSET D(n)
        BY Zenon, <2>2
      <4> HIDE DEF d, D
      <4>3. Clash(Range(st.keyed), d, nm) => Clash(Range(st.keyed), D(n), nm)
        BY Zenon, <4>2 DEF Clash
      <4> QED
        BY Zenon, <2>4, <4>1, <4>3 DEF With, Sound
    <3>2. CASE ~u.failed
      <4>1. Range(u.keyed) = Range(st.keyed) \cup NamedBy(d, nm)
        BY Zenon, <2>4, <3>2 DEF With
      <4>2. f[n] = IF k \in Skip THEN u ELSE addTemplate(u, nm[k], k)
        BY Zenon, <3>2, <4>1
      <4> HIDE DEF d, D, u
      <4>3. CASE k \in Skip
        BY Zenon, <2>2, <2>4, <4>2, <4>3
      <4>4. CASE k \notin Skip
        <5>1. With(st, addTemplate(u, nm[k], k), d \cup {k}, nm)
          BY Zenon, <2>3, <2>4, <3>2, WithStep
        <5> QED
          BY Zenon, <2>2, <4>2, <4>4, <5>1
      <4> QED
        BY Zenon, <4>3, <4>4
    <3> QED
      BY Zenon, <3>1, <3>2
  <2> QED
    BY Zenon, <1>1, <2>5
<1>4. 0..N \subseteq S
  <2> HIDE DEF S
  <2> QED
    BY Zenon, <1>2, <1>3, Induction
<1>5. With(st, f[N], D(N), nm)
  BY Zenon, <1>1, <1>4
<1>6. D(N) = K \ Skip
  BY Zenon, VisitedAll
<1> QED
  BY Zenon, <1>5, <1>6

\* An order of iteration visits every key of the map once.
LEMMA OrderProperties ==
  ASSUME NEW m \in TemplateMap, NEW order \in OrdersOf(m)
  PROVE  Len(order) \in Nat /\ Visits(order, Len(order), DOMAIN m)
<1> DEFINE N == Cardinality(DOMAIN m)
           K == DOMAIN m
<1>1. IsFiniteSet(Key)
  <2>1. KeyOrder \in Seq(STRING)
    BY Zenon, OrderAssumption
  <2> DEFINE L == Len(KeyOrder)
  <2>2. L \in Nat /\ DOMAIN KeyOrder = 1..L /\ 1 \in Int /\ L \in Int
    BY <2>1
  <2>3. KeyOrder = [i \in 1..L |-> KeyOrder[i]]
    BY <2>1
  <2> HIDE DEF L
  <2>4. IsFiniteSet(1..L)
    BY Zenon, <2>2, FS_Interval
  <2>5. KeyOrder \in Surjection(1..L, Key)
    <3>1. \A i \in 1..L : KeyOrder[i] \in Key
      BY Zenon, <2>2 DEF Key, Range
    <3>2. KeyOrder \in [1..L -> Key]
      BY Zenon, <2>3, <3>1
    <3>3. \A x \in Key : \E i \in 1..L : KeyOrder[i] = x
      BY Zenon, <2>2 DEF Key, Range
    <3> QED
      BY Zenon, <3>2, <3>3 DEF Surjection
  <2> QED
    BY Zenon, <2>4, <2>5, FS_Surjection
<1>2. K \in SUBSET Key
  BY Zenon, MapTypes
<1>3. N \in Nat
  BY Zenon, <1>1, <1>2, FS_Subset, FS_CardinalityType
<1>4. order \in Bijection(1..N, K)
  BY Zenon DEF OrdersOf
<1> HIDE DEF N, K
<1>5. /\ order \in [1..N -> K]
      /\ \A i, j \in 1..N : order[i] = order[j] => i = j
      /\ \A k \in K : \E i \in 1..N : order[i] = k
  BY Zenon, <1>4 DEF Bijection, Injection, Surjection, IsInjective
<1>6. Len(order) = N
  <2>1. order \in Seq(K)
    BY <1>3, <1>5
  <2> QED
    BY <1>3, <1>5, <2>1
<1> QED
  BY Zenon, <1>3, <1>5, <1>6 DEF K, Visits

\* gatherTemplates begins with no templates.
LEMMA NothingSound == Sound(NoTemplates)
<1>1. <<>> \in Seq(Template) /\ DOMAIN <<>> = {}
  OBVIOUS
<1>2. NoTemplates.keyed = <<>> /\ NoTemplates.failed = FALSE
  BY DEF NoTemplates
<1>3. NoTemplates \in State
  BY Zenon, <1>1 DEF NoTemplates, State
<1>4. Distinct(<<>>)
  BY Zenon, <1>1 DEF Distinct
<1> QED
  BY Zenon, <1>2, <1>3, <1>4 DEF Sound

\* The templates of the object are the same in every order.
LEMMA InlineWith ==
  ASSUME NEW templates \in TemplateMap, NEW order \in OrdersOf(templates), NEW st, Sound(st)
  PROVE  With(st, AddInline(st, templates, order), DOMAIN templates,
              [k \in DOMAIN templates |-> Named(templates[k], "obj", k)])
<1> DEFINE K == DOMAIN templates
           N == Len(order)
           nm == [k \in K |-> Named(templates[k], "obj", k)]
           F == InlineSteps(templates, order)
           r == AddInline(st, templates, order)
<1>1. N \in Nat /\ Visits(order, N, K) /\ order \in [1..N -> K]
  <2>1. N \in Nat /\ Visits(order, N, K)
    BY Zenon, OrderProperties
  <2> QED
    BY Zenon, <2>1 DEF Visits
<1>2. K \in SUBSET Key /\ \A k \in K : templates[k] \in Key
  BY Zenon, MapTypes
<1>3. nm \in [K -> Name]
  <2>1. "obj" \in Owner
    BY Zenon, OrderAssumption
  <2>2. \A k \in K : Named(templates[k], "obj", k) \in Name
    BY Zenon, <1>2, <2>1, NameTypes
  <2> QED
    BY Zenon, <2>2
<1>4. st \in State
  BY Zenon DEF Sound
<1>5. PICK f : Run(f, N, st, F, r)
  BY Zenon, <1>1, <1>4, AddInlineRun
<1>6. f \in [0..N -> State] /\ f[0] = st /\ r = f[N]
  BY Zenon, <1>5 DEF Run
<1>7. \A n \in 1..N : n - 1 \in 0..N
  BY <1>1
<1>8. ASSUME NEW n \in 1..N
      PROVE  f[n] = addTemplate(f[n - 1], nm[order[n]], order[n]) /\ f[n - 1] \in State /\ order[n] \in K
  <2>1. f[n] = F[n][f[n - 1]] /\ f[n - 1] \in State /\ order[n] \in K
    BY Zenon, <1>1, <1>5, <1>6, <1>7 DEF Run
  <2>2. F[n][f[n - 1]] = addTemplate(f[n - 1], Named(templates[order[n]], "obj", order[n]), order[n])
    BY Zenon, <2>1 DEF InlineSteps
  <2>3. nm[order[n]] = Named(templates[order[n]], "obj", order[n])
    BY Zenon, <2>1
  <2> QED
    BY Zenon, <2>1, <2>2, <2>3
<1> HIDE DEF N, nm, F, r, K
<1>9. \A n \in 1..N : f[n - 1].failed => f[n].failed
  <2> SUFFICES ASSUME NEW n \in 1..N, f[n - 1].failed PROVE f[n].failed
    BY Zenon
  <2>1. nm[order[n]] \in Name /\ order[n] \in Key
    BY Zenon, <1>2, <1>3, <1>8
  <2> QED
    BY Zenon, <1>8, <2>1, AddTemplateStep
<1>10. \A n \in 1..N :
         f[n] = IF order[n] \in {} THEN f[n - 1] ELSE addTemplate(f[n - 1], nm[order[n]], order[n])
  BY Zenon, <1>8
<1>11. With(st, f[N], K \ {}, nm)
  <2>1. Collects(f, N, st, order, {}, nm)
    BY Zenon, <1>6, <1>9, <1>10 DEF Collects
  <2> QED
    BY Zenon, <1>1, <1>2, <1>3, <2>1, MapRun
<1>12. K \ {} = K
  BY Zenon
<1> QED
  BY Zenon, <1>6, <1>11, <1>12 DEF r, nm, K

\* A template of the reference has none of the explicit names that are keys of other ones.
Apart(ref) == \A k, l \in DOMAIN ref.templates : k # l => ref.templates[k] # l

LEMMA ApartNames ==
  ASSUME NEW ref, WellFormedRef(ref), Apart(ref),
         NEW k \in DOMAIN ref.templates, NEW l \in DOMAIN ref.templates, k # l
  PROVE  Named(ref.templates[l], ref.obj, l) # Explicit(k)
<1>1. ref.obj # "" /\ ref.templates[l] # k
  BY Zenon DEF WellFormedRef, Apart
<1>2. <<ref.obj, l>> # <<"", k>> /\ <<"", ref.templates[l]>> # <<"", k>>
  BY Zenon, <1>1
<1> QED
  BY Zenon, <1>2 DEF Named, Explicit

\* The keys of the templates that the reference adds to st, and their names.
Unseen(st, ref) == {k \in DOMAIN ref.templates : Explicit(k) \notin Seen(st)}

RefNames(ref) == [k \in DOMAIN ref.templates |-> Named(ref.templates[k], ref.obj, k)]

\* They are what AddAll adds, in every order.
LEMMA AllWith ==
  ASSUME NEW ref, WellFormedRef(ref), Apart(ref), ref.templateRefs = <<>>,
         NEW order \in OrdersOf(ref.templates), NEW st, Sound(st)
  PROVE  With(st, AddAll(st, ref, order), Unseen(st, ref), RefNames(ref))
<1> DEFINE K == DOMAIN ref.templates
           N == Len(order)
           nm == RefNames(ref)
           Skip == {k \in K : Explicit(k) \in Seen(st)}
           F == AllSteps(ref, order)
           r == AddAll(st, ref, order)
<1>0. ref.templates \in TemplateMap /\ ref.obj \in Owner
  BY Zenon DEF WellFormedRef
<1>1. N \in Nat /\ Visits(order, N, K) /\ order \in [1..N -> K]
  <2>1. N \in Nat /\ Visits(order, N, K)
    BY Zenon, <1>0, OrderProperties
  <2> QED
    BY Zenon, <2>1 DEF Visits
<1>2. K \in SUBSET Key /\ \A k \in K : ref.templates[k] \in Key
  BY Zenon, <1>0, MapTypes
<1>3. nm \in [K -> Name]
  <2>1. \A k \in K : Named(ref.templates[k], ref.obj, k) \in Name
    BY Zenon, <1>0, <1>2, NameTypes
  <2> QED
    BY Zenon, <2>1 DEF RefNames
<1>4. st \in State
  BY Zenon DEF Sound
<1>5. PICK f : Run(f, N, st, F, r)
  BY Zenon, <1>1, <1>4, AddAllRun
<1>6. f \in [0..N -> State] /\ f[0] = st /\ r = f[N]
  BY Zenon, <1>5 DEF Run
<1>7. \A n \in 1..N : n - 1 \in 0..N
  BY <1>1
<1>8. ASSUME NEW n \in 1..N
      PROVE  /\ f[n] = IF Explicit(order[n]) \in Seen(f[n - 1]) THEN f[n - 1]
                       ELSE addTemplate(f[n - 1], nm[order[n]], order[n])
             /\ f[n - 1] \in State /\ order[n] \in K
  <2>1. f[n] = F[n][f[n - 1]] /\ f[n - 1] \in State /\ order[n] \in K
    BY Zenon, <1>1, <1>5, <1>6, <1>7 DEF Run
  <2>2. F[n][f[n - 1]] = AddUnseen(f[n - 1], ref, order[n])
    BY Zenon, <2>1 DEF AllSteps
  <2>3. nm[order[n]] = Named(ref.templates[order[n]], ref.obj, order[n])
    BY Zenon, <2>1 DEF RefNames
  <2> HIDE DEF nm
  <2>4. AddUnseen(f[n - 1], ref, order[n]) =
          IF Explicit(order[n]) \in Seen(f[n - 1]) THEN f[n - 1]
          ELSE addTemplate(f[n - 1], nm[order[n]], order[n])
    BY Zenon, <2>3 DEF AddUnseen
  <2> QED
    BY Zenon, <2>1, <2>2, <2>4
<1>9. \A k, l \in K : k # l => nm[l] # Explicit(k)
  BY Zenon, ApartNames DEF RefNames
<1> HIDE DEF N, nm, F, r
<1>10. \A n \in 1..N : f[n - 1].failed => f[n].failed
  <2> SUFFICES ASSUME NEW n \in 1..N, f[n - 1].failed PROVE f[n].failed
    BY Zenon
  <2>1. nm[order[n]] \in Name /\ order[n] \in Key /\ f[n - 1] \in State
    BY Zenon, <1>2, <1>3, <1>8
  <2>2. addTemplate(f[n - 1], nm[order[n]], order[n]).failed
    BY Zenon, <2>1, AddTemplateStep
  <2>3. CASE Explicit(order[n]) \in Seen(f[n - 1])
    BY Zenon, <1>8, <2>3
  <2>4. CASE Explicit(order[n]) \notin Seen(f[n - 1])
    BY Zenon, <1>8, <2>2, <2>4
  <2> QED
    BY Zenon, <2>3, <2>4
<1>11. ASSUME NEW n \in 1..N,
              Range(f[n - 1].keyed) = Range(st.keyed) \cup NamedBy(Visited(order, n - 1) \ Skip, nm)
       PROVE  f[n] = IF order[n] \in Skip THEN f[n - 1] ELSE addTemplate(f[n - 1], nm[order[n]], order[n])
  <2> DEFINE k == order[n]
             B == Visited(order, n - 1)
  <2>1. k \in K /\ k \notin B /\ B \subseteq K
    BY Zenon, <1>1, <1>8, VisitedNext
  <2> HIDE DEF B, k
  <2>2. \A t \in NamedBy(B \ Skip, nm) : t.name # Explicit(k)
    <3> SUFFICES ASSUME NEW l \in B \ Skip PROVE [key |-> l, name |-> nm[l]].name # Explicit(k)
      BY Zenon DEF NamedBy
    <3>1. l \in K /\ k # l
      BY Zenon, <2>1
    <3>2. nm[l] # Explicit(k)
      BY Zenon, <1>9, <2>1, <3>1
    <3> QED
      BY Zenon, <3>2
  <2>3. Explicit(k) \in Seen(f[n - 1]) <=> Explicit(k) \in Seen(st)
    <3>1. Explicit(k) \in Seen(f[n - 1]) <=>
            \E t \in Range(st.keyed) \cup NamedBy(B \ Skip, nm) : t.name = Explicit(k)
      BY Zenon, <1>11 DEF Seen, B
    <3>2. Explicit(k) \in Seen(st) <=> \E t \in Range(st.keyed) : t.name = Explicit(k)
      BY Zenon DEF Seen
    <3> QED
      BY Zenon, <2>2, <3>1, <3>2
  <2>4. k \in Skip <=> Explicit(k) \in Seen(f[n - 1])
    BY Zenon, <2>1, <2>3
  <2>5. f[n] = IF Explicit(k) \in Seen(f[n - 1]) THEN f[n - 1] ELSE addTemplate(f[n - 1], nm[k], k)
    BY Zenon, <1>8 DEF k
  <2> HIDE DEF Skip
  <2>6. f[n] = IF k \in Skip THEN f[n - 1] ELSE addTemplate(f[n - 1], nm[k], k)
    BY Zenon, <2>4, <2>5
  <2> QED
    BY Zenon, <2>6 DEF k
<1>12. K \ Skip = Unseen(st, ref)
  BY Zenon DEF Unseen
<1> HIDE DEF K, Skip
<1>13. With(st, f[N], K \ Skip, nm)
  <2>1. Collects(f, N, st, order, Skip, nm)
    BY Zenon, <1>6, <1>10, <1>11 DEF Collects
  <2> QED
    BY Zenon, <1>1, <1>2, <1>3, <2>1, MapRun
<1> QED
  BY Zenon, <1>6, <1>12, <1>13 DEF r, nm

\* What a reference adds is the same in every order of its map.
LEMMA AddAllAlike ==
  ASSUME NEW s, NEW u, Alike(s, u), NEW ref, WellFormedRef(ref), ref.templateRefs = <<>> => Apart(ref),
         NEW a \in OrdersOf(ref.templates), NEW b \in OrdersOf(ref.templates)
  PROVE  Alike(AddAll(s, ref, a), AddAll(u, ref, b))
<1>1. CASE ref.templateRefs # <<>>
  <2>1. AddAll(s, ref, a) = s /\ AddAll(u, ref, b) = u
    BY Zenon, <1>1 DEF AddAll
  <2> QED
    BY Zenon, <2>1
<1>2. CASE ref.templateRefs = <<>>
  <2>1. Sound(s) /\ Sound(u)
    BY Zenon DEF Alike
  <2>2. With(s, AddAll(s, ref, a), Unseen(s, ref), RefNames(ref))
    BY Zenon, <1>2, <2>1, AllWith
  <2>3. With(u, AddAll(u, ref, b), Unseen(u, ref), RefNames(ref))
    BY Zenon, <1>2, <2>1, AllWith
  <2>4. s.failed \/ Unseen(s, ref) = Unseen(u, ref)
    <3>1. ~s.failed => Seen(s) = Seen(u)
      BY Zenon, SeenAlike
    <3> QED
      BY Zenon, <3>1 DEF Unseen
  <2> QED
    BY Zenon, <2>2, <2>3, <2>4, WithAlike
<1> QED
  BY Zenon, <1>1, <1>2

\* And so is all that it adds.
LEMMA AddTransformationAlike ==
  ASSUME NEW s, NEW u, Alike(s, u), NEW refs, NEW i, WellFormedRef(refs[i]),
         refs[i].templateRefs = <<>> => Apart(refs[i]),
         NEW a \in OrdersOf(refs[i].templates), NEW b \in OrdersOf(refs[i].templates)
  PROVE  Alike(AddTransformation(s, refs, i, a), AddTransformation(u, refs, i, b))
<1> DEFINE bad == (\E j \in 1..(i - 1) : refs[j].obj = refs[i].obj) \/ ~refs[i].valid
<1>1. /\ AddTransformation(s, refs, i, a) =
           IF bad THEN [s EXCEPT !.failed = TRUE]
           ELSE AddAll(AddSources(AddRefs(s, refs[i]), refs[i]), refs[i], a)
      /\ AddTransformation(u, refs, i, b) =
           IF bad THEN [u EXCEPT !.failed = TRUE]
           ELSE AddAll(AddSources(AddRefs(u, refs[i]), refs[i]), refs[i], b)
  BY Zenon DEF AddTransformation
<1>2. Alike([s EXCEPT !.failed = TRUE], [u EXCEPT !.failed = TRUE])
  BY Zenon, FailAlike
<1>3. Alike(AddRefs(s, refs[i]), AddRefs(u, refs[i]))
  BY Zenon, AddRefsAlike
<1>4. Alike(AddSources(AddRefs(s, refs[i]), refs[i]), AddSources(AddRefs(u, refs[i]), refs[i]))
  BY Zenon, <1>3, AddSourcesAlike
<1>5. Alike(AddAll(AddSources(AddRefs(s, refs[i]), refs[i]), refs[i], a),
            AddAll(AddSources(AddRefs(u, refs[i]), refs[i]), refs[i], b))
  BY Zenon, <1>4, AddAllAlike
<1> HIDE DEF bad
<1> QED
  BY Zenon, <1>1, <1>2, <1>5

\* A run ends in a state.
LEMMA RunState ==
  ASSUME NEW N \in Nat, NEW st, NEW F, NEW r, \E f : Run(f, N, st, F, r)
  PROVE  r \in State
<1>1. N \in 0..N
  OBVIOUS
<1> QED
  BY Zenon, <1>1 DEF Run

LEMMA AddTransformationState ==
  ASSUME NEW st \in State, NEW refs, NEW i, WellFormedRef(refs[i]), NEW order \in OrdersOf(refs[i].templates)
  PROVE  AddTransformation(st, refs, i, order) \in State
<1> DEFINE ref == refs[i]
           a == AddRefs(st, ref)
           b == AddSources(a, ref)
           c == AddAll(b, ref, order)
<1>1. /\ ref.templates \in TemplateMap
      /\ ref.templateRefs \in Seq([name : Key, keyOverride : Key]) /\ ref.sources \in Seq(Key)
  BY Zenon DEF WellFormedRef
<1>2. Len(ref.templateRefs) \in Nat /\ Len(ref.sources) \in Nat
  BY <1>1
<1>3. [st EXCEPT !.failed = TRUE] \in State
  BY Zenon DEF State
<1> HIDE DEF ref
<1>4. WellFormedRef(ref) /\ order \in OrdersOf(ref.templates)
  BY Zenon DEF ref
<1>5. a \in State
  BY Zenon, <1>2, <1>4, AddRefsRun, RunState
<1> HIDE DEF a
<1>6. b \in State
  BY Zenon, <1>2, <1>4, <1>5, AddSourcesRun, RunState
<1> HIDE DEF b
<1>7. c \in State
  <2>1. CASE ref.templateRefs # <<>>
    BY Zenon, <1>6, <2>1 DEF AddAll
  <2>2. CASE ref.templateRefs = <<>>
    <3>1. Len(order) \in Nat /\ order \in [1..Len(order) -> DOMAIN ref.templates]
      BY Zenon, <1>1, <1>4, OrderProperties DEF Visits
    <3> QED
      BY Zenon, <1>4, <1>6, <2>2, <3>1, AddAllRun, RunState
  <2> QED
    BY Zenon, <2>1, <2>2
<1> QED
  BY Zenon, <1>3, <1>7 DEF AddTransformation, ref, a, b

\* The steps of gatherTemplates.
GatherSteps(refs, orders) ==
  [n \in 1..Len(refs) |-> [s \in State |-> AddTransformation(s, refs, n, orders[n])]]

\* The references of an object.
WellFormedRefs(refs) ==
  DOMAIN refs = 1..Len(refs) /\ Len(refs) \in Nat /\ \A i \in DOMAIN refs : WellFormedRef(refs[i])

\* gatherTemplates ends in the state r, and sorts its templates.
Gathers(templates, refs, order, orders, f, r) ==
  /\ Run(f, Len(refs), AddInline(NoTemplates, templates, order), GatherSteps(refs, orders), r)
  /\ gatherTemplates(templates, refs, order, orders) = IF r.failed THEN Failed ELSE Sorted(r.keyed)

LEMMA GatherRun ==
  ASSUME NEW templates, NEW order, AddInline(NoTemplates, templates, order) \in State,
         NEW refs, WellFormedRefs(refs), NEW orders \in RefOrders(refs)
  PROVE  \E f, r : Gathers(templates, refs, order, orders, f, r)
<1> DEFINE N == Len(refs)
           st == AddInline(NoTemplates, templates, order)
           F == GatherSteps(refs, orders)
           Is(f) == f = [i \in 0..N |-> IF i = 0 THEN st ELSE AddTransformation(f[i - 1], refs, i, orders[i])]
<1>1. F \in [1..N -> [State -> State]]
  <2> SUFFICES ASSUME NEW n \in 1..N, NEW s \in State
               PROVE  AddTransformation(s, refs, n, orders[n]) \in State
    BY Zenon DEF GatherSteps
  <2>1. n \in DOMAIN refs
    BY Zenon DEF WellFormedRefs
  <2>2. WellFormedRef(refs[n]) /\ orders[n] \in OrdersOf(refs[n].templates)
    BY Zenon, <2>1 DEF WellFormedRefs, RefOrders
  <2> QED
    BY Zenon, <2>2, AddTransformationState
<1>2. \A n \in 1..N, s \in State : F[n][s] = AddTransformation(s, refs, n, orders[n])
  BY Zenon DEF GatherSteps
<1>3. /\ \A n \in 1..N : n \in 0..N /\ n - 1 \in 0..N /\ n # 0
      /\ \A n \in 0..N : n # 0 => n \in 1..N
      /\ 0 \in 0..N /\ N \in 0..N /\ N \in Nat
  BY DEF WellFormedRefs
<1> HIDE DEF F, N, st
<1>4. PICK f : Run(f, N, st, F, f[N])
  <2>1. st \in State
    BY Zenon DEF st
  <2> QED
    BY Zenon, <1>1, <1>3, <2>1, FoldRun
<1>5. Is(f)
  <2>1. \A n \in 1..N : f[n] = AddTransformation(f[n - 1], refs, n, orders[n])
    BY Zenon, <1>2, <1>3, <1>4 DEF Run
  <2> QED
    BY Zenon, <1>3, <1>4, <2>1 DEF Run
<1>6. PICK g : /\ Is(g)
               /\ gatherTemplates(templates, refs, order, orders) =
                    IF g[N].failed THEN Failed ELSE Sorted(g[N].keyed)
  <2> DEFINE h == CHOOSE g : Is(g)
  <2>1. Is(h)
    <3> HIDE DEF Is
    <3> QED
      BY Zenon, <1>5
  <2>2. gatherTemplates(templates, refs, order, orders) = IF h[N].failed THEN Failed ELSE Sorted(h[N].keyed)
    BY Zenon DEF gatherTemplates, N, st
  <2> HIDE DEF h, Is
  <2> QED
    BY Zenon, <2>1, <2>2
<1>7. Follows(g, N, st, F)
  <2>1. g = [i \in 0..N |-> g[i]]
    BY Zenon, <1>6
  <2>2. g[0] = st /\ \A n \in 1..N : g[n] = AddTransformation(g[n - 1], refs, n, orders[n])
    BY Zenon, <1>3, <1>6
  <2> QED
    BY Zenon, <1>2, <2>1, <2>2 DEF Follows
<1>8. Run(g, N, st, F, g[N])
  <2>1. st \in State
    BY Zenon DEF st
  <2> HIDE DEF Is
  <2> QED
    BY Zenon, <1>1, <1>3, <1>7, <2>1, FoldRun
<1> QED
  BY Zenon, <1>6, <1>8 DEF F, N, st, Gathers

\* Two iterations of the same maps gather the same templates.
LEMMA GatherAlike ==
  ASSUME NEW templates \in TemplateMap, NEW refs, WellFormedRefs(refs), NamesApart(refs),
         NEW a \in OrdersOf(templates), NEW b \in OrdersOf(templates),
         NEW as \in RefOrders(refs), NEW bs \in RefOrders(refs)
  PROVE  gatherTemplates(templates, refs, a, as) = gatherTemplates(templates, refs, b, bs)
<1> DEFINE N == Len(refs)
           s == AddInline(NoTemplates, templates, a)
           u == AddInline(NoTemplates, templates, b)
           F == GatherSteps(refs, as)
           G == GatherSteps(refs, bs)
           K == DOMAIN templates
           nm == [k \in K |-> Named(templates[k], "obj", k)]
           va == gatherTemplates(templates, refs, a, as)
           vb == gatherTemplates(templates, refs, b, bs)
<1>1. With(NoTemplates, s, K, nm)
  BY Zenon, NothingSound, InlineWith
<1>2. With(NoTemplates, u, K, nm)
  BY Zenon, NothingSound, InlineWith
<1> HIDE DEF s, u, K, nm
<1>3. Alike(NoTemplates, NoTemplates)
  BY Zenon, NothingSound DEF Alike
<1>4. Alike(s, u)
  BY Zenon, <1>1, <1>2, <1>3, WithAlike
<1>5. s \in State /\ u \in State
  BY Zenon, <1>4 DEF Alike, Sound
<1>6. PICK f, r : Run(f, N, s, F, r) /\ va = IF r.failed THEN Failed ELSE Sorted(r.keyed)
  <2>1. \E f, r : Gathers(templates, refs, a, as, f, r)
    BY Zenon, <1>5, GatherRun DEF s
  <2> QED
    BY Zenon, <2>1 DEF Gathers, s
<1>7. PICK g, q : Run(g, N, u, G, q) /\ vb = IF q.failed THEN Failed ELSE Sorted(q.keyed)
  <2>1. \E g, q : Gathers(templates, refs, b, bs, g, q)
    BY Zenon, <1>5, GatherRun DEF u
  <2> QED
    BY Zenon, <2>1 DEF Gathers, u
<1>8. ASSUME NEW n \in 1..N, NEW x \in State, NEW y \in State, Alike(x, y)
      PROVE  Alike(F[n][x], G[n][y])
  <2>1. F[n][x] = AddTransformation(x, refs, n, as[n]) /\ G[n][y] = AddTransformation(y, refs, n, bs[n])
    BY Zenon DEF GatherSteps
  <2>0. n \in DOMAIN refs
    BY Zenon DEF WellFormedRefs
  <2>2. /\ WellFormedRef(refs[n])
        /\ as[n] \in OrdersOf(refs[n].templates) /\ bs[n] \in OrdersOf(refs[n].templates)
    BY Zenon, <2>0 DEF WellFormedRefs, RefOrders
  <2>3. refs[n].templateRefs = <<>> => Apart(refs[n])
    BY Zenon, <2>0 DEF NamesApart, Apart
  <2>4. Alike(AddTransformation(x, refs, n, as[n]), AddTransformation(y, refs, n, bs[n]))
    BY Zenon, <1>8, <2>2, <2>3, AddTransformationAlike
  <2> QED
    BY Zenon, <2>1, <2>4
<1> HIDE DEF F, G, va, vb, N
<1>9. Alike(r, q)
  <2>1. N \in Nat
    BY Zenon DEF N, WellFormedRefs
  <2> QED
    BY Zenon, <1>4, <1>6, <1>7, <1>8, <2>1, RunAlike
<1>10. CASE r.failed
  <2>1. q.failed
    BY Zenon, <1>9, <1>10 DEF Alike
  <2> QED
    BY Zenon, <1>6, <1>7, <1>10, <2>1 DEF va, vb
<1>11. CASE ~r.failed
  <2>1. ~q.failed /\ Range(r.keyed) = Range(q.keyed) /\ Distinct(r.keyed) /\ Distinct(q.keyed)
    BY Zenon, <1>9, <1>11 DEF Alike, Sound
  <2>2. r.keyed \in Seq(Template) /\ q.keyed \in Seq(Template)
    BY Zenon, <1>9 DEF Alike, Sound, State
  <2>3. Sorted(r.keyed) = SortedSet(Range(r.keyed)) /\ Sorted(q.keyed) = SortedSet(Range(q.keyed))
    BY Zenon, <2>1, <2>2, SortedOfSet
  <2>4. va = Sorted(r.keyed) /\ vb = Sorted(q.keyed)
    BY Zenon, <1>6, <1>7, <1>11, <2>1
  <2> QED
    BY Zenon, <2>1, <2>3, <2>4 DEF va, vb
<1> QED
  BY Zenon, <1>10, <1>11

\* The inputs are of their set, and the templates as they are to be.
TemplatesInv == (input.kind = "templates" => input.arg \in TemplateInputs) /\ TemplatesDeterministic

LEMMA TemplatesInvInit == Init => TemplatesInv
BY Zenon DEF Init, TemplatesInv, TemplatesDeterministic, Computed

LEMMA TemplatesInvNext == TemplatesInv /\ [Next]_vars => TemplatesInv'
<1> SUFFICES ASSUME TemplatesInv, [Next]_vars PROVE TemplatesInv'
  BY Zenon
<1>1. CASE Templates
  <2> DEFINE t == input.arg.templates
             refs == input.arg.refs
  <2>1. input' = input /\ input.kind = "templates"
    BY Zenon, <1>1 DEF Templates, Of, Return
  <2>2. PICK a \in OrdersOf(t), as \in RefOrders(refs) :
          output' = [value |-> gatherTemplates(t, refs, a, as)]
    BY Zenon, <1>1 DEF Templates, Return
  <2>3. output'.value = gatherTemplates(t, refs, a, as)
    BY Zenon, <2>2
  <2>4. t \in TemplateMap /\ WellFormedRefs(refs)
    BY Zenon, <2>1, InputsAssumption DEF TemplatesInv, WellFormedRefs
  <2> HIDE DEF t, refs
  <2>5. ASSUME NamesApart(refs), NEW b \in OrdersOf(t), NEW bs \in RefOrders(refs)
        PROVE  output'.value = gatherTemplates(t, refs, b, bs)
    <3>1. gatherTemplates(t, refs, a, as) = gatherTemplates(t, refs, b, bs)
      BY Zenon, <2>2, <2>4, <2>5, GatherAlike
    <3> QED
      BY Zenon, <2>3, <3>1
  <2>6. TemplatesDeterministic'
    BY Zenon, <2>1, <2>5 DEF TemplatesDeterministic, t, refs
  <2> QED
    BY Zenon, <2>1, <2>6 DEF TemplatesInv
<1>2. CASE Merge \/ Data \/ Lease \/ RestartCheck \/ PKIWindow \/ HVSRequeue
  <2>1. input' = input /\ input.kind # "templates"
    BY Zenon, <1>2 DEF Merge, Data, Lease, RestartCheck, PKIWindow, HVSRequeue, Of, Return
  <2> QED
    BY Zenon, <2>1 DEF TemplatesInv, TemplatesDeterministic, Computed
<1>3. CASE UNCHANGED vars
  BY Zenon, <1>3 DEF vars, TemplatesInv, TemplatesDeterministic, Computed
<1> QED
  BY Zenon, <1>1, <1>2, <1>3 DEF Next

\* The templates that are gathered do not depend on the orders in which Go visits the maps, for
\* all objects, references and maps in which no template is named like the key of another one
\* (gatherTemplates).
THEOREM GatheringIsDeterministic == Spec => []TemplatesDeterministic
<1>1. TemplatesInv => TemplatesDeterministic
  BY Zenon DEF TemplatesInv
<1> QED
  BY <1>1, TemplatesInvInit, TemplatesInvNext, PTL DEF Spec
=============================================================================
