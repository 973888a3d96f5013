------------------------ MODULE SecretTransformation ------------------------
(***************************************************************************)
(* How the data of the destination Secret is made from the data read from  *)
(* Vault: the field filters, the templates and their collection from the   *)
(* object and the SecretTransformations it refers to (helpers/template.go, *)
(* makeK8sData of helpers/secrets.go).                                     *)
(* A pattern is a number, its place in the order of the pattern strings; a *)
(* template's name is a pair: <<"", n>> is the explicit name n, and        *)
(* <<s, k>> the name made of the object s and the key k.                   *)
(***************************************************************************)
EXTENDS Naturals, Sequences, FiniteSets, Functions, TLC

CONSTANTS
  Pattern,    \* the regular expressions, numbered in their order
  Matches,    \* the fields that each one matches; Failed if it does not compile
  KeyOrder,   \* the keys, in their order; the empty key of a source template first
  NameOrder,  \* the sources of names, in their order
  Field,      \* the fields, and the keys of the rendered templates
  Text,       \* what a key of the Secret holds
  Failed

Raw == "_raw"

\* The data of a Secret: its keys, and what they hold.
SecretData == UNION {[K -> Text] : K \in SUBSET Field}

ASSUME PatternAssumption ==
  /\ Pattern \subseteq Nat
  /\ IsFiniteSet(Pattern)
  /\ Raw \in Field /\ {"raw", "field"} \subseteq Text
  /\ \A S \in SUBSET Field : S # Failed
  /\ Failed \notin SecretData

\* The patterns of a Transformation, or of a reference to a SecretTransformation.
WellFormedFilter(f) == f.excludes \subseteq Pattern /\ f.includes \subseteq Pattern

\* The keys of templates and the names of templates; those of the objects they belong to.
Key == Range(KeyOrder)
Owner == Range(NameOrder)
TemplateMap == UNION {[K -> Key] : K \in SUBSET Key}

ASSUME OrderAssumption ==
  /\ KeyOrder \in Seq(STRING) /\ "" \in Key
  /\ NameOrder \in Seq(STRING) /\ {"", "obj"} \subseteq Owner

WellFormedRef(ref) ==
  /\ ref.obj \in Owner \ {""}
  /\ ref.valid \in BOOLEAN
  /\ ref.templates \in TemplateMap
  /\ ref.templateRefs \in Seq([name : Key, keyOverride : Key])
  /\ ref.sources \in Seq(Key)
  /\ \A i \in DOMAIN ref.sources : ToString(i - 1) \in Key

\* The element of T that comes after n others in the order R.
Nth(T, R, n) == CHOOSE x \in T : Cardinality({y \in T : <<y, x>> \in R}) = n

\* ------ filters ------

\* Whether field k matches one of the patterns, tried in turn until one matches.
MatchFields(pats, k) ==
  LET hit == {i \in DOMAIN pats : Matches[pats[i]] # Failed /\ k \in Matches[pats[i]]}
      bad == {i \in DOMAIN pats : Matches[pats[i]] = Failed} IN
  IF \E i \in bad : \A j \in hit : i < j THEN "error"
  ELSE IF hit = {} THEN "unmatched" ELSE "matched"

\* The keys of d whose match is `keep'; all of them without patterns.
FilterKeys(d, pats, keep) ==
  IF pats = <<>> THEN d
  ELSE IF \E k \in d : MatchFields(pats, k) = "error" THEN Failed
       ELSE {k \in d : MatchFields(pats, k) = keep}

\* (The mutant applies the includes to all of the data.)
filterDataIncludesFirst(opt, d) ==
  LET m == FilterKeys(d, opt.excludes, "unmatched") IN
  IF m = Failed \/ opt.includes = <<>> THEN m ELSE FilterKeys(d, opt.includes, "matched")

\* The keys of d that pass the excludes, and then the includes.
filterData(opt, d) ==
  LET m == FilterKeys(d, opt.excludes, "unmatched") IN
  IF m = Failed THEN Failed ELSE FilterKeys(m, opt.includes, "matched")

\* fieldFilters: the patterns without duplicates, sorted.
fieldFilters(pats) ==
  [i \in 1..Cardinality(pats) |-> Nth(pats, {r \in pats \X pats : r[1] < r[2]}, i - 1)]

\* ------ the data ------

\* fields are the keys read, rendered maps the keys of the templates to what they render.
makeK8sData(fields, rendered, opt) ==
  LET filtered == filterData(opt, fields) IN
  IF ~opt.excludeRaw /\ Raw \in fields \cup DOMAIN rendered THEN Failed
  ELSE IF filtered = Failed THEN Failed
  ELSE [k \in DOMAIN rendered \cup (IF opt.excludeRaw THEN {} ELSE {Raw}) \cup filtered |->
          IF k \in DOMAIN rendered THEN rendered[k]
          ELSE IF k = Raw /\ ~opt.excludeRaw THEN "raw" ELSE "field"]

\* ------ templates ------

Explicit(n) == <<"", n>>
Named(name, s, k) == IF name = "" THEN <<s, k>> ELSE Explicit(name)

\* The state of gatherTemplates: the templates so far, and whether there was an error.
NoTemplates == [keyed |-> <<>>, failed |-> FALSE]

Seen(st) == {t.name : t \in Range(st.keyed)}

addTemplate(st, name, key) ==
  IF name \in Seen(st) \/ name = Explicit("") THEN [st EXCEPT !.failed = TRUE]
  ELSE [st EXCEPT !.keyed = Append(@, [key |-> key, name |-> name])]

\* An order in which Go may visit the keys of a map is a sequence of them.
AddInline(st, templates, order) ==
  LET added[i \in 0..Len(order)] ==
        IF i = 0 THEN st
        ELSE addTemplate(added[i - 1], Named(templates[order[i]], "obj", order[i]), order[i])
  IN added[Len(order)]

\* One of the templates that the reference names, and all of them.
AddRef(st, ref, t) ==
  IF Explicit(t.name) \in Seen(st) \/ t.name \notin DOMAIN ref.templates
  THEN [st EXCEPT !.failed = TRUE]
  ELSE addTemplate(st, Explicit(ref.templates[t.name]), IF t.keyOverride = "" THEN t.name ELSE t.keyOverride)

AddRefs(st, ref) ==
  LET added[i \in 0..Len(ref.templateRefs)] ==
        IF i = 0 THEN st ELSE AddRef(added[i - 1], ref, ref.templateRefs[i])
  IN added[Len(ref.templateRefs)]

AddSources(st, ref) ==
  LET added[i \in 0..Len(ref.sources)] ==
        IF i = 0 THEN st
        ELSE addTemplate(added[i - 1], Named(ref.sources[i], ref.obj, ToString(i - 1)), "")
  IN added[Len(ref.sources)]

\* A template of a reference that names none, and all of them.
AddUnseen(st, ref, k) ==
  IF Explicit(k) \in Seen(st) THEN st ELSE addTemplate(st, Named(ref.templates[k], ref.obj, k), k)

AddAll(st, ref, order) ==
  LET added[i \in 0..Len(order)] == IF i = 0 THEN st ELSE AddUnseen(added[i - 1], ref, order[i])
  IN IF ref.templateRefs # <<>> THEN st ELSE added[Len(order)]

Before(s, x, y) == (CHOOSE i \in DOMAIN s : s[i] = x) < (CHOOSE i \in DOMAIN s : s[i] = y)

\* The code compares Key + "0" + Template.Name as strings; KeyOrder and NameOrder give that order
\* when no key begins with another one followed by "0".
Cmp(t, u) ==
  \/ Before(KeyOrder, t.key, u.key)
  \/ t.key = u.key /\ Before(NameOrder, t.name[1], u.name[1])
  \/ t.key = u.key /\ t.name[1] = u.name[1] /\ Before(KeyOrder, t.name[2], u.name[2])

\* (The mutant leaves the templates in the order of their collection.)
SortedNot(ts) == ts

\* The templates sorted; those that do not differ in the order stay as they were collected.
Earlier(ts) ==
  {r \in (DOMAIN ts) \X (DOMAIN ts) :
     Cmp(ts[r[1]], ts[r[2]]) \/ (r[1] < r[2] /\ ~Cmp(ts[r[2]], ts[r[1]]))}
Sorted(ts) == [i \in DOMAIN ts |-> ts[Nth(DOMAIN ts, Earlier(ts), i - 1)]]

\* What the i-th reference adds.
AddTransformation(st, refs, i, order) ==
  IF (\E j \in 1..(i - 1) : refs[j].obj = refs[i].obj) \/ ~refs[i].valid
  THEN [st EXCEPT !.failed = TRUE]
  ELSE AddAll(AddSources(AddRefs(st, refs[i]), refs[i]), refs[i], order)

\* order is the order in which the object's map is visited, orders[i] that of the i-th reference's.
gatherTemplates(templates, refs, order, orders) ==
  LET added[i \in 0..Len(refs)] ==
        IF i = 0 THEN AddInline(NoTemplates, templates, order)
        ELSE AddTransformation(added[i - 1], refs, i, orders[i])
      all == added[Len(refs)]
  IN IF all.failed THEN Failed ELSE Sorted(all.keyed)

\* The orders of iteration there are.
OrdersOf(m) == Bijection(1..Cardinality(DOMAIN m), DOMAIN m)
RefOrders(refs) ==
  {f \in [DOMAIN refs -> UNION {OrdersOf(refs[i].templates) : i \in DOMAIN refs}] :
     \A i \in DOMAIN refs : f[i] \in OrdersOf(refs[i].templates)}

\* The patterns that gatherTemplates collects.
Patterns(own, refs, ignored, field) ==
  fieldFilters(own \cup UNION {IF refs[i][ignored] THEN {} ELSE refs[i][field] : i \in DOMAIN refs})

NewSecretTransformationOption(meta, refs, globalExcludeRaw) ==
  [excludes |-> Patterns(meta.excludes, refs, "ignoreExcludes", "excludes"),
   includes |-> Patterns(meta.includes, refs, "ignoreIncludes", "includes"),
   excludeRaw |-> globalExcludeRaw \/ meta.excludeRaw]

\* The last template of a key is the one whose text stays.
renderTemplates(keyed) ==
  LET of(k) == {i \in DOMAIN keyed : keyed[i].key = k} IN
  [k \in {t.key : t \in Range(keyed)} \ {""} |->
     keyed[CHOOSE i \in of(k) : \A j \in of(k) : j <= i].name]
=============================================================================
