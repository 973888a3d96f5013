-------------------------- MODULE SyncSecret_proofs --------------------------
(***************************************************************************)
(* Proofs about SyncSecret, for any objects, names, types and destinations *)
(* and any number of changes and faults.                                   *)
(***************************************************************************)
EXTENDS SyncSecret, TLAPS

\* Owner labels are those of the object in the owner reference.
LabelsOwn == \A n \in Name : secret[n] # None => secret[n].labels \in {None, secret[n].refs}

\* What a call of o knows about the Secrets that did not change since it saw them.
Knows(o) ==
  /\ task[o].pc = "write" => ~Refused(o, task[o].dest, task[o].read)
  /\ task[o].pc = "write" /\ task[o].dest.name \notin task[o].changed
       => secret[task[o].dest.name] = task[o].read
  /\ /\ task[o].pc = "delete" /\ task[o].dest.name \notin task[o].changed
     /\ secret[task[o].dest.name] # None
     => secret[task[o].dest.name].refs = o
  /\ task[o].pc = "prune"
       => \A n \in task[o].orphans \ task[o].changed : secret[n] # None => secret[n].refs = o

SyncInv == TypeOK /\ LabelsOwn /\ \A o \in Obj : Knows(o)

LEMMA IdleType == \A o \in Obj : Idle(o) \in Task /\ Idle(o).pc = "idle"
<1> SUFFICES ASSUME NEW o \in Obj PROVE Idle(o) \in Task /\ Idle(o).pc = "idle"
  BY Zenon
<1>1. Specs[o] # {} /\ Specs[o] \subseteq Destination
  BY Zenon, SyncAssumption
<1>2. (CHOOSE d \in Specs[o] : TRUE) \in Destination
  BY Zenon, <1>1
<1> QED
  BY Zenon, <1>2 DEF Idle, Task

\* Noted changes nothing but the set of changed Secrets.
LEMMA NotedType ==
  ASSUME TypeOK, NEW n \in Name
  PROVE  /\ Noted(n) \in [Obj -> Task]
         /\ \A p \in Obj : /\ Noted(n)[p].pc = task[p].pc /\ Noted(n)[p].dest = task[p].dest
                           /\ Noted(n)[p].read = task[p].read
                           /\ Noted(n)[p].orphans = task[p].orphans
                           /\ Noted(n)[p].changed = IF n \in Seen(task[p])
                                                      THEN task[p].changed \cup {n}
                                                      ELSE task[p].changed
<1>1. \A p \in Obj : task[p] \in Task
  BY Zenon DEF TypeOK
<1>2. ASSUME NEW p \in Obj
      PROVE  [task[p] EXCEPT !.changed = @ \cup {n}] \in Task
  BY Zenon, <1>1 DEF Task
<1>3. Noted(n) = [p \in Obj |-> IF n \in Seen(task[p])
                                 THEN [task[p] EXCEPT !.changed = @ \cup {n}] ELSE task[p]]
  BY Zenon DEF Noted
<1>4. Noted(n) \in [Obj -> Task]
  BY Zenon, <1>1, <1>2, <1>3
<1>5. ASSUME NEW p \in Obj
      PROVE  /\ Noted(n)[p].pc = task[p].pc /\ Noted(n)[p].dest = task[p].dest
             /\ Noted(n)[p].read = task[p].read
             /\ Noted(n)[p].orphans = task[p].orphans
             /\ Noted(n)[p].changed = IF n \in Seen(task[p])
                                        THEN task[p].changed \cup {n} ELSE task[p].changed
  BY <1>1, <1>3 DEF Task
<1> QED
  BY Zenon, <1>4, <1>5

\* A change of a Secret is noted by every other call that has seen it.
LEMMA OthersKnow ==
  ASSUME SyncInv, NEW n \in Name, NEW s \in Secret \cup {None}, NEW p \in Obj,
         secret' = [secret EXCEPT ![n] = s], task'[p] = Noted(n)[p]
  PROVE  Knows(p)'
<1>1. /\ task'[p].pc = task[p].pc /\ task'[p].dest = task[p].dest /\ task'[p].read = task[p].read
      /\ task'[p].orphans = task[p].orphans
      /\ task'[p].changed = IF n \in Seen(task[p]) THEN task[p].changed \cup {n}
                                                   ELSE task[p].changed
  BY ZenonT(40), NotedType DEF SyncInv
<1>2. task[p] \in Task /\ secret \in [Name -> Secret \cup {None}]
  BY Zenon DEF SyncInv, TypeOK
<1>3. /\ task[p].dest.name \in Name /\ task[p].orphans \subseteq Name
      /\ \A m \in Name : m # n => secret'[m] = secret[m]
  BY Zenon, <1>2 DEF Task, Destination
<1>4. Knows(p)
  BY Zenon DEF SyncInv
<1>5. CASE task[p].pc = "write"
  BY <1>1, <1>3, <1>4, <1>5 DEF Knows, Seen
<1>6. CASE task[p].pc = "delete"
  BY <1>1, <1>3, <1>4, <1>6 DEF Knows, Seen
<1>7. CASE task[p].pc = "prune"
  BY <1>1, <1>3, <1>4, <1>7 DEF Knows, Seen
<1>8. CASE task[p].pc \notin {"write", "delete", "prune"}
  BY Zenon, <1>1, <1>8 DEF Knows
<1> QED
  BY Zenon, <1>5, <1>6, <1>7, <1>8

\* A call of o that changes a Secret keeps the invariant.
LEMMA PutByKeeps ==
  ASSUME SyncInv, NEW o \in Obj, NEW n \in Name, NEW s \in Secret \cup {None}, NEW t \in Task,
         PutBy(o, n, s, t), s # None => s.labels \in {None, s.refs},
         \/ t.pc \in {"list", "create"}
         \/ t.pc = "delete" /\ t.dest.name = n /\ s # None /\ s.refs = o
         \/ /\ t.pc = "prune" /\ task[o].pc = "prune"
            /\ t.orphans = task[o].orphans \ {n} /\ t.changed = task[o].changed \ {n},
         spec' = spec, alive' = alive, due' \in SUBSET Obj, changes' = changes, faults' = faults
  PROVE  SyncInv'
<1>1. /\ secret' = [secret EXCEPT ![n] = s] /\ task' = [Noted(n) EXCEPT ![o] = t]
      /\ Noted(n) \in [Obj -> Task]
  BY Zenon, NotedType DEF PutBy, SyncInv
<1>2. TypeOK'
  BY Zenon, <1>1 DEF SyncInv, TypeOK
<1>3. secret \in [Name -> Secret \cup {None}] /\ task[o] \in Task
  BY Zenon DEF SyncInv, TypeOK
<1>4. LabelsOwn'
  BY Zenon, <1>1, <1>3 DEF SyncInv, LabelsOwn
<1>5. ASSUME NEW p \in Obj, p # o PROVE Knows(p)'
  <2>1. task'[p] = Noted(n)[p]
    BY Zenon, <1>1, <1>5
  <2> QED
    BY Zenon, <1>1, <2>1, OthersKnow
<1>6. Knows(o)'
  <2>1. task'[o] = t
    BY Zenon, <1>1
  <2>2. Knows(o) /\ secret'[n] = s /\ task[o].orphans \subseteq Name
        /\ \A m \in Name : m # n => secret'[m] = secret[m]
    BY Zenon, <1>1, <1>3 DEF SyncInv, Task
  <2>3. CASE t.pc \in {"list", "create"}
    BY Zenon, <2>1, <2>3 DEF Knows
  <2>4. CASE t.pc = "delete" /\ t.dest.name = n /\ s # None /\ s.refs = o
    BY Zenon, <2>1, <2>2, <2>4 DEF Knows
  <2>5. CASE /\ t.pc = "prune" /\ task[o].pc = "prune"
             /\ t.orphans = task[o].orphans \ {n} /\ t.changed = task[o].changed \ {n}
    BY <2>1, <2>2, <2>5 DEF Knows
  <2> QED
    BY Zenon, <2>3, <2>4, <2>5
<1> QED
  BY Zenon, <1>2, <1>4, <1>5, <1>6 DEF SyncInv

\* So does a change by someone else.
LEMMA PutKeeps ==
  ASSUME SyncInv, NEW n \in Name, NEW s \in Secret \cup {None}, Put(n, s),
         s # None => s.labels \in {None, s.refs},
         spec' = spec, alive' = alive, due' \in SUBSET Obj, changes' = changes,
         faults' \in 0..MaxFaults
  PROVE  SyncInv'
<1>1. /\ secret' = [secret EXCEPT ![n] = s] /\ task' = Noted(n)
      /\ Noted(n) \in [Obj -> Task]
  BY Zenon, NotedType DEF Put, SyncInv
<1>2. TypeOK'
  BY Zenon, <1>1 DEF SyncInv, TypeOK
<1>3. secret \in [Name -> Secret \cup {None}]
  BY Zenon DEF SyncInv, TypeOK
<1>4. LabelsOwn'
  BY Zenon, <1>1, <1>3 DEF SyncInv, LabelsOwn
<1>5. ASSUME NEW p \in Obj PROVE Knows(p)'
  <2>1. task'[p] = Noted(n)[p]
    BY Zenon, <1>1
  <2> QED
    BY Zenon, <1>1, <2>1, OthersKnow
<1> QED
  BY Zenon, <1>2, <1>4, <1>5 DEF SyncInv

\* And a step of o that changes no Secret.
LEMMA LocalKeeps ==
  ASSUME SyncInv, NEW o \in Obj, NEW t \in Task, task' = [task EXCEPT ![o] = t], secret' = secret,
         \/ t.pc \in {"idle", "list", "create"}
         \/ /\ t.pc = "write" /\ ~Refused(o, t.dest, t.read)
            /\ secret[t.dest.name] = t.read
         \/ t.pc = "prune" /\ \A n \in t.orphans \ t.changed : secret[n] # None => secret[n].refs = o,
         spec' = spec, alive' = alive, due' \in SUBSET Obj, changes' = changes,
         faults' \in 0..MaxFaults
  PROVE  SyncInv'
<1>1. TypeOK' /\ LabelsOwn'
  BY Zenon DEF SyncInv, TypeOK, LabelsOwn
<1>2. ASSUME NEW p \in Obj, p # o PROVE Knows(p)'
  <2>1. task'[p] = task[p] /\ Knows(p)
    BY Zenon, <1>2 DEF SyncInv, TypeOK
  <2> QED
    BY Zenon, <2>1 DEF Knows
<1>3. Knows(o)'
  <2>1. task'[o] = t
    BY Zenon DEF SyncInv, TypeOK
  <2> QED
    BY Zenon, <2>1 DEF Knows
<1> QED
  BY Zenon, <1>1, <1>2, <1>3 DEF SyncInv

\* One lemma per action of a call ...
LEMMA SyncSecretKeeps == ASSUME SyncInv, NEW o \in Obj, SyncSecret(o) PROVE SyncInv'
<1>1. CASE Refused(o, spec[o], secret[spec[o].name])
  <2>1. UNCHANGED vars
    BY Zenon, <1>1 DEF SyncSecret, vars
  <2> QED
    BY Zenon, <2>1 DEF SyncInv, TypeOK, LabelsOwn, Knows, vars
<1>2. CASE ~Refused(o, spec[o], secret[spec[o].name])
  <2>1. spec[o] \in Destination /\ secret[spec[o].name] \in Secret \cup {None}
    BY Zenon DEF SyncInv, TypeOK, Destination
  <2>2. Idle(o) \in Task
    BY Zenon, IdleType
  <2>3. PICK t \in Task : /\ t.pc = "write" /\ t.dest = spec[o] /\ t.read = secret[spec[o].name]
                          /\ t = [Idle(o) EXCEPT !.pc = "write", !.dest = spec[o],
                                                 !.read = secret[spec[o].name]]
    BY Zenon, <2>1, <2>2 DEF Task
  <2>4. task' = [task EXCEPT ![o] = t]
    BY Zenon, <1>2, <2>3 DEF SyncSecret
  <2>5. /\ secret' = secret /\ spec' = spec /\ alive' = alive /\ due' \in SUBSET Obj
        /\ changes' = changes /\ faults' \in 0..MaxFaults
    BY Zenon, <1>2 DEF SyncSecret, SyncInv, TypeOK
  <2> QED
    BY Zenon, <1>2, <2>3, <2>4, <2>5, LocalKeeps
<1> QED
  BY Zenon, <1>1, <1>2

LEMMA WriteKeeps ==
  ASSUME SyncInv, NEW o \in Obj, UpdateData(o) \/ Update(o) \/ Unlabel(o)
  PROVE  /\ SyncInv'
         /\ \E s \in Secret : /\ secret' = [secret EXCEPT ![task[o].dest.name] = s]
                              /\ s.data = o
                              /\ IF task[o].dest.create
                                   THEN s.refs = o /\ s.labels \in {o, None}
                                   ELSE /\ s.refs = secret[task[o].dest.name].refs
                                        /\ s.labels = secret[task[o].dest.name].labels
         /\ task[o].dest.create => ~Refused(o, task[o].dest, secret[task[o].dest.name])
         /\ secret[task[o].dest.name] # None
<1>1. /\ task[o] \in Task /\ task[o].dest \in Destination /\ task[o].dest.name \in Name
      /\ task[o].dest.type \in Type /\ task[o].pc = "write"
      /\ task[o].dest.name \notin task[o].changed
  BY Zenon DEF UpdateData, Update, Unlabel, At, Current, SyncInv, TypeOK, Task, Destination
<1>2. /\ secret[task[o].dest.name] = task[o].read
      /\ ~Refused(o, task[o].dest, task[o].read)
      /\ task[o].read \in Secret \cup {None} /\ task[o].read # None
  BY Zenon, <1>1 DEF UpdateData, Update, Unlabel, SyncInv, Knows, Task, Refused
<1>3. PICK n \in Name : n = task[o].dest.name
  BY Zenon, <1>1
<1>4. task[o].read.labels \in {None, task[o].read.refs}
  BY Zenon, <1>1, <1>2 DEF SyncInv, LabelsOwn
<1>5. /\ [task[o] EXCEPT !.pc = "list"] \in Task /\ [task[o] EXCEPT !.pc = "delete"] \in Task
      /\ [task[o] EXCEPT !.pc = "list"].pc = "list"
      /\ [task[o] EXCEPT !.pc = "delete"].pc = "delete"
      /\ [task[o] EXCEPT !.pc = "delete"].dest = task[o].dest
  BY Zenon, <1>1 DEF Task
<1>6. /\ spec' = spec /\ alive' = alive /\ due' \in SUBSET Obj /\ changes' = changes
      /\ faults' = faults
  BY Zenon DEF UpdateData, Update, Unlabel, SyncInv, TypeOK
<1>7. CASE UpdateData(o)
  <2>1. PICK s \in Secret : /\ s = [task[o].read EXCEPT !.data = o]
                            /\ s.refs = task[o].read.refs /\ s.labels = task[o].read.labels
                            /\ s.data = o
    <3>1. task[o].read \in Secret
      BY Zenon, <1>2
    <3>2. /\ [task[o].read EXCEPT !.data = o] \in Secret
          /\ [task[o].read EXCEPT !.data = o].refs = task[o].read.refs
          /\ [task[o].read EXCEPT !.data = o].labels = task[o].read.labels
          /\ [task[o].read EXCEPT !.data = o].data = o
      BY Zenon, <3>1 DEF Secret
    <3> QED
      BY Zenon, <3>2
  <2>2. PICK t \in Task : t = [task[o] EXCEPT !.pc = "list"] /\ t.pc = "list"
    BY Zenon, <1>5
  <2>3. PutBy(o, n, s, t)
    BY Zenon, <1>3, <1>7, <2>1, <2>2 DEF UpdateData, Goto
  <2>4. SyncInv'
    BY Zenon, <1>4, <1>6, <2>1, <2>2, <2>3, PutByKeeps
  <2>5. secret' = [secret EXCEPT ![task[o].dest.name] = s] /\ ~task[o].dest.create
    BY Zenon, <1>3, <1>7, <2>3 DEF PutBy, UpdateData
  <2> QED
    BY Zenon, <1>2, <2>1, <2>4, <2>5
<1>8. CASE Update(o)
  <2>1. PICK s \in Secret : s = Owned(o, task[o].dest.type) /\ s.refs = o /\ s.labels = o
                            /\ s.data = o
    <3>1. /\ Owned(o, task[o].dest.type) \in Secret
          /\ Owned(o, task[o].dest.type).refs = o /\ Owned(o, task[o].dest.type).labels = o
          /\ Owned(o, task[o].dest.type).data = o
      BY Zenon, <1>1 DEF Secret, Owned
    <3> QED
      BY Zenon, <3>1
  <2>2. PICK t \in Task : t = [task[o] EXCEPT !.pc = "list"] /\ t.pc = "list"
    BY ZenonT(40), <1>5
  <2>3. PutBy(o, n, s, t)
    BY Zenon, <1>3, <1>8, <2>1, <2>2 DEF Update, Goto
  <2>4. SyncInv'
    BY Zenon, <1>6, <2>1, <2>2, <2>3, PutByKeeps
  <2>5. secret' = [secret EXCEPT ![task[o].dest.name] = s] /\ task[o].dest.create
    BY Zenon, <1>3, <1>8, <2>3 DEF PutBy, Update
  <2> QED
    BY Zenon, <1>2, <2>1, <2>4, <2>5
<1>9. CASE Unlabel(o)
  <2>1. PICK s \in Secret : /\ s = [Owned(o, task[o].read.type) EXCEPT !.labels = None]
                            /\ s.refs = o /\ s.labels = None /\ s.data = o
    <3>1. task[o].read.type \in Type
      BY Zenon, <1>2 DEF Secret
    <3> DEFINE u == [Owned(o, task[o].read.type) EXCEPT !.labels = None]
    <3>2. u \in Secret /\ u.refs = o /\ u.labels = None /\ u.data = o
      BY Zenon, <3>1 DEF Secret, Owned
    <3> QED
      BY Zenon, <3>2
  <2>2. PICK t \in Task : /\ t = [task[o] EXCEPT !.pc = "delete"] /\ t.pc = "delete"
                          /\ t.dest = task[o].dest
    BY Zenon, <1>5
  <2>3. PutBy(o, n, s, t)
    BY Zenon, <1>3, <1>9, <2>1, <2>2 DEF Unlabel, Goto
  <2>4. s # None
    BY Zenon, <2>1, SyncAssumption
  <2>5. SyncInv'
    BY Zenon, <1>3, <1>6, <2>1, <2>2, <2>3, <2>4, PutByKeeps
  <2>6. secret' = [secret EXCEPT ![task[o].dest.name] = s] /\ task[o].dest.create
    BY Zenon, <1>3, <1>9, <2>3 DEF PutBy, Unlabel
  <2> QED
    BY Zenon, <1>2, <2>1, <2>5, <2>6
<1> QED
  BY Zenon, <1>7, <1>8, <1>9

LEMMA DeleteOldKeeps == ASSUME SyncInv, NEW o \in Obj, DeleteOld(o) PROVE SyncInv'
<1>1. task[o] \in Task /\ task[o].dest.name \in Name
  BY Zenon DEF SyncInv, TypeOK, Task, Destination
<1>2. PICK n \in Name : n = task[o].dest.name
  BY Zenon, <1>1
<1>3. PICK t \in Task : t = Goto(o, "create") /\ t.pc = "create"
  <2>1. Goto(o, "create") \in Task /\ Goto(o, "create").pc = "create"
    BY Zenon, <1>1 DEF Goto, Task
  <2> QED
    BY Zenon, <2>1
<1>4. PutBy(o, n, None, t)
  BY Zenon, <1>2, <1>3 DEF DeleteOld
<1>5. due' \in SUBSET Obj
  <2>1. secret[n] \in Secret /\ secret[n].labels \in {None, secret[n].refs}
    BY Zenon, <1>2 DEF DeleteOld, SyncInv, TypeOK, LabelsOwn
  <2>2. HasOwnerLabels(secret[n]) => secret[n].refs \in Obj
    BY Zenon, <2>1, SyncAssumption DEF HasOwnerLabels, Secret
  <2> QED
    BY Zenon, <1>2, <2>2 DEF DeleteOld, Report, SyncInv, TypeOK
<1>6. spec' = spec /\ alive' = alive /\ changes' = changes /\ faults' = faults
  BY Zenon DEF DeleteOld
<1> QED
  BY Zenon, <1>3, <1>4, <1>5, <1>6, PutByKeeps

LEMMA CreateKeeps == ASSUME SyncInv, NEW o \in Obj, Create(o) PROVE SyncInv'
<1>1. task[o] \in Task /\ task[o].dest.name \in Name /\ task[o].dest.type \in Type
  BY Zenon DEF SyncInv, TypeOK, Task, Destination
<1>2. PICK n \in Name : n = task[o].dest.name
  BY Zenon, <1>1
<1>3. PICK t \in Task : t = Goto(o, "list") /\ t.pc = "list"
  <2>1. Goto(o, "list") \in Task /\ Goto(o, "list").pc = "list"
    BY Zenon, <1>1 DEF Goto, Task
  <2> QED
    BY Zenon, <2>1
<1>4. PICK s \in Secret : s = Owned(o, task[o].dest.type) /\ s.labels = s.refs
  <2>1. /\ Owned(o, task[o].dest.type) \in Secret
        /\ Owned(o, task[o].dest.type).labels = Owned(o, task[o].dest.type).refs
    BY Zenon, <1>1 DEF Secret, Owned
  <2> QED
    BY Zenon, <2>1
<1>5. PutBy(o, n, s, t)
  BY Zenon, <1>2, <1>3, <1>4 DEF Create
<1>6. /\ spec' = spec /\ alive' = alive /\ due' \in SUBSET Obj /\ changes' = changes
      /\ faults' = faults
  BY Zenon DEF Create, SyncInv, TypeOK
<1> QED
  BY Zenon, <1>3, <1>4, <1>5, <1>6, PutByKeeps

LEMMA EndKeeps ==
  ASSUME SyncInv, NEW o \in Obj, Conflict(o) \/ Synced(o)
  PROVE  SyncInv'
<1>1. PICK t \in Task : t = Idle(o) /\ t.pc = "idle"
  BY Zenon, IdleType
<1>2. /\ task' = [task EXCEPT ![o] = t] /\ secret' = secret /\ spec' = spec /\ alive' = alive
      /\ changes' = changes
  BY Zenon, <1>1 DEF Conflict, Synced, Failed
<1>3. due' \in SUBSET Obj /\ faults' \in 0..MaxFaults
  BY Zenon DEF Conflict, Synced, Failed, SyncInv, TypeOK
<1> QED
  BY Zenon, <1>1, <1>2, <1>3, LocalKeeps

LEMMA ListKeeps == ASSUME SyncInv, NEW o \in Obj, pruneOrphanSecrets(o) PROVE SyncInv'
<1>1. task[o] \in Task
  BY Zenon DEF SyncInv, TypeOK
<1> DEFINE F == FindSecretsOwnedByObj(o) \ {task[o].dest.name}
           u == [task[o] EXCEPT !.pc = "prune", !.changed = {}, !.orphans = F]
<1>2. F \subseteq Name /\ \A n \in F : secret[n].refs = o
  BY Zenon DEF FindSecretsOwnedByObj, checkSecretIsOwnedByObj
<1>3. task' = [task EXCEPT ![o] = u]
  BY Zenon DEF pruneOrphanSecrets
<1> HIDE DEF F
<1>4. u \in Task /\ u.pc = "prune" /\ u.orphans = F
  BY Zenon, <1>1, <1>2 DEF Task
<1>5. PICK t \in Task : t = u /\ t.pc = "prune" /\ t.orphans = F
  BY Zenon, <1>4
<1>6. /\ secret' = secret /\ spec' = spec /\ alive' = alive /\ changes' = changes
      /\ due' \in SUBSET Obj /\ faults' \in 0..MaxFaults
  BY Zenon DEF pruneOrphanSecrets, SyncInv, TypeOK
<1>7. task' = [task EXCEPT ![o] = t]
  BY Zenon, <1>3, <1>5
<1> HIDE DEF u
<1> QED
  BY Zenon, <1>2, <1>5, <1>6, <1>7, LocalKeeps

LEMMA WithoutType ==
  ASSUME SyncInv, NEW o \in Obj, NEW n \in Name, task[o].pc = "prune"
  PROVE  \E t \in Task : /\ t = Without(o, n) /\ t.pc = "prune"
                         /\ t.orphans = task[o].orphans \ {n}
                         /\ t.changed = task[o].changed \ {n}
<1>1. task[o] \in Task
  BY Zenon DEF SyncInv, TypeOK
<1>2. /\ Without(o, n) \in Task /\ Without(o, n).pc = "prune"
      /\ Without(o, n).orphans = task[o].orphans \ {n}
      /\ Without(o, n).changed = task[o].changed \ {n}
  BY Zenon, <1>1 DEF Without, Task
<1> QED
  BY Zenon, <1>2

LEMMA PruneOneKeeps == ASSUME SyncInv, NEW o \in Obj, NEW n \in Name, PruneOne(o, n) PROVE SyncInv'
<1>1. PICK t \in Task : /\ t = Without(o, n) /\ t.pc = "prune"
                        /\ t.orphans = task[o].orphans \ {n}
                        /\ t.changed = task[o].changed \ {n}
  BY Zenon, WithoutType DEF PruneOne, At
<1>2. spec' = spec /\ alive' = alive /\ changes' = changes /\ faults' = faults
      /\ faults' \in 0..MaxFaults /\ task[o].pc = "prune"
  BY Zenon DEF PruneOne, At, SyncInv, TypeOK
<1>3. CASE secret[n] # None
  <2>1. secret[n] \in Secret /\ secret[n].labels \in {None, secret[n].refs}
    BY Zenon, <1>3 DEF SyncInv, TypeOK, LabelsOwn
  <2>2. HasOwnerLabels(secret[n]) => secret[n].refs \in Obj
    BY Zenon, <2>1, SyncAssumption DEF HasOwnerLabels, Secret
  <2>3. PutBy(o, n, None, t) /\ Report(n)
    BY Zenon, <1>1, <1>3 DEF PruneOne
  <2>4. due' \in SUBSET Obj
    BY Zenon, <2>2, <2>3 DEF Report, SyncInv, TypeOK
  <2> QED
    BY Zenon, <1>1, <1>2, <2>3, <2>4, PutByKeeps
<1>4. CASE secret[n] = None
  <2>1. task' = [task EXCEPT ![o] = t] /\ secret' = secret /\ due' \in SUBSET Obj
    BY Zenon, <1>1, <1>4 DEF PruneOne, SyncInv, TypeOK
  <2>2. \A m \in t.orphans \ t.changed : secret[m] # None => secret[m].refs = o
    BY Zenon, <1>1, <1>2, <1>4 DEF SyncInv, Knows
  <2> QED
    BY Zenon, <1>1, <1>2, <2>1, <2>2, LocalKeeps
<1> QED
  BY Zenon, <1>3, <1>4

LEMMA ApiErrorKeeps == ASSUME SyncInv, NEW o \in Obj, ApiError(o) PROVE SyncInv'
<1>1. /\ secret' = secret /\ spec' = spec /\ alive' = alive /\ changes' = changes
      /\ faults' \in 0..MaxFaults /\ task[o] \in Task
  BY SyncAssumption DEF ApiError, Fault, SyncInv, TypeOK
<1>2. CASE Failed(o)
  <2>1. PICK t \in Task : t = Idle(o) /\ t.pc = "idle"
    BY Zenon, IdleType
  <2>2. task' = [task EXCEPT ![o] = t] /\ due' \in SUBSET Obj
    BY Zenon, <1>2, <2>1 DEF Failed, SyncInv, TypeOK
  <2> QED
    BY Zenon, <1>1, <2>1, <2>2, LocalKeeps
<1>3. CASE /\ At(o, "list") /\ UNCHANGED due
           /\ task' = [task EXCEPT ![o] = [@ EXCEPT !.pc = "prune", !.orphans = {}]]
  <2> DEFINE u == [task[o] EXCEPT !.pc = "prune", !.orphans = {}]
  <2>1. u \in Task /\ u.pc = "prune" /\ u.orphans = {}
    BY Zenon, <1>1 DEF Task
  <2>2. PICK t \in Task : t = u /\ t.pc = "prune" /\ t.orphans = {}
    BY Zenon, <2>1
  <2>3. task' = [task EXCEPT ![o] = t] /\ due' \in SUBSET Obj
    BY Zenon, <1>3, <2>2 DEF SyncInv, TypeOK
  <2> QED
    BY Zenon, <1>1, <2>2, <2>3, LocalKeeps
<1>4. CASE /\ At(o, "prune") /\ UNCHANGED due
           /\ \E n \in task[o].orphans : task' = [task EXCEPT ![o] = Without(o, n)]
  <2>1. PICK n \in task[o].orphans : task' = [task EXCEPT ![o] = Without(o, n)]
    BY Zenon, <1>4
  <2>2. n \in Name
    BY Zenon, <1>1 DEF Task
  <2>3. PICK t \in Task : /\ t = Without(o, n) /\ t.pc = "prune"
                          /\ t.orphans = task[o].orphans \ {n}
                          /\ t.changed = task[o].changed \ {n}
    BY Zenon, <1>4, <2>2, WithoutType DEF At
  <2>4. \A m \in t.orphans \ t.changed : secret[m] # None => secret[m].refs = o
    BY Zenon, <1>4, <2>3 DEF SyncInv, Knows, At
  <2>5. task' = [task EXCEPT ![o] = t] /\ due' \in SUBSET Obj
    BY Zenon, <1>4, <2>1, <2>3 DEF SyncInv, TypeOK
  <2> QED
    BY Zenon, <1>1, <2>3, <2>4, <2>5, LocalKeeps
<1> QED
  BY Zenon, <1>2, <1>3, <1>4 DEF ApiError

\* What the API server, the user and the manager do.
LEMMA ChangeKeeps ==
  ASSUME SyncInv, NEW o \in Obj,
         (\E d \in Specs[o] : SpecChanged(o, d)) \/ Refresh(o) \/ ObjDeleted(o)
  PROVE  SyncInv'
<1>1. Specs[o] \subseteq Destination
  BY Zenon, SyncAssumption
<1>2. task' = task /\ secret' = secret
  BY Zenon DEF SpecChanged, Refresh, ObjDeleted
<1>3. TypeOK'
  BY <1>1, <1>2, SyncAssumption DEF SpecChanged, Refresh, ObjDeleted, Fault, SyncInv, TypeOK
<1>4. LabelsOwn' /\ \A p \in Obj : Knows(p)'
  BY Zenon, <1>2 DEF SyncInv, LabelsOwn, Knows
<1> QED
  BY Zenon, <1>3, <1>4 DEF SyncInv

LEMMA CrashKeeps == ASSUME SyncInv, Crash PROVE SyncInv'
<1>1. task' = [o \in Obj |-> Idle(o)] /\ secret' = secret
  BY Zenon DEF Crash
<1>2. task' \in [Obj -> Task] /\ \A o \in Obj : task'[o].pc = "idle"
  BY Zenon, <1>1, IdleType
<1>3. TypeOK'
  BY <1>1, <1>2, SyncAssumption DEF Crash, Fault, SyncInv, TypeOK
<1>4. LabelsOwn' /\ \A p \in Obj : Knows(p)'
  BY Zenon, <1>1, <1>2 DEF SyncInv, LabelsOwn, Knows
<1> QED
  BY Zenon, <1>3, <1>4 DEF SyncInv

LEMMA OutsideKeeps ==
  ASSUME SyncInv, NEW n \in Name,
         GarbageCollected(n) \/ UserDeletes(n) \/ \E t \in Type : UserCreates(n, t)
  PROVE  SyncInv'
<1>1. PICK s \in Secret \cup {None} : Put(n, s) /\ (s # None => s.labels \in {None, s.refs})
  <2>1. CASE GarbageCollected(n) \/ UserDeletes(n)
    BY Zenon, <2>1 DEF GarbageCollected, UserDeletes
  <2>2. CASE \E t \in Type : UserCreates(n, t)
    <3>1. PICK t \in Type : UserCreates(n, t)
      BY Zenon, <2>2
    <3>2. UserSecret(t) \in Secret /\ UserSecret(t).labels = None
      BY Zenon, SyncAssumption DEF UserSecret, Secret
    <3> QED
      BY Zenon, <3>1, <3>2 DEF UserCreates
  <2> QED
    BY Zenon, <2>1, <2>2
<1>2. /\ spec' = spec /\ alive' = alive /\ changes' = changes /\ faults' \in 0..MaxFaults
  BY SyncAssumption DEF GarbageCollected, UserDeletes, UserCreates, Fault, SyncInv, TypeOK
<1>3. due' \in SUBSET Obj
  <2>1. CASE UserDeletes(n)
    <3>1. secret[n] \in Secret /\ secret[n].labels \in {None, secret[n].refs}
      BY Zenon, <2>1 DEF UserDeletes, SyncInv, TypeOK, LabelsOwn
    <3>2. HasOwnerLabels(secret[n]) => secret[n].refs \in Obj
      BY Zenon, <3>1, SyncAssumption DEF HasOwnerLabels, Secret
    <3> QED
      BY Zenon, <2>1, <3>2 DEF UserDeletes, Report, SyncInv, TypeOK
  <2>2. CASE ~UserDeletes(n)
    BY Zenon, <2>2 DEF GarbageCollected, UserCreates, SyncInv, TypeOK
  <2> QED
    BY Zenon, <2>1, <2>2
<1> QED
  BY Zenon, <1>1, <1>2, <1>3, PutKeeps

LEMMA InitSync == Init => SyncInv
<1> SUFFICES ASSUME Init PROVE SyncInv
  BY Zenon
<1>1. task \in [Obj -> Task] /\ \A o \in Obj : task[o].pc = "idle"
  BY Zenon, IdleType DEF Init
<1>2. secret = [n \in Name |-> None] /\ spec \in [Obj -> Destination]
  BY Zenon DEF Init
<1>3. TypeOK
  BY <1>1, <1>2, SyncAssumption DEF Init, TypeOK
<1>4. LabelsOwn /\ \A o \in Obj : Knows(o)
  BY Zenon, <1>1, <1>2 DEF LabelsOwn, Knows
<1> QED
  BY Zenon, <1>3, <1>4 DEF SyncInv

LEMMA NextSync == SyncInv /\ [Next]_vars => SyncInv'
<1> SUFFICES ASSUME SyncInv, [Next]_vars PROVE SyncInv'
  BY Zenon
<1>1. ASSUME NEW o \in Obj, SyncSecret(o) PROVE SyncInv'
  BY Zenon, <1>1, SyncSecretKeeps
<1>2. ASSUME NEW o \in Obj, Step(o) PROVE SyncInv'
  BY Zenon, <1>2, WriteKeeps, DeleteOldKeeps, CreateKeeps, EndKeeps, ListKeeps, PruneOneKeeps
     DEF Step
<1>3. ASSUME NEW o \in Obj, ApiError(o) PROVE SyncInv'
  BY Zenon, <1>3, ApiErrorKeeps
<1>4. ASSUME NEW o \in Obj,
             (\E d \in Specs[o] : SpecChanged(o, d)) \/ Refresh(o) \/ ObjDeleted(o)
      PROVE  SyncInv'
  BY Zenon, <1>4, ChangeKeeps
<1>5. ASSUME NEW n \in Name,
             GarbageCollected(n) \/ UserDeletes(n) \/ \E t \in Type : UserCreates(n, t)
      PROVE  SyncInv'
  BY Zenon, <1>5, OutsideKeeps
<1>6. CASE Crash
  BY Zenon, <1>6, CrashKeeps
<1>7. CASE UNCHANGED vars
  BY Zenon, <1>7 DEF SyncInv, TypeOK, LabelsOwn, Knows, vars
<1> QED
  BY Zenon, <1>1, <1>2, <1>3, <1>4, <1>5, <1>6, <1>7 DEF Next

\* Every variable keeps its type.
THEOREM TypeCorrect == Spec => []TypeOK
<1>1. SyncInv => TypeOK
  BY Zenon DEF SyncInv
<1> QED
  BY <1>1, InitSync, NextSync, PTL DEF Spec

\* Only the three writes of an existing Secret replace one Secret by another.
LEMMA ReplacedByWrite ==
  ASSUME SyncInv, Next, NEW n \in Name, secret[n] # None, secret'[n] \notin {None, secret[n]}
  PROVE  \E o \in Obj : UpdateData(o) \/ Update(o) \/ Unlabel(o)
<1>1. secret \in [Name -> Secret \cup {None}] /\ secret' # secret
  BY Zenon DEF SyncInv, TypeOK
<1>2. ASSUME NEW o \in Obj, SyncSecret(o) \/ ApiError(o) \/ Refresh(o) \/ ObjDeleted(o) PROVE FALSE
  BY Zenon, <1>1, <1>2 DEF SyncSecret, ApiError, Refresh, ObjDeleted
<1>3. ASSUME NEW o \in Obj, NEW d \in Specs[o], SpecChanged(o, d) PROVE FALSE
  BY Zenon, <1>1, <1>3 DEF SpecChanged
<1>4. ASSUME NEW m \in Name,
             GarbageCollected(m) \/ UserDeletes(m) \/ \E t \in Type : UserCreates(m, t)
      PROVE  FALSE
  BY Zenon, <1>1, <1>4 DEF GarbageCollected, UserDeletes, UserCreates, Put
<1>5. ASSUME NEW o \in Obj, DeleteOld(o) \/ Create(o) PROVE FALSE
  <2>1. task[o].dest.name \in Name
    BY Zenon DEF SyncInv, TypeOK, Task, Destination
  <2> QED
    BY Zenon, <1>1, <1>5, <2>1 DEF DeleteOld, Create, PutBy
<1>6. ASSUME NEW o \in Obj, NEW m \in Name, PruneOne(o, m) PROVE FALSE
  BY Zenon, <1>1, <1>6 DEF PruneOne, PutBy
<1>7. ASSUME NEW o \in Obj, Conflict(o) \/ pruneOrphanSecrets(o) \/ Synced(o) PROVE FALSE
  BY Zenon, <1>1, <1>7 DEF Conflict, pruneOrphanSecrets, Synced
<1>8. ~Crash
  BY Zenon, <1>1 DEF Crash
<1> QED
  BY Zenon, <1>2, <1>3, <1>4, <1>5, <1>6, <1>7, <1>8 DEF Next, Step

\* A Secret with an object's owner labels is not taken over by another one: SyncSecret's check of
\* the ownership still holds when its Update is accepted.
THEOREM OwnerIsKept == Spec => OwnerKept
<1> DEFINE A == \A n \in Name, p \in Obj :
                  secret[n] # None /\ secret[n].labels = p /\ secret'[n] \notin {None, secret[n]}
                    => /\ secret'[n].refs = p
                       /\ secret'[n].data # p => ~task[secret'[n].data].dest.create
<1>1. SyncInv /\ [Next]_vars => [A]_vars
  <2> SUFFICES ASSUME SyncInv, Next, NEW n \in Name, NEW p \in Obj, secret[n] # None,
                      secret[n].labels = p, secret'[n] \notin {None, secret[n]}
               PROVE  /\ secret'[n].refs = p
                      /\ secret'[n].data # p => ~task[secret'[n].data].dest.create
    BY Zenon
  <2>1. PICK o \in Obj : UpdateData(o) \/ Update(o) \/ Unlabel(o)
    BY Zenon, ReplacedByWrite
  <2>2. PICK s \in Secret : /\ secret' = [secret EXCEPT ![task[o].dest.name] = s]
                            /\ s.data = o
                            /\ IF task[o].dest.create THEN s.refs = o
                               ELSE s.refs = secret[task[o].dest.name].refs
    BY <2>1, WriteKeeps
  <2>3. task[o].dest.create => ~Refused(o, task[o].dest, secret[task[o].dest.name])
    BY Zenon, <2>1, WriteKeeps
  <2>4. secret \in [Name -> Secret \cup {None}]
    BY Zenon DEF SyncInv, TypeOK
  <2>5. n = task[o].dest.name /\ secret'[n] = s
    BY Zenon, <2>2, <2>4
  <2>6. secret[n].refs = p /\ HasOwnerLabels(secret[n])
    BY Zenon, SyncAssumption DEF SyncInv, LabelsOwn, HasOwnerLabels
  <2>7. CASE task[o].dest.create
    <3>1. secret[n].refs = o
      BY Zenon, <2>3, <2>5, <2>6, <2>7 DEF Refused, checkSecretIsOwnedByObj
    <3> QED
      BY Zenon, <2>2, <2>5, <2>6, <2>7, <3>1
  <2>8. CASE ~task[o].dest.create
    BY Zenon, <2>2, <2>5, <2>6, <2>8
  <2> QED
    BY Zenon, <2>7, <2>8
<1> QED
  BY <1>1, InitSync, NextSync, PTL DEF Spec, OwnerKept

\* What a call deletes is its object's own, or was changed after the call had checked it.
THEOREM OnlyOwnIsDeleted == Spec => DeletesOwn
<1> DEFINE A == \A n \in Name, o \in Obj :
                  Deletes(o, n) => secret[n].refs = o \/ n \in task[o].changed
<1>1. SyncInv /\ [Next]_vars => [A]_vars
  BY DEF SyncInv, Knows, Deletes, At
<1> QED
  BY <1>1, InitSync, NextSync, PTL DEF Spec, DeletesOwn

\* One Secret of each step that changes any.
LEMMA OwnerStep ==
  ASSUME SyncInv, NEW n \in Name, NEW s \in Secret \cup {None},
         secret' = [secret EXCEPT ![n] = s],
         \/ s = None
         \/ secret[n] = None
         \/ s # None /\ secret[n] # None /\ s.labels = secret[n].labels
         \/ /\ s # None /\ secret[n] # None
            /\ \E o \in Obj : s.labels \in {o, None} /\ secret[n].labels \in {o, None}
  PROVE  [Ownership!Next]_owner
<1>1. secret \in [Name -> Secret \cup {None}] /\ secret' \in [Name -> Secret \cup {None}]
  BY Zenon DEF SyncInv, TypeOK
<1>2. \A x \in Secret : x.labels \in Obj \cup {None} /\ x # None
  BY Zenon, SyncAssumption DEF Secret
<1>3. owner' = [owner EXCEPT ![n] = owner'[n]]
  BY Zenon, <1>1 DEF owner, HasOwnerLabels
<1>4. \/ owner'[n] = owner[n]
      \/ Ownership!Claim(n) \/ Ownership!GiveUp(n) \/ Ownership!Delete(n) \/ Ownership!Provide(n)
  BY Zenon, <1>1, <1>2, SyncAssumption
     DEF owner, HasOwnerLabels, Ownership!Claim, Ownership!GiveUp, Ownership!Delete,
         Ownership!Provide
<1>5. owner \in [Name -> Obj \cup {"absent", "free"}]
  BY Zenon, <1>1, <1>2 DEF owner, HasOwnerLabels
<1>6. owner'[n] = owner[n] => owner' = owner
  BY Zenon, <1>3, <1>5
<1> QED
  BY Zenon, <1>3, <1>4, <1>6 DEF Ownership!Next

\* SyncSecret implements SecretOwnership: what the labels promise holds in every order of calls.
THEOREM ImplementsOwnership == Spec => OwnershipKept
<1>1. Init => Ownership!Init
  BY Zenon DEF Init, owner, Ownership!Init
<1>2. SyncInv /\ [Next]_vars => [Ownership!Next]_owner
  <2> SUFFICES ASSUME SyncInv, [Next]_vars PROVE [Ownership!Next]_owner
    BY Zenon
  <2>1. CASE secret' = secret
    BY Zenon, <2>1 DEF owner, HasOwnerLabels
  <2>2. ASSUME NEW o \in Obj, UpdateData(o) \/ Update(o) \/ Unlabel(o)
        PROVE  [Ownership!Next]_owner
    <3>1. PICK n \in Name : n = task[o].dest.name /\ secret[n] # None
      BY <2>2, WriteKeeps DEF SyncInv, TypeOK, Task, Destination
    <3>2. PICK s \in Secret : /\ secret' = [secret EXCEPT ![n] = s]
                              /\ IF task[o].dest.create
                                   THEN s.labels \in {o, None}
                                   ELSE s.labels = secret[n].labels
      BY <2>2, <3>1, WriteKeeps
    <3>3. task[o].dest.create => secret[n].labels \in {o, None}
      <4>1. task[o].dest.create => ~Refused(o, task[o].dest, secret[n])
        BY Zenon, <2>2, <3>1, WriteKeeps
      <4>2. secret[n].labels \in {None, secret[n].refs}
        BY Zenon, <3>1 DEF SyncInv, LabelsOwn
      <4> QED
        BY Zenon, <3>1, <4>1, <4>2 DEF Refused, checkSecretIsOwnedByObj, HasOwnerLabels
    <3>4. s # None
      BY Zenon, SyncAssumption
    <3> QED
      BY Zenon, <3>1, <3>2, <3>3, <3>4, OwnerStep
  <2>3. ASSUME NEW o \in Obj, DeleteOld(o) PROVE [Ownership!Next]_owner
    <3>1. task[o].dest.name \in Name
      BY Zenon DEF SyncInv, TypeOK, Task, Destination
    <3> QED
      BY Zenon, <2>3, <3>1, OwnerStep DEF DeleteOld, PutBy
  <2>4. ASSUME NEW o \in Obj, Create(o) PROVE [Ownership!Next]_owner
    <3>1. task[o].dest.name \in Name /\ task[o].dest.type \in Type
      BY Zenon DEF SyncInv, TypeOK, Task, Destination
    <3>2. Owned(o, task[o].dest.type) \in Secret
      BY Zenon, <3>1 DEF Owned, Secret
    <3> QED
      BY Zenon, <2>4, <3>1, <3>2, OwnerStep DEF Create, PutBy
  <2>5. ASSUME NEW o \in Obj, NEW n \in Name, PruneOne(o, n) PROVE [Ownership!Next]_owner
    BY Zenon, <2>1, <2>5, OwnerStep DEF PruneOne, PutBy
  <2>6. ASSUME NEW n \in Name, GarbageCollected(n) \/ UserDeletes(n)
        PROVE  [Ownership!Next]_owner
    BY Zenon, <2>6, OwnerStep DEF GarbageCollected, UserDeletes, Put
  <2>7. ASSUME NEW n \in Name, NEW t \in Type, UserCreates(n, t) PROVE [Ownership!Next]_owner
    <3>1. UserSecret(t) \in Secret
      BY Zenon DEF UserSecret, Secret
    <3> QED
      BY Zenon, <2>7, <3>1, OwnerStep DEF UserCreates, Put
  <2>8. ASSUME NEW o \in Obj,
               \/ SyncSecret(o) \/ Conflict(o) \/ pruneOrphanSecrets(o) \/ Synced(o) \/ ApiError(o)
               \/ Refresh(o) \/ ObjDeleted(o) \/ \E d \in Specs[o] : SpecChanged(o, d)
        PROVE  secret' = secret
    BY Zenon, <2>8
       DEF SyncSecret, Conflict, pruneOrphanSecrets, Synced, ApiError, Refresh, ObjDeleted,
                SpecChanged
  <2>9. Crash \/ UNCHANGED vars => secret' = secret
    BY Zenon DEF Crash, vars
  <2> QED
    BY Zenon, <2>1, <2>2, <2>3, <2>4, <2>5, <2>6, <2>7, <2>8, <2>9 DEF Next, Step
<1> QED
  BY <1>1, <1>2, InitSync, NextSync, PTL DEF Spec, OwnershipKept, Ownership!Spec
=============================================================================
