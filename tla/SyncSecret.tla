----------------------------- MODULE SyncSecret -----------------------------
(***************************************************************************)
(* Destination Secrets (helpers/secrets.go): SyncSecret, with its          *)
(* ownership check, the recreation of a Secret whose type changes and the  *)
(* pruning of orphans, called concurrently by the controllers of several   *)
(* syncable objects that may name the same destination.  Secrets are read  *)
(* from the API server, not from a cache; Update is refused when the       *)
(* Secret changed since it was read, Delete is not.                        *)
(***************************************************************************)
EXTENDS Naturals

CONSTANTS
  Obj,         \* the syncable objects of one namespace; an object stands for its UID
  Name,        \* names of Secrets
  Type,        \* types of Secrets
  None,
  User,        \* who writes Secrets that are not the operator's
  Specs,       \* the destinations an object may be given: Specs[o] \subseteq Destination
  MaxChanges,  \* bound on changes of specs and of data
  MaxFaults,   \* bound on failed requests, restarts and the user's changes
  Events       \* what may happen, a subset of AllEvents

AllEvents == {"apiError", "crash", "objDelete", "userDelete", "userCreate"}

\* spec.destination
Destination == [name: Name, create: BOOLEAN, overwrite: BOOLEAN, type: Type]

\* labels: whose owner labels it has (labelOwnerRefUID and the fixed three come and go together);
\* refs: whose owner reference; data: who wrote it last.
Secret == [type: Type, labels: Obj \cup {None}, refs: Obj \cup {None}, data: Obj \cup {User}]

ASSUME SyncAssumption ==
  /\ {None, User, "absent", "free"} \cap Obj = {} /\ None \notin Secret
  /\ Specs \in [Obj -> SUBSET Destination] /\ \A o \in Obj : Specs[o] # {}
  /\ MaxChanges \in Nat /\ MaxFaults \in Nat /\ Events \subseteq AllEvents

VARIABLES
  spec,      \* the destination of each object
  alive,     \* the objects that exist
  secret,    \* the Secret of each name, or None
  task,      \* each object's call of SyncSecret
  due,       \* the objects whose reconciliation was asked for, or has to be retried
  changes, faults

vars == <<spec, alive, secret, task, due, changes, faults>>

\* A Secret of the user's.
UserSecret(t) == [type |-> t, labels |-> None, refs |-> None, data |-> User]

\* A call has the destination and the Secret it read, and the orphans it listed.  changed: the
\* Secrets among these that were written, deleted or created by another since; it stands for the
\* resource versions.
Task == [pc: {"idle", "write", "delete", "create", "list", "prune"}, dest: Destination,
         read: Secret \cup {None}, orphans: SUBSET Name, changed: SUBSET Name]
Idle(o) == [pc |-> "idle", dest |-> CHOOSE d \in Specs[o] : TRUE, read |-> None,
            orphans |-> {}, changed |-> {}]
Seen(t) == IF t.pc \in {"write", "delete"} THEN {t.dest.name}
           ELSE IF t.pc = "prune" THEN t.orphans ELSE {}

Init ==
  /\ spec \in [Obj -> Destination] /\ \A o \in Obj : spec[o] \in Specs[o]
  /\ alive = Obj
  /\ secret = [n \in Name |-> None]
  /\ task = [o \in Obj |-> Idle(o)]
  /\ due = Obj
  /\ changes = 0 /\ faults = 0

Fault(e) == e \in Events /\ faults < MaxFaults /\ faults' = faults + 1

HasOwnerLabels(s) == s.labels # None
\* FindSecretsOwnedByObj and SyncSecret's check
checkSecretIsOwnedByObj(s, o) == HasOwnerLabels(s) /\ s.refs = o

\* (The mutant forgets that a Secret which may be overwritten can be another object's.)
RefusedNotOverwritten(o, d, s) ==
  \/ ~d.create /\ s = None
  \/ d.create /\ s # None /\ ~d.overwrite /\ ~checkSecretIsOwnedByObj(s, o)
\* What SyncSecret finds out before it writes.
Refused(o, d, s) ==
  \/ ~d.create /\ s = None
  \/ /\ d.create /\ s # None
     /\ d.overwrite => HasOwnerLabels(s)
     /\ ~checkSecretIsOwnedByObj(s, o)

\* The Secret n becomes s, by a call of object o that goes on as t, or by someone else.
Noted(n) == [p \in Obj |-> IF n \in Seen(task[p]) THEN [task[p] EXCEPT !.changed = @ \cup {n}]
                           ELSE task[p]]
PutBy(o, n, s, t) ==
  /\ secret' = [secret EXCEPT ![n] = s]
  /\ task' = [Noted(n) EXCEPT ![o] = t]
Put(n, s) == secret' = [secret EXCEPT ![n] = s] /\ task' = Noted(n)

\* The deletion of a Secret with owner labels is reported to the object in its owner reference.
Report(n) == due' = IF HasOwnerLabels(secret[n]) THEN due \cup {secret[n].refs} ELSE due

\* A call begins, with the object as the controller read it, and reads the destination.
SyncSecret(o) ==
  LET d == spec[o]
      s == secret[d.name]
  IN /\ o \in alive /\ o \in due /\ task[o].pc = "idle"
     /\ IF Refused(o, d, s)
          THEN UNCHANGED <<task, due>>
          ELSE /\ task' = [task EXCEPT ![o] = [Idle(o) EXCEPT !.pc = "write", !.dest = d,
                                                              !.read = s]]
               /\ due' = due \ {o}
     /\ UNCHANGED <<spec, alive, secret, changes, faults>>

At(o, pc) == task[o].pc = pc
Goto(o, pc) == [task[o] EXCEPT !.pc = pc]
Failed(o) == task' = [task EXCEPT ![o] = Idle(o)] /\ due' = due \cup {o}
\* The resource version is the one that was read.
Current(o) == task[o].dest.name \notin task[o].changed

Owned(o, t) == [type |-> t, labels |-> o, refs |-> o, data |-> o]

\* The destination exists, and is not the object's to create: only its data is written.
UpdateData(o) ==
  LET d == task[o].dest IN
  /\ At(o, "write") /\ ~d.create /\ Current(o)
  /\ PutBy(o, d.name, [task[o].read EXCEPT !.data = o], Goto(o, "list"))
  /\ UNCHANGED <<spec, alive, due, changes, faults>>

\* It exists with the right type.
Update(o) ==
  LET d == task[o].dest IN
  /\ At(o, "write") /\ d.create /\ task[o].read # None /\ task[o].read.type = d.type
  /\ Current(o)
  /\ PutBy(o, d.name, Owned(o, d.type), Goto(o, "list"))
  /\ UNCHANGED <<spec, alive, due, changes, faults>>

\* It exists with another type, which is immutable.  Its labels are taken away, so that its
\* deletion is not reported ...
Unlabel(o) ==
  LET d == task[o].dest IN
  /\ At(o, "write") /\ d.create /\ task[o].read # None /\ task[o].read.type # d.type
  /\ Current(o)
  /\ PutBy(o, d.name, [Owned(o, task[o].read.type) EXCEPT !.labels = None], Goto(o, "delete"))
  /\ UNCHANGED <<spec, alive, due, changes, faults>>

\* ... it is deleted, whoever changed it in between ...
DeleteOld(o) ==
  LET n == task[o].dest.name IN
  /\ At(o, "delete") /\ secret[n] # None
  /\ PutBy(o, n, None, Goto(o, "create")) /\ Report(n)
  /\ UNCHANGED <<spec, alive, changes, faults>>

\* ... and created again.  A destination that did not exist is created, too.
Create(o) ==
  LET d == task[o].dest IN
  /\ At(o, "create") \/ (At(o, "write") /\ d.create /\ task[o].read = None)
  /\ secret[d.name] = None
  /\ PutBy(o, d.name, Owned(o, d.type), Goto(o, "list"))
  /\ UNCHANGED <<spec, alive, due, changes, faults>>

\* (The mutant takes a conflict for a success.)
ConflictIgnored(o) ==
  LET s == secret[task[o].dest.name] IN
  /\ \/ At(o, "write") /\ task[o].read # None /\ ~Current(o)
     \/ At(o, "write") /\ task[o].read = None /\ s # None
     \/ At(o, "delete") /\ s = None
     \/ At(o, "create") /\ s # None
  /\ task' = [task EXCEPT ![o] = Idle(o)]
  /\ UNCHANGED <<spec, alive, secret, due, changes, faults>>
\* The API server refuses an Update of an older version, a Delete of nothing, a second Create.
Conflict(o) ==
  LET s == secret[task[o].dest.name] IN
  /\ \/ At(o, "write") /\ task[o].read # None /\ ~Current(o)
     \/ At(o, "write") /\ task[o].read = None /\ s # None
     \/ At(o, "delete") /\ s = None
     \/ At(o, "create") /\ s # None
  /\ Failed(o)
  /\ UNCHANGED <<spec, alive, secret, changes, faults>>

\* pruneOrphanSecrets: (the mutant lists without labelOwnerRefUID, and trusts the labels)
FindSecretsWithOwnerLabels(o) ==
  {n \in Name : secret[n] # None /\ HasOwnerLabels(secret[n])}
\* the Secrets that the object owns under other names ...
FindSecretsOwnedByObj(o) ==
  {n \in Name : secret[n] # None /\ secret[n].labels = o /\ checkSecretIsOwnedByObj(secret[n], o)}

\* (The mutant has the option PruneOrphans off.)
pruneOrphanSecretsOff(o) ==
  /\ At(o, "list")
  /\ task' = [task EXCEPT ![o] = [@ EXCEPT !.pc = "prune", !.changed = {}]]
  /\ UNCHANGED <<spec, alive, secret, due, changes, faults>>
pruneOrphanSecrets(o) ==
  /\ At(o, "list")
  /\ task' = [task EXCEPT ![o] = [@ EXCEPT !.pc = "prune", !.changed = {},
                                  !.orphans = FindSecretsOwnedByObj(o) \ {task[o].dest.name}]]
  /\ UNCHANGED <<spec, alive, secret, due, changes, faults>>

\* ... are deleted one by one; one that cannot be deleted is left.
Without(o, n) == [task[o] EXCEPT !.orphans = @ \ {n}, !.changed = @ \ {n}]
PruneOne(o, n) ==
  /\ At(o, "prune") /\ n \in task[o].orphans
  /\ \/ secret[n] # None /\ PutBy(o, n, None, Without(o, n)) /\ Report(n)
     \/ /\ secret[n] = None
        /\ task' = [task EXCEPT ![o] = Without(o, n)]
        /\ UNCHANGED <<secret, due>>
  /\ UNCHANGED <<spec, alive, changes, faults>>

\* The call returns without an error.
Synced(o) ==
  /\ At(o, "prune") /\ task[o].orphans = {}
  /\ task' = [task EXCEPT ![o] = Idle(o)]
  /\ UNCHANGED <<spec, alive, secret, due, changes, faults>>

\* A request to the API server fails: the call returns the error, except that a Secret which
\* cannot be listed or deleted is not pruned.
ApiError(o) ==
  /\ Fault("apiError")
  /\ \/ task[o].pc \in {"write", "delete", "create"} /\ Failed(o)
     \/ /\ At(o, "list") /\ UNCHANGED due
        /\ task' = [task EXCEPT ![o] = [@ EXCEPT !.pc = "prune", !.orphans = {}]]
     \/ /\ At(o, "prune") /\ UNCHANGED due
        /\ \E n \in task[o].orphans : task' = [task EXCEPT ![o] = Without(o, n)]
  /\ UNCHANGED <<spec, alive, secret, changes>>

\* The operator restarts: every object is reconciled again.
Crash ==
  /\ Fault("crash")
  /\ task' = [o \in Obj |-> Idle(o)]
  /\ due' = Obj
  /\ UNCHANGED <<spec, alive, secret, changes>>

SpecChanged(o, d) ==
  /\ o \in alive /\ changes < MaxChanges /\ d # spec[o]
  /\ changes' = changes + 1
  /\ spec' = [spec EXCEPT ![o] = d]
  /\ due' = due \cup {o}
  /\ UNCHANGED <<alive, secret, task, faults>>

\* The data in Vault changed, or the time of spec.refreshAfter has come.
Refresh(o) ==
  /\ o \in alive /\ o \notin due /\ changes < MaxChanges
  /\ changes' = changes + 1
  /\ due' = due \cup {o}
  /\ UNCHANGED <<spec, alive, secret, task, faults>>

ObjDeleted(o) ==
  /\ Fault("objDelete") /\ o \in alive
  /\ alive' = alive \ {o}
  /\ UNCHANGED <<spec, secret, task, due, changes>>

\* Kubernetes deletes what only a deleted object owns.
GarbageCollected(n) ==
  /\ secret[n] # None /\ secret[n].refs # None /\ secret[n].refs \notin alive
  /\ Put(n, None)
  /\ UNCHANGED <<spec, alive, due, changes, faults>>

UserDeletes(n) ==
  /\ Fault("userDelete") /\ secret[n] # None
  /\ Put(n, None) /\ Report(n)
  /\ UNCHANGED <<spec, alive, changes>>

UserCreates(n, t) ==
  /\ Fault("userCreate") /\ secret[n] = None
  /\ Put(n, UserSecret(t))
  /\ UNCHANGED <<spec, alive, due, changes>>

Step(o) ==
  \/ UpdateData(o)
  \/ Update(o)
  \/ Unlabel(o)
  \/ DeleteOld(o)
  \/ Create(o)
  \/ Conflict(o)
  \/ pruneOrphanSecrets(o)
  \/ \E n \in Name : PruneOne(o, n)
  \/ Synced(o)

Next ==
  \/ \E o \in Obj : SyncSecret(o) \/ Step(o) \/ ApiError(o) \/ Refresh(o) \/ ObjDeleted(o)
  \/ \E o \in Obj : \E d \in Specs[o] : SpecChanged(o, d)
  \/ \E n \in Name : GarbageCollected(n) \/ UserDeletes(n) \/ \E t \in Type : UserCreates(n, t)
  \/ Crash

Spec == Init /\ [][Next]_vars

\* A reconciliation that is due, or that failed, comes; a call that began goes on.
Fairness ==
  /\ \A o \in Obj : WF_vars(SyncSecret(o)) /\ WF_vars(Step(o))
  /\ \A n \in Name : WF_vars(GarbageCollected(n))

LiveSpec == Spec /\ Fairness
-----------------------------------------------------------------------------
TypeOK ==
  /\ spec \in [Obj -> Destination] /\ alive \in SUBSET Obj
  /\ secret \in [Name -> Secret \cup {None}]
  /\ task \in [Obj -> Task]
  /\ due \in SUBSET Obj
  /\ changes \in 0..MaxChanges /\ faults \in 0..MaxFaults

\* A Secret with the owner labels of p stays p's while it exists, and its data are replaced by
\* another object only if that one does not create its destination: between SyncSecret's
\* ownership check and its Update nothing another call does goes unnoticed
\* (helpers/secrets.go:225-238, 304).
OwnerKept ==
  [][\A n \in Name, p \in Obj :
       secret[n] # None /\ secret[n].labels = p /\ secret'[n] \notin {None, secret[n]}
         => /\ secret'[n].refs = p
            /\ secret'[n].data # p => ~task[secret'[n].data].dest.create]_vars

\* SyncSecret keeps the promise of SecretOwnership: nobody gets the Secret of another object
\* while that exists, in whatever order calls, restarts and the user's changes come.
owner == [n \in Name |-> IF secret[n] = None THEN "absent"
                         ELSE IF HasOwnerLabels(secret[n]) THEN secret[n].labels ELSE "free"]
Ownership == INSTANCE SecretOwnership
OwnershipKept == Ownership!Spec

\* Without preconditions a Delete may hit a Secret that another object owns, but only one that
\* was changed after the call had checked it (helpers/secrets.go:286-293, 321-333).
Deletes(o, n) ==
  /\ secret[n] # None /\ secret'[n] = None
  /\ \/ At(o, "delete") /\ task[o].dest.name = n /\ task'[o].pc = "create"
     \/ At(o, "prune") /\ n \in task[o].orphans \ task'[o].orphans
DeletesOwn ==
  [][\A n \in Name, o \in Obj :
       Deletes(o, n) => secret[n].refs = o \/ n \in task[o].changed]_vars

\* The destination is as the spec asks ...
Right(o) ==
  LET d == spec[o]
      s == secret[d.name]
  IN s # None /\ (d.create => s.labels = o /\ s.refs = o /\ s.type = d.type)
\* ... or it is missing or someone else's, so that SyncSecret has to refuse it ...
Foreign(o) ==
  LET d == spec[o]
      s == secret[d.name]
  IN IF d.create THEN s # None /\ s.refs # o /\ (d.overwrite => HasOwnerLabels(s))
                 ELSE s = None
\* ... or a recreation that was cut off after Unlabel left it without labels: SyncSecret then
\* takes it for someone else's.
Stranded(o) ==
  LET d == spec[o]
      s == secret[d.name]
  IN d.create /\ ~d.overwrite /\ s # None /\ s.refs = o /\ ~HasOwnerLabels(s)

\* When specs no longer change, the destination of every object gets to be as its spec asks,
\* whatever failed, conflicted or was deleted on the way, unless it is someone else's.
Converges == \A o \in Obj : <>[](o \in alive => Right(o) \/ Foreign(o) \/ Stranded(o))

\* Without failures, an object whose destination was renamed ends up owning no Secret but its
\* destination, however calls, changes of specs and garbage collection interleave.  (An error
\* while pruning is only logged: helpers/secrets.go:320-337.)
OrphansPruned ==
  \A o \in Obj : <>[](o \in alive /\ faults = 0 /\ Right(o) =>
    \A n \in Name \ {spec[o].name} : secret[n] = None \/ secret[n].labels # o)

\* "secret type is immutable, so we need to force recreate the secret when the type changes"
\* (helpers/secrets.go:278-279): a changed type never leaves the object without its destination.
TypeChanges == \A o \in Obj : <>[](o \in alive => Right(o) \/ Foreign(o))
=============================================================================
