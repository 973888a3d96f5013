----------------------------- MODULE EventWatcher -----------------------------
(***************************************************************************)
(* What the VaultStaticSecret controller promises about the event watcher  *)
(* of one object, with no registry, no client and no Reconcile in sight:   *)
(* one goroutine at a time, for a generation the object has or had, which  *)
(* is told to stop before the object may go and, once told, stays told.    *)
(* VaultStaticSecret is shown to implement this specification.             *)
(***************************************************************************)
EXTENDS Integers

CONSTANT Watcher

VARIABLES
  st, gen,   \* the object: "present", "deleting" or "gone", and its generation
  live       \* the goroutines: which, for what generation, and whether told to stop

vars == <<st, gen, live>>

Init == st = "present" /\ gen = 1 /\ live = {}

Change == st = "present" /\ gen' = gen + 1 /\ UNCHANGED <<st, live>>

\* An object without the finalizer is gone at once.
Delete == st = "present" /\ st' \in {"deleting", "gone"} /\ UNCHANGED <<gen, live>>

\* handleDeletion removes the finalizer.
Remove ==
  /\ st = "deleting"
  /\ \A v \in live : v.told
  /\ st' = "gone"
  /\ UNCHANGED <<gen, live>>

\* ensureEventWatcher starts a goroutine, after the one before it has ended.
Start ==
  /\ live = {}
  /\ \E x \in Watcher, g \in 1..gen : live' = {[id |-> x, gen |-> g, told |-> FALSE]}
  /\ UNCHANGED <<st, gen>>

\* A context is cancelled.
Tell ==
  /\ \E v \in live : live' = {[id |-> v.id, gen |-> v.gen, told |-> TRUE]}
  /\ UNCHANGED <<st, gen>>

\* The goroutine ends, told to or not, or the operator does.
End == live # {} /\ live' = {} /\ UNCHANGED <<st, gen>>

Next == Change \/ Delete \/ Remove \/ Start \/ Tell \/ End

Spec == Init /\ [][Next]_vars
=============================================================================
