--------------------------- MODULE SecretOwnership ---------------------------
(***************************************************************************)
(* What the owner labels of Secrets promise (helpers/secrets.go): a Secret *)
(* belongs to at most one syncable object, and passes to another one only  *)
(* by being given up, or deleted, first.                                   *)
(***************************************************************************)
CONSTANTS Obj, Name

VARIABLE owner   \* of each name: an object, "free" without owner labels, or "absent"

Init == owner = [n \in Name |-> "absent"]

\* An object creates the Secret, or takes one that nobody has.
Claim(n) == owner[n] \in {"absent", "free"} /\ owner'[n] \in Obj

\* Its owner gives it up.
GiveUp(n) == owner[n] \in Obj /\ owner'[n] = "free"

\* It is deleted, by its owner, by the user or with its owner.
Delete(n) == owner[n] # "absent" /\ owner'[n] = "absent"

\* The user creates one.
Provide(n) == owner[n] = "absent" /\ owner'[n] = "free"

Next ==
  \E n \in Name : /\ Claim(n) \/ GiveUp(n) \/ Delete(n) \/ Provide(n)
                  /\ owner' = [owner EXCEPT ![n] = owner'[n]]

Spec == Init /\ [][Next]_owner
=============================================================================
