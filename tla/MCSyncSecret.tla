---------------------------- MODULE MCSyncSecret ----------------------------
\* Instances of SyncSecret for TLC.
EXTENDS SyncSecret, TLC

CONSTANTS o1, o2, n1, n2, opaque, tls

D(n, c, w, t) == [name |-> n, create |-> c, overwrite |-> w, type |-> t]

\* One object that is moved between two names and two types, and one that is after the same names,
\* with and without overwrite, or writes to a Secret it does not create.
TwoSpecs ==
  (o1 :> {D(n1, TRUE, FALSE, opaque), D(n1, TRUE, FALSE, tls), D(n2, TRUE, FALSE, opaque)}) @@
  (o2 :> {D(n1, TRUE, TRUE, opaque), D(n1, FALSE, FALSE, opaque)})
=============================================================================
