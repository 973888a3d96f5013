-------------------------- MODULE MCVaultPKISecret --------------------------
\* Instances of VaultPKISecret for TLC.
EXTENDS VaultPKISecret

M(r, c, d) == [revoke |-> r, clear |-> c, create |-> d]
\* A destination that the operator creates, and one that the user provides and wants cleared.
RevokeModes == {M(TRUE, FALSE, TRUE), M(TRUE, TRUE, FALSE)}
=============================================================================
