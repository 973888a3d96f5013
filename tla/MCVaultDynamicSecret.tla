------------------------ MODULE MCVaultDynamicSecret ------------------------
\* Instances of VaultDynamicSecret for TLC.
EXTENDS VaultDynamicSecret

CONSTANTS l1, l2, l3, l4, l5

\* The object, its two copies and the destination refer to at most four leases, so that a
\* fifth is always fresh.
FiveLeases == {l1, l2, l3, l4, l5}

\* For the properties that do not tell leases apart.
OneLease == {l1}
=============================================================================
