------------------------ MODULE MCHCPVaultSecretsApp ------------------------
\* Instances of HCPVaultSecretsApp for TLC.
EXTENDS HCPVaultSecretsApp
=============================================================================
