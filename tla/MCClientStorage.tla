--------------------------- MODULE MCClientStorage ---------------------------
\* Instances of ClientStorage for TLC.
EXTENDS ClientStorage
=============================================================================
