------------------------ MODULE MCVaultStaticSecret ------------------------
(***************************************************************************)
(* Instances of VaultStaticSecret for TLC.                                 *)
(***************************************************************************)
EXTENDS VaultStaticSecret

CONSTANTS w1, w2, w3

TwoWatchers == {w1, w2}
ThreeWatchers == {w1, w2, w3}
=============================================================================
