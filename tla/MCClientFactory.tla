-------------------------- MODULE MCClientFactory --------------------------
(***************************************************************************)
(* ClientFactory instantiated for TLC.                                     *)
(***************************************************************************)
EXTENDS ClientFactory, TLC

\* Getters, clients and tokens are interchangeable.  (VaultAuths and namespaces are not:
\* the null records choose one of them.)
Symmetry == Permutations(Getter) \cup Permutations(Client) \cup Permutations(Token)
=============================================================================
