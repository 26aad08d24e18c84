-------------------------- MODULE MCProviderClient --------------------------
(* Small instances of ProviderClient.                                       *)
EXTENDS ProviderClient, TLC

Symmetry == Permutations(Calls)
=============================================================================
