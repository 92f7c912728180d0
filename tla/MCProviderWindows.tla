------------------------- MODULE MCProviderWindows -------------------------
(* ProviderWindows with interchangeable callers.                           *)
EXTENDS ProviderWindows, TLC

Symmetry == Permutations(Callers)
=============================================================================
