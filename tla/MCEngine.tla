------------------------------ MODULE MCEngine ------------------------------
(* Engine and its refinement of Kernel, on at most two jobs and two        *)
(* providers with one place each.                                          *)
EXTENDS EngineRefinement, TLC

CONSTANTS p1, p2, j1, j2

MCSlots == [p \in Providers |-> 1]
ProviderSymmetry == Permutations({p1, p2})
JobSymmetry == Permutations({j1, j2})
=============================================================================
