------------------------------ MODULE MCKernel ------------------------------
(* Kernel on three jobs of different cost, a provider with room for two of *)
(* them, and money for all three but not for a second placement of each.   *)
EXTENDS Kernel, TLC

CONSTANTS a, b, c

MCJobs == {a, b, c}
MCCost == (a :> 0) @@ (b :> 1) @@ (c :> 2)
=============================================================================
