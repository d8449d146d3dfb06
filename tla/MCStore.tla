------------------------------ MODULE MCStore ------------------------------
(* One job, two providers, a loop, two handlers, a worker; a database found *)
(* empty, at the last version before the log, or at the first with it.      *)
EXTENDS Store, TLC

CONSTANTS j1, p1, p2, loop, handler, other, worker

mcJobs == {j1}
mcProviders == {p1, p2}
mcLoops == {loop}
mcHandlers == {handler, other}
mcWorkers == {worker}
\* The two providers are interchangeable, and so are the two handlers.
mcSymmetry == Permutations(mcProviders) \cup Permutations(mcHandlers)
mcVersions == {0, 7, 8}
=============================================================================
