---------------------------- MODULE MCBootstrap ----------------------------
(* Two jobs of one project, at one or at two revisions, and one death.      *)
EXTENDS Bootstrap, TLC

CONSTANTS j1, j2, r1, r2

mcJobs == {j1, j2}
mcRevs == {r1, r2}
mcSame == (j1 :> r1 @@ j2 :> r1)
mcSettings == {<<mcSame, "uv", "local">>, <<j1 :> r1 @@ j2 :> r2, "uv", "ssh">>,
               <<mcSame, "plain", "ssh">>}
mcBuilt == {r2}
=============================================================================
