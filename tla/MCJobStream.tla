----------------------------- MODULE MCJobStream -----------------------------
(* JobStream with one reader, two attempts of two lines.                   *)
EXTENDS JobStream

CONSTANT f1
=============================================================================
