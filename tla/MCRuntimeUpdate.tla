--------------------------- MODULE MCRuntimeUpdate ---------------------------
(* Small instances of RuntimeUpdate *)
EXTENDS RuntimeUpdate, TLC

CONSTANTS r1, r2, v1, v2, h1, h2

Symmetric == Permutations({r1, r2}) \cup Permutations({v1, v2})
=============================================================================
