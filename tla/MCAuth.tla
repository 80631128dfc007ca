-------------------------------- MODULE MCAuth --------------------------------
(***************************************************************************)
(* A small instance of Auth for TLC: an address in two spellings.          *)
(***************************************************************************)
EXTENDS Auth, TLC

CONSTANTS lower, upper, r1, r2, p1, p2

LowerCase == lower :> lower @@ upper :> lower

Interchangeable == Permutations({r1, r2}) \cup Permutations({p1, p2})
===============================================================================
