----------------------------- MODULE MCStateSync -----------------------------
(***************************************************************************)
(* A small instance of StateSync for TLC.                                  *)
(***************************************************************************)
EXTENDS StateSync, TLC

CONSTANTS d1, d2, r1, r2, p1, p2

=============================================================================
