----------------------------- MODULE MCQuoteCache -----------------------------
(***************************************************************************)
(* Small instances of QuoteCache for TLC.                                  *)
(***************************************************************************)
EXTENDS QuoteCache, TLC

CONSTANTS s1, s2, r1, r2
===============================================================================
