------------------------------- MODULE MCServer -------------------------------
(***************************************************************************)
(* A small instance of Server for TLC: two keys, in every list without     *)
(* repetition; bodies that are plain, compressed, damaged and too large;   *)
(* providers whose name just fits its column, and just does not.           *)
(***************************************************************************)
EXTENDS Server, TLC

CONSTANTS p1, p2, r1, r2, k1, k2, c1, c2, w1, w2, u1

Rings == {<<k1>>, <<k2>>, <<k1, k2>>, <<k2, k1>>}

Bodies == {[gzip |-> FALSE, size |-> 2, sound |-> 2],
           [gzip |-> TRUE, size |-> 1, sound |-> 1],
           [gzip |-> TRUE, size |-> 1, sound |-> 0],
           [gzip |-> TRUE, size |-> 3, sound |-> 2]}

Providers == {[chars |-> 100, bytes |-> 400], [chars |-> 101, bytes |-> 101]}

Webhooks == {[by |-> "plaid", body |-> w1], [by |-> "gocardless", body |-> w2]}

Interchangeable == Permutations({p1, p2}) \cup Permutations({r1, r2})
                   \cup Permutations({k1, k2}) \cup Permutations({c1, c2})
===============================================================================
