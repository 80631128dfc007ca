---------------------------- MODULE MCRecordSync ----------------------------
(***************************************************************************)
(* Small instances of RecordSync for TLC.                                  *)
(***************************************************************************)
EXTENDS RecordSync, TLC

CONSTANTS d1, d2, d3, u1, u2, r1, r2

OneDevice == d1 :> u1
OneUser == d1 :> u1 @@ d2 :> u1
TwoUsers == d1 :> u1 @@ d2 :> u1 @@ d3 :> u2

Edit(i, t) == [id |-> i, updated_at |-> t]

\* Two records in either order (the order decides which lock comes first),
\* written before and after the server's time; one of them twice in one batch,
\* the later edit first.
ContendingBatches ==
    { <<>>,
      <<Edit(1, 1), Edit(2, 2)>>,
      <<Edit(2, 1), Edit(1, 2), Edit(1, 1)>> }

\* Two records in opposite orders.
OppositeBatches ==
    { <<Edit(1, 1), Edit(2, 2)>>, <<Edit(2, 1), Edit(1, 2)>> }

\* One record, in time, within the tolerance and beyond it.
SingleEdits == { <<>>, <<Edit(1, 1)>>, <<Edit(1, 3)>>, <<Edit(1, 5)>> }

\* More records than a page holds, with one stamp or with several.
LongBatches ==
    { <<>>,
      <<Edit(3, 2), Edit(1, 1), Edit(2, 9)>>,
      <<Edit(2, 3)>> }

Interchangeable == Permutations({d1, d2}) \cup Permutations({r1, r2})
=============================================================================
