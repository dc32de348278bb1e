--------------------------- MODULE MCCellSummary ---------------------------
(* The constants of the run about CellSummary: two elements with two       *)
(* cells of the same identifiers, and requests that repeat a name.         *)
EXTENDS CellSummary

CONSTANTS n1, n2

TwoNames == {n1, n2}
SmallRequests == {<<n1>>, <<n1, n2>>, <<n1, n1>>, <<n1, n1, n2>>}
SmallCellNames == {<<"a", "x", "c">>, <<"a", "y", "c">>, <<"b">>}
=============================================================================
