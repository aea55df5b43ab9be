--------------------------- MODULE MCScanTextCache ---------------------------
(* Values for the constants of ScanTextCache, with a cap of 16 bytes and two *)
(* sections. `small` fits for certain, `dense` fits although its estimate  *)
(* says otherwise, `large` does not fit.                                   *)
EXTENDS ScanTextCache

CONSTANTS d1, d2, small, dense, large

Per(s, d, l) ==
  [v \in {small, dense, large} |->
     [x \in 1..2 |-> CASE v = small -> s [] v = dense -> d [] v = large -> l]]

TwoDocuments == [d \in {d1, d2} |-> IF d = d1 THEN {small, dense} ELSE {large}]

CharsOf    == Per(2, 4, 4)
BytesOf    == Per(5, 7, 9)
EstimateOf == Per(5, 9, 10)

=============================================================================
