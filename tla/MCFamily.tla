------------------------------ MODULE MCFamily ------------------------------
(* Small instances of Family for TLC.                                      *)
EXTENDS Family, TLC

CONSTANTS r1, r2, k1, k2, ada, tomas

Slots == Permutations({r1, r2})
SlotsNamesAndKeys ==
  Permutations({r1, r2}) \cup Permutations({k1, k2}) \cup Permutations({ada, tomas})
=============================================================================
