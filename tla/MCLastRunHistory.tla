--------------------------- MODULE MCLastRunHistory ---------------------------
(* LastRunHistory for TLC: processes are interchangeable.                  *)
EXTENDS LastRunHistory, TLC

Symmetry == Permutations(Process)
===============================================================================
