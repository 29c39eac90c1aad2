------------------------------ MODULE MCTables ------------------------------
(* An instance of Tables for TLC.                                          *)
EXTENDS Tables, TLC

CONSTANTS o1, o2

(* A bound: rows are only explored once every opener is done and one of     *)
(* them has recorded the version, for opening reads and writes no table     *)
(* that a statement does.                                                  *)
OpenedFirst ==
  services # <<>> =>
    Len(version) = 1 /\ \A o \in Openers : opener[o] \in {"open", "refused"}

Symmetry == Permutations(Openers)
=============================================================================
