----------------------------- MODULE MCRunStore -----------------------------
(* Instances of RunStore for TLC.                                          *)
EXTENDS RunStore, TLC

CONSTANTS w1, w2, r1, r2, p1, p2, p3, p4, c1, c2

Kinds     == {"wrapper", "child", "stranger"}
Strangers == {"stranger"}
Symmetry  == Permutations(Wrappers) \union Permutations(Runs)
               \union Permutations(Pids) \union Permutations(Readers)
=============================================================================
