------------------------------ MODULE MCWrapper ------------------------------
(* Instances of Wrapper for TLC: what the environment may send in each run. *)
EXTENDS Wrapper

AllRequests == {"USR1", "TERM", "KILL", "CHILD"}
Commands    == {"USR1", "TERM"}     \* `brainlog restart` and `brainlog kill`
KillOnly    == {"TERM"}
=============================================================================
