------------------------------ MODULE MCDaemon ------------------------------
(* Instances of Daemon for TLC.                                            *)
EXTENDS Daemon, TLC

CONSTANTS d1, d2, d3, c1, c2, c3, s1, s2

AllOps   == {"start", "stop", "restart", "run", "status"}
Starters == {"start", "restart"}
Symmetry == Permutations(Daemons) \union Permutations(Clients)
              \union Permutations(Services)
=============================================================================
