----------------------------- MODULE MCRegistry -----------------------------
(* An instance of Registry and Views.                                      *)
EXTENDS Views, TLC

CONSTANTS c1, c2, k1, o1

Symmetry == Permutations(Wrappers)

(* Bounds: two services at once only where one took the name of the other,  *)
(* a wrapper asked for one thing at a time (Wrapper has both at once),      *)
(* ports of a run alone in the table, whose PID is recorded, as it is tried *)
(* first, and no runs where no service has a tag.                          *)
ServiceBound ==
  Cardinality(DOMAIN services) <= 1
    \/ \E s \in DOMAIN services : services[s].name = Superseded
RequestBound == \A c \in Wrappers : Cardinality(cmd[c].asked) <= 1
PortBound    == ports = {} \/ (Cardinality(DOMAIN runs) <= 1 /\ \A r \in DOMAIN runs : runs[r].pid)
TagBound     == tags = {} => DOMAIN runs = {}
Bounds       == ServiceBound /\ RequestBound /\ PortBound /\ TagBound
=============================================================================
