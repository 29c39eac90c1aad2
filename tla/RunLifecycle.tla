---------------------------- MODULE RunLifecycle ----------------------------
(***************************************************************************)
(* What the runs table promises its readers: a run is inserted once, as    *)
(* `running`, leaves that status once, and then never changes again.       *)
(***************************************************************************)
CONSTANT Runs
VARIABLE status

Final == {"completed", "failed", "killed", "crashed"}

Init == status = [r \in Runs |-> "absent"]

Insert(r) ==
  /\ status[r] = "absent"
  /\ status' = [status EXCEPT ![r] = "running"]

Settle(r, s) ==
  /\ status[r] = "running"
  /\ status' = [status EXCEPT ![r] = s]

Next == \E r \in Runs : Insert(r) \/ \E s \in Final : Settle(r, s)

Spec == Init /\ [][Next]_status
=============================================================================
