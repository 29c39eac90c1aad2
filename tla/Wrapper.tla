------------------------------- MODULE Wrapper -------------------------------
(***************************************************************************)
(* One `brainlog <command>` process: the spawn loop of cli/run.rs, its two *)
(* long-lived signal listeners, the task that records the child's PID, and *)
(* the signal forwarder that lives while a child is waited for.            *)
(*                                                                         *)
(* The loop and the tasks run on a multi-threaded runtime and share three  *)
(* atomics (the two request flags and the PID of the current child), so    *)
(* each access to one of them is an action of its own.  A run is named by  *)
(* its iteration of the loop; the child of run r is "process r".           *)
(*                                                                         *)
(* Abstracted: log capture (awaited between Clear and ReadRestart, without *)
(* effect on these variables), messages, and the gap between listing a     *)
(* process tree and signalling it.                                         *)
(***************************************************************************)
EXTENDS Integers

CONSTANTS
  MaxRuns,        \* bound on the iterations of the spawn loop
  Forks,          \* may the child leave a descendant that holds its output?
  PromptHandlers, \* TRUE: the 1 s restart delay outlasts the gap between a
                  \* listener's store of its flag and its load of the PID
  ExitCodes,      \* the codes the wrapped command may exit with
  Requests        \* what the environment may send

Signals == {"USR1", "TERM"}   \* the signals the listeners of run.rs handle

ASSUME WrapperAssumption ==
  /\ MaxRuns \in Nat \ {0}
  /\ Forks \in BOOLEAN /\ PromptHandlers \in BOOLEAN
  /\ ExitCodes \subseteq Nat
  /\ Requests \subseteq Signals \union {"KILL", "CHILD"}

Runs == 1 .. MaxRuns

VARIABLES
  again,    \* the --restart option
  pty,      \* is the current child captured by process/pty.rs, or pipe.rs?
  pc,       \* where the spawn loop is
  run,      \* iteration; 0 before the first
  row,      \* status column of each run's row in the database
  pidRow,   \* has the current row its pid column set?
  child,    \* process of the current run
  helper,   \* a descendant of that process holding stdout/stderr open
  wait,     \* its wait status, once it has exited: code, or -signal
  flag,     \* restart_requested ("USR1") and stop_requested ("TERM")
  curPid,   \* current_child_pid
  task,     \* the listener task of each signal
  target,   \* the PID that listener last loaded (its local `pid`)
  pend,     \* a signal its Signals stream has not yielded yet
  caught,   \* signals whose default disposition has been replaced
  fwd,      \* the forwarder of process/signals.rs
  bg,       \* the task that stores and records the child's PID
  manual,   \* will_restart_manual
  auto      \* will_restart_auto

loopVars == <<again, pty, pc, run, manual, auto>>
dbVars   == <<row, pidRow>>
procVars == <<child, helper, wait>>
sigVars  == <<task, target, pend, caught>>
vars == <<loopVars, dbVars, procVars, flag, curPid, sigVars, fwd, bg>>

Ended == {"done", "error", "dead"}   \* the wrapper process is gone
Alive == pc \notin Ended

WaitStatus == ExitCodes \union {-15}  \* -15: killed by SIGTERM

(* The exit code spawn_wrapped reports: waitpid's 128 + signal under a     *)
(* pty, but ExitStatus::code() -- None, hence 1 -- for a piped child.      *)
ExitCode ==
  IF wait >= 0 THEN wait ELSE IF pty THEN 128 - wait ELSE 1

Init ==
  /\ again \in BOOLEAN /\ pty = FALSE
  /\ pc = "create" /\ run = 0 /\ manual = FALSE /\ auto = FALSE
  /\ row = [r \in Runs |-> "absent"] /\ pidRow = FALSE
  /\ child = "none" /\ helper = "none" /\ wait = 0
  /\ flag = [s \in Signals |-> FALSE] /\ curPid = 0
  /\ task = [s \in Signals |-> "off"] /\ target = [s \in Signals |-> 0]
  /\ pend = [s \in Signals |-> FALSE] /\ caught = {}
  /\ fwd = "off" /\ bg = "done"

-----------------------------------------------------------------------------
(* The spawn loop. *)

Goto(from, to) == pc = from /\ pc' = to

(* A row is inserted for the new run before anything is spawned. *)
CreateRun ==
  /\ Goto("create", "spawn")
  /\ run < MaxRuns
  /\ run' = run + 1
  /\ row' = [row EXCEPT ![run + 1] = "running"] /\ pidRow' = FALSE
  /\ child' = "none" /\ helper' = "none" /\ bg' = "waiting"
  /\ UNCHANGED <<again, pty, manual, auto, wait, flag, curPid, sigVars, fwd>>

(* fork, under a pty iff stdin is a foreground terminal at this moment; the *)
(* PID goes out on the oneshot before anything waits for the child.         *)
Spawn ==
  /\ Goto("spawn", "wait")
  /\ pty' \in BOOLEAN
  /\ child' = "alive" /\ bg' = "store"
  /\ UNCHANGED <<again, run, manual, auto, dbVars, helper, wait, flag, curPid,
                 sigVars, fwd>>

(* create_run, spawn_wrapped (before the fork and after it: dup, wait) and  *)
(* update_run_status all end in `?`.                                       *)
EarlyReturn ==
  /\ pc \in {"create", "spawn", "wait", "record"}
  /\ pc' = "error"
  /\ UNCHANGED <<again, pty, run, manual, auto, dbVars, procVars, flag, curPid, sigVars,
                 fwd, bg>>

(* wait() returns; the forwarder is aborted at once. *)
Reap ==
  /\ Goto("wait", "drain")
  /\ child = "zombie"
  /\ child' = "reaped" /\ fwd' = "off"
  /\ UNCHANGED <<again, pty, run, manual, auto, dbVars, helper, wait, flag, curPid,
                 sigVars, bg>>

(* The capture tasks end at end-of-file, once no process holds the output. *)
Drain ==
  /\ Goto("drain", "clear")
  /\ helper \in {"none", "gone"}
  /\ UNCHANGED <<again, pty, run, manual, auto, dbVars, procVars, flag, curPid, sigVars,
                 fwd, bg>>

(* Only after the PID task has finished is the PID withdrawn. *)
NoAwait == TRUE                        \* mutant: the task is not awaited
AwaitRecorded == bg = "done" /\ pidRow \* mutant: its database error is fatal
PidTaskDone == bg = "done"

ClearNothing ==                        \* mutant: the PID is not withdrawn
  /\ Goto("clear", "readRestart")
  /\ PidTaskDone
  /\ UNCHANGED <<again, pty, run, manual, auto, dbVars, procVars, flag, curPid,
                 sigVars, fwd, bg>>
ClearToMinusOne ==                     \* mutant: -1 stands for "no child"
  /\ Goto("clear", "readRestart")
  /\ PidTaskDone
  /\ curPid' = -1
  /\ UNCHANGED <<again, pty, run, manual, auto, dbVars, procVars, flag, sigVars, fwd, bg>>
Clear ==
  /\ Goto("clear", "readRestart")
  /\ PidTaskDone
  /\ curPid' = 0
  /\ UNCHANGED <<again, pty, run, manual, auto, dbVars, procVars, flag, sigVars, fwd, bg>>

ReadRestart ==
  /\ Goto("readRestart", "readStop")
  /\ manual' = flag["USR1"]
  /\ UNCHANGED <<again, pty, run, auto, dbVars, procVars, flag, curPid, sigVars, fwd, bg>>

AutoAfterStop == again /\ ~manual /\ ExitCode \notin {130, 143}  \* mutant
WillRestartAuto ==
  again /\ ~manual /\ ExitCode \notin {130, 143} /\ ~flag["TERM"]

ReadStop ==
  /\ Goto("readStop", "record")
  /\ auto' = WillRestartAuto
  /\ UNCHANGED <<again, pty, run, manual, dbVars, procVars, flag, curPid, sigVars, fwd, bg>>

(* stop_requested is loaded a second time to choose the status. *)
LeftRunning == IF manual THEN "running" ELSE "completed"          \* mutant
StopFirst ==                                                      \* mutant
  IF ExitCode = 0 THEN "completed" ELSE IF flag["TERM"] THEN "killed" ELSE "failed"
FinalStatus ==
  CASE manual                            -> "completed"
    [] ~manual /\ ExitCode = 0           -> "completed"
    [] ~manual /\ ExitCode # 0 /\ flag["TERM"]  -> "killed"
    [] ~manual /\ ExitCode # 0 /\ ~flag["TERM"] -> "failed"

Record ==
  /\ Goto("record", "branch")
  /\ row' = [row EXCEPT ![run] = FinalStatus]
  /\ UNCHANGED <<again, pty, run, manual, auto, pidRow, procVars, flag, curPid, sigVars,
                 fwd, bg>>

(* A requested restart wins, even over a stop; its flag is reset here. *)
RestartNow ==
  /\ Goto("branch", "manualDelay")
  /\ manual
  /\ flag' = [flag EXCEPT !["USR1"] = FALSE]
  /\ UNCHANGED <<again, pty, run, manual, auto, dbVars, procVars, curPid, sigVars, fwd, bg>>

RestartAuto ==
  /\ Goto("branch", "autoDelay")
  /\ ~manual /\ auto
  /\ UNCHANGED <<again, pty, run, manual, auto, dbVars, procVars, flag, curPid, sigVars,
                 fwd, bg>>

Leave ==
  /\ Goto("branch", "abort")
  /\ ~manual /\ ~auto
  /\ UNCHANGED <<again, pty, run, manual, auto, dbVars, procVars, flag, curPid, sigVars,
                 fwd, bg>>

(* The plain sleep before a requested restart looks at no flag. *)
ManualDelay ==
  /\ Goto("manualDelay", "create")
  /\ PromptHandlers => task["USR1"] # "flagged"
  /\ UNCHANGED <<again, pty, run, manual, auto, dbVars, procVars, flag, curPid, sigVars,
                 fwd, bg>>

(* The sleep before an automatic restart is raced against a poll of the    *)
(* stop flag every 50 ms: a stop in the last interval loses.               *)
AutoDelay ==
  /\ \/ Goto("autoDelay", "create")
     \/ Goto("autoDelay", "abort") /\ flag["TERM"]
  /\ UNCHANGED <<again, pty, run, manual, auto, dbVars, procVars, flag, curPid, sigVars,
                 fwd, bg>>

(* Both listeners are aborted; one that is listing a tree never signals. *)
Abort ==
  /\ Goto("abort", "exiting")
  /\ task' = [s \in Signals |-> "fin"]
  /\ UNCHANGED <<again, pty, run, manual, auto, dbVars, procVars, flag, curPid, target,
                 pend, caught, fwd, bg>>

Finish ==   \* the enrichment task has been awaited
  /\ Goto("exiting", "done")
  /\ UNCHANGED <<again, pty, run, manual, auto, dbVars, procVars, flag, curPid, sigVars,
                 fwd, bg>>

Loop ==
  \/ CreateRun \/ Spawn \/ EarlyReturn \/ Reap \/ Drain \/ Clear
  \/ ReadRestart \/ ReadStop \/ Record \/ RestartNow \/ RestartAuto \/ Leave
  \/ ManualDelay \/ AutoDelay \/ Abort \/ Finish

-----------------------------------------------------------------------------
(* The task spawned in each iteration to publish and record the PID. *)

BgStore ==
  /\ Alive /\ bg = "store"
  /\ curPid' = run /\ bg' = "record"
  /\ UNCHANGED <<loopVars, dbVars, procVars, flag, sigVars, fwd>>

BgRecord ==   \* a database error is only logged
  /\ Alive /\ bg = "record"
  /\ pidRow' \in {TRUE, pidRow} /\ bg' = "done"
  /\ UNCHANGED <<loopVars, row, procVars, flag, curPid, sigVars, fwd>>

-----------------------------------------------------------------------------
(* The listeners.  The USR1 listener loops; the TERM listener handles one  *)
(* signal and ends, after which only the forwarder reacts to SIGTERM.      *)

Resume(s) == IF s = "USR1" THEN "idle" ELSE "fin"

Register(s) ==
  /\ Alive /\ task[s] = "off"
  /\ task' = [task EXCEPT ![s] = "idle"] /\ caught' = caught \union {s}
  /\ UNCHANGED <<loopVars, dbVars, procVars, flag, curPid, target, pend, fwd, bg>>

Take(s) ==
  /\ Alive /\ task[s] = "idle" /\ pend[s]
  /\ pend' = [pend EXCEPT ![s] = FALSE]
  /\ flag' = [flag EXCEPT ![s] = TRUE]
  /\ task' = [task EXCEPT ![s] = "flagged"]
  /\ UNCHANGED <<loopVars, dbVars, procVars, curPid, target, caught, fwd, bg>>

LoadPid(s) ==
  /\ Alive /\ task[s] = "flagged"
  /\ IF curPid = 0
       THEN task' = [task EXCEPT ![s] = Resume(s)] /\ UNCHANGED target
       ELSE /\ task' = [task EXCEPT ![s] = "killing"]
            /\ target' = [target EXCEPT ![s] = curPid]
  /\ UNCHANGED <<loopVars, dbVars, procVars, flag, curPid, pend, caught, fwd, bg>>

(* SIGTERM to the process tree of the loaded PID.  A process that is no    *)
(* longer alive has no tree: its descendants have another parent.          *)
Fell(s) ==
  /\ child' = "dying"
  /\ helper' = IF helper = "alive" THEN "dying" ELSE helper

KillDescendants(s) ==    \* mutant: the root is left out of the kill order
  /\ Alive /\ task[s] = "killing"
  /\ task' = [task EXCEPT ![s] = Resume(s)]
  /\ helper' = IF helper = "alive" THEN "dying" ELSE helper
  /\ UNCHANGED <<loopVars, dbVars, child, wait, flag, curPid, target, pend,
                 caught, fwd, bg>>
KillTree(s) ==
  /\ Alive /\ task[s] = "killing"
  /\ task' = [task EXCEPT ![s] = Resume(s)]
  /\ IF target[s] = run /\ child \in {"alive", "dying"}
       THEN Fell(s)
       ELSE UNCHANGED <<child, helper>>
  /\ UNCHANGED <<loopVars, dbVars, wait, flag, curPid, target, pend, caught,
                 fwd, bg>>

(* The forwarder: registered some time after the child is waited for, it   *)
(* passes SIGTERM on to the child alone.                                   *)
FwdRegister ==
  /\ pc = "wait" /\ fwd = "off"
  /\ fwd' = "on" /\ caught' = caught \union {"TERM"}
  /\ UNCHANGED <<loopVars, dbVars, procVars, flag, curPid, task, target, pend, bg>>

Forward ==
  /\ pc = "wait" /\ fwd = "due"
  /\ fwd' = "on"
  /\ IF child \in {"alive", "dying"}
       THEN child' = "dying"
       ELSE UNCHANGED child
  /\ UNCHANGED <<loopVars, dbVars, helper, wait, flag, curPid, sigVars, bg>>

-----------------------------------------------------------------------------
(* The environment: `brainlog kill` and `brainlog restart` signal the      *)
(* wrapper; the wrapper or its child may be killed from outside; the       *)
(* wrapped command runs as it likes, and exits some time after SIGTERM.    *)
(* What it does once the wrapper is gone is no longer followed here.       *)

Deliver(s) ==
  /\ Alive /\ s \in Requests
  /\ IF s \in caught
       THEN /\ pend' = [pend EXCEPT ![s] = @ \/ task[s] \in {"idle", "flagged", "killing"}]
            /\ fwd' = IF s = "TERM" /\ fwd = "on" THEN "due" ELSE fwd
            /\ UNCHANGED pc
       ELSE pc' = "dead" /\ UNCHANGED <<pend, fwd>>
  /\ UNCHANGED <<again, pty, run, manual, auto, dbVars, procVars, flag, curPid, task, target,
                 caught, bg>>

KillWrapper ==   \* SIGKILL
  /\ Alive /\ "KILL" \in Requests
  /\ pc' = "dead"
  /\ UNCHANGED <<again, pty, run, manual, auto, dbVars, procVars, flag, curPid, sigVars,
                 fwd, bg>>

KillChild ==
  /\ Alive /\ "CHILD" \in Requests /\ child = "alive"
  /\ child' = "dying"
  /\ UNCHANGED <<loopVars, dbVars, helper, wait, flag, curPid, sigVars, fwd, bg>>

ChildForks ==
  /\ Alive /\ Forks /\ child = "alive" /\ helper = "none"
  /\ helper' = "alive"
  /\ UNCHANGED <<loopVars, dbVars, child, wait, flag, curPid, sigVars, fwd, bg>>

ChildExits ==   \* of its own accord
  /\ Alive /\ child = "alive"
  /\ child' = "zombie" /\ wait' \in ExitCodes
  /\ UNCHANGED <<loopVars, dbVars, helper, flag, curPid, sigVars, fwd, bg>>

ChildDies ==    \* of SIGTERM, or exiting from its own handler of it
  /\ Alive /\ child = "dying"
  /\ child' = "zombie" /\ wait' \in WaitStatus
  /\ UNCHANGED <<loopVars, dbVars, helper, flag, curPid, sigVars, fwd, bg>>

HelperExits ==
  /\ Alive /\ helper \in {"alive", "dying"}
  /\ helper' = "gone"
  /\ UNCHANGED <<loopVars, dbVars, child, wait, flag, curPid, sigVars, fwd, bg>>

Task(s) == Register(s) \/ Take(s) \/ LoadPid(s) \/ KillTree(s)

Environment ==
  \/ \E s \in Signals : Deliver(s)
  \/ KillWrapper \/ KillChild \/ ChildForks \/ ChildExits \/ ChildDies
  \/ HelperExits

Next ==
  \/ Loop
  \/ BgStore \/ BgRecord
  \/ \E s \in Signals : Task(s)
  \/ FwdRegister \/ Forward
  \/ Environment

Spec == Init /\ [][Next]_vars

(* The runtime schedules every ready task; a process that was sent SIGTERM *)
(* does exit; the delay before a restart ends even if restart requests     *)
(* keep coming.  Nothing obliges a command to stop by itself, or a step to  *)
(* fail -- but at the bound a wrapper that would go on fails.               *)
LastRun == pc = "create" /\ run = MaxRuns

Fairness ==
  /\ WF_vars(Loop /\ pc' # "error") /\ WF_vars(LastRun /\ EarlyReturn)
  /\ SF_vars(ManualDelay) /\ WF_vars(BgStore \/ BgRecord)
  /\ \A s \in Signals : WF_vars(Task(s))
  /\ WF_vars(FwdRegister) /\ WF_vars(Forward)
  /\ WF_vars(ChildDies) /\ WF_vars(helper = "dying" /\ HelperExits)

FairSpec == Spec /\ Fairness

-----------------------------------------------------------------------------
(* Properties. *)

Statuses == {"absent", "running", "completed", "failed", "killed"}
Steps == {"create", "spawn", "wait", "drain", "clear", "readRestart", "readStop",
          "record", "branch", "manualDelay", "autoDelay", "abort", "exiting"}
Between == {"create", "spawn", "readRestart", "readStop", "record", "branch",
            "manualDelay", "autoDelay", "abort", "exiting"}  \* no child to signal

(* Every variable holds a value of its type. *)
TypeOK ==
  /\ again \in BOOLEAN /\ pty \in BOOLEAN /\ pidRow \in BOOLEAN
  /\ manual \in BOOLEAN /\ auto \in BOOLEAN
  /\ pc \in Steps \union Ended
  /\ run \in 0 .. MaxRuns
  /\ row \in [Runs -> Statuses]
  /\ child \in {"none", "alive", "dying", "zombie", "reaped"}
  /\ helper \in {"none", "alive", "dying", "gone"}
  /\ wait \in WaitStatus \union {0}
  /\ flag \in [Signals -> BOOLEAN] /\ pend \in [Signals -> BOOLEAN]
  /\ curPid \in 0 .. MaxRuns
  /\ task \in [Signals -> {"off", "idle", "flagged", "killing", "fin"}]
  /\ target \in [Signals -> 0 .. MaxRuns]
  /\ caught \subseteq Signals
  /\ fwd \in {"off", "on", "due"}
  /\ bg \in {"waiting", "store", "record", "done"}

(* The published PID is that of the run being waited for, and none is       *)
(* published between two runs: a listener cannot aim at a child that an     *)
(* earlier iteration has left behind (run.rs:344-349).                      *)
PidIsCurrent ==
  /\ curPid \in {0, run}
  /\ pc \in Between => curPid = 0

(* The PID task never writes into a row whose final status is already       *)
(* recorded: update_run_pid and update_run_status of one run are ordered by *)
(* the await of the task (run.rs:250, 344, 391).                            *)
PidWrittenWhileOpen ==
  [][pidRow' /\ ~pidRow => row[run] = "running"]_vars

(* At most the current run of a wrapper is marked running: a restart closes *)
(* the row of one run before it opens the next (run.rs:172, 391).           *)
OneOpenRow == \A r \in Runs : row[r] = "running" => r = run

(* A restart request that got as far as aiming at a run's child is never    *)
(* lost: that run ends in a requested restart, not in the wrapper's exit or *)
(* an automatic restart, whatever the listener and the loop interleave      *)
(* (flag stored before the PID is loaded, PID withdrawn before the flag is: *)
(* run.rs:107-108, 349-372).                                                *)
RestartNotLost ==
  run > 0 /\ target["USR1"] = run =>
    /\ pc \in {"readStop", "record", "branch"} => manual
    /\ pc \notin {"autoDelay", "abort", "exiting", "done"}

(* A child the stop listener aimed at is never respawned by --restart: the  *)
(* stop flag is visible by the time the decision is taken (run.rs:135-137,  *)
(* 373-377).                                                                *)
StopNotLost ==
  run > 0 /\ target["TERM"] = run =>
    /\ pc \in {"record", "branch"} => ~auto
    /\ pc # "autoDelay"

(* What the operator did is what the row says: a run whose child a listener *)
(* aimed at is not recorded as a failure, and one it restarted is not       *)
(* recorded as killed either (run.rs:380-390).                              *)
IntentRecorded ==
  \A r \in Runs :
    /\ r = target["TERM"] => row[r] # "failed"
    /\ r = target["USR1"] => row[r] \notin {"failed", "killed"}

(* A stop that loaded the PID of a run's child ends the wrapper within that *)
(* run, whatever earlier runs ended in, unless a restart of the same run    *)
(* was requested as well (run.rs:133-146, 373-391).                         *)
StopHonoured ==
  \A r \in Runs :
    (task["TERM"] = "killing" /\ target["TERM"] = r /\ curPid = r)
      ~> run = r /\ (~Alive \/ (pc = "branch" /\ manual))

(* A restart that reached a child leads to the next run: the wrapper does   *)
(* not exit instead, unless it is killed or returns an error (run.rs:105-   *)
(* 118, 445-450).  At the last run of the bound there is no next one.       *)
RestartHonoured ==
  \A r \in 1 .. MaxRuns - 1 :
    (task["USR1"] = "killing" /\ target["USR1"] = r)
      ~> run > r \/ pc \in {"dead", "error"}

(* The exit of a child is recorded in its row, even if recording its PID    *)
(* failed (run.rs:344, 391).                                                *)
ExitRecorded ==
  child = "zombie" ~> ~Alive \/ (child = "reaped" /\ row[run] # "running")

(* A stop request ends the wrapper: "The wrapper's SIGTERM handler kills    *)
(* the child tree and exits cleanly" (cli/kill.rs:50).                      *)
StopExits == flag["TERM"] ~> ~Alive
=============================================================================
