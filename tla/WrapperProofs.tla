---------------------------- MODULE WrapperProofs ----------------------------
(***************************************************************************)
(* Safety of Wrapper for every bound on the number of runs, every set of   *)
(* exit codes and every set of requests.                                   *)
(***************************************************************************)
EXTENDS Wrapper, TLAPS

Closed == {"completed", "failed", "killed"}
Watched == {"wait", "drain", "clear"}       \* the current child may be published

(* Where the loop is says which rows are open and what the PID task may do. *)
LoopInv ==
  /\ pc \in Steps \ {"create"} => run \in Runs
  /\ curPid \in {0, run}
  /\ pc \in Between => curPid = 0
  /\ bg \in {"store", "record"} => pc \in Watched \union Ended
  /\ \A r \in Runs : r > run => row[r] = "absent"
  /\ \A r \in Runs : r < run => row[r] \in Closed
  /\ pc \in {"spawn", "readRestart", "readStop", "record"} \union Watched
       => row[run] = "running"
  /\ run > 0 /\ pc \in {"create", "branch", "manualDelay", "autoDelay", "abort",
                        "exiting", "done"} => row[run] \in Closed

(* A listener that aims at the current child stored its flag before, and    *)
(* the loop has yet to look at it.                                          *)
StopInv ==
  /\ target["TERM"] <= run
  /\ task["TERM"] \in {"flagged", "killing"} => flag["TERM"]
  /\ run > 0 /\ target["TERM"] = run => flag["TERM"]
  /\ StopNotLost
  /\ \A r \in Runs : r = target["TERM"] => row[r] # "failed"

RestartInv ==
  /\ target["USR1"] <= run
  /\ pc = "spawn" => target["USR1"] < run
  /\ task["USR1"] = "flagged" => flag["USR1"] \/ pc \in {"manualDelay"} \union Ended
  /\ run > 0 /\ target["USR1"] = run /\ pc \in Watched \union {"readRestart"}
       => flag["USR1"]
  /\ RestartNotLost
  /\ \A r \in Runs : r = target["USR1"] => row[r] \notin {"failed", "killed"}

-----------------------------------------------------------------------------
(* Every variable keeps its type. *)
LEMMA TypeInit == Init => TypeOK
<1> SUFFICES ASSUME Init PROVE TypeOK
  OBVIOUS
<1> USE WrapperAssumption DEF Init, TypeOK, Runs, Signals, Steps, Ended, Statuses,
        WaitStatus
<1>1. again \in BOOLEAN /\ pty \in BOOLEAN /\ pidRow \in BOOLEAN
  OBVIOUS
<1>2. manual \in BOOLEAN /\ auto \in BOOLEAN
  OBVIOUS
<1>3. run \in 0 .. MaxRuns /\ curPid \in 0 .. MaxRuns
  OBVIOUS
<1>4. row \in [Runs -> Statuses] /\ target \in [Signals -> 0 .. MaxRuns]
  OBVIOUS
<1>5. flag \in [Signals -> BOOLEAN] /\ pend \in [Signals -> BOOLEAN]
  OBVIOUS
<1>6. task \in [Signals -> {"off", "idle", "flagged", "killing", "fin"}]
  OBVIOUS
<1> QED BY <1>1, <1>2, <1>3, <1>4, <1>5, <1>6

(* Every action of the loop, its tasks and the environment keeps the types. *)
LEMMA TypeNext == TypeOK /\ [Next]_vars => TypeOK'
<1> SUFFICES ASSUME TypeOK, [Next]_vars PROVE TypeOK'
  OBVIOUS
<1> USE WrapperAssumption DEF TypeOK, Runs, Signals, Steps, Ended, Statuses,
        WaitStatus, Goto, Alive, loopVars, dbVars, procVars, sigVars
<1>1. CASE Loop
  <2>1. CASE CreateRun
    <3>1. run' \in 0 .. MaxRuns /\ row' \in [Runs -> Statuses]
      BY <2>1 DEF CreateRun
    <3>2. pidRow' \in BOOLEAN
      BY <2>1 DEF CreateRun
    <3> QED BY <2>1, <3>1, <3>2 DEF CreateRun
  <2>2. CASE Spawn        BY <2>2 DEF Spawn
  <2>3. CASE EarlyReturn  BY <2>3 DEF EarlyReturn
  <2>4. CASE Reap         BY <2>4 DEF Reap
  <2>5. CASE Drain        BY <2>5 DEF Drain
  <2>6. CASE Clear        BY <2>6 DEF Clear
  <2>7. CASE ReadRestart  BY <2>7 DEF ReadRestart
  <2>8. CASE ReadStop     BY <2>8 DEF ReadStop, WillRestartAuto
  <2>9. CASE Record
    <3>1. FinalStatus \in Statuses
      BY DEF FinalStatus
    <3>2. row' \in [Runs -> Statuses]
      BY <2>9, <3>1 DEF Record
    <3> QED BY <2>9, <3>2 DEF Record
  <2>10. CASE RestartNow  BY <2>10 DEF RestartNow
  <2>11. CASE RestartAuto BY <2>11 DEF RestartAuto
  <2>12. CASE Leave       BY <2>12 DEF Leave
  <2>13. CASE ManualDelay BY <2>13 DEF ManualDelay
  <2>14. CASE AutoDelay   BY <2>14 DEF AutoDelay
  <2>15. CASE Abort       BY <2>15 DEF Abort
  <2>16. CASE Finish      BY <2>16 DEF Finish
  <2> QED BY <1>1, <2>1, <2>2, <2>3, <2>4, <2>5, <2>6, <2>7, <2>8, <2>9, <2>10,
             <2>11, <2>12, <2>13, <2>14, <2>15, <2>16 DEF Loop
<1>2. CASE BgStore  BY <1>2 DEF BgStore
<1>3. CASE BgRecord
  <2>1. pidRow' \in BOOLEAN
    BY <1>3 DEF BgRecord
  <2> QED BY <1>3, <2>1 DEF BgRecord
<1>4. ASSUME NEW s \in Signals, Task(s) PROVE TypeOK'
  <2>1. CASE Register(s) BY <2>1 DEF Register
  <2>2. CASE Take(s)     BY <2>2 DEF Take
  <2>3. CASE LoadPid(s)  BY <2>3 DEF LoadPid, Resume
  <2>4. CASE KillTree(s) BY <2>4 DEF KillTree, Fell, Resume
  <2> QED BY <1>4, <2>1, <2>2, <2>3, <2>4 DEF Task
<1>5. CASE FwdRegister BY <1>5 DEF FwdRegister
<1>6. CASE Forward     BY <1>6 DEF Forward
<1>7. CASE Environment
  <2>1. ASSUME NEW s \in Signals, Deliver(s) PROVE TypeOK'
    <3>1. pend' \in [Signals -> BOOLEAN]
      <4>1. (pend[s] \/ task[s] \in {"idle", "flagged", "killing"}) \in BOOLEAN
        OBVIOUS
      <4>2. PICK b \in BOOLEAN : pend' \in {pend, [pend EXCEPT ![s] = b]}
        BY <2>1, <4>1 DEF Deliver
      <4>3. ASSUME NEW t \in Signals PROVE [pend EXCEPT ![s] = b][t] \in BOOLEAN
        OBVIOUS
      <4> QED BY <4>2, <4>3
    <3>2. fwd' \in {"off", "on", "due"} /\ pc' \in Steps \union Ended
      BY <2>1 DEF Deliver
    <3> QED BY <2>1, <3>1, <3>2 DEF Deliver
  <2>2. CASE KillWrapper BY <2>2 DEF KillWrapper
  <2>3. CASE KillChild   BY <2>3 DEF KillChild
  <2>4. CASE ChildForks  BY <2>4 DEF ChildForks
  <2>5. CASE ChildExits  BY <2>5 DEF ChildExits
  <2>6. CASE ChildDies   BY <2>6 DEF ChildDies
  <2>7. CASE HelperExits BY <2>7 DEF HelperExits
  <2> QED BY <1>7, <2>1, <2>2, <2>3, <2>4, <2>5, <2>6, <2>7 DEF Environment
<1>8. CASE UNCHANGED vars BY <1>8 DEF vars
<1> QED BY <1>1, <1>2, <1>3, <1>4, <1>5, <1>6, <1>7, <1>8 DEF Next

(* Every reachable state of handle_run and its tasks is well typed. *)
THEOREM TypeCorrect == Spec => []TypeOK
  BY TypeInit, TypeNext, PTL DEF Spec

-----------------------------------------------------------------------------
(* The rows and the published PID follow the loop. *)
LEMMA LoopInit == Init => LoopInv
  BY WrapperAssumption DEF Init, LoopInv, Runs, Steps, Ended, Watched, Closed,
                           Between

(* One iteration opens one row and closes it, and publishes one PID. *)
LEMMA LoopNext ==
  TypeOK /\ LoopInv /\ [Next]_vars => LoopInv'
<1> SUFFICES ASSUME TypeOK, LoopInv, [Next]_vars PROVE LoopInv'
  OBVIOUS
<1> USE WrapperAssumption DEF TypeOK, LoopInv, Runs, Steps, Ended, Watched, Closed, Statuses,
        Between, Goto, Alive, loopVars, dbVars, procVars, sigVars
<1>1. CASE Loop
  <2>1. CASE CreateRun BY <2>1 DEF CreateRun
  <2>2. CASE Spawn BY <2>2 DEF Spawn
  <2>3. CASE EarlyReturn BY <2>3 DEF EarlyReturn
  <2>4. CASE Reap BY <2>4 DEF Reap
  <2>5. CASE Drain BY <2>5 DEF Drain
  <2>6. CASE Clear BY <2>6 DEF Clear, PidTaskDone
  <2>7. CASE ReadRestart BY <2>7 DEF ReadRestart
  <2>8. CASE ReadStop BY <2>8 DEF ReadStop, WillRestartAuto
  <2>9. CASE Record BY <2>9 DEF Record, FinalStatus
  <2>10. CASE RestartNow BY <2>10 DEF RestartNow
  <2>11. CASE RestartAuto BY <2>11 DEF RestartAuto
  <2>12. CASE Leave BY <2>12 DEF Leave
  <2>13. CASE ManualDelay BY <2>13 DEF ManualDelay
  <2>14. CASE AutoDelay BY <2>14 DEF AutoDelay
  <2>15. CASE Abort BY <2>15 DEF Abort
  <2>16. CASE Finish BY <2>16 DEF Finish
  <2> QED BY <1>1, <2>1, <2>2, <2>3, <2>4, <2>5, <2>6, <2>7, <2>8,
             <2>9, <2>10, <2>11, <2>12, <2>13, <2>14, <2>15, <2>16 DEF Loop
<1>2. CASE BgStore BY <1>2 DEF BgStore
<1>3. CASE BgRecord BY <1>3 DEF BgRecord
<1>4. ASSUME NEW s \in Signals, Task(s) PROVE LoopInv'
  <2>1. CASE Register(s) BY <2>1 DEF Register
  <2>2. CASE Take(s) BY <2>2 DEF Take
  <2>3. CASE LoadPid(s) BY <2>3 DEF LoadPid, Resume
  <2>4. CASE KillTree(s) BY <2>4 DEF KillTree, Resume
  <2> QED BY <1>4, <2>1, <2>2, <2>3, <2>4 DEF Task
<1>5. CASE FwdRegister BY <1>5 DEF FwdRegister
<1>6. CASE Forward BY <1>6 DEF Forward
<1>7. CASE Environment
  BY <1>7 DEF Environment, Deliver, KillWrapper, KillChild, ChildForks,
              ChildExits, ChildDies, HelperExits
<1>8. CASE UNCHANGED vars BY <1>8 DEF vars
<1> QED BY <1>1, <1>2, <1>3, <1>4, <1>5, <1>6, <1>7, <1>8 DEF Next

(* Where the loop of run.rs:155-477 is determines rows and PID. *)
THEOREM LoopCorrect == Spec => []LoopInv
  BY LoopInit, LoopNext, TypeCorrect, PTL DEF Spec

-----------------------------------------------------------------------------
(* What a listener aimed at is remembered by the loop. *)
LEMMA StopInit == Init => StopInv
  BY WrapperAssumption DEF Init, StopInv, StopNotLost, Runs, Signals

(* Nothing resets stop_requested, so a target implies the flag for good. *)
LEMMA StopNext ==
  TypeOK /\ LoopInv /\ StopInv /\ [Next]_vars => StopInv'
<1> SUFFICES ASSUME TypeOK, LoopInv, StopInv, [Next]_vars PROVE StopInv'
  OBVIOUS
<1> USE WrapperAssumption DEF TypeOK, LoopInv, StopInv, StopNotLost, Signals,
        Runs, Steps, Ended, Watched, Closed, Statuses,
        Between, Goto, Alive, loopVars, dbVars, procVars, sigVars
<1>1. CASE Loop
  <2>1. CASE CreateRun BY <2>1 DEF CreateRun
  <2>2. CASE Spawn BY <2>2 DEF Spawn
  <2>3. CASE EarlyReturn BY <2>3 DEF EarlyReturn
  <2>4. CASE Reap BY <2>4 DEF Reap
  <2>5. CASE Drain BY <2>5 DEF Drain
  <2>6. CASE Clear BY <2>6 DEF Clear, PidTaskDone
  <2>7. CASE ReadRestart BY <2>7 DEF ReadRestart
  <2>8. CASE ReadStop BY <2>8 DEF ReadStop, WillRestartAuto
  <2>9. CASE Record BY <2>9 DEF Record, FinalStatus
  <2>10. CASE RestartNow BY <2>10 DEF RestartNow
  <2>11. CASE RestartAuto BY <2>11 DEF RestartAuto
  <2>12. CASE Leave BY <2>12 DEF Leave
  <2>13. CASE ManualDelay BY <2>13 DEF ManualDelay
  <2>14. CASE AutoDelay BY <2>14 DEF AutoDelay
  <2>15. CASE Abort BY <2>15 DEF Abort
  <2>16. CASE Finish BY <2>16 DEF Finish
  <2> QED BY <1>1, <2>1, <2>2, <2>3, <2>4, <2>5, <2>6, <2>7, <2>8,
             <2>9, <2>10, <2>11, <2>12, <2>13, <2>14, <2>15, <2>16 DEF Loop
<1>2. CASE BgStore BY <1>2 DEF BgStore
<1>3. CASE BgRecord BY <1>3 DEF BgRecord
<1>4. ASSUME NEW s \in Signals, Task(s) PROVE StopInv'
  <2>1. CASE Register(s) BY <2>1 DEF Register
  <2>2. CASE Take(s) BY <2>2 DEF Take
  <2>3. CASE LoadPid(s) BY <2>3 DEF LoadPid, Resume
  <2>4. CASE KillTree(s) BY <2>4 DEF KillTree, Resume
  <2> QED BY <1>4, <2>1, <2>2, <2>3, <2>4 DEF Task
<1>5. CASE FwdRegister BY <1>5 DEF FwdRegister
<1>6. CASE Forward BY <1>6 DEF Forward
<1>7. CASE Environment
  BY <1>7 DEF Environment, Deliver, KillWrapper, KillChild, ChildForks,
              ChildExits, ChildDies, HelperExits
<1>8. CASE UNCHANGED vars BY <1>8 DEF vars
<1> QED BY <1>1, <1>2, <1>3, <1>4, <1>5, <1>6, <1>7, <1>8 DEF Next

(* No restart has been requested before the loop begins. *)
LEMMA RestartInit == Init => RestartInv
  BY WrapperAssumption DEF Init, RestartInv, RestartNotLost, Runs, Signals

(* restart_requested is reset (run.rs:446), but never between a listener's  *)
(* store of it and the load that finds the child of that run.               *)
LEMMA RestartNext ==
  PromptHandlers /\ TypeOK /\ LoopInv /\ RestartInv /\ [Next]_vars => RestartInv'
<1> SUFFICES ASSUME PromptHandlers, TypeOK, LoopInv, RestartInv, [Next]_vars
             PROVE  RestartInv'
  OBVIOUS
<1> USE WrapperAssumption DEF TypeOK, LoopInv, RestartInv, RestartNotLost, Signals,
        Runs, Steps, Ended, Watched, Closed, Statuses,
        Between, Goto, Alive, loopVars, dbVars, procVars, sigVars
<1>1. CASE Loop
  <2>1. CASE CreateRun BY <2>1 DEF CreateRun
  <2>2. CASE Spawn BY <2>2 DEF Spawn
  <2>3. CASE EarlyReturn BY <2>3 DEF EarlyReturn
  <2>4. CASE Reap BY <2>4 DEF Reap
  <2>5. CASE Drain BY <2>5 DEF Drain
  <2>6. CASE Clear BY <2>6 DEF Clear, PidTaskDone
  <2>7. CASE ReadRestart BY <2>7 DEF ReadRestart
  <2>8. CASE ReadStop BY <2>8 DEF ReadStop, WillRestartAuto
  <2>9. CASE Record BY <2>9 DEF Record, FinalStatus
  <2>10. CASE RestartNow BY <2>10 DEF RestartNow
  <2>11. CASE RestartAuto BY <2>11 DEF RestartAuto
  <2>12. CASE Leave BY <2>12 DEF Leave
  <2>13. CASE ManualDelay BY <2>13 DEF ManualDelay
  <2>14. CASE AutoDelay BY <2>14 DEF AutoDelay
  <2>15. CASE Abort BY <2>15 DEF Abort
  <2>16. CASE Finish BY <2>16 DEF Finish
  <2> QED BY <1>1, <2>1, <2>2, <2>3, <2>4, <2>5, <2>6, <2>7, <2>8,
             <2>9, <2>10, <2>11, <2>12, <2>13, <2>14, <2>15, <2>16 DEF Loop
<1>2. CASE BgStore BY <1>2 DEF BgStore
<1>3. CASE BgRecord BY <1>3 DEF BgRecord
<1>4. ASSUME NEW s \in Signals, Task(s) PROVE RestartInv'
  <2>1. CASE Register(s) BY <2>1 DEF Register
  <2>2. CASE Take(s) BY <2>2 DEF Take
  <2>3. CASE LoadPid(s) BY <2>3 DEF LoadPid, Resume
  <2>4. CASE KillTree(s) BY <2>4 DEF KillTree, Resume
  <2> QED BY <1>4, <2>1, <2>2, <2>3, <2>4 DEF Task
<1>5. CASE FwdRegister BY <1>5 DEF FwdRegister
<1>6. CASE Forward BY <1>6 DEF Forward
<1>7. CASE Environment
  BY <1>7 DEF Environment, Deliver, KillWrapper, KillChild, ChildForks,
              ChildExits, ChildDies, HelperExits
<1>8. CASE UNCHANGED vars BY <1>8 DEF vars
<1> QED BY <1>1, <1>2, <1>3, <1>4, <1>5, <1>6, <1>7, <1>8 DEF Next

(* What the stop listener aimed at, the loop knows of (run.rs:133-137, 373). *)
THEOREM StopCorrect == Spec => []StopInv
  BY StopInit, StopNext, LoopCorrect, TypeCorrect, PTL DEF Spec

-----------------------------------------------------------------------------
(* The theorems about the properties of Wrapper. *)

(* A listener can only aim at the child the loop is waiting for. *)
THEOREM PidCurrent == Spec => []PidIsCurrent
<1>1. LoopInv => PidIsCurrent
  BY DEF LoopInv, PidIsCurrent
<1> QED BY <1>1, LoopCorrect, PTL

(* One run of a wrapper is open at a time. *)
THEOREM OneOpen == Spec => []OneOpenRow
<1>1. TypeOK /\ LoopInv => OneOpenRow
  BY WrapperAssumption DEF TypeOK, LoopInv, OneOpenRow, Runs, Closed
<1> QED BY <1>1, LoopCorrect, TypeCorrect, PTL

(* A run's PID is never written after its final status. *)
THEOREM PidBeforeStatus == Spec => PidWrittenWhileOpen
<1>1. TypeOK /\ LoopInv /\ [Next]_vars =>
        [pidRow' /\ ~pidRow => row[run] = "running"]_vars
  <2> SUFFICES ASSUME TypeOK, LoopInv, Next, pidRow', ~pidRow
               PROVE  row[run] = "running"
    OBVIOUS
  <2>1. BgRecord
    BY DEF Next, Loop, CreateRun, Spawn, EarlyReturn, Reap, Drain, Clear,
           ReadRestart, ReadStop, Record, RestartNow, RestartAuto, Leave,
           ManualDelay, AutoDelay, Abort, Finish, BgStore, Task, Register, Take,
           LoadPid, KillTree, FwdRegister, Forward, Environment, Deliver,
           KillWrapper, KillChild, ChildForks, ChildExits, ChildDies,
           HelperExits, dbVars, TypeOK
  <2>2. pc \in Watched
    BY <2>1 DEF BgRecord, LoopInv, Alive
  <2> QED BY <2>2 DEF LoopInv
<1> QED BY <1>1, LoopCorrect, TypeCorrect, PTL DEF Spec, PidWrittenWhileOpen

(* --restart never respawns a child that the stop listener aimed at. *)
THEOREM StopKept == Spec => []StopNotLost
<1>1. StopInv => StopNotLost
  BY DEF StopInv
<1> QED BY <1>1, StopCorrect, PTL

(* If the restart delay outlasts the gap inside a listener, the loop knows  *)
(* of every restart that aimed at a child (run.rs:105-108, 372, 446).       *)
THEOREM RestartCorrect == PromptHandlers => (Spec => []RestartInv)
<1> SUFFICES ASSUME PromptHandlers PROVE Spec => []RestartInv
  OBVIOUS
<1>1. TypeOK /\ LoopInv /\ RestartInv /\ [Next]_vars => RestartInv'
  BY RestartNext
<1> QED BY <1>1, RestartInit, LoopCorrect, TypeCorrect, PTL DEF Spec

(* ... and such a restart is carried out (run.rs:372, 445-450). *)
THEOREM RestartKept == PromptHandlers => (Spec => []RestartNotLost)
<1>1. RestartInv => RestartNotLost
  BY DEF RestartInv
<1> QED BY <1>1, RestartCorrect, PTL

(* What a listener aimed at is not recorded as a failure. *)
THEOREM IntentKept == PromptHandlers => (Spec => []IntentRecorded)
<1>1. StopInv /\ RestartInv => IntentRecorded
  BY DEF StopInv, RestartInv, IntentRecorded
<1> QED BY <1>1, StopCorrect, RestartCorrect, PTL
=============================================================================
