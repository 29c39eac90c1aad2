------------------------------ MODULE RunStore ------------------------------
(***************************************************************************)
(* The runs table, shared by wrapper processes that write it and by        *)
(* readers that first sweep it (storage/reconcile.rs): `list`, `kill`,     *)
(* `purge`, the MCP tools.  Processes are found again by PID, and PIDs are *)
(* recycled.                                                               *)
(*                                                                         *)
(* A wrapper is followed step by database step; module Wrapper shows what  *)
(* happens between them.  A process that exits gives its PID back when it  *)
(* is reaped; until then it is a zombie.                                   *)
(***************************************************************************)
EXTENDS Naturals, FiniteSets

CONSTANTS
  Wrappers,   \* wrapper processes, over the whole history of the machine
  Runs,       \* run ids
  Pids,
  Readers,    \* processes that sweep the table before reading it
  Recycle,    \* kinds of process that may be given a PID used before
  PsFails,    \* may `ps` fail to tell what an existing process is?
  Free, Stranger, NoPid, NoRun   \* values that are none of the above

ASSUME StoreAssumption ==
  /\ Recycle \subseteq {"wrapper", "child", "stranger"}
  /\ PsFails \in BOOLEAN
  /\ Wrappers \intersect Runs = {}
  /\ {Free, Stranger, NoRun} \intersect (Wrappers \union Runs) = {}
  /\ Free # Stranger
  /\ NoPid \notin Pids

VARIABLES
  proc,     \* who occupies each PID
  used,     \* PIDs that have ever been given out
  zombies,  \* runs whose child has exited and is not yet reaped
  named,    \* runs whose child shows the recorded executable's name
  wpc,      \* where each wrapper is
  pidOf,    \* the PID of each wrapper
  cur,      \* its current run
  unsaved,  \* the child's PID, while its PID task has yet to record it
  status, owner, rpid,   \* the runs table (wrapper_pid is pidOf[owner])
  todo,     \* rows a reader has listed and not looked at: <<run, pid>>
  at,       \* the row it looks at
  rpc       \* and what it has found out about it

osVars      == <<proc, used, zombies, named>>
wrapperVars == <<wpc, pidOf, cur, unsaved>>
rowVars     == <<status, owner, rpid>>
readerVars  == <<todo, at, rpc>>
vars == <<osVars, wrapperVars, rowVars, readerVars>>

Live == {"create", "spawn", "wait", "close"}  \* wrapper steps
Final == {"completed", "failed", "killed", "crashed"}
Nothing == <<NoRun, NoPid>>

Init ==
  /\ proc = [p \in Pids |-> Free] /\ used = {} /\ zombies = {} /\ named = {}
  /\ wpc = [w \in Wrappers |-> "new"]
  /\ pidOf = [w \in Wrappers |-> NoPid] /\ cur = [w \in Wrappers |-> NoRun]
  /\ unsaved = [w \in Wrappers |-> NoPid]
  /\ status = [r \in Runs |-> "absent"] /\ owner = [r \in Runs |-> NoRun]
  /\ rpid = [r \in Runs |-> NoPid]
  /\ todo = [c \in Readers |-> {}] /\ at = [c \in Readers |-> Nothing]
  /\ rpc = [c \in Readers |-> "idle"]

-----------------------------------------------------------------------------
(* The operating system. *)

GivePid(p, x, kind) ==
  /\ proc[p] = Free /\ (kind \in Recycle \/ p \notin used)
  /\ proc' = [proc EXCEPT ![p] = x] /\ used' = used \union {p}

Without(xs) == [p \in Pids |-> IF proc[p] \in xs THEN Free ELSE proc[p]]

StrangerStarts(p) ==
  /\ GivePid(p, Stranger, "stranger")
  /\ UNCHANGED <<zombies, named, wrapperVars, rowVars, readerVars>>

StrangerExits(p) ==
  /\ proc[p] = Stranger
  /\ proc' = [proc EXCEPT ![p] = Free]
  /\ UNCHANGED <<used, zombies, named, wrapperVars, rowVars, readerVars>>

ChildLives(r) == (\E p \in Pids : proc[p] = r) /\ r \notin zombies

ChildExits(r) ==
  /\ ChildLives(r)
  /\ zombies' = zombies \union {r}
  /\ UNCHANGED <<proc, used, named, wrapperVars, rowVars, readerVars>>

InitReaps(r) ==   \* the child of a wrapper that is gone has another parent
  /\ r \in zombies /\ owner[r] \in Wrappers /\ wpc[owner[r]] = "gone"
  /\ zombies' = zombies \ {r} /\ proc' = Without({r})
  /\ UNCHANGED <<used, named, wrapperVars, rowVars, readerVars>>

-----------------------------------------------------------------------------
(* A wrapper. *)

Start(w, p) ==
  /\ wpc[w] = "new"
  /\ GivePid(p, w, "wrapper")
  /\ pidOf' = [pidOf EXCEPT ![w] = p] /\ wpc' = [wpc EXCEPT ![w] = "create"]
  /\ UNCHANGED <<zombies, named, cur, unsaved, rowVars, readerVars>>

CreateRun(w, r) ==
  /\ wpc[w] = "create" /\ status[r] = "absent"
  /\ status' = [status EXCEPT ![r] = "running"]
  /\ owner' = [owner EXCEPT ![r] = w]
  /\ cur' = [cur EXCEPT ![w] = r] /\ wpc' = [wpc EXCEPT ![w] = "spawn"]
  /\ UNCHANGED <<osVars, pidOf, unsaved, rpid, readerVars>>

(* The child may exec something else, or be a script run by an interpreter: *)
(* then its name is not the recorded one.                                  *)
Spawn(w, p) ==
  /\ wpc[w] = "spawn"
  /\ GivePid(p, cur[w], "child")
  /\ named' \in {named, named \union {cur[w]}}
  /\ unsaved' = [unsaved EXCEPT ![w] = p]
  /\ wpc' = [wpc EXCEPT ![w] = "wait"]
  /\ UNCHANGED <<zombies, pidOf, cur, rowVars, readerVars>>

(* update_run_pid, in a task of its own: the child may be reaped already    *)
(* and its PID have changed hands.  A failure is only logged.               *)
RecordAnyPid(w) ==   \* mutant: `pid > 0` is not checked
  /\ unsaved[w] # NoPid
  /\ rpid' \in {rpid, [rpid EXCEPT ![cur[w]] = 0]}
  /\ unsaved' = [unsaved EXCEPT ![w] = NoPid]
  /\ UNCHANGED <<osVars, wpc, pidOf, cur, status, owner, readerVars>>
RecordPid(w) ==
  /\ unsaved[w] # NoPid
  /\ rpid' \in {rpid, [rpid EXCEPT ![cur[w]] = unsaved[w]]}
  /\ unsaved' = [unsaved EXCEPT ![w] = NoPid]
  /\ UNCHANGED <<osVars, wpc, pidOf, cur, status, owner, readerVars>>

Reap(w) ==
  /\ wpc[w] = "wait" /\ cur[w] \in zombies
  /\ zombies' = zombies \ {cur[w]} /\ proc' = Without({cur[w]})
  /\ wpc' = [wpc EXCEPT ![w] = "close"]
  /\ UNCHANGED <<used, named, pidOf, cur, unsaved, rowVars, readerVars>>

(* The PID task is awaited; update_run_status writes whatever was there.   *)
Close(w, s) ==
  /\ wpc[w] = "close" /\ unsaved[w] = NoPid
  /\ status' = [status EXCEPT ![cur[w]] = s]
  /\ wpc' = [wpc EXCEPT ![w] = "create"]
  /\ UNCHANGED <<osVars, pidOf, cur, unsaved, owner, rpid, readerVars>>

(* The wrapper process ends: with its loop, by an early return, or killed; *)
(* the child of a killed wrapper lives on.                                 *)
WrapperEnds(w) ==
  /\ wpc[w] \in Live
  /\ wpc' = [wpc EXCEPT ![w] = "gone"]
  /\ proc' = Without({w}) /\ unsaved' = [unsaved EXCEPT ![w] = NoPid]
  /\ UNCHANGED <<used, zombies, named, pidOf, cur, rowVars, readerVars>>

-----------------------------------------------------------------------------
(* A reader: reconcile_stale_runs. *)

List(c) ==
  /\ rpc[c] = "idle" /\ todo[c] = {}
  /\ todo' = [todo EXCEPT ![c] =
                {<<r, rpid[r]>> : r \in {q \in Runs : status[q] = "running"}}]
  /\ rpc' = [rpc EXCEPT ![c] = "next"]
  /\ UNCHANGED <<osVars, wrapperVars, rowVars, at>>

Pick(c) ==
  /\ rpc[c] = "next"
  /\ \E x \in todo[c] :
       /\ todo' = [todo EXCEPT ![c] = @ \ {x}] /\ at' = [at EXCEPT ![c] = x]
  /\ rpc' = [rpc EXCEPT ![c] = "wrapper"]
  /\ UNCHANGED <<osVars, wrapperVars, rowVars>>

SweepEnds(c) ==
  /\ rpc[c] = "next" /\ todo[c] = {}
  /\ at' = [at EXCEPT ![c] = Nothing] /\ rpc' = [rpc EXCEPT ![c] = "idle"]
  /\ UNCHANGED <<osVars, wrapperVars, rowVars, todo>>

(* process_is: a live process that goes by an expected name, or one that    *)
(* exists while ps cannot tell.                                             *)
Existing(p)     == proc[p] # Free              \* mutant of IsWrapper
NotAWrapper(p)  == FALSE                       \* mutant of IsWrapper
IsWrapper(p)    == proc[p] \in Wrappers
NotRecorded(p)  == FALSE                       \* mutant of IsExecutable
IsExecutable(p) == proc[p] \in named \ zombies

Alive(p, looksRight) == looksRight \/ (PsFails /\ proc[p] # Free)
Verdicts(p, looksRight) == {looksRight, Alive(p, looksRight)}
WrapperPid(r) == pidOf[owner[r]]

CheckWrapper(c) ==
  /\ rpc[c] = "wrapper"
  /\ LET p == WrapperPid(at[c][1]) IN
       \E alive \in Verdicts(p, IsWrapper(p)) :
         rpc' = [rpc EXCEPT ![c] = IF alive THEN "next" ELSE "child"]
  /\ UNCHANGED <<osVars, wrapperVars, rowVars, todo, at>>

CheckChild(c) ==
  /\ rpc[c] = "child"
  /\ LET p == at[c][2] IN
       \E alive \in IF p = NoPid THEN {FALSE} ELSE Verdicts(p, IsExecutable(p)) :
         rpc' = [rpc EXCEPT ![c] = IF alive THEN "next" ELSE "dead"]
  /\ UNCHANGED <<osVars, wrapperVars, rowVars, todo, at>>

(* finalize_stale_run: only a row still `running` is touched.  An error    *)
(* leaves the row for a later sweep.                                       *)
Unconditionally(r) == TRUE                     \* mutant: no status guard
MayFinalize(r) == status[r] = "running"

Finalize(c) ==
  /\ rpc[c] = "dead"
  /\ \/ MayFinalize(at[c][1]) /\ status' = [status EXCEPT ![at[c][1]] = "crashed"]
     \/ UNCHANGED status
  /\ rpc' = [rpc EXCEPT ![c] = "next"]
  /\ UNCHANGED <<osVars, wrapperVars, owner, rpid, todo, at>>

-----------------------------------------------------------------------------
WrapperStep(w) ==
  \/ \E p \in Pids : Start(w, p) \/ Spawn(w, p)
  \/ \E r \in Runs : CreateRun(w, r)
  \/ RecordPid(w) \/ Reap(w)
  \/ \E s \in Final \ {"crashed"} : Close(w, s)
  \/ WrapperEnds(w)

ReaderStep(c) ==
  List(c) \/ Pick(c) \/ SweepEnds(c) \/ CheckWrapper(c) \/ CheckChild(c)
    \/ Finalize(c)

SystemStep ==
  \/ \E p \in Pids : StrangerStarts(p) \/ StrangerExits(p)
  \/ \E r \in Runs : ChildExits(r) \/ InitReaps(r)

Next ==
  \/ \E w \in Wrappers : WrapperStep(w)
  \/ \E c \in Readers : ReaderStep(c)
  \/ SystemStep

Spec == Init /\ [][Next]_vars

(* Whoever reads keeps sweeping, and a locked database is transient; a      *)
(* wrapper or a child need never end.                                       *)
Fairness ==
  \A c \in Readers :
    /\ WF_vars(ReaderStep(c))
    /\ SF_vars(Finalize(c) /\ status' # status)

FairSpec == Spec /\ Fairness

-----------------------------------------------------------------------------
(* Properties. *)

(* Every variable holds a value of its type. *)
TypeOK ==
  /\ proc \in [Pids -> Wrappers \union Runs \union {Free, Stranger}]
  /\ used \subseteq Pids /\ zombies \subseteq Runs /\ named \subseteq Runs
  /\ wpc \in [Wrappers -> Live \union {"new", "gone"}]
  /\ pidOf \in [Wrappers -> Pids \union {NoPid}]
  /\ cur \in [Wrappers -> Runs \union {NoRun}]
  /\ unsaved \in [Wrappers -> Pids \union {NoPid}]
  /\ status \in [Runs -> Final \union {"absent", "running"}]
  /\ owner \in [Runs -> Wrappers \union {NoRun}]
  /\ rpid \in [Runs -> Pids \union {NoPid}]
  /\ todo \in [Readers -> SUBSET (Runs \X (Pids \union {NoPid}))]
  /\ at \in [Readers -> (Runs \X (Pids \union {NoPid})) \union {Nothing}]
  /\ rpc \in [Readers -> {"idle", "next", "wrapper", "child", "dead"}]

(* A run is declared crashed only if the wrapper that would record its end  *)
(* is gone, although the reader decided on a list that may be arbitrarily   *)
(* old and the PIDs in it may have changed hands (reconcile.rs:137-158).    *)
CrashedOwnerGone ==
  \A r \in Runs : status[r] = "crashed" => wpc[owner[r]] = "gone"

(* When a reader has found a run dead, it is: its wrapper is gone, and its  *)
(* child too if the list showed its PID and it goes by the recorded name    *)
(* (reconcile.rs:100-117).                                                  *)
VerdictSound ==
  \A c \in Readers : rpc[c] = "dead" =>
    LET r == at[c][1] IN
      /\ wpc[owner[r]] = "gone"
      /\ at[c][2] # NoPid /\ r \in named => ~ChildLives(r)

(* The runs table keeps the promise of RunLifecycle: a final status is      *)
(* never overwritten, neither by a sweep racing the wrapper's own update    *)
(* ("never clobbered", db.rs:167) nor by that unconditional update itself.  *)
Lifecycle == INSTANCE RunLifecycle WITH Runs <- Runs, status <- status
RowsSettle == Lifecycle!Spec

(* A run whose wrapper and child are gone does not stay `running`, as long  *)
(* as its wrapper's PID has not gone to another wrapper, nor its child's to *)
(* another child (module comment of reconcile.rs).                          *)
Heals ==
  \A r \in Runs :
    (status[r] = "running" /\ wpc[owner[r]] = "gone" /\ ~ChildLives(r))
      ~> status[r] # "running"
=============================================================================
