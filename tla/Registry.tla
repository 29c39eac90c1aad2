------------------------------ MODULE Registry ------------------------------
(***************************************************************************)
(* The commands that share the database: `run` with its wrapper loop and   *)
(* its enrichment, `purge`, `kill` and `restart` (or their tools), as      *)
(* sequences of the statements of Tables.  Every statement is atomic and   *)
(* no two are in one transaction, so the commands interleave at each one.  *)
(*                                                                         *)
(* Here a PID is a process: RunStore is about PIDs that change hands, and  *)
(* Wrapper about the inside of a wrapper.                                  *)
(***************************************************************************)
EXTENDS Tables

CONSTANTS
  Clients,    \* processes that purge, kill or restart, one after the other
  Derived,    \* the name derived from the command, when none is given
  Typed       \* the names users give, which may be derived ones: they are
              \* exported to the child and printed as a hint when it ends

ASSUME RegistryAssumption ==
  /\ Derived \in Names /\ Typed \subseteq Names \ {Superseded}
  /\ None \notin Wrappers \union Statuses

VARIABLES
  cmd,        \* each `run` command and its wrapper
  child,      \* runs whose child process lives
  dir,        \* the log directory of each run: none, there, removed
  given,      \* services created under a name that a user gave
  client      \* each client

vars == <<tables, cmd, child, dir, given, client>>

(* naming: whether a name is still to be asked of the language model.      *)
NewCmd  == [pc |-> "new", name |-> None, svc |-> None, run |-> None,
            naming |-> "never", asked |-> {}]
GoneCmd == [NewCmd EXCEPT !.pc = "gone"]
Idle    == [pc |-> "idle", force |-> FALSE, cutoff |-> 0, since |-> 0,
            todo |-> {}, at |-> None, dirs |-> {}, who |-> None]
RInit ==
  /\ clock = 1 /\ services = <<>> /\ runs = <<>> /\ tags = {} /\ ports = {}
  /\ version = <<Current>> /\ opener = [o \in Openers |-> "open"]
  /\ cmd = [c \in Wrappers |-> NewCmd] /\ child = {}
  /\ dir = [r \in 1..MaxClock |-> "none"] /\ given = {}
  /\ client = [k \in Clients |-> Idle]

Up(c) == cmd[c].pc \notin {"new", "gone"}
Read  == UNCHANGED tables

-----------------------------------------------------------------------------
(* `run` (cli/run.rs): the service. *)

CmdIs(c, pc)    == cmd[c].pc = pc
CmdTo(c, state) == cmd' = [cmd EXCEPT ![c] = state]
CmdGoes(c, pc)  == CmdTo(c, [cmd[c] EXCEPT !.pc = pc])

Starts(c, state) ==
  /\ CmdIs(c, "new") /\ CmdTo(c, state)
  /\ Read /\ UNCHANGED <<child, dir, given, client>>

(* Without --name, BRAINLOG_SERVICE_NAME or --resume the name is derived,   *)
(* and a service is created whoever bears it already; only this command    *)
(* will ask the model for a better one.                                    *)
StartPlain(c) ==
  Starts(c, [NewCmd EXCEPT !.pc = "create", !.name = Derived, !.naming = "later"])

(* A service there is of that name is joined, whoever named it.            *)
StartNamed(c, n) ==
  LET s == FindByName(n) IN
    Starts(c, [NewCmd EXCEPT !.pc = IF s = None THEN "create" ELSE "tag",
                             !.name = n, !.svc = s])

(* supersede_service: the search, and the UPDATE of what it found.         *)
StartResume(c, n) ==
  LET s == FindByName(n) IN
    Starts(c, [NewCmd EXCEPT !.pc = IF s = None THEN "create" ELSE "rename",
                             !.name = n, !.svc = s])

Supersede(c) ==
  /\ CmdIs(c, "rename")
  /\ Rename(cmd[c].svc, Superseded)
  /\ CmdGoes(c, "create")
  /\ UNCHANGED <<child, dir, given, client>>

Register(c) ==
  /\ CmdIs(c, "create")
  /\ \E g \in Groups : CreateService(cmd[c].name, g)
  /\ given' = IF cmd[c].naming = "never" THEN given \union {clock} ELSE given
  /\ CmdTo(c, [cmd[c] EXCEPT !.pc = "tag", !.svc = clock, !.name = None])
  /\ UNCHANGED <<child, dir, client>>

(* The tags, if any, are checked only when the service is there.           *)
Tag(c) ==
  /\ CmdIs(c, "tag")
  /\ Read \/ \E t \in Tags : AddTag(cmd[c].svc, t)
  /\ CmdGoes(c, "run")
  /\ UNCHANGED <<child, dir, given, client>>

(* Every `?`: a malformed tag, a command that cannot be spawned, an error  *)
(* of the database, such as a reference to a service that was purged.      *)
Fails(c) ==
  /\ \/ cmd[c].pc \in {"tag", "run", "spawn"}
     \/ CmdIs(c, "wait") /\ cmd[c].run \notin child
  /\ CmdTo(c, GoneCmd)
  /\ Read /\ UNCHANGED <<child, dir, given, client>>

-----------------------------------------------------------------------------
(* Its loop: a run for each child. *)

BeginRun(c) ==
  /\ CmdIs(c, "run")
  /\ CreateRun(cmd[c].svc, c)
  /\ CmdTo(c, [cmd[c] EXCEPT !.pc = "spawn", !.run = clock])
  /\ UNCHANGED <<child, dir, given, client>>

(* By then the log writer's task has made the directory.  The first child   *)
(* starts the enrichment.                                                  *)
Spawn(c) ==
  /\ CmdIs(c, "spawn")
  /\ child' = child \union {cmd[c].run}
  /\ dir' = [dir EXCEPT ![cmd[c].run] = "there"]
  /\ CmdTo(c, [cmd[c] EXCEPT !.pc = "wait",
                !.naming = IF @ = "later" THEN "now" ELSE @])
  /\ Read /\ UNCHANGED <<given, client>>

RecordPid(c) ==
  /\ CmdIs(c, "wait") /\ cmd[c].run \in DOMAIN runs /\ ~runs[cmd[c].run].pid
  /\ UpdateRunPid(cmd[c].run)
  /\ UNCHANGED <<cmd, child, dir, given, client>>

(* poll_ports; it is cancelled when the output is written, but a poll under *)
(* way goes on to its end.  A port it cannot add is only logged.           *)
PortFound(c) ==
  /\ Up(c)
  /\ \E r \in DOMAIN runs, p \in Ports :
       /\ runs[r].wrapper = c /\ (cmd[c].run = r => CmdIs(c, "wait"))
       /\ AddPort(r, p)
  /\ UNCHANGED <<cmd, child, dir, given, client>>

ChildExits(r) ==
  /\ r \in child /\ child' = child \ {r}
  /\ Read /\ UNCHANGED <<cmd, dir, given, client>>

(* The next run follows a request for it, or --restart unless the wrapper   *)
(* is to stop.                                                             *)
EndRun(c) ==
  /\ CmdIs(c, "wait") /\ cmd[c].run \notin child
  /\ \E st \in Ended \ {"crashed"} : UpdateRunStatus(cmd[c].run, st)
  /\ \E auto \in BOOLEAN :
       LET again == "restart" \in cmd[c].asked \/ (auto /\ "stop" \notin cmd[c].asked)
       IN CmdTo(c, [cmd[c] EXCEPT !.pc = IF again THEN "run" ELSE "finish",
                                  !.run = None, !.asked = @ \ {"restart"}])
  /\ UNCHANGED <<child, dir, given, client>>

(* enrich_service: the answer names a service whose user did not; no model *)
(* or no answer sets no name.  A user's name is left alone.                *)
Naming(c)    == Up(c)                        \* mutant: has_user_name ignored
MayName(c)   == Up(c) /\ cmd[c].naming = "now"

Enrich(c) ==
  /\ MayName(c) /\ cmd[c].svc # None
  /\ \E n \in (Names \ {Superseded}) \union {None} : Rename(cmd[c].svc, n)
  /\ CmdTo(c, [cmd[c] EXCEPT !.naming = "never"])
  /\ UNCHANGED <<child, dir, given, client>>

Finish(c) ==
  /\ CmdIs(c, "finish") /\ cmd[c].naming = "never"
  /\ CmdTo(c, GoneCmd)
  /\ Read /\ UNCHANGED <<child, dir, given, client>>

-----------------------------------------------------------------------------
(* Clients. *)

At(k, pc) == client[k].pc = pc
Goes(k, state) == client' = [client EXCEPT ![k] = state]
Steps(k, from, to) == At(k, from) /\ Goes(k, [client[k] EXCEPT !.pc = to])

(* reconcile_stale_runs, in one step; RunStore takes it apart.             *)
WrapperOnly(r) == ~Up(runs[r].wrapper)                \* mutant of Dead
Dead(r)  == ~Up(runs[r].wrapper) /\ ~(runs[r].pid /\ r \in child)
Sweep    == \E t \in {1, clock} : FinalizeStale({r \in DOMAIN runs : Dead(r)}, t)

Begins(k) ==
  /\ Steps(k, "idle", "swept")
  /\ Sweep
  /\ UNCHANGED <<cmd, child, dir, given>>

(* purge (cli/purge.rs): what it will delete is chosen before the user is  *)
(* asked, and not chosen again.                                            *)
Choose(k, force, t) ==
  /\ At(k, "swept")
  /\ Purgeable(t, force) # {}
  /\ Goes(k, [client[k] EXCEPT !.pc = "next", !.force = force, !.cutoff = t,
                               !.since = clock, !.todo = Purgeable(t, force)])
  /\ Read /\ UNCHANGED <<cmd, child, dir, given>>

(* Nothing to purge, an answer that is not y, or a database error.         *)
PurgeStops(k) ==
  /\ client[k].pc \in {"swept", "next", "dirs", "ports", "runs", "tags", "service"}
  /\ Goes(k, Idle)
  /\ Read /\ UNCHANGED <<cmd, child, dir, given>>

(* Only the child of the latest run is killed, and no wrapper.             *)
NextService(k, s) ==
  /\ At(k, "next") /\ s \in client[k].todo
  /\ LET r == LatestRun(s) IN
       child' = IF r # None /\ StatusOf(s) = "running" /\ runs[r].pid
                  THEN child \ {r} ELSE child
  /\ Goes(k, [client[k] EXCEPT !.pc = "dirs", !.at = s, !.todo = @ \ {s}])
  /\ Read /\ UNCHANGED <<cmd, dir, given>>

(* get_run_log_dirs, and the four statements of delete_service_cascade.    *)
RemoveFirst(k) ==               \* mutant: directories first, then the rows
  /\ Steps(k, "dirs", "ports")
  /\ dir' = [r \in DOMAIN dir |->
      IF r \in RunsOf(client[k].at) /\ dir[r] = "there" THEN "removed" ELSE dir[r]]
  /\ Read /\ UNCHANGED <<cmd, child, given>>
ListDirs(k) ==
  /\ At(k, "dirs")
  /\ Goes(k, [client[k] EXCEPT !.pc = "ports", !.dirs = RunsOf(client[k].at)])
  /\ Read /\ UNCHANGED <<cmd, child, dir, given>>

Cascade(k) ==
  /\ \/ Steps(k, "ports", "runs")    /\ DeletePorts(client[k].at)
     \/ Steps(k, "runs", "tags")     /\ DeleteRuns(client[k].at)
     \/ Steps(k, "tags", "service")  /\ DeleteTags(client[k].at)
     \/ Steps(k, "service", "rm")    /\ DeleteService(client[k].at)
  /\ UNCHANGED <<cmd, child, dir, given>>

RemoveDirs(k) ==
  /\ Steps(k, "rm", "next")
  /\ dir' = [r \in DOMAIN dir |->
      IF r \in client[k].dirs /\ dir[r] = "there" THEN "removed" ELSE dir[r]]
  /\ Read /\ UNCHANGED <<cmd, child, given>>

-----------------------------------------------------------------------------
(* kill and restart (cli/kill.rs, cli/restart.rs, mcp/tools.rs). *)

(* A signal to a wrapper: TERM makes it stop its child and end, KILL ends   *)
(* the wrapper and not its child.                                          *)
Signalled(c, sig) ==
  IF sig = "KILL" THEN [cmd EXCEPT ![c] = GoneCmd]
  ELSE [cmd EXCEPT ![c].asked = @ \union {"stop"}]

(* Where `kill` sends a signal for run r: to the wrapper when no child      *)
(* should run or it can be left to the wrapper; else to the tree of the    *)
(* child, or of the wrapper when no child was recorded.                    *)
Route(r, sig) ==
  IF r = None THEN "nowhere"
  ELSE IF Up(runs[r].wrapper) /\ (runs[r].status # "running" \/ sig # "KILL")
    THEN "wrapper"
  ELSE IF runs[r].status = "running" /\ (runs[r].pid \/ Up(runs[r].wrapper))
    THEN "tree" ELSE "nowhere"

Kill(k, s, sig) ==
  /\ At(k, "swept") /\ s \in DOMAIN services
  /\ LET r == LatestRun(s) IN
       \/ /\ Route(r, sig) = "wrapper"
          /\ cmd' = Signalled(runs[r].wrapper, sig)
          /\ Goes(k, Idle)
       \/ /\ Route(r, sig) = "tree"
          /\ Goes(k, [client[k] EXCEPT !.pc = "tree",
                       !.at = IF runs[r].pid THEN r ELSE None,
                       !.force = (sig = "KILL"), !.who = runs[r].wrapper])
          /\ UNCHANGED cmd
       \/ Route(r, sig) = "nowhere" /\ Goes(k, Idle) /\ UNCHANGED cmd
  /\ Read /\ UNCHANGED <<child, dir, given>>

(* Children first; then, for KILL, the wrapper, if there is one.  The tree *)
(* of a wrapper holds the child it has by now, of whatever run.            *)
InTree(k) ==
  IF client[k].at # None THEN client[k].at ELSE cmd[client[k].who].run
KillTree(k) ==
  /\ Steps(k, "tree", "wrapper")
  /\ child' \in {child \ {InTree(k)}} \union
                (IF client[k].force THEN {} ELSE {child})
  /\ Read /\ UNCHANGED <<cmd, dir, given>>

KillWrapper(k) ==
  /\ At(k, "wrapper") /\ Goes(k, Idle)
  /\ cmd' = IF client[k].force /\ Up(client[k].who)
              THEN Signalled(client[k].who, "KILL") ELSE cmd
  /\ Read /\ UNCHANGED <<child, dir, given>>

Restart(k, s) ==
  /\ At(k, "idle") /\ s \in DOMAIN services /\ StatusOf(s) = "running"
  /\ LET c == runs[LatestRun(s)].wrapper IN
       /\ Up(c)
       /\ cmd' = [cmd EXCEPT ![c].asked = @ \union {"restart"}]
  /\ Read /\ UNCHANGED <<child, dir, given, client>>

-----------------------------------------------------------------------------
Command(c) ==
  \/ StartPlain(c)
  \/ \E n \in Typed : StartNamed(c, n) \/ StartResume(c, n)
  \/ Supersede(c) \/ Register(c) \/ Tag(c) \/ Fails(c)
  \/ BeginRun(c) \/ Spawn(c) \/ RecordPid(c) \/ PortFound(c)
  \/ EndRun(c) \/ Enrich(c) \/ Finish(c)

Purge(k) ==
  \/ PurgeStops(k)
  \/ \E force \in BOOLEAN, t \in 1..clock : Choose(k, force, t)
  \/ \E s \in client[k].todo : NextService(k, s)
  \/ ListDirs(k) \/ Cascade(k) \/ RemoveDirs(k)

Signals(k) ==
  \/ KillTree(k) \/ KillWrapper(k)
  \/ \E s \in DOMAIN services : \/ \E sig \in {"TERM", "KILL"} : Kill(k, s, sig)
                                \/ Restart(k, s)

RTick == Tick /\ UNCHANGED <<cmd, child, dir, given, client>>

RNext ==
  \/ RTick
  \/ \E c \in Wrappers : Command(c)
  \/ \E r \in child : ChildExits(r)
  \/ \E k \in Clients : Begins(k) \/ Purge(k) \/ Signals(k)

RSpec == RInit /\ [][RNext]_vars

-----------------------------------------------------------------------------
(* Properties. *)

(* Every variable holds a value of its type; a wrapper is on one run, a     *)
(* run has a directory only once it was inserted.                          *)
TypeOK ==
  /\ TablesOK
  /\ \A c \in Wrappers :
       /\ cmd[c].pc \in {"new", "rename", "create", "tag", "run", "spawn", "wait",
                         "finish", "gone"}
       /\ cmd[c].svc \in Nat \union {None} /\ cmd[c].run \in Nat \union {None}
  /\ child \subseteq 1..(clock - 1)
  /\ dir \in [1..MaxClock -> {"none", "there", "removed"}]
  /\ given \subseteq 1..(clock - 1)
  /\ \A k \in Clients : client[k].todo \subseteq 1..clock

(* What a purge deletes had ended before its cutoff when it chose (with     *)
(* --force: had started before it), or was begun since it chose; the only  *)
(* runs it may take unasked are those begun during its prompt              *)
(* (db.rs:778-816, purge.rs:62, 132-144).                                  *)
PurgeSpares ==
  [][\A r \in DOMAIN runs \ DOMAIN runs' :
       \E k \in Clients :
         /\ At(k, "runs") /\ runs[r].service = client[k].at
         /\ \/ r >= client[k].since
            \/ OverBefore(r, client[k].cutoff)
            \/ client[k].force /\ r < client[k].cutoff]_vars

(* A purge that stops half-way can be repeated: as long as no run began in  *)
(* the service since it was chosen, the same purge chooses it again,       *)
(* whichever of its rows are gone (db.rs:849-873).                         *)
PurgeRepeatable ==
  \A k \in Clients :
    LET s == client[k].at IN
      (client[k].pc \in {"ports", "runs", "tags", "service"}
         /\ s \in DOMAIN services /\ \A r \in RunsOf(s) : r < client[k].since)
      => s \in Purgeable(client[k].cutoff, client[k].force)

(* A run in the table has its logs: purge removes a directory only when    *)
(* the row that leads to it is gone, whichever statement fails and         *)
(* whatever is begun meanwhile (purge.rs:167-181).                         *)
RowHasLogs == \A r \in DOMAIN runs : dir[r] # "removed"

(* The name under which a user created a service changes only by a --resume *)
(* of that name: an enrichment that answers late never changes it (run.rs: *)
(* 227, enrichment.rs:100).  A service created without one is renamed by a *)
(* --resume that found it, or by the enrichment of the command that        *)
(* created it, and by no other that joined it: so a user who joins it by   *)
(* its derived name (run.rs:70) may see that name go.                      *)
Resuming(s) == \E c \in Wrappers :
  cmd[c].pc = "rename" /\ cmd[c].svc = s /\ (s \in given => cmd[c].name = services[s].name)
UserNameKept ==
  [][\A s \in DOMAIN services \intersect DOMAIN services' :
       services'[s].name # services[s].name =>
         Resuming(s) \/ (s \notin given /\ \E c \in Wrappers :
                            cmd[c].svc = s /\ cmd[c].naming = "now")]_vars
=============================================================================
