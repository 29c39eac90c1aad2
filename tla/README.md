# brainlog: a verification project in TLA+

brainlog runs a command, captures its output into log files, and keeps a SQLite
database of services (what is run) and runs (each time it ran). Everything it
does happens in separate processes that share the database, the log directories
and the process table: one *wrapper* per running command, short-lived CLI
commands, MCP servers that a coding agent talks to, and an optional daemon that
spawns wrappers. This directory models the parts of it whose behaviour depends
on who does what first.

Paths below are relative to the repository (`src/src/cli/run.rs` is written
`cli/run.rs`).

## 1. Inventory

| part | source | state | operations | talks to |
|---|---|---|---|---|
| wrapper | `cli/run.rs` | two request flags, PID of the current child, iteration, restart decision | spawn loop, SIGUSR1 and SIGTERM/SIGINT listeners, PID task, restart delays | database (create/update run), child, log writer |
| process capture | `process/*` | child, its pty or pipes, the signal forwarder | spawn, tee output, wait, drain, forward signals | wrapper (PID by a oneshot), log writer (channel of 1024 frames) |
| log files | `storage/logfile.rs` | three stream files per run | append and flush, head/tail/range/search, read from an offset, merge by timestamp | wrapper, followers, MCP |
| database | `storage/db.rs`, `storage/schema.rs` | services, runs, tags, ports | inserts, updates, resolution by name or prefix, cascade delete, migrations | every process, each statement its own transaction |
| reconciliation | `storage/reconcile.rs` | none of its own | sweep of rows left `running` | database, process table (`kill 0`, `ps`) |
| commands that signal | `cli/kill.rs`, `cli/restart.rs`, `cli/purge.rs` | none | find the run, signal wrapper or tree, delete rows and directories | database, process table, wrapper |
| following and waiting | `cli/logs.rs`, `mcp/tools.rs` | cursor (timestamp or offset), current run | tail, poll every 200 ms, switch to a new run | log files, database |
| daemon | `daemon/*`, `cli/daemon.rs` | pid file and its lock, socket, table of wrappers | start, stop, status, spawn service, reap | wrappers, CLI clients |
| enrichment | `llm/*` | none | ask a model for a name and tags, rename the service | database |
| ports | `platform/*` | ports seen | poll `lsof`, insert rows | database |

What makes each correct, and what is hard:

* **wrapper**: a stop or restart request takes effect whatever the loop is doing
  (tasks on several threads share atomics with it); the row of each run is
  opened and closed once, by the right status; no signal goes to a child of an
  earlier iteration; the exit of a child is always recorded.
* **capture**: the exit code means the same under a pty and under pipes; the
  drain ends.
* **reconciliation**: a living run is never declared crashed, a dead one
  eventually is, although the list is stale, PIDs are recycled, and the wrapper
  may update the same row.
* **log files and following**: every complete frame is read back, in order; a
  follower shows each frame once, whatever order the writers flush in, and
  across restarts.
* **database**: rows refer to rows; the name under which a user created a service
  stays; text means the same service to every command.
* **purge**: nothing is deleted that was alive when it chose; a run in the table has its
  logs; a purge that stopped can be repeated.
* **daemon**: one at a time, found by its files; the services it knows are stopped
  before it is; no command waits for ever.

## 2. Plan

| # | modules | about | state |
|---|---|---|---|
| 1 | `Wrapper`, `MCWrapper`, `WrapperProofs` | the spawn loop and its signals | done |
| 2 | `RunLifecycle`, `RunStore`, `MCRunStore`, `RunStoreProofs` | the runs table under wrappers, sweeps and PID reuse; refinement of the abstract lifecycle | done |
| 3 | `Logs`, `MCLogs`, `ReadersProofs`, `LogsProofs` | capture tasks, channel, writer, stream files; the readers and merges; followers and waits | done |
| 4 | `Daemon`, `MCDaemon`, `DaemonProofs` | pid file and lock, socket, services, the commands that use them | done |
| 5 | `Tables`, `MCTables`, `TablesProofs` | the database: every statement, the queries, the opening of it | done |
| 6 | `Registry`, `MCRegistry`, `RegistryProofs` | `run`, enrichment, `purge`, `kill`, `restart` as interleaved sequences of those statements | done |
| 7 | `Views`, `ViewsProofs` | what `list`, `search` and the discovery tools show of it | done |

`Registry` EXTENDS `Tables` and its steps are statements of `Tables`;
`Views` EXTENDS `Registry`; `RunStore` instantiates `RunLifecycle`. `Wrapper`,
`RunStore`, `Logs` and `Daemon` each look at one boundary of the system closely
and stand alone: what they share (a run is opened, its output ends, it is
closed) is taken as an action there and in detail in the other.

What could still be added: the commands that signal, over PIDs that change
hands (`Registry` has processes, `RunStore` has PIDs); an abstract promise of a
log (a sequence that grows, and is complete when closed) which `Logs` implements,
as `RunStore` does `RunLifecycle`.

## 3. Modules and the code

### Wrapper

One `brainlog <command>` process. `pc` is the place in the loop of
`handle_run`; one action is one step between two points where another task, a
signal or another process can get in. In particular every access to one of the
three shared atomics is its own action:

| code (`cli/run.rs`) | action |
|---|---|
| `create_run` and the per-run tasks, 156-236 | `CreateRun` |
| `spawn_wrapped` up to the oneshot, 341 | `Spawn` |
| every `?` of the loop | `EarlyReturn` |
| `wait()` and forwarder abort; capture tasks | `Reap`, `Drain` |
| await of the PID task, `store(0)`, 344-349 | `Clear` |
| loads of the flags, 372-377 | `ReadRestart`, `ReadStop` |
| status and `update_run_status`, 380-391 | `Record` |
| the three ways on, 445-476 | `RestartNow`, `RestartAuto`, `Leave` |
| the two sleeps, 448 and 454-466 | `ManualDelay`, `AutoDelay` |
| aborts, enrichment awaited, return | `Abort`, `Finish` |
| PID task, 236-254 | `BgStore`, `BgRecord` |
| listeners, 96-148 | `Register`, `Take`, `LoadPid`, `KillTree` |
| `process/signals.rs` | `FwdRegister`, `Forward` |

The rest is environment: signals from `brainlog kill` and `restart`, SIGKILL, a
signal to the child from elsewhere, a child that forks a helper holding its
output, exits, or dies some time after SIGTERM. A signal that comes before its
handler is installed has its default action: the wrapper dies. Once installed a
handler stays (dropping a `Signals` does not restore the default), a `Signals`
keeps one pending bit per signal, and SIGTERM reaches both the listener and the
forwarder.

Abstracted: output and log capture (awaited between `Clear` and `ReadRestart`;
it touches none of these variables), messages, SIGINT (the same listener as
SIGTERM), the forwarder's other signals, and the gap between listing a process
tree and signalling it.

### RunLifecycle and RunStore

`RunLifecycle` is the promise of the runs table: a run is inserted as `running`,
leaves that status once, and then keeps its status. `RunStore` is the table with
the processes around it. Wrappers are followed from one database statement to
the next (what happens between is `Wrapper`), with the reaping of the child and
the task that records its PID as steps of their own; a reader runs
`reconcile_stale_runs` one row and one process check at a time, on a list taken
earlier; the operating system gives PIDs to wrappers, children and strangers and
takes them back when a process is reaped. `named` is the set of runs whose child
shows the recorded executable's name: a command run by an interpreter does not.
With `PsFails` an existing process is accepted unseen (`process_is`, the `None`
arm). `Recycle` names the kinds of process that may get a PID used before.

The inferred end time and the deletion of runs (purge) are not part of it; they
are in `Tables` and `Registry`.

### Logs

The way of a frame: `Stamp` (the capture task takes the time), `Send` (into the
channel, which may be full), `Recv`, `WritePart` and `Write` (the `LogWriter`),
`WriterDone`, `Close`. `WriterFails` drops the receiver, so that sends fail and
the run still ends; `Kill` loses all that is not in a file. A frame takes three
units in its file, two of header and one of payload, so a reader can find it
half written (`Torn`) and an offset can be in the middle of one. The files are
not buffered (`storage/logfile.rs:45`), so the flush timer has nothing to do
with what a reader sees.

The capture tasks read the wall clock each for itself, so frames of different
streams may have the same time, and readers must put them in the order of the
files. Two things are taken of that clock: it does not step back, and it
advances between two reads of one stream (it counts nanoseconds). Without the
first a file is not sorted, which the early end of a range relies on
(`storage/logfile.rs:441`); without the second a follower by time, which goes on
after the last time it saw, passes over a frame of the same time in the same
file. `Writes` says to which streams the command of a run may write.

| code | definition |
|---|---|
| `read_head`, `read_tail`, `read_range`, `search` and their `merge_` variants | `ReadHead` `ReadTail` `ReadRange` `Search` over `Merge`, `Sorted` |
| `get_logs`, `search_logs` (`mcp/tools.rs`) | `GetLogs`, `SearchLogs` |
| `follow_logs`, `follow_logs_json`: first tail, size, poll, query, drain, switch (`cli/logs.rs:107-220`) | `ReadFile` `ShowTail` `TakeSize` `ShowPoll` `Query` `Drain` `Switch` |
| `read_new_frames` | `NewFrames`, `ReadOffset`, `Show` |
| `wait_for_pattern` | `Start`, `ShowPoll`, `PollAgain`, `TimeOut` |

The files of a combined view are opened one after the other (`ReadFile`), and
the writer goes on between. One reader suffices: readers change nothing. The
stderr slot serves in turn the loop's notice, the capture task and the exit
message.

The loops of the readers are recursive functions over the rounds they go
(`During`, `Merge`, `SearchLogs`), one round an operator of its own (`MergeStep`,
`SearchRun`). The stable sort of the frames of all files is given by the place of
each frame: how many frames come before it, by time and then by file (`Rank`).

### Daemon

A member of `Daemons` is a `daemon serve` process, its PID and the pid file it
would create; `path` is the file that has the name `daemon.pid`, and a lock is on
a file, named or not. `Open` to `Bind` are `PidFile::acquire` and the start of
`serve`, `TakeBell` to `Exit` its end; `Accept` to `ReapChildren` are the
connection tasks and the reaper, which run until the process ends. `Look` to
`PollStopped` are `daemon start`, `stop`, `restart`, `status` and
`run --daemon`; their five-second deadlines may pass at any time. `read_locked_pid`
asks in spite of its name for a living process, not for the lock, so a recycled
PID (`PidReused`) counts (`LockedPid`). The end of `serve` lists the children
under its lock (`Collect`), then signals one after the other (`SignalChild`),
while connection tasks go on spawning; `known` remembers which services had been
acknowledged when the list was made. `OpenRace` says whether the pid file may
lose its name between another daemon's open and its F_SETLK; `Unlink` is the
only action it guards.

### Tables

The database, one action per SQL statement; each is its own transaction in the
code. Time is counted in inserted rows, and a row is identified by the time of
its insertion, which is also its `created_at` or `started_at`. Foreign keys
are guards (`Refers`). `delete_service_cascade` is four actions. The queries
are operators on the tables: `LatestRun`, `FindByName`, the three resolutions
`ResolveService` (`kill`, `restart`, `list`), `ResolveFollow` (`logs -f`) and
`ResolveLogs` (`logs`, `get_logs`), `SearchServices`, `RecentRuns`, `Purgeable`.
What a user types is the whole of an id, or text that may be a name and may begin
ids (`Targets`). Opening (`FindSchema`, `CreateSchema`, `CheckVersion`) is
`schema::initialize`, whose look for the version table is outside its
transaction.

### Registry

The commands as sequences of those statements:

| code | actions |
|---|---|
| `handle_run`: the three ways to a service | `StartPlain`, `StartNamed`, `StartResume`, `Supersede`, `Register`, `Tag` |
| its loop, a run per child | `BeginRun` `Spawn` `RecordPid` `PortFound` `EndRun` `Finish`; `Fails` is every `?` |
| `enrich_service` | `Enrich` |
| `handle_purge` | `Begins` (the sweep), `Choose`, `NextService`, `ListDirs`, `Cascade`, `RemoveDirs`; `PurgeStops` anywhere |
| `handle_kill`, `kill_service` | `Begins`, `Kill`, `KillTree`, `KillWrapper` |
| `handle_restart`, `restart_service` | `Restart` |

Here a process is not its PID, and the sweep is one step: both are what
`RunStore` is about. The delays of the loop are `Wrapper`'s. What users type
(`Typed`) may be a name that was derived: the child gets it in its environment
and the wrapper prints it as a hint (`cli/run.rs:323-337`, `643-670`). `given`
are the services that were created under a name a user gave.

### Views

Operators: `List`, `ListJson`, `ListRuns`, `ListGroups`, `NamedGroups` (the JSON of
groups), `Discover`, `DiscoverGroups`, `ListRecentRuns`, `Metadata`,
`SearchedRuns`. They have no actions of their own, since the views change nothing
but by their sweep. The texts of `list` know of a wrapper about to start another
child ("restarting"); `--json` has the status as recorded, and for services
whether there is a wrapper beside it. A group goes by the run it started last,
except in the text of `list --group`, which asks every service.

## 4. Runs

Every run says `CHECK_DEADLOCK FALSE`: wrappers and commands exit, and an
instance may run out of PIDs, rows or frames.

| run | checks | bounds | result |
|---|---|---|---|
| `wrapper_safety` | `TypeOK` `PidIsCurrent` `OneOpenRow` `RestartNotLost` `StopNotLost` `IntentRecorded` `PidWrittenWhileOpen` | 2 iterations, exit codes 0, 1, 130, all requests, forking child | holds |
| `wrapper_live` | `StopHonoured` `RestartHonoured` `ExitRecorded` | 2 iterations, exit code 1, stop and restart requests | holds |
| `store_safety` | `TypeOK` `CrashedOwnerGone` `VerdictSound` `RowsSettle` | 2 wrappers, 2 runs, 3 PIDs, 1 reader, any recycling, failing `ps` | holds |
| `store_live` | `Heals` | 1 wrapper, 2 runs, 3 PIDs, 1 reader, PIDs recycled to strangers | holds |
| `daemon` | `TypeOK` `OneDaemon` `Reachable` `StoppedIsOver` `KnownServicesStopped` `CommandsEnd` | 2 daemons, 2 commands of any kind, 1 service, crashes, no `OpenRace` | holds |
| `logs_read` | `TypeOK` `Stored` `ReadersAgree` `SearchSound` `ShownInOrder` `WaitComplete` | 2 runs, 2 files, 2 times, both streams in the first run, channel of 1, half-written frames, failing writer, following and waiting, combined and single | holds |
| `logs_follow` | `NoGap` `SwitchDrains` `RunsClose` `CatchesUp` | 2 runs, 2 times, channel of 1, following one stream and waiting on it, failing writers, wrappers killed | holds |
| `tables` | `TablesOK` `Integrity` `TargetsAgree` | 2 openers, 4 rows or ticks, any version | holds |
| `registry` | `TypeOK` `PurgeSpares` `PurgeRepeatable` `RowHasLogs` `UserNameKept` `AliveIsShown` | 2 `run` commands of a name, the derived name or none, 1 client, 3 rows or ticks, `Bounds` | holds |
| `stop_exits` | `StopExits` | as `wrapper_live`, stops only | violated |
| `two_daemons` | `OneDaemon` | 3 daemons, 3 commands that start or restart, `OpenRace` | violated |
| `late_frames` | `NoneBehind` | 1 run, 2 files, 3 times, combined view | violated |

*Bounds.* Two iterations of the loop are enough for every pair "what run n left
behind, what run n+1 does": flags, PIDs and rows are the only things carried
over, and all are reset or overwritten within one iteration; the theorems below
hold for any number. At the bound `CreateRun` is disabled; a wrapper that would
go on must then fail (`LastRun` in `Fairness`), so that the bound itself is no
way of being stuck. Exit codes 0, 1 and
130 are the three cases of the restart decision and the status; liveness does
not depend on the code, so one is enough there. A child that forks a helper with
its output open may keep the wrapper draining for as long as it likes, hence
`Forks = FALSE` in the liveness run. Three PIDs are a wrapper, its child and one
more that may take over either; two wrappers allow the recycled PID to be
another wrapper's. Two runs are one that is looked at and one that replaces it.
`store_safety` uses symmetry in wrappers, runs, PIDs and readers; the runs with
liveness use none.

In `daemon`, two daemons are one that goes and one that comes; the third of
`two_daemons` is the one that finds the name free while the second has locked the
nameless file. A capacity of 1 makes the channel full as soon as there are two
frames. Two times are one either side of a cursor, and as frames of two files may
share each of them, up to four frames in two files, tied or not; two files have
all the ties and orders that three have, pairwise, and the second run writes one
stream since what is carried from run to run is a limit or an offset.
`logs_follow` reads one stream because that is where its properties speak; with
whole writes only (`Torn` FALSE), since a follower by offset that meets a
half-written frame is lost: its next offset is inside it. `Overlap` is FALSE:
the second run starts when the first is over, which is how a wrapper starts
them. `tables` explores rows once opening is over and under one row of
the version (`OpenedFirst`), because opening touches no other row; four rows are a service, its runs and a second service
of the same name or id prefix. In `registry` three rows or ticks are a service
and two runs, or two services and a run; one client is purging, killing or
restarting against two wrappers. Its constraint `Bounds` keeps two services at
once to where one took the name of the other, a wrapper to one request at a time
(`Wrapper` has both at once), ports to a run that is alone and whose PID is
recorded, and runs to when some service has a tag. The
theorems below hold without these bounds, for any number of clients and
commands.

*Fairness.* `Wrapper`: weak fairness for the loop (except its error exits,
which nothing forces) and for each task -- the runtime polls every ready task --
and for the death of a process that was sent SIGTERM: a command that ignores SIGTERM is outside the claims. Strong fairness
for `ManualDelay`, because restart requests may keep arriving while the timer
runs; it fires all the same. A command need not end by itself. `RunStore`: a
reader keeps sweeping, and an update that fails on a locked database succeeds
eventually if retried (the comment at `storage/reconcile.rs:149` relies on the
same). No wrapper, child or stranger is obliged to end. `Daemon`: each
daemon's own task, each connection and each command goes on (the runtime polls
what is ready, and poll loops have deadlines); no crash, reaper or service exit
is assumed. `Logs`: capture, channel and writer of a run go on, and so does the
reader; strong fairness for `TimeOut`, as the deadline comes however often the
wait polls. That output ends, or that a killed wrapper is swept, is not assumed.

*`PromptHandlers`.* `RestartNotLost`, `IntentRecorded` and the liveness of
restarts assume that the SIGUSR1 listener gets from storing its flag to loading
the PID -- two adjacent statements -- within the one-second sleep of a restart.
Without it the listener could set the flag for one run and load the PID of the
next one after the loop has reset the flag. The assumption is a constant and a
guard of `ManualDelay`; nothing else uses it.

### What the violated runs show

* `stop_exits`: SIGTERM handled while no PID is published -- before the first
  spawn, or in the plain sleep before a requested restart -- only sets a flag
  that nothing reads until the next child has ended; and the listener has
  returned. `cli/kill.rs:50` promises that the handler "kills the child tree and
  exits cleanly".
* `two_daemons`: the pid file is removed while its lock is held, without regard
  to who has it open. A daemon that opened it before gets the lock after, on a
  file without a name; the next one creates a new file and locks that. Then two
  daemons hold "the" lock, against `daemon/pidfile.rs:7`.
* `late_frames`: three files are read one after the other with one timestamp as
  the cursor. A frame stamped no later than one of another stream, which reaches
  its file after that file was read, is behind the cursor for good, against
  `cli/logs.rs:72`.

### What the properties do not say

Met while modelling. Two of them disagree with a statement of the repository and
have no run of their own:

* a piped child killed by a signal from elsewhere has exit code 1 and is
  restarted by `--restart`, which `daemon/protocol.rs:44` ("on non-signal exit")
  and `cli/mod.rs:70` ("except SIGINT/SIGTERM") rule out: only a pty child's
  130 and 143 are told apart (`Wrapper!ExitCode`, `WillRestartAuto`);
* purge without `--force` deletes a run begun during its prompt, while it runs,
  although by `cli/mod.rs:217` only `--force` purges running services:
  `PurgeSpares` excepts the runs begun since the choice.

The others contradict no statement that was found:

* SIGUSR1 handled while no PID is published marks the next child's failure
  `completed`;
* a sweep whose list is older than the child's PID declares a run crashed whose
  wrapper is gone and whose child lives; another brainlog process with a recycled
  PID keeps a row `running`;
* a single-stream follower skips what is written between its first tail and the
  size it takes as offset, and a run that begins and ends between two polls; after
  a half-written frame it finds no more frames of that run;
* `search_logs` with a window may give fewer matches than there are, since those
  outside use up the limit;
* a service spawned while the daemon shuts down survives it, and `stop` reports
  success for a daemon that was killed before it had signalled its services;
* purge leaves directories behind when it stops after the rows;
* two commands of one new name may create two services of it;
* whether the model may rename a service is decided by the command that derived
  its name (`cli/run.rs:227`): a user who meanwhile joins the service by the
  derived name sees that name go, and one that was superseded meanwhile gets a
  name again. `UserNameKept` says who may rename what, and protects the names
  users created services under;
* `discover_services`, which groups by default, and `list --group --json` show a
  group by the run it started last, and the first filters by it: a living service
  next to one that began later and ended is shown as over and not found by
  status. `AliveIsShown` asks of groups only what its comment says.

## 5. Proofs

The theorems hold for every value of the constants that the named assumption of
the module allows (`WrapperAssumption`, `StoreAssumption`, `DaemonAssumption`,
`TablesAssumption`, `RegistryAssumption`, `LogsAssumption`): any number of
iterations, wrappers, runs, PIDs, daemons, commands, clients, rows, stream files,
frames, and any capacity of a channel. Every invariant that a run checks was
model-checked before it was proved; every one of them is now a theorem.

`WrapperProofs`:

| theorem | states |
|---|---|
| `TypeCorrect` | `Spec => []TypeOK` |
| `PidCurrent`, `OneOpen` | `Spec => []PidIsCurrent`, `Spec => []OneOpenRow` |
| `PidBeforeStatus` | `Spec => PidWrittenWhileOpen` |
| `StopKept` | `Spec => []StopNotLost` |
| `RestartKept`, `IntentKept` | `PromptHandlers => (Spec => []RestartNotLost)`, and the same for `IntentRecorded` |

None of these is inductive. `LoopInv` adds to the type invariant where the PID
task can be at each place of the loop, that a published PID is the current run's,
and which rows may be open; `StopInv` adds that a listener holding a target has
its flag set, that SIGTERM's flag is never reset, and what the loop's two local
decisions must then be; `RestartInv` does the same for the restart flag, which
*is* reset, hence the assumption on `PromptHandlers`. Each is preserved by each
action, one proof step per action.

`RunStoreProofs`:

| theorem | states |
|---|---|
| `TypeCorrect` | `Spec => []TypeOK` |
| `NoFalseCrash` | `Spec => []CrashedOwnerGone` |
| `FoundDeadIsDead` | `Spec => []VerdictSound` |
| `Refinement` | `Spec => RowsSettle`, that is `RunLifecycle!Spec` |

`TypeOK` needs that a wrapper about to spawn has chosen its run (`Typed`). The
invariant has three parts: rows (`RowsInv`: a row that exists has an owner, and a
busy wrapper owns an open row), PIDs (`PidsInv`: a living wrapper holds its PID;
a child has one PID, the PID task has yet to store it or it is the recorded one), and readers
(`Looking`: what a stale list says about a row is out of date only in that a PID
may be missing, and past the wrapper check the wrapper is gone). The heart of it
is that a living wrapper keeps its PID, so a check that fails under that PID
proves it gone, no matter how old the list is; and that gone is for ever, so the
verdict stays true until it is written. `Refinement` follows: `Close` acts on an
open row because a busy wrapper is not gone, and `Finalize` tests the status in
the same statement.

`DaemonProofs`:

| theorem | states |
|---|---|
| `TypeCorrect` | `Spec => []TypeOK` |
| `AtMostOneDaemon` | `~OpenRace` gives `Spec => []OneDaemon` |
| `ServingIsReachable` | `~OpenRace` gives `Spec => []Reachable` |
| `StoppedMeansOver` | `~OpenRace` gives `Spec => []StoppedIsOver` |
| `ServicesAreStopped` | `Spec => []KnownServicesStopped` |

The assumption is the one the `two_daemons` counterexample breaks. The
invariant says that whoever holds a lock holds it on the file that has the name
(`Holder`, from which one daemon follows at once), what the pid file and the
socket contain at each place of `serve`, and, for `stop`, that a daemon which
acknowledged a shutdown is seen by its PID for as long as it is not over.
`ServicesAreStopped` needs no such proviso: a service acknowledged when the list
is made is in the table of children or gone, from then on in the list, signalled
or gone, and the socket is given up with the list empty. Of a daemon that was
killed `StoppedIsOver` claims only that it is over.

`TablesProofs`:

| theorem | states |
|---|---|
| `TypeCorrect` | `Spec => []TablesOK` |
| `IntegrityKept` | `Spec => []Integrity` |
| `OneMeaning` | `Spec => []TargetsAgree` |

The proof is about statements, not about an order of them: `TypeStep`,
`OrphansStep` and `VersionStep` hold of any one, which is why `RegistryProofs`
can use them for the commands (`StepsAreStatements`: every step of `Registry`
is a statement of `Tables` or leaves the tables alone).

`RegistryProofs`:

| theorem | states |
|---|---|
| `RegistryTypes` | `RSpec => []TypeOK` |
| `RegistryIntegrity` | `RSpec => []Integrity` |
| `LogsOutliveRows` | `RSpec => []RowHasLogs` |
| `PurgeDeletesTheChosen` | `RSpec => PurgeSpares` |
| `PurgeResumes` | `RSpec => []PurgeRepeatable` |
| `GivenNamesStay` | `RSpec => UserNameKept` |

The invariant `RInv` adds to types and integrity: the row of a wrapper's run is
its own and open (`OwnRow`), so that an end is recorded once and a run a purge
found over stays over; runs are younger than their service (`Younger`); of a
service a purge has chosen, every run older than the choice still meets the
cutoff (`PurgeInv`); a purge's list of directories is that of rows it is about
to delete, and of no row once they are deleted (`DirsInv`); a service whose name
the model may still set was not created under a user's, and one about to be
superseded that was has the name it was found by, or has been superseded
meanwhile (`NamesInv`).
That `FindByName` and `LatestRun`, least and greatest elements of sets of rows,
are what they are called is proved from the well-foundedness of `<` (`Least`, `Greatest`).

`ViewsProofs` has one theorem, `AliveForAll`: `RSpec => []AliveIsShown`. It rests
on `RInv` and on `ChildInv`: the row of a living child that has its PID is open,
since a run ends after its child and a sweep passes over a PID that lives. Which
rows each view keeps (`ShownAlive`, `GroupAlive`, `GroupFound`, `CanBeReached`)
gives the rest.

`ReadersProofs` is about what the readers make of files, with no behaviour in it:

| lemmas | say |
|---|---|
| `Loop`, `Induct` | a loop of n rounds has the values that its rounds give it; what holds at 0 and is kept by each round holds after n |
| `DuringSelects`, `DuringPrefix`, `RangeIs`, `FirstNIs`, `LastNIs` | what filters, cuts, heads and tails of a file hold |
| `RankRises`, `SortedIs` | the sort has each frame once and rises |
| `EarliestIs`, `MergeStepIs`, `MergeIs` | a round of the merge takes the next frame of the sort, so n rounds give its first n |
| `ReadRangeIs`, `SearchIs` | ranges and searches in terms of the sort |

A recursive function over numbers is within the provers' reach although the
library's induction theorems are not: `Induct` takes a *set* of numbers, and
follows from `<` being well-founded. The files must be sorted (`Ordered`: in each
one the times rise); frames of different files may have the same time, and the
merge and the sort agree on them because both go by the file then (`Before`).
`LogsProofs` proves that the writer makes no other files, from the two things
said of the clock above.

`LogsProofs`:

| theorem | states |
|---|---|
| `TypesHold` | `Spec => []TypeOK` |
| `StoredInOrder` | `Spec => []Stored` |
| `FilesOnlyGrow` | `Spec => [][AppendOnly]_vars` |
| `OneHistory`, `SearchesAreSound` | `Spec => []ReadersAgree`, `Spec => []SearchSound` |
| `ShownOnce` | `Spec => []ShownInOrder` |
| `NoMatchPassed` | `Spec => []WaitComplete` |
| `NothingLeftOut` | `~Torn` gives `Spec => []NoGap` |
| `DrainedFirst` | `~Torn` and `~Overlap` give `Spec => []SwitchDrains` |

The writer's invariant `WriteInv` follows every frame of a run: what was
captured of a stream is what its file holds, then what is in the writer's hand
and in the channel, then what its task is about to send, in this order and
with nothing between (`Pipe`: each frame on its way is known, in turn, and none is
lost). It holds as long as writer and wrapper live; after a failure or a kill only
the prefix remains, which is all that `Stored` claims then.

The reader's invariant `ReadInv` says in which run it is and that what it has in
hand are parts of that run's files (`AtRun`), and that what it has shown rises and
is behind its cursor: by time (`InTime`), or, with what it has read, by frames
below its offset (`InBytes`). Steps of the runs keep it since files only grow
(`RunsGrow`, `SizeGrows`); steps of the reader, since what a poll takes is beyond
the cursor (`TakenInTime`, `TakenMore`). On top of it, `WaitInv` has the cursor of
a wait at a frame of its file, so that whatever is captured later is ahead;
`GapInv` has both offsets between frames, and what was taken end in the frames
between them; `DrainInv` has the run that is being left over, from `InOrder`
(runs before a started one are over). `~Torn` is needed: an offset inside a
frame is where that follower loses the rest. So is `~Overlap`: a run that goes
on beside the next one still writes after it was drained.

Only model-checked: liveness (`StopHonoured`, `RestartHonoured`, `ExitRecorded`,
`Heals`, `CommandsEnd`, `RunsClose`, `CatchesUp`), which TLAPS does not reason
about under fairness; and that the three violated properties are violated.

## 6. Not modelled

* Recycled PIDs between reading a row and signalling (`cli/restart.rs:40`,
  `cli/kill.rs:110`, `cli/run.rs:109`): the code makes no statement about them
  that a property could hold it to.
* The bytes: frame encoding, terminal modes, stdin, the JSON of the daemon and of
  MCP, prompts and answers of language models, `lsof` output, layout of every
  view. They are conversions without state.
* Durations, signal names and the cutting of texts (`cli/purge.rs:31`, `:101`,
  `mcp/tools.rs:339`): functions of one argument.
* Configuration, file permissions, argument parsing, the entry point: nothing in
  them changes after it was read.
* Migrations: there is one schema version.
