------------------------------- MODULE Daemon -------------------------------
(***************************************************************************)
(* The daemon: its pid file and the fcntl lock on it (daemon/pidfile.rs),  *)
(* its socket, its table of wrappers and its shutdown (daemon/server.rs),  *)
(* and the commands that start it, stop it and ask it to run a service     *)
(* (cli/daemon.rs, `run --daemon`).                                        *)
(*                                                                         *)
(* A `daemon serve` process stands for its PID and for the pid file it     *)
(* would create: the lock is on a file, which may have lost its name.      *)
(***************************************************************************)
EXTENDS FiniteSets

CONSTANTS
  Daemons,    \* `daemon serve` processes, over the whole history
  Clients,    \* commands, one request each
  Ops,        \* what they may ask for
  Services,   \* wrappers the daemon spawns
  OpenRace,   \* may the pid file lose its name between open and F_SETLK?
  Crashes,    \* may a daemon be killed?
  Nobody      \* neither a daemon nor a service

ASSUME DaemonAssumption ==
  /\ OpenRace \in BOOLEAN /\ Crashes \in BOOLEAN
  /\ Ops \subseteq {"start", "stop", "restart", "run", "status"}
  /\ Nobody \notin Daemons \union Services

VARIABLES
  dpc,       \* where each daemon is
  file,      \* the pid file it has opened
  path,      \* the pid file that has the name daemon.pid
  content,   \* the PID in each pid file
  lock,      \* who holds the lock on each
  sock,      \* who has bound the socket that has the name daemon.sock
  reused,    \* PIDs of daemons that are gone, now somebody else's
  bell,      \* daemons with a message in the shutdown channel (capacity 1)
  tracked,   \* DaemonState.children
  spawned,   \* the services each daemon has ever spawned
  svc,       \* services: none, alive, term (was sent SIGTERM), gone
  list,      \* the PIDs serve() has yet to signal, in its local `children`
  known,     \* history: the services acknowledged when that list was made
  op, cpc,   \* each command and where it is
  peer,      \* the daemon it is connected to
  conn,      \* its connection, as the daemon sees it
  what       \* the service it wants run

lockVars   == <<file, path, content, lock>>
shutVars   == <<list, known>>
serverVars == <<bell, tracked, spawned, svc, shutVars>>
clientVars == <<op, cpc, peer, conn, what>>
vars == <<dpc, lockVars, sock, reused, serverVars, clientVars>>

Serving   == {"listen", "stopping", "collected"}   \* its socket is bound
Holding   == {"locked", "empty", "owner", "swept", "closed"} \union Serving
Exited    == {"off", "gone", "crashed"}
Reported  == {"started", "already", "stopped", "absent", "answered", "failed"}
NoService == Nobody

Init ==
  /\ dpc = [d \in Daemons |-> "off"] /\ file = [d \in Daemons |-> Nobody]
  /\ path = Nobody /\ sock = Nobody /\ reused = {} /\ bell = {}
  /\ content = [d \in Daemons |-> Nobody] /\ lock = [d \in Daemons |-> Nobody]
  /\ tracked = [d \in Daemons |-> {}] /\ spawned = [d \in Daemons |-> {}]
  /\ svc = [s \in Services |-> "none"]
  /\ list = [d \in Daemons |-> {}] /\ known = [d \in Daemons |-> {}]
  /\ op \in [Clients -> Ops] /\ cpc = [c \in Clients |-> "look"]
  /\ peer = [c \in Clients |-> Nobody] /\ conn = [c \in Clients |-> "none"]
  /\ what = [c \in Clients |-> NoService]

Goto(d, from, to) == dpc[d] = from /\ dpc' = [dpc EXCEPT ![d] = to]

-----------------------------------------------------------------------------
(* `daemon serve`: PidFile::acquire, then serve().                         *)

Open(d) ==
  /\ Goto(d, "new", "opened")
  /\ path' = IF path = Nobody THEN d ELSE path
  /\ file' = [file EXCEPT ![d] = path']
  /\ UNCHANGED <<content, lock, sock, reused, serverVars, clientVars>>

AnyLock(d) == TRUE                              \* mutant: no F_SETLK
MayLock(d) == lock[file[d]] = Nobody

LockOrDrop(d) ==                                \* mutant: the loser's Drop
  /\ dpc[d] = "opened"                          \* removes the pid file
  /\ IF MayLock(d)
       THEN /\ Goto(d, "opened", "locked") /\ lock' = [lock EXCEPT ![file[d]] = d]
            /\ UNCHANGED path
       ELSE Goto(d, "opened", "gone") /\ path' = Nobody /\ UNCHANGED lock
  /\ UNCHANGED <<file, content, sock, reused, serverVars, clientVars>>

Lock(d) ==
  /\ dpc[d] = "opened"
  /\ IF MayLock(d)
       THEN Goto(d, "opened", "locked") /\ lock' = [lock EXCEPT ![file[d]] = d]
       ELSE Goto(d, "opened", "gone") /\ UNCHANGED lock
  /\ UNCHANGED <<file, path, content, sock, reused, serverVars, clientVars>>

Truncate(d) ==
  /\ Goto(d, "locked", "empty")
  /\ content' = [content EXCEPT ![file[d]] = Nobody]
  /\ UNCHANGED <<file, path, lock, sock, reused, serverVars, clientVars>>

WritePid(d) ==
  /\ Goto(d, "empty", "owner")
  /\ content' = [content EXCEPT ![file[d]] = d]
  /\ UNCHANGED <<file, path, lock, sock, reused, serverVars, clientVars>>

RemoveStale(d) ==
  /\ Goto(d, "owner", "swept") /\ sock' = Nobody
  /\ UNCHANGED <<lockVars, reused, serverVars, clientVars>>

Bind(d) ==
  /\ IF sock = Nobody
       THEN Goto(d, "swept", "listen") /\ sock' = d
       ELSE Goto(d, "swept", "closed") /\ UNCHANGED sock   \* address in use
  /\ UNCHANGED <<lockVars, reused, serverVars, clientVars>>

(* The end of serve(): the bell ends the loop, the children known by then   *)
(* are listed under the lock and sent SIGTERM one after the other, the      *)
(* socket and the pid file lose their names, and the lock goes with the     *)
(* process.                                                                 *)
TakeBell(d) ==
  /\ d \in bell /\ Goto(d, "listen", "stopping") /\ bell' = bell \ {d}
  /\ UNCHANGED <<lockVars, sock, reused, tracked, spawned, svc, shutVars, clientVars>>

Acknowledged(d) ==
  {what[c] : c \in {b \in Clients : conn[b] = "answered"}} \intersect spawned[d]

Collect(d) ==
  /\ Goto(d, "stopping", "collected")
  /\ list' = [list EXCEPT ![d] = tracked[d]]
  /\ known' = [known EXCEPT ![d] = Acknowledged(d)]
  /\ UNCHANGED <<lockVars, sock, reused, bell, tracked, spawned, svc, clientVars>>

Killed(s) ==                                    \* mutant: SIGKILL
  IF svc[s] = "alive" THEN "killed" ELSE svc[s]
Terminated(s) ==
  IF svc[s] = "alive" THEN "term" ELSE svc[s]

SignalChild(d, s) ==
  /\ dpc[d] = "collected" /\ s \in list[d]
  /\ list' = [list EXCEPT ![d] = @ \ {s}]
  /\ svc' = [svc EXCEPT ![s] = Terminated(s)]
  /\ UNCHANGED <<dpc, lockVars, sock, reused, bell, tracked, spawned, known, clientVars>>

RemoveSocket(d) ==
  /\ Goto(d, "collected", "closed") /\ list[d] = {} /\ sock' = Nobody
  /\ UNCHANGED <<lockVars, reused, serverVars, clientVars>>

Unlink(d) ==
  /\ OpenRace \/ \A e \in Daemons : dpc[e] # "opened"
  /\ Goto(d, "closed", "unlinked") /\ path' = Nobody
  /\ UNCHANGED <<file, content, lock, sock, reused, serverVars, clientVars>>

Unlocked(d) == [f \in Daemons |-> IF lock[f] = d THEN Nobody ELSE lock[f]]

(* Connections of a process that ends are closed: what it has not answered  *)
(* is an error to the client.                                               *)
Gone(d) ==
  /\ lock' = Unlocked(d) /\ bell' = bell \ {d}
  /\ tracked' = [tracked EXCEPT ![d] = {}]
  /\ conn' = [c \in Clients |-> IF peer[c] = d /\ conn[c] # "answered"
                                  THEN "reset" ELSE conn[c]]
  /\ UNCHANGED <<file, path, content, sock, reused, spawned, svc, shutVars,
                 op, cpc, peer, what>>

Exit(d)  == Goto(d, "unlinked", "gone") /\ Gone(d)
Crash(d) == /\ Crashes /\ dpc[d] \notin Exited
            /\ dpc' = [dpc EXCEPT ![d] = "crashed"] /\ Gone(d)

Startup(d)  == Open(d) \/ Lock(d) \/ Truncate(d) \/ WritePid(d)
                 \/ RemoveStale(d) \/ Bind(d)
Shutdown(d) == TakeBell(d) \/ Collect(d) \/ (\E s \in Services : SignalChild(d, s))
                 \/ RemoveSocket(d) \/ Unlink(d) \/ Exit(d)

-----------------------------------------------------------------------------
(* The daemon's connection tasks and reaper.  They run until the process    *)
(* ends, also while serve() shuts down.                                     *)

Up(d) == dpc[d] \in Serving \union {"closed", "unlinked"}

Serve(c, from, to) ==
  /\ peer[c] # Nobody /\ Up(peer[c]) /\ conn[c] = from
  /\ conn' = [conn EXCEPT ![c] = to]
  /\ UNCHANGED <<dpc, lockVars, sock, reused, op, cpc, peer>>

Accept(c) ==
  /\ Serve(c, "sent", "taken") /\ dpc[peer[c]] = "listen"
  /\ UNCHANGED <<serverVars, what>>

(* Status and Ping; also a spawn refused for its tags, or that fails.       *)
AnswerOther(c) ==
  /\ op[c] \in {"status", "run"} /\ Serve(c, "taken", "answered")
  /\ UNCHANGED <<serverVars, what>>

(* shutdown_tx.send: waits while the channel is full and the loop may yet   *)
(* receive.                                                                 *)
RingBell(c) ==
  /\ op[c] \in {"stop", "restart"} /\ peer[c] \notin bell
  /\ Serve(c, "taken", "answered") /\ bell' = bell \union {peer[c]}
  /\ UNCHANGED <<tracked, spawned, svc, shutVars, what>>

SpawnWrapper(c, s) ==
  /\ op[c] = "run" /\ svc[s] = "none" /\ Serve(c, "taken", "spawned")
  /\ svc' = [svc EXCEPT ![s] = "alive"] /\ what' = [what EXCEPT ![c] = s]
  /\ spawned' = [spawned EXCEPT ![peer[c]] = @ \union {s}]
  /\ UNCHANGED <<bell, tracked, shutVars>>

Track(c) ==
  /\ Serve(c, "spawned", "tracked")
  /\ tracked' = [tracked EXCEPT ![peer[c]] = @ \union {what[c]}]
  /\ UNCHANGED <<bell, spawned, svc, shutVars, what>>

AnswerSpawned(c) ==
  /\ Serve(c, "tracked", "answered") /\ UNCHANGED <<serverVars, what>>

Answering(c) == Accept(c) \/ AnswerOther(c) \/ RingBell(c) \/ Track(c) \/ AnswerSpawned(c)
                  \/ \E s \in Services : SpawnWrapper(c, s)

KeptNone(d) == {}                               \* mutant: forgets the living
Kept(d) == {s \in tracked[d] : svc[s] \in {"alive", "term"}}
ReapChildren(d) ==
  /\ dpc[d] \in {"listen", "stopping"}
  /\ tracked' = [tracked EXCEPT ![d] = Kept(d)]
  /\ UNCHANGED <<dpc, lockVars, sock, reused, bell, spawned, svc, shutVars, clientVars>>

-----------------------------------------------------------------------------
(* Commands.                                                                *)

PidAlive(d) == dpc[d] \notin Exited \/ d \in reused

(* read_locked_pid: in spite of the name it asks for a living process, not  *)
(* for the lock.                                                            *)
BySocket == sock                                \* mutant: no socket, no daemon
LockedPid ==
  IF path = Nobody \/ content[path] = Nobody THEN Nobody
  ELSE IF PidAlive(content[path]) THEN content[path] ELSE Nobody

Turn(c, to) == cpc' = [cpc EXCEPT ![c] = to]
Asks(c) == UNCHANGED <<dpc, lockVars, sock, reused, serverVars, op, peer, conn, what>>

Look(c) ==
  /\ cpc[c] = "look"
  /\ Turn(c, IF LockedPid # Nobody
               THEN IF op[c] = "start" THEN "already" ELSE "connect"
               ELSE CASE op[c] \in {"start", "run"} -> "launch"
                      [] op[c] = "restart" -> "relaunch"
                      [] OTHER -> "absent")
  /\ Asks(c)

(* restart ignores how its stop ended and goes on to start.                 *)
LookAgain(c) ==
  /\ cpc[c] = "relaunch"
  /\ Turn(c, IF LockedPid # Nobody THEN "already" ELSE "launch")
  /\ Asks(c)

Launch(c) ==
  /\ cpc[c] = "launch"
  /\ \/ \E d \in Daemons : Goto(d, "off", "new") /\ Turn(c, "await")
     \/ Turn(c, "failed") /\ UNCHANGED dpc      \* fork or exec fails
  /\ UNCHANGED <<lockVars, sock, reused, serverVars, op, peer, conn, what>>

(* A socket with the right name ends the wait, whoever has bound it.        *)
AwaitSocket(c) ==
  /\ cpc[c] = "await"
  /\ \/ sock # Nobody /\ Turn(c, IF op[c] = "run" THEN "connect" ELSE "started")
     \/ Turn(c, "failed")                       \* the five seconds are over
  /\ Asks(c)

Failed(c) == Turn(c, IF op[c] = "restart" THEN "relaunch" ELSE "failed")

Connect(c) ==
  /\ cpc[c] = "connect"
  /\ IF sock # Nobody /\ dpc[sock] \in Serving
       THEN /\ Turn(c, "reply") /\ peer' = [peer EXCEPT ![c] = sock]
            /\ conn' = [conn EXCEPT ![c] = "sent"]
       ELSE Failed(c) /\ UNCHANGED <<peer, conn>>
  /\ UNCHANGED <<dpc, lockVars, sock, reused, serverVars, op, what>>

ReplyOnly(c) ==                                 \* mutant: no end of file
  /\ cpc[c] = "reply" /\ conn[c] = "answered"
  /\ Turn(c, IF op[c] \in {"stop", "restart"} THEN "poll" ELSE "answered")
  /\ Asks(c)

Reply(c) ==
  /\ cpc[c] = "reply"
  /\ \/ /\ conn[c] = "answered"
        /\ Turn(c, IF op[c] \in {"stop", "restart"} THEN "poll" ELSE "answered")
     \/ conn[c] = "reset" /\ Failed(c)
  /\ Asks(c)

PollStopped(c) ==
  /\ cpc[c] = "poll"
  /\ \/ LockedPid = Nobody
        /\ Turn(c, IF op[c] = "restart" THEN "relaunch" ELSE "stopped")
     \/ Failed(c)                               \* the five seconds are over
  /\ Asks(c)

Command(c) == Look(c) \/ LookAgain(c) \/ Launch(c) \/ AwaitSocket(c)
                \/ Connect(c) \/ Reply(c) \/ PollStopped(c)

-----------------------------------------------------------------------------
ServiceExits(s) ==
  /\ svc[s] \in {"alive", "term"} /\ svc' = [svc EXCEPT ![s] = "gone"]
  /\ UNCHANGED <<dpc, lockVars, sock, reused, bell, tracked, spawned, shutVars, clientVars>>

PidReused(d) ==
  /\ dpc[d] \in {"gone", "crashed"} /\ reused' = reused \union {d}
  /\ UNCHANGED <<dpc, lockVars, sock, serverVars, clientVars>>

Next ==
  \/ \E d \in Daemons : Startup(d) \/ Shutdown(d) \/ ReapChildren(d)
                          \/ Crash(d) \/ PidReused(d)
  \/ \E c \in Clients : Answering(c) \/ Command(c)
  \/ \E s \in Services : ServiceExits(s)

Spec == Init /\ [][Next]_vars

(* The runtime runs every task that is ready, and a poll loop reaches its   *)
(* deadline.                                                                *)
Fairness ==
  /\ \A d \in Daemons : WF_vars(Startup(d) \/ Shutdown(d))
  /\ \A c \in Clients : WF_vars(Answering(c)) /\ WF_vars(Command(c))

FairSpec == Spec /\ Fairness

-----------------------------------------------------------------------------
TypeOK ==
  /\ dpc \in [Daemons -> Holding \union Exited \union {"new", "opened", "unlinked"}]
  /\ file \in [Daemons -> Daemons \union {Nobody}]
  /\ path \in Daemons \union {Nobody} /\ sock \in Daemons \union {Nobody}
  /\ content \in [Daemons -> Daemons \union {Nobody}]
  /\ lock \in [Daemons -> Daemons \union {Nobody}]
  /\ reused \subseteq Daemons /\ bell \subseteq Daemons
  /\ tracked \in [Daemons -> SUBSET Services]
  /\ spawned \in [Daemons -> SUBSET Services]
  /\ svc \in [Services -> {"none", "alive", "term", "gone"}]
  /\ list \in [Daemons -> SUBSET Services] /\ known \in [Daemons -> SUBSET Services]
  /\ op \in [Clients -> Ops]
  /\ cpc \in [Clients -> Reported \union
       {"look", "relaunch", "launch", "await", "connect", "reply", "poll"}]
  /\ peer \in [Clients -> Daemons \union {Nobody}]
  /\ conn \in [Clients -> {"none", "sent", "taken", "spawned", "tracked",
                           "answered", "reset"}]
  /\ what \in [Clients -> Services \union {NoService}]
  /\ \A c \in Clients : conn[c] \in {"spawned", "tracked"} => what[c] \in Services

(* Holding the lock on the pid file means being the only daemon             *)
(* (pidfile.rs:7): no two daemons have the socket bound or are about to.    *)
OneDaemon ==
  \A d, e \in Daemons : dpc[d] \in Holding /\ dpc[e] \in Holding => d = e

(* A daemon that serves can be found: the pid file that has the name holds  *)
(* its PID, and the socket that has the name is its own, whatever crashed,  *)
(* came up or shut down before (server.rs:46 removes a stale socket).       *)
Reachable ==
  \A d \in Daemons : dpc[d] \in Serving =>
    path = file[d] /\ content[path] = d /\ sock = d

(* No service that a daemon had acknowledged when its shutdown made the     *)
(* list of its children is left alone (server.rs:107): by the time the      *)
(* daemon gives up its socket each has been sent SIGTERM or is gone,        *)
(* whatever is being spawned, tracked or reaped meanwhile.                  *)
KnownServicesStopped ==
  \A d \in Daemons : dpc[d] \in {"closed", "unlinked", "gone"} =>
    \A s \in known[d] : svc[s] \in {"term", "gone"}

(* `daemon stop` says "stopped" only when the daemon that acknowledged the  *)
(* shutdown is over.  If it was not killed on the way, that means that it   *)
(* has given up its pid file and the name of its socket and that no service *)
(* it knew is left alone.  One that was killed (Crash) is over too, and     *)
(* `stop` reports success although it may have left its services running    *)
(* and its socket behind: nothing is claimed of those.                      *)
StoppedIsOver ==
  \A c \in Clients : cpc[c] = "stopped" =>
    \/ dpc[peer[c]] = "crashed"
    \/ /\ dpc[peer[c]] \in {"unlinked", "gone"} /\ sock # peer[c]
       /\ \A s \in known[peer[c]] : svc[s] \in {"term", "gone"}

(* Every command comes to an end, whatever the daemon does: no request      *)
(* waits for ever for a daemon that is gone or going.                       *)
CommandsEnd == \A c \in Clients : <>(cpc[c] \in Reported)
=============================================================================
