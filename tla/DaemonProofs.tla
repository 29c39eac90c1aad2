---------------------------- MODULE DaemonProofs ----------------------------
(***************************************************************************)
(* What the pid file's lock promises, for any number of daemons, commands  *)
(* and services, with crashes and recycled PIDs, provided the pid file does *)
(* not lose its name between a daemon's open and its F_SETLK (OpenRace =    *)
(* FALSE): with that race the run two_daemons refutes OneDaemon.            *)
(***************************************************************************)
EXTENDS Daemon, TLAPS

Owning == {"owner", "swept", "closed"} \union Serving
Over   == {"gone", "crashed"}

(* A daemon about to lock has the pid file open that has the name.          *)
Opened == \A d \in Daemons : dpc[d] = "opened" => path \in Daemons /\ file[d] = path

(* A daemon past the lock holds it, on the pid file that has the name.      *)
Holder == \A d \in Daemons : dpc[d] \in Holding =>
            path \in Daemons /\ file[d] = path /\ lock[path] = d

(* From then on that file says who it is, and the socket is its own.        *)
Named  == \A d \in Daemons : dpc[d] \in Owning => content[path] = d
Bound  == \A d \in Daemons : dpc[d] \in Serving => sock = d

(* A socket that has the name belongs to a daemon that serves or that was   *)
(* killed.                                                                  *)
GivenUp == \A d \in Daemons : sock = d => dpc[d] \in Serving \union {"crashed"}

(* A command that has reached a daemon reached one that served.             *)
Served == \A c \in Clients : cpc[c] \in {"reply", "poll", "stopped"} =>
            /\ peer[c] \in Daemons
            /\ dpc[peer[c]] \in Serving \union {"closed", "unlinked"} \union Over

(* A stop is reported when the daemon is over.                              *)
StoppedOver == \A c \in Clients : cpc[c] = "stopped" => dpc[peer[c]] \in {"unlinked"} \union Over

IInv == TypeOK /\ Opened /\ Holder /\ Named /\ Bound /\ GivenUp /\ Served /\ StoppedOver

USE DEF vars, lockVars, shutVars, serverVars, clientVars, NoService

-----------------------------------------------------------------------------
(* Every variable keeps its type. *)
LEMMA TypeInit == Init => TypeOK
BY DaemonAssumption DEF Init, TypeOK, Serving, Holding, Exited, Reported

(* Every step of a daemon, a command or a service keeps the types. *)
LEMMA TypeNext == TypeOK /\ [Next]_vars => TypeOK'
<1> SUFFICES ASSUME TypeOK, [Next]_vars PROVE TypeOK'
  OBVIOUS
<1> USE DEF TypeOK, Serving, Holding, Exited, Reported, Goto
<1>1. ASSUME NEW d \in Daemons, Open(d) PROVE TypeOK'
  BY <1>1 DEF Open
<1>2. ASSUME NEW d \in Daemons, Lock(d) PROVE TypeOK'
  BY <1>2 DEF Lock, MayLock
<1>3. ASSUME NEW d \in Daemons, Truncate(d) PROVE TypeOK'
  BY <1>3 DEF Truncate
<1>4. ASSUME NEW d \in Daemons, WritePid(d) PROVE TypeOK'
  BY <1>4 DEF WritePid
<1>5. ASSUME NEW d \in Daemons, RemoveStale(d) PROVE TypeOK'
  BY <1>5 DEF RemoveStale
<1>6. ASSUME NEW d \in Daemons, Bind(d) PROVE TypeOK'
  BY <1>6 DEF Bind
<1>7. ASSUME NEW d \in Daemons, TakeBell(d) PROVE TypeOK'
  BY <1>7 DEF TakeBell
<1>8. ASSUME NEW d \in Daemons, Collect(d) PROVE TypeOK'
  <2>1. Acknowledged(d) \subseteq Services
    BY DEF Acknowledged
  <2> QED BY <1>8, <2>1 DEF Collect
<1>19. ASSUME NEW d \in Daemons, NEW s \in Services, SignalChild(d, s) PROVE TypeOK'
  BY <1>19 DEF SignalChild, Terminated
<1>9. ASSUME NEW d \in Daemons, RemoveSocket(d) PROVE TypeOK'
  BY <1>9 DEF RemoveSocket
<1>10. ASSUME NEW d \in Daemons, Unlink(d) PROVE TypeOK'
  BY <1>10 DEF Unlink
<1>11. ASSUME NEW d \in Daemons, Exit(d) PROVE TypeOK'
  BY <1>11 DEF Exit, Gone, Unlocked
<1>12. ASSUME NEW d \in Daemons, Crash(d) PROVE TypeOK'
  BY <1>12 DEF Crash, Gone, Unlocked
<1>13. ASSUME NEW d \in Daemons, ReapChildren(d) PROVE TypeOK'
  BY <1>13 DEF ReapChildren, Kept
<1>14. ASSUME NEW d \in Daemons, PidReused(d) PROVE TypeOK'
  BY <1>14 DEF PidReused
<1>15. ASSUME NEW c \in Clients, Answering(c) PROVE TypeOK'
  <2>1. CASE Accept(c)         BY <2>1 DEF Accept, Serve
  <2>2. CASE AnswerOther(c)    BY <2>2 DEF AnswerOther, Serve
  <2>3. CASE RingBell(c)       BY <2>3 DEF RingBell, Serve
  <2>4. CASE Track(c)          BY <2>4 DEF Track, Serve
  <2>5. CASE AnswerSpawned(c)  BY <2>5 DEF AnswerSpawned, Serve
  <2>6. ASSUME NEW s \in Services, SpawnWrapper(c, s) PROVE TypeOK'
    BY <2>6 DEF SpawnWrapper, Serve
  <2> QED BY <1>15, <2>1, <2>2, <2>3, <2>4, <2>5, <2>6 DEF Answering
<1>16. ASSUME NEW c \in Clients, Command(c) PROVE TypeOK'
  <2> USE DEF Turn, Asks, Failed
  <2>1. CASE Look(c)         BY <2>1 DEF Look
  <2>2. CASE LookAgain(c)    BY <2>2 DEF LookAgain
  <2>3. CASE Launch(c)
    <3>1. \E to \in {"await", "failed"} : cpc' = [cpc EXCEPT ![c] = to]
      BY <2>3 DEF Launch
    <3>2. dpc' = dpc \/ \E d \in Daemons : dpc' = [dpc EXCEPT ![d] = "new"]
      BY <2>3 DEF Launch
    <3> QED BY <2>3, <3>1, <3>2 DEF Launch
  <2>4. CASE AwaitSocket(c)  BY <2>4 DEF AwaitSocket
  <2>5. CASE Connect(c)      BY <2>5 DEF Connect
  <2>6. CASE Reply(c)        BY <2>6 DEF Reply
  <2>7. CASE PollStopped(c)  BY <2>7 DEF PollStopped
  <2> QED BY <1>16, <2>1, <2>2, <2>3, <2>4, <2>5, <2>6, <2>7 DEF Command
<1>17. ASSUME NEW s \in Services, ServiceExits(s) PROVE TypeOK'
  BY <1>17 DEF ServiceExits
<1>18. CASE UNCHANGED vars
  BY <1>18
<1> QED BY <1>1, <1>2, <1>3, <1>4, <1>5, <1>6, <1>7, <1>8, <1>9, <1>10, <1>11, <1>12, <1>13, <1>14, <1>15, <1>16, <1>17, <1>18, <1>19 DEF Next, Startup, Shutdown

(* Daemon is well typed: every reachable state of the daemons, their files, *)
(* their connections and the commands is one TypeOK describes.              *)
THEOREM TypeCorrect == Spec => []TypeOK
<1> QED BY TypeInit, TypeNext, PTL DEF Spec

-----------------------------------------------------------------------------
(* Holding the lock on the file that has the name singles a daemon out.     *)
LEMMA HolderIsOne == Holder => OneDaemon
BY DEF Holder, OneDaemon

LEMMA InvInit == Init => IInv
<1> SUFFICES ASSUME Init PROVE IInv
  OBVIOUS
<1>1. TypeOK
  BY TypeInit
<1> QED BY <1>1, DaemonAssumption DEF Init, IInv, Opened, Holder, Named, Bound, Served,
     GivenUp, StoppedOver, Holding, Serving, Owning

(* While the pid file of the daemon a command has reached still says its    *)
(* PID, the command sees it.                                                *)
LEMMA SeenWhileUp ==
  ASSUME IInv, NEW c \in Clients, cpc[c] = "poll", LockedPid = Nobody
  PROVE  dpc[peer[c]] \in {"unlinked"} \union Over
BY DaemonAssumption DEF IInv, Served, Holder, Named, Holding, Owning, Serving, LockedPid,
   PidAlive, Exited, Over

LEMMA InvNext == IInv /\ [Next]_vars /\ ~OpenRace => IInv'
<1> SUFFICES ASSUME IInv, [Next]_vars, ~OpenRace PROVE IInv'
  OBVIOUS
<1>1. TypeOK'
  BY TypeNext DEF IInv
<1>2. OneDaemon
  BY HolderIsOne DEF IInv
<1> DEFINE Rest == Opened /\ Holder /\ Named /\ Bound /\ GivenUp /\ Served /\ StoppedOver
<1> SUFFICES Rest'
  BY <1>1 DEF IInv
<1> USE DaemonAssumption DEF Serving, Holding, Owning, Exited, Over
<1>3. ASSUME NEW d \in Daemons, Open(d) PROVE Rest'
  BY <1>1, <1>2, <1>3 DEF IInv, TypeOK, OneDaemon, Opened, Holder, Named, Bound,
     Served, GivenUp, StoppedOver, Open, Goto
<1>4. ASSUME NEW d \in Daemons, Lock(d) PROVE Rest'
  BY <1>1, <1>2, <1>4 DEF IInv, TypeOK, OneDaemon, Opened, Holder, Named, Bound,
     Served, GivenUp, StoppedOver, Lock, Goto, MayLock
<1>5. ASSUME NEW d \in Daemons, Truncate(d) PROVE Rest'
  BY <1>1, <1>2, <1>5 DEF IInv, TypeOK, OneDaemon, Opened, Holder, Named, Bound,
     Served, GivenUp, StoppedOver, Truncate, Goto
<1>6. ASSUME NEW d \in Daemons, WritePid(d) PROVE Rest'
  BY <1>1, <1>2, <1>6 DEF IInv, TypeOK, OneDaemon, Opened, Holder, Named, Bound,
     Served, GivenUp, StoppedOver, WritePid, Goto
<1>7. ASSUME NEW d \in Daemons, RemoveStale(d) PROVE Rest'
  BY <1>1, <1>2, <1>7 DEF IInv, TypeOK, OneDaemon, Opened, Holder, Named, Bound,
     Served, GivenUp, StoppedOver, RemoveStale, Goto
<1>8. ASSUME NEW d \in Daemons, Bind(d) PROVE Rest'
  <2>1. UNCHANGED <<file, path, content, lock, cpc, peer>>
    BY <1>8 DEF Bind
  <2>2. sock # d
    BY <1>8 DEF Bind, Goto, IInv, GivenUp
  <2>3. \/ sock = Nobody /\ sock' = d /\ dpc' = [dpc EXCEPT ![d] = "listen"]
        \/ sock' = sock /\ dpc' = [dpc EXCEPT ![d] = "closed"]
    BY <1>8 DEF Bind, Goto
  <2>4. dpc[d] = "swept" /\ \A e \in Daemons : dpc[e] \in Holding => e = d
    BY <1>2, <1>8 DEF Bind, Goto, OneDaemon
  <2>5. (Opened /\ Holder /\ Named)'
    BY <2>1, <2>3, <2>4 DEF IInv, TypeOK, Opened, Holder, Named
  <2>6. (Bound /\ GivenUp)'
    BY <2>2, <2>3, <2>4 DEF IInv, TypeOK, Bound, GivenUp
  <2>7. (Served /\ StoppedOver)'
    BY <2>1, <2>3, <2>4 DEF IInv, TypeOK, Served, StoppedOver
  <2> QED BY <2>5, <2>6, <2>7
<1>9. ASSUME NEW d \in Daemons, TakeBell(d) PROVE Rest'
  BY <1>1, <1>2, <1>9 DEF IInv, TypeOK, OneDaemon, Opened, Holder, Named, Bound,
     Served, GivenUp, StoppedOver, TakeBell, Goto
<1>10. ASSUME NEW d \in Daemons, Collect(d) PROVE Rest'
  BY <1>1, <1>2, <1>10 DEF IInv, TypeOK, OneDaemon, Opened, Holder, Named, Bound,
     Served, GivenUp, StoppedOver, Collect, Goto
<1>21. ASSUME NEW d \in Daemons, NEW s \in Services, SignalChild(d, s) PROVE Rest'
  BY <1>21 DEF SignalChild, IInv, TypeOK, Opened, Holder, Named, Bound, GivenUp, Served, StoppedOver
<1>11. ASSUME NEW d \in Daemons, RemoveSocket(d) PROVE Rest'
  BY <1>1, <1>2, <1>11 DEF IInv, TypeOK, OneDaemon, Opened, Holder, Named, Bound,
     Served, GivenUp, StoppedOver, RemoveSocket, Goto
<1>12. ASSUME NEW d \in Daemons, Unlink(d) PROVE Rest'
  BY <1>1, <1>2, <1>12 DEF IInv, TypeOK, OneDaemon, Opened, Holder, Named, Bound,
     Served, GivenUp, StoppedOver, Unlink, Goto
<1>13. ASSUME NEW d \in Daemons, Exit(d) PROVE Rest'
  BY <1>1, <1>2, <1>13 DEF IInv, TypeOK, OneDaemon, Opened, Holder, Named, Bound,
     Served, GivenUp, StoppedOver, Exit, Goto, Gone, Unlocked
<1>14. ASSUME NEW d \in Daemons, Crash(d) PROVE Rest'
  BY <1>1, <1>2, <1>14 DEF IInv, TypeOK, OneDaemon, Opened, Holder, Named, Bound,
     Served, GivenUp, StoppedOver, Crash, Goto, Gone, Unlocked
<1>15. ASSUME NEW d \in Daemons, ReapChildren(d) PROVE Rest'
  BY <1>1, <1>2, <1>15 DEF IInv, TypeOK, OneDaemon, Opened, Holder, Named, Bound,
     Served, GivenUp, StoppedOver, ReapChildren, Goto, Kept
<1>16. ASSUME NEW d \in Daemons, PidReused(d) PROVE Rest'
  BY <1>1, <1>2, <1>16 DEF IInv, TypeOK, OneDaemon, Opened, Holder, Named, Bound,
     Served, GivenUp, StoppedOver, PidReused, Goto
<1>17. ASSUME NEW c \in Clients, Answering(c) PROVE Rest'
  <2>1. UNCHANGED <<dpc, file, path, content, lock, sock, cpc, peer>>
    BY <1>17 DEF Answering, Accept, AnswerOther, RingBell, Track, AnswerSpawned,
                  SpawnWrapper, Serve
  <2> QED BY <2>1 DEF IInv, TypeOK, Opened, Holder, Named, Bound, Served, GivenUp, StoppedOver
<1>18. ASSUME NEW c \in Clients, Command(c) PROVE Rest'
  <2>1. CASE Launch(c)
    <3>1. UNCHANGED <<file, path, content, lock, sock, peer>>
      BY <2>1 DEF Launch
    <3>2. \A d \in Daemons : dpc'[d] = dpc[d] \/ (dpc[d] = "off" /\ dpc'[d] = "new")
      <4>1. \/ dpc' = dpc
            \/ \E e \in Daemons : dpc[e] = "off" /\ dpc' = [dpc EXCEPT ![e] = "new"]
        BY <2>1 DEF Launch, Goto
      <4>2. dpc \in [Daemons -> Holding \union Exited \union {"new", "opened", "unlinked"}]
        BY DEF IInv, TypeOK
      <4>3. ASSUME NEW e \in Daemons, dpc[e] = "off", dpc' = [dpc EXCEPT ![e] = "new"]
            PROVE  \A d \in Daemons : dpc'[d] = dpc[d] \/ (dpc[d] = "off" /\ dpc'[d] = "new")
        BY <4>2, <4>3
      <4> QED BY <4>1, <4>3
    <3>3. \A b \in Clients : cpc'[b] \in {"reply", "poll", "stopped"} => cpc'[b] = cpc[b]
      <4>1. PICK to \in {"await", "failed"} : cpc' = [cpc EXCEPT ![c] = to]
        BY <2>1 DEF Launch, Turn
      <4>2. DOMAIN cpc = Clients
        BY DEF IInv, TypeOK
      <4> QED BY <4>1, <4>2
    <3> QED BY <3>1, <3>2, <3>3 DEF IInv, TypeOK, Opened, Holder, Named, Bound, Served, GivenUp, StoppedOver
  <2>2. CASE Connect(c)
    <3>1. UNCHANGED <<dpc, file, path, content, lock, sock>>
      BY <2>2 DEF Connect
    <3>2. Served' /\ StoppedOver'
      BY <2>2 DEF Connect, Turn, Failed, IInv, TypeOK, Served, GivenUp, StoppedOver
    <3> QED BY <3>1, <3>2 DEF IInv, TypeOK, Opened, Holder, Named, Bound, Served, GivenUp, StoppedOver
  <2>3. ASSUME Look(c) \/ LookAgain(c) \/ AwaitSocket(c) \/ Reply(c) \/ PollStopped(c)
        PROVE Rest'
    <3>1. UNCHANGED <<dpc, file, path, content, lock, sock, peer>>
      BY <2>3 DEF Look, LookAgain, AwaitSocket, Reply, PollStopped, Asks
    <3>2. \A b \in Clients : b # c => cpc'[b] = cpc[b]
      BY <2>3 DEF Look, LookAgain, AwaitSocket, Reply, PollStopped, Turn, Failed,
                  IInv, TypeOK
    <3>3. cpc'[c] \in {"reply", "poll", "stopped"} => cpc[c] \in {"reply", "poll"}
      BY <2>3 DEF Look, LookAgain, AwaitSocket, Reply, PollStopped, Turn, Failed,
                  IInv, TypeOK
    <3>4. cpc'[c] = "stopped" => cpc[c] = "poll" /\ LockedPid = Nobody
      BY <2>3 DEF Look, LookAgain, AwaitSocket, Reply, PollStopped, Turn, Failed,
                  IInv, TypeOK
    <3>5. Served'
      BY <3>1, <3>2, <3>3 DEF IInv, Served
    <3>6. StoppedOver'
      BY <3>1, <3>2, <3>4, SeenWhileUp DEF IInv, GivenUp, StoppedOver
    <3> QED BY <3>1, <3>5, <3>6 DEF IInv, TypeOK, Opened, Holder, Named, Bound, Served, GivenUp, StoppedOver
  <2> QED BY <1>18, <2>1, <2>2, <2>3 DEF Command
<1>19. ASSUME NEW s \in Services, ServiceExits(s) PROVE Rest'
  BY <1>19 DEF ServiceExits, IInv, TypeOK, Opened, Holder, Named, Bound, Served, GivenUp, StoppedOver
<1>20. CASE UNCHANGED vars
  BY <1>20 DEF IInv, TypeOK, Opened, Holder, Named, Bound, Served, GivenUp, StoppedOver
<1> QED BY <1>3, <1>4, <1>5, <1>6, <1>7, <1>8, <1>9, <1>10, <1>11, <1>12, <1>13, <1>14, <1>15, <1>16, <1>17, <1>18, <1>19, <1>20, <1>21 DEF Next, Startup, Shutdown

LEMMA Invariance == ASSUME ~OpenRace PROVE Spec => []IInv
<1>1. IInv /\ [Next]_vars => IInv'
  BY InvNext
<1> QED BY <1>1, InvInit, PTL DEF Spec

(* Holding the lock on the pid file means being the only daemon             *)
(* (pidfile.rs:7), however many are started, killed and restarted, as long  *)
(* as the pid file is not removed between an open and its F_SETLK.          *)
THEOREM AtMostOneDaemon == ASSUME ~OpenRace PROVE Spec => []OneDaemon
<1>1. IInv => OneDaemon
  BY HolderIsOne DEF IInv
<1> QED BY <1>1, Invariance, PTL

(* Under the same proviso a serving daemon can be found: pid file and       *)
(* socket are its own, so removing a stale socket (server.rs:45) never      *)
(* removes a live one.                                                      *)
THEOREM ServingIsReachable == ASSUME ~OpenRace PROVE Spec => []Reachable
<1>1. IInv => Reachable
  BY DEF IInv, Holder, Named, Bound, Reachable, Holding, Owning, Serving
<1> QED BY <1>1, Invariance, PTL

-----------------------------------------------------------------------------
(* What the daemon knows of the services it has acknowledged: none is       *)
(* forgotten while it lives.  This asks for no proviso on the pid file.     *)

(* What has been spawned has existed.                                       *)
Existed == \A d \in Daemons : \A s \in spawned[d] : svc[s] # "none"

(* A command asks once, and only `run` gets a service, from its answerer.   *)
AskedOnce == \A c \in Clients :
  /\ conn[c] = "none" => peer[c] = Nobody
  /\ op[c] = "run" /\ conn[c] # "none" => cpc[c] \in {"reply", "answered", "failed"}
  /\ what[c] # NoService => /\ op[c] = "run" /\ conn[c] \notin {"none", "sent", "taken"}
                            /\ svc[what[c]] # "none"

(* A living daemon tracks every service it has acknowledged or is about to, *)
(* until it is gone.                                                        *)
Tracked == \A c \in Clients : \A d \in Daemons : what[c] \in spawned[d] =>
  /\ peer[c] = d
  /\ conn[c] \in {"tracked", "answered"} /\ dpc[d] \notin Over =>
       what[c] \in tracked[d] \/ svc[what[c]] = "gone"

(* What the shutdown listed is signalled before the list is empty.          *)
Listed == \A d \in Daemons : \A s \in known[d] :
  /\ s \in spawned[d]
  /\ dpc[d] \in {"collected", "closed", "unlinked", "gone", "crashed"}
  /\ dpc[d] = "collected" => s \in list[d] \/ svc[s] \in {"term", "gone"}
  /\ dpc[d] \in {"closed", "unlinked", "gone"} => svc[s] \in {"term", "gone"}

Knowing == TypeOK /\ Existed /\ AskedOnce /\ Tracked /\ Listed

LEMMA KnowingInit == Init => Knowing
<1> SUFFICES ASSUME Init PROVE Knowing
  OBVIOUS
<1>1. TypeOK
  BY TypeInit
<1> QED BY <1>1 DEF Init, Knowing, Existed, AskedOnce, Tracked, Listed, Over

LEMMA ListedNext == Knowing /\ [Next]_vars => Listed'
<1> SUFFICES ASSUME Knowing, [Next]_vars PROVE Listed'
  OBVIOUS
<1> USE DaemonAssumption DEF Knowing, TypeOK, Listed, Over
<1>1. ASSUME NEW d \in Daemons, Collect(d) PROVE Listed'
  <2>1. \A s \in Acknowledged(d) :
          s \in spawned[d] /\ (s \in tracked[d] \/ svc[s] = "gone")
    <3> SUFFICES ASSUME NEW c \in Clients, conn[c] = "answered", what[c] \in spawned[d]
                 PROVE  what[c] \in tracked[d] \/ svc[what[c]] = "gone"
      BY DEF Acknowledged
    <3> QED BY <1>1 DEF Tracked, Collect, Goto
  <2> QED BY <1>1, <2>1 DEF Collect, Goto
<1>2. ASSUME NEW d \in Daemons, NEW s \in Services, SignalChild(d, s) PROVE Listed'
  <2>1. svc[s] # "none" => svc'[s] \in {"term", "gone"}
    BY <1>2 DEF SignalChild, Terminated
  <2>2. \A t \in Services \ {s} : svc'[t] = svc[t]
    BY <1>2 DEF SignalChild
  <2>3. \A e \in Daemons : list'[e] = list[e] \/ list'[e] = list[e] \ {s}
    BY <1>2 DEF SignalChild
  <2>4. UNCHANGED <<dpc, known, spawned>>
    BY <1>2 DEF SignalChild
  <2>5. \A e \in Daemons : \A t \in known[e] : svc[t] # "none"
    BY DEF Existed
  <2>6. \A e \in Daemons : known[e] \subseteq Services
    OBVIOUS
  <2>7. ASSUME NEW e \in Daemons, NEW t \in known[e], svc[t] \in {"term", "gone"}
        PROVE  svc'[t] \in {"term", "gone"}
    BY <2>1, <2>2, <2>6, <2>7
  <2>8. ASSUME NEW e \in Daemons, NEW t \in known[e], dpc[e] = "collected"
        PROVE  t \in list'[e] \/ svc'[t] \in {"term", "gone"}
    BY <2>1, <2>3, <2>5, <2>7, <2>8
  <2> QED BY <2>4, <2>7, <2>8
<1>3. ASSUME NEW d \in Daemons, TakeBell(d) \/ Unlink(d) \/ Exit(d) \/ Crash(d) PROVE Listed'
  BY <1>3 DEF TakeBell, Unlink, Exit, Crash, Gone, Goto
<1>4. ASSUME NEW d \in Daemons, RemoveSocket(d) PROVE Listed'
  BY <1>4 DEF RemoveSocket, Goto
<1>5. ASSUME NEW d \in Daemons, Startup(d) PROVE Listed'
  <2>1. UNCHANGED <<spawned, svc, list, known>>
    BY <1>5 DEF Startup, Open, Lock, Truncate, WritePid, RemoveStale, Bind
  <2>2. \E from \in {"new", "opened", "locked", "empty", "owner", "swept"} :
          \E to : Goto(d, from, to)
    BY <1>5 DEF Startup, Open, Lock, Truncate, WritePid, RemoveStale, Bind
  <2>3. known[d] = {} /\ \A e \in Daemons \ {d} : dpc'[e] = dpc[e]
    BY <2>2 DEF Goto
  <2> QED BY <2>1, <2>3
<1>6. ASSUME NEW d \in Daemons, ReapChildren(d) \/ PidReused(d) PROVE Listed'
  BY <1>6 DEF ReapChildren, PidReused
<1>7. ASSUME NEW c \in Clients, Answering(c) PROVE Listed'
  <2>1. UNCHANGED <<dpc, list, known>>
    BY <1>7 DEF Answering, Accept, AnswerOther, RingBell, Track, AnswerSpawned, SpawnWrapper,
                Serve
  <2>2. \A e \in Daemons : spawned[e] \subseteq spawned'[e]
    BY <1>7 DEF Answering, Accept, AnswerOther, RingBell, Track, AnswerSpawned, SpawnWrapper
  <2>3. \A s \in Services : svc[s] # "none" => svc'[s] = svc[s]
    BY <1>7 DEF Answering, Accept, AnswerOther, RingBell, Track, AnswerSpawned, SpawnWrapper
  <2>4. \A e \in Daemons : \A s \in known[e] : s \in Services /\ svc[s] # "none"
    BY DEF Existed
  <2> QED BY <2>1, <2>2, <2>3, <2>4
<1>8. ASSUME NEW c \in Clients, Command(c) PROVE Listed'
  <2>1. UNCHANGED <<spawned, svc, list, known>>
    BY <1>8 DEF Command, Look, LookAgain, Launch, AwaitSocket, Connect, Reply, PollStopped,
                Asks
  <2>2. dpc' = dpc \/ \E d \in Daemons : dpc[d] = "off" /\ dpc' = [dpc EXCEPT ![d] = "new"]
    BY <1>8 DEF Command, Look, LookAgain, Launch, AwaitSocket, Connect, Reply, PollStopped,
                Asks, Goto
  <2> QED BY <2>1, <2>2
<1>9. ASSUME NEW s \in Services, ServiceExits(s) PROVE Listed'
  BY <1>9 DEF ServiceExits
<1>10. CASE UNCHANGED vars
  BY <1>10
<1> QED BY <1>1, <1>2, <1>3, <1>4, <1>5, <1>6, <1>7, <1>8, <1>9, <1>10 DEF Next, Shutdown

LEMMA KnowingNext == Knowing /\ [Next]_vars => Knowing'
<1> SUFFICES ASSUME Knowing, [Next]_vars PROVE Knowing'
  OBVIOUS
<1>1. TypeOK'
  BY TypeNext DEF Knowing
<1> DEFINE Rest == Existed /\ AskedOnce /\ Tracked
<1> SUFFICES Rest'
  BY <1>1, ListedNext DEF Knowing
<1> USE DaemonAssumption DEF Knowing, Existed, AskedOnce, Tracked, Over
(* The daemons' own steps, but the end of one, touch none of it.            *)
<1>2. ASSUME NEW d \in Daemons,
             \/ Startup(d) \/ TakeBell(d) \/ Collect(d) \/ RemoveSocket(d) \/ Unlink(d)
             \/ PidReused(d)
      PROVE  Rest'
  <2>1. UNCHANGED <<tracked, spawned, svc, op, cpc, peer, conn, what>>
    BY <1>2 DEF Startup, Open, Lock, Truncate, WritePid, RemoveStale, Bind, TakeBell,
                Collect, RemoveSocket, Unlink, PidReused
  <2>2. \A e \in Daemons : dpc'[e] \notin Over => dpc[e] \notin Over
    BY <1>2 DEF Startup, Open, Lock, Truncate, WritePid, RemoveStale, Bind, TakeBell,
                Collect, RemoveSocket, Unlink, PidReused, Goto, TypeOK
  <2> QED BY <2>1, <2>2
<1>3. ASSUME NEW d \in Daemons, NEW s \in Services, SignalChild(d, s) PROVE Rest'
  BY <1>3 DEF SignalChild, Terminated, TypeOK
<1>4. ASSUME NEW d \in Daemons, Exit(d) \/ Crash(d) PROVE Rest'
  <2>1. /\ \A e \in Daemons \ {d} : tracked'[e] = tracked[e] /\ dpc'[e] = dpc[e]
        /\ dpc'[d] \in Over
    BY <1>4 DEF Exit, Crash, Gone, Goto, TypeOK
  <2>2. UNCHANGED <<spawned, svc, op, cpc, peer, what>>
    BY <1>4 DEF Exit, Crash, Gone
  <2>3. \A c \in Clients : conn'[c] = conn[c] \/ (conn'[c] = "reset" /\ peer[c] = d)
    BY <1>4 DEF Exit, Crash, Gone, TypeOK
  <2>4. Existed'
    BY <2>2
  <2>5. Tracked'
    BY <2>1, <2>2, <2>3
  <2>6. \A c \in Clients : conn[c] = "none" => peer[c] = Nobody
    OBVIOUS
  <2>7. AskedOnce'
    BY <2>2, <2>3, <2>6
  <2> QED BY <2>4, <2>5, <2>7
<1>5. ASSUME NEW d \in Daemons, ReapChildren(d) PROVE Rest'
  BY <1>5 DEF ReapChildren, Kept, TypeOK
<1>6. ASSUME NEW c \in Clients, Answering(c) PROVE Rest'
  <2>1. CASE Accept(c)
    BY <2>1 DEF Accept, Serve, TypeOK
  <2>2. CASE AnswerOther(c)
    BY <2>2 DEF AnswerOther, Serve, TypeOK
  <2>3. CASE RingBell(c)
    BY <2>3 DEF RingBell, Serve, TypeOK
  <2>4. CASE Track(c)
    BY <2>4 DEF Track, Serve, TypeOK
  <2>5. CASE AnswerSpawned(c)
    BY <2>5 DEF AnswerSpawned, Serve, TypeOK
  <2>6. ASSUME NEW s \in Services, SpawnWrapper(c, s) PROVE Rest'
    BY <2>6 DEF SpawnWrapper, Serve, TypeOK
  <2> QED BY <1>6, <2>1, <2>2, <2>3, <2>4, <2>5, <2>6 DEF Answering
<1>7. ASSUME NEW c \in Clients, Command(c) PROVE Rest'
  <2>0. UNCHANGED <<tracked, spawned, svc, op, what>>
    BY <1>7 DEF Command, Look, LookAgain, Launch, AwaitSocket, Connect, Reply, PollStopped,
                Asks
  <2>1. CASE Launch(c)
    <3>1. UNCHANGED <<peer, conn>>
      BY <2>1 DEF Launch
    <3>2. \A d \in Daemons : dpc'[d] \notin Over => dpc[d] \notin Over
      BY <2>1 DEF Launch, Goto, TypeOK
    <3>3. \A b \in Clients : b # c => cpc'[b] = cpc[b]
      BY <2>1 DEF Launch, Turn, TypeOK
    <3>4. cpc[c] = "launch"
      BY <2>1 DEF Launch
    <3> QED BY <2>0, <3>1, <3>2, <3>3, <3>4
  <2>2. CASE Connect(c)
    <3>1. dpc' = dpc /\ \A b \in Clients : b # c => cpc'[b] = cpc[b] /\ peer'[b] = peer[b]
                                                     /\ conn'[b] = conn[b]
      BY <2>2 DEF Connect, Turn, Failed, TypeOK
    <3>2. cpc[c] = "connect"
      BY <2>2 DEF Connect
    <3>3. \/ UNCHANGED <<peer, conn>>
          \/ conn'[c] = "sent" /\ cpc'[c] = "reply"
      BY <2>2 DEF Connect, Turn, TypeOK
    <3>4. op[c] = "run" => conn[c] = "none"
      BY <3>2
    <3>5. what[c] = NoService
      BY <3>4
    <3>6. AskedOnce'
      BY <2>0, <3>1, <3>3, <3>4, <3>5
    <3>7. Tracked'
      BY <2>0, <3>1, <3>5 DEF TypeOK
    <3> QED BY <2>0, <3>6, <3>7
  <2>3. ASSUME Look(c) \/ LookAgain(c) \/ AwaitSocket(c) \/ Reply(c) \/ PollStopped(c)
        PROVE Rest'
    BY <2>0, <2>3 DEF Look, LookAgain, AwaitSocket, Reply, PollStopped, Asks, Turn, Failed,
                TypeOK
  <2> QED BY <1>7, <2>1, <2>2, <2>3 DEF Command
<1>8. ASSUME NEW s \in Services, ServiceExits(s) PROVE Rest'
  BY <1>8 DEF ServiceExits, TypeOK
<1>9. CASE UNCHANGED vars
  BY <1>9
<1> QED BY <1>2, <1>3, <1>4, <1>5, <1>6, <1>7, <1>8, <1>9 DEF Next, Shutdown

(* A service whose start the daemon has acknowledged is not left alone by   *)
(* its shutdown (server.rs:107): when the socket is given up it has been    *)
(* sent SIGTERM or is gone, whatever else is starting, being tracked or     *)
(* being reaped at the time.                                                *)
THEOREM ServicesAreStopped == Spec => []KnownServicesStopped
<1>1. Knowing => KnownServicesStopped
  BY DEF Knowing, Listed, KnownServicesStopped
<1>2. Knowing /\ [Next]_vars => Knowing'
  BY KnowingNext
<1> QED BY <1>1, <1>2, KnowingInit, PTL DEF Spec

(* Under the proviso of AtMostOneDaemon, `daemon stop` says "stopped" only  *)
(* when the daemon that acknowledged it is over: unless it was killed, it   *)
(* has given up its pid file and its socket, and the services it knew have  *)
(* been sent SIGTERM or are gone.                                           *)
THEOREM StoppedMeansOver == ASSUME ~OpenRace PROVE Spec => []StoppedIsOver
<1>1. IInv /\ KnownServicesStopped => StoppedIsOver
  <2> SUFFICES ASSUME IInv, KnownServicesStopped, NEW c \in Clients, cpc[c] = "stopped",
                      dpc[peer[c]] # "crashed"
               PROVE  /\ dpc[peer[c]] \in {"unlinked", "gone"} /\ sock # peer[c]
                      /\ \A s \in known[peer[c]] : svc[s] \in {"term", "gone"}
    BY DEF StoppedIsOver
  <2>1. peer[c] \in Daemons /\ dpc[peer[c]] \in {"unlinked", "gone"}
    BY DEF IInv, Served, StoppedOver, Over
  <2>2. sock # peer[c]
    BY <2>1 DEF IInv, GivenUp, Serving
  <2> QED BY <2>1, <2>2 DEF KnownServicesStopped
<1> QED BY <1>1, Invariance, ServicesAreStopped, PTL
=============================================================================
