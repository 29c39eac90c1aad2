----------------------------- MODULE ViewsProofs -----------------------------
(* Proofs about Views: what the reading commands show, for any number of    *)
(* services, runs, wrappers and clients.                                   *)
EXTENDS Views, RegistryProofs

-----------------------------------------------------------------------------
(* The row of a child that lives, once it has its PID, is open: a run ends  *)
(* after its child, and a sweep passes over a PID that lives.  Ids stay     *)
(* within the bound.                                                       *)
ChildInv ==
  /\ \A r \in child \intersect DOMAIN runs : runs[r].pid => runs[r].status = "running"
  /\ clock = 1 \/ clock <= MaxClock

LEMMA ChildStep ==
  ASSUME RInv, ChildInv, [RNext]_vars
  PROVE  ChildInv'
<1>0. WellTyped /\ CmdInv /\ OwnRow /\ TablesOK /\ Statement
  BY StepsAreStatements DEF RInv, WellTyped
<1>1. clock' = 1 \/ clock' <= MaxClock
  BY <1>0, ClockBound DEF ChildInv
<1>2. ASSUME NEW r \in child', r \in DOMAIN runs', runs'[r].pid
      PROVE  runs'[r].status = "running"
  <2> DEFINE Goal == runs'[r].status = "running"
  <2>1. ASSUME NEW c \in Wrappers, Spawn(c), r = cmd[c].run
        PROVE  Goal
    <3>1. runs' = runs /\ cmd[c].pc = "spawn"
      BY <2>1 DEF Spawn, CmdIs, Read, tables, rows
    <3> QED
      BY <1>0, <1>2, <2>1, <3>1 DEF OwnRow, OnARun
  <2>2. CASE r \notin child
    <3>1. ASSUME NEW c \in Wrappers, Command(c), ~Spawn(c)
          PROVE  UNCHANGED child
      BY <3>1 DEF Command, StartPlain, StartNamed, StartResume, Starts, Supersede,
                  Register, Tag, Fails, BeginRun, RecordPid, PortFound, EndRun,
                  Enrich, Finish
    <3>2. ASSUME NEW k \in Clients, Begins(k) \/ Signals(k) \/ Purge(k)
          PROVE  child' \subseteq child
      BY <3>2 DEF Begins, Signals, Kill, KillTree, KillWrapper, Restart, Purge,
                  PurgeStops, Choose, NextService, ListDirs, Cascade, RemoveDirs
    <3>3. (RTick \/ (\E q \in child : ChildExits(q)) \/ UNCHANGED vars) => child' \subseteq child
      BY DEF RTick, ChildExits, vars
    <3>4. PICK c \in Wrappers : Spawn(c)
      BY <1>2, <2>2, <3>1, <3>2, <3>3 DEF RNext
    <3>5. r = cmd[c].run
      BY <1>2, <2>2, <3>4 DEF Spawn
    <3> QED
      BY <2>1, <3>4, <3>5
  <2>3. CASE r \in child
    <3>1. r \in Past /\ r < clock
      BY <1>0, <2>3 DEF WellTyped, Past
    <3>2. r \in DOMAIN runs /\ runs[r] \in RunRow
      BY <1>0, <1>2, <3>1, Ids DEF TablesOK, Rows
    <3>3. runs'[r] = runs[r] => Goal
      BY <1>2, <2>3, <3>2 DEF ChildInv
    <3>4. ASSUME NEW c \in Wrappers, BeginRun(c)
          PROVE  Goal
      BY <1>0, <3>1, <3>2, <3>3, <3>4 DEF BeginRun, CreateRun, Put
    <3>5. ASSUME NEW c \in Wrappers, RecordPid(c)
          PROVE  Goal
      <4> DEFINE q == cmd[c].run
      <4>1. runs' = [runs EXCEPT ![q].pid = TRUE] /\ q \in DOMAIN runs /\ CmdIs(c, "wait")
        BY <3>5 DEF RecordPid, UpdateRunPid, UpdatesRuns
      <4>2. CASE r # q
        BY <3>3, <4>1, <4>2
      <4>3. CASE r = q
        <5>1. runs[r].status = "running"
          BY <1>0, <4>1, <4>3 DEF OwnRow, OnARun, CmdIs
        <5> QED
          BY <3>2, <4>1, <4>3, <5>1 DEF RunRow
      <4> QED
        BY <4>2, <4>3
    <3>6. ASSUME NEW c \in Wrappers, EndRun(c)
          PROVE  Goal
      <4>1. PICK st \in Ended \ {"crashed"} : UpdateRunStatus(cmd[c].run, st)
        BY <3>6 DEF EndRun
      <4>2. r # cmd[c].run
        BY <2>3, <3>6 DEF EndRun
      <4> QED
        BY <3>2, <3>3, <4>1, <4>2 DEF UpdateRunStatus, UpdatesRuns
    <3>7. ASSUME NEW k \in Clients, Begins(k)
          PROVE  Goal
      <4>1. PICK t \in {1, clock} : FinalizeStale({q \in DOMAIN runs : Dead(q)}, t)
        BY <3>7 DEF Begins, Sweep
      <4>2. CASE Dead(r) /\ runs[r].status = "running"
        <5>1. runs'[r] = [runs[r] EXCEPT !.status = "crashed", !.ended = IF t < r THEN r ELSE t]
          BY <3>2, <4>1, <4>2 DEF FinalizeStale, UpdatesRuns
        <5>2. runs[r].pid
          BY <1>2, <3>2, <5>1 DEF RunRow
        <5> QED
          BY <2>3, <4>2, <5>2 DEF Dead
      <4>3. CASE ~(Dead(r) /\ runs[r].status = "running")
        BY <3>2, <3>3, <4>1, <4>3 DEF FinalizeStale, UpdatesRuns
      <4> QED
        BY <4>2, <4>3
    <3>8. ASSUME NEW k \in Clients, Cascade(k)
          PROVE  Goal
      BY <1>2, <3>3, <3>8 DEF Cascade, DeletePorts, DeleteRuns, DeleteTags, DeleteService, Drop
    <3>9. ASSUME NEW c \in Wrappers, Command(c), ~(BeginRun(c) \/ RecordPid(c) \/ EndRun(c))
          PROVE  UNCHANGED runs
      BY <3>9 DEF Command, StartPlain, StartNamed, StartResume, Starts, Supersede,
         Register, Tag, Fails, Spawn, PortFound, Enrich, Finish, Read, tables, rows,
         Rename, CreateService, AddTag, AddPort
    <3>10. ASSUME NEW k \in Clients, Signals(k) \/ (Purge(k) /\ ~Cascade(k))
           PROVE  UNCHANGED runs
      BY <3>10 DEF Signals, Kill, KillTree, KillWrapper, Restart, Purge, PurgeStops, Choose,
              NextService, ListDirs, RemoveDirs, Read, tables, rows
    <3>11. (RTick \/ (\E q \in child : ChildExits(q)) \/ UNCHANGED vars) => UNCHANGED runs
      BY DEF RTick, ChildExits, vars, Tick, Read, tables, rows
    <3>12. UNCHANGED runs => Goal
      BY <3>3
    <3> HIDE DEF Goal
    <3>13. ASSUME NEW c \in Wrappers, Command(c)
           PROVE  Goal
      BY <3>4, <3>5, <3>6, <3>9, <3>12, <3>13
    <3>14. ASSUME NEW k \in Clients, Begins(k) \/ Purge(k) \/ Signals(k)
           PROVE  Goal
      BY <3>7, <3>8, <3>10, <3>12, <3>14
    <3>15. Goal
      BY <3>11, <3>12, <3>13, <3>14 DEF RNext
    <3> QED
      BY <3>15 DEF Goal
  <2> QED
    BY <2>2, <2>3
<1> QED
  BY <1>1, <1>2 DEF ChildInv

LEMMA ChildInvariant == RSpec => []ChildInv
<1>1. RInit => ChildInv
  BY DEF RInit, ChildInv
<1>2. RInv /\ ChildInv /\ [RNext]_vars => ChildInv'
  BY ChildStep
<1> QED
  BY <1>1, <1>2, RInvariant, PTL DEF RSpec

-----------------------------------------------------------------------------
(* The choices of the queries. *)
LEMMA NewestOf ==
  ASSUME WellTyped, NEW R, R \subseteq Past, R # {}
  PROVE  Newest(R) \in R
<1>1. clock \in Nat
  BY DEF WellTyped, TablesOK
<1>2. R \subseteq Nat /\ \A x \in R : x <= clock
  BY <1>1 DEF Past
<1>3. \E x \in R : \A y \in R : y <= x
  BY <1>1, <1>2, Greatest
<1> QED
  BY <1>3 DEF Newest

(* Of runs of which one is running, the foremost is running.               *)
LEMMA ForemostLives ==
  ASSUME WellTyped, NEW R, R \subseteq Past, NEW r \in R, runs[r].status = "running"
  PROVE  Foremost(R) \in R /\ Foremost(R) # None /\ runs[Foremost(R)].status = "running"
<1> DEFINE live == {q \in R : runs[q].status = "running"}
<1>1. live \subseteq Past /\ live # {}
  OBVIOUS
<1>2. Newest(live) \in live
  BY <1>1, NewestOf
<1>3. Foremost(R) = Newest(live)
  BY <1>1 DEF Foremost
<1>4. Newest(live) # None
  BY <1>1, <1>2, TablesAssumption DEF Past
<1> QED
  BY <1>2, <1>3, <1>4

(* A limit that no table reaches leaves nothing out.                       *)
LEMMA AllWithin ==
  ASSUME WellTyped, ChildInv, NEW S, S \subseteq Past
  PROVE  Latest(S, MaxClock) = S
<1> SUFFICES ASSUME NEW x \in S
             PROVE  Cardinality({y \in S : y > x}) < MaxClock
  BY DEF Latest
<1>1. clock \in Nat /\ MaxClock \in Nat /\ 1 <= x /\ x < clock /\ x \in Nat
  BY TablesAssumption DEF WellTyped, TablesOK, Past
<1>2. clock <= MaxClock
  BY <1>1 DEF ChildInv
<1>3. {y \in S : y > x} \subseteq 1..(clock - 1)
  <2>1. \A y \in Past : y \in 1..(clock - 1)
    BY <1>1 DEF Past
  <2> QED
    BY <2>1
<1>4. IsFiniteSet(1..(clock - 1)) /\ Cardinality(1..(clock - 1)) = clock - 1
  BY <1>1, FS_Interval
<1> DEFINE later == {y \in S : y > x}
<1> HIDE DEF later
<1>5. IsFiniteSet(later) /\ Cardinality(later) <= clock - 1
  BY <1>3, <1>4, FS_Subset DEF later
<1>6. Cardinality(later) \in Nat
  BY <1>5, FS_CardinalityType
<1> QED
  BY <1>1, <1>2, <1>5, <1>6 DEF later

LEMMA GroupsAreFinite ==
  ASSUME WellTyped
  PROVE  IsFiniteSet(Grouped)
<1>1. clock \in Nat /\ DOMAIN services \subseteq 1..clock
  BY DEF WellTyped, TablesOK, Past
<1>2. IsFiniteSet(DOMAIN services)
  <2>1. IsFiniteSet(1..clock)
    BY <1>1, FS_Interval
  <2> QED
    BY <1>1, <2>1, FS_Subset
<1> DEFINE f == [s \in DOMAIN services |-> Group(services[s].group)]
<1>3. f \in Surjection(DOMAIN services, Grouped)
  <2>1. \A s \in DOMAIN services : f[s] \in Grouped
    BY DEF Grouped
  <2>2. \A x \in Grouped : \E s \in DOMAIN services : f[s] = x
    BY DEF Grouped
  <2> HIDE DEF Grouped
  <2>3. f \in [DOMAIN services -> Grouped]
    BY <2>1
  <2> HIDE DEF f
  <2> QED
    BY <2>2, <2>3 DEF Surjection
<1> HIDE DEF f
<1> QED
  BY <1>2, <1>3, FS_Surjection

-----------------------------------------------------------------------------
(* A living child with its PID recorded is alive for everybody, whatever    *)
(* else the tables hold (reconcile.rs:1-7).                                *)
LEMMA ShownAlive ==
  ASSUME RInv, ChildInv, Swept, NEW r \in child \intersect DOMAIN runs, runs[r].pid,
         NEW s, s = runs[r].service
  PROVE  /\ s \in DOMAIN services /\ r \in RunsOf(s) /\ runs[r].status = "running"
         /\ LatestRun(s) \in RunsOf(s) /\ LatestRun(s) # None
         /\ runs[LatestRun(s)].status = "running"
         /\ Shown(LatestRun(s)) = "running"
<1>1. WellTyped /\ NoOrphans
  BY DEF RInv
<1>2. s \in DOMAIN services /\ r \in RunsOf(s) /\ runs[r].status = "running"
  BY <1>1 DEF NoOrphans, RunsOf, ChildInv
<1>3. RunsOf(s) \subseteq Past
  BY <1>1 DEF RunsOf, WellTyped
<1>4. /\ LatestRun(s) \in RunsOf(s) /\ LatestRun(s) # None
      /\ runs[LatestRun(s)].status = "running"
  BY <1>1, <1>2, <1>3, ForemostLives DEF LatestRun
<1> QED
  BY <1>2, <1>4 DEF Shown

(* So it can be signalled.                                                 *)
LEMMA CanBeReached ==
  ASSUME RInv, Swept, NEW q \in DOMAIN runs, runs[q].status = "running",
         NEW sig \in {"TERM", "KILL"}
  PROVE  Route(q, sig) # "nowhere"
<1>1. q # None
  BY TablesAssumption DEF RInv, WellTyped, TablesOK, Rows
<1>2. Up(runs[q].wrapper) \/ runs[q].pid
  BY DEF Swept, Dead
<1> QED
  BY <1>1, <1>2 DEF Route

(* No group that is asked for is left out where there is room for all.     *)
LEMMA GroupFound ==
  ASSUME RInv, NEW g, Group(g) \in Grouped, NEW f,
         f.name = Anything, f.group = Anything, f.port = Anything,
         f.status \in {Anything, Group(g).status}
  PROVE  Group(g) \in DiscoverGroups(f, Anything, 1 + Cardinality(Grouped))
<1> DEFINE G == {x \in Grouped :
              /\ f.name = Anything \/ \E q \in x.services : services[q].name = f.name
              /\ f.group \in {Anything, x.group}
              /\ f.status \in {Anything, x.status}
              /\ f.port = Anything \/ \E q \in LatestIn(x.group) : f.port \in PortsOf(q)
              /\ Anything = Anything \/ x.last \in Anything}
           ahead(x) == {y \in G : y.last # None /\ (x.last = None \/ y.last > x.last)}
<1>1. Group(g) \in G
  OBVIOUS
<1>2. IsFiniteSet(Grouped) /\ Cardinality(Grouped) \in Nat
  BY GroupsAreFinite, FS_CardinalityType DEF RInv
<1>3. ahead(Group(g)) \subseteq Grouped
  OBVIOUS
<1> HIDE DEF ahead
<1>4. IsFiniteSet(ahead(Group(g))) /\ Cardinality(ahead(Group(g))) <= Cardinality(Grouped)
  BY <1>2, <1>3, FS_Subset
<1>5. Cardinality(ahead(Group(g))) \in Nat
  BY <1>4, FS_CardinalityType
<1>6. Cardinality(ahead(Group(g))) < 1 + Cardinality(Grouped)
  BY <1>2, <1>4, <1>5
<1>7. Group(g) \in FirstGroups(G, 1 + Cardinality(Grouped))
  BY <1>1, <1>6 DEF FirstGroups, ahead
<1> QED
  BY <1>7 DEF DiscoverGroups

(* Its group is not shown as over by `list --group`, and is found by status *)
(* while no other service of it started a run later.                       *)
LEMMA GroupAlive ==
  ASSUME RInv, NEW s \in DOMAIN services,
         Shown(LatestRun(s)) = "running", runs[LatestRun(s)].status = "running",
         LatestRun(s) # None, NEW g, g = services[s].group
  PROVE  /\ \E x \in ListGroups(Anything) :
              x.group = g /\ x.status \in {"running", "restarting"}
         /\ Group(g) \in NamedGroups(Anything)
         /\ Group(g) \in DiscoverGroups(NoFilter, Anything, 1 + Cardinality(Grouped))
         /\ Group(g).last = LatestRun(s) =>
              Group(g) \in DiscoverGroups([NoFilter EXCEPT !.status = "running"],
                                          Anything, 1 + Cardinality(Grouped))
<1>0. WellTyped
  BY DEF RInv
<1>1. Group(g) \in Grouped
  BY DEF Grouped
<1>2. Group(g) \in NamedGroups(Anything)
  BY <1>1 DEF NamedGroups
<1>3. GroupShown(Group(g)) \in {"running", "restarting"}
  <2> DEFINE x == Group(g)
             live == {q \in x.services : Shown(LatestRun(q)) \in {"running", "restarting"}}
  <2>1. x.services = InGroup(g)
    BY DEF Group
  <2>2. s \in live /\ live \subseteq Past
    BY <1>0, <2>1 DEF InGroup, WellTyped
  <2>3. Newest(live) \in live
    BY <1>0, <2>2, NewestOf
  <2>4. Shown(LatestRun(Newest(live))) \in {"running", "restarting"}
    BY <2>3
  <2>5. live # {}
    BY <2>2
  <2> HIDE DEF live
  <2>6. GroupShown(x) = IF x.status = "running" THEN "running"
                        ELSE Shown(LatestRun(Newest(live)))
    BY <2>5 DEF GroupShown, live
  <2> QED
    BY <2>4, <2>6
<1>4. \E x \in ListGroups(Anything) : x.group = g /\ x.status \in {"running", "restarting"}
  <2> DEFINE line(x) == [x EXCEPT !.status = GroupShown(x)]
  <2>1. line(Group(g)) \in ListGroups(Anything)
    BY <1>2 DEF ListGroups
  <2> HIDE DEF GroupShown
  <2>2. line(Group(g)).group = g /\ line(Group(g)).status = GroupShown(Group(g))
    BY DEF Group
  <2> QED
    BY <1>3, <2>1, <2>2
<1>5. Group(g) \in DiscoverGroups(NoFilter, Anything, 1 + Cardinality(Grouped))
  <2>1. /\ NoFilter.name = Anything /\ NoFilter.group = Anything
        /\ NoFilter.port = Anything /\ NoFilter.status = Anything
    BY DEF NoFilter
  <2> QED
    BY <1>1, <2>1, GroupFound
<1>6. ASSUME Group(g).last = LatestRun(s)
      PROVE  Group(g) \in DiscoverGroups([NoFilter EXCEPT !.status = "running"],
                                         Anything, 1 + Cardinality(Grouped))
  <2> DEFINE f == [NoFilter EXCEPT !.status = "running"]
  <2>1. Group(g).status = "running"
    BY <1>6 DEF Group
  <2>2. /\ f.name = Anything /\ f.group = Anything
        /\ f.port = Anything /\ f.status = "running"
    BY DEF NoFilter
  <2> HIDE DEF f
  <2>3. Group(g) \in DiscoverGroups(f, Anything, 1 + Cardinality(Grouped))
    BY <1>1, <2>1, <2>2, GroupFound
  <2> QED
    BY <2>3 DEF f
<1> QED
  BY <1>2, <1>4, <1>5, <1>6

(* The searches by status find it: no limit of MaxClock leaves it out.     *)
LEMMA FoundByStatus ==
  ASSUME RInv, ChildInv, NEW r \in DOMAIN runs, runs[r].status = "running",
         NEW s \in DOMAIN services, s = runs[r].service
  PROVE  /\ s \in Discover([NoFilter EXCEPT !.status = "running"], Anything, MaxClock)
         /\ \E x \in ListRecentRuns(services[s].group, "running", MaxClock) : x.run = r
<1>0. WellTyped /\ DOMAIN services \subseteq Past /\ DOMAIN runs \subseteq Past
  BY DEF RInv, WellTyped
<1>1. s \in Discover([NoFilter EXCEPT !.status = "running"], Anything, MaxClock)
  <2> DEFINE f == [NoFilter EXCEPT !.status = "running"]
             S == {q \in DOMAIN services :
                    /\ f.name \in {Anything, services[q].name} /\ f.group \in {Anything, services[q].group}
                    /\ \A t \in f.tags : <<q, t>> \in tags
                    /\ f.status # Anything \/ f.port # Anything =>
                         \E p \in RunsOf(q) : /\ f.status \in {Anything, runs[p].status}
                                              /\ f.port = Anything \/ <<p, f.port>> \in ports}
  <2>1. /\ f.name = Anything /\ f.group = Anything /\ f.tags = {} /\ f.port = Anything
        /\ f.status = "running"
    BY DEF NoFilter
  <2>2. s \in S
    BY <2>1 DEF RunsOf
  <2>3. Latest(S, MaxClock) = S
    BY <1>0, AllWithin
  <2>4. s \in SearchServices(f, MaxClock)
    BY <2>2, <2>3 DEF SearchServices
  <2> QED
    BY <2>4 DEF Discover
<1>2. \E x \in ListRecentRuns(services[s].group, "running", MaxClock) : x.run = r
  <2> DEFINE g == services[s].group
             S == {q \in DOMAIN runs : /\ "running" \in {Anything, runs[q].status}
                                       /\ g \in {Anything, services[runs[q].service].group}}
  <2>1. r \in S
    OBVIOUS
  <2>2. Latest(S, MaxClock) = S
    BY <1>0, AllWithin
  <2>3. r \in RecentRuns(g, "running", MaxClock)
    BY <2>1, <2>2 DEF RecentRuns
  <2> DEFINE x == [run |-> r, service |-> runs[r].service, status |-> runs[r].status]
  <2>4. x \in ListRecentRuns(g, "running", MaxClock) /\ x.run = r
    BY <2>3 DEF ListRecentRuns
  <2> HIDE DEF x
  <2> QED
    BY <2>4
<1> QED
  BY <1>1, <1>2

(* Once swept, whoever asks about services or runs is told of a living      *)
(* child, `kill` reaches it and `purge` spares it; its group is not shown  *)
(* as over by `list --group`, and by discover_services not while it is of  *)
(* the run its group started last (reconcile.rs:1-7, list.rs, tools.rs).   *)
THEOREM AliveForAll == RSpec => []AliveIsShown
<1>1. ASSUME RInv, ChildInv PROVE AliveIsShown
  <2> SUFFICES ASSUME Swept, NEW r \in child \intersect DOMAIN runs, runs[r].pid,
                      NEW s, s = runs[r].service, NEW g, g = services[s].group,
                      NEW id, id = [id |-> s, name |-> None, prefix |-> {s}]
               PROVE  /\ ListRow(s).status = "running" /\ ListRow(s) \in List(Anything)
                      /\ [run |-> r, status |-> "running"] \in ListRuns(id)
                      /\ JsonRow(s) \in ListJson(Anything) /\ JsonRow(s).row.status = "running"
                      /\ \E x \in ListGroups(Anything) :
                           x.group = g /\ x.status \in {"running", "restarting"}
                      /\ Group(g) \in NamedGroups(Anything)
                           \intersect DiscoverGroups(NoFilter, Anything, 1 + Cardinality(Grouped))
                      /\ Group(g).last = ListRow(s).last =>
                           Group(g) \in DiscoverGroups([NoFilter EXCEPT !.status = "running"],
                                                       Anything, 1 + Cardinality(Grouped))
                      /\ s \in Discover([NoFilter EXCEPT !.status = "running"], Anything, MaxClock)
                      /\ \E x \in ListRecentRuns(g, "running", MaxClock) : x.run = r
                      /\ [service |-> s, status |-> "running"]
                           \in Metadata({services[s].name}, {}, Anything)
                      /\ r \in SearchedRuns(Anything)
                      /\ runs[ResolveByCwd(g)].status = "running"
                      /\ \A sig \in {"TERM", "KILL"} : Route(LatestRun(s), sig) # "nowhere"
                      /\ s \notin Purgeable(clock + 1, FALSE)
    BY DEF AliveIsShown
  <2>0. WellTyped
    BY <1>1 DEF RInv
  <2>1. /\ s \in DOMAIN services /\ r \in RunsOf(s) /\ runs[r].status = "running"
        /\ LatestRun(s) \in RunsOf(s) /\ LatestRun(s) # None
        /\ runs[LatestRun(s)].status = "running"
        /\ Shown(LatestRun(s)) = "running"
    BY <1>1, ShownAlive
  <2>2. ListRow(s).status = "running" /\ ListRow(s) \in List(Anything)
    BY <2>1 DEF ListRow, List, Listed
  <2>3. JsonRow(s) \in ListJson(Anything) /\ JsonRow(s).row.status = "running"
    <3>1. JsonRow(s) \in ListJson(Anything)
      BY <2>1 DEF ListJson, Listed
    <3>2. JsonRow(s).row = [ListRow(s) EXCEPT !.status = "running"]
      BY <2>1 DEF JsonRow
    <3> QED
      BY <3>1, <3>2 DEF ListRow
  <2>4. [run |-> r, status |-> "running"] \in ListRuns(id)
    <3>1. ResolveService(id) = s /\ s # None
      BY <2>0, <2>1, TablesAssumption DEF ResolveService, WellTyped, TablesOK, Rows
    <3> QED
      BY <2>1, <3>1 DEF ListRuns
  <2>5. /\ \E x \in ListGroups(Anything) :
             x.group = g /\ x.status \in {"running", "restarting"}
        /\ Group(g) \in NamedGroups(Anything)
             \intersect DiscoverGroups(NoFilter, Anything, 1 + Cardinality(Grouped))
        /\ Group(g).last = LatestRun(s) =>
             Group(g) \in DiscoverGroups([NoFilter EXCEPT !.status = "running"],
                                         Anything, 1 + Cardinality(Grouped))
    BY <1>1, <2>1, GroupAlive
  <2>6. ListRow(s).last = LatestRun(s)
    BY DEF ListRow
  <2>7. /\ s \in Discover([NoFilter EXCEPT !.status = "running"], Anything, MaxClock)
        /\ \E x \in ListRecentRuns(g, "running", MaxClock) : x.run = r
    BY <1>1, <2>1, FoundByStatus
  <2>8. [service |-> s, status |-> "running"] \in Metadata({services[s].name}, {}, Anything)
    BY <2>1 DEF Metadata, Matching, StatusOf
  <2>9. r \in SearchedRuns(Anything)
    BY <2>1 DEF SearchedRuns
  <2>10. runs[ResolveByCwd(g)].status = "running"
    <3> DEFINE R == UNION {RunsOf(q) : q \in InGroup(g)}
    <3>1. s \in InGroup(g)
      BY <2>1 DEF InGroup
    <3>2. r \in R /\ R \subseteq Past
      BY <2>0, <2>1, <3>1 DEF RunsOf, WellTyped
    <3> HIDE DEF R
    <3>3. runs[Foremost(R)].status = "running"
      BY <2>0, <2>1, <3>2, ForemostLives
    <3> QED
      BY <3>3 DEF ResolveByCwd, R
  <2>11. \A sig \in {"TERM", "KILL"} : Route(LatestRun(s), sig) # "nowhere"
    BY <1>1, <2>1, CanBeReached DEF RunsOf
  <2>12. s \notin Purgeable(clock + 1, FALSE)
    <3>1. runs[r].ended = None
      BY <2>0, <2>1 DEF WellTyped, TablesOK
    <3> QED
      BY <2>1, <3>1 DEF Purgeable, OverBefore
  <2> QED
    BY <2>2, <2>3, <2>4, <2>5, <2>6, <2>7, <2>8, <2>9, <2>10, <2>11, <2>12
<1> QED
  BY <1>1, RInvariant, ChildInvariant, PTL
=============================================================================
