-------------------------------- MODULE Views --------------------------------
(***************************************************************************)
(* What the reading commands show of the tables of Registry: `list` and    *)
(* its views (cli/list.rs), `search` (cli/search.rs) and the tools         *)
(* discover_services and list_recent_runs (mcp/tools.rs).  All of them     *)
(* sweep first.  Formatting, colours and widths are left out.              *)
(***************************************************************************)
EXTENDS Registry

(* wrapper_aware_status: no child, but a wrapper about to start another.   *)
Shown(r) ==
  IF r = None THEN "no runs"
  ELSE IF runs[r].status # "running" /\ Up(runs[r].wrapper) THEN "restarting"
  ELSE runs[r].status

PortsOf(r) == {p \in Ports : <<r, p>> \in ports}

(* `list` and its --verbose: one row for each service.                     *)
ListRow(s) ==
  [service |-> s, status |-> Shown(LatestRun(s)), last |-> LatestRun(s),
   count |-> Cardinality(RunsOf(s)), ports |-> PortsOf(LatestRun(s)),
   tags |-> {t \in Tags : <<s, t>> \in tags}]
Listed(name) == IF name = Anything THEN DOMAIN services
                ELSE SearchServices([NoFilter EXCEPT !.name = name], 100)
List(name)   == {ListRow(s) : s \in Listed(name)}

(* Its --json: the status as it is recorded, and whether there is a wrapper. *)
JsonRow(s) ==
  LET r == LatestRun(s) IN
    [row     |-> [ListRow(s) EXCEPT !.status = IF r = None THEN None ELSE runs[r].status],
     wrapper |-> r # None /\ Up(runs[r].wrapper)]
ListJson(name) == {JsonRow(s) : s \in Listed(name)}

(* `list <id>`: the runs of a service, as they are recorded.               *)
ListRuns(t) ==
  LET s == ResolveService(t) IN
    IF s = None THEN {} ELSE {[run |-> r, status |-> runs[r].status] : r \in RunsOf(s)}

(* list_services_grouped: services by executable and directory.            *)
LatestIn(g) == {LatestRun(s) : s \in InGroup(g)} \ {None}
Group(g) ==
  LET last == IF LatestIn(g) = {} THEN None ELSE Newest(LatestIn(g)) IN
    [group |-> g, services |-> InGroup(g), last |-> last,
     count |-> Cardinality(UNION {RunsOf(s) : s \in InGroup(g)}),
     status |-> IF last = None THEN None ELSE runs[last].status]
Grouped == {Group(g) : g \in {services[s].group : s \in DOMAIN services}}

(* The groups of the latest runs, those without a run last.                *)
FirstGroups(G, k) ==
  {x \in G : Cardinality({y \in G :
      y.last # None /\ (x.last = None \/ y.last > x.last)}) < k}

(* `list --group --json`: the groups as they are.                          *)
NamedGroups(name) ==
  {x \in Grouped : name = Anything \/ \E s \in x.services : services[s].name = name}

(* `list --group`: group_wrapper_aware_status.  The newest service that    *)
(* runs or restarts decides.                                               *)
GroupShown(x) ==
  LET live == {s \in x.services : Shown(LatestRun(s)) \in {"running", "restarting"}} IN
    IF x.status = "running" THEN "running"
    ELSE IF live # {} THEN Shown(LatestRun(Newest(live)))
    ELSE Shown(x.last)
ListGroups(name) ==
  {[x EXCEPT !.status = GroupShown(x)] : x \in NamedGroups(name)}

(* discover_services, by groups unless asked otherwise.  A group has the   *)
(* status of its latest run and the ports of its services' latest runs,    *)
(* and tags are not asked for; `coded` are the runs of the exit code asked *)
(* for, which is looked for among the services the limit has left.         *)
DiscoverGroups(f, coded, limit) ==
  FirstGroups({x \in Grouped :
    /\ f.name = Anything \/ \E s \in x.services : services[s].name = f.name
    /\ f.group \in {Anything, x.group}
    /\ f.status \in {Anything, x.status}
    /\ f.port = Anything \/ \E r \in LatestIn(x.group) : f.port \in PortsOf(r)
    /\ coded = Anything \/ x.last \in coded}, limit)

Discover(f, coded, limit) ==
  {s \in SearchServices(f, limit) : coded = Anything \/ LatestRun(s) \in coded}

(* list_recent_runs has the filters in its query, the limit last.          *)
ListRecentRuns(g, st, limit) ==
  {[run |-> r, service |-> runs[r].service, status |-> runs[r].status] :
     r \in RecentRuns(g, st, limit)}

(* `search`: the services whose text matches (here: their name or a tag),  *)
(* and those whose logs are looked through, all their runs.  With a filter *)
(* the first are looked for by name or id, the second by name or else id.  *)
Matching(names, found) ==
  {s \in DOMAIN services : services[s].name \in names \/ \E t \in found : <<s, t>> \in tags}
Metadata(names, found, t) ==
  {[service |-> s, status |-> IF LatestRun(s) = None THEN "no runs" ELSE StatusOf(s)] :
     s \in {s \in Matching(names, found) :
              t = Anything \/ services[s].name = t.name \/ s \in t.prefix}}
SearchedRuns(t) ==
  UNION {RunsOf(s) : s \in IF t = Anything THEN DOMAIN services
                           ELSE IF FindByName(t.name) # None THEN {FindByName(t.name)}
                           ELSE PrefixIn(t, services)}

-----------------------------------------------------------------------------
(* Once swept, a service with a living child is alive for those who ask     *)
(* about services or runs: `list`, with --json too, shows its run as       *)
(* running, kill finds something to signal, the searches by status and by  *)
(* directory find it, its logs can be looked through, and purge does not   *)
(* choose it unasked ("`running` always means actually alive",             *)
(* reconcile.rs:1-7).  Of its group this says less.  The text of `list     *)
(* --group` does not show it as over; but discover_services, which groups  *)
(* unless asked not to, and `list --group --json` give a group the status  *)
(* of the run it started last, and the first filters by it (tools.rs:111,  *)
(* list.rs:517).  There the living one counts only while no other service  *)
(* of the group started a run after it: next to one that did and is over,  *)
(* its group is shown as over, and not found by status "running".          *)
Swept == \A r \in DOMAIN runs : runs[r].status = "running" => ~Dead(r)
AliveIsShown ==
  Swept => \A r \in {r \in child \intersect DOMAIN runs : runs[r].pid} :
    LET s == runs[r].service
        g == services[s].group
        row == ListRow(s)
        json == JsonRow(s)
        grp == Group(g)
        id == [id |-> s, name |-> None, prefix |-> {s}]
        live == [NoFilter EXCEPT !.status = "running"]
        all == 1 + Cardinality(Grouped) IN
      /\ row.status = "running" /\ row \in List(Anything)
      /\ [run |-> r, status |-> "running"] \in ListRuns(id)
      /\ json \in ListJson(Anything) /\ json.row.status = "running"
      /\ \E x \in ListGroups(Anything) :
           x.group = g /\ x.status \in {"running", "restarting"}
      /\ grp \in NamedGroups(Anything) \intersect DiscoverGroups(NoFilter, Anything, all)
      /\ grp.last = row.last => grp \in DiscoverGroups(live, Anything, all)
      /\ s \in Discover(live, Anything, MaxClock)
      /\ \E x \in ListRecentRuns(g, "running", MaxClock) : x.run = r
      /\ [service |-> s, status |-> "running"] \in Metadata({services[s].name}, {}, Anything)
      /\ r \in SearchedRuns(Anything)
      /\ runs[ResolveByCwd(g)].status = "running"
      /\ \A sig \in {"TERM", "KILL"} : Route(LatestRun(s), sig) # "nowhere"
      /\ s \notin Purgeable(clock + 1, FALSE)
=============================================================================
