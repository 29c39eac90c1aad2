------------------------------- MODULE Tables -------------------------------
(***************************************************************************)
(* The database: its tables, each SQL statement of storage/db.rs as one    *)
(* atomic action, the questions the commands ask of it, and the opening of *)
(* it (storage/schema.rs).                                                 *)
(*                                                                         *)
(* Time is counted in inserted rows: a service or a run is identified by   *)
(* the time of its insertion, which is also its created_at or started_at,  *)
(* and the order of ids is the order of rowids.                            *)
(***************************************************************************)
EXTENDS Naturals, Sequences, FiniteSets

CONSTANTS
  Names,       \* service names, Superseded among them
  Groups,      \* pairs of an executable and a working directory
  Tags, Ports,
  Wrappers,    \* wrapper PIDs
  Ended,       \* how a run may have ended
  Openers,     \* connections to the database
  MaxClock,    \* bound: rows ever inserted, and ticks
  Superseded,  \* <name>_superseded_<time>
  None         \* NULL, and no answer

ASSUME TablesAssumption ==
  /\ MaxClock \in Nat
  /\ Superseded \in Names
  /\ "crashed" \in Ended /\ Ended \subseteq {"completed", "failed", "crashed", "killed"}
  /\ None \notin Names \union Nat \union Groups

VARIABLES
  clock,
  services,         \* rows by id: name, group
  runs,             \* rows by id: service, status, ended, wrapper, pid
  tags, ports,      \* <<service, tag>>, <<run, port>>
  version, opener   \* the rows of schema_version, and each connection

rows   == <<services, runs, tags, ports>>
schema == <<version, opener>>
tables == <<clock, rows, schema>>

Current  == 1                             \* CURRENT_VERSION
Statuses == Ended \union {"running"}

(* A database may be new, made by this version, or by another one.         *)
Versions == {<<>>, <<Current>>, <<Current - 1>>, <<Current + 1>>}

Init ==
  /\ clock = 1 /\ services = <<>> /\ runs = <<>>
  /\ tags = {} /\ ports = {}
  /\ version \in Versions /\ opener = [o \in Openers |-> "closed"]

-----------------------------------------------------------------------------
(* Opening: schema::initialize. *)

Opens(o, from, to) == opener[o] = from /\ opener' = [opener EXCEPT ![o] = to]

(* The version table is looked for outside the transaction that makes it.  *)
FindSchema(o) ==
  /\ Opens(o, "closed", IF version = <<>> THEN "fresh" ELSE "versioned")
  /\ UNCHANGED <<clock, rows, version>>

(* IF NOT EXISTS spares the tables another opener has made, not the row.   *)
CreateSchema(o) ==
  /\ Opens(o, "fresh", "open")
  /\ version' = Append(version, Current)
  /\ UNCHANGED <<clock, rows>>

SupportedOnly(v) == v = Current           \* older ones lack their migration

CheckVersion(o) ==
  /\ Opens(o, "versioned", IF SupportedOnly(version[1]) THEN "open" ELSE "refused")
  /\ UNCHANGED <<clock, rows, version>>

Open == \E o \in Openers : opener[o] = "open"

-----------------------------------------------------------------------------
(* The statements. *)

Put(f, i, row)  == [j \in DOMAIN f \union {i} |-> IF j = i THEN row ELSE f[j]]
Drop(f, gone)   == [j \in DOMAIN f \ gone |-> f[j]]

RunsOf(s) == {r \in DOMAIN runs : runs[r].service = s}

Tick == Open /\ clock < MaxClock /\ clock' = clock + 1 /\ UNCHANGED <<rows, schema>>

Inserts ==
  Open /\ clock < MaxClock /\ clock' = clock + 1 /\ UNCHANGED schema

CreateService(n, g) ==
  /\ Inserts
  /\ services' = Put(services, clock, [name |-> n, group |-> g])
  /\ UNCHANGED <<runs, tags, ports>>

(* The UPDATE of supersede_service, and update_service_enrichment, whose   *)
(* COALESCE keeps the name when it has none to set.                        *)
Rename(s, n) ==
  /\ Open
  /\ services' = IF s \in DOMAIN services /\ n # None
                   THEN [services EXCEPT ![s].name = n] ELSE services
  /\ UNCHANGED <<clock, runs, tags, ports, schema>>

(* PRAGMA foreign_keys=ON: no row may refer to one that is not there.      *)
Unenforced(x, there) == TRUE              \* mutant: foreign keys are off
Refers(x, there)     == x \in there

CreateRun(s, w) ==
  /\ Inserts /\ Refers(s, DOMAIN services)
  /\ runs' = Put(runs, clock,
       [service |-> s, status |-> "running", ended |-> None, wrapper |-> w,
        pid |-> FALSE])
  /\ UNCHANGED <<services, tags, ports>>

UpdatesRuns(to) ==
  Open /\ runs' = to /\ UNCHANGED <<clock, services, tags, ports, schema>>

UpdateRunStatus(r, st) ==
  UpdatesRuns(IF r \in DOMAIN runs
    THEN [runs EXCEPT ![r].status = st, ![r].ended = clock] ELSE runs)

UpdateRunPid(r) ==
  UpdatesRuns(IF r \in DOMAIN runs THEN [runs EXCEPT ![r].pid = TRUE] ELSE runs)

(* finalize_stale_run, for every run of a sweep; t is when its logs were   *)
(* last written, which is not before it started.                           *)
StatusOnly(dead, t) ==                    \* mutant: no end is set
  UpdatesRuns([r \in DOMAIN runs |->
    IF r \in dead /\ runs[r].status = "running"
      THEN [runs[r] EXCEPT !.status = "crashed"] ELSE runs[r]])
FinalizeStale(dead, t) ==
  UpdatesRuns([r \in DOMAIN runs |->
    IF r \in dead /\ runs[r].status = "running"
      THEN [runs[r] EXCEPT !.status = "crashed", !.ended = IF t < r THEN r ELSE t]
      ELSE runs[r]])

AddTag(s, t) ==
  /\ Open /\ Refers(s, DOMAIN services)
  /\ tags' = tags \union {<<s, t>>}
  /\ UNCHANGED <<clock, services, runs, ports, schema>>

AddPort(r, p) ==
  /\ Open /\ Refers(r, DOMAIN runs)
  /\ ports' = ports \union {<<r, p>>}
  /\ UNCHANGED <<clock, services, runs, tags, schema>>

(* delete_service_cascade is four statements, each on its own.             *)
DeletePorts(s) ==
  /\ Open
  /\ ports' = {x \in ports : x[1] \notin RunsOf(s)}
  /\ UNCHANGED <<clock, services, runs, tags, schema>>

NoPortOf(s) == \A x \in ports : Refers(x[1], DOMAIN runs \ RunsOf(s))
DeleteRuns(s) ==
  /\ Open /\ NoPortOf(s)
  /\ runs' = Drop(runs, RunsOf(s))
  /\ UNCHANGED <<clock, services, tags, ports, schema>>

DeleteTags(s) ==
  /\ Open
  /\ tags' = {x \in tags : x[1] # s}
  /\ UNCHANGED <<clock, services, runs, ports, schema>>

NothingOf(s) ==
  /\ \A r \in DOMAIN runs : Refers(runs[r].service, DOMAIN services \ {s})
  /\ \A x \in tags : Refers(x[1], DOMAIN services \ {s})
DeleteService(s) ==
  /\ Open /\ NothingOf(s)
  /\ services' = Drop(services, {s})
  /\ UNCHANGED <<clock, runs, tags, ports, schema>>

Opening == \E o \in Openers : FindSchema(o) \/ CreateSchema(o) \/ CheckVersion(o)

ServiceStatement(s) ==
  \/ \E n \in Names : Rename(s, n)
  \/ \E w \in Wrappers : CreateRun(s, w)
  \/ \E t \in Tags : AddTag(s, t)
  \/ DeletePorts(s) \/ DeleteRuns(s) \/ DeleteTags(s) \/ DeleteService(s)

RunStatement(r) ==
  \/ \E st \in Ended : UpdateRunStatus(r, st)
  \/ UpdateRunPid(r)
  \/ \E t \in {1, clock} : FinalizeStale({r}, t)
  \/ \E p \in Ports : AddPort(r, p)

Next ==
  \/ Opening
  \/ \E n \in Names, g \in Groups : CreateService(n, g)
  \/ \E i \in 1..(clock - 1) : ServiceStatement(i) \/ RunStatement(i)

Spec == Init /\ [][Next]_tables

-----------------------------------------------------------------------------
(* The queries. *)

Anything == "any"                               \* a filter that is not given
Oldest(S) == CHOOSE x \in S : \A y \in S : x <= y
Newest(S) == CHOOSE x \in S : \A y \in S : y <= x
Latest(S, k) == {x \in S : Cardinality({y \in S : y > x}) < k}

(* ORDER BY (status = 'running') first, started_at DESC LIMIT 1            *)
Foremost(R) ==
  LET live == {r \in R : runs[r].status = "running"} IN
    IF R = {} THEN None ELSE Newest(IF live # {} THEN live ELSE R)

LatestRun(s)  == Foremost(RunsOf(s))
StatusOf(s)   == IF LatestRun(s) = None THEN None ELSE runs[LatestRun(s)].status
Bearing(n)    == {s \in DOMAIN services : services[s].name = n}
FindByName(n) == IF Bearing(n) = {} THEN None ELSE Oldest(Bearing(n))
InGroup(g)    == {s \in DOMAIN services : services[s].group = g}

ResolveByCwd(g) == Foremost(UNION {RunsOf(s) : s \in InGroup(g)})

(* What a user types: the whole of an id, or text that may be a name and   *)
(* may be the beginning of ids; three behave as two (LIMIT 2, LIMIT 3).    *)
Targets ==
  {[id |-> i, name |-> None, prefix |-> {i}] : i \in 1..clock}
    \union {[id |-> None, name |-> n, prefix |-> p] :
              n \in Names \union {None}, p \in {{i, j} : i \in 1..clock, j \in 1..clock} \union {{}}}

One(S)      == Cardinality(S) = 1
The(S)      == CHOOSE x \in S : TRUE
PrefixIn(t, table) == t.prefix \intersect DOMAIN table

PrefixFirst(t) ==     \* mutant of ResolveService
  LET p == PrefixIn(t, services) IN IF One(p) THEN The(p) ELSE FindByName(t.name)

(* kill::resolve_service: `kill`, `restart`, `list <id>` and their tools.  *)
ResolveService(t) ==
  LET p == PrefixIn(t, services) IN
    IF t.id \in DOMAIN services THEN t.id
    ELSE IF FindByName(t.name) # None THEN FindByName(t.name)
    ELSE IF One(p) THEN The(p) ELSE None

Error        == [service |-> None, run |-> None]
TheRun(r)    == [service |-> None, run |-> r]
Following(s) == IF LatestRun(s) = None THEN Error
                ELSE [service |-> s, run |-> LatestRun(s)]

(* resolve_follow_target; only a service is followed to its next run.      *)
ResolveFollow(t) ==
  LET r == PrefixIn(t, runs)
      p == PrefixIn(t, services) IN
    IF t.id \in DOMAIN runs THEN TheRun(t.id)
    ELSE IF One(r) THEN TheRun(The(r))
    ELSE IF r # {} THEN Error
    ELSE IF t.id # None /\ LatestRun(t.id) # None THEN Following(t.id)
    ELSE IF FindByName(t.name) # None THEN Following(FindByName(t.name))
    ELSE IF One(p) THEN Following(The(p)) ELSE Error

(* resolve_log_dir: `logs`, get_logs and wait_for_pattern.                 *)
ResolveLogs(t) ==
  LET r == PrefixIn(t, runs)
      p == PrefixIn(t, services)
      s == IF t.id # None /\ LatestRun(t.id) # None THEN t.id
           ELSE IF FindByName(t.name) # None THEN FindByName(t.name)
           ELSE IF One(p) THEN The(p) ELSE None IN
    IF t.id \in DOMAIN runs THEN t.id
    ELSE IF r # {} THEN IF One(r) THEN The(r) ELSE None
    ELSE IF s = None THEN None ELSE LatestRun(s)

(* search_services: a port and a status are looked for in the same run.    *)
NoFilter == [name |-> Anything, group |-> Anything, tags |-> {}, status |-> Anything, port |-> Anything]
SearchServices(f, limit) ==
  Latest({s \in DOMAIN services :
    /\ f.name \in {Anything, services[s].name} /\ f.group \in {Anything, services[s].group}
    /\ \A t \in f.tags : <<s, t>> \in tags
    /\ f.status # Anything \/ f.port # Anything =>
         \E r \in RunsOf(s) : /\ f.status \in {Anything, runs[r].status}
                              /\ f.port = Anything \/ <<r, f.port>> \in ports}, limit)

RecentRuns(g, st, limit) ==
  Latest({r \in DOMAIN runs : /\ st \in {Anything, runs[r].status}
                              /\ g \in {Anything, services[runs[r].service].group}}, limit)

(* find_purgeable_services *)
EndedBefore(r, t) == runs[r].ended # None => runs[r].ended < t   \* mutant
OverBefore(r, t)  == runs[r].ended # None /\ runs[r].ended < t
WithRuns(t, force) ==       \* mutant: a service without runs is left out
  {s \in DOMAIN services : RunsOf(s) # {} /\
     \/ \A r \in RunsOf(s) : OverBefore(r, t)
     \/ force /\ \A r \in RunsOf(s) : r < t}
Purgeable(t, force) ==
  {s \in DOMAIN services :
     IF RunsOf(s) = {} THEN s < t
     ELSE \/ \A r \in RunsOf(s) : OverBefore(r, t)
          \/ force /\ \A r \in RunsOf(s) : r < t}

-----------------------------------------------------------------------------
(* Properties. *)

ServiceRow == [name : Names, group : Groups]
RunRow == [service : Nat, status : Statuses, ended : Nat \union {None},
           wrapper : Wrappers, pid : BOOLEAN]
Rows(f, keys, type) == DOMAIN f \subseteq keys /\ \A i \in DOMAIN f : f[i] \in type

(* Every table holds rows of its type, with ids from the past, and a run   *)
(* has an end, not before its start, exactly when it is not running.       *)
TablesOK ==
  /\ clock \in Nat
  /\ Rows(services, Nat, ServiceRow) /\ Rows(runs, Nat, RunRow)
  /\ \A s \in DOMAIN services : s < clock
  /\ \A r \in DOMAIN runs :
       /\ r < clock
       /\ IF runs[r].status = "running" THEN runs[r].ended = None
          ELSE runs[r].ended \in r..clock
  /\ \A x \in tags : x \in Nat \X Tags
  /\ \A x \in ports : x \in Nat \X Ports
  /\ version \in Seq(Nat)
  /\ opener \in [Openers -> {"closed", "fresh", "versioned", "open", "refused"}]

(* No run, tag or port outlives the row it belongs to, whatever order the  *)
(* statements of several processes take (schema.rs, REFERENCES), and a     *)
(* connection in use has found the version it knows, even when two first   *)
(* openers both make the schema.                                           *)
NoOrphans ==
  /\ \A r \in DOMAIN runs : runs[r].service \in DOMAIN services
  /\ \A x \in tags : x[1] \in DOMAIN services
  /\ \A x \in ports : x[1] \in DOMAIN runs
Versioned ==
  Open => version # <<>> /\ \A i \in DOMAIN version : version[i] = Current
Integrity == NoOrphans /\ Versioned

(* The three resolutions, written apart, agree: `logs` reads the run that  *)
(* `logs -f` starts from, and what is followed as a service is the service *)
(* that `kill`, `restart` and `list` mean by the same text; `logs` fails   *)
(* on text that means a service with runs only if it begins ids of runs.   *)
TargetsAgree ==
  \A t \in Targets :
    LET f == ResolveFollow(t)
        s == ResolveService(t) IN
      /\ ResolveLogs(t) = f.run
      /\ f.service # None => f.service = s
      /\ s # None /\ LatestRun(s) # None /\ PrefixIn(t, runs) = {} => f.service = s
=============================================================================
