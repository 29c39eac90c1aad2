---------------------------- MODULE TablesProofs ----------------------------
(* Proofs about Tables, for any number of rows, statements and openers.    *)
EXTENDS Tables, SequenceTheorems, FiniteSetTheorems, TLAPS

(* Integrity is not inductive.  What a connection has yet to do depends on  *)
(* what it saw: the schema rows are all of this version, or there is one    *)
(* row, of another version, and nobody has got past looking.                *)
States == {"closed", "fresh", "versioned", "open", "refused"}
In(state) == \E o \in Openers : opener[o] = state
Ours == \A i \in DOMAIN version : version[i] = Current
Foreign == version # <<>> /\ version[1] # Current /\ ~In("fresh") /\ ~In("open")
VersionInv ==
  /\ Ours \/ Foreign
  /\ In("versioned") \/ In("open") => version # <<>>

Inv == TablesOK /\ NoOrphans /\ VersionInv

THEOREM Initially == Init => Inv
<1> SUFFICES ASSUME Init PROVE Inv
  OBVIOUS
<1> USE DEF Init
<1>1. DOMAIN services = {} /\ DOMAIN runs = {} /\ tags = {} /\ ports = {}
  OBVIOUS
<1>2. version \in Seq(Nat)
  <2>1. CASE version = <<>>
    BY <2>1
  <2>2. CASE version # <<>>
    <3>1. PICK v \in {1, 1 - 1, 1 + 1} : version = <<v>>
      BY <2>2 DEF Versions, Current
    <3>2. v \in Nat
      OBVIOUS
    <3> QED
      BY <3>1, <3>2
  <2> QED
    BY <2>1, <2>2
<1>3. TablesOK
  BY <1>1, <1>2 DEF TablesOK, Rows
<1>4. NoOrphans
  BY <1>1 DEF NoOrphans
<1>5. \A state : In(state) => state = "closed"
  BY DEF In
<1>6. Ours \/ Foreign
  <2>1. CASE version = <<>>
    BY <2>1 DEF Ours
  <2>2. CASE version # <<>>
    <3>1. PICK v \in {Current, Current - 1, Current + 1} : version = <<v>>
      BY <2>2 DEF Versions
    <3> QED
      BY <1>5, <3>1 DEF Ours, Foreign
  <2> QED
    BY <2>1, <2>2
<1> QED
  BY <1>3, <1>4, <1>5, <1>6 DEF Inv, VersionInv

-----------------------------------------------------------------------------
(* Any statement, on any row: what Next does, what the sweeps of Registry   *)
(* do to many rows at once, and time.                                      *)
Statement ==
  \/ Opening \/ Tick
  \/ \E n \in Names, g \in Groups : CreateService(n, g)
  \/ \E s : ServiceStatement(s)
  \/ \E r : RunStatement(r)
  \/ \E dead, t : t \in {1, clock} /\ FinalizeStale(dead, t)
  \/ UNCHANGED tables

LEMMA StepIsStatement == [Next]_tables => Statement
  BY DEF Next, Statement

(* A statement on the rows leaves the schema alone.                        *)
LEMMA RowsOnly ==
  ASSUME Statement
  PROVE  Opening \/ UNCHANGED schema
<1>1. ASSUME NEW n \in Names, NEW g \in Groups, CreateService(n, g)
      PROVE  UNCHANGED schema
  BY <1>1 DEF CreateService, Inserts
<1>2. ASSUME NEW s, ServiceStatement(s)
      PROVE  UNCHANGED schema
  BY <1>2 DEF ServiceStatement, Rename, CreateRun, AddTag, DeletePorts,
              DeleteRuns, DeleteTags, DeleteService, Inserts
<1>3. ASSUME NEW r, RunStatement(r)
      PROVE  UNCHANGED schema
  BY <1>3 DEF RunStatement, UpdateRunStatus, UpdateRunPid, FinalizeStale,
              UpdatesRuns, AddPort
<1>4. ASSUME NEW dead, NEW t, FinalizeStale(dead, t)
      PROVE  UNCHANGED schema
  BY <1>4 DEF FinalizeStale, UpdatesRuns
<1>5. ASSUME Tick
      PROVE  UNCHANGED schema
  BY <1>5 DEF Tick
<1> QED
  BY <1>1, <1>2, <1>3, <1>4, <1>5 DEF Statement, tables

LEMMA VersionStep ==
  ASSUME TablesOK, VersionInv, Statement
  PROVE  VersionInv'
<1> USE DEF In
<1>0. opener \in [Openers -> States] /\ version \in Seq(Nat)
  BY DEF TablesOK, States
<1>1. CASE UNCHANGED schema
  BY <1>1 DEF VersionInv, Ours, Foreign, schema
<1>2. ASSUME NEW o \in Openers, FindSchema(o)
      PROVE  VersionInv'
  <2>1. version' = version /\ opener[o] = "closed"
    BY <1>2 DEF FindSchema, Opens
  <2>2. CASE version = <<>>
    <3>1. opener' = [opener EXCEPT ![o] = "fresh"]
      BY <1>2, <2>2 DEF FindSchema, Opens
    <3>2. Ours'
      BY <2>1, <2>2 DEF Ours
    <3> QED
      BY <1>0, <2>1, <2>2, <3>1, <3>2 DEF VersionInv
  <2>3. CASE version # <<>>
    <3>1. opener' = [opener EXCEPT ![o] = "versioned"]
      BY <1>2, <2>3 DEF FindSchema, Opens
    <3> QED
      BY <1>0, <2>1, <2>3, <3>1 DEF VersionInv, Ours, Foreign
  <2> QED
    BY <2>2, <2>3
<1>3. ASSUME NEW o \in Openers, CreateSchema(o)
      PROVE  VersionInv'
  <2>1. /\ version' = Append(version, Current)
        /\ opener[o] = "fresh" /\ opener' = [opener EXCEPT ![o] = "open"]
    BY <1>3 DEF CreateSchema, Opens
  <2>2. Ours
    BY <2>1 DEF VersionInv, Foreign
  <2>3. Ours'
    BY <1>0, <2>1, <2>2 DEF Ours, Current
  <2>4. version' # <<>>
    BY <1>0, <2>1 DEF Current
  <2> QED
    BY <2>3, <2>4 DEF VersionInv
<1>4. ASSUME NEW o \in Openers, CheckVersion(o)
      PROVE  VersionInv'
  <2>1. version' = version /\ opener[o] = "versioned"
    BY <1>4 DEF CheckVersion, Opens
  <2>2. version # <<>>
    BY <2>1 DEF VersionInv
  <2>3. CASE version[1] = Current
    <3>1. Ours
      BY <2>3 DEF VersionInv, Foreign
    <3> QED
      BY <2>1, <2>2, <3>1 DEF VersionInv, Ours
  <2>4. CASE version[1] # Current
    <3>1. opener' = [opener EXCEPT ![o] = "refused"]
      BY <1>4, <2>4 DEF CheckVersion, Opens, SupportedOnly
    <3>2. 1 \in DOMAIN version
      BY <1>0, <2>2
    <3>3. Foreign
      BY <2>4, <3>2 DEF VersionInv, Ours
    <3>4. Foreign'
      BY <1>0, <2>1, <3>1, <3>3 DEF Foreign
    <3> QED
      BY <2>1, <2>2, <3>4 DEF VersionInv
  <2> QED
    BY <2>3, <2>4
<1> QED
  BY <1>1, <1>2, <1>3, <1>4, RowsOnly DEF Opening

-----------------------------------------------------------------------------
LEMMA OrphansStep ==
  ASSUME TablesOK, NoOrphans, Statement
  PROVE  NoOrphans'
<1> USE DEF NoOrphans
<1>1. CASE UNCHANGED rows
  BY <1>1 DEF rows
<1>2. ASSUME NEW n \in Names, NEW g \in Groups, CreateService(n, g)
      PROVE  NoOrphans'
  BY <1>2 DEF CreateService, Put
<1>3. ASSUME NEW s, NEW n, Rename(s, n)
      PROVE  NoOrphans'
  BY <1>3 DEF Rename
<1>4. ASSUME NEW s, NEW w, CreateRun(s, w)
      PROVE  NoOrphans'
  <2>1. /\ DOMAIN runs' = DOMAIN runs \union {clock}
        /\ \A r \in DOMAIN runs \ {clock} : runs'[r] = runs[r]
        /\ runs'[clock].service = s
    BY <1>4 DEF CreateRun, Put
  <2> QED
    BY <1>4, <2>1 DEF CreateRun, Refers
<1>5. ASSUME NEW s, NEW t, AddTag(s, t)
      PROVE  NoOrphans'
  BY <1>5 DEF AddTag, Refers
<1>6. ASSUME NEW s, DeletePorts(s)
      PROVE  NoOrphans'
  BY <1>6 DEF DeletePorts
<1>7. ASSUME NEW s, DeleteRuns(s)
      PROVE  NoOrphans'
  BY <1>7 DEF DeleteRuns, NoPortOf, Refers, Drop
<1>8. ASSUME NEW s, DeleteTags(s)
      PROVE  NoOrphans'
  BY <1>8 DEF DeleteTags
<1>9. ASSUME NEW s, DeleteService(s)
      PROVE  NoOrphans'
  BY <1>9 DEF DeleteService, NothingOf, Refers, Drop
<1>10. ASSUME NEW r, NEW st, UpdateRunStatus(r, st)
       PROVE  NoOrphans'
  <2>1. /\ DOMAIN runs' = DOMAIN runs
        /\ \A q \in DOMAIN runs : runs'[q].service = runs[q].service
    BY <1>10 DEF UpdateRunStatus, UpdatesRuns, TablesOK, Rows, RunRow
  <2> QED
    BY <1>10, <2>1 DEF UpdateRunStatus, UpdatesRuns
<1>11. ASSUME NEW r, UpdateRunPid(r)
       PROVE  NoOrphans'
  <2>1. /\ DOMAIN runs' = DOMAIN runs
        /\ \A q \in DOMAIN runs : runs'[q].service = runs[q].service
    BY <1>11 DEF UpdateRunPid, UpdatesRuns, TablesOK, Rows, RunRow
  <2> QED
    BY <1>11, <2>1 DEF UpdateRunPid, UpdatesRuns
<1>12. ASSUME NEW dead, NEW t, FinalizeStale(dead, t)
       PROVE  NoOrphans'
  <2>1. /\ DOMAIN runs' = DOMAIN runs
        /\ \A q \in DOMAIN runs : runs'[q].service = runs[q].service
    BY <1>12 DEF FinalizeStale, UpdatesRuns, TablesOK, Rows, RunRow
  <2> QED
    BY <1>12, <2>1 DEF FinalizeStale, UpdatesRuns
<1>13. ASSUME NEW r, NEW p, AddPort(r, p)
       PROVE  NoOrphans'
  BY <1>13 DEF AddPort, Refers
<1>14. ASSUME Opening
       PROVE  NoOrphans'
  BY <1>14 DEF Opening, FindSchema, CreateSchema, CheckVersion, rows
<1> QED
  <2>1. ASSUME NEW s, ServiceStatement(s)
        PROVE  NoOrphans'
    BY <2>1, <1>3, <1>4, <1>5, <1>6, <1>7, <1>8, <1>9 DEF ServiceStatement
  <2>2. ASSUME NEW r, RunStatement(r)
        PROVE  NoOrphans'
    BY <2>2, <1>10, <1>11, <1>12, <1>13 DEF RunStatement
  <2> QED
    BY <1>1, <1>2, <1>12, <1>14, <2>1, <2>2 DEF Statement, Tick, tables, rows

-----------------------------------------------------------------------------
LEMMA TypeStep ==
  ASSUME TablesOK, Statement
  PROVE  TablesOK'
<1> USE DEF TablesOK, Rows
<1>1. CASE UNCHANGED tables
  BY <1>1 DEF tables, rows, schema
<1>2. ASSUME NEW n \in Names, NEW g \in Groups, CreateService(n, g)
      PROVE  TablesOK'
  <2>1. /\ DOMAIN services' = DOMAIN services \union {clock}
        /\ \A i \in DOMAIN services : services'[i] \in ServiceRow
        /\ services'[clock] \in ServiceRow
    BY <1>2 DEF CreateService, Put, ServiceRow
  <2> QED
    BY <1>2, <2>1 DEF CreateService, Inserts, schema
<1>3. ASSUME NEW s, NEW n \in Names, Rename(s, n)
      PROVE  TablesOK'
  <2>1. DOMAIN services' = DOMAIN services
    BY <1>3 DEF Rename
  <2>2. \A i \in DOMAIN services : services'[i] \in ServiceRow
    BY <1>3 DEF Rename, ServiceRow
  <2> QED
    BY <1>3, <2>1, <2>2 DEF Rename, schema
<1>4. ASSUME NEW s, NEW w \in Wrappers, CreateRun(s, w)
      PROVE  TablesOK'
  <2>1. /\ DOMAIN runs' = DOMAIN runs \union {clock}
        /\ \A r \in DOMAIN runs : runs'[r] = runs[r]
        /\ runs'[clock] = [service |-> s, status |-> "running", ended |-> None,
                           wrapper |-> w, pid |-> FALSE]
    BY <1>4 DEF CreateRun, Put
  <2>2. s \in Nat
    BY <1>4 DEF CreateRun, Refers
  <2>3. runs'[clock] \in RunRow
    BY <2>1, <2>2 DEF RunRow, Statuses
  <2>4. \A r \in DOMAIN runs' :
          /\ runs'[r] \in RunRow /\ r \in Nat /\ r < clock + 1
          /\ IF runs'[r].status = "running" THEN runs'[r].ended = None
             ELSE runs'[r].ended \in r..(clock + 1)
    <3>1. ASSUME NEW r \in DOMAIN runs
          PROVE  IF runs[r].status = "running" THEN runs[r].ended = None
                 ELSE runs[r].ended \in r..(clock + 1)
      OBVIOUS
    <3>2. ASSUME NEW r \in DOMAIN runs
          PROVE  /\ runs'[r] \in RunRow /\ r \in Nat /\ r < clock + 1
                 /\ IF runs'[r].status = "running" THEN runs'[r].ended = None
                    ELSE runs'[r].ended \in r..(clock + 1)
      <4>1. runs'[r] = runs[r]
        BY <2>1
      <4> QED
        BY <3>1, <4>1
    <3>3. runs'[clock].status = "running" /\ runs'[clock].ended = None
      BY <2>1
    <3>4. \A r \in DOMAIN runs' : r \in DOMAIN runs \/ r = clock
      BY <2>1
    <3>5. clock \in Nat /\ clock < clock + 1
      OBVIOUS
    <3>6. \A r \in DOMAIN runs' : r = clock =>
            /\ runs'[r] \in RunRow /\ r \in Nat /\ r < clock + 1
            /\ runs'[r].status = "running" /\ runs'[r].ended = None
      BY <2>3, <3>3, <3>5
    <3> HIDE DEF TablesOK, Rows
    <3> QED
      BY <3>2, <3>4, <3>6
  <2>5. /\ clock' = clock + 1 /\ UNCHANGED <<services, tags, ports, version, opener>>
    BY <1>4 DEF CreateRun, Inserts, schema
  <2> QED
    BY <2>4, <2>5
<1>5. ASSUME NEW s, NEW t \in Tags, AddTag(s, t)
      PROVE  TablesOK'
  BY <1>5 DEF AddTag, Refers, schema
<1>6. ASSUME NEW s, DeletePorts(s)
      PROVE  TablesOK'
  BY <1>6 DEF DeletePorts, schema
<1>7. ASSUME NEW s, DeleteRuns(s)
      PROVE  TablesOK'
  BY <1>7 DEF DeleteRuns, Drop, schema
<1>8. ASSUME NEW s, DeleteTags(s)
      PROVE  TablesOK'
  BY <1>8 DEF DeleteTags, schema
<1>9. ASSUME NEW s, DeleteService(s)
      PROVE  TablesOK'
  BY <1>9 DEF DeleteService, Drop, schema
<1>10. ASSUME NEW r, NEW st \in Ended, UpdateRunStatus(r, st)
       PROVE  TablesOK'
  <2>1. DOMAIN runs' = DOMAIN runs
    BY <1>10 DEF UpdateRunStatus, UpdatesRuns
  <2>2. \A q \in DOMAIN runs :
          runs'[q] = IF q = r THEN [runs[q] EXCEPT !.status = st, !.ended = clock]
                     ELSE runs[q]
    BY <1>10 DEF UpdateRunStatus, UpdatesRuns
  <2>3. ASSUME NEW q \in DOMAIN runs PROVE runs'[q] \in RunRow
    <3>1. runs[q] \in RunRow /\ st \in Statuses /\ clock \in Nat
      BY DEF Statuses
    <3> QED
      BY <2>2, <3>1 DEF RunRow
  <2>4. st # "running"
    BY TablesAssumption
  <2>5. ASSUME NEW q \in DOMAIN runs
        PROVE  IF runs'[q].status = "running" THEN runs'[q].ended = None
               ELSE runs'[q].ended \in q..clock
    <3>1. CASE q = r
      <4>1. runs'[q].status = st /\ runs'[q].ended = clock
        BY <2>2, <3>1 DEF RunRow
      <4> QED
        BY <2>4, <4>1
    <3>2. CASE q # r
      BY <2>2, <3>2
    <3> QED
      BY <3>1, <3>2
  <2> QED
    BY <1>10, <2>1, <2>3, <2>5 DEF UpdateRunStatus, UpdatesRuns, schema
<1>11. ASSUME NEW r, UpdateRunPid(r)
       PROVE  TablesOK'
  <2>1. DOMAIN runs' = DOMAIN runs
    BY <1>11 DEF UpdateRunPid, UpdatesRuns
  <2>2. \A q \in DOMAIN runs :
          runs'[q] = IF q = r THEN [runs[q] EXCEPT !.pid = TRUE] ELSE runs[q]
    BY <1>11 DEF UpdateRunPid, UpdatesRuns
  <2>3. \A q \in DOMAIN runs : runs'[q] \in RunRow
    BY <2>2 DEF RunRow
  <2>4. \A q \in DOMAIN runs : /\ runs'[q].status = runs[q].status
                               /\ runs'[q].ended = runs[q].ended
    BY <2>2 DEF RunRow
  <2> QED
    BY <1>11, <2>1, <2>3, <2>4 DEF UpdateRunPid, UpdatesRuns, schema
<1>12. ASSUME NEW dead, NEW t \in {1, clock}, FinalizeStale(dead, t)
       PROVE  TablesOK'
  <2>1. DOMAIN runs' = DOMAIN runs
    BY <1>12 DEF FinalizeStale, UpdatesRuns
  <2>2. \A q \in DOMAIN runs :
          runs'[q] = IF q \in dead /\ runs[q].status = "running"
            THEN [runs[q] EXCEPT !.status = "crashed", !.ended = IF t < q THEN q ELSE t]
            ELSE runs[q]
    BY <1>12 DEF FinalizeStale, UpdatesRuns
  <2>3. ASSUME NEW q \in DOMAIN runs
        PROVE  /\ runs'[q] \in RunRow
               /\ IF runs'[q].status = "running" THEN runs'[q].ended = None
                  ELSE runs'[q].ended \in q..clock
    <3>1. CASE q \in dead /\ runs[q].status = "running"
      <4> DEFINE e == IF t < q THEN q ELSE t
      <4>1. e \in q..clock /\ e \in Nat
        OBVIOUS
      <4>2. runs'[q] = [runs[q] EXCEPT !.status = "crashed", !.ended = e]
        BY <2>2, <3>1
      <4>3. "crashed" \in Statuses
        BY TablesAssumption DEF Statuses
      <4> HIDE DEF e
      <4>4. runs'[q] \in RunRow
        BY <4>1, <4>2, <4>3 DEF RunRow
      <4>5. runs'[q].status = "crashed" /\ runs'[q].ended = e
        BY <4>2 DEF RunRow
      <4> QED
        BY <4>1, <4>4, <4>5
    <3>2. CASE ~(q \in dead /\ runs[q].status = "running")
      BY <2>2, <3>2
    <3> QED
      BY <3>1, <3>2
  <2> QED
    BY <1>12, <2>1, <2>3 DEF FinalizeStale, UpdatesRuns, schema
<1>13. ASSUME NEW r, NEW p \in Ports, AddPort(r, p)
       PROVE  TablesOK'
  BY <1>13 DEF AddPort, Refers, schema
<1>14. ASSUME Opening
       PROVE  TablesOK'
  <2>1. UNCHANGED <<clock, rows>>
    BY <1>14 DEF Opening, FindSchema, CreateSchema, CheckVersion
  <2>2. version' \in Seq(Nat)
    BY <1>14 DEF Opening, FindSchema, CreateSchema, CheckVersion, Current
  <2>3. opener' \in [Openers -> States]
    BY <1>14 DEF Opening, FindSchema, CreateSchema, CheckVersion, Opens, States
  <2> QED
    BY <2>1, <2>2, <2>3 DEF rows, States
<1>15. ASSUME Tick
       PROVE  TablesOK'
  BY <1>15 DEF Tick, rows, schema
<1> QED
  <2>1. ASSUME NEW s, ServiceStatement(s)
        PROVE  TablesOK'
    BY <2>1, <1>3, <1>4, <1>5, <1>6, <1>7, <1>8, <1>9 DEF ServiceStatement
  <2>2. ASSUME NEW r, RunStatement(r)
        PROVE  TablesOK'
    BY <2>2, <1>10, <1>11, <1>12, <1>13 DEF RunStatement
  <2> QED
    BY <1>1, <1>2, <1>12, <1>14, <1>15, <2>1, <2>2 DEF Statement

-----------------------------------------------------------------------------
(* The tables keep their types and the ends of runs their order, whatever   *)
(* statements follow each other (the inductive invariant).                 *)
THEOREM Invariant == Spec => []Inv
<1>1. Init => Inv
  BY Initially
<1>2. Inv /\ [Next]_tables => Inv'
  BY StepIsStatement, TypeStep, OrphansStep, VersionStep DEF Inv
<1> QED
  BY <1>1, <1>2, PTL DEF Spec

(* Every table holds rows of its type; a run has an end, not before its     *)
(* start, exactly when it is not running (db.rs:124-192, 849-873).         *)
THEOREM TypeCorrect == Spec => []TablesOK
<1>1. Inv => TablesOK
  BY DEF Inv
<1> QED
  BY <1>1, Invariant, PTL

(* No row outlives what it refers to, and who is connected has found this   *)
(* version, also if two first openers both made the schema (schema.rs:77). *)
THEOREM IntegrityKept == Spec => []Integrity
<1>1. Inv => Integrity
  <2>1. ASSUME Inv, Open PROVE version # <<>> /\ Ours
    BY <2>1 DEF Inv, VersionInv, Foreign, In, Open
  <2> QED
    BY <2>1 DEF Inv, Integrity, Versioned, Ours
<1> QED
  BY <1>1, Invariant, PTL
-----------------------------------------------------------------------------
(* Names and ids are apart: nothing bears no name, and what has a run is a  *)
(* service.                                                                *)
LEMMA NobodyBearsNone ==
  ASSUME TablesOK
  PROVE  FindByName(None) = None
<1>1. \A s \in DOMAIN services : services[s].name \in Names
  BY DEF TablesOK, Rows, ServiceRow
<1> QED
  BY <1>1, TablesAssumption DEF FindByName, Bearing

LEMMA RunsAreOfServices ==
  ASSUME NoOrphans, NEW s, LatestRun(s) # None
  PROVE  s \in DOMAIN services
BY DEF NoOrphans, LatestRun, Foremost, RunsOf

LEMMA OnlyOne ==
  /\ \A x : One({x}) /\ The({x}) = x
  /\ ~One({})
BY FS_Singleton, FS_EmptySet DEF One, The

(* The whole of an id, typed.                                              *)
LEMMA IdsAgree ==
  ASSUME TablesOK, NoOrphans, NEW i \in 1..clock, NEW t,
         t = [id |-> i, name |-> None, prefix |-> {i}]
  PROVE  /\ ResolveLogs(t) = ResolveFollow(t).run
         /\ ResolveFollow(t).service # None => ResolveFollow(t).service = ResolveService(t)
         /\ ResolveService(t) # None /\ LatestRun(ResolveService(t)) # None
              /\ PrefixIn(t, runs) = {} => ResolveFollow(t).service = ResolveService(t)
<1>0. t.id = i /\ t.name = None /\ t.prefix = {i}
  OBVIOUS
<1>1. i # None /\ FindByName(None) = None
  BY NobodyBearsNone, TablesAssumption
<1> DEFINE r == PrefixIn(t, runs)
           p == PrefixIn(t, services)
<1>2. CASE i \in DOMAIN runs
  <2>1. ResolveFollow(t) = TheRun(i) /\ ResolveLogs(t) = i
    BY <1>0, <1>2 DEF ResolveFollow, ResolveLogs
  <2>2. i \in r
    BY <1>0, <1>2 DEF PrefixIn
  <2> QED
    BY <2>1, <2>2 DEF TheRun
<1>3. CASE i \notin DOMAIN runs
  <2>1. r = {} /\ ~One(r)
    BY <1>0, <1>3, OnlyOne DEF PrefixIn
  <2>2. CASE LatestRun(i) # None
    <3>1. i \in DOMAIN services
      BY <2>2, RunsAreOfServices
    <3>2. ResolveService(t) = i
      BY <1>0, <3>1 DEF ResolveService
    <3>3. ResolveFollow(t) = [service |-> i, run |-> LatestRun(i)]
      BY <1>0, <1>1, <1>3, <2>1, <2>2 DEF ResolveFollow, Following
    <3>4. ResolveLogs(t) = LatestRun(i)
      BY <1>0, <1>1, <1>3, <2>1, <2>2 DEF ResolveLogs
    <3> QED
      BY <3>2, <3>3, <3>4
  <2>3. CASE LatestRun(i) = None
    <3>1. CASE i \in DOMAIN services
      <4>1. p = {i}
        BY <1>0, <3>1 DEF PrefixIn
      <4>2. One(p) /\ The(p) = i
        BY <4>1, OnlyOne
      <4>3. ResolveService(t) = i
        BY <1>0, <3>1 DEF ResolveService
      <4>4. ResolveFollow(t) = Error
        BY <1>0, <1>1, <1>3, <2>1, <2>3, <4>2 DEF ResolveFollow, Following
      <4>5. ResolveLogs(t) = None
        BY <1>0, <1>1, <1>3, <2>1, <2>3, <4>2 DEF ResolveLogs
      <4> QED
        BY <2>3, <4>3, <4>4, <4>5 DEF Error
    <3>2. CASE i \notin DOMAIN services
      <4>1. ~One(p)
        BY <1>0, <3>2, OnlyOne DEF PrefixIn
      <4>2. ResolveService(t) = None
        BY <1>0, <1>1, <3>2, <4>1 DEF ResolveService
      <4>3. ResolveFollow(t) = Error
        BY <1>0, <1>1, <1>3, <2>1, <2>3, <4>1 DEF ResolveFollow
      <4>4. ResolveLogs(t) = None
        BY <1>0, <1>1, <1>3, <2>1, <2>3, <4>1 DEF ResolveLogs
      <4> QED
        BY <4>2, <4>3, <4>4 DEF Error
    <3> QED
      BY <3>1, <3>2
  <2> QED
    BY <2>2, <2>3
<1> QED
  BY <1>2, <1>3

(* A name, or the beginning of ids.                                        *)
LEMMA NamesAgree ==
  ASSUME TablesOK, NoOrphans, NEW t, t.id = None
  PROVE  /\ ResolveLogs(t) = ResolveFollow(t).run
         /\ ResolveFollow(t).service # None => ResolveFollow(t).service = ResolveService(t)
         /\ ResolveService(t) # None /\ LatestRun(ResolveService(t)) # None
              /\ PrefixIn(t, runs) = {} => ResolveFollow(t).service = ResolveService(t)
<1>1. None \notin DOMAIN runs /\ None \notin DOMAIN services
  BY TablesAssumption DEF TablesOK, Rows
<1> DEFINE r == PrefixIn(t, runs)
           p == PrefixIn(t, services)
           s == IF FindByName(t.name) # None THEN FindByName(t.name)
                ELSE IF One(p) THEN The(p) ELSE None
<1>2. ResolveService(t) = s
  BY <1>1 DEF ResolveService
<1>3. CASE r # {}
  <2>1. CASE One(r)
    BY <1>1, <1>3, <2>1 DEF ResolveLogs, ResolveFollow, TheRun
  <2>2. CASE ~One(r)
    BY <1>1, <1>3, <2>2 DEF ResolveLogs, ResolveFollow, Error
  <2> QED
    BY <2>1, <2>2
<1>4. CASE r = {}
  <2>1. ~One(r)
    BY <1>4, OnlyOne
  <2>2. ResolveLogs(t) = IF s = None THEN None ELSE LatestRun(s)
    BY <1>1, <1>4, <2>1 DEF ResolveLogs
  <2>3. CASE FindByName(t.name) # None \/ One(p)
    <3>1. ResolveFollow(t) = Following(s)
      BY <1>1, <1>4, <2>1, <2>3 DEF ResolveFollow
    <3>2. s # None
      <4>1. CASE FindByName(t.name) # None
        BY <4>1
      <4>2. CASE FindByName(t.name) = None
        <5>1. s = The(p) /\ p # {}
          BY <2>3, <4>2, OnlyOne
        <5>2. The(p) \in p
          BY <5>1 DEF The
        <5>3. The(p) # None
          BY <1>1, <5>2 DEF PrefixIn
        <5> QED
          BY <5>1, <5>3
      <4> QED
        BY <4>1, <4>2
    <3> HIDE DEF s
    <3> QED
      BY <1>2, <2>2, <3>1, <3>2 DEF Following, Error
  <2>4. CASE FindByName(t.name) = None /\ ~One(p)
    <3>1. ResolveFollow(t) = Error
      BY <1>1, <1>4, <2>1, <2>4 DEF ResolveFollow
    <3>2. s = None
      BY <2>4
    <3> QED
      BY <1>2, <2>2, <3>1, <3>2 DEF Error
  <2> QED
    BY <2>3, <2>4
<1> QED
  BY <1>3, <1>4

(* `logs`, `logs -f` and the commands that take a service mean the same by  *)
(* the same text, whatever services and runs there are (db.rs:470 and 549, *)
(* kill.rs:258).                                                           *)
THEOREM OneMeaning == Spec => []TargetsAgree
<1>1. ASSUME Inv PROVE TargetsAgree
  <2> SUFFICES ASSUME NEW t \in Targets
               PROVE  /\ ResolveLogs(t) = ResolveFollow(t).run
                      /\ ResolveFollow(t).service # None =>
                           ResolveFollow(t).service = ResolveService(t)
                      /\ ResolveService(t) # None /\ LatestRun(ResolveService(t)) # None
                           /\ PrefixIn(t, runs) = {} =>
                           ResolveFollow(t).service = ResolveService(t)
    BY DEF TargetsAgree
  <2>1. CASE t.id # None
    <3>1. PICK i \in 1..clock : t = [id |-> i, name |-> None, prefix |-> {i}]
      BY <2>1 DEF Targets
    <3> QED
      BY <1>1, <3>1, IdsAgree DEF Inv
  <2>2. CASE t.id = None
    BY <1>1, <2>2, NamesAgree DEF Inv
  <2> QED
    BY <2>1, <2>2
<1> QED
  BY <1>1, Invariant, PTL
=============================================================================
