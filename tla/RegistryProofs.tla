--------------------------- MODULE RegistryProofs ---------------------------
(* Proofs about Registry: for any number of `run` commands, of clients and  *)
(* of rows.                                                                *)
EXTENDS Registry, TablesProofs, WellFoundedInduction

-----------------------------------------------------------------------------
(* The inductive invariant. *)

CmdRow ==
  [pc : {"new", "rename", "create", "tag", "run", "spawn", "wait", "finish", "gone"},
   name : Names \union {None}, svc : Nat \union {None}, run : Nat \union {None},
   naming : {"never", "later", "now"}, asked : SUBSET {"stop", "restart"}]
Purging == {"next", "dirs", "ports", "runs", "tags", "service", "rm"}
Deleting == {"dirs", "ports", "runs", "tags", "service"}
ClientRow ==
  [pc : Purging \union {"idle", "swept", "tree", "wrapper"}, force : BOOLEAN,
   cutoff : Nat, since : Nat, todo : SUBSET Nat, at : Nat \union {None},
   dirs : SUBSET Nat, who : Wrappers \union {None}]

(* What is remembered of a service or a run is of the past.                *)
Past == {i \in Nat : 1 <= i /\ i < clock}
OnARun(c) == cmd[c].pc \in {"spawn", "wait"}
WellTyped ==
  /\ TablesOK /\ clock >= 1
  /\ DOMAIN services \subseteq Past /\ DOMAIN runs \subseteq Past
  /\ child \subseteq Past /\ given \subseteq Past
  /\ dir \in [1..MaxClock -> {"none", "there", "removed"}]
CmdInv ==
  /\ cmd \in [Wrappers -> CmdRow]
  /\ \A c \in Wrappers :
       /\ cmd[c].svc \in Past \union {None}
       /\ cmd[c].pc \in {"rename", "create"} => cmd[c].name \in Names
       /\ OnARun(c) => cmd[c].run \in Past
ClientInv ==
  /\ client \in [Clients -> ClientRow]
  /\ \A k \in Clients :
       /\ client[k].todo \subseteq Past /\ client[k].since <= clock
       /\ client[k].pc \in {"tree", "wrapper"} => client[k].who \in Wrappers

(* The row of a wrapper's run is open and its own: an end once recorded is  *)
(* not recorded again.                                                     *)
OwnRow ==
  \A c \in Wrappers : OnARun(c) /\ cmd[c].run \in DOMAIN runs =>
    runs[cmd[c].run].status = "running" /\ runs[cmd[c].run].wrapper = c

(* A run begins after its service.                                         *)
Younger == \A r \in DOMAIN runs : runs[r].service < r

(* What a purge has chosen stays what it chose, but for the runs begun      *)
(* since; and the directories it has listed are those of rows it deletes.  *)
Cleared(x, s, table) ==
  s < x.cutoff /\ \A r \in DOMAIN table : table[r].service = s /\ r < x.since =>
    \/ table[r].ended # None /\ table[r].ended < x.cutoff
    \/ x.force /\ r < x.cutoff
PurgeInv ==
  \A k \in Clients : client[k].pc \in Purging =>
    /\ \A s \in client[k].todo : Cleared(client[k], s, runs)
    /\ client[k].pc \in Deleting => Cleared(client[k], client[k].at, runs)
DirsInv ==
  /\ RowHasLogs /\ DOMAIN runs \subseteq DOMAIN dir
  /\ \A i \in DOMAIN dir : i >= clock => dir[i] = "none"
  /\ \A k \in Clients :
       /\ client[k].pc \in {"ports", "runs", "tags", "service", "rm"} =>
            client[k].dirs \subseteq Past
       /\ client[k].pc \in {"ports", "runs"} =>
            \A r \in client[k].dirs \intersect DOMAIN runs :
              runs[r].service = client[k].at
       /\ client[k].pc \in {"tags", "service", "rm"} =>
            client[k].dirs \intersect DOMAIN runs = {}

(* A service whose name may still come from the model is not one a user     *)
(* named; one about to be superseded has the name it was found by.         *)
NamesInv ==
  \A c \in Wrappers :
    /\ cmd[c].naming # "never" => cmd[c].svc \notin given
    /\ cmd[c].pc = "rename" => cmd[c].naming = "never"
    /\ cmd[c].pc = "rename" /\ cmd[c].svc \in given \intersect DOMAIN services =>
         services[cmd[c].svc].name \in {cmd[c].name, Superseded}

RInv == WellTyped /\ CmdInv /\ ClientInv /\ OwnRow /\ Younger /\ PurgeInv
          /\ DirsInv /\ NamesInv /\ NoOrphans /\ VersionInv

-----------------------------------------------------------------------------
(* Every step of a command is a statement of Tables, or none.              *)
LEMMA StepsAreStatements ==
  ASSUME WellTyped, CmdInv, [RNext]_vars
  PROVE  Statement
<1>1. ASSUME NEW c \in Wrappers, Command(c)
      PROVE  Statement
  <2> USE <1>1
  <2>2. CASE StartPlain(c) \/ \E n \in Typed : StartNamed(c, n) \/ StartResume(c, n)
    BY <2>2 DEF StartPlain, StartNamed, StartResume, Starts, Read, Statement
  <2>3. CASE Supersede(c)
    BY <2>3, TablesAssumption DEF Supersede, Statement, ServiceStatement
  <2>4. CASE Register(c)
    <3>1. cmd[c].name \in Names
      BY <2>4 DEF Register, CmdIs, CmdInv
    <3> QED
      BY <2>4, <3>1 DEF Register, Statement
  <2>5. CASE Tag(c) \/ BeginRun(c)
    BY <2>5 DEF Tag, BeginRun, Read, Statement, ServiceStatement
  <2>6. CASE Fails(c) \/ Spawn(c) \/ Finish(c)
    BY <2>6 DEF Fails, Spawn, Finish, Read, Statement
  <2>7. CASE RecordPid(c) \/ PortFound(c) \/ EndRun(c)
    BY <2>7 DEF RecordPid, PortFound, EndRun, Statement, RunStatement
  <2>8. CASE Enrich(c)
    <3>1. PICK n \in (Names \ {Superseded}) \union {None} : Rename(cmd[c].svc, n)
      BY <2>8 DEF Enrich
    <3>2. CASE n \in Names
      BY <3>1, <3>2 DEF Statement, ServiceStatement
    <3>3. CASE n = None
      BY <3>1, <3>3 DEF Rename, Statement, tables, rows
    <3> QED
      BY <3>1, <3>2, <3>3
  <2> QED
    BY <2>2, <2>3, <2>4, <2>5, <2>6, <2>7, <2>8 DEF Command
<1>2. ASSUME NEW k \in Clients, Begins(k)
      PROVE  Statement
  BY <1>2 DEF Begins, Sweep, Statement
<1>3. ASSUME NEW k \in Clients, Purge(k)
      PROVE  Statement
  BY <1>3 DEF Purge, PurgeStops, Choose, NextService, ListDirs, Cascade,
              RemoveDirs, Read, Statement, ServiceStatement
<1>4. ASSUME NEW k \in Clients, Signals(k)
      PROVE  Statement
  BY <1>4 DEF Signals, Kill, KillTree, KillWrapper, Restart, Read, Statement
<1>5. ASSUME NEW r, ChildExits(r)
      PROVE  Statement
  BY <1>5 DEF ChildExits, Read, Statement
<1>6. CASE RTick \/ UNCHANGED vars
  BY <1>6 DEF RTick, vars, Statement
<1> QED
  BY <1>1, <1>2, <1>3, <1>4, <1>5, <1>6 DEF RNext

(* What a statement does to ids: rows come with the next one, and no other  *)
(* way.                                                                    *)
LEMMA Ids ==
  ASSUME TablesOK, Statement
  PROVE  /\ clock' \in {clock, clock + 1} /\ clock \in Nat
         /\ DOMAIN services' \subseteq DOMAIN services \union {i \in Nat : clock <= i /\ i < clock'}
         /\ DOMAIN runs' \subseteq DOMAIN runs \union {i \in Nat : clock <= i /\ i < clock'}
         /\ \A r \in DOMAIN runs \intersect DOMAIN runs' :
              runs'[r].service = runs[r].service
<1>0. clock \in Nat
  BY DEF TablesOK
<1>1. ASSUME NEW n, NEW g, CreateService(n, g)
      PROVE  /\ clock' = clock + 1 /\ runs' = runs
             /\ DOMAIN services' = DOMAIN services \union {clock}
  BY <1>1 DEF CreateService, Inserts, Put
<1>2. ASSUME NEW s, NEW w, CreateRun(s, w)
      PROVE  /\ clock' = clock + 1 /\ services' = services
             /\ DOMAIN runs' = DOMAIN runs \union {clock}
             /\ \A r \in DOMAIN runs : r < clock => runs'[r] = runs[r]
  BY <1>2, <1>0 DEF CreateRun, Inserts, Put
<1>3. ASSUME NEW s, NEW n, Rename(s, n)
      PROVE  clock' = clock /\ runs' = runs /\ DOMAIN services' = DOMAIN services
  BY <1>3 DEF Rename
<1>4. ASSUME NEW s, AddPort(s, s) \/ \E t : AddTag(s, t) \/ AddPort(s, t)
      PROVE  clock' = clock /\ runs' = runs /\ services' = services
  BY <1>4 DEF AddTag, AddPort
<1>5. ASSUME NEW s, DeletePorts(s) \/ DeleteTags(s)
      PROVE  clock' = clock /\ runs' = runs /\ services' = services
  BY <1>5 DEF DeletePorts, DeleteTags
<1>6. ASSUME NEW s, DeleteService(s)
      PROVE  clock' = clock /\ runs' = runs /\ DOMAIN services' \subseteq DOMAIN services
  BY <1>6 DEF DeleteService, Drop
<1>7. ASSUME NEW s, DeleteRuns(s)
      PROVE  /\ clock' = clock /\ services' = services
             /\ DOMAIN runs' \subseteq DOMAIN runs
             /\ \A r \in DOMAIN runs' : runs'[r] = runs[r]
  BY <1>7 DEF DeleteRuns, Drop
<1>8. ASSUME NEW r, UpdateRunPid(r) \/ (\E st : UpdateRunStatus(r, st))
                      \/ (\E t : FinalizeStale(r, t))
      PROVE  /\ clock' = clock /\ services' = services /\ DOMAIN runs' = DOMAIN runs
             /\ \A q \in DOMAIN runs : runs'[q].service = runs[q].service
  <2>1. CASE UpdateRunPid(r)
    BY <2>1 DEF UpdateRunPid, UpdatesRuns, TablesOK, Rows, RunRow
  <2>2. ASSUME NEW st, UpdateRunStatus(r, st)
        PROVE  /\ clock' = clock /\ services' = services /\ DOMAIN runs' = DOMAIN runs
               /\ \A q \in DOMAIN runs : runs'[q].service = runs[q].service
    BY <2>2 DEF UpdateRunStatus, UpdatesRuns, TablesOK, Rows, RunRow
  <2>3. ASSUME NEW t, FinalizeStale(r, t)
        PROVE  /\ clock' = clock /\ services' = services /\ DOMAIN runs' = DOMAIN runs
               /\ \A q \in DOMAIN runs : runs'[q].service = runs[q].service
    BY <2>3 DEF FinalizeStale, UpdatesRuns, TablesOK, Rows, RunRow
  <2> QED
    BY <1>8, <2>1, <2>2, <2>3
<1>9. CASE Opening \/ Tick \/ UNCHANGED tables
  <2>1. UNCHANGED rows /\ clock' \in {clock, clock + 1}
    BY <1>9 DEF Opening, FindSchema, CreateSchema, CheckVersion, Tick, tables
  <2> QED
    BY <1>0, <2>1 DEF rows
<1>10. ASSUME NEW s, ServiceStatement(s)
       PROVE  /\ clock' \in {clock, clock + 1}
              /\ DOMAIN services' \subseteq DOMAIN services
              /\ DOMAIN runs' \subseteq DOMAIN runs \union {i \in Nat : clock <= i /\ i < clock'}
              /\ \A r \in DOMAIN runs \intersect DOMAIN runs' :
                   runs'[r].service = runs[r].service
  <2>1. CASE \E w \in Wrappers : CreateRun(s, w)
    <3>1. \A r \in DOMAIN runs : r < clock
      BY DEF TablesOK
    <3> QED
      BY <1>0, <1>2, <2>1, <3>1
  <2>2. CASE ~ \E w \in Wrappers : CreateRun(s, w)
    BY <1>10, <1>0, <1>3, <1>4, <1>5, <1>6, <1>7, <2>2 DEF ServiceStatement
  <2> QED
    BY <2>1, <2>2
<1>11. ASSUME NEW r, RunStatement(r)
       PROVE  /\ clock' = clock /\ services' = services /\ DOMAIN runs' = DOMAIN runs
              /\ \A q \in DOMAIN runs : runs'[q].service = runs[q].service
  BY <1>11, <1>4, <1>8 DEF RunStatement
<1> HIDE DEF TablesOK
<1>12. CASE \E n \in Names, g \in Groups : CreateService(n, g)
  BY <1>0, <1>1, <1>12
<1>13. CASE \E s : ServiceStatement(s)
  BY <1>0, <1>10, <1>13
<1>14. CASE \E r : RunStatement(r)
  BY <1>0, <1>11, <1>14
<1>15. CASE \E dead, t : t \in {1, clock} /\ FinalizeStale(dead, t)
  BY <1>0, <1>8, <1>15
<1> QED
  BY <1>0, <1>9, <1>12, <1>13, <1>14, <1>15 DEF Statement

-----------------------------------------------------------------------------
(* The types. *)
LEMMA PastGrows ==
  ASSUME TablesOK, Statement
  PROVE  Past \subseteq Past' /\ (clock' = clock + 1 /\ clock >= 1 => clock \in Past')
BY Ids DEF Past

(* Types, and that what is remembered is of the past, are kept by a step.   *)
LEMMA TypedStep ==
  ASSUME WellTyped, CmdInv, [RNext]_vars
  PROVE  WellTyped'
<1>1. Statement
  BY StepsAreStatements
<1>2. TablesOK /\ TablesOK'
  BY <1>1, TypeStep DEF WellTyped
<1>3. clock \in Nat /\ clock >= 1 /\ clock' >= 1
  BY <1>1, <1>2, Ids DEF WellTyped
<1>4. DOMAIN services' \subseteq Past' /\ DOMAIN runs' \subseteq Past'
  BY <1>1, <1>2, <1>3, Ids DEF WellTyped, Past
<1>5. Past \subseteq Past'
  BY <1>1, <1>2, PastGrows
<1>6. child' \subseteq Past /\ dir' \in [1..MaxClock -> {"none", "there", "removed"}]
  <2>1. ASSUME NEW c \in Wrappers, Spawn(c)
        PROVE  /\ child' \subseteq Past
               /\ dir' \in [1..MaxClock -> {"none", "there", "removed"}]
    BY <2>1 DEF Spawn, CmdIs, CmdInv, OnARun, WellTyped
  <2>2. ASSUME NEW c \in Wrappers, Command(c), ~Spawn(c)
        PROVE  UNCHANGED <<child, dir>>
    BY <2>2 DEF Command, StartPlain, StartNamed, StartResume, Starts, Supersede,
                Register, Tag, Fails, BeginRun, RecordPid, PortFound, EndRun,
                Enrich, Finish
  <2>3. ASSUME NEW k \in Clients, Begins(k) \/ Signals(k)
        PROVE  child' \subseteq child /\ UNCHANGED dir
    BY <2>3 DEF Begins, Signals, Kill, KillTree, KillWrapper, Restart
  <2>4. ASSUME NEW k \in Clients, Purge(k)
        PROVE  /\ child' \subseteq child
               /\ dir' \in [1..MaxClock -> {"none", "there", "removed"}]
    BY <2>4 DEF Purge, PurgeStops, Choose, NextService, ListDirs, Cascade,
                RemoveDirs, WellTyped
  <2>5. CASE RTick \/ (\E r \in child : ChildExits(r)) \/ UNCHANGED vars
    BY <2>5 DEF RTick, ChildExits, vars, WellTyped
  <2> QED
    BY <2>1, <2>2, <2>3, <2>4, <2>5 DEF RNext, WellTyped
<1>7. given' \subseteq Past'
  <2>1. ASSUME NEW c \in Wrappers, Register(c)
        PROVE  given' \subseteq Past'
    <3>1. clock' = clock + 1 /\ given' \subseteq given \union {clock}
      BY <2>1 DEF Register, CreateService, Inserts
    <3> QED
      BY <1>3, <1>5, <3>1 DEF WellTyped, Past
  <2>2. ASSUME NEW c \in Wrappers, Command(c), ~Register(c)
        PROVE  UNCHANGED given
    BY <2>2 DEF Command, StartPlain, StartNamed, StartResume, Starts, Supersede,
                Spawn, Tag, Fails, BeginRun, RecordPid, PortFound, EndRun,
                Enrich, Finish
  <2>3. ASSUME NEW k \in Clients, Begins(k) \/ Signals(k) \/ Purge(k)
        PROVE  UNCHANGED given
    BY <2>3 DEF Begins, Signals, Kill, KillTree, KillWrapper, Restart, Purge,
                PurgeStops, Choose, NextService, ListDirs, Cascade, RemoveDirs
  <2>4. RTick \/ (\E r \in child : ChildExits(r)) \/ UNCHANGED vars => UNCHANGED given
    BY DEF RTick, ChildExits, vars
  <2>5. UNCHANGED given => given' \subseteq Past'
    BY <1>5 DEF WellTyped
  <2> HIDE DEF Past
  <2> QED
    BY <2>1, <2>2, <2>3, <2>4, <2>5 DEF RNext
<1> QED
  BY <1>2, <1>3, <1>4, <1>5, <1>6, <1>7 DEF WellTyped

(* One command's record is replaced by another of the type.                *)
LEMMA CmdReplaced ==
  ASSUME CmdInv, Past \subseteq Past', NEW c \in Wrappers, NEW row \in CmdRow,
         cmd' = [cmd EXCEPT ![c] = row],
         row.svc \in Past' \union {None},
         row.pc \in {"rename", "create"} => row.name \in Names,
         row.pc \in {"spawn", "wait"} => row.run \in Past'
  PROVE  CmdInv'
<1>1. cmd' \in [Wrappers -> CmdRow]
  BY DEF CmdInv
<1>2. ASSUME NEW d \in Wrappers
      PROVE  /\ cmd'[d].svc \in Past' \union {None}
             /\ cmd'[d].pc \in {"rename", "create"} => cmd'[d].name \in Names
             /\ cmd'[d].pc \in {"spawn", "wait"} => cmd'[d].run \in Past'
  <2>1. CASE d = c
    BY <2>1 DEF CmdInv
  <2>2. CASE d # c
    BY <2>2 DEF CmdInv, OnARun
  <2> QED
    BY <2>1, <2>2
<1> QED
  BY <1>1, <1>2 DEF CmdInv, OnARun

-----------------------------------------------------------------------------
(* A set of naturals that is not empty has a least element, and a greatest  *)
(* one when it is bounded.                                                 *)
LEMMA Least ==
  ASSUME NEW S, S \subseteq Nat, S # {}
  PROVE  \E x \in S : \A y \in S : x <= y
<1>1. \E x \in S : \A y \in S : ~ (<<y, x>> \in OpToRel(<, Nat))
  BY NatLessThanWellFounded, WFMin
<1>2. PICK x \in S : \A y \in S : ~ (<<y, x>> \in OpToRel(<, Nat))
  BY <1>1
<1>3. \A y \in Nat : y < x => <<y, x>> \in OpToRel(<, Nat)
  BY DEF OpToRel
<1>4. \A y \in S : ~ (y < x)
  BY <1>2, <1>3
<1>5. \A y \in S : x <= y
  BY <1>4
<1> QED
  BY <1>5

LEMMA Greatest ==
  ASSUME NEW b \in Nat, NEW S, S \subseteq Nat, \A x \in S : x <= b, S # {}
  PROVE  \E x \in S : \A y \in S : y <= x
<1> DEFINE U == {u \in Nat : \E x \in S : u = b - x}
<1>1. \A x \in S : b - x \in U
  <2>1. \A x \in S : b - x \in Nat
    OBVIOUS
  <2> QED
    BY <2>1
<1>2. U \subseteq Nat /\ U # {}
  BY <1>1
<1> HIDE DEF U
<1>3. PICK u \in U : \A v \in U : u <= v
  BY <1>2, Least
<1>4. PICK x \in S : u = b - x
  BY <1>3 DEF U
<1>5. \A y \in S : b - x <= b - y
  BY <1>1, <1>3, <1>4
<1>6. \A y \in S : y <= x
  BY <1>5
<1> QED
  BY <1>6

(* What the search of a name finds is a service of the past, which bears    *)
(* the name; the run a service is asked about is one of its own.           *)
LEMMA Finding ==
  ASSUME WellTyped, NEW n, FindByName(n) # None
  PROVE  FindByName(n) \in DOMAIN services /\ services[FindByName(n)].name = n
<1>1. Bearing(n) # {} /\ FindByName(n) = Oldest(Bearing(n))
  BY DEF FindByName
<1>2. Bearing(n) \subseteq Nat
  BY DEF Bearing, WellTyped, TablesOK, Rows
<1>3. \E x \in Bearing(n) : \A y \in Bearing(n) : x <= y
  BY <1>1, <1>2, Least
<1>4. Oldest(Bearing(n)) \in Bearing(n)
  BY <1>3 DEF Oldest
<1> QED
  BY <1>1, <1>4 DEF Bearing

LEMMA LatestIsOwn ==
  ASSUME WellTyped, NEW s, LatestRun(s) # None
  PROVE  LatestRun(s) \in RunsOf(s)
<1> DEFINE R == RunsOf(s)
           live == {r \in R : runs[r].status = "running"}
           L == IF live # {} THEN live ELSE R
<1>1. R # {} /\ LatestRun(s) = Newest(L)
  BY DEF LatestRun, Foremost
<1>2. clock \in Nat /\ R \subseteq Nat /\ \A r \in R : r <= clock
  BY DEF WellTyped, TablesOK, Rows, RunsOf
<1>3. L # {} /\ L \subseteq R
  BY <1>1
<1> HIDE DEF L, R
<1>4. \E x \in L : \A y \in L : y <= x
  BY <1>2, <1>3, Greatest
<1>5. Newest(L) \in L
  BY <1>4 DEF Newest
<1> QED
  BY <1>1, <1>3, <1>5 DEF R

-----------------------------------------------------------------------------
(* The records of the commands and of the clients. *)
LEMMA CmdKept ==
  ASSUME CmdInv, Past \subseteq Past', UNCHANGED cmd
  PROVE  CmdInv'
<1> USE DEF CmdInv, OnARun
<1>1. cmd' \in [Wrappers -> CmdRow]
  OBVIOUS
<1>2. ASSUME NEW c \in Wrappers
      PROVE  /\ cmd'[c].svc \in Past' \union {None}
             /\ cmd'[c].pc \in {"rename", "create"} => cmd'[c].name \in Names
             /\ cmd'[c].pc \in {"spawn", "wait"} => cmd'[c].run \in Past'
  OBVIOUS
<1> QED
  BY <1>1, <1>2

(* Every step leaves each command a record that names what was inserted.    *)
LEMMA CmdStep ==
  ASSUME WellTyped, CmdInv, ClientInv, [RNext]_vars
  PROVE  CmdInv'
<1>1. Statement /\ TablesOK /\ TablesOK'
  BY StepsAreStatements, TypeStep DEF WellTyped
<1>2. Past \subseteq Past' /\ clock >= 1 /\ clock \in Nat
  BY <1>1, PastGrows DEF WellTyped, TablesOK
<1>3. ASSUME NEW i, clock' = clock + 1
      PROVE  clock \in Past'
  BY <1>1, <1>2, <1>3, PastGrows
<1>4. GoneCmd \in CmdRow /\ GoneCmd.svc = None /\ GoneCmd.pc = "gone"
  BY DEF GoneCmd, NewCmd, CmdRow
<1>5. \A n : FindByName(n) \in Past \union {None}
  BY Finding DEF WellTyped
<1>6. ASSUME NEW c \in Wrappers, Command(c)
      PROVE  CmdInv'
  <2> USE <1>6
  <2>0. cmd[c] \in CmdRow /\ cmd[c].svc \in Past' \union {None}
    BY <1>2 DEF CmdInv
  <2>1. ASSUME NEW row, Starts(c, row), row \in CmdRow,
               row.svc \in Past \union {None}, row.pc \in {"create", "tag", "rename"},
               row.name \in Names
        PROVE  CmdInv'
    <3>1. cmd' = [cmd EXCEPT ![c] = row]
      BY <2>1 DEF Starts, CmdTo
    <3> QED
      BY <1>2, <2>1, <3>1, CmdReplaced
  <2>2. CASE StartPlain(c)
    BY <2>1, <2>2, RegistryAssumption DEF StartPlain, NewCmd, CmdRow
  <2>3. CASE \E n \in Typed : StartNamed(c, n) \/ StartResume(c, n)
    <3>1. PICK n \in Typed : StartNamed(c, n) \/ StartResume(c, n)
      BY <2>3
    <3>2. FindByName(n) \in Past \union {None} /\ FindByName(n) \in Nat \union {None}
          /\ n \in Names
      BY <1>5, <3>1, RegistryAssumption DEF Past
    <3> HIDE DEF Past
    <3>3. CASE StartNamed(c, n)
      BY <2>1, <3>2, <3>3 DEF StartNamed, NewCmd, CmdRow
    <3>4. CASE StartResume(c, n)
      BY <2>1, <3>2, <3>4 DEF StartResume, NewCmd, CmdRow
    <3> QED
      BY <3>1, <3>3, <3>4
  <2>4. ASSUME NEW pc \in {"create", "run", "finish"}, CmdGoes(c, pc),
               pc = "create" => cmd[c].name \in Names
        PROVE  CmdInv'
    <3> DEFINE row == [cmd[c] EXCEPT !.pc = pc]
    <3>1. row \in CmdRow /\ row.svc = cmd[c].svc /\ row.pc = pc /\ row.name = cmd[c].name
      BY <2>0 DEF CmdRow
    <3>2. cmd' = [cmd EXCEPT ![c] = row]
      BY <2>4 DEF CmdGoes, CmdTo
    <3> HIDE DEF row
    <3> QED
      BY <1>2, <2>0, <2>4, <3>1, <3>2, CmdReplaced
  <2>5. CASE Supersede(c)
    <3>1. cmd[c].name \in Names
      BY <2>5 DEF Supersede, CmdIs, CmdInv
    <3> QED
      BY <2>4, <2>5, <3>1 DEF Supersede
  <2>6. CASE Register(c)
    <3> DEFINE row == [cmd[c] EXCEPT !.pc = "tag", !.svc = clock, !.name = None]
    <3>1. row \in CmdRow /\ row.svc = clock /\ row.pc = "tag"
      BY <1>2, <2>0 DEF CmdRow
    <3>2. cmd' = [cmd EXCEPT ![c] = row] /\ clock' = clock + 1
      BY <2>6 DEF Register, CmdTo, CreateService, Inserts
    <3>3. clock \in Past'
      BY <1>3, <3>2
    <3> HIDE DEF row
    <3> QED
      BY <1>2, <3>1, <3>2, <3>3, CmdReplaced
  <2>7. CASE Tag(c)
    BY <2>4, <2>7 DEF Tag
  <2>8. CASE Fails(c) \/ Finish(c)
    <3>1. cmd' = [cmd EXCEPT ![c] = GoneCmd]
      BY <2>8 DEF Fails, Finish, CmdTo
    <3> QED
      BY <1>2, <1>4, <3>1, CmdReplaced
  <2>9. CASE BeginRun(c)
    <3> DEFINE row == [cmd[c] EXCEPT !.pc = "spawn", !.run = clock]
    <3>1. row \in CmdRow /\ row.svc = cmd[c].svc /\ row.pc = "spawn" /\ row.run = clock
      BY <1>2, <2>0 DEF CmdRow
    <3>2. cmd' = [cmd EXCEPT ![c] = row] /\ clock' = clock + 1
      BY <2>9 DEF BeginRun, CmdTo, CreateRun, Inserts
    <3>3. clock \in Past'
      BY <1>3, <3>2
    <3> HIDE DEF row
    <3> QED
      BY <1>2, <2>0, <3>1, <3>2, <3>3, CmdReplaced
  <2>10. CASE Spawn(c)
    <3> DEFINE row == [cmd[c] EXCEPT !.pc = "wait",
                         !.naming = IF @ = "later" THEN "now" ELSE @]
    <3>1. row \in CmdRow /\ row.svc = cmd[c].svc /\ row.pc = "wait" /\ row.run = cmd[c].run
      BY <2>0 DEF CmdRow
    <3>2. cmd' = [cmd EXCEPT ![c] = row] /\ cmd[c].run \in Past'
      BY <1>2, <2>10 DEF Spawn, CmdIs, CmdTo, CmdInv, OnARun
    <3> HIDE DEF row
    <3> QED
      BY <1>2, <2>0, <3>1, <3>2, CmdReplaced
  <2>11. CASE RecordPid(c) \/ PortFound(c)
    BY <1>2, <2>11, CmdKept DEF RecordPid, PortFound
  <2>12. CASE EndRun(c)
    <3>1. PICK again \in BOOLEAN :
            cmd' = [cmd EXCEPT ![c] = [cmd[c] EXCEPT
                     !.pc = IF again THEN "run" ELSE "finish",
                     !.run = None, !.asked = @ \ {"restart"}]]
      BY <2>12 DEF EndRun, CmdTo
    <3> DEFINE row == [cmd[c] EXCEPT !.pc = IF again THEN "run" ELSE "finish",
                                     !.run = None, !.asked = @ \ {"restart"}]
    <3>2. row \in CmdRow /\ row.svc = cmd[c].svc /\ row.pc \in {"run", "finish"}
      BY <2>0 DEF CmdRow
    <3>3. cmd' = [cmd EXCEPT ![c] = row]
      BY <3>1
    <3> HIDE DEF row
    <3> QED
      BY <1>2, <2>0, <3>2, <3>3, CmdReplaced
  <2>13. CASE Enrich(c)
    <3> DEFINE row == [cmd[c] EXCEPT !.naming = "never"]
    <3>1. /\ row \in CmdRow /\ row.svc = cmd[c].svc /\ row.pc = cmd[c].pc
          /\ row.run = cmd[c].run /\ row.name = cmd[c].name
      BY <2>0 DEF CmdRow
    <3>2. cmd' = [cmd EXCEPT ![c] = row]
      BY <2>13 DEF Enrich, CmdTo
    <3>3. /\ row.pc \in {"rename", "create"} => row.name \in Names
          /\ row.pc \in {"spawn", "wait"} => row.run \in Past'
      BY <1>2, <3>1 DEF CmdInv, OnARun
    <3> HIDE DEF row
    <3> QED
      BY <1>2, <2>0, <3>1, <3>2, <3>3, CmdReplaced
  <2> QED
    BY <2>2, <2>3, <2>5, <2>6, <2>7, <2>8, <2>9, <2>10, <2>11, <2>12, <2>13
    DEF Command
<1>7. ASSUME NEW c \in Wrappers, NEW ask \in {"stop", "restart"},
             cmd' = [cmd EXCEPT ![c] = [cmd[c] EXCEPT !.asked = @ \union {ask}]]
      PROVE  CmdInv'
  <2> DEFINE row == [cmd[c] EXCEPT !.asked = @ \union {ask}]
  <2>1. cmd[c] \in CmdRow /\ cmd' = [cmd EXCEPT ![c] = row]
    BY <1>7 DEF CmdInv
  <2>2. /\ row \in CmdRow /\ row.svc = cmd[c].svc /\ row.pc = cmd[c].pc
        /\ row.run = cmd[c].run /\ row.name = cmd[c].name
    BY <2>1 DEF CmdRow
  <2>3. /\ row.svc \in Past' \union {None}
        /\ row.pc \in {"rename", "create"} => row.name \in Names
        /\ row.pc \in {"spawn", "wait"} => row.run \in Past'
    BY <1>2, <2>2 DEF CmdInv, OnARun
  <2> HIDE DEF row
  <2> QED
    BY <1>2, <2>1, <2>2, <2>3, CmdReplaced
<1>8. ASSUME NEW c \in Wrappers \union {None}, NEW sig, cmd' = Signalled(c, sig)
      PROVE  CmdInv'
  <2>1. CASE c \notin Wrappers
    <3>1. cmd' = cmd
      BY <1>8, <2>1 DEF Signalled, CmdInv
    <3> QED
      BY <1>2, <3>1, CmdKept
  <2>2. CASE c \in Wrappers /\ sig = "KILL"
    <3>1. cmd' = [cmd EXCEPT ![c] = GoneCmd]
      BY <1>8, <2>2 DEF Signalled
    <3> QED
      BY <1>2, <1>4, <2>2, <3>1, CmdReplaced
  <2>3. CASE c \in Wrappers /\ sig # "KILL"
    <3>1. cmd' = [cmd EXCEPT ![c].asked = @ \union {"stop"}]
      BY <1>8, <2>3 DEF Signalled
    <3>2. cmd' = [cmd EXCEPT ![c] = [cmd[c] EXCEPT !.asked = @ \union {"stop"}]]
      BY <3>1
    <3> QED
      BY <1>7, <2>3, <3>2
  <2> QED
    BY <2>1, <2>2, <2>3
<1>9. ASSUME NEW r, r \in DOMAIN runs
      PROVE  runs[r].wrapper \in Wrappers
  BY <1>1, <1>9 DEF TablesOK, Rows, RunRow
<1>10. ASSUME NEW s, LatestRun(s) # None
       PROVE  runs[LatestRun(s)].wrapper \in Wrappers
  BY <1>9, <1>10, LatestIsOwn DEF RunsOf
<1>11. ASSUME NEW k \in Clients, Signals(k)
       PROVE  CmdInv'
  <2> USE <1>11
  <2>1. CASE KillTree(k)
    BY <1>2, <2>1, CmdKept DEF KillTree
  <2>2. CASE KillWrapper(k)
    <3>1. client[k].who \in Wrappers \union {None}
      BY DEF ClientInv, ClientRow
    <3>2. CASE UNCHANGED cmd
      BY <1>2, <3>2, CmdKept
    <3> QED
      BY <1>8, <2>2, <3>1, <3>2 DEF KillWrapper
  <2>3. ASSUME NEW s, NEW sig, Kill(k, s, sig)
        PROVE  CmdInv'
    <3>1. CASE UNCHANGED cmd
      BY <1>2, <3>1, CmdKept
    <3>2. CASE Route(LatestRun(s), sig) = "wrapper"
      <4>1. LatestRun(s) # None
        BY <3>2 DEF Route
      <4>2. cmd' = Signalled(runs[LatestRun(s)].wrapper, sig)
        BY <2>3, <3>2 DEF Kill
      <4> QED
        BY <1>8, <1>10, <4>1, <4>2
    <3> QED
      BY <2>3, <3>1, <3>2 DEF Kill
  <2>4. ASSUME NEW s, Restart(k, s)
        PROVE  CmdInv'
    <3> DEFINE c == runs[LatestRun(s)].wrapper
    <3>1. LatestRun(s) # None
      BY <2>4, RegistryAssumption DEF Restart, StatusOf, Statuses
    <3>2. c \in Wrappers
      BY <1>10, <3>1
    <3>3. cmd' = [cmd EXCEPT ![c].asked = @ \union {"restart"}]
      BY <2>4 DEF Restart
    <3> HIDE DEF c
    <3>4. cmd' = [cmd EXCEPT ![c] = [cmd[c] EXCEPT !.asked = @ \union {"restart"}]]
      BY <3>3
    <3> QED
      BY <1>7, <3>2, <3>4
  <2> QED
    BY <2>1, <2>2, <2>3, <2>4 DEF Signals
<1>12. ASSUME NEW k \in Clients, Begins(k) \/ Purge(k)
       PROVE  UNCHANGED cmd
  BY <1>12 DEF Begins, Purge, PurgeStops, Choose, NextService, ListDirs, Cascade,
               RemoveDirs
<1>13. (RTick \/ (\E r \in child : ChildExits(r)) \/ UNCHANGED vars) => UNCHANGED cmd
  BY DEF RTick, ChildExits, vars
<1>14. UNCHANGED cmd => CmdInv'
  BY <1>2, CmdKept
<1> QED
  BY <1>6, <1>11, <1>12, <1>13, <1>14 DEF RNext

(* Every step leaves each client a record of its type.                      *)
LEMMA ClientStep ==
  ASSUME WellTyped, ClientInv, [RNext]_vars, Past \subseteq Past', clock' >= clock, clock' \in Nat
  PROVE  ClientInv'
<1>0. clock \in Nat /\ clock >= 1
  BY DEF WellTyped, TablesOK
<1>1. ASSUME UNCHANGED client
      PROVE  ClientInv'
  <2>1. client' \in [Clients -> ClientRow]
    BY <1>1 DEF ClientInv
  <2>2. ASSUME NEW k \in Clients
        PROVE  /\ client'[k].todo \subseteq Past' /\ client'[k].since <= clock'
               /\ client'[k].pc \in {"tree", "wrapper"} => client'[k].who \in Wrappers
    <3>1. client[k].since \in Nat
      BY DEF ClientInv, ClientRow
    <3> QED
      BY <1>0, <1>1, <3>1 DEF ClientInv
  <2> QED
    BY <2>1, <2>2 DEF ClientInv
<1>2. ASSUME NEW k \in Clients, NEW row \in ClientRow, client' = [client EXCEPT ![k] = row],
             row.todo \subseteq Past', row.since <= clock',
             row.pc \in {"tree", "wrapper"} => row.who \in Wrappers
      PROVE  ClientInv'
  <2>1. client' \in [Clients -> ClientRow]
    BY <1>2 DEF ClientInv
  <2>2. ASSUME NEW j \in Clients
        PROVE  /\ client'[j].todo \subseteq Past' /\ client'[j].since <= clock'
               /\ client'[j].pc \in {"tree", "wrapper"} => client'[j].who \in Wrappers
    <3>1. client[j].since \in Nat
      BY DEF ClientInv, ClientRow
    <3>2. CASE j = k
      BY <1>2, <3>2 DEF ClientInv
    <3>3. CASE j # k
      BY <1>0, <1>2, <3>1, <3>3 DEF ClientInv
    <3> QED
      BY <3>2, <3>3
  <2> QED
    BY <2>1, <2>2 DEF ClientInv
<1>3. ASSUME NEW k \in Clients
      PROVE  /\ client[k] \in ClientRow /\ client[k].todo \subseteq Past'
             /\ client[k].since \in Nat /\ client[k].since <= clock'
             /\ client[k].pc \in {"tree", "wrapper"} => client[k].who \in Wrappers
  BY <1>0, <1>3 DEF ClientInv, ClientRow
<1>4. Idle \in ClientRow /\ Idle.todo = {} /\ Idle.since = 0 /\ Idle.pc = "idle"
  BY DEF Idle, ClientRow
<1>5. ASSUME NEW k \in Clients, Goes(k, Idle)
      PROVE  ClientInv'
  <2>1. /\ Idle.todo \subseteq Past' /\ Idle.since <= clock'
        /\ Idle.pc \notin {"tree", "wrapper"}
    BY <1>0, <1>4
  <2>2. client' = [client EXCEPT ![k] = Idle]
    BY <1>5 DEF Goes
  <2> QED
    BY <1>2, <1>4, <2>1, <2>2
<1>6. ASSUME NEW k \in Clients, NEW from, NEW to, Steps(k, from, to),
             to \in Purging \union {"swept", "wrapper"},
             to = "wrapper" => from = "tree"
      PROVE  ClientInv'
  <2> DEFINE row == [client[k] EXCEPT !.pc = to]
  <2>1. /\ row \in ClientRow /\ row.todo = client[k].todo /\ row.since = client[k].since
        /\ row.pc = to /\ row.who = client[k].who
    BY <1>3, <1>6 DEF ClientRow, Purging
  <2>2. client' = [client EXCEPT ![k] = row] /\ client[k].pc = from
    BY <1>6 DEF Steps, Goes, At
  <2> HIDE DEF row
  <2> QED
    BY <1>2, <1>3, <1>6, <2>1, <2>2 DEF Purging
<1>7. ASSUME NEW k \in Clients, NEW force \in BOOLEAN, NEW t \in 1..clock, Choose(k, force, t)
      PROVE  ClientInv'
  <2> DEFINE row == [client[k] EXCEPT !.pc = "next", !.force = force, !.cutoff = t,
                               !.since = clock, !.todo = Purgeable(t, force)]
  <2>1. Purgeable(t, force) \subseteq Past /\ Purgeable(t, force) \subseteq Nat /\ t \in Nat
    BY DEF Purgeable, WellTyped, Past
  <2>2. /\ row \in ClientRow /\ row.todo = Purgeable(t, force) /\ row.since = clock
        /\ row.pc = "next"
    BY <1>0, <1>3, <2>1 DEF ClientRow, Purging
  <2>3. client' = [client EXCEPT ![k] = row]
    BY <1>7 DEF Choose, Goes
  <2> HIDE DEF row
  <2> QED
    BY <1>2, <2>1, <2>2, <2>3
<1>8. ASSUME NEW k \in Clients, NEW s \in client[k].todo, NextService(k, s)
      PROVE  ClientInv'
  <2> DEFINE row == [client[k] EXCEPT !.pc = "dirs", !.at = s, !.todo = @ \ {s}]
  <2>1. s \in Nat
    BY DEF ClientInv, ClientRow
  <2>2. /\ row \in ClientRow /\ row.todo \subseteq client[k].todo
        /\ row.since = client[k].since /\ row.pc = "dirs"
    BY <1>3, <2>1 DEF ClientRow, Purging
  <2>3. client' = [client EXCEPT ![k] = row]
    BY <1>8 DEF NextService, Goes
  <2> HIDE DEF row
  <2> QED
    BY <1>2, <1>3, <2>2, <2>3
<1>9. ASSUME NEW k \in Clients, ListDirs(k)
      PROVE  ClientInv'
  <2> DEFINE row == [client[k] EXCEPT !.pc = "ports", !.dirs = RunsOf(client[k].at)]
  <2>1. RunsOf(client[k].at) \subseteq Nat
    BY DEF RunsOf, WellTyped, TablesOK, Rows
  <2>2. /\ row \in ClientRow /\ row.todo = client[k].todo
        /\ row.since = client[k].since /\ row.pc = "ports"
    BY <1>3, <2>1 DEF ClientRow, Purging
  <2>3. client' = [client EXCEPT ![k] = row]
    BY <1>9 DEF ListDirs, Goes
  <2> HIDE DEF row
  <2> QED
    BY <1>2, <1>3, <2>2, <2>3
<1>10. ASSUME NEW k \in Clients, NEW s, NEW sig, Kill(k, s, sig)
       PROVE  ClientInv'
  <2>1. CASE Goes(k, Idle)
    BY <1>5, <2>1
  <2>2. CASE Route(LatestRun(s), sig) = "tree" /\ ~Goes(k, Idle)
    <3> DEFINE r == LatestRun(s)
    <3> DEFINE row == [client[k] EXCEPT !.pc = "tree",
                       !.at = IF runs[r].pid THEN r ELSE None,
                       !.force = (sig = "KILL"), !.who = runs[r].wrapper]
    <3>1. r # None
      BY <2>2 DEF Route
    <3>2. r \in Nat /\ runs[r].wrapper \in Wrappers
      BY <3>1, LatestIsOwn DEF RunsOf, WellTyped, TablesOK, Rows, RunRow
    <3>3. client' = [client EXCEPT ![k] = row]
      BY <1>10, <2>2 DEF Kill, Goes
    <3> HIDE DEF r
    <3>4. /\ row \in ClientRow /\ row.todo = client[k].todo
          /\ row.since = client[k].since /\ row.pc = "tree" /\ row.who = runs[r].wrapper
      BY <1>3, <3>2 DEF ClientRow, Purging
    <3> HIDE DEF row
    <3> QED
      BY <1>2, <1>3, <3>2, <3>3, <3>4
  <2> QED
    BY <1>10, <2>1, <2>2 DEF Kill
<1>11. ASSUME NEW k \in Clients, Begins(k) \/ RemoveDirs(k) \/ Cascade(k) \/ KillTree(k)
       PROVE  ClientInv'
  BY <1>6, <1>11 DEF Begins, RemoveDirs, Cascade, KillTree, Purging
<1>12. ASSUME NEW k \in Clients, PurgeStops(k) \/ KillWrapper(k)
       PROVE  ClientInv'
  BY <1>5, <1>12 DEF PurgeStops, KillWrapper
<1>13. ASSUME NEW k \in Clients, NEW s, Restart(k, s)
       PROVE  ClientInv'
  BY <1>1, <1>13 DEF Restart
<1>14. ASSUME NEW c \in Wrappers, Command(c)
       PROVE  ClientInv'
  BY <1>1, <1>14 DEF Command, StartPlain, StartNamed, StartResume, Starts, Supersede,
     Register, Tag, Fails, BeginRun, Spawn, RecordPid, PortFound, EndRun, Enrich, Finish
<1>15. CASE RTick \/ (\E r \in child : ChildExits(r)) \/ UNCHANGED vars
  BY <1>1, <1>15 DEF RTick, ChildExits, vars
<1> QED
  BY <1>7, <1>8, <1>9, <1>10, <1>11, <1>12, <1>13, <1>14, <1>15
  DEF RNext, Purge, Signals

-----------------------------------------------------------------------------
(* What others do to a command: end its wrapper, or ask it something.      *)
LEMMA CmdFrame ==
  ASSUME WellTyped, CmdInv, [RNext]_vars, NEW c \in Wrappers, ~Command(c)
  PROVE  \/ cmd'[c] = GoneCmd
         \/ /\ cmd'[c].pc = cmd[c].pc /\ cmd'[c].run = cmd[c].run
            /\ cmd'[c].svc = cmd[c].svc /\ cmd'[c].name = cmd[c].name
            /\ cmd'[c].naming = cmd[c].naming
<1> DEFINE Same == /\ cmd'[c].pc = cmd[c].pc /\ cmd'[c].run = cmd[c].run
                   /\ cmd'[c].svc = cmd[c].svc /\ cmd'[c].name = cmd[c].name
                   /\ cmd'[c].naming = cmd[c].naming
<1>0. cmd \in [Wrappers -> CmdRow] /\ cmd[c] \in CmdRow
  BY DEF CmdInv
<1>1. UNCHANGED cmd => Same
  OBVIOUS
<1>2. ASSUME NEW d \in Wrappers, Command(d)
      PROVE  Same
  <2>1. d # c
    BY <1>2
  <2>2. \/ UNCHANGED cmd
        \/ \E row : cmd' = [cmd EXCEPT ![d] = row]
    BY <1>2 DEF Command, StartPlain, StartNamed, StartResume, Starts, Supersede,
       Register, Tag, Fails, BeginRun, Spawn, RecordPid, PortFound, EndRun, Enrich,
       Finish, CmdTo, CmdGoes
  <2>3. cmd'[c] = cmd[c]
    BY <1>0, <2>1, <2>2
  <2> QED
    BY <2>3
<1>3. ASSUME NEW w, NEW ask, cmd' = [cmd EXCEPT ![w].asked = @ \union {ask}]
      PROVE  Same
  BY <1>0, <1>3 DEF CmdRow
<1>4. ASSUME NEW w, NEW sig, cmd' = Signalled(w, sig)
      PROVE  Same \/ cmd'[c] = GoneCmd
  <2>1. CASE sig = "KILL"
    <3>1. cmd' = [cmd EXCEPT ![w] = GoneCmd]
      BY <1>4, <2>1 DEF Signalled
    <3> QED
      BY <1>0, <3>1
  <2>2. CASE sig # "KILL"
    BY <1>3, <1>4, <2>2 DEF Signalled
  <2> QED
    BY <2>1, <2>2
<1> HIDE DEF Same
<1>5. ASSUME NEW k \in Clients, Signals(k)
      PROVE  Same \/ cmd'[c] = GoneCmd
  BY <1>1, <1>3, <1>4, <1>5 DEF Signals, KillTree, KillWrapper, Kill, Restart
<1>6. ASSUME NEW k \in Clients, Begins(k) \/ Purge(k)
      PROVE  UNCHANGED cmd
  BY <1>6 DEF Begins, Purge, PurgeStops, Choose, NextService, ListDirs, Cascade,
              RemoveDirs
<1>7. (RTick \/ (\E r \in child : ChildExits(r)) \/ UNCHANGED vars) => UNCHANGED cmd
  BY DEF RTick, ChildExits, vars
<1> QED
  BY <1>1, <1>2, <1>5, <1>6, <1>7 DEF RNext, Same

(* What a step does to a row of runs that it leaves in the table.          *)
Kept(r) == runs'[r] = runs[r]
EndedBy(r, c) ==
  /\ cmd[c].pc = "wait" /\ cmd[c].run = r /\ cmd'[c].pc \in {"run", "finish"}
LEMMA RowStep ==
  ASSUME WellTyped, CmdInv, OwnRow, [RNext]_vars,
         NEW r, r \in DOMAIN runs, r \in DOMAIN runs'
  PROVE  /\ runs'[r].wrapper = runs[r].wrapper /\ runs'[r].service = runs[r].service
         /\ runs[r].status # "running" => Kept(r)
         /\ runs'[r].status = "running" \/ Kept(r) \/ ~Up(runs[r].wrapper)
              \/ EndedBy(r, runs[r].wrapper)
<1> DEFINE Goal == /\ runs'[r].wrapper = runs[r].wrapper
                   /\ runs'[r].service = runs[r].service
                   /\ runs[r].status # "running" => Kept(r)
                   /\ runs'[r].status = "running" \/ Kept(r) \/ ~Up(runs[r].wrapper)
                        \/ EndedBy(r, runs[r].wrapper)
<1>0. /\ runs[r] \in RunRow /\ r < clock /\ r \in Nat /\ clock \in Nat /\ r \in Past
  BY DEF WellTyped, TablesOK, Rows
<1>1. Kept(r) => Goal
  BY DEF Kept
<1>2. UNCHANGED runs => Goal
  BY <1>1 DEF Kept
<1>3. ASSUME NEW c \in Wrappers, BeginRun(c)
      PROVE  Goal
  <2>1. Kept(r)
    BY <1>0, <1>3 DEF BeginRun, CreateRun, Put, Kept
  <2> QED
    BY <1>1, <2>1
<1>4. ASSUME NEW c \in Wrappers, RecordPid(c)
      PROVE  Goal
  <2> DEFINE q == cmd[c].run
  <2>1. runs' = [runs EXCEPT ![q].pid = TRUE] /\ q \in DOMAIN runs /\ CmdIs(c, "wait")
    BY <1>4 DEF RecordPid, UpdateRunPid, UpdatesRuns
  <2>2. CASE r # q
    BY <1>1, <2>1, <2>2 DEF Kept
  <2>3. CASE r = q
    <3>1. runs[r].status = "running"
      BY <2>1, <2>3 DEF OwnRow, OnARun, CmdIs
    <3>2. /\ runs'[r].wrapper = runs[r].wrapper /\ runs'[r].service = runs[r].service
          /\ runs'[r].status = runs[r].status
      BY <1>0, <2>1, <2>3 DEF RunRow
    <3> QED
      BY <3>1, <3>2
  <2> QED
    BY <2>2, <2>3
<1>5. ASSUME NEW c \in Wrappers, EndRun(c)
      PROVE  Goal
  <2> DEFINE q == cmd[c].run
  <2>1. PICK st \in Ended \ {"crashed"} : UpdateRunStatus(q, st)
    BY <1>5 DEF EndRun
  <2>2. CmdIs(c, "wait") /\ cmd'[c].pc \in {"run", "finish"}
    BY <1>5 DEF EndRun, CmdTo, CmdInv, CmdRow
  <2>3. CASE r # q
    <3>1. Kept(r)
      BY <2>1, <2>3 DEF UpdateRunStatus, UpdatesRuns, Kept
    <3> QED
      BY <1>1, <3>1
  <2>4. CASE r = q
    <3>1. runs[r].status = "running" /\ runs[r].wrapper = c
      BY <1>0, <2>2, <2>4 DEF OwnRow, OnARun, CmdIs
    <3>2. EndedBy(r, runs[r].wrapper)
      BY <2>2, <2>4, <3>1 DEF EndedBy, CmdIs
    <3>3. runs'[r].wrapper = runs[r].wrapper /\ runs'[r].service = runs[r].service
      BY <1>0, <2>1, <2>4 DEF UpdateRunStatus, UpdatesRuns, RunRow
    <3> QED
      BY <3>1, <3>2, <3>3
  <2> QED
    BY <2>3, <2>4
<1>6. ASSUME NEW k \in Clients, Begins(k)
      PROVE  Goal
  <2>1. PICK t \in {1, clock} : FinalizeStale({q \in DOMAIN runs : Dead(q)}, t)
    BY <1>6 DEF Begins, Sweep
  <2>2. CASE Dead(r) /\ runs[r].status = "running"
    <3>1. runs'[r] = [runs[r] EXCEPT !.status = "crashed", !.ended = IF t < r THEN r ELSE t]
      BY <2>1, <2>2 DEF FinalizeStale, UpdatesRuns
    <3>2. runs'[r].wrapper = runs[r].wrapper /\ runs'[r].service = runs[r].service
      BY <1>0, <3>1 DEF RunRow
    <3> QED
      BY <2>2, <3>2 DEF Dead
  <2>3. CASE ~(Dead(r) /\ runs[r].status = "running")
    BY <1>1, <2>1, <2>3 DEF FinalizeStale, UpdatesRuns, Kept
  <2> QED
    BY <2>2, <2>3
<1>7. ASSUME NEW k \in Clients, Cascade(k)
      PROVE  Goal
  BY <1>1, <1>7 DEF Cascade, DeletePorts, DeleteRuns, DeleteTags, DeleteService, Drop, Kept
<1> HIDE DEF Goal
<1>8. ASSUME NEW c \in Wrappers, Command(c)
      PROVE  Goal
  <2>1. CASE BeginRun(c) \/ RecordPid(c) \/ EndRun(c)
    BY <1>3, <1>4, <1>5, <2>1
  <2>2. CASE ~(BeginRun(c) \/ RecordPid(c) \/ EndRun(c))
    <3>1. UNCHANGED runs
      BY <1>8, <2>2 DEF Command, StartPlain, StartNamed, StartResume, Starts, Supersede,
         Register, Tag, Fails, Spawn, PortFound, Enrich, Finish, Read, tables, rows,
         Rename, CreateService, AddTag, AddPort
    <3> QED
      BY <1>2, <3>1
  <2> QED
    BY <2>1, <2>2
<1>9. ASSUME NEW k \in Clients, Signals(k) \/ (Purge(k) /\ ~Cascade(k))
      PROVE  UNCHANGED runs
  BY <1>9 DEF Signals, Kill, KillTree, KillWrapper, Restart, Purge, PurgeStops, Choose,
              NextService, ListDirs, RemoveDirs, Read, tables, rows
<1>10. (RTick \/ (\E q \in child : ChildExits(q)) \/ UNCHANGED vars) => UNCHANGED runs
  BY DEF RTick, ChildExits, vars, Tick, Read, tables, rows
<1>11. Goal
  BY <1>2, <1>6, <1>7, <1>8, <1>9, <1>10 DEF RNext
<1> QED
  BY <1>11 DEF Goal

(* A wrapper on a run stays the owner of a row that is open.               *)
LEMMA OwnRowStep ==
  ASSUME WellTyped, CmdInv, OwnRow, [RNext]_vars
  PROVE  OwnRow'
<1> SUFFICES ASSUME NEW c \in Wrappers, OnARun(c)', cmd'[c].run \in DOMAIN runs'
             PROVE  /\ runs'[cmd'[c].run].status = "running"
                    /\ runs'[cmd'[c].run].wrapper = c
  BY DEF OwnRow
<1>0. cmd \in [Wrappers -> CmdRow] /\ cmd[c] \in CmdRow /\ TablesOK /\ clock \in Nat
  BY DEF CmdInv, WellTyped, TablesOK
<1>1. CASE BeginRun(c)
  <2>1. /\ cmd' = [cmd EXCEPT ![c] = [cmd[c] EXCEPT !.pc = "spawn", !.run = clock]]
        /\ runs' = Put(runs, clock, [service |-> cmd[c].svc, status |-> "running",
                         ended |-> None, wrapper |-> c, pid |-> FALSE])
    BY <1>1 DEF BeginRun, CmdTo, CreateRun
  <2>2. cmd'[c].run = clock
    BY <1>0, <2>1 DEF CmdRow
  <2> QED
    BY <2>1, <2>2 DEF Put
<1>2. CASE ~BeginRun(c)
  <2>1. OnARun(c) /\ cmd'[c].run = cmd[c].run /\ cmd'[c].pc \in {"spawn", "wait"}
    <3>1. cmd'[c].pc \in {"spawn", "wait"}
      BY DEF OnARun
    <3>2. CASE Command(c)
      <4>1. ASSUME NEW row, cmd' = [cmd EXCEPT ![c] = row]
            PROVE  row.pc \in {"spawn", "wait"} /\ cmd'[c] = row
        BY <1>0, <3>1, <4>1
      <4>2. ~(StartPlain(c) \/ \E n \in Typed : StartNamed(c, n) \/ StartResume(c, n))
        <5>1. ASSUME NEW row, Starts(c, row)
              PROVE  row.pc \in {"spawn", "wait"}
          BY <4>1, <5>1 DEF Starts, CmdTo
        <5>2. ASSUME NEW naming, NEW name, NEW svc, NEW pc \in {"create", "tag", "rename"},
                     Starts(c, [NewCmd EXCEPT !.pc = pc, !.name = name, !.svc = svc])
                     \/ Starts(c, [NewCmd EXCEPT !.pc = pc, !.name = name, !.naming = naming])
              PROVE  FALSE
          <6>1. /\ [NewCmd EXCEPT !.pc = pc, !.name = name, !.svc = svc].pc = pc
                /\ [NewCmd EXCEPT !.pc = pc, !.name = name, !.naming = naming].pc = pc
            BY DEF NewCmd
          <6> QED
            BY <5>1, <5>2, <6>1
        <5>3. ~StartPlain(c)
          BY <5>2 DEF StartPlain
        <5>4. ASSUME NEW n, StartNamed(c, n) \/ StartResume(c, n)
              PROVE  FALSE
          BY <5>2, <5>4 DEF StartNamed, StartResume
        <5> QED
          BY <5>3, <5>4
      <4>3. ~(Supersede(c) \/ Register(c) \/ Tag(c))
        <5>1. ASSUME NEW pc, CmdGoes(c, pc)
              PROVE  pc \in {"spawn", "wait"}
          BY <1>0, <4>1, <5>1 DEF CmdGoes, CmdTo, CmdRow
        <5>2. ~(Supersede(c) \/ Tag(c))
          BY <5>1 DEF Supersede, Tag
        <5>3. ~Register(c)
          <6> DEFINE row == [cmd[c] EXCEPT !.pc = "tag", !.svc = clock, !.name = None]
          <6>1. row.pc = "tag" /\ (Register(c) => cmd' = [cmd EXCEPT ![c] = row])
            BY <1>0 DEF Register, CmdTo, CmdRow
          <6> HIDE DEF row
          <6> QED
            BY <4>1, <6>1
        <5> QED
          BY <5>2, <5>3
      <4>4. ~(Fails(c) \/ Finish(c) \/ EndRun(c))
        <5>1. ~(Fails(c) \/ Finish(c))
          BY <4>1 DEF Fails, Finish, CmdTo, GoneCmd, NewCmd
        <5>2. ASSUME NEW again \in BOOLEAN,
                     cmd' = [cmd EXCEPT ![c] = [cmd[c] EXCEPT
                       !.pc = IF again THEN "run" ELSE "finish",
                       !.run = None, !.asked = @ \ {"restart"}]]
              PROVE  FALSE
          <6> DEFINE row == [cmd[c] EXCEPT !.pc = IF again THEN "run" ELSE "finish",
                               !.run = None, !.asked = @ \ {"restart"}]
          <6>1. row.pc \in {"run", "finish"} /\ cmd' = [cmd EXCEPT ![c] = row]
            BY <1>0, <5>2 DEF CmdRow
          <6> HIDE DEF row
          <6> QED
            BY <4>1, <6>1
        <5>3. EndRun(c) => \E again \in BOOLEAN :
                cmd' = [cmd EXCEPT ![c] = [cmd[c] EXCEPT
                  !.pc = IF again THEN "run" ELSE "finish",
                  !.run = None, !.asked = @ \ {"restart"}]]
          BY DEF EndRun, CmdTo
        <5> QED
          BY <5>1, <5>2, <5>3
      <4>5. CASE RecordPid(c) \/ PortFound(c)
        BY <3>1, <4>5 DEF RecordPid, PortFound, OnARun
      <4>6. CASE Spawn(c)
        <5>1. cmd[c].pc = "spawn" /\ cmd'[c].run = cmd[c].run
          BY <1>0, <4>6 DEF Spawn, CmdIs, CmdTo, CmdRow
        <5> QED
          BY <3>1, <5>1 DEF OnARun
      <4>7. CASE Enrich(c)
        <5>1. cmd'[c].pc = cmd[c].pc /\ cmd'[c].run = cmd[c].run
          BY <1>0, <4>7 DEF Enrich, CmdTo, CmdRow
        <5> QED
          BY <3>1, <5>1 DEF OnARun
      <4> QED
        BY <1>2, <3>2, <4>2, <4>3, <4>4, <4>5, <4>6, <4>7 DEF Command
    <3>3. CASE ~Command(c)
      BY <3>1, <3>3, CmdFrame DEF GoneCmd, NewCmd, OnARun
    <3> QED
      BY <3>1, <3>2, <3>3
  <2> DEFINE r == cmd[c].run
  <2>2. r \in Past /\ r < clock
    BY <2>1 DEF CmdInv, Past
  <2>3. r \in DOMAIN runs
    BY <1>0, <2>1, <2>2, StepsAreStatements, Ids
  <2>4. runs[r].status = "running" /\ runs[r].wrapper = c
    BY <2>1, <2>3 DEF OwnRow
  <2>5. Up(c) /\ ~EndedBy(r, c)
    BY <2>1 DEF Up, OnARun, EndedBy
  <2>6. /\ runs'[r].wrapper = c
        /\ runs'[r].status = "running" \/ Kept(r)
    BY <2>1, <2>3, <2>4, <2>5, RowStep
  <2> QED
    BY <2>1, <2>4, <2>6 DEF Kept
<1> QED
  BY <1>1, <1>2

-----------------------------------------------------------------------------
(* Purge. *)
LEMMA ClientMoves ==
  ASSUME ClientInv, [RNext]_vars, NEW k \in Clients, client'[k].pc \in Purging
  PROVE  client'[k] = client[k] \/ Purge(k)
<1>0. client \in [Clients -> ClientRow]
  BY DEF ClientInv
<1>1. ASSUME NEW j \in Clients, Begins(j) \/ Purge(j) \/ Signals(j), j # k
      PROVE  client'[k] = client[k]
  BY <1>0, <1>1 DEF Begins, Purge, PurgeStops, Choose, NextService, ListDirs, Cascade,
     RemoveDirs, Signals, Kill, KillTree, KillWrapper, Restart, Steps, Goes
<1>2. CASE Begins(k) \/ KillTree(k)
  <2>1. client'[k].pc \in {"swept", "wrapper"}
    BY <1>0, <1>2 DEF Begins, KillTree, Steps, Goes, ClientRow
  <2> QED
    BY <2>1 DEF Purging
<1>3. ASSUME Goes(k, Idle)
      PROVE  FALSE
  BY <1>0, <1>3 DEF Goes, Idle, Purging
<1>4. ASSUME NEW s, NEW sig, Kill(k, s, sig)
      PROVE  FALSE
  <2>1. ASSUME NEW at, NEW force, NEW who,
               Goes(k, [client[k] EXCEPT !.pc = "tree", !.at = at, !.force = force,
                                         !.who = who])
        PROVE  FALSE
    <3>1. client'[k].pc = "tree"
      BY <1>0, <2>1 DEF Goes, ClientRow
    <3> QED
      BY <3>1 DEF Purging
  <2> QED
    BY <1>3, <1>4, <2>1 DEF Kill
<1>5. ASSUME NEW s, Restart(k, s)
      PROVE  client'[k] = client[k]
  BY <1>5 DEF Restart
<1>6. ASSUME NEW c \in Wrappers, Command(c)
      PROVE  UNCHANGED client
  BY <1>6 DEF Command, StartPlain, StartNamed, StartResume, Starts, Supersede,
     Register, Tag, Fails, BeginRun, Spawn, RecordPid, PortFound, EndRun, Enrich, Finish
<1>7. (RTick \/ (\E r \in child : ChildExits(r)) \/ UNCHANGED vars) => UNCHANGED client
  BY DEF RTick, ChildExits, vars
<1>8. KillWrapper(k) => Goes(k, Idle)
  BY DEF KillWrapper
<1> QED
  BY <1>1, <1>2, <1>3, <1>4, <1>5, <1>6, <1>7, <1>8 DEF RNext, Signals

(* What a step of a purge makes of the client.                             *)
LEMMA PurgeMoves ==
  ASSUME ClientInv, NEW k \in Clients, Purge(k), client'[k].pc \in Purging
  PROVE  LET x == client[k]  y == client'[k] IN
         \/ /\ \E force \in BOOLEAN, t \in 1..clock : Choose(k, force, t)
            /\ y.pc = "next" /\ y.since = clock /\ y.todo = Purgeable(y.cutoff, y.force)
         \/ /\ y.since = x.since /\ y.cutoff = x.cutoff /\ y.force = x.force
            /\ y.todo \subseteq x.todo /\ x.pc \in Purging
            /\ \/ x.pc = "next" /\ y.pc = "dirs" /\ y.at \in x.todo
               \/ x.pc = "dirs" /\ y.pc = "ports" /\ y.at = x.at /\ y.dirs = RunsOf(x.at)
                    /\ ListDirs(k)
               \/ x.pc = "ports" /\ y.pc = "runs" /\ y.at = x.at /\ y.dirs = x.dirs
               \/ x.pc = "runs" /\ y.pc = "tags" /\ y.at = x.at /\ y.dirs = x.dirs
                    /\ DeleteRuns(x.at)
               \/ x.pc = "tags" /\ y.pc = "service" /\ y.at = x.at /\ y.dirs = x.dirs
               \/ x.pc = "service" /\ y.pc = "rm" /\ y.dirs = x.dirs
               \/ x.pc = "rm" /\ y.pc = "next"
<1>0. client \in [Clients -> ClientRow] /\ client[k] \in ClientRow
  BY DEF ClientInv
<1>1. ~PurgeStops(k)
  BY <1>0 DEF PurgeStops, Goes, Idle, Purging
<1>2. ASSUME NEW force \in BOOLEAN, NEW t \in 1..clock, Choose(k, force, t)
      PROVE  /\ client'[k].pc = "next" /\ client'[k].since = clock
             /\ client'[k].todo = Purgeable(client'[k].cutoff, client'[k].force)
  <2>1. client'[k] = [client[k] EXCEPT !.pc = "next", !.force = force, !.cutoff = t,
                               !.since = clock, !.todo = Purgeable(t, force)]
    BY <1>0, <1>2 DEF Choose, Goes
  <2>2. /\ client'[k].pc = "next" /\ client'[k].since = clock /\ client'[k].cutoff = t
        /\ client'[k].force = force /\ client'[k].todo = Purgeable(t, force)
    BY <1>0, <2>1 DEF ClientRow
  <2> QED
    BY <2>2
<1>3. ASSUME NEW s \in client[k].todo, NextService(k, s)
      PROVE  LET x == client[k]  y == client'[k] IN
             /\ y.since = x.since /\ y.cutoff = x.cutoff /\ y.force = x.force
             /\ y.todo \subseteq x.todo /\ x.pc = "next" /\ y.pc = "dirs" /\ y.at = s
  BY <1>0, <1>3 DEF NextService, Goes, At, ClientRow
<1>4. ASSUME ListDirs(k)
      PROVE  LET x == client[k]  y == client'[k] IN
             /\ y.since = x.since /\ y.cutoff = x.cutoff /\ y.force = x.force
             /\ y.todo = x.todo /\ x.pc = "dirs" /\ y.pc = "ports" /\ y.at = x.at
             /\ y.dirs = RunsOf(x.at)
  BY <1>0, <1>4 DEF ListDirs, Goes, At, ClientRow
<1>5. ASSUME NEW from, NEW to, Steps(k, from, to)
      PROVE  LET x == client[k]  y == client'[k] IN
             /\ y.since = x.since /\ y.cutoff = x.cutoff /\ y.force = x.force
             /\ y.todo = x.todo /\ x.pc = from /\ y.pc = to /\ y.at = x.at
             /\ y.dirs = x.dirs
  BY <1>0, <1>5 DEF Steps, Goes, At, ClientRow
<1>6. CASE \E force \in BOOLEAN, t \in 1..clock : Choose(k, force, t)
  BY <1>2, <1>6
<1>7. CASE \E s \in client[k].todo : NextService(k, s)
  BY <1>3, <1>7 DEF Purging
<1>8. CASE ListDirs(k)
  BY <1>4, <1>8 DEF Purging
<1>9. CASE Cascade(k)
  BY <1>5, <1>9 DEF Cascade, Purging
<1>10. CASE RemoveDirs(k)
  BY <1>5, <1>10 DEF RemoveDirs, Purging
<1> QED
  BY <1>1, <1>6, <1>7, <1>8, <1>9, <1>10 DEF Purge

(* An id below the clock was in the table, for the same service.           *)
LEMMA OldRows ==
  ASSUME WellTyped, CmdInv, [RNext]_vars, NEW r, r \in DOMAIN runs', r < clock
  PROVE  r \in DOMAIN runs /\ runs'[r].service = runs[r].service
<1>1. Statement /\ TablesOK
  BY StepsAreStatements DEF WellTyped
<1> QED
  BY <1>1, Ids

(* What a purge may delete of a service it may still delete a step later.  *)
LEMMA ClearedKept ==
  ASSUME WellTyped, CmdInv, ClientInv, OwnRow, [RNext]_vars,
         NEW k \in Clients, NEW s, Cleared(client[k], s, runs),
         client'[k].since = client[k].since, client'[k].cutoff = client[k].cutoff,
         client'[k].force = client[k].force
  PROVE  Cleared(client'[k], s, runs')
<1> SUFFICES ASSUME NEW r, r \in DOMAIN runs', runs'[r].service = s, r < client[k].since
             PROVE  \/ runs'[r].ended # None /\ runs'[r].ended < client[k].cutoff
                    \/ client[k].force /\ r < client[k].cutoff
  BY DEF Cleared
<1>1. r < clock
  <2>1. client[k].since <= clock /\ client[k].since \in Nat /\ clock \in Nat
    BY DEF ClientInv, ClientRow, WellTyped, TablesOK
  <2>2. r \in Nat
    BY StepsAreStatements, TypeStep DEF WellTyped, TablesOK, Rows
  <2> QED
    BY <2>1, <2>2
<1>2. r \in DOMAIN runs /\ runs[r].service = s
  BY <1>1, OldRows
<1>3. \/ runs[r].ended # None /\ runs[r].ended < client[k].cutoff
      \/ client[k].force /\ r < client[k].cutoff
  BY <1>2 DEF Cleared
<1>4. runs[r].ended # None => runs[r].status # "running"
  BY <1>2 DEF WellTyped, TablesOK
<1>5. runs[r].ended # None => runs'[r] = runs[r]
  BY <1>2, <1>4, RowStep DEF Kept
<1> QED
  BY <1>3, <1>5

(* The choice of a purge holds until it has deleted.                       *)
LEMMA PurgeStep ==
  ASSUME WellTyped, CmdInv, ClientInv, OwnRow, Younger, PurgeInv, [RNext]_vars
  PROVE  PurgeInv'
<1> SUFFICES ASSUME NEW k \in Clients, client'[k].pc \in Purging
             PROVE  /\ \A s \in client'[k].todo : Cleared(client'[k], s, runs')
                    /\ client'[k].pc \in Deleting =>
                         Cleared(client'[k], client'[k].at, runs')
  BY DEF PurgeInv
<1>1. CASE client'[k] = client[k]
  <2>1. /\ \A s \in client[k].todo : Cleared(client[k], s, runs)
        /\ client[k].pc \in Deleting =>
             Cleared(client[k], client[k].at, runs)
    BY <1>1 DEF PurgeInv
  <2> QED
    BY <1>1, <2>1, ClearedKept
<1>2. CASE Purge(k)
  <2>1. CASE \E force \in BOOLEAN, t \in 1..clock : Choose(k, force, t)
             /\ client'[k].pc = "next" /\ client'[k].since = clock
             /\ client'[k].todo = Purgeable(client'[k].cutoff, client'[k].force)
    <3> DEFINE y == client'[k]
    <3>0. client' \in [Clients -> ClientRow] /\ y \in ClientRow /\ y.cutoff \in Nat
      BY StepsAreStatements, PastGrows, Ids, ClientStep DEF WellTyped, ClientInv, ClientRow
    <3>1. UNCHANGED runs
      BY <2>1 DEF Choose, Read, tables, rows
    <3>2. ASSUME NEW s \in Purgeable(y.cutoff, y.force)
          PROVE  Cleared(y, s, runs)
      <4>1. s < y.cutoff
        <5>1. CASE RunsOf(s) = {}
          BY <3>2, <5>1 DEF Purgeable
        <5>2. CASE RunsOf(s) # {}
          <6>1. PICK r \in DOMAIN runs : runs[r].service = s
            BY <5>2 DEF RunsOf
          <6>2. s < r /\ s \in Nat /\ r \in Nat /\ y.cutoff \in Nat
            BY <3>0, <6>1 DEF Younger, WellTyped, TablesOK, Rows, RunRow
          <6>3. r < y.cutoff
            <7>1. CASE OverBefore(r, y.cutoff)
              <8>1. runs[r].ended \in Nat /\ r <= runs[r].ended
                BY <6>1, <7>1 DEF OverBefore, WellTyped, TablesOK, Rows, RunRow
              <8> QED
                BY <6>2, <7>1, <8>1 DEF OverBefore
            <7> QED
              BY <3>2, <6>1, <7>1 DEF Purgeable, RunsOf
          <6> QED
            BY <6>2, <6>3
        <5> QED
          BY <5>1, <5>2
      <4> QED
        BY <3>2, <4>1 DEF Purgeable, OverBefore, RunsOf, Cleared
    <3>3. y.pc = "next" /\ y.todo = Purgeable(y.cutoff, y.force)
      BY <2>1
    <3> HIDE DEF y
    <3>5. y.pc \notin Deleting
      BY <3>3 DEF Deleting
    <3>4. \A s \in y.todo : Cleared(y, s, runs')
      BY <3>1, <3>2, <3>3
    <3> QED
      BY <3>4, <3>5 DEF y
  <2>2. CASE /\ client'[k].since = client[k].since /\ client'[k].cutoff = client[k].cutoff
             /\ client'[k].force = client[k].force
             /\ client'[k].todo \subseteq client[k].todo /\ client[k].pc \in Purging
             /\ client'[k].pc \in Deleting =>
                  \/ client'[k].at \in client[k].todo
                  \/ /\ client[k].pc \in Deleting
                     /\ client'[k].at = client[k].at
    <3>1. \A s \in client[k].todo : Cleared(client[k], s, runs)
      BY <2>2 DEF PurgeInv
    <3>2. client[k].pc \in Deleting => Cleared(client[k], client[k].at, runs)
      BY <2>2 DEF PurgeInv
    <3>3. \A s \in client'[k].todo : Cleared(client'[k], s, runs')
      BY <2>2, <3>1, ClearedKept
    <3>4. client'[k].pc \in Deleting =>
            Cleared(client[k], client'[k].at, runs)
      BY <2>2, <3>1, <3>2
    <3>5. client'[k].pc \in Deleting =>
            Cleared(client'[k], client'[k].at, runs')
      BY <2>2, <3>4, ClearedKept
    <3> QED
      BY <3>3, <3>5
  <2> QED
    BY <1>2, <2>1, <2>2, PurgeMoves DEF Deleting
<1> QED
  BY <1>1, <1>2, ClientMoves

-----------------------------------------------------------------------------
(* The directories. *)
LEMMA DirsMove ==
  ASSUME WellTyped, CmdInv, [RNext]_vars
  PROVE  \/ UNCHANGED dir
         \/ \E c \in Wrappers : /\ cmd[c].run \in Past
                               /\ dir' = [dir EXCEPT ![cmd[c].run] = "there"]
         \/ \E k \in Clients : /\ At(k, "rm") /\ UNCHANGED runs
                              /\ dir' = [r \in DOMAIN dir |->
                                   IF r \in client[k].dirs /\ dir[r] = "there"
                                     THEN "removed" ELSE dir[r]]
<1>1. ASSUME NEW c \in Wrappers, Command(c)
      PROVE  \/ UNCHANGED dir
             \/ /\ cmd[c].run \in Past
                /\ dir' = [dir EXCEPT ![cmd[c].run] = "there"]
  <2>1. CASE Spawn(c)
    BY <2>1 DEF Spawn, CmdIs, CmdInv, OnARun
  <2>2. CASE ~Spawn(c)
    BY <1>1, <2>2 DEF Command, StartPlain, StartNamed, StartResume, Starts, Supersede,
       Register, Tag, Fails, BeginRun, RecordPid, PortFound, EndRun, Enrich, Finish
  <2> QED
    BY <2>1, <2>2
<1>2. ASSUME NEW k \in Clients, Begins(k) \/ Signals(k)
      PROVE  UNCHANGED dir
  BY <1>2 DEF Begins, Signals, Kill, KillTree, KillWrapper, Restart
<1>3. ASSUME NEW k \in Clients, Purge(k)
      PROVE  \/ UNCHANGED dir
             \/ /\ At(k, "rm") /\ UNCHANGED runs
                /\ dir' = [r \in DOMAIN dir |->
                     IF r \in client[k].dirs /\ dir[r] = "there"
                       THEN "removed" ELSE dir[r]]
  <2>1. RemoveDirs(k) => At(k, "rm") /\ UNCHANGED runs
    BY DEF RemoveDirs, Steps, Read, tables, rows
  <2> QED
    BY <1>3, <2>1 DEF Purge, PurgeStops, Choose, NextService, ListDirs, Cascade, RemoveDirs
<1>4. (RTick \/ (\E r \in child : ChildExits(r)) \/ UNCHANGED vars) => UNCHANGED dir
  BY DEF RTick, ChildExits, vars
<1> QED
  BY <1>1, <1>2, <1>3, <1>4 DEF RNext

(* The clock stays within its bound.                                       *)
LEMMA ClockBound ==
  ASSUME TablesOK, Statement
  PROVE  clock' = clock \/ clock' <= MaxClock
<1>1. ASSUME Inserts \/ Tick
      PROVE  clock' <= MaxClock
  BY <1>1, TablesAssumption DEF Inserts, Tick, TablesOK
<1>2. ASSUME NEW s, ServiceStatement(s)
      PROVE  UNCHANGED clock \/ Inserts
  BY <1>2 DEF ServiceStatement, Rename, CreateRun, AddTag, DeletePorts, DeleteRuns,
     DeleteTags, DeleteService
<1>3. ASSUME NEW r, RunStatement(r) \/ \E t : FinalizeStale(r, t)
      PROVE  UNCHANGED clock
  BY <1>3 DEF RunStatement, UpdateRunStatus, UpdateRunPid, FinalizeStale, AddPort, UpdatesRuns
<1>4. ASSUME Opening \/ UNCHANGED tables
      PROVE  UNCHANGED clock
  BY <1>4 DEF Opening, FindSchema, CreateSchema, CheckVersion, tables
<1>5. ASSUME NEW n, NEW g, CreateService(n, g)
      PROVE  Inserts
  BY <1>5 DEF CreateService
<1> QED
  BY <1>1, <1>2, <1>3, <1>4, <1>5 DEF Statement

(* The directories a purge has listed are those of rows it deletes.        *)
LEMMA DirsStep ==
  ASSUME WellTyped, CmdInv, ClientInv, DirsInv, [RNext]_vars
  PROVE  DirsInv'
<1>0. /\ Statement /\ TablesOK /\ clock \in Nat /\ clock' \in Nat /\ clock' >= clock
      /\ dir \in [1..MaxClock -> {"none", "there", "removed"}] /\ clock >= 1
      /\ MaxClock \in Nat
  BY StepsAreStatements, Ids, TablesAssumption DEF WellTyped, TablesOK
<1>1. \A r \in DOMAIN runs' :
        /\ r \in Nat /\ r < clock' /\ (r < clock => r \in DOMAIN runs)
  BY StepsAreStatements, TypeStep, OldRows DEF WellTyped, TablesOK, Rows
<1>2. \A i \in DOMAIN dir : i >= clock => dir[i] = "none"
  BY DEF DirsInv
<1>3. DOMAIN dir' = DOMAIN dir
  BY <1>0, DirsMove
<1>4. ASSUME NEW r \in DOMAIN runs'
      PROVE  r \in DOMAIN dir /\ dir[r] # "removed"
  <2>1. CASE r \in DOMAIN runs
    BY <2>1 DEF DirsInv, RowHasLogs
  <2>2. CASE r \notin DOMAIN runs
    <3>1. r >= clock /\ r < clock' /\ r \in Nat
      BY <1>0, <1>1, <2>2
    <3>2. r <= MaxClock
      BY <1>0, <3>1, ClockBound
    <3>3. r \in DOMAIN dir
      BY <1>0, <3>1, <3>2
    <3> QED
      BY <1>2, <3>1, <3>3
  <2> QED
    BY <2>1, <2>2
<1>5. RowHasLogs' /\ DOMAIN runs' \subseteq DOMAIN dir'
  <2> SUFFICES ASSUME NEW r \in DOMAIN runs', dir'[r] = "removed"
               PROVE  FALSE
    BY <1>3, <1>4 DEF RowHasLogs
  <2>1. ASSUME NEW k \in Clients, At(k, "rm"), UNCHANGED runs,
               dir' = [q \in DOMAIN dir |-> IF q \in client[k].dirs /\ dir[q] = "there"
                                              THEN "removed" ELSE dir[q]]
        PROVE  FALSE
    <3>1. r \notin client[k].dirs
      BY <2>1 DEF DirsInv, At
    <3> QED
      BY <1>4, <2>1, <3>1
  <2>2. ASSUME NEW i, dir' = [dir EXCEPT ![i] = "there"]
        PROVE  FALSE
    BY <1>0, <1>4, <2>2
  <2> QED
    BY <1>4, <2>1, <2>2, DirsMove
<1>6. ASSUME NEW i \in DOMAIN dir', i >= clock'
      PROVE  dir'[i] = "none"
  <2>1. i \in DOMAIN dir /\ i \in Nat /\ i >= clock /\ dir[i] = "none"
    BY <1>0, <1>2, <1>3, <1>6
  <2>2. i \notin Past
    BY <1>0, <2>1 DEF Past
  <2>3. ASSUME NEW j \in Past, dir' = [dir EXCEPT ![j] = "there"]
        PROVE  dir'[i] = "none"
    BY <2>1, <2>2, <2>3
  <2>4. ASSUME NEW D, dir' = [q \in DOMAIN dir |-> IF q \in D /\ dir[q] = "there"
                                                    THEN "removed" ELSE dir[q]]
        PROVE  dir'[i] = "none"
    BY <2>1, <2>4
  <2> QED
    BY <2>1, <2>3, <2>4, DirsMove
<1>7. ASSUME NEW k \in Clients
      PROVE  /\ client'[k].pc \in {"ports", "runs", "tags", "service", "rm"} =>
                  client'[k].dirs \subseteq Past'
             /\ client'[k].pc \in {"ports", "runs"} =>
                  \A r \in client'[k].dirs \intersect DOMAIN runs' :
                    runs'[r].service = client'[k].at
             /\ client'[k].pc \in {"tags", "service", "rm"} =>
                  client'[k].dirs \intersect DOMAIN runs' = {}
  <2> SUFFICES ASSUME client'[k].pc \in {"ports", "runs", "tags", "service", "rm"}
               PROVE  /\ client'[k].dirs \subseteq Past'
                      /\ client'[k].pc \in {"ports", "runs"} =>
                           \A r \in client'[k].dirs \intersect DOMAIN runs' :
                             runs'[r].service = client'[k].at
                      /\ client'[k].pc \in {"tags", "service", "rm"} =>
                           client'[k].dirs \intersect DOMAIN runs' = {}
    OBVIOUS
  <2>0. Past \subseteq Past' /\ DOMAIN runs \subseteq Past
    BY <1>0, PastGrows DEF WellTyped
  <2>1. \A r \in Past \intersect DOMAIN runs' :
          r \in DOMAIN runs /\ runs'[r].service = runs[r].service
    BY OldRows DEF Past
  <2> HIDE DEF Past
  <2>2. CASE client'[k] = client[k]
    <3>1. client[k].dirs \subseteq Past
      BY <2>2 DEF DirsInv
    <3>2. /\ client[k].pc \in {"ports", "runs"} =>
               \A r \in client[k].dirs \intersect DOMAIN runs : runs[r].service = client[k].at
          /\ client[k].pc \in {"tags", "service", "rm"} =>
               client[k].dirs \intersect DOMAIN runs = {}
      BY DEF DirsInv, RunsOf
    <3> QED
      BY <2>0, <2>1, <2>2, <3>1, <3>2
  <2>3. CASE /\ client[k].pc = "dirs" /\ client'[k].pc = "ports"
             /\ client'[k].at = client[k].at /\ client'[k].dirs = RunsOf(client[k].at)
    BY <2>0, <2>1, <2>3 DEF RunsOf
  <2>4. CASE /\ client[k].pc = "ports" /\ client'[k].pc = "runs"
             /\ client'[k].at = client[k].at /\ client'[k].dirs = client[k].dirs
    <3>1. client[k].dirs \subseteq Past
      BY <2>4 DEF DirsInv
    <3>2. \A r \in client[k].dirs \intersect DOMAIN runs : runs[r].service = client[k].at
      BY <2>4 DEF DirsInv, RunsOf
    <3> QED
      BY <2>0, <2>1, <2>4, <3>1, <3>2
  <2>5. CASE /\ client[k].pc = "runs" /\ client'[k].pc = "tags"
             /\ client'[k].dirs = client[k].dirs /\ DeleteRuns(client[k].at)
    <3>1. client[k].dirs \subseteq Past
      BY <2>5 DEF DirsInv
    <3>2. \A r \in client[k].dirs \intersect DOMAIN runs : r \in RunsOf(client[k].at)
      BY <2>5 DEF DirsInv, RunsOf
    <3>3. DOMAIN runs' = DOMAIN runs \ RunsOf(client[k].at)
      BY <2>5 DEF DeleteRuns, Drop
    <3> QED
      BY <2>0, <2>5, <3>1, <3>2, <3>3
  <2>6. CASE /\ client[k].pc \in {"tags", "service"} /\ client'[k].pc \in {"service", "rm"}
             /\ client'[k].dirs = client[k].dirs
    <3>1. client[k].dirs \subseteq Past /\ client[k].dirs \intersect DOMAIN runs = {}
      BY <2>6 DEF DirsInv
    <3> QED
      BY <2>0, <2>1, <2>6, <3>1
  <2>7. client'[k].pc \in Purging /\ client'[k].pc \notin {"next", "dirs"}
    BY DEF Purging
  <2>8. CASE Purge(k)
    BY <2>3, <2>4, <2>5, <2>6, <2>7, <2>8, PurgeMoves
  <2> QED
    BY <2>2, <2>7, <2>8, ClientMoves
<1> QED
  BY <1>5, <1>6, <1>7 DEF DirsInv

-----------------------------------------------------------------------------
(* The names. *)
LEMMA NameStep ==
  ASSUME WellTyped, CmdInv, NamesInv, [RNext]_vars,
         NEW s, s \in DOMAIN services, s \in DOMAIN services'
  PROVE  \/ services'[s].name = services[s].name
         \/ /\ services'[s].name = Superseded
            /\ \E c \in Wrappers : cmd[c].pc = "rename" /\ cmd[c].svc = s
         \/ /\ s \notin given
            /\ \E c \in Wrappers : cmd[c].svc = s /\ cmd[c].naming = "now"
<1> DEFINE Same == services'[s].name = services[s].name
           Super == /\ services'[s].name = Superseded
                    /\ \E c \in Wrappers : cmd[c].pc = "rename" /\ cmd[c].svc = s
           Named == /\ s \notin given
                    /\ \E c \in Wrappers : cmd[c].svc = s /\ cmd[c].naming = "now"
<1>0. services[s] \in ServiceRow /\ s < clock /\ s \in Nat /\ clock \in Nat
  BY DEF WellTyped, TablesOK, Rows
<1>1. UNCHANGED services => Same
  OBVIOUS
<1>2. ASSUME NEW c \in Wrappers, Supersede(c)
      PROVE  Same \/ Super
  <2>1. /\ cmd[c].pc = "rename"
        /\ services' = IF cmd[c].svc \in DOMAIN services /\ Superseded # None
                         THEN [services EXCEPT ![cmd[c].svc].name = Superseded]
                         ELSE services
    BY <1>2 DEF Supersede, Rename, CmdIs
  <2> QED
    BY <1>0, <2>1 DEF ServiceRow
<1>3. ASSUME NEW c \in Wrappers, Enrich(c)
      PROVE  Same \/ Named
  <2>1. PICK n \in (Names \ {Superseded}) \union {None} : Rename(cmd[c].svc, n)
    BY <1>3 DEF Enrich
  <2>2. cmd[c].naming = "now" /\ cmd[c].svc \notin given
    BY <1>3 DEF Enrich, MayName, NamesInv
  <2>3. cmd[c].svc # s => Same
    BY <2>1 DEF Rename
  <2>4. cmd[c].svc = s => Named
    BY <2>2
  <2> QED
    BY <2>3, <2>4
<1>4. ASSUME NEW c \in Wrappers, Register(c)
      PROVE  Same
  BY <1>0, <1>4 DEF Register, CreateService, Put
<1>5. ASSUME NEW k \in Clients, Cascade(k)
      PROVE  Same
  BY <1>5 DEF Cascade, DeletePorts, DeleteRuns, DeleteTags, DeleteService, Drop
<1>6. ASSUME NEW c \in Wrappers, Command(c), ~(Supersede(c) \/ Enrich(c) \/ Register(c))
      PROVE  UNCHANGED services
  BY <1>6 DEF Command, StartPlain, StartNamed, StartResume, Starts, Tag, Fails, BeginRun,
     Spawn, RecordPid, PortFound, EndRun, Finish, Read, tables, rows, AddTag, CreateRun,
     UpdateRunPid, UpdateRunStatus, UpdatesRuns, AddPort
<1>7. ASSUME NEW k \in Clients, Begins(k) \/ Signals(k) \/ (Purge(k) /\ ~Cascade(k))
      PROVE  UNCHANGED services
  BY <1>7 DEF Begins, Sweep, FinalizeStale, UpdatesRuns, Signals, Kill, KillTree,
     KillWrapper, Restart, Purge, PurgeStops, Choose, NextService, ListDirs, RemoveDirs,
     Read, tables, rows
<1>8. (RTick \/ (\E r \in child : ChildExits(r)) \/ UNCHANGED vars) => UNCHANGED services
  BY DEF RTick, ChildExits, vars, Tick, Read, tables, rows
<1> HIDE DEF Same, Super, Named
<1>9. Same \/ Super \/ Named
  BY <1>1, <1>2, <1>3, <1>4, <1>5, <1>6, <1>7, <1>8 DEF RNext
<1> QED
  BY <1>9 DEF Same, Super, Named

(* The name of a command, and whether it is to be asked for, after a step.  *)
LEMMA NamingStep ==
  ASSUME WellTyped, CmdInv, NamesInv, [RNext]_vars, NEW c \in Wrappers
  PROVE  \/ cmd'[c].naming = "never" /\ cmd'[c].pc # "rename"
         \/ /\ cmd'[c].svc = cmd[c].svc /\ cmd'[c].name = cmd[c].name
            /\ cmd'[c].naming = "never" <=> cmd[c].naming = "never"
            /\ \/ cmd'[c].pc = cmd[c].pc
               \/ cmd'[c].pc = "create" /\ cmd[c].pc = "rename"
               \/ cmd'[c].pc \notin {"rename", "create"}
         \/ cmd'[c].svc = None /\ cmd'[c].pc = "create"
         \/ /\ UNCHANGED services /\ cmd'[c].naming = "never" /\ cmd'[c].pc = "rename"
            /\ cmd'[c].svc = FindByName(cmd'[c].name) /\ cmd'[c].svc # None
         \/ Register(c) /\ cmd'[c].svc = clock /\ cmd'[c].naming = cmd[c].naming
              /\ cmd'[c].pc = "tag"
<1>0. cmd \in [Wrappers -> CmdRow] /\ cmd[c] \in CmdRow
  BY DEF CmdInv
<1>1. CASE ~Command(c)
  BY <1>1, CmdFrame DEF GoneCmd, NewCmd
<1>2. ASSUME NEW row, cmd' = [cmd EXCEPT ![c] = row]
      PROVE  cmd'[c] = row
  BY <1>0, <1>2
<1>3. CASE StartPlain(c)
  BY <1>2, <1>3 DEF StartPlain, Starts, CmdTo, NewCmd
<1>4. ASSUME NEW n, StartNamed(c, n)
      PROVE  cmd'[c].naming = "never" /\ cmd'[c].pc # "rename"
  <2> DEFINE s == FindByName(n)
             row == [NewCmd EXCEPT !.pc = IF s = None THEN "create" ELSE "tag",
                                   !.name = n, !.svc = s]
  <2>1. cmd'[c] = row
    BY <1>2, <1>4 DEF StartNamed, Starts, CmdTo
  <2> HIDE DEF s
  <2>2. row.naming = "never" /\ row.pc # "rename"
    BY DEF NewCmd
  <2> QED
    BY <2>1, <2>2
<1>5. ASSUME NEW n, StartResume(c, n)
      PROVE  /\ UNCHANGED services /\ cmd'[c].naming = "never"
             /\ cmd'[c].pc = "rename" => /\ cmd'[c].svc = FindByName(cmd'[c].name)
                                         /\ cmd'[c].svc # None
  <2> DEFINE s == FindByName(n)
             row == [NewCmd EXCEPT !.pc = IF s = None THEN "create" ELSE "rename",
                                   !.name = n, !.svc = s]
  <2>1. cmd'[c] = row /\ UNCHANGED services
    BY <1>2, <1>5 DEF StartResume, Starts, CmdTo, Read, tables, rows
  <2> HIDE DEF s
  <2>2. /\ row.naming = "never" /\ row.name = n /\ row.svc = s
        /\ row.pc = "rename" => s # None
    BY DEF NewCmd
  <2> QED
    BY <2>1, <2>2 DEF s
<1>6. ASSUME NEW pc, CmdGoes(c, pc)
      PROVE  /\ cmd'[c].svc = cmd[c].svc /\ cmd'[c].name = cmd[c].name
             /\ cmd'[c].naming = cmd[c].naming /\ cmd'[c].pc = pc
  BY <1>0, <1>6 DEF CmdGoes, CmdTo, CmdRow
<1>7. CASE Supersede(c) \/ Tag(c)
  BY <1>6, <1>7 DEF Supersede, Tag, CmdIs
<1>8. CASE Register(c)
  <2>1. cmd'[c] = [cmd[c] EXCEPT !.pc = "tag", !.svc = clock, !.name = None]
    BY <1>2, <1>8 DEF Register, CmdTo
  <2> QED
    BY <1>0, <1>8, <2>1 DEF CmdRow
<1>9. CASE Fails(c) \/ Finish(c)
  BY <1>2, <1>9 DEF Fails, Finish, CmdTo, GoneCmd, NewCmd
<1>10. CASE BeginRun(c)
  <2>1. cmd'[c] = [cmd[c] EXCEPT !.pc = "spawn", !.run = clock]
    BY <1>2, <1>10 DEF BeginRun, CmdTo
  <2> QED
    BY <1>0, <2>1 DEF CmdRow
<1>11. CASE Spawn(c)
  <2>1. cmd'[c] = [cmd[c] EXCEPT !.pc = "wait",
                         !.naming = IF @ = "later" THEN "now" ELSE @]
    BY <1>2, <1>11 DEF Spawn, CmdTo
  <2> QED
    BY <1>0, <2>1 DEF CmdRow
<1>12. CASE RecordPid(c) \/ PortFound(c)
  BY <1>12 DEF RecordPid, PortFound
<1>13. CASE EndRun(c)
  <2>1. PICK again \in BOOLEAN :
          cmd' = [cmd EXCEPT ![c] = [cmd[c] EXCEPT
                   !.pc = IF again THEN "run" ELSE "finish",
                   !.run = None, !.asked = @ \ {"restart"}]]
    BY <1>13 DEF EndRun, CmdTo
  <2>2. cmd'[c] = [cmd[c] EXCEPT !.pc = IF again THEN "run" ELSE "finish",
                     !.run = None, !.asked = @ \ {"restart"}]
    BY <1>2, <2>1
  <2> QED
    BY <1>0, <2>2 DEF CmdRow
<1>14. CASE Enrich(c)
  <2>1. cmd'[c] = [cmd[c] EXCEPT !.naming = "never"]
    BY <1>2, <1>14 DEF Enrich, CmdTo
  <2>2. cmd[c].pc # "rename"
    BY <1>14 DEF Enrich, MayName, NamesInv
  <2> QED
    BY <1>0, <2>1, <2>2 DEF CmdRow
<1> QED
  BY <1>1, <1>3, <1>4, <1>5, <1>7, <1>8, <1>9, <1>10, <1>11, <1>12, <1>13, <1>14
  DEF Command

(* Whose names may still come from the model.                              *)
LEMMA NamesStep ==
  ASSUME WellTyped, CmdInv, NamesInv, [RNext]_vars
  PROVE  NamesInv'
<1>0. clock \in Nat /\ Past = {i \in Nat : 1 <= i /\ i < clock} /\ given \subseteq Past
      /\ None \notin Nat
  BY TablesAssumption DEF WellTyped, TablesOK, Past
<1>1. given' = given \/ \E d \in Wrappers : Register(d)
  <2>1. ASSUME NEW c \in Wrappers, Command(c), ~Register(c)
        PROVE  UNCHANGED given
    BY <2>1 DEF Command, StartPlain, StartNamed, StartResume, Starts, Supersede,
                Spawn, Tag, Fails, BeginRun, RecordPid, PortFound, EndRun,
                Enrich, Finish
  <2>2. ASSUME NEW k \in Clients, Begins(k) \/ Signals(k) \/ Purge(k)
        PROVE  UNCHANGED given
    BY <2>2 DEF Begins, Signals, Kill, KillTree, KillWrapper, Restart, Purge,
                PurgeStops, Choose, NextService, ListDirs, Cascade, RemoveDirs
  <2>3. RTick \/ (\E r \in child : ChildExits(r)) \/ UNCHANGED vars => UNCHANGED given
    BY DEF RTick, ChildExits, vars
  <2> QED
    BY <2>1, <2>2, <2>3 DEF RNext
<1>2. given' \subseteq given \union {clock}
  BY <1>1 DEF Register
<1> SUFFICES ASSUME NEW c \in Wrappers
             PROVE  /\ cmd'[c].naming # "never" => cmd'[c].svc \notin given'
                    /\ cmd'[c].pc = "rename" => cmd'[c].naming = "never"
                    /\ cmd'[c].pc = "rename" /\ cmd'[c].svc \in given' \intersect DOMAIN services' =>
                         services'[cmd'[c].svc].name \in {cmd'[c].name, Superseded}
  BY DEF NamesInv
<1>3. CASE cmd'[c].naming = "never" /\ cmd'[c].pc # "rename"
  BY <1>3
<1>4. CASE /\ cmd'[c].svc = cmd[c].svc /\ cmd'[c].name = cmd[c].name
           /\ cmd'[c].naming = "never" <=> cmd[c].naming = "never"
           /\ \/ cmd'[c].pc = cmd[c].pc
              \/ cmd'[c].pc = "create" /\ cmd[c].pc = "rename"
              \/ cmd'[c].pc \notin {"rename", "create"}
  <2>1. cmd[c].svc \in Past \union {None} /\ clock \notin Past \union {None}
    BY <1>0 DEF CmdInv
  <2>2. cmd'[c].svc \in given' => cmd[c].svc \in given
    BY <1>2, <1>4, <2>1
  <2>3. /\ cmd[c].naming # "never" => cmd[c].svc \notin given
        /\ cmd[c].pc = "rename" => cmd[c].naming = "never"
    BY DEF NamesInv
  <2>4. ASSUME cmd'[c].pc = "rename", cmd'[c].svc \in given' \intersect DOMAIN services'
        PROVE  services'[cmd'[c].svc].name \in {cmd'[c].name, Superseded}
    <3> DEFINE s == cmd[c].svc
    <3>1. s \in given /\ s \in DOMAIN services' /\ s < clock /\ cmd[c].pc = "rename"
      BY <1>0, <1>4, <2>2, <2>4
    <3>2. s \in DOMAIN services
      BY <1>0, <3>1, StepsAreStatements, Ids DEF WellTyped
    <3>3. services[s].name \in {cmd[c].name, Superseded}
      BY <3>1, <3>2 DEF NamesInv
    <3>4. services'[s].name \in {services[s].name, Superseded}
      BY <3>1, <3>2, NameStep
    <3> QED
      BY <1>4, <3>3, <3>4
  <2> QED
    BY <1>4, <2>2, <2>3, <2>4
<1>5. CASE cmd'[c].svc = None /\ cmd'[c].pc = "create"
  BY <1>0, <1>2, <1>5
<1>6. CASE /\ UNCHANGED services /\ cmd'[c].naming = "never" /\ cmd'[c].pc = "rename"
           /\ cmd'[c].svc = FindByName(cmd'[c].name) /\ cmd'[c].svc # None
  <2>1. services[cmd'[c].svc].name = cmd'[c].name
    BY <1>6, Finding
  <2> QED
    BY <1>6, <2>1
<1>7. CASE /\ Register(c) /\ cmd'[c].svc = clock /\ cmd'[c].naming = cmd[c].naming
           /\ cmd'[c].pc = "tag"
  <2>1. cmd[c].naming # "never" => given' = given
    BY <1>7 DEF Register
  <2> QED
    BY <1>0, <1>7, <2>1
<1> QED
  BY <1>3, <1>4, <1>5, <1>6, <1>7, NamingStep

-----------------------------------------------------------------------------
(* A run is inserted after its service, for the service was known before.  *)
LEMMA YoungerStep ==
  ASSUME WellTyped, CmdInv, NoOrphans, Younger, [RNext]_vars
  PROVE  Younger'
<1>0. clock \in Nat /\ \A r \in DOMAIN runs : r < clock
  BY DEF WellTyped, TablesOK
<1>1. ASSUME NEW c \in Wrappers, BeginRun(c)
      PROVE  Younger'
  <2>1. /\ cmd[c].svc \in DOMAIN services
        /\ runs' = Put(runs, clock, [service |-> cmd[c].svc, status |-> "running",
                         ended |-> None, wrapper |-> c, pid |-> FALSE])
    BY <1>1 DEF BeginRun, CreateRun, Refers
  <2>2. cmd[c].svc < clock
    BY <2>1 DEF WellTyped, TablesOK
  <2> QED
    BY <1>0, <2>1, <2>2 DEF Younger, Put
<1>2. ASSUME DOMAIN runs' \subseteq DOMAIN runs
      PROVE  Younger'
  BY <1>0, <1>2, OldRows DEF Younger
<1>3. ASSUME NEW c \in Wrappers, Command(c), ~BeginRun(c)
      PROVE  DOMAIN runs' = DOMAIN runs
  <2>1. CASE RecordPid(c) \/ EndRun(c)
    BY <2>1 DEF RecordPid, EndRun, UpdateRunPid, UpdateRunStatus, UpdatesRuns
  <2>2. CASE ~(RecordPid(c) \/ EndRun(c))
    BY <1>3, <2>2 DEF Command, StartPlain, StartNamed, StartResume, Starts, Supersede,
       Register, Tag, Fails, Spawn, PortFound, Enrich, Finish, Read, tables, rows,
       Rename, CreateService, AddTag, AddPort
  <2> QED
    BY <2>1, <2>2
<1>4. ASSUME NEW k \in Clients, Begins(k) \/ Signals(k) \/ Purge(k)
      PROVE  DOMAIN runs' \subseteq DOMAIN runs
  BY <1>4 DEF Begins, Sweep, FinalizeStale, UpdatesRuns, Signals, Kill, KillTree,
     KillWrapper, Restart, Purge, PurgeStops, Choose, NextService, ListDirs, RemoveDirs,
     Cascade, DeletePorts, DeleteRuns, DeleteTags, DeleteService, Drop,
     Read, tables, rows
<1>5. RTick \/ (\E q \in child : ChildExits(q)) \/ UNCHANGED vars => UNCHANGED runs
  BY DEF RTick, ChildExits, vars, Tick, Read, tables, rows
<1> QED
  BY <1>1, <1>2, <1>3, <1>4, <1>5 DEF RNext

-----------------------------------------------------------------------------
(* The inductive invariant holds. *)
LEMMA RStep == RInv /\ [RNext]_vars => RInv'
<1> SUFFICES ASSUME RInv, [RNext]_vars
             PROVE  RInv'
  OBVIOUS
<1> USE DEF RInv
<1>1. WellTyped' /\ Statement /\ TablesOK
  BY TypedStep, StepsAreStatements DEF WellTyped
<1>2. Past \subseteq Past' /\ clock' >= clock /\ clock' \in Nat
  BY <1>1, PastGrows, Ids
<1>3. CmdInv' /\ ClientInv'
  BY <1>2, CmdStep, ClientStep
<1>4. OwnRow' /\ Younger' /\ PurgeInv' /\ DirsInv' /\ NamesInv'
  BY OwnRowStep, YoungerStep, PurgeStep, DirsStep, NamesStep
<1>5. NoOrphans' /\ VersionInv'
  BY <1>1, OrphansStep, VersionStep
<1> QED
  BY <1>1, <1>3, <1>4, <1>5

(* It holds at first.                                                      *)
LEMMA RInitially == RInit => RInv
<1> SUFFICES ASSUME RInit
             PROVE  RInv
  OBVIOUS
<1>1. TablesOK
  BY DEF RInit, TablesOK, Rows, Current
<1>2. WellTyped
  BY <1>1 DEF RInit, WellTyped
<1>3. CmdInv
  <2>1. NewCmd \in CmdRow
    BY DEF NewCmd, CmdRow
  <2> QED
    BY <2>1 DEF RInit, CmdInv, NewCmd, OnARun
<1>4. ClientInv
  <2>1. Idle \in ClientRow
    BY DEF Idle, ClientRow
  <2>2. client = [k \in Clients |-> Idle] /\ clock = 1
    BY DEF RInit
  <2>3. client \in [Clients -> ClientRow]
    BY <2>1, <2>2
  <2>4. Idle.todo = {} /\ Idle.since = 0 /\ Idle.pc = "idle"
    BY DEF Idle
  <2> HIDE DEF Idle
  <2>5. \A k \in Clients : client[k].todo = {} /\ client[k].since = 0 /\ client[k].pc = "idle"
    BY <2>2, <2>4
  <2> QED
    BY <2>2, <2>3, <2>5 DEF ClientInv
<1>5. OwnRow /\ Younger /\ PurgeInv /\ NamesInv
  BY DEF RInit, OwnRow, Younger, OnARun, NewCmd, PurgeInv, Purging, Idle, NamesInv
<1>6. DirsInv
  BY DEF RInit, DirsInv, RowHasLogs, Idle
<1>7. NoOrphans /\ VersionInv
  BY DEF RInit, NoOrphans, VersionInv, Ours, Foreign, In, Current, States
<1> QED
  BY <1>2, <1>3, <1>4, <1>5, <1>6, <1>7 DEF RInv

(* So it always holds.                                                     *)
LEMMA RInvariant == RSpec => []RInv
<1>1. RInit => RInv
  BY RInitially
<1>2. RInv /\ [RNext]_vars => RInv'
  BY RStep
<1> QED
  BY <1>1, <1>2, PTL DEF RSpec

-----------------------------------------------------------------------------
(* The theorems. *)

(* Every variable holds a value of its type, whatever the number of         *)
(* commands and clients.                                                   *)
THEOREM RegistryTypes == RSpec => []TypeOK
<1>1. RInv => TypeOK
  <2> SUFFICES ASSUME RInv
               PROVE  TypeOK
    OBVIOUS
  <2>1. clock \in Nat /\ Past \subseteq 1..(clock - 1) /\ Past \subseteq 1..clock
    BY DEF RInv, WellTyped, TablesOK, Past
  <2>2. ASSUME NEW c \in Wrappers
        PROVE  /\ cmd[c].pc \in {"new", "rename", "create", "tag", "run", "spawn", "wait",
                                 "finish", "gone"}
               /\ cmd[c].svc \in Nat \union {None} /\ cmd[c].run \in Nat \union {None}
    BY DEF RInv, CmdInv, CmdRow
  <2>3. \A k \in Clients : client[k].todo \subseteq 1..clock
    BY <2>1 DEF RInv, ClientInv
  <2>4. child \subseteq 1..(clock - 1) /\ given \subseteq 1..(clock - 1)
    BY <2>1 DEF RInv, WellTyped
  <2>5. TablesOK /\ dir \in [1..MaxClock -> {"none", "there", "removed"}]
    BY DEF RInv, WellTyped
  <2> QED
    BY <2>2, <2>3, <2>4, <2>5 DEF TypeOK
<1> QED
  BY <1>1, RInvariant, PTL

(* The commands are only sequences of statements: no order of theirs leaves *)
(* a row whose parent is gone, or uses a schema of another version.        *)
THEOREM RegistryIntegrity == RSpec => []Integrity
<1>1. RInv => Integrity
  BY DEF RInv, Integrity, Versioned, VersionInv, Ours, Foreign, In, WellTyped, TablesOK, Open
<1> QED
  BY <1>1, RInvariant, PTL

(* A run in the table has its logs, however the commands interleave: purge  *)
(* lists the directories of rows it then deletes, and no run returns to a  *)
(* service before its runs are deleted (purge.rs:167-181).                 *)
THEOREM LogsOutliveRows == RSpec => []RowHasLogs
<1>1. RInv => RowHasLogs
  BY DEF RInv, DirsInv
<1> QED
  BY <1>1, RInvariant, PTL

(* Only a purge deletes runs, those of the service it is at.               *)
LEMMA RowDeleted ==
  ASSUME [RNext]_vars, NEW r, r \in DOMAIN runs, r \notin DOMAIN runs'
  PROVE  \E k \in Clients : At(k, "runs") /\ r \in RunsOf(client[k].at)
<1>1. ASSUME NEW c \in Wrappers, Command(c)
      PROVE  DOMAIN runs \subseteq DOMAIN runs'
  <2>1. CASE BeginRun(c)
    BY <2>1 DEF BeginRun, CreateRun, Put
  <2>2. CASE RecordPid(c) \/ EndRun(c)
    BY <2>2 DEF RecordPid, EndRun, UpdateRunPid, UpdateRunStatus, UpdatesRuns
  <2>3. CASE ~(BeginRun(c) \/ RecordPid(c) \/ EndRun(c))
    BY <1>1, <2>3 DEF Command, StartPlain, StartNamed, StartResume, Starts, Supersede,
       Register, Tag, Fails, Spawn, PortFound, Enrich, Finish, Read, tables, rows,
       Rename, CreateService, AddTag, AddPort
  <2> QED
    BY <2>1, <2>2, <2>3
<1>2. ASSUME NEW k \in Clients, Begins(k) \/ Signals(k) \/ (Purge(k) /\ ~Cascade(k))
      PROVE  DOMAIN runs \subseteq DOMAIN runs'
  BY <1>2 DEF Begins, Sweep, FinalizeStale, UpdatesRuns, Signals, Kill, KillTree,
     KillWrapper, Restart, Purge, PurgeStops, Choose, NextService, ListDirs, RemoveDirs,
     Read, tables, rows
<1>3. RTick \/ (\E q \in child : ChildExits(q)) \/ UNCHANGED vars => UNCHANGED runs
  BY DEF RTick, ChildExits, vars, Tick, Read, tables, rows
<1>4. ASSUME NEW k \in Clients, Cascade(k)
      PROVE  At(k, "runs") /\ r \in RunsOf(client[k].at)
  BY <1>4 DEF Cascade, Steps, DeletePorts, DeleteRuns, DeleteTags, DeleteService, Drop
<1> QED
  BY <1>1, <1>2, <1>3, <1>4 DEF RNext

(* A purge deletes only runs over before its cutoff when it chose, or begun *)
(* since: an end once recorded is final, for a sweep and a wrapper record  *)
(* it only where there is none (db.rs:778-816, purge.rs:62, 132-144).      *)
THEOREM PurgeDeletesTheChosen == RSpec => PurgeSpares
<1>1. ASSUME RInv, [RNext]_vars
      PROVE  \A r \in DOMAIN runs \ DOMAIN runs' :
               \E k \in Clients :
                 /\ At(k, "runs") /\ runs[r].service = client[k].at
                 /\ \/ r >= client[k].since
                    \/ OverBefore(r, client[k].cutoff)
                    \/ client[k].force /\ r < client[k].cutoff
  <2> SUFFICES ASSUME NEW r, r \in DOMAIN runs, r \notin DOMAIN runs'
               PROVE  \E k \in Clients :
                 /\ At(k, "runs") /\ runs[r].service = client[k].at
                 /\ \/ r >= client[k].since
                    \/ OverBefore(r, client[k].cutoff)
                    \/ client[k].force /\ r < client[k].cutoff
    OBVIOUS
  <2>1. \E k \in Clients : At(k, "runs") /\ r \in RunsOf(client[k].at)
    BY <1>1, RowDeleted
  <2>2. PICK k \in Clients : At(k, "runs") /\ r \in RunsOf(client[k].at)
    BY <2>1
  <2>3. Cleared(client[k], client[k].at, runs)
    BY <1>1, <2>2 DEF RInv, PurgeInv, Purging, Deleting, At
  <2>4. r \in Nat /\ client[k].since \in Nat
    BY <1>1 DEF RInv, WellTyped, TablesOK, Rows, ClientInv, ClientRow
  <2> QED
    BY <2>2, <2>3, <2>4 DEF Cleared, RunsOf, OverBefore
<1> QED
  BY <1>1, RInvariant, PTL DEF RSpec, PurgeSpares

(* A purge that stopped half-way finds what it had chosen again, as long as *)
(* no run began in the service since, whichever rows are gone               *)
(* (db.rs:849-873).                                                        *)
THEOREM PurgeResumes == RSpec => []PurgeRepeatable
<1>1. RInv => PurgeRepeatable
  <2> SUFFICES ASSUME RInv, NEW k \in Clients,
                      client[k].pc \in {"ports", "runs", "tags", "service"},
                      client[k].at \in DOMAIN services,
                      \A r \in RunsOf(client[k].at) : r < client[k].since
               PROVE  client[k].at \in Purgeable(client[k].cutoff, client[k].force)
    BY DEF PurgeRepeatable
  <2> DEFINE s == client[k].at
             t == client[k].cutoff
  <2>1. Cleared(client[k], s, runs)
    <3>1. client[k].pc \in Purging /\ client[k].pc \in Deleting
      BY DEF Purging, Deleting
    <3>2. PurgeInv
      BY DEF RInv
    <3> HIDE DEF RInv
    <3> QED
      BY <3>1, <3>2 DEF PurgeInv
  <2>2. s < t /\ \A r \in RunsOf(s) : OverBefore(r, t) \/ (client[k].force /\ r < t)
    BY <2>1 DEF Cleared, RunsOf, OverBefore
  <2>3. ASSUME NEW r \in RunsOf(s), OverBefore(r, t)
        PROVE  r < t
    <3>1. r \in Nat /\ runs[r].ended \in Nat /\ r <= runs[r].ended
      BY <2>3 DEF OverBefore, RunsOf, RInv, WellTyped, TablesOK, Rows, RunRow
    <3>2. t \in Nat
      BY DEF RInv, ClientInv, ClientRow
    <3> QED
      BY <2>3, <3>1, <3>2 DEF OverBefore
  <2> QED
    BY <2>2, <2>3 DEF Purgeable
<1> QED
  BY <1>1, RInvariant, PTL

(* The name a user created a service under changes only by a --resume of    *)
(* it; a name that was derived, only by a --resume that found it or by the *)
(* enrichment of the command that derived it (run.rs:227,                  *)
(* enrichment.rs:100).                                                     *)
THEOREM GivenNamesStay == RSpec => UserNameKept
<1>1. ASSUME RInv, [RNext]_vars
      PROVE  \A s \in DOMAIN services \intersect DOMAIN services' :
               services'[s].name # services[s].name =>
                 Resuming(s) \/ (s \notin given /\ \E c \in Wrappers :
                                    cmd[c].svc = s /\ cmd[c].naming = "now")
  <2> SUFFICES ASSUME NEW s, s \in DOMAIN services, s \in DOMAIN services',
                      services'[s].name # services[s].name
               PROVE  Resuming(s) \/ (s \notin given /\ \E c \in Wrappers :
                                         cmd[c].svc = s /\ cmd[c].naming = "now")
    OBVIOUS
  <2>1. CASE /\ s \notin given
             /\ \E c \in Wrappers : cmd[c].svc = s /\ cmd[c].naming = "now"
    BY <2>1
  <2>2. CASE /\ services'[s].name = Superseded
             /\ \E c \in Wrappers : cmd[c].pc = "rename" /\ cmd[c].svc = s
    <3>1. PICK c \in Wrappers : cmd[c].pc = "rename" /\ cmd[c].svc = s
      BY <2>2
    <3>2. s \in given => services[s].name \in {cmd[c].name, Superseded}
      BY <1>1, <3>1 DEF RInv, NamesInv
    <3> QED
      BY <2>2, <3>1, <3>2 DEF Resuming
  <2> QED
    BY <1>1, <2>1, <2>2, NameStep DEF RInv
<1> QED
  BY <1>1, RInvariant, PTL DEF RSpec, UserNameKept
=============================================================================
