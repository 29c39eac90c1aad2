--------------------------- MODULE RunStoreProofs ---------------------------
(***************************************************************************)
(* Proofs about RunStore for any wrappers, runs, PIDs and readers, however *)
(* PIDs are recycled and whatever `ps` can tell.                           *)
(***************************************************************************)
EXTENDS RunStore, TLAPS

Busy == {"spawn", "wait", "close"}   \* a wrapper with an open run

Occupies(p, r) == proc[p] = r

(* A wrapper that spawns has a run to spawn for: with that, type            *)
(* correctness is inductive.                                                *)
Chosen == \A w \in Wrappers : wpc[w] \in Busy => cur[w] \in Runs
Typed  == TypeOK /\ Chosen

(* What a reader knows about a row: it exists, and a PID it read is the one *)
(* that was recorded, which is never changed.                               *)
Row(x) ==
  /\ status[x[1]] # "absent"
  /\ x[2] \in {NoPid, rpid[x[1]]}

Unborn ==
  \A r \in Runs : status[r] = "absent" =>
    rpid[r] = NoPid /\ \A p \in Pids : ~Occupies(p, r)

Owned ==
  \A r \in Runs : status[r] # "absent" =>
    owner[r] \in Wrappers /\ wpc[owner[r]] # "new"

Working ==
  \A w \in Wrappers : wpc[w] \in Busy =>
    cur[w] \in Runs /\ owner[cur[w]] = w /\ status[cur[w]] = "running"

Unspawned ==
  \A w \in Wrappers : wpc[w] = "spawn" =>
    rpid[cur[w]] = NoPid /\ \A p \in Pids : ~Occupies(p, cur[w])

Held ==
  \A w \in Wrappers : wpc[w] \in Live =>
    pidOf[w] \in Pids /\ proc[pidOf[w]] = w

(* The PID task of a wrapper has its child's PID, and is the first to store *)
(* one in the row.                                                          *)
Unsaved ==
  \A w \in Wrappers : unsaved[w] # NoPid =>
    /\ wpc[w] \in {"wait", "close"} /\ rpid[cur[w]] = NoPid
    /\ \A p \in Pids : Occupies(p, cur[w]) => p = unsaved[w]

OnePid ==
  \A r \in Runs : \A p, q \in Pids : Occupies(p, r) /\ Occupies(q, r) => p = q

Recorded ==
  \A r \in Runs : rpid[r] # NoPid =>
    \A p \in Pids : Occupies(p, r) => p = rpid[r]

Looking ==
  \A c \in Readers :
    /\ \A x \in todo[c] : Row(x)
    /\ rpc[c] \in {"wrapper", "child", "dead"} =>
         at[c] \in Runs \X (Pids \union {NoPid}) /\ Row(at[c])
    /\ rpc[c] \in {"child", "dead"} => wpc[owner[at[c][1]]] = "gone"

RowsInv == Unborn /\ Owned /\ Working /\ Unspawned
PidsInv == Held /\ Unsaved /\ OnePid /\ Recorded
Inv == RowsInv /\ PidsInv /\ Looking /\ CrashedOwnerGone

(* The empty table and an idle machine are well typed.                      *)
LEMMA TypeInit == Init => Typed
  BY StoreAssumption DEF Init, Typed, Chosen, Busy, TypeOK, Live, Final, Nothing

(* Every operation of wrappers, readers and the machine keeps the types.   *)
LEMMA TypeNext == Typed /\ [Next]_vars => Typed'
<1> SUFFICES ASSUME Typed, [Next]_vars PROVE Typed'
    OBVIOUS
<1> USE DEF Typed, Chosen, Busy, TypeOK, Live, Final
<1>1. ASSUME NEW p \in Pids, StrangerStarts(p) \/ StrangerExits(p)
      PROVE  Typed'
  BY <1>1 DEF StrangerStarts, StrangerExits, GivePid, wrapperVars, rowVars, readerVars
<1>2. ASSUME NEW r \in Runs, ChildExits(r) \/ InitReaps(r)
      PROVE  Typed'
  BY <1>2 DEF ChildExits, InitReaps, Without, wrapperVars, rowVars, readerVars
<1>3. ASSUME NEW w \in Wrappers, WrapperStep(w)
      PROVE  Typed'
  <2>1. ASSUME NEW p \in Pids, Start(w, p)
        PROVE  Typed'
    BY <2>1 DEF Start, GivePid, rowVars, readerVars
  <2>2. ASSUME NEW p \in Pids, Spawn(w, p)
        PROVE  Typed'
    BY <2>2 DEF Spawn, GivePid, rowVars, readerVars
  <2>3. ASSUME NEW r \in Runs, CreateRun(w, r)
        PROVE  Typed'
    BY <2>3 DEF CreateRun, osVars, readerVars
  <2>4. ASSUME RecordPid(w)
        PROVE  Typed'
    BY <2>4 DEF RecordPid, osVars, readerVars
  <2>5. ASSUME NEW s \in Final \ {"crashed"}, Close(w, s)
        PROVE  Typed'
    BY <2>5 DEF Close, osVars, readerVars
  <2>6. ASSUME WrapperEnds(w)
        PROVE  Typed'
    BY <2>6 DEF WrapperEnds, Without, rowVars, readerVars
  <2>7. ASSUME Reap(w)
        PROVE  Typed'
    BY <2>7 DEF Reap, Without, rowVars, readerVars
  <2> QED
    BY <1>3, <2>1, <2>2, <2>3, <2>4, <2>5, <2>6, <2>7 DEF WrapperStep
<1>4. ASSUME NEW c \in Readers, ReaderStep(c)
      PROVE  Typed'
  <2>1. CASE List(c)
    BY <2>1 DEF List, osVars, wrapperVars, rowVars
  <2>2. CASE Pick(c)
    BY <2>2 DEF Pick, osVars, wrapperVars, rowVars
  <2>3. CASE SweepEnds(c)
    BY <2>3 DEF SweepEnds, osVars, wrapperVars, rowVars
  <2>4. CASE CheckWrapper(c)
    BY <2>4 DEF CheckWrapper, osVars, wrapperVars, rowVars
  <2>5. CASE CheckChild(c)
    BY <2>5 DEF CheckChild, osVars, wrapperVars, rowVars
  <2>6. CASE Finalize(c)
    BY <2>6 DEF Finalize, osVars, wrapperVars
  <2> QED
    BY <1>4, <2>1, <2>2, <2>3, <2>4, <2>5, <2>6 DEF ReaderStep
<1>5. CASE UNCHANGED vars
  BY <1>5 DEF vars, osVars, wrapperVars, rowVars, readerVars
<1> QED
  BY <1>1, <1>2, <1>3, <1>4, <1>5 DEF Next, SystemStep

(* Every reachable state is well typed (RunStore, all operations).         *)
THEOREM TypeCorrect == Spec => []TypeOK
<1>1. Spec => []Typed
  BY TypeInit, TypeNext, PTL DEF Spec
<1> QED
  BY <1>1, PTL DEF Typed

(* Rows.  Only a sweep whose row has lost its wrapper may crash it.        *)
LEMMA RowsNext ==
  Typed /\ RowsInv /\ Unsaved /\ Looking /\ [Next]_vars => RowsInv'
<1> SUFFICES ASSUME Typed, RowsInv, Unsaved, Looking, [Next]_vars PROVE RowsInv'
    OBVIOUS
<1> USE DEF Typed, Chosen, TypeOK, Live, Final, Busy, Occupies,
           RowsInv, Unborn, Owned, Working, Unspawned
<1>1. ASSUME NEW p \in Pids, StrangerStarts(p) \/ StrangerExits(p)
      PROVE  RowsInv'
  BY <1>1, StoreAssumption DEF StrangerStarts, StrangerExits, GivePid, wrapperVars,
     rowVars, readerVars
<1>2. ASSUME NEW r \in Runs, ChildExits(r) \/ InitReaps(r)
      PROVE  RowsInv'
  BY <1>2, StoreAssumption DEF ChildExits, InitReaps, Without, wrapperVars, rowVars,
     readerVars
<1>3. ASSUME NEW w \in Wrappers, WrapperStep(w)
      PROVE  RowsInv'
  <2>1. ASSUME NEW p \in Pids, Start(w, p)
        PROVE  RowsInv'
    BY <2>1, StoreAssumption DEF Start, GivePid, rowVars, readerVars
  <2>2. ASSUME NEW p \in Pids, Spawn(w, p)
        PROVE  RowsInv'
    BY <2>2 DEF Spawn, GivePid, rowVars, readerVars
  <2>3. ASSUME NEW r \in Runs, CreateRun(w, r)
        PROVE  RowsInv'
    BY <2>3 DEF CreateRun, osVars, readerVars
  <2>4. ASSUME RecordPid(w)
        PROVE  RowsInv'
    BY <2>4 DEF RecordPid, Unsaved, osVars, readerVars
  <2>5. ASSUME NEW s \in Final \ {"crashed"}, Close(w, s)
        PROVE  RowsInv'
    BY <2>5 DEF Close, osVars, readerVars
  <2>6. ASSUME WrapperEnds(w)
        PROVE  RowsInv'
    BY <2>6, StoreAssumption DEF WrapperEnds, Without, rowVars, readerVars
  <2>7. ASSUME Reap(w)
        PROVE  RowsInv'
    BY <2>7, StoreAssumption DEF Reap, Without, rowVars, readerVars
  <2> QED
    BY <1>3, <2>1, <2>2, <2>3, <2>4, <2>5, <2>6, <2>7 DEF WrapperStep
<1>4. ASSUME NEW c \in Readers, ReaderStep(c)
      PROVE  RowsInv'
  <2>1. CASE List(c)
    BY <2>1 DEF List, osVars, wrapperVars, rowVars
  <2>2. CASE Pick(c)
    BY <2>2 DEF Pick, osVars, wrapperVars, rowVars
  <2>3. CASE SweepEnds(c)
    BY <2>3 DEF SweepEnds, osVars, wrapperVars, rowVars
  <2>4. CASE CheckWrapper(c)
    BY <2>4 DEF CheckWrapper, osVars, wrapperVars, rowVars
  <2>5. CASE CheckChild(c)
    BY <2>5 DEF CheckChild, osVars, wrapperVars, rowVars
  <2>6. CASE Finalize(c)
    BY <2>6 DEF Finalize, MayFinalize, Looking, osVars, wrapperVars
  <2> QED
    BY <1>4, <2>1, <2>2, <2>3, <2>4, <2>5, <2>6 DEF ReaderStep
<1>5. CASE UNCHANGED vars
  BY <1>5 DEF vars, osVars, wrapperVars, rowVars, readerVars
<1> QED
  BY <1>1, <1>2, <1>3, <1>4, <1>5 DEF Next, SystemStep

(* A step that gives no run a process, takes none from a living wrapper and *)
(* leaves the recorded PIDs alone (exits, strangers, Child::wait) keeps     *)
(* what is known about PIDs.                                               *)
LEMMA PidsKept ==
  ASSUME Chosen, PidsInv,
         \A q \in Pids, x \in Runs : proc'[q] = x => proc[q] = x,
         \A q \in Pids, v \in Wrappers : proc[q] = v => proc'[q] = v,
         \A v \in Wrappers : wpc'[v] \in Live => wpc[v] \in Live,
         \A v \in Wrappers : wpc[v] \in {"wait", "close"} => wpc'[v] \in {"wait", "close"},
         UNCHANGED <<pidOf, cur, unsaved, rpid>>
  PROVE  PidsInv'
<1>1. Held'
  BY DEF PidsInv, Held
<1>2. Unsaved'
  BY DEF PidsInv, Unsaved, Occupies, Chosen, Busy
<1>3. OnePid'
  BY DEF PidsInv, OnePid, Occupies
<1>4. Recorded'
  BY DEF PidsInv, Recorded, Occupies
<1> QED
  BY <1>1, <1>2, <1>3, <1>4 DEF PidsInv

(* PIDs.  A child has one, and once recorded it is the recorded one.       *)
LEMMA PidsNext ==
  Typed /\ RowsInv /\ PidsInv /\ [Next]_vars => PidsInv'
<1> SUFFICES ASSUME Typed, RowsInv, PidsInv, [Next]_vars PROVE PidsInv'
    OBVIOUS
<1> USE DEF Typed, Chosen, TypeOK, Live, Final, Busy, Occupies,
           RowsInv, Unborn, Owned, Working, Unspawned, PidsInv, Held, Unsaved,
           OnePid, Recorded
<1>1. ASSUME NEW p \in Pids, StrangerStarts(p) \/ StrangerExits(p)
      PROVE  PidsInv'
  <2>1. \A q \in Pids, x \in Runs : proc'[q] = x => proc[q] = x
    BY <1>1, StoreAssumption DEF StrangerStarts, StrangerExits, GivePid
  <2>2. \A q \in Pids, v \in Wrappers : proc[q] = v => proc'[q] = v
    BY <1>1, StoreAssumption DEF StrangerStarts, StrangerExits, GivePid
  <2>3. UNCHANGED <<wpc, pidOf, cur, unsaved, status, owner, rpid>>
    BY <1>1 DEF StrangerStarts, StrangerExits, GivePid, wrapperVars, rowVars, readerVars
  <2> HIDE DEF PidsInv, Chosen, Live
  <2>4. Chosen
    BY DEF Typed
  <2> QED
    BY <2>1, <2>2, <2>3, <2>4, PidsKept
<1>2. ASSUME NEW r \in Runs, ChildExits(r) \/ InitReaps(r)
      PROVE  PidsInv'
  <2>1. \A q \in Pids, x \in Runs : proc'[q] = x => proc[q] = x
    BY <1>2, StoreAssumption DEF ChildExits, InitReaps, Without
  <2>2. \A q \in Pids, v \in Wrappers : proc[q] = v => proc'[q] = v
    BY <1>2, StoreAssumption DEF ChildExits, InitReaps, Without
  <2>3. UNCHANGED <<wpc, pidOf, cur, unsaved, status, owner, rpid>>
    BY <1>2 DEF ChildExits, InitReaps, Without, wrapperVars, rowVars, readerVars
  <2> HIDE DEF PidsInv, Chosen, Live
  <2>4. Chosen
    BY DEF Typed
  <2> QED
    BY <2>1, <2>2, <2>3, <2>4, PidsKept
<1>3. ASSUME NEW w \in Wrappers, WrapperStep(w)
      PROVE  PidsInv'
  <2>1. ASSUME NEW p \in Pids, Start(w, p)
        PROVE  PidsInv'
    BY <2>1, StoreAssumption DEF Start, GivePid, rowVars, readerVars
  <2>2. ASSUME NEW p \in Pids, Spawn(w, p)
        PROVE  PidsInv'
    BY <2>2, StoreAssumption DEF Spawn, GivePid, rowVars, readerVars
  <2>3. ASSUME NEW r \in Runs, CreateRun(w, r)
        PROVE  PidsInv'
    BY <2>3 DEF CreateRun, osVars, readerVars
  <2>4. ASSUME RecordPid(w)
        PROVE  PidsInv'
    BY <2>4 DEF RecordPid, osVars, readerVars
  <2>5. ASSUME NEW s \in Final \ {"crashed"}, Close(w, s)
        PROVE  PidsInv'
    BY <2>5 DEF Close, osVars, readerVars
  <2>6. ASSUME WrapperEnds(w)
        PROVE  PidsInv'
    <3>1. \A q \in Pids, x \in Runs : proc'[q] = x => proc[q] = x
      BY <2>6, StoreAssumption DEF WrapperEnds, Without
    <3>2. \A q \in Pids, v \in Wrappers : proc[q] = v /\ v # w => proc'[q] = v
      BY <2>6, StoreAssumption DEF WrapperEnds, Without
    <3>3. /\ UNCHANGED <<pidOf, cur, status, owner, rpid>>
         /\ wpc' = [wpc EXCEPT ![w] = "gone"]
         /\ unsaved' = [unsaved EXCEPT ![w] = NoPid]
      BY <2>6 DEF WrapperEnds, Without, wrapperVars, rowVars, readerVars
    <3> QED
      BY <3>1, <3>2, <3>3
  <2>7. ASSUME Reap(w)
        PROVE  PidsInv'
    <3>1. \A q \in Pids, x \in Runs : proc'[q] = x => proc[q] = x
      BY <2>7, StoreAssumption DEF Reap, Without
    <3>2. \A q \in Pids, v \in Wrappers : proc[q] = v => proc'[q] = v
      BY <2>7, StoreAssumption DEF Reap, Without
    <3>3. /\ UNCHANGED <<pidOf, cur, unsaved, status, owner, rpid>>
         /\ wpc[w] = "wait" /\ wpc' = [wpc EXCEPT ![w] = "close"]
      BY <2>7 DEF Reap, Without, wrapperVars, rowVars, readerVars
    <3>4. \A v \in Wrappers : wpc'[v] \in Live => wpc[v] \in Live
      BY <3>3
    <3>5. \A v \in Wrappers : wpc[v] \in {"wait", "close"} => wpc'[v] \in {"wait", "close"}
      BY <3>3
    <3> HIDE DEF PidsInv, Chosen, Live
    <3>6. Chosen
      BY DEF Typed
    <3> QED
      BY <3>1, <3>2, <3>3, <3>4, <3>5, <3>6, PidsKept
  <2> QED
    BY <1>3, <2>1, <2>2, <2>3, <2>4, <2>5, <2>6, <2>7 DEF WrapperStep
<1>4. ASSUME NEW c \in Readers, ReaderStep(c)
      PROVE  PidsInv'
  <2>1. CASE List(c)
    BY <2>1 DEF List, osVars, wrapperVars, rowVars
  <2>2. CASE Pick(c)
    BY <2>2 DEF Pick, osVars, wrapperVars, rowVars
  <2>3. CASE SweepEnds(c)
    BY <2>3 DEF SweepEnds, osVars, wrapperVars, rowVars
  <2>4. CASE CheckWrapper(c)
    BY <2>4 DEF CheckWrapper, osVars, wrapperVars, rowVars
  <2>5. CASE CheckChild(c)
    BY <2>5 DEF CheckChild, osVars, wrapperVars, rowVars
  <2>6. CASE Finalize(c)
    BY <2>6 DEF Finalize, MayFinalize, osVars, wrapperVars
  <2> QED
    BY <1>4, <2>1, <2>2, <2>3, <2>4, <2>5, <2>6 DEF ReaderStep
<1>5. CASE UNCHANGED vars
  BY <1>5 DEF vars, osVars, wrapperVars, rowVars, readerVars
<1> QED
  BY <1>1, <1>2, <1>3, <1>4, <1>5 DEF Next, SystemStep

(* Readers.  A wrapper that does not show up under its PID is gone, since a *)
(* living one keeps its PID.                                               *)
LEMMA LookingNext ==
  Typed /\ RowsInv /\ PidsInv /\ Looking /\ [Next]_vars => Looking'
<1> SUFFICES ASSUME Typed, RowsInv, PidsInv, Looking, [Next]_vars PROVE Looking'
    OBVIOUS
<1> USE DEF Typed, Chosen, TypeOK, Live, Final, Busy, Occupies,
           RowsInv, Unborn, Owned, Working, Unspawned,
           PidsInv, Held, Unsaved, OnePid, Recorded, Looking, Row
<1>1. ASSUME NEW p \in Pids, StrangerStarts(p) \/ StrangerExits(p)
      PROVE  Looking'
  BY <1>1 DEF StrangerStarts, StrangerExits, GivePid, wrapperVars,
     rowVars, readerVars
<1>2. ASSUME NEW r \in Runs, ChildExits(r) \/ InitReaps(r)
      PROVE  Looking'
  BY <1>2 DEF ChildExits, InitReaps, Without, wrapperVars, rowVars,
     readerVars
<1>3. ASSUME NEW w \in Wrappers, WrapperStep(w)
      PROVE  Looking'
  <2>1. ASSUME NEW p \in Pids, Start(w, p)
        PROVE  Looking'
    BY <2>1 DEF Start, GivePid, rowVars, readerVars
  <2>2. ASSUME NEW p \in Pids, Spawn(w, p)
        PROVE  Looking'
    BY <2>2 DEF Spawn, GivePid, rowVars, readerVars
  <2>3. ASSUME NEW r \in Runs, CreateRun(w, r)
        PROVE  Looking'
    BY <2>3 DEF CreateRun, osVars, readerVars
  <2>4. ASSUME RecordPid(w)
        PROVE  Looking'
    BY <2>4 DEF RecordPid, osVars, readerVars
  <2>5. ASSUME NEW s \in Final \ {"crashed"}, Close(w, s)
        PROVE  Looking'
    BY <2>5 DEF Close, osVars, readerVars
  <2>6. ASSUME WrapperEnds(w)
        PROVE  Looking'
    BY <2>6 DEF WrapperEnds, Without, rowVars, readerVars
  <2>7. ASSUME Reap(w)
        PROVE  Looking'
    BY <2>7 DEF Reap, Without, rowVars, readerVars
  <2> QED
    BY <1>3, <2>1, <2>2, <2>3, <2>4, <2>5, <2>6, <2>7 DEF WrapperStep
<1>4. ASSUME NEW c \in Readers, ReaderStep(c)
      PROVE  Looking'
  <2>1. CASE List(c)
    BY <2>1 DEF List, osVars, wrapperVars, rowVars
  <2>2. CASE Pick(c)
    BY <2>2 DEF Pick, osVars, wrapperVars, rowVars
  <2>3. CASE SweepEnds(c)
    BY <2>3 DEF SweepEnds, osVars, wrapperVars, rowVars
  <2>4. CASE CheckWrapper(c)
    <3>1. rpc[c] = "wrapper" /\ rpc' \in {[rpc EXCEPT ![c] = "next"], [rpc EXCEPT ![c] = "child"]}
      BY <2>4 DEF CheckWrapper
    <3>2. ASSUME rpc'[c] = "child"
          PROVE  wpc[owner[at[c][1]]] = "gone"
      <4>1. ~IsWrapper(WrapperPid(at[c][1]))
        <5>1. DOMAIN rpc = Readers
          OBVIOUS
        <5> HIDE DEF Typed, TypeOK, RowsInv, PidsInv, Looking
        <5> QED
          BY <2>4, <3>2, <5>1 DEF CheckWrapper, Verdicts, Alive
      <4> QED
        BY <3>1, <4>1 DEF IsWrapper, WrapperPid
    <3>3. UNCHANGED <<wpc, owner, status, rpid, todo, at>>
      BY <2>4 DEF CheckWrapper, wrapperVars, rowVars
    <3> QED
      BY <3>1, <3>2, <3>3, SMTT(30)
  <2>5. CASE CheckChild(c)
    BY <2>5 DEF CheckChild, osVars, wrapperVars, rowVars
  <2>6. CASE Finalize(c)
    BY <2>6 DEF Finalize, MayFinalize, osVars, wrapperVars
  <2> QED
    BY <1>4, <2>1, <2>2, <2>3, <2>4, <2>5, <2>6 DEF ReaderStep
<1>5. CASE UNCHANGED vars
  BY <1>5 DEF vars, osVars, wrapperVars, rowVars, readerVars
<1> QED
  BY <1>1, <1>2, <1>3, <1>4, <1>5 DEF Next, SystemStep

(* CrashedOwnerGone (reconcile.rs:137-158) is preserved.                   *)
LEMMA CrashedNext ==
  Typed /\ RowsInv /\ Looking /\ CrashedOwnerGone /\ [Next]_vars => CrashedOwnerGone'
<1> SUFFICES ASSUME Typed, RowsInv, Looking, CrashedOwnerGone, [Next]_vars
             PROVE  CrashedOwnerGone'
    OBVIOUS
<1> USE DEF Typed, Chosen, TypeOK, Live, Final, Busy, Occupies,
           RowsInv, Unborn, Owned, Working, Unspawned, Looking, CrashedOwnerGone
<1>1. ASSUME NEW p \in Pids, StrangerStarts(p) \/ StrangerExits(p)
      PROVE  CrashedOwnerGone'
  BY <1>1 DEF StrangerStarts, StrangerExits, GivePid, wrapperVars,
     rowVars, readerVars
<1>2. ASSUME NEW r \in Runs, ChildExits(r) \/ InitReaps(r)
      PROVE  CrashedOwnerGone'
  BY <1>2 DEF ChildExits, InitReaps, Without, wrapperVars, rowVars,
     readerVars
<1>3. ASSUME NEW w \in Wrappers, WrapperStep(w)
      PROVE  CrashedOwnerGone'
  <2>1. ASSUME NEW p \in Pids, Start(w, p)
        PROVE  CrashedOwnerGone'
    BY <2>1 DEF Start, GivePid, rowVars, readerVars
  <2>2. ASSUME NEW p \in Pids, Spawn(w, p)
        PROVE  CrashedOwnerGone'
    BY <2>2 DEF Spawn, GivePid, rowVars, readerVars
  <2>3. ASSUME NEW r \in Runs, CreateRun(w, r)
        PROVE  CrashedOwnerGone'
    BY <2>3 DEF CreateRun, osVars, readerVars
  <2>4. ASSUME RecordPid(w)
        PROVE  CrashedOwnerGone'
    BY <2>4 DEF RecordPid, osVars, readerVars
  <2>5. ASSUME NEW s \in Final \ {"crashed"}, Close(w, s)
        PROVE  CrashedOwnerGone'
    BY <2>5 DEF Close, osVars, readerVars
  <2>6. ASSUME WrapperEnds(w)
        PROVE  CrashedOwnerGone'
    BY <2>6 DEF WrapperEnds, Without, rowVars, readerVars
  <2>7. ASSUME Reap(w)
        PROVE  CrashedOwnerGone'
    BY <2>7 DEF Reap, Without, rowVars, readerVars
  <2> QED
    BY <1>3, <2>1, <2>2, <2>3, <2>4, <2>5, <2>6, <2>7 DEF WrapperStep
<1>4. ASSUME NEW c \in Readers, ReaderStep(c)
      PROVE  CrashedOwnerGone'
  <2>1. CASE List(c)
    BY <2>1 DEF List, osVars, wrapperVars, rowVars
  <2>2. CASE Pick(c)
    BY <2>2 DEF Pick, osVars, wrapperVars, rowVars
  <2>3. CASE SweepEnds(c)
    BY <2>3 DEF SweepEnds, osVars, wrapperVars, rowVars
  <2>4. CASE CheckWrapper(c)
    BY <2>4 DEF CheckWrapper, osVars, wrapperVars, rowVars
  <2>5. CASE CheckChild(c)
    BY <2>5 DEF CheckChild, osVars, wrapperVars, rowVars
  <2>6. CASE Finalize(c)
    BY <2>6 DEF Finalize, MayFinalize, osVars, wrapperVars
  <2> QED
    BY <1>4, <2>1, <2>2, <2>3, <2>4, <2>5, <2>6 DEF ReaderStep
<1>5. CASE UNCHANGED vars
  BY <1>5 DEF vars, osVars, wrapperVars, rowVars, readerVars
<1> QED
  BY <1>1, <1>2, <1>3, <1>4, <1>5 DEF Next, SystemStep

(* VerdictSound (reconcile.rs:100-117) is preserved.                       *)
LEMMA VerdictNext ==
  Typed /\ RowsInv /\ PidsInv /\ Looking /\ VerdictSound /\ [Next]_vars => VerdictSound'
<1> SUFFICES ASSUME Typed, RowsInv, PidsInv, Looking, VerdictSound,
                    [Next]_vars
             PROVE  VerdictSound'
    OBVIOUS
<1> USE DEF Typed, Chosen, TypeOK, Live, Final, Busy, Occupies,
           RowsInv, Unborn, Owned, Working, Unspawned,
           PidsInv, Held, Unsaved, OnePid, Recorded, Looking, Row, VerdictSound, ChildLives
<1>1. ASSUME NEW p \in Pids, StrangerStarts(p) \/ StrangerExits(p)
      PROVE  VerdictSound'
  BY <1>1, StoreAssumption DEF StrangerStarts, StrangerExits, GivePid, wrapperVars,
     rowVars, readerVars
<1>2. ASSUME NEW r \in Runs, ChildExits(r) \/ InitReaps(r)
      PROVE  VerdictSound'
  BY <1>2, StoreAssumption DEF ChildExits, InitReaps, Without, wrapperVars, rowVars,
     readerVars
<1>3. ASSUME NEW w \in Wrappers, WrapperStep(w)
      PROVE  VerdictSound'
  <2>1. ASSUME NEW p \in Pids, Start(w, p)
        PROVE  VerdictSound'
    BY <2>1, StoreAssumption DEF Start, GivePid, rowVars, readerVars
  <2>2. ASSUME NEW p \in Pids, Spawn(w, p)
        PROVE  VerdictSound'
    BY <2>2 DEF Spawn, GivePid, rowVars, readerVars
  <2>3. ASSUME NEW r \in Runs, CreateRun(w, r)
        PROVE  VerdictSound'
    BY <2>3 DEF CreateRun, osVars, readerVars
  <2>4. ASSUME RecordPid(w)
        PROVE  VerdictSound'
    BY <2>4 DEF RecordPid, osVars, readerVars
  <2>5. ASSUME NEW s \in Final \ {"crashed"}, Close(w, s)
        PROVE  VerdictSound'
    BY <2>5 DEF Close, osVars, readerVars
  <2>6. ASSUME WrapperEnds(w)
        PROVE  VerdictSound'
    BY <2>6, StoreAssumption DEF WrapperEnds, Without, rowVars, readerVars
  <2>7. ASSUME Reap(w)
        PROVE  VerdictSound'
    BY <2>7, StoreAssumption DEF Reap, Without, rowVars, readerVars
  <2> QED
    BY <1>3, <2>1, <2>2, <2>3, <2>4, <2>5, <2>6, <2>7 DEF WrapperStep
<1>4. ASSUME NEW c \in Readers, ReaderStep(c)
      PROVE  VerdictSound'
  <2>1. CASE List(c)
    BY <2>1 DEF List, osVars, wrapperVars, rowVars
  <2>2. CASE Pick(c)
    BY <2>2 DEF Pick, osVars, wrapperVars, rowVars
  <2>3. CASE SweepEnds(c)
    BY <2>3 DEF SweepEnds, osVars, wrapperVars, rowVars
  <2>4. CASE CheckWrapper(c)
    BY <2>4 DEF CheckWrapper, osVars, wrapperVars, rowVars
  <2>5. CASE CheckChild(c)
    <3>1. ASSUME rpc'[c] = "dead", at[c][2] # NoPid, at[c][1] \in named
          PROVE  ~ChildLives(at[c][1])
      <4>1. PICK alive \in Verdicts(at[c][2], IsExecutable(at[c][2])) :
              rpc' = [rpc EXCEPT ![c] = IF alive THEN "next" ELSE "dead"]
        BY <2>5, <3>1 DEF CheckChild
      <4>2. ~alive
        BY <3>1, <4>1
      <4>3. ~IsExecutable(at[c][2])
        BY <4>1, <4>2, Zenon DEF Verdicts, Alive
      <4> QED
        BY <2>5, <3>1, <4>3 DEF CheckChild, IsExecutable
    <3>2. \A d \in Readers : d # c => rpc'[d] = rpc[d]
      BY <2>5 DEF CheckChild
    <3> QED
      BY <2>5, <3>1, <3>2 DEF CheckChild, osVars, wrapperVars, rowVars
  <2>6. CASE Finalize(c)
    BY <2>6 DEF Finalize, MayFinalize, osVars, wrapperVars
  <2> QED
    BY <1>4, <2>1, <2>2, <2>3, <2>4, <2>5, <2>6 DEF ReaderStep
<1>5. CASE UNCHANGED vars
  BY <1>5 DEF vars, osVars, wrapperVars, rowVars, readerVars
<1> QED
  BY <1>1, <1>2, <1>3, <1>4, <1>5 DEF Next, SystemStep

(* Inv holds of the empty table.                                           *)
LEMMA InvInit == Init => Inv /\ VerdictSound
  BY StoreAssumption
  DEF Init, Inv, RowsInv, Unborn, Owned, Working, Unspawned, PidsInv, Held,
      Unsaved, OnePid, Recorded, Looking, CrashedOwnerGone, VerdictSound, Occupies, Live,
      Busy

(* In every reachable state the rows, PIDs and readers' lists agree as far  *)
(* as Inv says (run.rs:155-477, reconcile.rs:134-158).                      *)
LEMMA Invariant == Spec => [](Typed /\ Inv)
<1>1. Typed /\ Inv /\ [Next]_vars => Typed' /\ Inv'
  BY TypeNext, RowsNext, PidsNext, LookingNext, CrashedNext
     DEF Inv, PidsInv
<1> QED
  BY <1>1, TypeInit, InvInit, PTL DEF Spec

(* A run is declared crashed only if its wrapper is gone, whatever the age  *)
(* of the reader's list and whoever has its PIDs now (reconcile.rs:137-158).*)
THEOREM NoFalseCrash == Spec => []CrashedOwnerGone
<1>1. Inv => CrashedOwnerGone
  BY DEF Inv
<1> QED
  BY <1>1, Invariant, PTL

(* A run found dead is dead: its wrapper, and its child if the list showed  *)
(* its PID and it goes by the recorded name (reconcile.rs:100-117).         *)
THEOREM FoundDeadIsDead == Spec => []VerdictSound
<1>1. Typed /\ Inv /\ VerdictSound /\ [Next]_vars => VerdictSound'
  BY VerdictNext DEF Inv
<1>2. Init => VerdictSound
  BY InvInit
<1> QED
  BY <1>1, <1>2, Invariant, PTL DEF Spec

(* The runs table implements RunLifecycle: the wrapper's unconditional      *)
(* update and the sweep's conditional one never overwrite a final status    *)
(* (db.rs:124-184).                                                         *)
THEOREM Refinement == Spec => RowsSettle
<1>1. Init => Lifecycle!Init
  BY DEF Init, Lifecycle!Init
<1>2. ASSUME Typed, Inv, [Next]_vars
      PROVE  [Lifecycle!Next]_status
  <2> USE DEF Typed, TypeOK, Final, Lifecycle!Final, Lifecycle!Next
  <2>1. ASSUME NEW w \in Wrappers, NEW r \in Runs, CreateRun(w, r)
        PROVE  Lifecycle!Insert(r)
    BY <2>1 DEF CreateRun, Lifecycle!Insert
  <2>2. ASSUME NEW w \in Wrappers, NEW s \in Final \ {"crashed"}, Close(w, s)
        PROVE  cur[w] \in Runs /\ Lifecycle!Settle(cur[w], s)
    BY <1>2, <2>2 DEF Close, Inv, RowsInv, Working, Busy, Lifecycle!Settle
  <2>3. ASSUME NEW c \in Readers, Finalize(c)
        PROVE  \/ UNCHANGED status
               \/ at[c][1] \in Runs /\ Lifecycle!Settle(at[c][1], "crashed")
    BY <1>2, <2>3 DEF Finalize, MayFinalize, Inv, Looking, Lifecycle!Settle
  <2>4. ASSUME NEW w \in Wrappers, NEW p \in Pids,
               \/ Start(w, p) \/ Spawn(w, p) \/ RecordPid(w)
               \/ Reap(w) \/ WrapperEnds(w)
        PROVE  UNCHANGED status
    BY <2>4 DEF Start, Spawn, RecordPid, Reap, WrapperEnds, rowVars
  <2>5. ASSUME NEW w \in Wrappers, WrapperStep(w)
        PROVE  [Lifecycle!Next]_status
    BY <2>1, <2>2, <2>4, <2>5 DEF WrapperStep, RecordPid, Reap, WrapperEnds, rowVars
  <2>6. ASSUME NEW c \in Readers, ReaderStep(c)
        PROVE  [Lifecycle!Next]_status
    BY <2>3, <2>6 DEF ReaderStep, List, Pick, SweepEnds, CheckWrapper, CheckChild,
       rowVars
  <2>7. ASSUME SystemStep
        PROVE  UNCHANGED status
    BY <2>7 DEF SystemStep, StrangerStarts, StrangerExits, ChildExits, InitReaps,
       rowVars
  <2>8. CASE UNCHANGED vars
    BY <2>8 DEF vars, rowVars
  <2> QED
    BY <1>2, <2>5, <2>6, <2>7, <2>8 DEF Next
<1> QED
  BY <1>1, <1>2, Invariant, PTL DEF Spec, RowsSettle, Lifecycle!Spec
=============================================================================
