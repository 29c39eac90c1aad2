-------------------------------- MODULE Logs --------------------------------
(***************************************************************************)
(* The way of a log frame: capture task, channel and LogWriter of a run    *)
(* (process/capture.rs, storage/logfile.rs, cli/run.rs), the readers that  *)
(* merge the stream files (storage/logfile.rs), and those that read while   *)
(* they are written: `logs --follow` (cli/logs.rs), wait_for_pattern        *)
(* (mcp/tools.rs).                                                          *)
(*                                                                         *)
(* A frame is its timestamp and its stream.  In its file it takes three     *)
(* units, two of header and one of payload, so that a reader may find it    *)
(* half written; the writer's files are unbuffered.  The stderr slot serves *)
(* in turn the loop's notice, the capture task and the loop's exit message. *)
(*                                                                         *)
(* Times are those of a wall clock that is taken not to step back, and to   *)
(* advance between two reads of one stream; the readers need sorted files   *)
(* (logfile.rs:441).  Frames of different streams may have the same time.   *)
(***************************************************************************)
EXTENDS Integers, SequencesExt

CONSTANTS
  Files,      \* the stream files in the order readers open them
  NRuns,      \* bound on the runs of the service
  Room,       \* capacity of a run's channel (1024 in the code)
  MaxClock,   \* bound on the clock, hence on the frames of a stream
  Writes,     \* the streams the command of each run may write to
  Hits,       \* the timestamps of frames that match a wanted pattern
  TailN,      \* how many frames a follower shows first
  Jobs,       \* what the reader does: "follow", "wait"
  Views,      \* the sequences of files it may read
  Overlap,    \* may two wrappers run the service at once?
  Torn,       \* may a reader see part of a write?
  Faults      \* what may happen: a writer fails, a wrapper is killed

Runs    == 1 .. NRuns
Streams == Range(Files)
AnyView == {Files} \union {<<s>> : s \in Streams}     \* all streams, or one

ASSUME LogsAssumption ==
  /\ NRuns \in Nat \ {0} /\ Room \in Nat \ {0} /\ MaxClock \in Nat /\ TailN \in Nat
  /\ Jobs \subseteq {"follow", "wait"}
  /\ Files \in Seq(Streams) /\ IsInjective(Files)
  /\ Views \subseteq AnyView /\ Writes \in [Runs -> SUBSET Streams]
  /\ Overlap \in BOOLEAN /\ Torn \in BOOLEAN /\ Faults \subseteq {"writer", "kill"}

VARIABLES
  clock,      \* now_ns
  phase,      \* each run: absent, open, flush (output at its end), closed,
              \* dead (killed, its row still running), crashed
  cap,        \* the frame each capture task is about to send
  captured,   \* history: all frames stamped
  chan,       \* each run's channel
  wr, hand,   \* its LogWriter (run, done, failed) and the frame it has taken
  file, torn, \* its stream files, and the units of an unfinished frame
  job, view,  \* the reader: what it does, on which files
  at, cur,    \* where it is, in which run
  todo, got,  \* the next file to open, and what it read of the others
  since, off, \* its cursors: a timestamp, an offset in units
  first,      \* the cursor it began at
  shown, next \* what it has shown of this run, and the run it found

writeVars == <<clock, phase, cap, captured, chan, wr, hand, file, torn>>
readVars  == <<job, view, at, cur, todo, got, since, off, first, shown, next>>
vars == <<writeVars, readVars>>

Frame   == [ts : 1 .. MaxClock, s : Streams]
Nothing == [s \in Streams |-> <<>>]
Running == {r \in Runs : phase[r] \in {"open", "flush", "dead"}}  \* by its row
Started == {r \in Runs : phase[r] # "absent"}
Over    == {"closed", "dead", "crashed"}

Init ==
  /\ clock = 0 /\ phase = [r \in Runs |-> "absent"]
  /\ cap = [r \in Runs |-> Nothing] /\ captured = [r \in Runs |-> Nothing]
  /\ chan = [r \in Runs |-> <<>>] /\ hand = [r \in Runs |-> <<>>]
  /\ wr = [r \in Runs |-> "run"] /\ file = [r \in Runs |-> Nothing]
  /\ torn = [r \in Runs |-> [s \in Streams |-> 0]]
  /\ job \in Jobs /\ view \in Views /\ at = "start" /\ cur = 0
  /\ todo = 1 /\ got = Nothing /\ since = 0 /\ off = 0 /\ first = 0
  /\ shown = <<>> /\ next = 0

-----------------------------------------------------------------------------
(* Readers: what they make of the contents F of the files.                 *)

During(fs, T) ==        \* the frames of the times T, in the order they have
  LET kept[i \in 0 .. Len(fs)] ==
        IF i = 0 THEN <<>>
        ELSE IF fs[i].ts \in T THEN Append(kept[i - 1], fs[i]) ELSE kept[i - 1]
  IN  kept[Len(fs)]
UpTo(fs, end)    == SelectInSeq(fs, LAMBDA f : f.ts > end)
Until(fs, end)   == IF UpTo(fs, end) = 0 THEN fs ELSE SubSeq(fs, 1, UpTo(fs, end) - 1)
From(fs, start)  == During(fs, start .. MaxClock)
FirstN(fs, n)    == SubSeq(fs, 1, IF n < Len(fs) THEN n ELSE Len(fs))
LastN(fs, n)     == SubSeq(fs, IF n < Len(fs) THEN Len(fs) - n + 1 ELSE 1, Len(fs))

(* Sorting is stable and the files come in the order of Files: a frame has  *)
(* its place by how many come before it.                                    *)
Place(s)     == CHOOSE i \in DOMAIN Files : Files[i] = s
Before(f, g) == f.ts < g.ts \/ (f.ts = g.ts /\ Place(f.s) < Place(g.s))
Frames(F)    == UNION {Range(F[s]) : s \in Streams}
Rank(f, fs)  == Cardinality({g \in fs : Before(g, f)}) + 1
Sorted(F) ==
  [i \in 1 .. Cardinality(Frames(F)) |-> CHOOSE f \in Frames(F) : Rank(f, Frames(F)) = i]
Total(F)  == Len(Sorted(F))

(* The three-way merge: the first of the earliest next frames, n times.     *)
Latter(left) ==                                 \* mutant: of a tie, the last file
  CHOOSE s \in Streams : left[s] # <<>> /\
    LET First(t) == Head(left[t]).ts
    IN  \A t \in Streams \ {s} : left[t] = <<>> \/ First(s) < First(t)
                                   \/ (First(s) = First(t) /\ Place(t) < Place(s))
Earliest(left) ==
  CHOOSE s \in Streams : left[s] # <<>> /\
    \A t \in Streams \ {s} : left[t] = <<>> \/ Before(Head(left[s]), Head(left[t]))
MergeStep(m) ==
  IF \A s \in Streams : m.left[s] = <<>> THEN m
  ELSE LET s == Earliest(m.left)
       IN  [left |-> [m.left EXCEPT ![s] = Tail(@)],
            out  |-> Append(m.out, Head(m.left[s]))]
Merge(F, n) ==
  LET m[i \in 0 .. n] ==
        IF i = 0 THEN [left |-> F, out |-> <<>>] ELSE MergeStep(m[i - 1])
  IN  m[n].out

(* read_head, read_tail, read_range and search, for all files or for one.   *)
ReadAll(F, v)      == IF v = Files THEN Sorted(F) ELSE F[v[1]]
ReadHead(F, v, n)  == IF v = Files THEN Merge(F, n) ELSE FirstN(F[v[1]], n)
ReadTail(F, v, n)  == LastN(ReadAll(F, v), n)
ReadRange(F, v, start, end) ==
  From(Until(IF v = Files THEN Merge(F, Total(F)) ELSE F[v[1]], end), start)
Search(F, v, n) ==
  FirstN(During(ReadAll(F, v), Hits), n)

(* get_logs with `since`, and search_logs over runs, the latest first: what *)
(* is left of the limit goes to the next run, times are filtered after.     *)
GetLogs(F, v, mode, from, n, start, end) ==
  CASE mode = "head" -> FirstN(ReadRange(F, v, from, MaxClock), n)
    [] mode = "tail" -> LastN(ReadRange(F, v, from, MaxClock), n)
    [] mode = "range" -> ReadRange(F, v, IF from > start THEN from ELSE start, end)
SearchFully(v, n, start, end, found, r) ==      \* mutant: the limit anew
  found \o During(Search(file[r], v, n), start .. end)
SearchRun(v, n, start, end, found, r) ==
  found \o During(Search(file[r], v, n - Len(found)), start .. end)
SearchLogs(v, n, start, end) ==
  LET found[i \in 0 .. NRuns] ==
        IF i = 0 THEN <<>>
        ELSE SearchRun(v, n, start, end, found[i - 1], NRuns + 1 - i)
  IN  found[NRuns]

-----------------------------------------------------------------------------
(* A run: capture tasks, writer, and the loop that waits for them.          *)

StartRun(r) ==
  /\ phase[r] = "absent"
  /\ \A q \in 1 .. r - 1 : phase[q] \in Over \/ (Overlap /\ phase[q] # "absent")
  /\ phase' = [phase EXCEPT ![r] = "open"]
  /\ UNCHANGED <<clock, cap, captured, chan, wr, hand, file, torn, readVars>>

(* The timestamp is taken before the send, which may wait.                  *)
Stamp(r, s) ==
  /\ phase[r] = "open" /\ s \in Writes[r] /\ cap[r][s] = <<>>
  /\ clock' \in {clock, clock + 1} \intersect 1 .. MaxClock
  /\ \A f \in Range(captured[r][s]) : f.ts < clock'
  /\ cap' = [cap EXCEPT ![r][s] = <<[ts |-> clock', s |-> s]>>]
  /\ captured' = [captured EXCEPT ![r][s] = @ \o cap'[r][s]]
  /\ UNCHANGED <<phase, chan, wr, hand, file, torn, readVars>>

Send(r, s) ==
  /\ phase[r] = "open" /\ cap[r][s] # <<>>
  /\ \/ wr[r] = "run" /\ Len(chan[r]) < Room
        /\ chan' = [chan EXCEPT ![r] = @ \o cap[r][s]]
     \/ wr[r] = "failed" /\ UNCHANGED chan       \* the receiver is gone
  /\ cap' = [cap EXCEPT ![r][s] = <<>>]
  /\ UNCHANGED <<clock, phase, captured, wr, hand, file, torn, readVars>>

(* The capture tasks are joined, and the last sender is dropped.            *)
AllSent(r) == \A s \in Streams : cap[r][s] = <<>>
EndCapture(r) ==
  /\ phase[r] = "open" /\ AllSent(r)
  /\ phase' = [phase EXCEPT ![r] = "flush"]
  /\ UNCHANGED <<clock, cap, captured, chan, wr, hand, file, torn, readVars>>

Recv(r) ==
  /\ phase[r] \in {"open", "flush"} /\ wr[r] = "run"
  /\ hand[r] = <<>> /\ chan[r] # <<>>
  /\ hand' = [hand EXCEPT ![r] = <<Head(chan[r])>>]
  /\ chan' = [chan EXCEPT ![r] = Tail(@)]
  /\ UNCHANGED <<clock, phase, cap, captured, wr, file, torn, readVars>>

WritePart(r) ==
  /\ Torn /\ phase[r] \in {"open", "flush"} /\ hand[r] # <<>>
  /\ \E n \in torn[r][hand[r][1].s] + 1 .. 2 :
       torn' = [torn EXCEPT ![r][hand[r][1].s] = n]
  /\ UNCHANGED <<clock, phase, cap, captured, chan, wr, hand, file, readVars>>

Write(r) ==
  /\ phase[r] \in {"open", "flush"} /\ hand[r] # <<>>
  /\ LET s == hand[r][1].s
     IN  /\ file' = [file EXCEPT ![r][s] = @ \o hand[r]]
         /\ torn' = [torn EXCEPT ![r][s] = 0]
  /\ hand' = [hand EXCEPT ![r] = <<>>]
  /\ UNCHANGED <<clock, phase, cap, captured, chan, wr, readVars>>

SendersGone(r) == phase[r] = "flush" /\ hand[r] = <<>>   \* mutant: frames left
TxKept(r) == FALSE                              \* mutant: a sender is kept
ChannelDry(r) == phase[r] = "flush" /\ hand[r] = <<>> /\ chan[r] = <<>>
WriterDone(r) ==
  /\ wr[r] = "run" /\ ChannelDry(r) /\ wr' = [wr EXCEPT ![r] = "done"]
  /\ UNCHANGED <<clock, phase, cap, captured, chan, hand, file, torn, readVars>>

(* log_handle.await, then update_run_status.                                *)
Close(r) ==
  /\ phase[r] = "flush" /\ wr[r] # "run" /\ phase' = [phase EXCEPT ![r] = "closed"]
  /\ UNCHANGED <<clock, cap, captured, chan, wr, hand, file, torn, readVars>>

WriterFails(r) ==
  /\ "writer" \in Faults /\ phase[r] \in {"open", "flush"} /\ wr[r] = "run"
  /\ wr' = [wr EXCEPT ![r] = "failed"]
  /\ chan' = [chan EXCEPT ![r] = <<>>] /\ hand' = [hand EXCEPT ![r] = <<>>]
  /\ UNCHANGED <<clock, phase, cap, captured, file, torn, readVars>>

Kill(r) ==
  /\ "kill" \in Faults /\ phase[r] \in {"open", "flush"} /\ phase' = [phase EXCEPT ![r] = "dead"]
  /\ chan' = [chan EXCEPT ![r] = <<>>] /\ hand' = [hand EXCEPT ![r] = <<>>]
  /\ cap' = [cap EXCEPT ![r] = Nothing]
  /\ UNCHANGED <<clock, captured, wr, file, torn, readVars>>

Sweep(r) ==
  /\ phase[r] = "dead" /\ phase' = [phase EXCEPT ![r] = "crashed"]
  /\ UNCHANGED <<clock, cap, captured, chan, wr, hand, file, torn, readVars>>

Pipeline(r) == (\E s \in Streams : Send(r, s)) \/ Recv(r) \/ Write(r)
                 \/ WriterDone(r) \/ Close(r)

-----------------------------------------------------------------------------
(* The reader.  It opens the files of its view one after the other.         *)

Latest == LET rs == IF Running # {} THEN Running ELSE Started
          IN  CHOOSE r \in rs : \A q \in rs : q <= r
Size(r, s)   == 3 * Len(file[r][s]) + torn[r][s]
ByOffset     == job = "follow" /\ view # Files
NowTs(fs)    == clock                          \* mutants: the time of the look,
NextTs(fs)   == IF fs = <<>> THEN 0 ELSE fs[Len(fs)].ts + 1    \* one too many
LastTs(fs)   == IF fs = <<>> THEN 0 ELSE fs[Len(fs)].ts
Goto(from, to) == at = from /\ at' = to /\ todo' = 1 /\ got' = Nothing
ReadDone     == todo > Len(view)

(* Resolving the id needs a run; a wait begins at the present.              *)
Start ==
  /\ at = "start" /\ Started # {} /\ cur' = Latest
  /\ Goto("start", IF job = "wait" THEN "poll" ELSE "tail")
  /\ since' = (IF job = "wait" THEN clock ELSE 0) /\ first' = since'
  /\ UNCHANGED <<writeVars, job, view, off, shown, next>>

ReadFile ==
  /\ at \in {"tail", "poll", "drain"} /\ ~ReadDone
  /\ ~(ByOffset /\ at # "tail") /\ todo' = todo + 1
  /\ got' = [got EXCEPT ![view[todo]] = file[cur][view[todo]]]
  /\ UNCHANGED <<writeVars, job, view, at, cur, since, off, first, shown, next>>

SkipOne(fs, o)    == SubSeq(fs, o \div 3 + 2, Len(fs))     \* mutant: off by one
FromOffset(fs, o) == SubSeq(fs, o \div 3 + 1, Len(fs))

(* read_frames_from_offset ends at the end of the file, in the middle of a  *)
(* frame if that is what is there; from a middle it reads no frame.         *)
ReadOffset ==
  /\ at \in {"poll", "drain"} /\ ~ReadDone /\ ByOffset /\ todo' = 2
  /\ LET s == view[1]
     IN  IF Size(cur, s) > off
           THEN IF off % 3 = 0
                  THEN /\ got' = [got EXCEPT ![s] = FromOffset(file[cur][s], off)]
                       /\ off' = Size(cur, s)
                  ELSE off' \in off + 1 .. Size(cur, s) /\ UNCHANGED got
           ELSE UNCHANGED <<got, off>>
  /\ UNCHANGED <<writeVars, job, view, at, cur, since, first, shown, next>>

ShowTail ==
  /\ ReadDone /\ Goto("tail", "size")
  /\ shown' = ReadTail(got, view, TailN) /\ since' = LastTs(shown')
  /\ UNCHANGED <<writeVars, job, view, cur, off, first, next>>

TakeSize ==
  /\ Goto("size", "poll")
  /\ off' = (IF ByOffset THEN Size(cur, view[1]) ELSE 0)
  /\ first' = IF ByOffset THEN off' ELSE since
  /\ UNCHANGED <<writeVars, job, view, cur, since, shown, next>>

(* read_new_frames, and the same range in wait_for_pattern.                 *)
AtSeen    == since                              \* mutant: shows it again
AfterSeen == since + 1
NewFrames == IF ByOffset THEN got[view[1]]
             ELSE ReadRange(got, view, AfterSeen, MaxClock)
Show ==
  /\ ReadDone /\ shown' = shown \o NewFrames
  /\ since' = IF NewFrames = <<>> \/ ByOffset THEN since ELSE LastTs(NewFrames)
  /\ UNCHANGED <<writeVars, job, view, cur, off, first, next>>

ShowPoll ==
  /\ Goto("poll", IF job = "follow" THEN "query"
                  ELSE IF \E i \in DOMAIN NewFrames : NewFrames[i].ts \in Hits
                    THEN "matched" ELSE "timer")
  /\ Show

PollAgain == Goto("timer", "poll")
               /\ UNCHANGED <<writeVars, job, view, cur, since, off, first, shown, next>>
TimeOut   == Goto("timer", "timedout")
               /\ UNCHANGED <<writeVars, job, view, cur, since, off, first, shown, next>>

Query ==
  /\ Goto("query", IF Latest = cur THEN "poll" ELSE "drain") /\ next' = Latest
  /\ UNCHANGED <<writeVars, job, view, cur, since, off, first, shown>>

SwitchAtOnce ==                                 \* mutant: no drain
  /\ Goto("drain", "switch")
  /\ UNCHANGED <<writeVars, job, view, cur, since, off, first, shown, next>>
Drain == Goto("drain", "switch") /\ Show

SwitchKeepsOffset ==                            \* mutant: the old run's offset
  /\ Goto("switch", "poll") /\ cur' = next
  /\ since' = 0 /\ first' = 0 /\ shown' = <<>>
  /\ UNCHANGED <<writeVars, job, view, off, next>>
Switch ==
  /\ Goto("switch", "poll") /\ cur' = next
  /\ since' = 0 /\ off' = 0 /\ first' = 0 /\ shown' = <<>>
  /\ UNCHANGED <<writeVars, job, view, next>>

Reading == Start \/ ReadFile \/ ReadOffset \/ ShowTail \/ TakeSize \/ ShowPoll
             \/ PollAgain \/ TimeOut \/ Query \/ Drain \/ Switch

-----------------------------------------------------------------------------
Next ==
  \/ \E r \in Runs :
       \/ StartRun(r) \/ EndCapture(r) \/ Pipeline(r) \/ WritePart(r)
       \/ WriterFails(r) \/ Kill(r) \/ Sweep(r)
       \/ \E s \in Streams : Stamp(r, s)
  \/ Reading

Spec == Init /\ [][Next]_vars

(* The runtime runs its tasks, and time passes for a wait.                  *)
Fairness ==
  /\ \A r \in Runs : WF_vars(Pipeline(r))
  /\ WF_vars(Reading) /\ SF_vars(TimeOut)

FairSpec == Spec /\ Fairness
-----------------------------------------------------------------------------
TypeOK ==
  /\ clock \in 0 .. MaxClock /\ phase \in [Runs -> {"absent", "open", "flush"} \union Over]
  /\ cap \in [Runs -> [Streams -> Seq(Frame)]] /\ captured \in [Runs -> [Streams -> Seq(Frame)]]
  /\ chan \in [Runs -> Seq(Frame)] /\ hand \in [Runs -> Seq(Frame)]
  /\ wr \in [Runs -> {"run", "done", "failed"}] /\ file \in [Runs -> [Streams -> Seq(Frame)]]
  /\ torn \in [Runs -> [Streams -> 0 .. 2]]
  /\ job \in Jobs /\ view \in Views /\ cur \in {0} \union Runs /\ next \in {0} \union Runs
  /\ at \in {"start", "tail", "size", "poll", "query", "drain", "switch", "timer",
             "matched", "timedout"}
  /\ todo \in Nat /\ got \in [Streams -> Seq(Frame)] /\ shown \in Seq(Frame)
  /\ since \in 0 .. MaxClock /\ off \in Nat /\ first \in Nat

(* A stream's file holds what was captured of it, in that order and without *)
(* a gap (logfile.rs:441 relies on it being sorted), and once the run is    *)
(* recorded as ended all of it, unless the writer failed.                   *)
Stored ==
  \A r \in Runs : \A s \in Streams :
    /\ IsPrefix(file[r][s], captured[r][s])
    /\ phase[r] = "closed" /\ wr[r] = "done" => file[r][s] = captured[r][s]

(* The early-terminating merge, the heads, tails, ranges and searches all   *)
(* read the same history: whatever the files hold, they are parts of what   *)
(* sorting everything gives.                                                *)
ReadersAgree ==
  at = "start" => \A r \in Runs : \A v \in AnyView :
    LET all == ReadAll(file[r], v)
        in(a, b) == During(all, a .. b)
    IN  /\ \A n \in 0 .. 2 : ReadHead(file[r], v, n) = FirstN(all, n)
        /\ \A a, b \in 0 .. MaxClock :
             /\ ReadRange(file[r], v, a, b) = in(a, b)
             /\ GetLogs(file[r], v, "tail", a, 1, 0, 0) = LastN(in(a, MaxClock), 1)
             /\ GetLogs(file[r], v, "range", a, 1, b, MaxClock) = in(IF a > b THEN a ELSE b, MaxClock)

(* A search never gives a match outside its window nor more than asked for; *)
(* without a window it gives the first matches, the latest run first.       *)
SearchSound ==
  at = "start" => \A v \in AnyView : \A n \in 1 .. 2 : \A a, b \in 0 .. MaxClock :
    LET found == SearchLogs(v, n, a, b)
        hits[i \in 0 .. NRuns] ==
          IF i = 0 THEN <<>>
          ELSE hits[i - 1] \o During(ReadAll(file[NRuns + 1 - i], v), Hits)
    IN  /\ \A i \in DOMAIN found : i <= n /\ found[i].ts \in Hits /\ found[i].ts \in a .. b
        /\ a = 0 /\ b = MaxClock => found = FirstN(hits[NRuns], n)

(* Whatever a follower or a wait reads while files grow, it takes each      *)
(* frame of a run once and in the order of time.                            *)
ShownInOrder == \A i \in 1 .. Len(shown) - 1 : Before(shown[i], shown[i + 1])

(* A follower of one stream leaves out nothing between the offset it began  *)
(* at and the one it has reached.                                           *)
NoGap ==
  ByOffset /\ cur # 0 /\ at \notin {"tail", "size"} /\ todo = 1 =>
    LET n == (off - first) \div 3
    IN  LastN(shown, n) = SubSeq(file[cur][view[1]], first \div 3 + 1, off \div 3)

(* It turns to the next run only with the last frame of the old one shown   *)
(* (logs.rs:141 drains it after the new run has been seen).                 *)
SwitchDrains ==
  ByOffset /\ at = "switch" /\ phase[cur] \in Over => off = Size(cur, view[1])

(* A wait on one stream that goes on, or has timed out, has passed over no  *)
(* match: those captured since it began are ahead of its cursor.            *)
WaitComplete ==
  job = "wait" /\ view # Files /\ at \in {"timer", "timedout"} =>
    \A i \in DOMAIN file[cur][view[1]] :
      LET t == file[cur][view[1]][i].ts IN t \in Hits /\ t > first => t > since

(* A poll shows the frames that have appeared since the last one            *)
(* (logs.rs:72): none that is in its file stays behind the cursor unseen.   *)
NoneBehind ==
  view = Files /\ at \in {"query", "timer"} =>
    \A s \in Streams : \A i \in DOMAIN file[cur][s] :
      file[cur][s][i].ts \in first + 1 .. since => \E j \in DOMAIN shown : shown[j] = file[cur][s][i]

(* Every run whose output has ended gets closed, however slow or broken its *)
(* writer, and a follower of one stream ends up with all of the latest run  *)
(* shown; a wait always answers.                                            *)
RunsClose == \A r \in Runs : phase[r] = "flush" ~> phase[r] \in Over
CatchesUp ==
  <>[](IF job = "wait" THEN at \in {"start", "matched", "timedout"}
       ELSE Started # {} => cur = Latest /\ (ByOffset => off = Size(cur, view[1])))
=============================================================================
