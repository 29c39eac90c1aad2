------------------------------ MODULE LogsProofs ------------------------------
(* Theorems about Logs. *)
EXTENDS ReadersProofs

-----------------------------------------------------------------------------
(* The pipeline of one run: C what was captured, K what the tasks are about *)
(* to send, Q what is on its way, F the files.                              *)
Climbs(fs) == \A i, j \in 1 .. Len(fs) : i < j => fs[i].ts < fs[j].ts
Timed(C, now) ==
  \A s \in Streams :
    Climbs(C[s]) /\ \A i \in 1 .. Len(C[s]) : C[s][i].s = s /\ C[s][i].ts <= now

Begins(fs, gs) == Len(fs) <= Len(gs) /\ \A i \in 1 .. Len(fs) : fs[i] = gs[i]
AllBegin(F, C) == \A s \in Streams : Begins(F[s], C[s])

Waiting(F, C, s) == Len(F[s]) + 1 .. Len(C[s])
Known(F, C, Q) ==
  \A i \in 1 .. Len(Q) : \E k \in Waiting(F, C, Q[i].s) : Q[i] = C[Q[i].s][k]
InTurn(Q) == \A i, j \in 1 .. Len(Q) : i < j /\ Q[i].s = Q[j].s => Q[i].ts < Q[j].ts
Holds(F, C, Q, K) ==
  \A s \in Streams : K[s] # <<>> =>
    /\ Len(K[s]) = 1 /\ Len(C[s]) \in Waiting(F, C, s) /\ K[s][1] = C[s][Len(C[s])]
    /\ \A i \in 1 .. Len(Q) : Q[i].s = s => Q[i].ts < K[s][1].ts
NoneLost(F, C, Q, K) ==
  \A s \in Streams : \A k \in Waiting(F, C, s) :
    \/ \E i \in 1 .. Len(Q) : Q[i] = C[s][k]
    \/ K[s] # <<>> /\ k = Len(C[s])
Pipe(F, C, Q, K) == Known(F, C, Q) /\ InTurn(Q) /\ Holds(F, C, Q, K) /\ NoneLost(F, C, Q, K)

-----------------------------------------------------------------------------
LEMMA KnownViews == Views \subseteq AnyView
BY LogsAssumption

(* The order of frames is that of time within a stream.                    *)
LEMMA ClimbsIs ==
  ASSUME NEW fs \in Seq(Frame), NEW s, \A i \in 1 .. Len(fs) : fs[i].s = s
  PROVE  Climbs(fs) <=> Rising(fs)
<1>1. \A i, j \in 1 .. Len(fs) : fs[i] \in Frame /\ fs[j] \in Frame /\ fs[i].s = fs[j].s
  OBVIOUS
<1>2. \A i, j \in 1 .. Len(fs) : Before(fs[i], fs[j]) <=> fs[i].ts < fs[j].ts
  BY <1>1, BeforeIs
<1> QED
  BY <1>2 DEF Climbs, Rising

LEMMA TimedOrdered ==
  ASSUME NEW F \in Contents, NEW now, Timed(F, now)
  PROVE  Ordered(F)
<1>1. \A s \in Streams : F[s] \in Seq(Frame)
  BY DEF Contents
<1>2. \A s \in Streams : Climbs(F[s]) /\ \A i \in 1 .. Len(F[s]) : F[s][i].s = s
  BY DEF Timed
<1>3. \A s \in Streams : Rising(F[s])
  BY <1>1, <1>2, ClimbsIs
<1> QED
  BY <1>2, <1>3 DEF Ordered

LEMMA OrderedClimbs ==
  ASSUME NEW F \in Contents, Ordered(F), NEW s \in Streams
  PROVE  F[s] \in Seq(Frame) /\ Climbs(F[s])
<1>1. F[s] \in Seq(Frame) /\ Rising(F[s]) /\ \A i \in 1 .. Len(F[s]) : F[s][i].s = s
  BY DEF Contents, Ordered
<1> QED
  BY <1>1, ClimbsIs

-----------------------------------------------------------------------------
(* The steps of the pipeline. *)
LEMMA TimedStamp ==
  ASSUME NEW C \in Contents, NEW now \in Nat, Timed(C, now), NEW s \in Streams,
         NEW f \in Frame, now <= f.ts, f.s = s, \A i \in 1 .. Len(C[s]) : C[s][i].ts < f.ts
  PROVE  Timed([C EXCEPT ![s] = Append(@, f)], f.ts)
<1> DEFINE D == [C EXCEPT ![s] = Append(@, f)]
<1>1. \A t \in Streams : C[t] \in Seq(Frame)
  BY DEF Contents
<1>2. /\ D[s] = Append(C[s], f) /\ Len(D[s]) = Len(C[s]) + 1 /\ Len(C[s]) \in Nat
      /\ \A i \in 1 .. Len(C[s]) : D[s][i] = C[s][i]
      /\ D[s][Len(C[s]) + 1] = f
      /\ \A t \in Streams : t # s => D[t] = C[t]
  BY <1>1, AppendProperties DEF Contents
<1> HIDE DEF D
<1>3. ASSUME NEW t \in Streams, NEW i \in 1 .. Len(D[t])
      PROVE  \/ t = s /\ i = Len(C[s]) + 1 /\ D[t][i] = f
             \/ i \in 1 .. Len(C[t]) /\ D[t][i] = C[t][i]
  BY <1>2
<1>4. /\ \A t \in Streams : \A i \in 1 .. Len(C[t]) : C[t][i].ts <= now /\ C[t][i].ts \in Int
      /\ f.ts \in Int
  BY <1>1, Elements, FrameParts DEF Timed
<1>5. \A t \in Streams : Climbs(D[t])
  <2> SUFFICES ASSUME NEW t \in Streams, NEW i \in 1 .. Len(D[t]), NEW j \in 1 .. Len(D[t]), i < j
               PROVE  D[t][i].ts < D[t][j].ts
    BY DEF Climbs
  <2>1. i \in 1 .. Len(C[t]) /\ D[t][i] = C[t][i]
    <3>1. t = s => i # Len(C[s]) + 1
      BY <1>2
    <3> QED
      BY <1>3, <3>1
  <2>2. CASE j \in 1 .. Len(C[t]) /\ D[t][j] = C[t][j]
    <3>1. Climbs(C[t])
      BY DEF Timed
    <3> QED
      BY <2>1, <2>2, <3>1 DEF Climbs
  <2>3. CASE t = s /\ D[t][j] = f
    BY <2>1, <2>3
  <2> QED
    BY <1>3, <2>2, <2>3
<1>7. \A t \in Streams : \A i \in 1 .. Len(C[t]) : C[t][i].s = t
  BY DEF Timed
<1>6. \A t \in Streams : \A i \in 1 .. Len(D[t]) : D[t][i].s = t /\ D[t][i].ts <= f.ts
  <2> SUFFICES ASSUME NEW t \in Streams, NEW i \in 1 .. Len(D[t])
               PROVE  D[t][i].s = t /\ D[t][i].ts <= f.ts
    OBVIOUS
  <2>1. CASE t = s /\ D[t][i] = f
    BY <1>4, <2>1
  <2>2. CASE i \in 1 .. Len(C[t]) /\ D[t][i] = C[t][i]
    <3>1. C[t][i].s = t
      BY <1>7, <2>2
    <3>2. C[t][i].ts <= now /\ C[t][i].ts \in Int
      BY <1>4, <2>2
    <3>3. f.ts \in Int /\ C[t][i].ts <= f.ts
      BY <1>4, <3>2
    <3> QED
      BY <2>2, <3>1, <3>3
  <2> QED
    BY <1>3, <2>1, <2>2
<1> QED
  BY <1>5, <1>6 DEF Timed, D

LEMMA PipeStamp ==
  ASSUME NEW F \in Contents, NEW C \in Contents, NEW Q \in Seq(Frame), NEW K \in Contents,
         NEW now \in Nat, Timed(C, now), AllBegin(F, C), Pipe(F, C, Q, K),
         NEW s \in Streams, K[s] = <<>>, NEW f \in Frame, f.s = s,
         \A i \in 1 .. Len(C[s]) : C[s][i].ts < f.ts
  PROVE  LET D == [C EXCEPT ![s] = Append(@, f)]
         IN  AllBegin(F, D) /\ Pipe(F, D, Q, [K EXCEPT ![s] = <<f>>])
<1> DEFINE D == [C EXCEPT ![s] = Append(@, f)]
           L == [K EXCEPT ![s] = <<f>>]
           Goal == AllBegin(F, D) /\ Pipe(F, D, Q, L)
<1>1. /\ \A t \in Streams : C[t] \in Seq(Frame) /\ F[t] \in Seq(Frame)
      /\ \A t \in Streams : Len(C[t]) \in Nat /\ Len(F[t]) \in Nat
      /\ \A i \in 1 .. Len(Q) : Q[i].s \in Streams /\ Q[i].ts \in Int
  BY Elements DEF Contents
<1>2. /\ Len(D[s]) = Len(C[s]) + 1
      /\ \A i \in 1 .. Len(C[s]) : D[s][i] = C[s][i]
      /\ D[s][Len(C[s]) + 1] = f
      /\ \A t \in Streams : t # s => D[t] = C[t]
  BY <1>1, AppendProperties DEF Contents
<1>3. L[s] = <<f>> /\ \A t \in Streams : t # s => L[t] = K[t]
  BY DEF Contents
<1> HIDE DEF D, L
<1>4. \A t \in Streams : Len(F[t]) <= Len(C[t])
  BY DEF AllBegin, Begins
<1>5. ASSUME NEW t \in Streams, NEW k \in 1 .. Len(C[t])
      PROVE  D[t][k] = C[t][k] /\ k \in 1 .. Len(D[t])
  <2>1. CASE t = s
    BY <1>1, <1>2, <2>1
  <2>2. CASE t # s
    BY <1>2, <2>2
  <2> QED
    BY <2>1, <2>2
<1>6. ASSUME NEW t \in Streams, NEW k \in Waiting(F, C, t)
      PROVE  k \in Waiting(F, D, t) /\ D[t][k] = C[t][k]
  <2>1. k \in 1 .. Len(C[t]) /\ k >= Len(F[t]) + 1 /\ k \in Int
    BY <1>1 DEF Waiting
  <2>2. D[t][k] = C[t][k] /\ k \in 1 .. Len(D[t])
    BY <1>5, <2>1
  <2> QED
    BY <1>1, <2>1, <2>2 DEF Waiting
<1>7. ASSUME NEW i \in 1 .. Len(Q), Q[i].s = s
      PROVE  Q[i].ts < f.ts
  <2>1. PICK k \in Waiting(F, C, Q[i].s) : Q[i] = C[Q[i].s][k]
    BY DEF Pipe, Known
  <2>2. k \in 1 .. Len(C[s]) /\ Q[i] = C[s][k]
    BY <1>1, <1>7, <2>1 DEF Waiting
  <2> QED
    BY <2>2
<1>8. AllBegin(F, D)
  <2> SUFFICES ASSUME NEW t \in Streams PROVE Begins(F[t], D[t])
    BY DEF AllBegin
  <2>1. Begins(F[t], C[t])
    BY DEF AllBegin
  <2>2. Len(C[t]) <= Len(D[t]) /\ Len(D[t]) \in Nat
    BY <1>1, <1>2
  <2>3. \A i \in 1 .. Len(F[t]) : i \in 1 .. Len(C[t])
    BY <1>1, <1>4
  <2> QED
    BY <1>1, <1>4, <1>5, <2>1, <2>2, <2>3 DEF Begins
<1>9. Known(F, D, Q)
  <2> SUFFICES ASSUME NEW i \in 1 .. Len(Q)
               PROVE  \E k \in Waiting(F, D, Q[i].s) : Q[i] = D[Q[i].s][k]
    BY DEF Known
  <2>1. PICK k \in Waiting(F, C, Q[i].s) : Q[i] = C[Q[i].s][k]
    BY DEF Pipe, Known
  <2> QED
    BY <1>1, <1>6, <2>1
<1>10. Holds(F, D, Q, L)
  <2> SUFFICES ASSUME NEW t \in Streams, L[t] # <<>>
               PROVE  /\ Len(L[t]) = 1 /\ Len(D[t]) \in Waiting(F, D, t)
                      /\ L[t][1] = D[t][Len(D[t])]
                      /\ \A i \in 1 .. Len(Q) : Q[i].s = t => Q[i].ts < L[t][1].ts
    BY DEF Holds
  <2>1. CASE t = s
    <3>1. Len(L[s]) = 1 /\ L[s][1] = f
      BY <1>3
    <3>2. Len(D[s]) \in Waiting(F, D, s)
      BY <1>1, <1>2, <1>4 DEF Waiting
    <3>3. \A i \in 1 .. Len(Q) : Q[i].s = s => Q[i].ts < f.ts
      BY <1>7
    <3> QED
      BY <1>2, <2>1, <3>1, <3>2, <3>3
  <2>2. CASE t # s
    <3>1. L[t] = K[t] /\ D[t] = C[t] /\ K[t] # <<>>
      BY <1>2, <1>3, <2>2
    <3>2. Waiting(F, D, t) = Waiting(F, C, t)
      BY <3>1 DEF Waiting
    <3> QED
      BY <3>1, <3>2 DEF Pipe, Holds
  <2> QED
    BY <2>1, <2>2
<1>11. NoneLost(F, D, Q, L)
  <2> SUFFICES ASSUME NEW t \in Streams, NEW k \in Waiting(F, D, t)
               PROVE  \/ \E i \in 1 .. Len(Q) : Q[i] = D[t][k]
                      \/ L[t] # <<>> /\ k = Len(D[t])
    BY DEF NoneLost
  <2>1. CASE t = s /\ k = Len(D[s])
    <3>1. L[s] # <<>>
      BY <1>3
    <3> QED
      BY <2>1, <3>1
  <2>2. CASE ~(t = s /\ k = Len(D[s]))
    <3>1. k \in Waiting(F, C, t)
      BY <1>1, <1>2, <2>2 DEF Waiting
    <3>2. (\E i \in 1 .. Len(Q) : Q[i] = C[t][k]) \/ (K[t] # <<>> /\ k = Len(C[t]))
      BY <3>1 DEF Pipe, NoneLost
    <3>3. K[t] # <<>> => t # s
      OBVIOUS
    <3> QED
      BY <1>2, <1>3, <1>6, <3>1, <3>2, <3>3
  <2> QED
    BY <2>1, <2>2
<1>12. InTurn(Q)
  BY DEF Pipe
<1>13. Goal
  BY <1>8, <1>9, <1>10, <1>11, <1>12 DEF Pipe
<1> QED
  BY <1>13 DEF Goal, D, L

LEMMA PipeSend ==
  ASSUME NEW F \in Contents, NEW C \in Contents, NEW Q \in Seq(Frame), NEW K \in Contents,
         NEW now \in Nat, Timed(C, now), Pipe(F, C, Q, K), NEW s \in Streams, K[s] # <<>>
  PROVE  Pipe(F, C, Q \o K[s], [K EXCEPT ![s] = <<>>])
<1> DEFINE f == K[s][1]
           R == Q \o K[s]
           L == [K EXCEPT ![s] = <<>>]
           n == Len(C[s])
           Goal == Pipe(F, C, R, L)
<1>1. /\ Len(K[s]) = 1 /\ n \in Waiting(F, C, s) /\ f = C[s][n]
      /\ \A i \in 1 .. Len(Q) : Q[i].s = s => Q[i].ts < f.ts
  BY DEF Pipe, Holds
<1>2. K[s] \in Seq(Frame) /\ C[s] \in Seq(Frame) /\ Len(F[s]) \in Nat /\ Len(Q) \in Nat
  BY DEF Contents
<1>3. Len(R) = Len(Q) + 1 /\ R[Len(Q) + 1] = f /\ \A i \in 1 .. Len(Q) : R[i] = Q[i]
  <2>1. /\ Len(R) = Len(Q) + Len(K[s])
        /\ \A i \in 1 .. Len(R) : R[i] = IF i <= Len(Q) THEN Q[i] ELSE K[s][i - Len(Q)]
    BY <1>2, ConcatProperties
  <2>2. Len(R) = Len(Q) + 1
    BY <1>1, <2>1
  <2>3. Len(Q) + 1 \in 1 .. Len(R) /\ ~(Len(Q) + 1 <= Len(Q)) /\ Len(Q) + 1 - Len(Q) = 1
    BY <1>2, <2>2
  <2>4. \A i \in 1 .. Len(Q) : i \in 1 .. Len(R) /\ i <= Len(Q)
    BY <1>2, <2>2
  <2> HIDE DEF R
  <2> QED
    BY <2>1, <2>2, <2>3, <2>4
<1>4. L[s] = <<>> /\ \A t \in Streams : t # s => L[t] = K[t]
  BY DEF Contents
<1>5. f.s = s /\ f.ts \in Int
  <2>1. n \in 1 .. Len(C[s])
    BY <1>1, <1>2 DEF Waiting
  <2> QED
    BY <1>1, <1>2, <2>1, Elements DEF Timed
<1> HIDE DEF R, L, f, n
<1>6. \A i \in 1 .. Len(R) : (i \in 1 .. Len(Q) /\ R[i] = Q[i]) \/ (i = Len(Q) + 1 /\ R[i] = f)
  BY <1>2, <1>3
<1>7. Known(F, C, R)
  <2> SUFFICES ASSUME NEW i \in 1 .. Len(R)
               PROVE  \E k \in Waiting(F, C, R[i].s) : R[i] = C[R[i].s][k]
    BY DEF Known
  <2>1. CASE i \in 1 .. Len(Q) /\ R[i] = Q[i]
    BY <2>1 DEF Pipe, Known
  <2>2. CASE R[i] = f
    BY <1>1, <1>5, <2>2
  <2> QED
    BY <1>6, <2>1, <2>2
<1>8. InTurn(R)
  <2> SUFFICES ASSUME NEW i \in 1 .. Len(R), NEW j \in 1 .. Len(R), i < j, R[i].s = R[j].s
               PROVE  R[i].ts < R[j].ts
    BY DEF InTurn
  <2>1. i \in 1 .. Len(Q) /\ R[i] = Q[i]
    BY <1>2, <1>3
  <2>2. CASE j \in 1 .. Len(Q) /\ R[j] = Q[j]
    BY <2>1, <2>2 DEF Pipe, InTurn
  <2>3. CASE R[j] = f
    BY <1>1, <1>5, <2>1, <2>3
  <2> QED
    BY <1>6, <2>2, <2>3
<1>9. Holds(F, C, R, L)
  <2> SUFFICES ASSUME NEW t \in Streams, L[t] # <<>>
               PROVE  /\ Len(L[t]) = 1 /\ Len(C[t]) \in Waiting(F, C, t)
                      /\ L[t][1] = C[t][Len(C[t])]
                      /\ \A i \in 1 .. Len(R) : R[i].s = t => R[i].ts < L[t][1].ts
    BY DEF Holds
  <2>1. t # s /\ L[t] = K[t] /\ K[t] # <<>>
    BY <1>4
  <2>2. /\ Len(K[t]) = 1 /\ Len(C[t]) \in Waiting(F, C, t)
        /\ K[t][1] = C[t][Len(C[t])]
        /\ \A i \in 1 .. Len(Q) : Q[i].s = t => Q[i].ts < K[t][1].ts
    BY <2>1 DEF Pipe, Holds
  <2>3. \A i \in 1 .. Len(R) : R[i].s = t => i \in 1 .. Len(Q) /\ R[i] = Q[i]
    BY <1>5, <1>6, <2>1
  <2> QED
    BY <2>1, <2>2, <2>3
<1>10. NoneLost(F, C, R, L)
  <2> SUFFICES ASSUME NEW t \in Streams, NEW k \in Waiting(F, C, t)
               PROVE  \/ \E i \in 1 .. Len(R) : R[i] = C[t][k]
                      \/ L[t] # <<>> /\ k = Len(C[t])
    BY DEF NoneLost
  <2>1. (\E i \in 1 .. Len(Q) : Q[i] = C[t][k]) \/ (K[t] # <<>> /\ k = Len(C[t]))
    BY DEF Pipe, NoneLost
  <2>2. CASE \E i \in 1 .. Len(Q) : Q[i] = C[t][k]
    <3>1. \A i \in 1 .. Len(Q) : i \in 1 .. Len(R) /\ R[i] = Q[i]
      BY <1>2, <1>3
    <3> QED
      BY <2>2, <3>1
  <2>3. CASE t = s /\ k = Len(C[t])
    <3>1. Len(Q) + 1 \in 1 .. Len(R) /\ R[Len(Q) + 1] = C[t][k]
      BY <1>1, <1>2, <1>3, <2>3 DEF n
    <3> QED
      BY <3>1
  <2>4. CASE t # s /\ K[t] # <<>> /\ k = Len(C[t])
    BY <1>4, <2>4
  <2> QED
    BY <2>1, <2>2, <2>3, <2>4
<1>11. Goal
  BY <1>7, <1>8, <1>9, <1>10 DEF Pipe
<1> QED
  BY <1>11 DEF Goal, R, L
(* The frame in the writer's hand is the next of its file. *)
LEMMA PipeWrite ==
  ASSUME NEW F \in Contents, NEW C \in Contents, NEW R \in Seq(Frame), NEW K \in Contents,
         NEW h \in Frame, NEW now \in Nat, Timed(C, now), AllBegin(F, C),
         Pipe(F, C, <<h>> \o R, K)
  PROVE  LET G == [F EXCEPT ![h.s] = Append(@, h)]
         IN  AllBegin(G, C) /\ Pipe(G, C, R, K)
<1> DEFINE Q == <<h>> \o R
           s == h.s
           G == [F EXCEPT ![s] = Append(@, h)]
           Goal == AllBegin(G, C) /\ Pipe(G, C, R, K)
           n == Len(F[s]) + 1
<1>1. s \in Streams /\ h.ts \in Int
  BY FrameParts
<1>2. \A t \in Streams : C[t] \in Seq(Frame) /\ F[t] \in Seq(Frame)
         /\ Len(C[t]) \in Nat /\ Len(F[t]) \in Nat
  BY DEF Contents
<1>3. /\ Len(R) \in Nat /\ Len(Q) = Len(R) + 1 /\ Q[1] = h
      /\ \A i \in 1 .. Len(R) : Q[i + 1] = R[i] /\ i + 1 \in 1 .. Len(Q)
      /\ \A i \in 1 .. Len(Q) : i = 1 \/ (i - 1 \in 1 .. Len(R) /\ Q[i] = R[i - 1])
  <2>1. <<h>> \in Seq(Frame) /\ Len(<<h>>) = 1 /\ <<h>>[1] = h
    OBVIOUS
  <2> DEFINE o == <<h>>
  <2> HIDE DEF o
  <2>2. /\ Len(o \o R) = Len(o) + Len(R)
        /\ \A i \in 1 .. Len(o) + Len(R) : (o \o R)[i] = IF i <= Len(o) THEN o[i] ELSE R[i - Len(o)]
    BY <2>1, ConcatProperties DEF o
  <2>3. Q = o \o R
    BY DEF o
  <2>4. Len(o) = 1 /\ o[1] = h /\ Len(R) \in Nat
    BY <2>1 DEF o
  <2> HIDE DEF Q
  <2>5. Len(Q) = Len(R) + 1 /\ \A i \in 1 .. Len(Q) : Q[i] = IF i <= 1 THEN h ELSE R[i - 1]
    <3>1. Len(Q) = Len(R) + 1
      BY <2>2, <2>3, <2>4
    <3>2. ASSUME NEW i \in 1 .. Len(Q) PROVE Q[i] = IF i <= 1 THEN h ELSE R[i - 1]
      <4>1. Q[i] = IF i <= 1 THEN o[i] ELSE R[i - 1]
        BY <2>2, <2>3, <2>4, <3>1
      <4>2. i <= 1 => i = 1
        OBVIOUS
      <4> QED
        BY <2>4, <4>1, <4>2
    <3> QED
      BY <3>1, <3>2
  <2>6. 1 \in 1 .. Len(Q) /\ \A i \in 1 .. Len(R) : i + 1 \in 1 .. Len(Q) /\ ~(i + 1 <= 1) /\ i + 1 - 1 = i
    BY <2>4, <2>5
  <2>7. \A i \in 1 .. Len(Q) : i = 1 \/ (i - 1 \in 1 .. Len(R) /\ ~(i <= 1))
    BY <2>4, <2>5
  <2> QED
    BY <2>4, <2>5, <2>6, <2>7
<1>4. /\ Len(G[s]) = n /\ G[s][n] = h
      /\ \A i \in 1 .. Len(F[s]) : G[s][i] = F[s][i]
      /\ \A t \in Streams : t # s => G[t] = F[t]
  BY <1>1, <1>2, AppendProperties DEF Contents
<1> HIDE DEF Q, G, n, s
<1>5. Pipe(F, C, Q, K)
  BY DEF Q
<1>6. n \in Nat /\ n = Len(F[s]) + 1 /\ h.s = s
  BY <1>1, <1>2 DEF n, s
<1>7. PICK k \in Waiting(F, C, s) : h = C[s][k]
  <2>1. 1 \in 1 .. Len(Q)
    BY <1>3
  <2> QED
    BY <1>3, <1>5, <1>6, <2>1 DEF Pipe, Known
<1>8. \A t \in Streams : \A i \in 1 .. Len(C[t]) : C[t][i].ts \in Int /\ C[t][i].s = t
  BY <1>2, Elements DEF Timed
<1>9. k = n
  <2> SUFFICES ASSUME k # n PROVE FALSE
    OBVIOUS
  <2>1. /\ n \in Waiting(F, C, s) /\ n < k /\ n \in 1 .. Len(C[s]) /\ k \in 1 .. Len(C[s])
        /\ Len(C[s]) \in 1 .. Len(C[s]) /\ k <= Len(C[s])
    <3>1. Len(C[s]) \in Nat /\ Len(F[s]) \in Nat
      BY <1>1, <1>2
    <3>2. k \in n .. Len(C[s])
      BY <1>6, <1>7 DEF Waiting
    <3>3. n \in n .. Len(C[s]) /\ n < k /\ n \in 1 .. Len(C[s]) /\ k \in 1 .. Len(C[s])
          /\ Len(C[s]) \in 1 .. Len(C[s]) /\ k <= Len(C[s])
      BY <1>6, <3>1, <3>2
    <3> QED
      BY <1>6, <3>3 DEF Waiting
  <2>2. C[s][n].ts < C[s][k].ts
    BY <1>1, <2>1 DEF Timed, Climbs
  <2>3. CASE \E i \in 1 .. Len(Q) : Q[i] = C[s][n]
    <3>1. PICK i \in 1 .. Len(Q) : Q[i] = C[s][n]
      BY <2>3
    <3>2. 1 \in 1 .. Len(Q) /\ i # 1 /\ 1 < i /\ Q[i].s = Q[1].s
      BY <1>1, <1>3, <1>6, <1>7, <1>8, <2>1, <2>2, <3>1
    <3>3. Q[1].ts < Q[i].ts
      BY <1>5, <3>2 DEF Pipe, InTurn
    <3>4. C[s][k].ts < C[s][n].ts
      BY <1>3, <1>7, <3>1, <3>3
    <3>5. C[s][n].ts \in Int /\ C[s][k].ts \in Int
      BY <1>1, <1>8, <2>1
    <3> QED
      BY <2>2, <3>4, <3>5
  <2>4. CASE K[s] # <<>> /\ n = Len(C[s])
    BY <2>1, <2>4
  <2> QED
    BY <1>1, <1>5, <2>1, <2>3, <2>4 DEF Pipe, NoneLost
<1>10. AllBegin(G, C)
  <2> SUFFICES ASSUME NEW t \in Streams PROVE Begins(G[t], C[t])
    BY DEF AllBegin
  <2>1. Begins(F[t], C[t])
    BY DEF AllBegin
  <2>2. CASE t # s
    BY <1>4, <2>1, <2>2
  <2>3. CASE t = s
    <3>1. n <= Len(C[s])
      BY <1>1, <1>2, <1>7, <1>9 DEF Waiting
    <3>2. \A i \in 1 .. n : i = n \/ i \in 1 .. Len(F[s])
      BY <1>1, <1>2, <1>6
    <3>3. \A i \in 1 .. n : G[s][i] = C[s][i]
      BY <1>4, <1>7, <1>9, <2>1, <2>3, <3>2 DEF Begins
    <3> QED
      BY <1>4, <2>3, <3>1, <3>3 DEF Begins
  <2> QED
    BY <2>2, <2>3
<1>11. \A t \in Streams : t # s => Waiting(G, C, t) = Waiting(F, C, t)
  BY <1>4 DEF Waiting
<1>12. \A l : l \in Waiting(G, C, s) <=> l \in Waiting(F, C, s) /\ l # n
  BY <1>1, <1>2, <1>4, <1>6 DEF Waiting
<1>13. ASSUME NEW i \in 1 .. Len(R)
       PROVE  /\ R[i] = Q[i + 1] /\ i + 1 \in 1 .. Len(Q) /\ R[i].s \in Streams
              /\ R[i].s = s => h.ts < R[i].ts
  <2>1. R[i] = Q[i + 1] /\ i + 1 \in 1 .. Len(Q) /\ 1 \in 1 .. Len(Q) /\ 1 < i + 1
    BY <1>3
  <2>2. R[i].s \in Streams
    BY Elements
  <2>3. R[i].s = s => h.ts < R[i].ts
    BY <1>3, <1>5, <1>6, <2>1 DEF Pipe, InTurn
  <2> QED
    BY <2>1, <2>2, <2>3
<1>14. Known(G, C, R)
  <2> SUFFICES ASSUME NEW i \in 1 .. Len(R)
               PROVE  \E l \in Waiting(G, C, R[i].s) : R[i] = C[R[i].s][l]
    BY DEF Known
  <2>1. PICK l \in Waiting(F, C, R[i].s) : R[i] = C[R[i].s][l]
    <3>1. Known(F, C, Q)
      BY <1>5 DEF Pipe
    <3> DEFINE j == i + 1
    <3>2. j \in 1 .. Len(Q) /\ Q[j] = R[i]
      BY <1>13
    <3> HIDE DEF j
    <3>3. \E l \in Waiting(F, C, Q[j].s) : Q[j] = C[Q[j].s][l]
      BY <3>1, <3>2 DEF Known
    <3> QED
      BY <3>2, <3>3
  <2>2. CASE R[i].s # s
    BY <1>11, <1>13, <2>1, <2>2
  <2>3. CASE R[i].s = s
    <3>1. l # n
      BY <1>1, <1>7, <1>9, <1>13, <2>1, <2>3
    <3> QED
      BY <1>12, <2>1, <2>3, <3>1
  <2> QED
    BY <2>2, <2>3
<1>15. InTurn(R)
  <2> SUFFICES ASSUME NEW i \in 1 .. Len(R), NEW j \in 1 .. Len(R), i < j, R[i].s = R[j].s
               PROVE  R[i].ts < R[j].ts
    BY DEF InTurn
  <2>1. i + 1 < j + 1
    OBVIOUS
  <2> QED
    BY <1>5, <1>13, <2>1 DEF Pipe, InTurn
<1>16. Holds(G, C, R, K)
  <2> SUFFICES ASSUME NEW t \in Streams, K[t] # <<>>
               PROVE  /\ Len(K[t]) = 1 /\ Len(C[t]) \in Waiting(G, C, t)
                      /\ K[t][1] = C[t][Len(C[t])]
                      /\ \A i \in 1 .. Len(R) : R[i].s = t => R[i].ts < K[t][1].ts
    BY DEF Holds
  <2>1. /\ Len(K[t]) = 1 /\ Len(C[t]) \in Waiting(F, C, t)
        /\ K[t][1] = C[t][Len(C[t])]
        /\ \A i \in 1 .. Len(Q) : Q[i].s = t => Q[i].ts < K[t][1].ts
    BY <1>5 DEF Pipe, Holds
  <2>2. \A i \in 1 .. Len(R) : R[i].s = t => R[i].ts < K[t][1].ts
    BY <1>13, <2>1
  <2>3. Len(C[t]) \in Waiting(G, C, t)
    <3>1. CASE t # s
      BY <1>11, <2>1, <3>1
    <3>2. CASE t = s
      <4>1. 1 \in 1 .. Len(Q)
        BY <1>3
      <4>2. h.ts < C[s][Len(C[s])].ts
        BY <1>3, <1>6, <2>1, <3>2, <4>1
      <4>3. Len(C[s]) # n
        BY <1>1, <1>7, <1>9, <4>2
      <4> QED
        BY <1>12, <2>1, <3>2, <4>3
    <3> QED
      BY <3>1, <3>2
  <2> QED
    BY <2>1, <2>2, <2>3
<1>17. NoneLost(G, C, R, K)
  <2> SUFFICES ASSUME NEW t \in Streams, NEW l \in Waiting(G, C, t)
               PROVE  \/ \E i \in 1 .. Len(R) : R[i] = C[t][l]
                      \/ K[t] # <<>> /\ l = Len(C[t])
    BY DEF NoneLost
  <2>1. l \in Waiting(F, C, t) /\ (t = s => l # n)
    BY <1>11, <1>12
  <2>2. (\E i \in 1 .. Len(Q) : Q[i] = C[t][l]) \/ (K[t] # <<>> /\ l = Len(C[t]))
    BY <1>5, <2>1 DEF Pipe, NoneLost
  <2>3. ASSUME NEW i \in 1 .. Len(Q), Q[i] = C[t][l]
        PROVE  \E j \in 1 .. Len(R) : R[j] = C[t][l]
    <3>1. l \in 1 .. Len(C[t]) /\ n \in 1 .. Len(C[s])
      BY <1>1, <1>2, <1>7, <1>9, <2>1 DEF Waiting
    <3>2. i # 1
      <4> SUFFICES ASSUME i = 1 PROVE FALSE
        OBVIOUS
      <4>1. C[t][l] = C[s][n] /\ t = s
        BY <1>1, <1>3, <1>7, <1>8, <1>9, <2>3, <3>1
      <4>2. ~(l < n) /\ ~(n < l)
        BY <1>1, <1>8, <3>1, <4>1 DEF Timed, Climbs
      <4> QED
        BY <1>6, <2>1, <3>1, <4>1, <4>2
    <3> QED
      BY <1>3, <2>3, <3>2
  <2> QED
    BY <2>2, <2>3
<1>18. Goal
  BY <1>10, <1>14, <1>15, <1>16, <1>17 DEF Pipe
<1> QED
  BY <1>18 DEF Goal, G, s
-----------------------------------------------------------------------------
(* What holds of the runs between any two steps. *)
Phases == {"absent", "open", "flush"} \union Over
WriteTypes ==
  /\ clock \in 0 .. MaxClock /\ phase \in [Runs -> Phases]
  /\ cap \in [Runs -> Contents] /\ captured \in [Runs -> Contents]
  /\ chan \in [Runs -> Seq(Frame)] /\ hand \in [Runs -> Seq(Frame)]
  /\ wr \in [Runs -> {"run", "done", "failed"}] /\ file \in [Runs -> Contents]
  /\ torn \in [Runs -> [Streams -> 0 .. 2]]

Live(r) == wr[r] = "run" /\ phase[r] \in {"absent", "open", "flush"}
RunInv(r) ==
  /\ Timed(captured[r], clock) /\ AllBegin(file[r], captured[r])
  /\ Len(hand[r]) <= 1 /\ (wr[r] # "run" => hand[r] = <<>>)
  /\ phase[r] = "flush" => AllSent(r)
  /\ wr[r] = "done" =>
       /\ phase[r] \notin {"absent", "open"}
       /\ \A s \in Streams : Len(file[r][s]) = Len(captured[r][s])
  /\ Live(r) => Pipe(file[r], captured[r], hand[r] \o chan[r], cap[r])
WriteInv == WriteTypes /\ \A r \in Runs : RunInv(r)

(* The files of a run may be read: their order is that of time.            *)
LEMMA TimedPrefix ==
  ASSUME NEW F \in Contents, NEW C \in Contents, NEW now, Timed(C, now), AllBegin(F, C)
  PROVE  Timed(F, now)
<1>1. ASSUME NEW s \in Streams, NEW i \in 1 .. Len(F[s])
      PROVE  i \in 1 .. Len(C[s]) /\ F[s][i] = C[s][i]
  <2>1. Len(C[s]) \in Nat /\ Len(F[s]) \in Nat
    BY DEF Contents
  <2> QED
    BY <2>1 DEF AllBegin, Begins
<1>2. \A s \in Streams : Climbs(F[s])
  BY <1>1 DEF Timed, Climbs
<1>3. \A s \in Streams : \A i \in 1 .. Len(F[s]) : F[s][i].s = s /\ F[s][i].ts <= now
  BY <1>1 DEF Timed
<1> QED
  BY <1>2, <1>3 DEF Timed

LEMMA TimedLater ==
  ASSUME NEW C \in Contents, NEW now \in Int, NEW later \in Int, now <= later, Timed(C, now)
  PROVE  Timed(C, later)
<1>1. \A s \in Streams : C[s] \in Seq(Frame)
  BY DEF Contents
<1>2. \A s \in Streams : \A i \in 1 .. Len(C[s]) : C[s][i].s = s /\ C[s][i].ts <= later
  BY <1>1, Elements DEF Timed
<1> QED
  BY <1>2 DEF Timed

LEMMA WriteInit == Init => WriteInv
<1> SUFFICES ASSUME Init PROVE WriteInv
  OBVIOUS
<1> USE DEF Init
<1>1. Nothing \in Contents /\ \A s \in Streams : Len(Nothing[s]) = 0
  BY DEF Nothing, Contents
<1>2. WriteTypes
  BY <1>1, LogsAssumption DEF WriteTypes, Phases
<1>3. ASSUME NEW r \in Runs PROVE RunInv(r)
  <2>1. /\ captured[r] = Nothing /\ file[r] = Nothing /\ cap[r] = Nothing /\ wr[r] = "run"
        /\ phase[r] = "absent" /\ hand[r] = <<>> /\ chan[r] = <<>>
    OBVIOUS
  <2>2. Timed(Nothing, clock) /\ AllBegin(Nothing, Nothing)
    BY <1>1 DEF Timed, Climbs, AllBegin, Begins
  <2>3. hand[r] \o chan[r] = <<>> /\ Len(hand[r]) <= 1 /\ Len(<<>>) = 0
    BY <2>1
  <2>4. \A s \in Streams : Waiting(Nothing, Nothing, s) = {} /\ Nothing[s] = <<>>
    BY <1>1 DEF Waiting, Nothing
  <2>5. Pipe(Nothing, Nothing, <<>>, Nothing)
    BY <2>3, <2>4 DEF Pipe, Known, InTurn, Holds, NoneLost
  <2> QED
    BY <2>1, <2>2, <2>3, <2>5 DEF RunInv
<1> QED
  BY <1>2, <1>3 DEF WriteInv

(* A run whose state stays.                                                *)
Same(r) ==
  /\ phase'[r] = phase[r] /\ cap'[r] = cap[r] /\ captured'[r] = captured[r]
  /\ chan'[r] = chan[r] /\ hand'[r] = hand[r] /\ wr'[r] = wr[r] /\ file'[r] = file[r]
LEMMA StaysSame ==
  ASSUME NEW r \in Runs, WriteTypes, RunInv(r), Same(r), clock' \in Int, clock <= clock'
  PROVE  RunInv(r)'
<1>1. captured[r] \in Contents /\ clock \in Int
  BY DEF WriteTypes
<1>2. Timed(captured[r], clock')
  BY <1>1, TimedLater DEF RunInv
<1> QED
  BY <1>2 DEF RunInv, Same, Live, AllSent
LEMMA OthersSame ==
  ASSUME WriteInv, WriteTypes', NEW r \in Runs, clock <= clock',
         \A q \in Runs : q # r => Same(q), RunInv(r)'
  PROVE  WriteInv'
<1>1. clock' \in Int
  BY LogsAssumption DEF WriteTypes
<1>2. \A q \in Runs : q # r => RunInv(q)'
  BY <1>1, StaysSame DEF WriteInv
<1> QED
  BY <1>2 DEF WriteInv

(* One lemma for each step of a run. *)
LEMMA StampStep ==
  ASSUME WriteInv, NEW r \in Runs, NEW s \in Streams, Stamp(r, s)
  PROVE  WriteInv'
<1> USE DEF Stamp
<1> DEFINE f == [ts |-> clock', s |-> s]
           C == captured[r]
<1>1. /\ clock \in Nat /\ clock' \in 0 .. MaxClock /\ clock <= clock' /\ f \in Frame
      /\ f.ts = clock' /\ f.s = s
  BY LogsAssumption DEF WriteInv, WriteTypes, Frame
<1> HIDE DEF f
<1>2. /\ cap[r] \in Contents /\ C \in Contents /\ C[s] \in Seq(Frame)
      /\ <<f>> \in Seq(Frame) /\ cap \in [Runs -> Contents] /\ captured \in [Runs -> Contents]
  BY <1>1 DEF WriteInv, WriteTypes, Contents
<1>3. /\ cap' = [cap EXCEPT ![r][s] = <<f>>]
      /\ captured' = [captured EXCEPT ![r][s] = @ \o cap'[r][s]]
  BY DEF f
<1>10. \A i \in 1 .. Len(C[s]) : C[s][i].ts < f.ts
  <2>1. \A i \in 1 .. Len(C[s]) : C[s][i] \in Range(C[s])
    BY <1>2 DEF Range
  <2>2. \A g \in Range(C[s]) : g.ts < clock'
    OBVIOUS
  <2> HIDE DEF C, Stamp
  <2> QED
    BY <1>1, <2>1, <2>2
<1>4. /\ cap'[r] = [cap[r] EXCEPT ![s] = <<f>>] /\ cap'[r][s] = <<f>>
      /\ cap' \in [Runs -> Contents] /\ \A q \in Runs : q # r => cap'[q] = cap[q]
  <2> DEFINE L == [cap[r] EXCEPT ![s] = <<f>>]
  <2>1. L \in Contents /\ L[s] = <<f>> /\ cap' = [cap EXCEPT ![r] = L]
    BY <1>2, <1>3 DEF Contents
  <2> HIDE DEF L, Stamp
  <2>2. cap'[r] = L /\ cap' \in [Runs -> Contents] /\ \A q \in Runs : q # r => cap'[q] = cap[q]
    BY <1>2, <2>1
  <2> QED
    BY <2>1, <2>2 DEF L
<1>5. C[s] \o <<f>> = Append(C[s], f)
  BY <1>1, <1>2, AppendIsConcat
<1>6. /\ captured'[r] = [C EXCEPT ![s] = Append(@, f)]
      /\ captured' \in [Runs -> Contents] /\ \A q \in Runs : q # r => captured'[q] = captured[q]
  <2> DEFINE D == [C EXCEPT ![s] = Append(C[s], f)]
  <2>1. Append(C[s], f) \in Seq(Frame)
    BY <1>1, <1>2
  <2>2. D \in Contents
    BY <1>2, <2>1 DEF Contents
  <2>3. captured' = [captured EXCEPT ![r] = D]
    BY <1>3, <1>4, <1>5
  <2>4. D = [C EXCEPT ![s] = Append(@, f)]
    OBVIOUS
  <2> HIDE DEF D, C, Stamp
  <2> QED
    BY <1>2, <2>2, <2>3, <2>4
<1>7. WriteTypes'
  BY <1>1, <1>4, <1>6 DEF WriteInv, WriteTypes
<1>8. clock <= clock' /\ \A q \in Runs : q # r => Same(q)
  BY <1>1, <1>4, <1>6 DEF Same
<1>9. RunInv(r)'
  <2>1. RunInv(r) /\ file[r] \in Contents /\ hand[r] \in Seq(Frame) /\ chan[r] \in Seq(Frame)
    BY DEF WriteInv, WriteTypes
  <2>2. Timed(captured'[r], clock')
    <3>1. Timed(C, clock) /\ C \in Contents
      BY <1>2, <2>1 DEF RunInv
    <3>2. captured'[r] = [C EXCEPT ![s] = Append(@, f)]
      BY <1>6
    <3> HIDE DEF C, Stamp
    <3>3. Timed([C EXCEPT ![s] = Append(@, f)], f.ts)
      BY <1>1, <1>10, <3>1, TimedStamp
    <3> QED
      BY <1>1, <3>2, <3>3
  <2>3. AllBegin(file[r], captured'[r])
    <3>1. \A t \in Streams : Begins(file[r][t], C[t])
      BY <2>1 DEF RunInv, AllBegin
    <3> SUFFICES ASSUME NEW t \in Streams PROVE Begins(file[r][t], captured'[r][t])
      BY DEF AllBegin
    <3>2. CASE t # s
      BY <1>2, <1>6, <3>1, <3>2 DEF Contents
    <3>3. CASE t = s
      <4>1. captured'[r][s] = Append(C[s], f)
        BY <1>2, <1>6 DEF Contents
      <4>2. Len(captured'[r][s]) = Len(C[s]) + 1 /\ \A i \in 1 .. Len(C[s]) : captured'[r][s][i] = C[s][i]
        BY <1>1, <1>2, <4>1, AppendProperties
      <4>3. Len(file[r][s]) \in Nat /\ Len(C[s]) \in Nat
        BY <1>2, <2>1 DEF Contents
      <4> QED
        BY <3>1, <3>3, <4>2, <4>3 DEF Begins
    <3> QED
      BY <3>2, <3>3
  <2>4. Live(r) => Pipe(file[r], captured'[r], hand[r] \o chan[r], cap'[r])
    <3> SUFFICES ASSUME Live(r)
                 PROVE  Pipe(file[r], captured'[r], hand[r] \o chan[r], cap'[r])
      OBVIOUS
    <3> DEFINE Q == hand[r] \o chan[r]
               F == file[r]
               K == cap[r]
    <3>1. /\ F \in Contents /\ Q \in Seq(Frame) /\ K \in Contents /\ K[s] = <<>>
          /\ Timed(C, clock) /\ AllBegin(F, C) /\ Pipe(F, C, Q, K)
      BY <1>2, <2>1 DEF RunInv
    <3>2. captured'[r] = [C EXCEPT ![s] = Append(@, f)] /\ cap'[r] = [K EXCEPT ![s] = <<f>>]
      BY <1>4, <1>6
    <3>3. C \in Contents
      BY <1>2
    <3> HIDE DEF C, F, Q, K
    <3>4. Pipe(F, [C EXCEPT ![s] = Append(@, f)], Q, [K EXCEPT ![s] = <<f>>])
      BY <1>1, <1>10, <3>1, <3>3, PipeStamp
    <3>5. Pipe(F, captured'[r], Q, cap'[r])
      BY <3>2, <3>4
    <3> QED
      BY <3>5 DEF F, Q
  <2> QED
    BY <2>1, <2>2, <2>3, <2>4 DEF RunInv, Live
<1> QED
  BY <1>7, <1>8, <1>9, OthersSame

LEMMA SendStep ==
  ASSUME WriteInv, NEW r \in Runs, NEW s \in Streams, Send(r, s)
  PROVE  WriteInv'
<1> USE DEF Send
<1>1. /\ cap \in [Runs -> Contents] /\ chan \in [Runs -> Seq(Frame)] /\ cap[r] \in Contents
      /\ captured[r] \in Contents /\ file[r] \in Contents /\ hand[r] \in Seq(Frame)
      /\ chan[r] \in Seq(Frame) /\ cap[r][s] \in Seq(Frame) /\ clock \in Nat
  BY LogsAssumption DEF WriteInv, WriteTypes, Contents
<1>2. /\ cap'[r] = [cap[r] EXCEPT ![s] = <<>>] /\ cap' \in [Runs -> Contents]
      /\ \A q \in Runs : q # r => cap'[q] = cap[q]
  <2> DEFINE L == [cap[r] EXCEPT ![s] = <<>>]
  <2>1. L \in Contents /\ cap' = [cap EXCEPT ![r] = L]
    BY <1>1 DEF Contents
  <2> HIDE DEF L, Send
  <2>2. cap'[r] = L /\ cap' \in [Runs -> Contents] /\ \A q \in Runs : q # r => cap'[q] = cap[q]
    BY <1>1, <2>1
  <2> QED
    BY <2>2 DEF L
<1>3. WriteTypes'
  <2> DEFINE R == chan[r] \o cap[r][s]
  <2>1. R \in Seq(Frame) /\ (chan' = [chan EXCEPT ![r] = R] \/ chan' = chan)
    BY <1>1
  <2> HIDE DEF R
  <2>2. chan' \in [Runs -> Seq(Frame)]
    BY <1>1, <2>1
  <2> QED
    BY <1>2, <2>2 DEF WriteInv, WriteTypes
<1>4. clock <= clock' /\ \A q \in Runs : q # r => Same(q)
  BY <1>1, <1>2 DEF Same
<1>5. RunInv(r)'
  <2>1. RunInv(r)
    BY DEF WriteInv
  <2>2. Live(r) => Pipe(file[r], captured[r], hand[r] \o chan'[r], cap'[r])
    <3> SUFFICES ASSUME Live(r)
                 PROVE  Pipe(file[r], captured[r], hand[r] \o chan'[r], cap'[r])
      OBVIOUS
    <3> DEFINE H == hand[r]
               R == chan[r]
               K == cap[r]
               k == K[s]
    <3>1. /\ H \in Seq(Frame) /\ R \in Seq(Frame) /\ k \in Seq(Frame) /\ K \in Contents /\ k # <<>>
          /\ Timed(captured[r], clock) /\ Pipe(file[r], captured[r], H \o R, K)
      BY <1>1, <2>1 DEF RunInv
    <3>2. chan'[r] = R \o k
      <4>1. wr[r] = "run"
        BY DEF Live
      <4>2. chan' = [chan EXCEPT ![r] = @ \o cap[r][s]]
        BY <4>1
      <4> HIDE DEF Send
      <4> QED
        BY <1>1, <4>2
    <3>3. cap'[r] = [K EXCEPT ![s] = <<>>]
      BY <1>2
    <3>4. k = K[s] /\ H = hand[r]
      OBVIOUS
    <3> HIDE DEF Send, H, R, K, k
    <3>5. H \o (R \o k) = (H \o R) \o k /\ H \o R \in Seq(Frame)
      BY <3>1, ConcatAssociative
    <3>6. Pipe(file[r], captured[r], (H \o R) \o K[s], [K EXCEPT ![s] = <<>>])
      BY <1>1, <3>1, <3>4, <3>5, PipeSend
    <3> QED
      BY <3>2, <3>3, <3>4, <3>5, <3>6
  <2> QED
    BY <2>1, <2>2 DEF RunInv, Live
<1> QED
  BY <1>3, <1>4, <1>5, OthersSame
LEMMA WriteStep ==
  ASSUME WriteInv, NEW r \in Runs, Write(r)
  PROVE  WriteInv'
<1> USE DEF Write
<1> DEFINE h == hand[r][1]
           s == h.s
           F == file[r]
<1>1. /\ file \in [Runs -> Contents] /\ file[r] \in Contents /\ captured[r] \in Contents
      /\ hand \in [Runs -> Seq(Frame)] /\ hand[r] \in Seq(Frame) /\ chan[r] \in Seq(Frame)
      /\ cap[r] \in Contents /\ clock \in Nat /\ torn \in [Runs -> [Streams -> 0 .. 2]]
      /\ clock \in 0 .. MaxClock /\ phase \in [Runs -> Phases]
      /\ phase[r] \in {"open", "flush"}
  BY LogsAssumption DEF WriteInv, WriteTypes
<1>2. RunInv(r) /\ hand[r] # <<>>
  BY DEF WriteInv
<1>3. Live(r) /\ Len(hand[r]) = 1
  <2> HIDE DEF Write
  <2>1. Len(hand[r]) \in Nat /\ Len(hand[r]) # 0
    BY <1>1, <1>2
  <2>2. Len(hand[r]) <= 1 /\ wr[r] = "run"
    BY <1>2 DEF RunInv
  <2>3. Len(hand[r]) = 1
    <3> DEFINE n == Len(hand[r])
    <3>1. n \in Nat /\ n # 0 /\ n <= 1
      BY <2>1, <2>2
    <3> HIDE DEF n
    <3>2. n = 1
      BY <3>1
    <3> QED
      BY <3>2 DEF n
  <2>4. Live(r)
    BY <1>1, <2>2 DEF Live
  <2> QED
    BY <2>3, <2>4
<1>4. h \in Frame /\ hand[r] = <<h>> /\ s \in Streams
  BY <1>1, <1>3, FrameParts
<1>5. F[s] \in Seq(Frame) /\ F[s] \o <<h>> = Append(F[s], h)
  BY <1>1, <1>4, AppendIsConcat DEF Contents
<1> DEFINE G == [F EXCEPT ![s] = Append(@, h)]
<1>6. G \in Contents /\ file' = [file EXCEPT ![r] = G]
  <2>1. Append(F[s], h) \in Seq(Frame)
    <3> HIDE DEF Write, F, s, h
    <3> QED
      BY <1>4, <1>5
  <2>2. file' = [file EXCEPT ![r][s] = Append(F[s], h)]
    BY <1>4, <1>5
  <2>3. G \in Contents
    BY <1>1, <2>1 DEF Contents
  <2>4. file' = [file EXCEPT ![r] = G]
    BY <2>2
  <2> QED
    BY <2>3, <2>4
<1>7. torn' \in [Runs -> [Streams -> 0 .. 2]] /\ hand' = [hand EXCEPT ![r] = <<>>]
  <2> DEFINE z == [torn[r] EXCEPT ![s] = 0]
  <2>1. z \in [Streams -> 0 .. 2] /\ torn' = [torn EXCEPT ![r] = z]
    BY <1>1, <1>4
  <2> HIDE DEF z, s
  <2> QED
    BY <1>1, <2>1
<1>8. UNCHANGED <<clock, phase, cap, captured, chan, wr>>
  OBVIOUS
<1> HIDE DEF Write, h, s, F, G
<1>9. file' \in [Runs -> Contents] /\ file'[r] = G /\ hand'[r] = <<>> /\ hand' \in [Runs -> Seq(Frame)]
      /\ \A q \in Runs : q # r => file'[q] = file[q] /\ hand'[q] = hand[q]
  BY <1>1, <1>6, <1>7
<1>10. WriteTypes'
  BY <1>7, <1>8, <1>9 DEF WriteInv, WriteTypes
<1>11. clock <= clock' /\ \A q \in Runs : q # r => Same(q)
  BY <1>1, <1>8, <1>9 DEF Same
<1>12. RunInv(r)'
  <2> DEFINE C == captured[r]
             K == cap[r]
             R == chan[r]
  <2>1. Timed(C, clock) /\ AllBegin(F, C) /\ Pipe(F, C, <<h>> \o R, K)
    BY <1>2, <1>3, <1>4 DEF RunInv, F
  <2>2. C \in Contents /\ K \in Contents /\ R \in Seq(Frame) /\ F \in Contents
    BY <1>1 DEF F
  <2>3. /\ captured'[r] = C /\ cap'[r] = K /\ chan'[r] = R /\ wr'[r] = "run"
        /\ phase'[r] = phase[r] /\ clock' = clock
    BY <1>3, <1>8 DEF Live
  <2> HIDE DEF C, K, R
  <2>4. AllBegin(G, C) /\ Pipe(G, C, R, K)
    BY <1>1, <1>4, <2>1, <2>2, PipeWrite DEF G, s
  <2>5. <<>> \o R = R /\ Len(<<>>) = 0
    BY <2>2
  <2>6. Pipe(G, C, hand'[r] \o R, K) /\ Len(hand'[r]) <= 1
    BY <1>9, <2>4, <2>5
  <2>7. phase[r] = "flush" => \A t \in Streams : cap'[r][t] = <<>>
    BY <1>2, <1>8 DEF RunInv, AllSent
  <2> QED
    BY <1>9, <2>1, <2>3, <2>4, <2>6, <2>7 DEF RunInv, AllSent
<1> QED
  BY <1>10, <1>11, <1>12, OthersSame

(* What only moves frames between the channel and the hand.               *)
LEMMA RecvStep ==
  ASSUME WriteInv, NEW r \in Runs, Recv(r)
  PROVE  WriteInv'
<1> USE DEF Recv
<1>1. /\ hand \in [Runs -> Seq(Frame)] /\ chan \in [Runs -> Seq(Frame)] /\ chan[r] \in Seq(Frame)
      /\ chan[r] # <<>> /\ hand[r] = <<>> /\ clock \in Nat
  BY LogsAssumption DEF WriteInv, WriteTypes
<1> DEFINE R == chan[r]
           o == <<Head(R)>>
<1>2. o \in Seq(Frame) /\ Tail(R) \in Seq(Frame) /\ Len(o) = 1
  BY <1>1
<1>3. o \o Tail(R) = R
  BY <1>1
<1>4. hand' = [hand EXCEPT ![r] = o] /\ chan' = [chan EXCEPT ![r] = Tail(R)]
      /\ UNCHANGED <<clock, phase, cap, captured, wr, file, torn>> /\ wr[r] = "run"
  OBVIOUS
<1>5. <<>> \o R = R
  BY <1>1
<1> HIDE DEF Recv, o
<1>6. /\ hand'[r] = o /\ chan'[r] = Tail(R) /\ hand' \in [Runs -> Seq(Frame)]
      /\ chan' \in [Runs -> Seq(Frame)]
      /\ \A q \in Runs : q # r => hand'[q] = hand[q] /\ chan'[q] = chan[q]
  BY <1>1, <1>2, <1>4
<1>7. WriteTypes'
  BY <1>4, <1>6 DEF WriteInv, WriteTypes
<1>8. clock <= clock' /\ \A q \in Runs : q # r => Same(q)
  BY <1>1, <1>4, <1>6 DEF Same
<1>9. RunInv(r)'
  <2>1. RunInv(r)
    BY DEF WriteInv
  <2>2. hand'[r] \o chan'[r] = hand[r] \o chan[r] /\ Len(hand'[r]) <= 1
    BY <1>1, <1>2, <1>3, <1>5, <1>6
  <2> QED
    BY <1>4, <2>1, <2>2 DEF RunInv, Live, AllSent
<1> QED
  BY <1>7, <1>8, <1>9, OthersSame

LEMMA WriterDoneStep ==
  ASSUME WriteInv, NEW r \in Runs, WriterDone(r)
  PROVE  WriteInv'
<1> USE DEF WriterDone, ChannelDry
<1>1. wr \in [Runs -> {"run", "done", "failed"}] /\ clock \in Nat
  BY LogsAssumption DEF WriteInv, WriteTypes
<1>2. WriteTypes'
  BY <1>1 DEF WriteInv, WriteTypes
<1>3. clock <= clock' /\ \A q \in Runs : q # r => Same(q)
  BY <1>1 DEF Same
<1>4. RunInv(r)'
  <2>1. RunInv(r) /\ Live(r) /\ AllSent(r) /\ wr'[r] = "done"
    BY <1>1 DEF WriteInv, RunInv, Live
  <2> DEFINE F == file[r]
             C == captured[r]
             K == cap[r]
  <2>2. AllBegin(F, C) /\ NoneLost(F, C, <<>>, K) /\ \A s \in Streams : K[s] = <<>>
    <3>1. hand[r] \o chan[r] = <<>>
      OBVIOUS
    <3> QED
      BY <2>1, <3>1 DEF RunInv, Pipe, AllSent
  <2>3. \A s \in Streams : Len(F[s]) \in Nat /\ Len(C[s]) \in Nat
    BY DEF WriteInv, WriteTypes, Contents
  <2>4. ASSUME NEW s \in Streams PROVE Len(F[s]) = Len(C[s])
    <3>1. Len(F[s]) <= Len(C[s])
      BY <2>2 DEF AllBegin, Begins
    <3>2. ~ (Len(F[s]) + 1 \in Waiting(F, C, s))
      BY <2>2 DEF NoneLost
    <3>3. Len(F[s]) < Len(C[s]) => Len(F[s]) + 1 \in Waiting(F, C, s)
      BY <2>3 DEF Waiting
    <3> HIDE DEF F, C
    <3> QED
      BY <2>3, <3>1, <3>2, <3>3
  <2> QED
    BY <2>1, <2>4 DEF RunInv, Live, AllSent
<1> QED
  BY <1>2, <1>3, <1>4, OthersSame
(* The steps of a run that move no frame, and those that lose some.        *)
LEMMA PhaseStep ==
  ASSUME WriteInv, NEW r \in Runs,
         StartRun(r) \/ EndCapture(r) \/ WritePart(r) \/ Close(r) \/ Sweep(r)
  PROVE  WriteInv'
<1>1. /\ phase \in [Runs -> Phases] /\ wr \in [Runs -> {"run", "done", "failed"}] /\ clock \in Nat
      /\ torn \in [Runs -> [Streams -> 0 .. 2]] /\ hand \in [Runs -> Seq(Frame)]
      /\ RunInv(r)
  BY LogsAssumption DEF WriteInv, WriteTypes
<1>2. UNCHANGED <<clock, cap, captured, chan, wr, hand, file>>
  BY DEF StartRun, EndCapture, WritePart, Close, Sweep
<1>3. torn' \in [Runs -> [Streams -> 0 .. 2]]
  <2>1. CASE WritePart(r)
    <3> DEFINE s == hand[r][1].s
    <3>1. hand[r] # <<>> /\ hand[r] \in Seq(Frame)
      BY <1>1, <2>1 DEF WritePart
    <3>2. hand[r][1] \in Frame
      BY <3>1
    <3>3. s \in Streams
      BY <3>2, FrameParts
    <3>4. PICK n \in torn[r][s] + 1 .. 2 : torn' = [torn EXCEPT ![r][s] = n]
      BY <2>1 DEF WritePart
    <3>5. torn[r] \in [Streams -> 0 .. 2]
      BY <1>1
    <3>6. n \in 0 .. 2
      BY <3>3, <3>5
    <3> DEFINE z == [torn[r] EXCEPT ![s] = n]
    <3>7. z \in [Streams -> 0 .. 2] /\ torn' = [torn EXCEPT ![r] = z]
      BY <3>4, <3>5, <3>6
    <3> HIDE DEF z, s
    <3> QED
      BY <1>1, <3>7
  <2>2. CASE UNCHANGED torn
    BY <1>1, <2>2
  <2> QED
    BY <2>1, <2>2 DEF StartRun, EndCapture, WritePart, Close, Sweep
<1>4. phase' \in [Runs -> Phases] /\ \A q \in Runs : q # r => phase'[q] = phase[q]
  BY <1>1 DEF StartRun, EndCapture, WritePart, Close, Sweep, Phases, Over
<1>5. WriteTypes'
  BY <1>2, <1>3, <1>4 DEF WriteInv, WriteTypes
<1>6. clock <= clock' /\ \A q \in Runs : q # r => Same(q)
  BY <1>1, <1>2, <1>4 DEF Same
<1>7. /\ phase'[r] = "flush" => AllSent(r)
      /\ wr[r] = "done" => phase'[r] \notin {"absent", "open"}
      /\ Live(r)' => Live(r)
  <2>1. CASE StartRun(r)
    BY <1>1, <2>1 DEF StartRun, Live, RunInv
  <2>2. CASE EndCapture(r)
    BY <1>1, <2>2 DEF EndCapture, Live
  <2>3. CASE WritePart(r)
    BY <1>1, <2>3 DEF WritePart, Live, RunInv
  <2>4. CASE Close(r)
    BY <1>1, <2>4 DEF Close, Live, Over
  <2>5. CASE Sweep(r)
    BY <1>1, <2>5 DEF Sweep, Live, Over
  <2> QED
    BY <2>1, <2>2, <2>3, <2>4, <2>5
<1>8. RunInv(r)'
  BY <1>1, <1>2, <1>7 DEF RunInv, AllSent
<1> QED
  BY <1>5, <1>6, <1>8, OthersSame

LEMMA FaultStep ==
  ASSUME WriteInv, NEW r \in Runs, WriterFails(r) \/ Kill(r)
  PROVE  WriteInv'
<1>1. /\ phase \in [Runs -> Phases] /\ wr \in [Runs -> {"run", "done", "failed"}] /\ clock \in Nat
      /\ hand \in [Runs -> Seq(Frame)] /\ chan \in [Runs -> Seq(Frame)] /\ cap \in [Runs -> Contents]
      /\ RunInv(r) /\ <<>> \in Seq(Frame) /\ Len(<<>>) = 0 /\ Nothing \in Contents
  BY LogsAssumption DEF WriteInv, WriteTypes, Nothing, Contents
<1>2. UNCHANGED <<clock, captured, file, torn>>
  BY DEF WriterFails, Kill
<1>3. /\ phase' \in [Runs -> Phases] /\ wr' \in [Runs -> {"run", "done", "failed"}]
      /\ cap' \in [Runs -> Contents]
      /\ \A q \in Runs : q # r => phase'[q] = phase[q] /\ wr'[q] = wr[q] /\ cap'[q] = cap[q]
  BY <1>1 DEF WriterFails, Kill, Phases, Over
<1>4. /\ hand' \in [Runs -> Seq(Frame)] /\ chan' \in [Runs -> Seq(Frame)] /\ hand'[r] = <<>>
      /\ \A q \in Runs : q # r => hand'[q] = hand[q] /\ chan'[q] = chan[q]
  <2>1. chan' = [chan EXCEPT ![r] = <<>>] /\ hand' = [hand EXCEPT ![r] = <<>>]
    BY DEF WriterFails, Kill
  <2> QED
    BY <1>1, <2>1
<1>5. WriteTypes'
  BY <1>2, <1>3, <1>4 DEF WriteInv, WriteTypes
<1>6. clock <= clock' /\ \A q \in Runs : q # r => Same(q)
  BY <1>1, <1>2, <1>3, <1>4 DEF Same
<1>7. /\ phase'[r] = "flush" => AllSent(r)'
      /\ wr'[r] = "done" => wr[r] = "done" /\ phase'[r] \notin {"absent", "open"}
      /\ ~ Live(r)'
  <2>1. CASE WriterFails(r)
    BY <1>1, <2>1 DEF WriterFails, Live, RunInv, AllSent
  <2>2. CASE Kill(r)
    BY <1>1, <2>2 DEF Kill, Live, Over
  <2> QED
    BY <2>1, <2>2
<1>8. RunInv(r)'
  BY <1>1, <1>2, <1>4, <1>7 DEF RunInv
<1> QED
  BY <1>5, <1>6, <1>8, OthersSame

LEMMA ReadSteps ==
  ASSUME Reading \/ UNCHANGED vars
  PROVE  UNCHANGED writeVars
BY DEF Reading, Start, ReadFile, ReadOffset, ShowTail, TakeSize, ShowPoll, Show, PollAgain, TimeOut,
       Query, Drain, Switch, vars, writeVars

LEMMA WriteNext ==
  ASSUME WriteInv, [Next]_vars
  PROVE  WriteInv'
<1>1. CASE Reading \/ UNCHANGED vars
  <2>1. UNCHANGED writeVars
    BY <1>1, ReadSteps
  <2> QED
    BY <2>1 DEF writeVars, WriteInv, WriteTypes, RunInv, Live, AllSent
<1>2. ASSUME NEW r \in Runs, NEW s \in Streams, Stamp(r, s) \/ Send(r, s)
      PROVE  WriteInv'
  BY <1>2, StampStep, SendStep
<1>3. ASSUME NEW r \in Runs, Recv(r) \/ Write(r) \/ WriterDone(r)
      PROVE  WriteInv'
  BY <1>3, RecvStep, WriteStep, WriterDoneStep
<1>4. ASSUME NEW r \in Runs,
             StartRun(r) \/ EndCapture(r) \/ WritePart(r) \/ Close(r) \/ Sweep(r)
      PROVE  WriteInv'
  BY <1>4, PhaseStep
<1>5. ASSUME NEW r \in Runs, WriterFails(r) \/ Kill(r)
      PROVE  WriteInv'
  BY <1>5, FaultStep
<1> QED
  BY <1>1, <1>2, <1>3, <1>4, <1>5 DEF Next, Pipeline

LEMMA WriteInvariant == Spec => []WriteInv
<1>1. Init => WriteInv
  BY WriteInit
<1>2. WriteInv /\ [Next]_vars => WriteInv'
  BY WriteNext
<1> QED
  BY <1>1, <1>2, PTL DEF Spec

(* What is captured is stored in its order and without a gap, and all of it *)
(* by the time a run whose writer did not fail is recorded as ended.        *)
THEOREM StoredInOrder == Spec => []Stored
<1>1. WriteInv => Stored
  <2> SUFFICES ASSUME WriteInv, NEW r \in Runs, NEW s \in Streams
               PROVE  /\ IsPrefix(file[r][s], captured[r][s])
                      /\ phase[r] = "closed" /\ wr[r] = "done" => file[r][s] = captured[r][s]
    BY DEF Stored
  <2> DEFINE f == file[r][s]
             c == captured[r][s]
  <2>1. f \in Seq(Frame) /\ c \in Seq(Frame) /\ Begins(f, c) /\ RunInv(r)
    BY DEF WriteInv, WriteTypes, Contents, RunInv, AllBegin
  <2>2. wr[r] = "done" => Len(f) = Len(c)
    BY <2>1 DEF RunInv
  <2> HIDE DEF f, c
  <2>3. IsPrefix(f, c)
    BY <2>1 DEF IsPrefix, Begins
  <2>4. wr[r] = "done" => f = c
    BY <2>1, <2>2, SeqEqual DEF Begins
  <2> QED
    BY <2>3, <2>4 DEF f, c
<1> QED
  BY <1>1, WriteInvariant, PTL
LEMMA FilesOrdered ==
  ASSUME WriteInv, NEW r \in Runs
  PROVE  file[r] \in Contents /\ Ordered(file[r]) /\ Timed(file[r], clock)
<1>1. file[r] \in Contents /\ captured[r] \in Contents
  BY DEF WriteInv, WriteTypes
<1>2. Timed(captured[r], clock) /\ AllBegin(file[r], captured[r])
  BY DEF WriteInv, RunInv
<1>3. Timed(file[r], clock)
  BY <1>1, <1>2, TimedPrefix
<1> QED
  BY <1>1, <1>3, TimedOrdered

(* However far the writers are, the merge that stops early, the heads, the  *)
(* tails and the ranges all read the same history.                         *)
THEOREM OneHistory == Spec => []ReadersAgree
<1>1. WriteInv => ReadersAgree
  <2> SUFFICES ASSUME WriteInv, NEW r \in Runs, NEW v \in AnyView
               PROVE  LET all == ReadAll(file[r], v)
                          in(a, b) == During(all, a .. b)
                      IN  /\ \A n \in 0 .. 2 : ReadHead(file[r], v, n) = FirstN(all, n)
                          /\ \A a, b \in 0 .. MaxClock :
                               /\ ReadRange(file[r], v, a, b) = in(a, b)
                               /\ GetLogs(file[r], v, "tail", a, 1, 0, 0) = LastN(in(a, MaxClock), 1)
                               /\ GetLogs(file[r], v, "range", a, 1, b, MaxClock)
                                    = in(IF a > b THEN a ELSE b, MaxClock)
    BY DEF ReadersAgree
  <2> DEFINE F == file[r]
             all == ReadAll(F, v)
             in(a, b) == During(all, a .. b)
  <2>1. F \in Contents /\ Ordered(F) /\ MaxClock \in Int
    BY FilesOrdered, LogsAssumption
  <2> HIDE DEF F
  <2>2. \A n \in 0 .. 2 : ReadHead(F, v, n) = FirstN(all, n)
    BY <2>1, ReadHeadIs
  <2>3. \A a, b \in Int : b <= MaxClock => ReadRange(F, v, a, b) = in(a, b)
    BY <2>1, ReadRangeIs
  <2> HIDE DEF in
  <2>4. ASSUME NEW a \in 0 .. MaxClock, NEW b \in 0 .. MaxClock
        PROVE  /\ ReadRange(F, v, a, b) = in(a, b)
               /\ GetLogs(F, v, "tail", a, 1, 0, 0) = LastN(in(a, MaxClock), 1)
               /\ GetLogs(F, v, "range", a, 1, b, MaxClock) = in(IF a > b THEN a ELSE b, MaxClock)
    <3>1. ReadRange(F, v, a, b) = in(a, b) /\ ReadRange(F, v, a, MaxClock) = in(a, MaxClock)
      BY <2>1, <2>3
    <3> DEFINE c == IF a > b THEN a ELSE b
    <3>2. c \in Int
      OBVIOUS
    <3> HIDE DEF c
    <3>3. ReadRange(F, v, c, MaxClock) = in(c, MaxClock)
      BY <2>1, <2>3, <3>2
    <3>4. GetLogs(F, v, "tail", a, 1, 0, 0) = LastN(in(a, MaxClock), 1)
      BY <3>1 DEF GetLogs
    <3>5. GetLogs(F, v, "range", a, 1, b, MaxClock) = in(c, MaxClock)
      BY <3>3 DEF GetLogs, c
    <3> QED
      BY <3>1, <3>4, <3>5 DEF c
  <2> QED
    BY <2>2, <2>4 DEF F, in
<1> QED
  BY <1>1, WriteInvariant, PTL

(* A search over the runs gives no more than was asked for, nothing that    *)
(* does not match or is out of its window, and without a window the first   *)
(* matches of the latest runs.                                             *)
THEOREM SearchesAreSound == Spec => []SearchSound
<1>1. WriteInv => SearchSound
  <2> SUFFICES ASSUME WriteInv, NEW v \in AnyView, NEW n \in 1 .. 2, NEW a \in 0 .. MaxClock,
                      NEW b \in 0 .. MaxClock
               PROVE  LET found == SearchLogs(v, n, a, b)
                          hits[i \in 0 .. NRuns] ==
                            IF i = 0 THEN <<>>
                            ELSE hits[i - 1] \o During(ReadAll(file[NRuns + 1 - i], v), Hits)
                      IN  /\ \A i \in DOMAIN found : i <= n /\ found[i].ts \in Hits /\ found[i].ts \in a .. b
                          /\ a = 0 /\ b = MaxClock => found = FirstN(hits[NRuns], n)
    BY DEF SearchSound
  <2> DEFINE found == SearchLogs(v, n, a, b)
  <2>1. \A r \in Runs : file[r] \in Contents /\ Ordered(file[r])
    BY FilesOrdered
  <2>2. n \in Nat /\ a \in Int /\ b \in Int
    BY LogsAssumption
  <2>3. /\ found \in Seq(Frame) /\ Len(found) <= n
        /\ \A i \in 1 .. Len(found) : found[i].ts \in Hits /\ found[i].ts \in a .. b
        /\ a = 0 /\ b = MaxClock => found = FirstN(RunHits(v)[NRuns], n)
    BY <2>1, <2>2, SearchIs
  <2> HIDE DEF found
  <2>4. DOMAIN found = 1 .. Len(found) /\ \A i \in 1 .. Len(found) : i <= n
    BY <2>2, <2>3
  <2>5. \A i \in DOMAIN found : i <= n /\ found[i].ts \in Hits /\ found[i].ts \in a .. b
    BY <2>3, <2>4
  <2> QED
    BY <2>3, <2>5 DEF found, RunHits
<1> QED
  BY <1>1, WriteInvariant, PTL
-----------------------------------------------------------------------------
(* The reader.  What a step of a run means to it: files grow, and those of  *)
(* a run that is over do not.                                              *)
Longer(fs, gs) == gs = fs \/ \E h \in Frame : gs = Append(fs, h)
Grows(r) ==
  /\ phase[r] # "absent" => phase'[r] # "absent"
  /\ phase[r] \in Over => phase'[r] \in Over /\ file'[r] = file[r]
  /\ \A s \in Streams : Longer(file[r][s], file'[r][s])

LEMMA RunsGrow ==
  ASSUME WriteInv, [Next]_vars
  PROVE  \/ UNCHANGED writeVars
         \/ UNCHANGED readVars /\ clock <= clock' /\ \A r \in Runs : Grows(r)
<1>0. /\ phase \in [Runs -> Phases] /\ clock \in Nat /\ file \in [Runs -> Contents]
      /\ hand \in [Runs -> Seq(Frame)]
  BY LogsAssumption DEF WriteInv, WriteTypes
<1>1. CASE Reading \/ UNCHANGED vars
  BY <1>1, ReadSteps
<1>2. ASSUME NEW r \in Runs, NEW s \in Streams, Stamp(r, s) \/ Send(r, s)
      PROVE  UNCHANGED readVars /\ clock <= clock' /\ \A q \in Runs : Grows(q)
  <2>1. UNCHANGED <<readVars, file, phase>> /\ (clock' = clock + 1 \/ clock' = clock)
    <3>1. CASE Stamp(r, s)
      BY <3>1, Zenon DEF Stamp
    <3>2. CASE Send(r, s)
      BY <3>2, Zenon DEF Send
    <3> QED
      BY <1>2, <3>1, <3>2
  <2>2. clock <= clock'
    BY <1>0, <2>1
  <2> QED
    BY <2>1, <2>2 DEF Grows, Longer
<1>3. ASSUME NEW r \in Runs, Recv(r) \/ WriterDone(r)
      PROVE  UNCHANGED readVars /\ clock <= clock' /\ \A q \in Runs : Grows(q)
  <2>1. UNCHANGED <<readVars, clock, file, phase>>
    BY <1>3, Zenon DEF Recv, WriterDone
  <2> QED
    BY <1>0, <2>1 DEF Grows, Longer
<1>4. ASSUME NEW r \in Runs, StartRun(r) \/ EndCapture(r) \/ WritePart(r) \/ Close(r) \/ Sweep(r)
                               \/ WriterFails(r) \/ Kill(r)
      PROVE  UNCHANGED readVars /\ clock <= clock' /\ \A q \in Runs : Grows(q)
  <2>1. UNCHANGED readVars /\ clock <= clock' /\ file' = file
    BY <1>0, <1>4 DEF StartRun, EndCapture, WritePart, Close, Sweep, WriterFails, Kill
  <2>2. \A q \in Runs : /\ phase[q] # "absent" => phase'[q] # "absent"
                        /\ phase[q] \in Over => phase'[q] \in Over
    BY <1>0, <1>4 DEF StartRun, EndCapture, WritePart, Close, Sweep, WriterFails, Kill, Over
  <2> QED
    BY <2>1, <2>2 DEF Grows, Longer
<1>5. ASSUME NEW r \in Runs, Write(r)
      PROVE  UNCHANGED readVars /\ clock <= clock' /\ \A q \in Runs : Grows(q)
  <2> DEFINE h == hand[r][1]
             s == h.s
             f == file[r][s]
  <2>1. UNCHANGED <<readVars, clock, phase>> /\ clock <= clock' /\ phase[r] \in {"open", "flush"}
    BY <1>0, <1>5 DEF Write
  <2>2. RunInv(r) /\ hand[r] # <<>> /\ hand[r] \in Seq(Frame)
    BY <1>0, <1>5 DEF WriteInv, Write
  <2>3. h \in Frame /\ s \in Streams /\ hand[r] = <<h>>
    <3> DEFINE H == hand[r]
    <3>1. H \in Seq(Frame) /\ H # <<>> /\ Len(H) <= 1
      BY <2>2 DEF RunInv
    <3>2. h = H[1]
      OBVIOUS
    <3> HIDE DEF H, h
    <3>3. H = <<H[1]>> /\ H[1] \in Frame
      BY <3>1
    <3> QED
      BY <3>2, <3>3, FrameParts DEF H
  <2>4. f \in Seq(Frame)
    BY <1>0, <2>3 DEF Contents
  <2>5. file' = [file EXCEPT ![r][s] = f \o <<h>>]
    BY <1>5, <2>3 DEF Write
  <2> HIDE DEF f, h, s
  <2>6. f \o <<h>> = Append(f, h)
    BY <2>3, <2>4, AppendIsConcat
  <2> DEFINE z == [file[r] EXCEPT ![s] = Append(f, h)]
  <2>7. file' = [file EXCEPT ![r] = z] /\ z[s] = Append(f, h) /\ \A t \in Streams : t # s => z[t] = file[r][t]
    BY <1>0, <2>3, <2>5, <2>6 DEF Contents
  <2> HIDE DEF z
  <2>8. file'[r] = z /\ \A q \in Runs : q # r => file'[q] = file[q]
    BY <1>0, <2>7
  <2>9. Grows(r)
    <3>1. phase[r] \notin Over
      BY <2>1 DEF Over
    <3>2. \A t \in Streams : file'[r][t] = file[r][t] \/ (t = s /\ file'[r][t] = Append(file[r][t], h))
      BY <2>7, <2>8 DEF f
    <3> QED
      BY <2>1, <2>3, <3>1, <3>2 DEF Grows, Longer
  <2>10. \A q \in Runs : q # r => Grows(q)
    BY <2>1, <2>8 DEF Grows, Longer
  <2> QED
    BY <2>1, <2>9, <2>10
<1> QED
  BY <1>1, <1>2, <1>3, <1>4, <1>5 DEF Next, Pipeline

(* Some frames of the files of a run, in their order.                      *)
Part(G, F) ==
  \A s \in Streams : /\ Rising(G[s])
                    /\ \A i \in 1 .. Len(G[s]) : \E k \in 1 .. Len(F[s]) : G[s][i] = F[s][k]
LEMMA PartOrdered ==
  ASSUME NEW F \in Contents, NEW G \in Contents, Ordered(F), Part(G, F)
  PROVE  Ordered(G)
<1>1. ASSUME NEW s \in Streams
      PROVE  Rising(G[s]) /\ \A i \in 1 .. Len(G[s]) : G[s][i].s = s
  <2>1. \A k \in 1 .. Len(F[s]) : F[s][k].s = s
    BY DEF Ordered
  <2> QED
    BY <2>1 DEF Part
<1> QED
  BY <1>1 DEF Ordered

LEMMA PartGrows ==
  ASSUME NEW r \in Runs, WriteInv, Grows(r), NEW G, Part(G, file[r])
  PROVE  Part(G, file'[r])
<1> SUFFICES ASSUME NEW s \in Streams, NEW i \in 1 .. Len(G[s])
             PROVE  \E k \in 1 .. Len(file'[r][s]) : G[s][i] = file'[r][s][k]
  BY DEF Part
<1> DEFINE f == file[r][s]
           g == file'[r][s]
<1>1. f \in Seq(Frame)
  BY DEF WriteInv, WriteTypes, Contents
<1>2. PICK k \in 1 .. Len(f) : G[s][i] = f[k]
  BY DEF Part
<1>3. g = f \/ \E h \in Frame : g = Append(f, h)
  BY DEF Grows, Longer
<1> HIDE DEF f, g
<1>4. k \in 1 .. Len(g) /\ g[k] = f[k]
  <2>1. CASE g = f
    BY <2>1
  <2>2. ASSUME NEW h \in Frame, g = Append(f, h)
        PROVE  k \in 1 .. Len(g) /\ g[k] = f[k]
    BY <1>1, <2>2, AppendProperties
  <2> QED
    BY <1>3, <2>1, <2>2
<1> QED
  BY <1>2, <1>4 DEF g

LEMMA NothingIs == Nothing \in Contents /\ \A s \in Streams : Nothing[s] = <<>> /\ Len(Nothing[s]) = 0
  BY DEF Nothing, Contents

LEMMA PartNothing ==
  ASSUME NEW F
  PROVE  Part(Nothing, F)
  BY NothingIs DEF Part, Rising

(* The greatest of a set of runs.                                          *)
LEMMA GreatestOf ==
  ASSUME NEW S, S \subseteq Runs, S # {}
  PROVE  \E x \in S : \A y \in S : y <= x
<1> NRuns \in Nat
  BY LogsAssumption
<1> DEFINE T == {n \in 0 .. NRuns : NRuns - n \in S}
<1>1. T \subseteq Nat
  OBVIOUS
<1>2. \A y \in S : y \in Int /\ NRuns - y \in T
  <2> SUFFICES ASSUME NEW y \in S
               PROVE  y \in Int /\ NRuns - y \in T
    OBVIOUS
  <2>1. y \in 1 .. NRuns
    BY DEF Runs
  <2> QED
    BY <2>1
<1>3. T # {}
  BY <1>2
<1>4. PICK n \in T : \A m \in T : n <= m
  BY <1>1, <1>3, LeastOf
<1>5. NRuns - n \in S /\ n \in 0 .. NRuns
  OBVIOUS
<1>6. \A y \in S : n <= NRuns - y
  BY <1>2, <1>4
<1> HIDE DEF T
<1>7. \A y \in S : y <= NRuns - n
  BY <1>2, <1>5, <1>6
<1> QED
  BY <1>5, <1>7

(* The run an id or a follower is resolved to: the greatest one whose row   *)
(* is running, the greatest of all if none is.                             *)
LEMMA LatestIs ==
  ASSUME Started # {}
  PROVE  /\ Latest \in Runs /\ phase[Latest] # "absent"
         /\ Running # {} => Latest \in Running /\ \A q \in Running : q <= Latest
         /\ Running = {} => \A q \in Started : q <= Latest
<1> DEFINE rs == IF Running # {} THEN Running ELSE Started
<1>1. rs \subseteq Started /\ rs \subseteq Runs /\ rs # {}
  BY DEF Running, Started
<1>2. \E x \in rs : \A y \in rs : y <= x
  BY <1>1, GreatestOf
<1>3. Latest = CHOOSE r \in rs : \A q \in rs : q <= r
  BY DEF Latest
<1> HIDE DEF rs
<1>4. Latest \in rs /\ \A q \in rs : q <= Latest
  BY <1>2, <1>3
<1>5. Latest \in Started
  BY <1>1, <1>4
<1> QED
  BY <1>4, <1>5 DEF rs, Started

(* What a poll takes from what it read: the frames of after the cursor, in   *)
(* order; and where the cursor then stands.                                *)
LEMMA TakenInTime ==
  ASSUME NEW G \in Contents, Ordered(G), NEW v \in Views, NEW t \in 0 .. MaxClock
  PROVE  LET new == ReadRange(G, v, t + 1, MaxClock)
         IN  /\ new = During(ReadAll(G, v), t + 1 .. MaxClock)
             /\ new \in Seq(Frame) /\ Rising(new)
             /\ \A i \in 1 .. Len(new) : new[i].ts > t
<1> DEFINE all == ReadAll(G, v)
           a == t + 1
           new == ReadRange(G, v, a, MaxClock)
<1>1. MaxClock \in Nat /\ t \in Nat /\ a \in Int /\ a > t
  BY LogsAssumption
<1>2. all \in Seq(Frame) /\ Rising(all) /\ v \in AnyView
  BY ReadAllIs, KnownViews
<1>3. a = t + 1
  OBVIOUS
<1> HIDE DEF a
<1>4. new = During(all, a .. MaxClock)
  BY <1>1, <1>2, ReadRangeIs
<1> HIDE DEF all, new
<1>5. /\ new \in Seq(Frame) /\ Rising(new)
      /\ \A i \in 1 .. Len(new) : new[i].ts \in a .. MaxClock
  BY <1>2, <1>4, DuringSelects
<1>6. \A i \in 1 .. Len(new) : new[i].ts > t
  BY <1>1, <1>5
<1> QED
  BY <1>3, <1>4, <1>5, <1>6 DEF new, all

LEMMA LastTsIs ==
  ASSUME NEW fs \in Seq(Frame), Rising(fs)
  PROVE  /\ LastTs(fs) \in 0 .. MaxClock
         /\ \A i \in 1 .. Len(fs) : fs[i].ts <= LastTs(fs)
         /\ fs # <<>> => Len(fs) \in 1 .. Len(fs) /\ LastTs(fs) = fs[Len(fs)].ts
<1>1. MaxClock \in Nat
  BY LogsAssumption
<1>2. CASE fs = <<>>
  BY <1>1, <1>2 DEF LastTs
<1>3. CASE fs # <<>>
  <2>1. Len(fs) \in 1 .. Len(fs) /\ LastTs(fs) = fs[Len(fs)].ts
    BY <1>3 DEF LastTs
  <2>2. LastTs(fs) \in 1 .. MaxClock /\ \A i \in 1 .. Len(fs) : fs[i].ts \in Int
    BY <2>1, Elements
  <2>3. ASSUME NEW i \in 1 .. Len(fs)
        PROVE  fs[i].ts <= LastTs(fs)
    <3>1. CASE i = Len(fs)
      BY <2>1, <2>2, <3>1
    <3>2. CASE i # Len(fs)
      <4>1. i < Len(fs)
        BY <2>1, <3>2
      <4>2. Before(fs[i], fs[Len(fs)]) /\ fs[i] \in Frame /\ fs[Len(fs)] \in Frame
        BY <2>1, <4>1 DEF Rising
      <4>3. fs[i].ts <= fs[Len(fs)].ts
        BY <4>2, BeforeIs
      <4> QED
        BY <2>1, <2>2, <4>3
    <3> QED
      BY <3>1, <3>2
  <2> QED
    BY <1>1, <2>1, <2>2, <2>3
<1> QED
  BY <1>2, <1>3

LEMMA RisesOn ==
  ASSUME NEW fs \in Seq(Frame), NEW gs \in Seq(Frame), Rising(fs), Rising(gs),
         \A i \in 1 .. Len(fs) : \A j \in 1 .. Len(gs) : Before(fs[i], gs[j])
  PROVE  /\ fs \o gs \in Seq(Frame) /\ Rising(fs \o gs)
         /\ \A i \in 1 .. Len(fs \o gs) : \/ i <= Len(fs) /\ (fs \o gs)[i] = fs[i]
                                          \/ \E j \in 1 .. Len(gs) : (fs \o gs)[i] = gs[j]
<1> DEFINE hs == fs \o gs
           m == Len(fs)
           n == Len(gs)
<1>1. m \in Nat /\ n \in Nat /\ hs \in Seq(Frame) /\ Len(hs) = m + n
  BY ConcatProperties
<1>2. \A i \in 1 .. m : hs[i] = fs[i]
  BY ConcatProperties
<1>3. \A i \in 1 .. n : hs[m + i] = gs[i]
  BY ConcatProperties
<1>4. /\ \A i, j \in 1 .. m : i < j => Before(fs[i], fs[j])
      /\ \A i, j \in 1 .. n : i < j => Before(gs[i], gs[j])
  BY DEF Rising
<1>5. \A i \in 1 .. m : \A j \in 1 .. n : Before(fs[i], gs[j])
  OBVIOUS
<1> HIDE DEF hs, m, n
<1>6. ASSUME NEW i \in 1 .. Len(hs)
      PROVE  (i <= m /\ hs[i] = fs[i]) \/ (i - m \in 1 .. n /\ hs[i] = gs[i - m])
  <2>1. CASE i <= m
    BY <1>1, <1>2, <2>1
  <2>2. CASE ~(i <= m)
    <3>1. i - m \in 1 .. n /\ m + (i - m) = i
      BY <1>1, <2>2
    <3> QED
      BY <1>3, <3>1
  <2> QED
    BY <2>1, <2>2
<1>7. Rising(hs)
  <2> SUFFICES ASSUME NEW i \in 1 .. Len(hs), NEW j \in 1 .. Len(hs), i < j
               PROVE  Before(hs[i], hs[j])
    BY DEF Rising
  <2>1. CASE i <= m /\ j <= m
    BY <1>1, <1>2, <1>4, <2>1
  <2>2. CASE i <= m /\ ~(j <= m)
    <3>1. hs[i] = fs[i] /\ i \in 1 .. m
      BY <1>1, <1>2, <2>2
    <3>2. j - m \in 1 .. n /\ hs[j] = gs[j - m]
      BY <1>6, <2>2
    <3> QED
      BY <1>5, <3>1, <3>2
  <2>3. CASE ~(i <= m)
    <3>1. i - m \in 1 .. n /\ hs[i] = gs[i - m]
      BY <1>6, <2>3
    <3>2. j - m \in 1 .. n /\ hs[j] = gs[j - m]
      BY <1>1, <1>6, <2>3
    <3>3. i - m < j - m
      BY <1>1
    <3> QED
      BY <1>4, <3>1, <3>2, <3>3
  <2> QED
    BY <2>1, <2>2, <2>3
<1> QED
  BY <1>1, <1>6, <1>7 DEF hs, m, n

LEMMA LastRises ==
  ASSUME NEW fs \in Seq(Frame), Rising(fs), NEW n \in Nat
  PROVE  /\ LastN(fs, n) \in Seq(Frame) /\ Rising(LastN(fs, n))
         /\ \A i \in 1 .. Len(LastN(fs, n)) : \E k \in 1 .. Len(fs) : LastN(fs, n)[i] = fs[k]
<1> DEFINE g == LastN(fs, n)
           d == Len(fs) - Len(g)
<1>1. /\ g \in Seq(Frame) /\ Len(g) \in Nat /\ Len(g) <= Len(fs) /\ Len(fs) \in Nat
      /\ \A i \in 1 .. Len(g) : g[i] = fs[d + i]
  BY LastNIs
<1>2. d \in Nat
  BY <1>1
<1> HIDE DEF g
<1>3. \A i \in 1 .. Len(g) : d + i \in 1 .. Len(fs)
  BY <1>1
<1> HIDE DEF d
<1>4. ASSUME NEW i \in 1 .. Len(g), NEW j \in 1 .. Len(g), i < j
      PROVE  Before(g[i], g[j])
  <2>1. d + i < d + j
    BY <1>1, <1>2, <1>4
  <2> QED
    BY <1>1, <1>3, <2>1 DEF Rising
<1>5. \A i \in 1 .. Len(g) : \E k \in 1 .. Len(fs) : g[i] = fs[k]
  BY <1>1, <1>3
<1> QED
  BY <1>1, <1>4, <1>5 DEF g, Rising

(* What a follower of one stream has taken: frames of the file up to the    *)
(* m-th, in order.                                                         *)
Taken(S, F, m) ==
  Rising(S) /\ \A i \in 1 .. Len(S) : \E k \in 1 .. Len(F) : k <= m /\ S[i] = F[k]

LEMMA LongerIs ==
  ASSUME NEW F \in Seq(Frame), NEW G \in Seq(Frame), Longer(F, G)
  PROVE  Len(F) <= Len(G) /\ \A k \in 1 .. Len(F) : k \in 1 .. Len(G) /\ G[k] = F[k]
<1>1. Len(F) \in Nat
  OBVIOUS
<1>2. CASE G = F
  BY <1>1, <1>2
<1>3. ASSUME NEW h \in Frame, G = Append(F, h)
      PROVE  Len(F) <= Len(G) /\ \A k \in 1 .. Len(F) : k \in 1 .. Len(G) /\ G[k] = F[k]
  BY <1>1, <1>3, AppendProperties
<1> QED
  BY <1>2, <1>3 DEF Longer

LEMMA TakenLater ==
  ASSUME NEW F \in Seq(Frame), NEW G \in Seq(Frame), Longer(F, G), NEW m \in Int, NEW n \in Int,
         m <= n, NEW S, Taken(S, F, m)
  PROVE  Taken(S, G, n)
<1>1. \A k \in 1 .. Len(F) : k \in 1 .. Len(G) /\ G[k] = F[k]
  BY LongerIs
<1>2. ASSUME NEW i \in 1 .. Len(S)
      PROVE  \E k \in 1 .. Len(G) : k <= n /\ S[i] = G[k]
  <2>1. PICK k \in 1 .. Len(F) : k <= m /\ S[i] = F[k]
    BY DEF Taken
  <2>2. k \in Int /\ k <= n
    BY <2>1
  <2> QED
    BY <1>1, <2>1, <2>2
<1> QED
  BY <1>2 DEF Taken

LEMMA TakenMore ==
  ASSUME NEW F \in Seq(Frame), Rising(F), NEW m \in 0 .. Len(F), NEW S \in Seq(Frame), Taken(S, F, m)
  PROVE  LET rest == SubSeq(F, m + 1, Len(F))
         IN  rest \in Seq(Frame) /\ S \o rest \in Seq(Frame) /\ Taken(S \o rest, F, Len(F))
<1> DEFINE rest == SubSeq(F, m + 1, Len(F))
           n == Len(F) - m
<1>1. Len(F) \in Nat /\ m \in Nat /\ m <= Len(F) /\ n \in Nat
  OBVIOUS
<1>2. rest \in Seq(Frame) /\ Len(rest) = n /\ \A i \in 1 .. n : rest[i] = F[m + i]
  <2>1. /\ SubSeq(F, m + 1, Len(F)) \in Seq(Frame)
        /\ Len(SubSeq(F, m + 1, Len(F))) = Len(F) - m
        /\ \A i \in 1 .. Len(F) - m : SubSeq(F, m + 1, Len(F))[i] = F[m + i]
    BY <1>1
  <2> QED
    BY <2>1
<1>3. \A i \in 1 .. n : m + i \in 1 .. Len(F) /\ m + i > m
  BY <1>1
<1> HIDE DEF rest, n
<1>4. \A i, j \in 1 .. n : i < j => Before(rest[i], rest[j])
  <2> SUFFICES ASSUME NEW i \in 1 .. n, NEW j \in 1 .. n, i < j
               PROVE  Before(rest[i], rest[j])
    OBVIOUS
  <2>1. m + i < m + j
    BY <1>1
  <2> QED
    BY <1>2, <1>3, <2>1 DEF Rising
<1>5. Rising(rest)
  BY <1>2, <1>4 DEF Rising
<1>6. ASSUME NEW i \in 1 .. Len(S), NEW j \in 1 .. Len(rest)
      PROVE  Before(S[i], rest[j])
  <2>1. PICK k \in 1 .. Len(F) : k <= m /\ S[i] = F[k]
    BY DEF Taken
  <2>2. j \in 1 .. n
    BY <1>2
  <2>3. m + j \in 1 .. Len(F) /\ m + j > m /\ rest[j] = F[m + j]
    BY <1>2, <1>3, <2>2
  <2>4. k < m + j
    BY <1>1, <2>1, <2>3
  <2> QED
    BY <2>1, <2>3, <2>4 DEF Rising
<1>7. /\ S \o rest \in Seq(Frame) /\ Rising(S \o rest)
      /\ \A i \in 1 .. Len(S \o rest) : \/ i <= Len(S) /\ (S \o rest)[i] = S[i]
                                        \/ \E j \in 1 .. Len(rest) : (S \o rest)[i] = rest[j]
  BY <1>2, <1>5, <1>6, RisesOn DEF Taken
<1>8. ASSUME NEW i \in 1 .. Len(S \o rest)
      PROVE  \E k \in 1 .. Len(F) : k <= Len(F) /\ (S \o rest)[i] = F[k]
  <2>1. CASE i <= Len(S) /\ (S \o rest)[i] = S[i]
    <3>1. i \in 1 .. Len(S)
      BY <2>1
    <3>2. PICK k \in 1 .. Len(F) : S[i] = F[k]
      BY <3>1 DEF Taken
    <3> QED
      BY <2>1, <3>2
  <2>2. ASSUME NEW j \in 1 .. Len(rest), (S \o rest)[i] = rest[j]
        PROVE  \E k \in 1 .. Len(F) : k <= Len(F) /\ (S \o rest)[i] = F[k]
    <3>1. j \in 1 .. n
      BY <1>2
    <3>2. m + j \in 1 .. Len(F) /\ rest[j] = F[m + j]
      BY <1>2, <1>3, <3>1
    <3> QED
      BY <1>1, <2>2, <3>2
  <2> QED
    BY <1>7, <2>1, <2>2
<1> QED
  BY <1>2, <1>7, <1>8 DEF Taken, rest

(* Nor does what there is to read of a file ever shrink: the units of a     *)
(* frame that is half written are fewer than the frame.                    *)
LEMMA SizeGrows ==
  ASSUME WriteInv, WriteInv', [Next]_vars, NEW q \in Runs, NEW p \in Streams
  PROVE  Size(q, p) \in Nat /\ Size(q, p) <= Size(q, p)'
<1> DEFINE l == Len(file[q][p])
           u == torn[q][p]
           m == l'
           w == u'
           Goal == 3 * l + u <= 3 * m + w
<1>0. /\ file \in [Runs -> Contents] /\ torn \in [Runs -> [Streams -> 0 .. 2]]
      /\ file' \in [Runs -> Contents] /\ torn' \in [Runs -> [Streams -> 0 .. 2]]
      /\ hand \in [Runs -> Seq(Frame)]
  BY DEF WriteInv, WriteTypes
<1>1. l \in Nat /\ m \in Nat /\ u \in 0 .. 2 /\ w \in 0 .. 2
  BY <1>0 DEF Contents
<1>2. l <= m
  <2>1. CASE UNCHANGED writeVars
    BY <1>1, <2>1 DEF writeVars
  <2>2. CASE \A r \in Runs : Grows(r)
    <3> DEFINE fs == file[q][p]
               gs == file'[q][p]
    <3>1. fs \in Seq(Frame) /\ gs \in Seq(Frame) /\ Longer(fs, gs)
      BY <1>0, <2>2 DEF Contents, Grows
    <3> HIDE DEF fs, gs
    <3>2. Len(fs) <= Len(gs)
      BY <3>1, LongerIs
    <3> QED
      BY <3>2 DEF fs, gs
  <2> QED
    BY <2>1, <2>2, RunsGrow
<1>3. u <= w \/ l < m
  <2>1. CASE Reading \/ UNCHANGED vars
    <3>1. torn' = torn
      BY <2>1, ReadSteps DEF writeVars
    <3> QED
      BY <1>1, <3>1
  <2>2. ASSUME NEW r \in Runs, NEW s \in Streams, Stamp(r, s) \/ Send(r, s)
        PROVE  u <= w
    <3>1. torn' = torn
      BY <2>2, Zenon DEF Stamp, Send
    <3> QED
      BY <1>1, <3>1
  <2>3. ASSUME NEW r \in Runs, Recv(r) \/ WriterDone(r) \/ StartRun(r) \/ EndCapture(r) \/ Close(r)
                                 \/ Sweep(r) \/ WriterFails(r) \/ Kill(r)
        PROVE  u <= w
    <3>1. torn' = torn
      BY <2>3, Zenon DEF Recv, WriterDone, StartRun, EndCapture, Close, Sweep, WriterFails, Kill
    <3> QED
      BY <1>1, <3>1
  <2>4. ASSUME NEW r \in Runs, WritePart(r)
        PROVE  u <= w
    <3> DEFINE s == hand[r][1].s
               k == torn[r][s]
    <3>1. PICK n \in k + 1 .. 2 : torn' = [torn EXCEPT ![r][s] = n]
      BY <2>4 DEF WritePart
    <3>2. s \in Streams
      <4> DEFINE H == hand[r]
      <4>1. H \in Seq(Frame) /\ H # <<>>
        BY <1>0, <2>4 DEF WritePart
      <4>2. s = H[1].s
        OBVIOUS
      <4> HIDE DEF H, s
      <4>3. 1 \in 1 .. Len(H)
        BY <4>1
      <4> QED
        BY <4>1, <4>2, <4>3, Elements
    <3>3. k \in 0 .. 2
      BY <1>0, <3>2
    <3>4. CASE q = r /\ p = s
      <4>1. w = n /\ u = k
        BY <1>0, <3>1, <3>4
      <4> HIDE DEF w, u, s, k
      <4> QED
        BY <3>1, <3>3, <4>1
    <3>5. CASE ~(q = r /\ p = s)
      <4>1. w = u
        BY <1>0, <3>1, <3>2, <3>5
      <4> HIDE DEF w, u
      <4> QED
        BY <1>1, <4>1
    <3> QED
      BY <3>4, <3>5
  <2>5. ASSUME NEW r \in Runs, Write(r)
        PROVE  u <= w \/ l < m
    <3> DEFINE s == hand[r][1].s
    <3>1. file' = [file EXCEPT ![r][s] = @ \o hand[r]] /\ torn' = [torn EXCEPT ![r][s] = 0]
      BY <2>5 DEF Write
    <3>2. hand[r] \in Seq(Frame) /\ hand[r] # <<>>
      BY <1>0, <2>5 DEF Write
    <3>3. CASE q = r /\ p = s
      <4> DEFINE fs == file[q][p]
                 H == hand[r]
      <4>1. fs \in Seq(Frame) /\ H \in Seq(Frame) /\ H # <<>>
        BY <1>0, <3>2 DEF Contents
      <4>2. file'[q][p] = fs \o H
        BY <1>0, <3>1, <3>3 DEF Contents
      <4> HIDE DEF fs, H
      <4>3. Len(fs \o H) = Len(fs) + Len(H) /\ Len(H) > 0 /\ Len(fs) \in Nat
        BY <4>1
      <4>4. l = Len(fs) /\ m = Len(fs \o H)
        BY <4>2 DEF fs
      <4> HIDE DEF l, m
      <4> QED
        BY <4>3, <4>4
    <3>4. CASE ~(q = r /\ p = s)
      <4>1. w = u
        BY <1>0, <3>1, <3>4
      <4> HIDE DEF w, u
      <4> QED
        BY <1>1, <4>1
    <3> QED
      BY <3>3, <3>4
  <2> QED
    BY <2>1, <2>2, <2>3, <2>4, <2>5 DEF Next, Pipeline
<1> HIDE DEF l, u, m, w
<1>4. Goal /\ 3 * l + u \in Nat
  BY <1>1, <1>2, <1>3
<1>5. Size(q, p) = 3 * l + u /\ Size(q, p)' = 3 * m + w
  BY DEF Size, l, u, m, w
<1> HIDE DEF Goal
<1> QED
  BY <1>4, <1>5 DEF Goal

(* A frame once in a file stays where it is: a step may append to a file,   *)
(* and to none of a run that is over (readers keep offsets, and sort no     *)
(* file: logfile.rs:441).                                                  *)
AppendOnly ==
  \A r \in Runs : /\ \A s \in Streams : IsPrefix(file[r][s], file'[r][s])
                  /\ phase[r] \in Over => phase'[r] \in Over /\ file'[r] = file[r]

THEOREM FilesOnlyGrow == Spec => [][AppendOnly]_vars
<1>1. WriteInv /\ WriteInv' /\ [Next]_vars => AppendOnly
  <2> SUFFICES ASSUME WriteInv, WriteInv', [Next]_vars, NEW r \in Runs
               PROVE  /\ \A s \in Streams : IsPrefix(file[r][s], file'[r][s])
                      /\ phase[r] \in Over => phase'[r] \in Over /\ file'[r] = file[r]
    BY DEF AppendOnly
  <2>1. UNCHANGED writeVars \/ Grows(r)
    BY RunsGrow
  <2>2. phase[r] \in Over => phase'[r] \in Over /\ file'[r] = file[r]
    BY <2>1 DEF Grows, writeVars
  <2>3. ASSUME NEW s \in Streams
        PROVE  IsPrefix(file[r][s], file'[r][s])
    <3> DEFINE f == file[r][s]
               g == file'[r][s]
    <3>1. f \in Seq(Frame) /\ g \in Seq(Frame)
      BY DEF WriteInv, WriteTypes, Contents
    <3>2. Longer(f, g)
      BY <2>1 DEF Grows, Longer, writeVars
    <3> HIDE DEF f, g
    <3>3. Len(f) <= Len(g) /\ \A k \in 1 .. Len(f) : g[k] = f[k]
      BY <3>1, <3>2, LongerIs
    <3>4. IsPrefix(f, g)
      BY <3>1, <3>3 DEF IsPrefix
    <3> QED
      BY <3>4 DEF f, g
  <2> QED
    BY <2>2, <2>3
<1> QED
  BY <1>1, WriteInvariant, PTL DEF Spec

-----------------------------------------------------------------------------
(* The reader's invariant: where it is and what it holds there; that what   *)
(* it has shown is behind its cursor, be that a time or an offset.         *)
Places == {"start", "tail", "size", "poll", "query", "drain", "switch", "timer",
           "matched", "timedout"}
ReadTypes ==
  /\ job \in Jobs /\ view \in Views /\ cur \in {0} \union Runs /\ next \in {0} \union Runs
  /\ at \in Places /\ todo \in Nat \ {0} /\ got \in Contents /\ shown \in Seq(Frame)
  /\ since \in 0 .. MaxClock /\ off \in Nat /\ first \in Nat
AtRun ==
  /\ at = "start" => cur = 0 /\ shown = <<>>
  /\ at # "start" => cur \in Runs /\ phase[cur] # "absent" /\ Part(got, file[cur])
  /\ at \in {"drain", "switch"} => next \in Runs /\ phase[next] # "absent"
  /\ at \notin {"tail", "poll", "drain"} => todo = 1
  /\ todo = 1 => got = Nothing
InTime ==
  ~ByOffset => Rising(shown) /\ \A i \in 1 .. Len(shown) : shown[i].ts <= since
InBytes ==
  ByOffset =>
    /\ at \in {"start", "tail"} => shown = <<>>
    /\ at \notin {"start", "tail"} =>
         LET F == file[cur][view[1]]
         IN  Taken(shown \o got[view[1]], F, IF at = "size" THEN Len(F) ELSE off \div 3)
    /\ at \notin {"start", "tail", "size"} => off <= Size(cur, view[1])
ReadInv == WriteInv /\ ReadTypes /\ AtRun /\ InTime /\ InBytes

LEMMA ReadInit == Init => ReadInv
<1> SUFFICES ASSUME Init
             PROVE  ReadTypes /\ AtRun /\ InTime /\ InBytes
  BY WriteInit DEF ReadInv
<1>1. MaxClock \in Nat
  BY LogsAssumption
<1>2. ReadTypes
  BY <1>1, NothingIs DEF Init, ReadTypes, Places
<1>3. AtRun
  BY DEF Init, AtRun
<1>4. InTime
  BY DEF Init, InTime, Rising
<1>5. InBytes
  BY DEF Init, InBytes
<1> QED
  BY <1>2, <1>3, <1>4, <1>5

(* What the reader has in hand, and the files it reads.                    *)
LEMMA GotIs ==
  ASSUME ReadInv, at # "start"
  PROVE  /\ cur \in Runs /\ file[cur] \in Contents /\ Ordered(file[cur])
         /\ got \in Contents /\ Ordered(got) /\ Part(got, file[cur])
<1>1. WriteInv /\ cur \in Runs /\ got \in Contents /\ Part(got, file[cur])
  BY DEF ReadInv, ReadTypes, AtRun
<1>2. file[cur] \in Contents /\ Ordered(file[cur])
  BY <1>1, FilesOrdered
<1> QED
  BY <1>1, <1>2, PartOrdered

LEMMA StreamIs ==
  ASSUME ByOffset, view \in Views
  PROVE  view[1] \in Streams /\ Len(view) = 1 /\ view # Files /\ job = "follow"
<1>1. view # Files /\ job = "follow"
  BY DEF ByOffset
<1> QED
  BY <1>1, KnownViews, ViewIs

LEMMA ViewAt ==
  ASSUME NEW v \in Views, NEW i \in Nat \ {0}, i <= Len(v)
  PROVE  v[i] \in Streams
<1>1. CASE v = Files
  <2>1. Files \in Seq(Streams)
    BY LogsAssumption
  <2>2. i \in 1 .. Len(v)
    BY <1>1, <2>1
  <2> QED
    BY <1>1, <2>1, <2>2
<1>2. CASE v # Files
  <2>1. v[1] \in Streams /\ Len(v) = 1
    BY <1>2, KnownViews, ViewIs
  <2>2. i = 1
    BY <2>1
  <2> QED
    BY <2>1, <2>2
<1> QED
  BY <1>1, <1>2

(* A step of a run.                                                        *)
LEMMA RunsRead ==
  ASSUME ReadInv, WriteInv', [Next]_vars, UNCHANGED readVars, \A r \in Runs : Grows(r)
  PROVE  ReadInv'
<1> USE DEF readVars
<1>1. ReadTypes'
  BY DEF ReadInv, ReadTypes
<1>2. AtRun'
  <2>1. ASSUME at # "start"
        PROVE  phase'[cur] # "absent" /\ Part(got, file'[cur])
    <3>1. cur \in Runs /\ phase[cur] # "absent" /\ Part(got, file[cur]) /\ WriteInv
      BY <2>1 DEF ReadInv, AtRun
    <3> QED
      BY <3>1, PartGrows DEF Grows
  <2>2. ASSUME at \in {"drain", "switch"}
        PROVE  next \in Runs /\ phase'[next] # "absent"
    BY <2>2 DEF ReadInv, AtRun, Grows
  <2> QED
    BY <2>1, <2>2 DEF ReadInv, AtRun
<1>3. InTime'
  BY DEF ReadInv, InTime, ByOffset
<1>4. InBytes'
  <2> SUFFICES ASSUME ByOffset, at \notin {"start", "tail"}
               PROVE  /\ LET F == file'[cur][view[1]]
                         IN  Taken(shown \o got[view[1]], F, IF at = "size" THEN Len(F) ELSE off \div 3)
                      /\ at # "size" => off <= Size(cur, view[1])'
    BY DEF ReadInv, InBytes, ByOffset
  <2> DEFINE s == view[1]
             F == file[cur][s]
             G == file'[cur][s]
             S == shown \o got[s]
             m == IF at = "size" THEN Len(F) ELSE off \div 3
             n == IF at = "size" THEN Len(G) ELSE off \div 3
             z == Size(cur, s)
             y == z'
  <2>1. s \in Streams /\ cur \in Runs /\ off \in Nat
    BY StreamIs, GotIs DEF ReadInv, ReadTypes
  <2>2. F \in Seq(Frame) /\ G \in Seq(Frame) /\ Longer(F, G)
    BY <2>1 DEF ReadInv, WriteInv, WriteTypes, Contents, Grows
  <2>3. Taken(S, F, m) /\ (at # "size" => off <= z)
    BY DEF ReadInv, InBytes
  <2>4. z \in Nat /\ z <= y
    <3>1. WriteInv
      BY DEF ReadInv
    <3> QED
      BY <2>1, <3>1, SizeGrows
  <2> HIDE DEF F, G, S
  <2>5. Len(F) <= Len(G) /\ Len(F) \in Nat /\ Len(G) \in Nat
    BY <2>2, LongerIs
  <2>6. m \in Int /\ n \in Int /\ m <= n
    BY <2>1, <2>5
  <2> HIDE DEF m, n
  <2>7. Taken(S, G, n)
    BY <2>2, <2>3, <2>6, TakenLater
  <2>8. y \in Nat
    <3>1. y = 3 * Len(G) + torn'[cur][s] /\ torn'[cur][s] \in 0 .. 2
      BY <2>1 DEF Size, G, WriteInv, WriteTypes
    <3> QED
      BY <2>5, <3>1
  <2> HIDE DEF z, y
  <2>9. at # "size" => off <= y
    BY <2>1, <2>3, <2>4, <2>8
  <2> QED
    BY <2>7, <2>9 DEF S, G, n, y, z
<1> QED
  BY <1>1, <1>2, <1>3, <1>4 DEF ReadInv

(* The steps of the reader: the runs stand still.                          *)
Reads == ReadTypes /\ AtRun /\ InTime /\ InBytes
Still == UNCHANGED <<file, phase, torn, clock, job, view>>

LEMMA NoneIs == Rising(<<>>) /\ <<>> \in Seq(Frame) /\ \A F, m : Taken(<<>>, F, m)
  BY DEF Rising, Taken

LEMMA StartRead ==
  ASSUME ReadInv, Start
  PROVE  Reads'
<1>1. /\ at = "start" /\ Started # {} /\ cur' = Latest /\ at' = IF job = "wait" THEN "poll" ELSE "tail"
      /\ todo' = 1 /\ got' = Nothing /\ since' = (IF job = "wait" THEN clock ELSE 0) /\ first' = since'
  BY DEF Start, Goto
<1>2. Still /\ UNCHANGED <<off, shown, next>>
  BY DEF Start, Still, writeVars
<1>3. Latest \in Runs /\ phase[Latest] # "absent"
  BY <1>1, LatestIs
<1>4. ReadTypes /\ shown = <<>> /\ clock \in 0 .. MaxClock /\ MaxClock \in Nat
  BY <1>1, LogsAssumption DEF ReadInv, AtRun, WriteInv, WriteTypes
<1>5. ReadTypes'
  <2>1. since' \in 0 .. MaxClock /\ first' \in Nat
    BY <1>1, <1>4
  <2>2. at' \in Places /\ todo' \in Nat \ {0} /\ got' \in Contents /\ cur' \in Runs
    BY <1>1, <1>3, NothingIs DEF Places
  <2> QED
    BY <1>2, <1>4, <2>1, <2>2 DEF ReadTypes, Still
<1>6. AtRun'
  <2>1. at' \in {"poll", "tail"} /\ cur' \in Runs /\ phase'[cur'] # "absent" /\ got' = Nothing
    <3>1. at' \in {"poll", "tail"} /\ got' = Nothing
      BY <1>1
    <3>2. phase' = phase
      BY <1>2 DEF Still
    <3> QED
      BY <1>1, <1>3, <3>1, <3>2
  <2>2. Part(got', file'[cur'])
    BY <2>1, PartNothing
  <2> QED
    BY <2>1, <2>2 DEF AtRun
<1>7. shown' = <<>> /\ Rising(<<>>)
  BY <1>2, <1>4, NoneIs
<1>8. InTime'
  BY <1>7 DEF InTime
<1>9. InBytes'
  <2> SUFFICES ASSUME ByOffset'
               PROVE  at' = "tail" /\ shown' = <<>>
    BY DEF InBytes
  <2>1. job = "follow"
    BY <1>2 DEF ByOffset, Still
  <2> QED
    BY <1>1, <1>7, <2>1
<1> QED
  BY <1>5, <1>6, <1>8, <1>9 DEF Reads

LEMMA ReadFileRead ==
  ASSUME ReadInv, ReadFile
  PROVE  Reads'
<1> DEFINE p == view[todo]
<1>1. /\ at \in {"tail", "poll", "drain"} /\ todo <= Len(view) /\ ~(ByOffset /\ at # "tail") /\ todo' = todo + 1
      /\ got' = [got EXCEPT ![p] = file[cur][p]]
  <2>1. Len(view) \in Nat /\ todo \in Nat
    <3>1. view \in Views /\ todo \in Nat
      BY DEF ReadInv, ReadTypes
    <3>2. CASE view = Files
      BY <3>1, <3>2, LogsAssumption
    <3>3. CASE view # Files
      BY <3>1, <3>3, ViewIs
    <3> QED
      BY <3>1, <3>2, <3>3
  <2>2. at \in {"tail", "poll", "drain"} /\ ~(todo > Len(view)) /\ ~(ByOffset /\ at # "tail")
    BY DEF ReadFile, ReadDone
  <2>3. todo' = todo + 1 /\ got' = [got EXCEPT ![p] = file[cur][p]]
    BY DEF ReadFile
  <2> QED
    BY <2>1, <2>2, <2>3
<1>2. Still /\ UNCHANGED <<at, cur, since, off, first, shown, next>>
  BY DEF ReadFile, Still, writeVars
<1>3. ReadTypes /\ AtRun
  BY DEF ReadInv
<1>4. p \in Streams
  BY <1>1, <1>3, ViewAt DEF ReadTypes
<1>5. /\ cur \in Runs /\ file[cur] \in Contents /\ Ordered(file[cur])
      /\ got \in Contents /\ Ordered(got) /\ Part(got, file[cur])
  BY <1>1, GotIs
<1> HIDE DEF p
<1>6. /\ got' \in Contents /\ got'[p] = file[cur][p]
      /\ \A s \in Streams : s # p => got'[s] = got[s]
  BY <1>1, <1>4, <1>5 DEF Contents
<1>7. todo' \in Nat \ {0} /\ todo' # 1
  BY <1>1, <1>3 DEF ReadTypes
<1>8. ReadTypes'
  BY <1>2, <1>3, <1>6, <1>7 DEF ReadTypes, Still
<1>9. Part(got', file[cur])
  <2> SUFFICES ASSUME NEW s \in Streams
               PROVE  /\ Rising(got'[s])
                      /\ \A i \in 1 .. Len(got'[s]) : \E k \in 1 .. Len(file[cur][s]) :
                           got'[s][i] = file[cur][s][k]
    BY DEF Part
  <2>1. CASE s = p
    BY <1>5, <1>6, <2>1 DEF Ordered
  <2>2. CASE s # p
    BY <1>5, <1>6, <2>2 DEF Part
  <2> QED
    BY <2>1, <2>2
<1>10. AtRun'
  BY <1>1, <1>2, <1>3, <1>7, <1>9 DEF AtRun, Still
<1>11. InTime'
  BY <1>2 DEF ReadInv, InTime, ByOffset, Still
<1>12. InBytes'
  <2> SUFFICES ASSUME ByOffset'
               PROVE  at' = "tail" /\ shown' = <<>>
    BY DEF InBytes
  <2>1. ByOffset
    BY <1>2 DEF ByOffset, Still
  <2>2. at = "tail"
    BY <1>1, <2>1
  <2> QED
    BY <1>2, <2>1, <2>2 DEF ReadInv, InBytes
<1> QED
  BY <1>8, <1>10, <1>11, <1>12 DEF Reads

(* A read from the offset: the frames after it, none if it lies within one. *)
LEMMA OffsetIs ==
  ASSUME NEW l \in Nat, NEW u \in 0 .. 2
  PROVE  /\ (3 * l + u) \div 3 = l
         /\ \A o \in Nat : /\ o \div 3 \in Nat
                           /\ o <= 3 * l + u => o \div 3 <= l
                           /\ \A p \in Nat : o <= p => o \div 3 <= p \div 3
  OBVIOUS

LEMMA ReadOffsetRead ==
  ASSUME ReadInv, ReadOffset
  PROVE  Reads'
<1> DEFINE s == view[1]
           F == file[cur][s]
           z == Size(cur, s)
           g == got'[s]
           rest == FromOffset(F, off)
           l == Len(F)
           u == torn[cur][s]
           a == off \div 3
           b == off' \div 3
<1>1. at \in {"poll", "drain"} /\ ByOffset /\ todo <= Len(view) /\ todo' = 2
  <2>1. Len(view) \in Nat /\ todo \in Nat
    BY StreamIs DEF ReadInv, ReadTypes, ReadOffset
  <2>2. at \in {"poll", "drain"} /\ ByOffset /\ ~(todo > Len(view)) /\ todo' = 2
    BY DEF ReadOffset, ReadDone
  <2> QED
    BY <2>1, <2>2
<1>2. Still /\ UNCHANGED <<at, cur, since, first, shown, next>>
  BY DEF ReadOffset, Still, writeVars
<1>3. ReadTypes /\ AtRun /\ InBytes
  BY DEF ReadInv
<1>4. s \in Streams /\ Len(view) = 1 /\ todo = 1 /\ got = Nothing /\ got[s] = <<>>
  <2>1. s \in Streams /\ Len(view) = 1
    BY <1>1, <1>3, StreamIs DEF ReadTypes
  <2>2. todo = 1
    BY <1>1, <1>3, <2>1 DEF ReadTypes
  <2>3. got = Nothing
    BY <1>3, <2>2 DEF AtRun
  <2> QED
    BY <2>1, <2>2, <2>3, NothingIs
<1>5. /\ cur \in Runs /\ file[cur] \in Contents /\ Ordered(file[cur])
      /\ got \in Contents /\ Part(got, file[cur])
  BY <1>1, GotIs
<1>6. F \in Seq(Frame) /\ Rising(F) /\ shown \in Seq(Frame) /\ off \in Nat
  BY <1>3, <1>4, <1>5 DEF Contents, Ordered, ReadTypes
<1>7. l \in Nat /\ u \in 0 .. 2 /\ z = 3 * l + u /\ off <= z
  <2>1. u \in 0 .. 2
    BY <1>4, <1>5 DEF ReadInv, WriteInv, WriteTypes
  <2>2. off <= z
    BY <1>1, <1>3 DEF InBytes
  <2> QED
    BY <1>6, <2>1, <2>2 DEF Size
<1>8. Taken(shown, F, a)
  <2>1. Taken(shown \o got[s], F, a)
    BY <1>1, <1>3 DEF InBytes
  <2> DEFINE S == shown
  <2>2. S \in Seq(Frame) /\ S \o <<>> = S
    BY <1>6
  <2> HIDE DEF F, a, s
  <2> QED
    BY <1>4, <2>1, <2>2
<1>9. \/ z > off /\ off % 3 = 0 /\ got' = [got EXCEPT ![s] = rest] /\ off' = z
      \/ z > off /\ off' \in off + 1 .. z /\ got' = got
      \/ ~(z > off) /\ got' = got /\ off' = off
  BY DEF ReadOffset
<1>10. rest = SubSeq(F, a + 1, l)
  BY DEF FromOffset
<1> HIDE DEF s, F, z, g, rest, l, u
<1>11. a \in 0 .. l /\ a \in Nat /\ z \in Nat
  BY <1>6, <1>7, OffsetIs
<1>12. off' \in Nat /\ off <= off' /\ off' <= z /\ a <= b /\ b \in Nat
  <2>1. off' \in Nat /\ off <= off' /\ off' <= z
    BY <1>6, <1>7, <1>9, <1>11
  <2> QED
    BY <1>6, <1>7, <2>1, OffsetIs
<1> HIDE DEF a, b
<1>13. /\ got' \in Contents /\ Part(got', file[cur]) /\ g \in Seq(Frame) /\ shown \o g \in Seq(Frame)
       /\ Taken(shown \o g, F, b)
  <2>1. CASE got' = got
    <3>1. g = <<>>
      BY <1>4, <2>1 DEF g
    <3> DEFINE S == shown
    <3>2. S \in Seq(Frame) /\ S \o <<>> = S /\ <<>> \in Seq(Frame)
      BY <1>6
    <3>3. Longer(F, F)
      BY DEF Longer
    <3>4. Taken(shown, F, b)
      BY <1>6, <1>8, <1>11, <1>12, <3>3, TakenLater
    <3> QED
      BY <1>5, <2>1, <3>1, <3>2, <3>4
  <2>2. CASE got' = [got EXCEPT ![s] = rest] /\ off' = z
    <3>1. b = l
      BY <1>7, <2>2, OffsetIs DEF b
    <3>2. l = Len(F)
      BY DEF l
    <3>3. rest \in Seq(Frame) /\ shown \o rest \in Seq(Frame) /\ Taken(shown \o rest, F, l)
      BY <1>6, <1>8, <1>10, <1>11, <3>2, TakenMore
    <3>4. got' \in Contents /\ g = rest /\ \A t \in Streams : t # s => got'[t] = got[t]
      BY <1>4, <1>5, <2>2, <3>3 DEF Contents, g
    <3>5. Taken(<<>>, F, a)
      BY NoneIs
    <3>6. Taken(rest, F, l)
      <4>1. Taken(<<>> \o rest, F, l)
        BY <1>6, <1>10, <1>11, <3>2, <3>5, NoneIs, TakenMore
      <4>2. <<>> \o rest = rest
        BY <3>3
      <4> QED
        BY <4>1, <4>2
    <3>7. F = file[cur][s]
      BY DEF F
    <3>8. \A t \in Streams : /\ Rising(got'[t])
                             /\ \A i \in 1 .. Len(got'[t]) : \E k \in 1 .. Len(file[cur][t]) :
                                  got'[t][i] = file[cur][t][k]
      <4> SUFFICES ASSUME NEW t \in Streams
                   PROVE  /\ Rising(got'[t])
                          /\ \A i \in 1 .. Len(got'[t]) : \E k \in 1 .. Len(file[cur][t]) :
                               got'[t][i] = file[cur][t][k]
        OBVIOUS
      <4>1. CASE t = s
        <5>1. got'[t] = rest /\ file[cur][t] = F
          BY <3>4, <3>7, <4>1 DEF g
        <5> QED
          BY <3>6, <5>1 DEF Taken
      <4>2. CASE t # s
        BY <1>5, <3>4, <4>2 DEF Part
      <4> QED
        BY <4>1, <4>2
    <3> QED
      BY <3>1, <3>3, <3>4, <3>8 DEF Part
  <2> QED
    BY <1>9, <2>1, <2>2
<1>14. ReadTypes'
  BY <1>1, <1>2, <1>3, <1>12, <1>13 DEF ReadTypes, Still
<1>15. AtRun'
  BY <1>1, <1>2, <1>3, <1>13 DEF AtRun, Still
<1>16. InTime'
  BY <1>1, <1>2 DEF InTime, ByOffset, Still
<1>17. InBytes'
  <2>1. view'[1] = s /\ file'[cur'][view'[1]] = F /\ (shown \o got[view[1]])' = shown \o g
    BY <1>2 DEF Still, s, F, g
  <2>2. Size(cur, view[1])' = z
    BY <1>2 DEF Still, Size, z, s
  <2>3. at' \in {"poll", "drain"}
    BY <1>1, <1>2
  <2>4. (off \div 3)' = b
    BY DEF b
  <2> HIDE DEF b
  <2> QED
    BY <1>12, <1>13, <2>1, <2>2, <2>3, <2>4 DEF InBytes
<1> QED
  BY <1>14, <1>15, <1>16, <1>17 DEF Reads

LEMMA ShowTailRead ==
  ASSUME ReadInv, ShowTail
  PROVE  Reads'
<1> DEFINE all == ReadAll(got, view)
           tail == LastN(all, TailN)
<1>1. /\ at = "tail" /\ at' = "size" /\ todo' = 1 /\ got' = Nothing
      /\ shown' = tail /\ since' = LastTs(shown')
  BY DEF ShowTail, Goto, ReadTail
<1>2. Still /\ UNCHANGED <<cur, off, first, next>>
  BY DEF ShowTail, Still, writeVars
<1>3. ReadTypes /\ AtRun
  BY DEF ReadInv
<1>4. /\ cur \in Runs /\ phase[cur] # "absent" /\ got \in Contents /\ Ordered(got) /\ Part(got, file[cur])
      /\ file[cur] \in Contents
  BY <1>1, <1>3, GotIs DEF AtRun
<1>5. all \in Seq(Frame) /\ Rising(all) /\ view \in Views
  BY <1>3, <1>4, KnownViews, ReadAllIs DEF ReadTypes
<1>6. TailN \in Nat
  BY LogsAssumption
<1>7. ByOffset => view[1] \in Streams /\ all = got[view[1]]
  BY <1>5, StreamIs DEF ReadAll
<1> HIDE DEF all
<1>8. /\ tail \in Seq(Frame) /\ Rising(tail)
      /\ \A i \in 1 .. Len(tail) : \E k \in 1 .. Len(all) : tail[i] = all[k]
  BY <1>5, <1>6, LastRises
<1> HIDE DEF tail
<1>9. since' \in 0 .. MaxClock /\ \A i \in 1 .. Len(tail) : tail[i].ts <= since'
  BY <1>1, <1>8, LastTsIs
<1>10. ReadTypes'
  <2>1. at' \in Places /\ todo' \in Nat \ {0} /\ got' \in Contents /\ shown' \in Seq(Frame)
    BY <1>1, <1>8, NothingIs DEF Places
  <2> QED
    BY <1>2, <1>3, <1>9, <2>1 DEF ReadTypes, Still
<1>11. AtRun'
  <2>1. at' = "size" /\ todo' = 1 /\ got' = Nothing /\ cur' \in Runs /\ phase'[cur'] # "absent"
    BY <1>1, <1>2, <1>4 DEF Still
  <2>2. Part(got', file'[cur'])
    BY <2>1, PartNothing
  <2> QED
    BY <2>1, <2>2 DEF AtRun
<1>12. InTime'
  BY <1>1, <1>8, <1>9 DEF InTime
<1>13. InBytes'
  <2> SUFFICES ASSUME ByOffset
               PROVE  Taken((shown \o got[view[1]])', file[cur][view[1]], Len(file[cur][view[1]]))
    BY <1>1, <1>2 DEF InBytes, ByOffset, Still
  <2> DEFINE s == view[1]
             F == file[cur][s]
  <2>1. s \in Streams /\ all = got[s] /\ F \in Seq(Frame)
    BY <1>4, <1>7 DEF Contents
  <2>2. \A k \in 1 .. Len(all) : \E m \in 1 .. Len(F) : all[k] = F[m]
    BY <1>4, <2>1 DEF Part
  <2>3. view' = view /\ got'[s] = <<>>
    BY <1>1, <1>2, <2>1, NothingIs DEF Still
  <2>4. (shown \o got[view[1]])' = tail
    <3>1. tail \o <<>> = tail
      BY <1>8
    <3> QED
      BY <1>1, <2>3, <3>1
  <2> HIDE DEF F, s
  <2>5. \A i \in 1 .. Len(tail) : \E m \in 1 .. Len(F) : m <= Len(F) /\ tail[i] = F[m]
    <3>1. \A m \in 1 .. Len(F) : m <= Len(F)
      BY <2>1
    <3> QED
      BY <1>8, <2>2, <3>1
  <2>6. Taken(tail, F, Len(F))
    BY <1>8, <2>5 DEF Taken
  <2> QED
    BY <2>4, <2>6 DEF F, s
<1> QED
  BY <1>10, <1>11, <1>12, <1>13 DEF Reads

LEMMA TakeSizeRead ==
  ASSUME ReadInv, TakeSize
  PROVE  Reads'
<1> DEFINE s == view[1]
           F == file[cur][s]
           l == Len(F)
           u == torn[cur][s]
           z == Size(cur, s)
<1>1. /\ at = "size" /\ at' = "poll" /\ todo' = 1 /\ got' = Nothing
      /\ off' = (IF ByOffset THEN z ELSE 0) /\ first' = IF ByOffset THEN off' ELSE since
  BY DEF TakeSize, Goto
<1>2. Still /\ UNCHANGED <<cur, since, shown, next>>
  BY DEF TakeSize, Still, writeVars
<1>3. ReadTypes /\ AtRun /\ InTime /\ InBytes
  BY DEF ReadInv
<1>4. cur \in Runs /\ phase[cur] # "absent" /\ file[cur] \in Contents /\ todo = 1 /\ got = Nothing
  BY <1>1, <1>3, GotIs DEF AtRun
<1>5. since \in Nat
  BY <1>3, LogsAssumption DEF ReadTypes
<1>6. ByOffset => s \in Streams /\ l \in Nat /\ u \in 0 .. 2 /\ z = 3 * l + u
  <2> SUFFICES ASSUME ByOffset
               PROVE  s \in Streams /\ l \in Nat /\ u \in 0 .. 2 /\ z = 3 * l + u
    OBVIOUS
  <2>1. s \in Streams
    BY <1>3, StreamIs DEF ReadTypes
  <2>2. F \in Seq(Frame) /\ u \in 0 .. 2
    BY <1>4, <2>1 DEF ReadInv, WriteInv, WriteTypes, Contents
  <2> QED
    BY <2>1, <2>2 DEF Size
<1>7. off' \in Nat /\ first' \in Nat
  <2>1. CASE ByOffset
    <3> HIDE DEF z, l, u
    <3>1. z \in Nat
      BY <1>6, <2>1
    <3> QED
      BY <1>1, <2>1, <3>1
  <2>2. CASE ~ByOffset
    BY <1>1, <1>5, <2>2
  <2> QED
    BY <2>1, <2>2
<1>8. ReadTypes'
  <2>1. at' \in Places /\ todo' \in Nat \ {0} /\ got' \in Contents
    BY <1>1, NothingIs DEF Places
  <2> QED
    BY <1>2, <1>3, <1>7, <2>1 DEF ReadTypes, Still
<1>9. AtRun'
  <2>1. at' = "poll" /\ todo' = 1 /\ got' = Nothing /\ cur' \in Runs /\ phase'[cur'] # "absent"
    BY <1>1, <1>2, <1>4 DEF Still
  <2>2. Part(got', file'[cur'])
    BY <2>1, PartNothing
  <2> QED
    BY <2>1, <2>2 DEF AtRun
<1>10. InTime'
  BY <1>2, <1>3 DEF InTime, ByOffset, Still
<1>11. InBytes'
  <2> SUFFICES ASSUME ByOffset
               PROVE  /\ Taken((shown \o got[view[1]])', F, (off \div 3)')
                      /\ off' <= Size(cur, view[1])'
    BY <1>1, <1>2 DEF InBytes, ByOffset, Still
  <2>1. Taken(shown \o got[s], F, l)
    BY <1>1, <1>3 DEF InBytes
  <2>2. (shown \o got[view[1]])' = shown \o got[s]
    BY <1>1, <1>2, <1>4 DEF Still
  <2>3. off' = z /\ Size(cur, view[1])' = z
    BY <1>1, <1>2 DEF Still, Size
  <2> HIDE DEF z, l, u
  <2>4. z <= z /\ (off \div 3)' = l
    BY <1>6, <2>3, OffsetIs
  <2> QED
    BY <2>1, <2>2, <2>3, <2>4
<1> QED
  BY <1>8, <1>9, <1>10, <1>11 DEF Reads

(* The steps that show what was read, and the cursor they leave.           *)
LEMMA ShowIs ==
  ASSUME ShowPoll \/ Drain
  PROVE  /\ at \in {"poll", "drain"} /\ at' \in {"query", "matched", "timer", "switch"}
         /\ at' = "switch" => at = "drain"
         /\ todo' = 1 /\ got' = Nothing /\ shown' = shown \o NewFrames
         /\ since' = IF NewFrames = <<>> \/ ByOffset THEN since ELSE LastTs(NewFrames)
         /\ Still /\ UNCHANGED <<cur, off, first, next>> /\ ReadDone
<1>1. Show => /\ shown' = shown \o NewFrames /\ ReadDone
              /\ since' = IF NewFrames = <<>> \/ ByOffset THEN since ELSE LastTs(NewFrames)
              /\ Still /\ UNCHANGED <<cur, off, first, next>>
  BY DEF Show, Still, writeVars
<1>2. CASE ShowPoll
  <2>1. Show /\ at = "poll" /\ todo' = 1 /\ got' = Nothing
    BY <1>2 DEF ShowPoll, Goto
  <2>2. at' \in {"query", "matched", "timer"}
    BY <1>2 DEF ShowPoll, Goto
  <2> QED
    BY <1>1, <2>1, <2>2
<1>3. CASE Drain
  <2>1. Show /\ at = "drain" /\ at' = "switch" /\ todo' = 1 /\ got' = Nothing
    BY <1>3 DEF Drain, Goto
  <2> QED
    BY <1>1, <2>1
<1> QED
  BY <1>2, <1>3

LEMMA ShowRead ==
  ASSUME ReadInv, ShowPoll \/ Drain
  PROVE  Reads'
<1> DEFINE new == NewFrames
           old == shown
<1>1. /\ at \in {"poll", "drain"} /\ at' \in {"query", "matched", "timer", "switch"}
      /\ at' = "switch" => at = "drain"
      /\ todo' = 1 /\ got' = Nothing /\ shown' = old \o new
      /\ since' = IF new = <<>> \/ ByOffset THEN since ELSE LastTs(new)
  BY ShowIs
<1>2. Still /\ UNCHANGED <<cur, off, first, next>>
  BY ShowIs
<1>3. ReadTypes /\ AtRun /\ InTime /\ InBytes
  BY DEF ReadInv
<1>4. /\ cur \in Runs /\ phase[cur] # "absent" /\ got \in Contents /\ Ordered(got)
      /\ file[cur] \in Contents /\ view \in Views /\ since \in 0 .. MaxClock
  BY <1>1, <1>3, GotIs DEF AtRun, ReadTypes
<1>5. ByOffset => view[1] \in Streams /\ new = got[view[1]]
  BY <1>4, StreamIs DEF NewFrames
<1>6. ~ByOffset => Rising(new) /\ \A i \in 1 .. Len(new) : new[i].ts > since
  BY <1>4, TakenInTime DEF NewFrames, AfterSeen
<1>7. new \in Seq(Frame) /\ old \in Seq(Frame)
  <2>1. CASE ByOffset
    BY <1>3, <1>4, <1>5, <2>1 DEF Contents, ReadTypes
  <2>2. CASE ~ByOffset
    BY <1>3, <1>4, <2>2, TakenInTime DEF NewFrames, AfterSeen, ReadTypes
  <2> QED
    BY <2>1, <2>2
<1> HIDE DEF new
<1>8. since' \in 0 .. MaxClock
  <2>1. CASE new = <<>> \/ ByOffset
    BY <1>1, <1>4, <2>1
  <2>2. CASE ~(new = <<>> \/ ByOffset)
    BY <1>1, <1>6, <1>7, <2>2, LastTsIs
  <2> QED
    BY <2>1, <2>2
<1>9. shown' \in Seq(Frame)
  <2> HIDE DEF old
  <2>1. old \o new \in Seq(Frame)
    BY <1>7
  <2> QED
    BY <1>1, <2>1
<1>10. ReadTypes'
  <2>1. at' \in Places /\ todo' \in Nat \ {0} /\ got' \in Contents
    BY <1>1, NothingIs DEF Places
  <2> QED
    BY <1>2, <1>3, <1>8, <1>9, <2>1 DEF ReadTypes, Still
<1>11. AtRun'
  <2>1. /\ at' \notin {"start", "drain", "tail", "poll"} /\ todo' = 1 /\ got' = Nothing
        /\ cur' \in Runs /\ phase'[cur'] # "absent"
    BY <1>1, <1>2, <1>4 DEF Still
  <2>2. Part(got', file'[cur'])
    BY <2>1, PartNothing
  <2>3. at' = "switch" => next' \in Runs /\ phase'[next'] # "absent"
    BY <1>1, <1>2, <1>3 DEF AtRun, Still
  <2> QED
    BY <2>1, <2>2, <2>3 DEF AtRun
<1>12. InTime'
  <2> SUFFICES ASSUME ~ByOffset
               PROVE  Rising(shown') /\ \A i \in 1 .. Len(shown') : shown'[i].ts <= since'
    BY <1>2 DEF InTime, ByOffset, Still
  <2>1. Rising(old) /\ \A i \in 1 .. Len(old) : old[i].ts <= since
    BY <1>3 DEF InTime
  <2> HIDE DEF old
  <2>2. since \in Int /\ since' \in Int
    BY <1>4, <1>8
  <2>3. Rising(new) /\ \A i \in 1 .. Len(new) : new[i].ts > since
    BY <1>6
  <2>9. \A i \in 1 .. Len(old) : \A j \in 1 .. Len(new) : Before(old[i], new[j])
    <3> SUFFICES ASSUME NEW i \in 1 .. Len(old), NEW j \in 1 .. Len(new)
                 PROVE  Before(old[i], new[j])
      OBVIOUS
    <3>1. old[i] \in Frame /\ new[j] \in Frame /\ old[i].ts \in Int /\ new[j].ts \in Int /\ since \in Int
      BY <1>4, <1>7, <1>8, Elements
    <3>2. old[i].ts < new[j].ts
      BY <2>1, <2>3, <3>1
    <3> QED
      BY <3>1, <3>2, BeforeIs
  <2>4. /\ Rising(old \o new)
        /\ \A i \in 1 .. Len(old \o new) : \/ i <= Len(old) /\ (old \o new)[i] = old[i]
                                           \/ \E j \in 1 .. Len(new) : (old \o new)[i] = new[j]
    BY <1>7, <2>1, <2>3, <2>9, RisesOn
  <2>5. since <= since' /\ \A j \in 1 .. Len(new) : new[j].ts <= since'
    <3>1. CASE new = <<>>
      <4>1. Len(new) = 0 /\ since' = since
        BY <1>1, <3>1
      <4> QED
        BY <2>2, <4>1
    <3>2. CASE new # <<>>
      <4>1. since' = LastTs(new)
        BY <1>1, <3>2
      <4>2. /\ \A j \in 1 .. Len(new) : new[j].ts <= since'
            /\ Len(new) \in 1 .. Len(new) /\ since' = new[Len(new)].ts
        BY <1>7, <2>3, <3>2, <4>1, LastTsIs
      <4>3. since < since'
        BY <2>3, <4>2
      <4> QED
        BY <2>2, <4>2, <4>3
    <3> QED
      BY <3>1, <3>2
  <2>6. ASSUME NEW i \in 1 .. Len(old \o new)
        PROVE  (old \o new)[i].ts <= since'
    <3>1. CASE i <= Len(old) /\ (old \o new)[i] = old[i]
      <4>1. i \in 1 .. Len(old)
        BY <3>1
      <4>2. old[i].ts \in Int /\ old[i].ts <= since
        BY <1>7, <2>1, <4>1, Elements
      <4> QED
        BY <2>2, <2>5, <3>1, <4>2
    <3>2. CASE \E j \in 1 .. Len(new) : (old \o new)[i] = new[j]
      BY <2>5, <3>2
    <3> QED
      BY <2>4, <3>1, <3>2
  <2> QED
    BY <1>1, <2>4, <2>6
<1>13. InBytes'
  <2> SUFFICES ASSUME ByOffset
               PROVE  /\ Taken((shown \o got[view[1]])', file[cur][view[1]], off \div 3)
                      /\ off <= Size(cur, view[1])'
    BY <1>1, <1>2 DEF InBytes, ByOffset, Still
  <2>1. view[1] \in Streams /\ new = got[view[1]]
    BY <1>5
  <2>2. Taken(old \o new, file[cur][view[1]], off \div 3) /\ off <= Size(cur, view[1])
    BY <1>1, <1>3, <2>1 DEF InBytes
  <2>3. Size(cur, view[1])' = Size(cur, view[1])
    BY <1>2 DEF Still, Size
  <2>4. (shown \o got[view[1]])' = old \o new
    <3>1. view' = view /\ got'[view[1]] = <<>>
      BY <1>1, <1>2, <2>1, NothingIs DEF Still
    <3> DEFINE S == old \o new
    <3>2. S \in Seq(Frame)
      BY <1>1, <1>9
    <3>3. shown' = S
      BY <1>1
    <3> HIDE DEF S
    <3>4. S \o <<>> = S
      BY <3>2
    <3> QED
      BY <3>1, <3>3, <3>4 DEF S
  <2> QED
    BY <2>2, <2>3, <2>4
<1> QED
  BY <1>10, <1>11, <1>12, <1>13 DEF Reads

LEMMA IdleRead ==
  ASSUME ReadInv, Query \/ PollAgain \/ TimeOut
  PROVE  Reads'
<1>1. /\ at \in {"query", "timer"} /\ at' \in {"poll", "drain", "timedout"} /\ todo' = 1 /\ got' = Nothing
      /\ Still /\ UNCHANGED <<cur, since, off, first, shown>>
  <2>1. CASE Query
    BY <2>1 DEF Query, Goto, Still, writeVars
  <2>2. CASE PollAgain
    BY <2>2 DEF PollAgain, Goto, Still, writeVars
  <2>3. CASE TimeOut
    BY <2>3 DEF TimeOut, Goto, Still, writeVars
  <2> QED
    BY <2>1, <2>2, <2>3
<1>2. ReadTypes /\ AtRun /\ InTime /\ InBytes
  BY DEF ReadInv
<1>3. cur \in Runs /\ phase[cur] # "absent" /\ got = Nothing
  BY <1>1, <1>2 DEF AtRun
<1>4. next' \in {0} \union Runs /\ (at' = "drain" => next' \in Runs /\ phase'[next'] # "absent")
  <2>1. CASE Query
    <3>1. next' = Latest /\ phase' = phase
      BY <1>1, <2>1 DEF Query, Still
    <3>2. Started # {}
      BY <1>3 DEF Started
    <3> QED
      BY <3>1, <3>2, LatestIs
  <2>2. CASE PollAgain \/ TimeOut
    <3>1. next' = next /\ at' \in {"poll", "timedout"}
      BY <2>2 DEF PollAgain, TimeOut, Goto
    <3> QED
      BY <1>2, <3>1 DEF ReadTypes
  <2> QED
    BY <2>1, <2>2
<1>5. ReadTypes'
  <2>1. at' \in Places /\ todo' \in Nat \ {0} /\ got' \in Contents
    BY <1>1, NothingIs DEF Places
  <2> QED
    BY <1>1, <1>2, <1>4, <2>1 DEF ReadTypes, Still
<1>6. AtRun'
  <2>1. /\ at' \notin {"start", "switch", "tail"} /\ todo' = 1 /\ got' = Nothing
        /\ cur' \in Runs /\ phase'[cur'] # "absent"
    BY <1>1, <1>3 DEF Still
  <2>2. Part(got', file'[cur'])
    BY <2>1, PartNothing
  <2> QED
    BY <1>4, <2>1, <2>2 DEF AtRun
<1>7. InTime'
  BY <1>1, <1>2 DEF InTime, ByOffset, Still
<1>8. InBytes'
  <2> SUFFICES ASSUME ByOffset
               PROVE  /\ Taken((shown \o got[view[1]])', file[cur][view[1]], off \div 3)
                      /\ off <= Size(cur, view[1])'
    BY <1>1 DEF InBytes, ByOffset, Still
  <2>1. Taken(shown \o got[view[1]], file[cur][view[1]], off \div 3) /\ off <= Size(cur, view[1])
    BY <1>1, <1>2 DEF InBytes
  <2>2. Size(cur, view[1])' = Size(cur, view[1])
    BY <1>1 DEF Still, Size
  <2>3. (shown \o got[view[1]])' = shown \o got[view[1]]
    BY <1>1, <1>3 DEF Still
  <2> QED
    BY <2>1, <2>2, <2>3
<1> QED
  BY <1>5, <1>6, <1>7, <1>8 DEF Reads

LEMMA SwitchRead ==
  ASSUME ReadInv, Switch
  PROVE  Reads'
<1>1. /\ at = "switch" /\ at' = "poll" /\ todo' = 1 /\ got' = Nothing /\ cur' = next
      /\ since' = 0 /\ off' = 0 /\ first' = 0 /\ shown' = <<>> /\ next' = next /\ Still
  BY DEF Switch, Goto, Still, writeVars
<1>2. ReadTypes /\ AtRun
  BY DEF ReadInv
<1>3. next \in Runs /\ phase[next] # "absent" /\ MaxClock \in Nat
  BY <1>1, <1>2, LogsAssumption DEF AtRun
<1>4. ReadTypes'
  <2>1. /\ at' \in Places /\ todo' \in Nat \ {0} /\ got' \in Contents /\ shown' \in Seq(Frame)
        /\ since' \in 0 .. MaxClock /\ off' \in Nat /\ first' \in Nat
    BY <1>1, <1>3, NothingIs DEF Places
  <2> QED
    BY <1>1, <1>2, <1>3, <2>1 DEF ReadTypes, Still
<1>5. AtRun'
  <2>1. /\ at' = "poll" /\ todo' = 1 /\ got' = Nothing /\ cur' \in Runs /\ phase'[cur'] # "absent"
    BY <1>1, <1>3 DEF Still
  <2>2. Part(got', file'[cur'])
    BY <2>1, PartNothing
  <2> QED
    BY <2>1, <2>2 DEF AtRun
<1>6. InTime'
  BY <1>1, NoneIs DEF InTime
<1>7. InBytes'
  <2> SUFFICES ASSUME ByOffset
               PROVE  /\ Taken((shown \o got[view[1]])', file'[cur'][view'[1]], (off \div 3)')
                      /\ 0 <= Size(cur, view[1])'
    BY <1>1 DEF InBytes, ByOffset, Still
  <2>1. view[1] \in Streams
    BY <1>2, StreamIs DEF ReadTypes
  <2>2. view' = view /\ shown' = <<>> /\ got'[view[1]] = <<>>
    BY <1>1, <2>1, NothingIs DEF Still
  <2>3. (shown \o got[view[1]])' = <<>>
    BY <2>2
  <2>4. 0 <= Size(cur, view[1])'
    <3> DEFINE l == Len(file[next][view[1]])
               u == torn[next][view[1]]
    <3>1. Size(cur, view[1])' = 3 * l + u
      BY <1>1 DEF Still, Size
    <3>2. l \in Nat /\ u \in 0 .. 2
      BY <1>3, <2>1 DEF ReadInv, WriteInv, WriteTypes, Contents
    <3> HIDE DEF l, u
    <3> QED
      BY <3>1, <3>2
  <2> QED
    BY <2>3, <2>4, NoneIs
<1> QED
  BY <1>4, <1>5, <1>6, <1>7 DEF Reads

LEMMA StillRead ==
  ASSUME ReadInv, UNCHANGED vars
  PROVE  Reads'
<1>1. ReadTypes' /\ AtRun' /\ InTime'
  BY Zenon DEF vars, writeVars, readVars, ReadInv, ReadTypes, AtRun, InTime, ByOffset
<1>2. InBytes'
  BY Zenon DEF vars, writeVars, readVars, ReadInv, InBytes, ByOffset, Size
<1> QED
  BY <1>1, <1>2 DEF Reads

LEMMA RunSteps ==
  ASSUME WriteInv, [Next]_vars
  PROVE  \/ Reading
         \/ UNCHANGED readVars /\ (UNCHANGED writeVars \/ \A r \in Runs : Grows(r))
<1>1. CASE UNCHANGED vars
  BY <1>1, Zenon DEF vars
<1>2. CASE \E r \in Runs :
             \/ StartRun(r) \/ EndCapture(r) \/ Pipeline(r) \/ WritePart(r)
             \/ WriterFails(r) \/ Kill(r) \/ Sweep(r)
             \/ \E s \in Streams : Stamp(r, s)
  <2>1. UNCHANGED readVars
    BY <1>2, Zenon DEF StartRun, EndCapture, Pipeline, Send, Recv, Write, WriterDone, Close,
       WritePart, WriterFails, Kill, Sweep, Stamp
  <2> QED
    BY <2>1, RunsGrow
<1> QED
  BY <1>1, <1>2 DEF Next

LEMMA ReadNext ==
  ASSUME ReadInv, [Next]_vars
  PROVE  ReadInv'
<1>1. WriteInv /\ WriteInv'
  BY WriteNext DEF ReadInv
<1>2. ASSUME Reading
      PROVE  Reads'
  BY <1>2, StartRead, ReadFileRead, ReadOffsetRead, ShowTailRead, TakeSizeRead, ShowRead, IdleRead,
     SwitchRead DEF Reading
<1>3. CASE Reading
  BY <1>1, <1>2, <1>3 DEF ReadInv, Reads
<1>4. CASE UNCHANGED vars
  BY <1>1, <1>4, StillRead DEF ReadInv, Reads
<1>5. CASE UNCHANGED readVars /\ (UNCHANGED writeVars \/ \A r \in Runs : Grows(r))
  <2>1. CASE UNCHANGED writeVars
    <3>1. UNCHANGED vars
      BY <1>5, <2>1 DEF vars
    <3> QED
      BY <1>4, <3>1
  <2>2. CASE \A r \in Runs : Grows(r)
    BY <1>1, <1>5, <2>2, RunsRead
  <2> QED
    BY <1>5, <2>1, <2>2
<1> QED
  BY <1>1, <1>3, <1>5, RunSteps

LEMMA ReadInvariant == Spec => []ReadInv
<1>1. Init => ReadInv
  BY ReadInit
<1>2. ReadInv /\ [Next]_vars => ReadInv'
  BY ReadNext
<1> QED
  BY <1>1, <1>2, PTL DEF Spec

(* Runs, files and reader stay well typed: whatever the interleaving, the   *)
(* reader is in a run that has started, with parts of its files in hand.   *)
THEOREM TypesHold == Spec => []TypeOK
<1>1. ReadInv => TypeOK
  <2> SUFFICES ASSUME ReadInv
               PROVE  TypeOK
    OBVIOUS
  <2>1. WriteTypes /\ ReadTypes
    BY DEF ReadInv, WriteInv
  <2> QED
    BY <2>1 DEF TypeOK, WriteTypes, ReadTypes, Contents, Phases, Places
<1> QED
  BY <1>1, ReadInvariant, PTL

(* A follower of one stream or of all, and a wait, show each frame of a run *)
(* once and in the order of time, however the files grow while it reads     *)
(* them one after the other, and even if it reads half a frame.            *)
THEOREM ShownOnce == Spec => []ShownInOrder
<1>1. ReadInv => ShownInOrder
  <2> SUFFICES ASSUME ReadInv
               PROVE  ShownInOrder
    OBVIOUS
  <2>1. Rising(shown) /\ shown \in Seq(Frame)
    <3>1. CASE ~ByOffset
      BY <3>1 DEF ReadInv, InTime, ReadTypes
    <3>2. CASE ByOffset /\ at \in {"start", "tail"}
      BY <3>2, NoneIs DEF ReadInv, InBytes
    <3>3. CASE ByOffset /\ at \notin {"start", "tail"}
      <4> DEFINE g == got[view[1]]
                 S == shown
      <4>1. S \in Seq(Frame) /\ g \in Seq(Frame)
        BY <3>3, StreamIs DEF ReadInv, ReadTypes, Contents
      <4>2. Rising(S \o g)
        BY <3>3 DEF ReadInv, InBytes, Taken
      <4> HIDE DEF S, g
      <4>3. /\ Len(S \o g) = Len(S) + Len(g) /\ Len(S) \in Nat /\ Len(g) \in Nat
            /\ \A i \in 1 .. Len(S) : (S \o g)[i] = S[i]
        BY <4>1, ConcatProperties
      <4>4. \A i \in 1 .. Len(S) : i \in 1 .. Len(S \o g)
        BY <4>3
      <4>5. Rising(S)
        BY <4>2, <4>3, <4>4 DEF Rising
      <4> QED
        BY <4>1, <4>5 DEF S
    <3> QED
      BY <3>1, <3>2, <3>3
  <2> DEFINE S == shown
  <2>2. \A i \in 1 .. Len(S) - 1 : i \in 1 .. Len(S) /\ i + 1 \in 1 .. Len(S) /\ i < i + 1
    BY <2>1
  <2>3. Rising(S)
    BY <2>1
  <2>4. \A i \in 1 .. Len(S) - 1 : Before(S[i], S[i + 1])
    BY <2>2, <2>3 DEF Rising
  <2> QED
    BY <2>4 DEF ShownInOrder
<1> QED
  BY <1>1, ReadInvariant, PTL
-----------------------------------------------------------------------------
(* A wait on one stream.  Its cursor is where it began or at a frame of the *)
(* file, which is sorted: what is captured later is ahead of it; and what   *)
(* it has read of the file is a beginning of it.                           *)
Ahead(F, t, from) ==
  /\ t = from \/ \E k \in 1 .. Len(F) : F[k].ts = t
  /\ \A i \in 1 .. Len(F) : F[i].ts \in Hits /\ F[i].ts > from => F[i].ts > t
WaitsOne == job = "wait" /\ view # Files
WaitInv ==
  WaitsOne =>
    /\ at # "query"
    /\ at \in {"poll", "timer", "timedout"} => Ahead(file[cur][view[1]], since, first)
    /\ at = "poll" /\ todo # 1 => Begins(got[view[1]], file[cur][view[1]])

LEMMA AheadLater ==
  ASSUME NEW F \in Seq(Frame), NEW G \in Seq(Frame), Climbs(G), Longer(F, G),
         NEW t \in Int, NEW from \in Int, Ahead(F, t, from)
  PROVE  Ahead(G, t, from)
<1>1. Len(F) \in Nat /\ Len(G) \in Nat /\ Len(F) <= Len(G)
      /\ \A k \in 1 .. Len(F) : k \in 1 .. Len(G) /\ G[k] = F[k]
  BY LongerIs
<1>2. t = from \/ \E k \in 1 .. Len(G) : G[k].ts = t
  BY <1>1 DEF Ahead
<1>3. ASSUME NEW i \in 1 .. Len(G), G[i].ts \in Hits, G[i].ts > from
      PROVE  G[i].ts > t
  <2>1. CASE i <= Len(F)
    <3>1. i \in 1 .. Len(F) /\ G[i] = F[i]
      BY <1>1, <2>1
    <3> QED
      BY <1>3, <3>1 DEF Ahead
  <2>2. CASE t = from
    BY <1>3, <2>2
  <2>3. CASE ~(i <= Len(F)) /\ t # from
    <3>1. PICK k \in 1 .. Len(F) : F[k].ts = t
      BY <2>3 DEF Ahead
    <3>2. k \in 1 .. Len(G) /\ G[k].ts = t /\ k < i
      BY <1>1, <2>3, <3>1
    <3>3. G[k].ts < G[i].ts
      BY <3>2 DEF Climbs
    <3>4. G[i].ts \in Int
      BY Elements
    <3> QED
      BY <3>2, <3>3, <3>4
  <2> QED
    BY <2>1, <2>2, <2>3
<1> QED
  BY <1>2, <1>3 DEF Ahead

LEMMA BeginsLater ==
  ASSUME NEW F \in Seq(Frame), NEW G \in Seq(Frame), NEW H \in Seq(Frame), Longer(F, G), Begins(H, F)
  PROVE  Begins(H, G)
<1>1. Len(F) \in Nat /\ Len(G) \in Nat /\ Len(H) \in Nat /\ Len(F) <= Len(G)
      /\ \A k \in 1 .. Len(F) : G[k] = F[k]
  BY LongerIs
<1>2. Len(H) <= Len(F) /\ \A i \in 1 .. Len(H) : H[i] = F[i]
  BY DEF Begins
<1>3. \A i \in 1 .. Len(H) : i \in 1 .. Len(F)
  BY <1>1, <1>2
<1>4. Len(H) <= Len(G)
  BY <1>1, <1>2
<1> QED
  BY <1>1, <1>2, <1>3, <1>4 DEF Begins

(* A poll that finds no match passes over none: a frame it did not read     *)
(* comes after those it did.                                               *)
LEMMA AheadPolled ==
  ASSUME NEW F \in Seq(Frame), Climbs(F), NEW H \in Seq(Frame), Begins(H, F),
         NEW t \in 0 .. MaxClock, NEW from \in Int, Ahead(F, t, from),
         NEW new, new = During(H, t + 1 .. MaxClock),
         \A i \in 1 .. Len(new) : new[i].ts \notin Hits
  PROVE  Ahead(F, IF new = <<>> THEN t ELSE LastTs(new), from)
<1> DEFINE T == t + 1 .. MaxClock
<1>1. /\ MaxClock \in Nat /\ t \in Nat /\ Len(F) \in Nat /\ Len(H) \in Nat /\ Len(H) <= Len(F)
      /\ \A i \in 1 .. Len(H) : H[i] = F[i] /\ i \in 1 .. Len(F)
  BY LogsAssumption DEF Begins
<1>2. \A i, j \in 1 .. Len(F) : i < j => F[i].ts < F[j].ts
  BY DEF Climbs
<1>3. Rising(H)
  <2> SUFFICES ASSUME NEW i \in 1 .. Len(H), NEW j \in 1 .. Len(H), i < j
               PROVE  Before(H[i], H[j])
    BY DEF Rising
  <2>1. H[i] = F[i] /\ H[j] = F[j] /\ i \in 1 .. Len(F) /\ j \in 1 .. Len(F)
    BY <1>1
  <2>2. H[i] \in Frame /\ H[j] \in Frame
    OBVIOUS
  <2> QED
    BY <1>2, <2>1, <2>2, BeforeIs
<1> HIDE DEF T
<1>4. new = During(H, T)
  BY DEF T
<1>5. /\ new \in Seq(Frame) /\ Rising(new)
      /\ \A i \in 1 .. Len(new) : \E j \in 1 .. Len(H) : new[i] = H[j]
      /\ \A j \in 1 .. Len(H) : H[j].ts \in T => \E i \in 1 .. Len(new) : new[i] = H[j]
  <2> DEFINE d == During(H, T)
  <2>1. /\ d \in Seq(Frame) /\ (Rising(H) => Rising(d))
        /\ \A i \in 1 .. Len(d) : d[i].ts \in T /\ \E j \in 1 .. Len(H) : d[i] = H[j]
        /\ \A j \in 1 .. Len(H) : H[j].ts \in T => \E i \in 1 .. Len(d) : d[i] = H[j]
    BY DuringSelects
  <2> HIDE DEF d
  <2>2. new = d
    BY <1>4 DEF d
  <2> QED
    BY <1>3, <2>1, <2>2
<1>6. ASSUME NEW i \in 1 .. Len(F), F[i].ts \in Hits, F[i].ts > from
      PROVE  i > Len(H) /\ F[i].ts > t
  <2>1. F[i].ts > t /\ F[i].ts \in 1 .. MaxClock
    BY <1>6, Elements DEF Ahead
  <2>2. ASSUME i <= Len(H)
        PROVE  FALSE
    <3>1. i \in 1 .. Len(H) /\ H[i] = F[i]
      BY <1>1, <2>2
    <3>2. H[i].ts \in T
      BY <1>1, <2>1, <3>1 DEF T
    <3> QED
      BY <1>5, <1>6, <3>1, <3>2
  <2> QED
    BY <1>1, <2>1, <2>2
<1>7. CASE new = <<>>
  BY <1>6, <1>7 DEF Ahead
<1>8. CASE new # <<>>
  <2>1. Len(new) \in 1 .. Len(new) /\ LastTs(new) = new[Len(new)].ts
    BY <1>5, <1>8, LastTsIs
  <2>2. PICK j \in 1 .. Len(H) : new[Len(new)] = H[j]
    BY <1>5, <2>1
  <2> DEFINE now == LastTs(new)
  <2>3. j \in 1 .. Len(F) /\ F[j].ts = now
    BY <1>1, <2>1, <2>2
  <2> HIDE DEF now
  <2>4. ASSUME NEW i \in 1 .. Len(F), F[i].ts \in Hits, F[i].ts > from
        PROVE  F[i].ts > now
    <3>1. j < i
      BY <1>1, <1>6, <2>4
    <3>2. F[j].ts < F[i].ts
      BY <1>2, <2>3, <3>1
    <3>3. F[i].ts \in Int /\ F[j].ts \in Int
      BY <2>3, Elements
    <3> QED
      BY <2>3, <3>2, <3>3
  <2>5. Ahead(F, now, from)
    BY <2>3, <2>4 DEF Ahead
  <2> QED
    BY <1>8, <2>5 DEF now
<1> QED
  BY <1>7, <1>8

LEMMA FilesOrderedNext ==
  ASSUME WriteInv', NEW r \in Runs
  PROVE  file'[r] \in Contents /\ Ordered(file'[r]) /\ \A s \in Streams : Climbs(file'[r][s])
<1>1. /\ file'[r] \in Contents /\ captured'[r] \in Contents /\ clock' \in Int
      /\ Timed(captured'[r], clock') /\ AllBegin(file'[r], captured'[r])
  BY LogsAssumption DEF WriteInv, WriteTypes, RunInv
<1>2. Timed(file'[r], clock')
  BY <1>1, TimedPrefix
<1>3. Ordered(file'[r])
  BY <1>1, <1>2, TimedOrdered
<1> QED
  BY <1>1, <1>2, <1>3 DEF Timed

LEMMA WaitRuns ==
  ASSUME ReadInv, ReadInv', WaitInv, UNCHANGED readVars,
         UNCHANGED writeVars \/ \A r \in Runs : Grows(r)
  PROVE  WaitInv'
<1> USE DEF readVars
<1> SUFFICES ASSUME WaitsOne
             PROVE  /\ at # "query"
                    /\ at \in {"poll", "timer", "timedout"} => Ahead(file'[cur][view[1]], since, first)
                    /\ at = "poll" /\ todo # 1 => Begins(got[view[1]], file'[cur][view[1]])
  BY DEF WaitInv, WaitsOne
<1> SUFFICES ASSUME at \in {"poll", "timer", "timedout"}
             PROVE  /\ Ahead(file'[cur][view[1]], since, first)
                    /\ at = "poll" /\ todo # 1 => Begins(got[view[1]], file'[cur][view[1]])
  BY DEF WaitInv
<1> DEFINE s == view[1]
           F == file[cur][s]
           G == file'[cur][s]
           H == got[s]
<1>1. /\ s \in Streams /\ cur \in Runs /\ file[cur] \in Contents /\ got \in Contents
      /\ since \in Int /\ first \in Int
  <2>1. view \in Views /\ view # Files /\ first \in Nat /\ since \in Nat
    BY LogsAssumption DEF ReadInv, ReadTypes, WaitsOne
  <2> QED
    BY <2>1, KnownViews, ViewIs, GotIs
<1>2. file'[cur] \in Contents /\ \A t \in Streams : Climbs(file'[cur][t])
  BY <1>1, FilesOrderedNext DEF ReadInv
<1>3. F \in Seq(Frame) /\ G \in Seq(Frame) /\ H \in Seq(Frame) /\ Climbs(G)
  BY <1>1, <1>2 DEF Contents
<1>4. Longer(F, G)
  BY <1>1 DEF Grows, Longer, writeVars
<1>5. Ahead(F, since, first) /\ (at = "poll" /\ todo # 1 => Begins(H, F))
  BY DEF WaitInv
<1> HIDE DEF F, G, H, s
<1>6. Ahead(G, since, first)
  BY <1>1, <1>3, <1>4, <1>5, AheadLater
<1>7. at = "poll" /\ todo # 1 => Begins(H, G)
  BY <1>3, <1>4, <1>5, BeginsLater
<1> QED
  BY <1>6, <1>7 DEF G, H, s

LEMMA WaitPolls ==
  ASSUME ReadInv, WaitInv, ShowPoll, WaitsOne
  PROVE  at' = "timer" => Ahead(file[cur][view[1]], since', first)
<1> DEFINE s == view[1]
           F == file[cur][s]
           H == got[s]
           new == NewFrames
<1>1. at = "poll" /\ ReadDone /\ since' = IF new = <<>> \/ ByOffset THEN since ELSE LastTs(new)
  BY ShowIs DEF ShowPoll, Goto
<1>2. ~ByOffset /\ job = "wait" /\ view # Files
  BY DEF WaitsOne, ByOffset
<1>3. /\ s \in Streams /\ Len(view) = 1 /\ view \in Views /\ since \in 0 .. MaxClock /\ first \in Int
      /\ todo \in Nat
  BY <1>2, KnownViews, ViewIs DEF ReadInv, ReadTypes
<1>4. /\ cur \in Runs /\ file[cur] \in Contents /\ Ordered(file[cur])
      /\ got \in Contents /\ Ordered(got)
  BY <1>1, GotIs
<1>5. F \in Seq(Frame) /\ H \in Seq(Frame) /\ Climbs(F)
  BY <1>3, <1>4, OrderedClimbs DEF Contents
<1>6. Ahead(F, since, first) /\ Begins(H, F)
  <2>1. todo # 1
    BY <1>1, <1>3 DEF ReadDone
  <2> QED
    BY <1>1, <2>1 DEF WaitInv
<1>7. new = During(H, since + 1 .. MaxClock) /\ new \in Seq(Frame)
  <2>1. ReadAll(got, view) = H
    BY <1>2 DEF ReadAll
  <2>2. new = ReadRange(got, view, since + 1, MaxClock)
    BY <1>2 DEF NewFrames, AfterSeen
  <2> QED
    BY <1>3, <1>4, <2>1, <2>2, TakenInTime
<1>8. ASSUME at' = "timer"
      PROVE  \A i \in 1 .. Len(new) : new[i].ts \notin Hits
  <2>1. ~\E i \in DOMAIN new : new[i].ts \in Hits
    BY <1>2, <1>8 DEF ShowPoll, Goto
  <2>2. DOMAIN new = 1 .. Len(new)
    BY <1>7
  <2> QED
    BY <2>1, <2>2
<1> HIDE DEF new, F, H
<1>9. ASSUME at' = "timer"
      PROVE  Ahead(F, IF new = <<>> THEN since ELSE LastTs(new), first)
  BY <1>3, <1>5, <1>6, <1>7, <1>8, <1>9, AheadPolled
<1> QED
  BY <1>1, <1>2, <1>9 DEF F

LEMMA WaitReads ==
  ASSUME ReadInv, WaitInv, Reading
  PROVE  WaitInv'
<1>0. Still
  <2>1. UNCHANGED writeVars
    BY ReadSteps
  <2>2. UNCHANGED <<job, view>>
    BY Zenon DEF Reading, Start, ReadFile, ReadOffset, ShowTail, TakeSize, ShowPoll, Show, PollAgain,
       TimeOut, Query, Drain, Switch
  <2> QED
    BY <2>1, <2>2 DEF Still, writeVars
<1> SUFFICES ASSUME WaitsOne
             PROVE  /\ at' # "query"
                    /\ at' \in {"poll", "timer", "timedout"} =>
                         Ahead(file[cur'][view[1]], since', first')
                    /\ at' = "poll" /\ todo' # 1 => Begins(got'[view[1]], file[cur'][view[1]])
  BY <1>0 DEF WaitInv, WaitsOne, Still
<1> DEFINE s == view[1]
<1>1. ~ByOffset /\ job = "wait" /\ s \in Streams /\ Len(view) = 1
  BY KnownViews, ViewIs DEF WaitsOne, ByOffset, ReadInv, ReadTypes
<1>2. /\ at # "query"
      /\ at \in {"poll", "timer", "timedout"} => Ahead(file[cur][s], since, first)
      /\ at = "poll" /\ todo # 1 => Begins(got[s], file[cur][s])
  BY DEF WaitInv
<1>3. CASE Start
  <2>1. at' = "poll" /\ todo' = 1 /\ since' = first'
    BY <1>1, <1>3 DEF Start, Goto
  <2> QED
    BY <2>1 DEF Ahead
<1>4. CASE ReadFile
  <2>1. todo = 1 /\ view[todo] = s
    <3>1. todo \in Nat \ {0} /\ ~(todo > 1)
      BY <1>1, <1>4 DEF ReadFile, ReadDone, ReadInv, ReadTypes
    <3> QED
      BY <3>1
  <2>2. /\ got' = [got EXCEPT ![s] = file[cur][s]] /\ UNCHANGED <<at, cur, since, first>>
    BY <1>4, <2>1 DEF ReadFile
  <2>3. at \in {"tail", "poll", "drain"}
    BY <1>4 DEF ReadFile
  <2>4. got \in Contents /\ cur \in Runs /\ file[cur] \in Contents
    BY <2>3, GotIs
  <2> DEFINE F == file[cur][s]
  <2>5. got'[s] = F /\ F \in Seq(Frame)
    BY <1>1, <2>2, <2>4 DEF Contents
  <2> HIDE DEF F
  <2>6. Begins(F, F)
    BY <2>5 DEF Begins
  <2> QED
    BY <1>2, <2>2, <2>5, <2>6 DEF F
<1>5. CASE ReadOffset
  BY <1>1, <1>5 DEF ReadOffset
<1>6. CASE ShowTail
  BY <1>6 DEF ShowTail, Goto
<1>7. CASE TakeSize
  <2>1. at' = "poll" /\ todo' = 1 /\ first' = since /\ since' = since
    BY <1>1, <1>7 DEF TakeSize, Goto
  <2> QED
    BY <2>1 DEF Ahead
<1>8. CASE ShowPoll
  <2>1. at' \in {"matched", "timer"} /\ UNCHANGED <<cur, first>>
    BY <1>1, <1>8 DEF ShowPoll, Show, Goto
  <2> QED
    BY <1>8, <2>1, WaitPolls
<1>9. CASE PollAgain \/ TimeOut
  <2>1. at = "timer" /\ at' # "query" /\ todo' = 1 /\ UNCHANGED <<cur, since, first>>
    BY <1>9 DEF PollAgain, TimeOut, Goto
  <2> QED
    BY <1>2, <2>1
<1>10. CASE Query
  BY <1>2, <1>10 DEF Query, Goto
<1>11. CASE Drain
  BY <1>11 DEF Drain, Goto
<1>12. CASE Switch
  <2>1. at' = "poll" /\ todo' = 1 /\ since' = 0 /\ first' = 0
    BY <1>12 DEF Switch, Goto
  <2> QED
    BY <2>1 DEF Ahead
<1> QED
  BY <1>3, <1>4, <1>5, <1>6, <1>7, <1>8, <1>9, <1>10, <1>11, <1>12 DEF Reading

LEMMA WaitInvariant == Spec => [](ReadInv /\ WaitInv)
<1>1. Init => WaitInv
  BY DEF Init, WaitInv
<1>2. ReadInv /\ WaitInv /\ ReadInv' /\ [Next]_vars => WaitInv'
  <2> SUFFICES ASSUME ReadInv, WaitInv, ReadInv', [Next]_vars
               PROVE  WaitInv'
    OBVIOUS
  <2>1. WriteInv
    BY DEF ReadInv
  <2>2. CASE Reading
    BY <2>2, WaitReads
  <2>3. CASE UNCHANGED readVars /\ (UNCHANGED writeVars \/ \A r \in Runs : Grows(r))
    BY <2>3, WaitRuns
  <2> QED
    BY <2>1, <2>2, <2>3, RunSteps
<1> QED
  BY <1>1, <1>2, ReadInvariant, PTL DEF Spec

(* A wait on one stream that goes on or has timed out has passed over no    *)
(* match, whatever was written between its reads.                          *)
THEOREM NoMatchPassed == Spec => []WaitComplete
<1>1. ReadInv /\ WaitInv => WaitComplete
  <2> SUFFICES ASSUME ReadInv, WaitInv, WaitsOne, at \in {"timer", "timedout"}
               PROVE  \A i \in DOMAIN file[cur][view[1]] :
                        LET t == file[cur][view[1]][i].ts IN t \in Hits /\ t > first => t > since
    BY DEF WaitComplete, WaitsOne
  <2> DEFINE F == file[cur][view[1]]
  <2>1. F \in Seq(Frame)
    BY KnownViews, ViewIs, GotIs DEF ReadInv, ReadTypes, WaitsOne, Contents
  <2>2. Ahead(F, since, first)
    BY DEF WaitInv
  <2> HIDE DEF F
  <2>3. DOMAIN F = 1 .. Len(F)
    BY <2>1
  <2>4. \A i \in DOMAIN F : F[i].ts \in Hits /\ F[i].ts > first => F[i].ts > since
    BY <2>2, <2>3 DEF Ahead
  <2> QED
    BY <2>4 DEF F
<1> QED
  BY <1>1, WaitInvariant, PTL
-----------------------------------------------------------------------------
(* A follower of one stream, where every read finds whole frames: its       *)
(* offsets lie between frames, and what it has taken ends in the frames     *)
(* from the first offset to the last.                                      *)
Whole == \A r \in Runs : \A s \in Streams : torn[r][s] = 0
Ends(S, F, a, b) ==
  /\ a <= b /\ b <= Len(F) /\ b - a <= Len(S)
  /\ \A i \in 1 .. b - a : S[Len(S) - (b - a) + i] = F[a + i]
Follows == ByOffset /\ at \notin {"start", "tail", "size"}
GapInv ==
  Follows => \E a, b \in Nat : /\ first = 3 * a /\ off = 3 * b
                               /\ Ends(shown \o got[view[1]], file[cur][view[1]], a, b)

LEMMA StaysWhole == ASSUME ~Torn PROVE Spec => []Whole
<1>1. Init => Whole
  BY DEF Init, Whole
<1>2. WriteInv /\ Whole /\ [Next]_vars => Whole'
  <2> SUFFICES ASSUME WriteInv, Whole, [Next]_vars
               PROVE  Whole'
    OBVIOUS
  <2>1. torn \in [Runs -> [Streams -> 0 .. 2]]
    BY DEF WriteInv, WriteTypes
  <2>2. ASSUME torn' = torn
        PROVE  Whole'
    BY <2>2 DEF Whole
  <2>3. CASE Reading \/ UNCHANGED vars
    <3>1. torn' = torn
      BY <2>3, ReadSteps DEF writeVars
    <3> QED
      BY <2>2, <3>1
  <2>4. ASSUME NEW r \in Runs, NEW s \in Streams, Stamp(r, s) \/ Send(r, s)
        PROVE  Whole'
    <3>1. torn' = torn
      BY <2>4, Zenon DEF Stamp, Send
    <3> QED
      BY <2>2, <3>1
  <2>5. ASSUME NEW r \in Runs, Recv(r) \/ WriterDone(r) \/ StartRun(r) \/ EndCapture(r) \/ Close(r)
                                 \/ Sweep(r) \/ WriterFails(r) \/ Kill(r) \/ WritePart(r)
        PROVE  Whole'
    <3>1. torn' = torn
      BY <2>5, Zenon DEF Recv, WriterDone, StartRun, EndCapture, Close, Sweep, WriterFails, Kill,
         WritePart
    <3> QED
      BY <2>2, <3>1
  <2>6. ASSUME NEW r \in Runs, Write(r)
        PROVE  Whole'
    <3> DEFINE s == hand[r][1].s
    <3>1. torn' = [torn EXCEPT ![r][s] = 0]
      BY <2>6 DEF Write
    <3> HIDE DEF s
    <3>2. ASSUME NEW q \in Runs, NEW p \in Streams
          PROVE  torn'[q][p] = 0
      BY <2>1, <3>1 DEF Whole
    <3> QED
      BY <3>2 DEF Whole
  <2> QED
    BY <2>3, <2>4, <2>5, <2>6 DEF Next, Pipeline
<1> QED
  BY <1>1, <1>2, WriteInvariant, PTL DEF Spec

LEMMA EndsLater ==
  ASSUME NEW F \in Seq(Frame), NEW G \in Seq(Frame), Longer(F, G), NEW a \in Nat, NEW b \in Nat,
         NEW S, Ends(S, F, a, b)
  PROVE  Ends(S, G, a, b)
<1>1. Len(F) \in Nat /\ Len(G) \in Nat /\ Len(F) <= Len(G) /\ \A k \in 1 .. Len(F) : G[k] = F[k]
  BY LongerIs
<1>2. \A i \in 1 .. b - a : a + i \in 1 .. Len(F)
  BY <1>1 DEF Ends
<1>3. b <= Len(G)
  BY <1>1 DEF Ends
<1> QED
  BY <1>1, <1>2, <1>3 DEF Ends

LEMMA EndsNone ==
  ASSUME NEW F \in Seq(Frame), NEW S \in Seq(Frame), NEW a \in 0 .. Len(F)
  PROVE  Ends(S, F, a, a)
<1>1. Len(S) \in Nat /\ Len(F) \in Nat /\ a \in Nat /\ a <= Len(F) /\ a - a = 0 /\ a <= a
  OBVIOUS
<1> QED
  BY <1>1 DEF Ends

LEMMA EndsMore ==
  ASSUME NEW F \in Seq(Frame), NEW S \in Seq(Frame), NEW a \in Nat, NEW b \in Nat, Ends(S, F, a, b)
  PROVE  Ends(S \o SubSeq(F, b + 1, Len(F)), F, a, Len(F))
<1> DEFINE l == Len(F)
           rest == SubSeq(F, b + 1, l)
           k == Len(S)
           T == S \o rest
           n == l - b
           d == b - a
           end == l - a
<1>1. /\ l \in Nat /\ k \in Nat /\ a <= b /\ b <= l /\ d \in Nat /\ d <= k /\ n \in Nat
      /\ \A i \in 1 .. d : S[k - d + i] = F[a + i]
  <2>1. l \in Nat /\ k \in Nat /\ a <= b /\ b <= l /\ d <= k
    BY DEF Ends
  <2>2. \A i \in 1 .. d : S[k - d + i] = F[a + i]
    BY DEF Ends
  <2>3. d \in Nat /\ n \in Nat
    BY <2>1
  <2> QED
    BY <2>1, <2>2, <2>3
<1>2. rest \in Seq(Frame) /\ Len(rest) = n /\ \A i \in 1 .. n : rest[i] = F[b + i]
  <2>1. /\ SubSeq(F, b + 1, Len(F)) \in Seq(Frame)
        /\ Len(SubSeq(F, b + 1, Len(F))) = Len(F) - b
        /\ \A i \in 1 .. Len(F) - b : SubSeq(F, b + 1, Len(F))[i] = F[b + i]
    BY <1>1
  <2> QED
    BY <2>1
<1> HIDE DEF rest
<1>3. /\ Len(T) = k + n
      /\ \A i \in 1 .. k : T[i] = S[i]
      /\ \A i \in 1 .. n : T[k + i] = rest[i]
  <2>1. Len(S \o rest) = Len(S) + Len(rest)
    BY <1>2, ConcatProperties
  <2>2. \A i \in 1 .. Len(S) : (S \o rest)[i] = S[i]
    BY <1>2, ConcatProperties
  <2>3. \A i \in 1 .. Len(rest) : (S \o rest)[Len(S) + i] = rest[i]
    BY <1>2, ConcatProperties
  <2> HIDE DEF n
  <2> QED
    BY <1>2, <2>1, <2>2, <2>3
<1>4. end = d + n
  BY <1>1
<1> HIDE DEF T, k
<1>5. n \in Nat /\ d \in Nat /\ k \in Nat /\ Len(T) - end = k - d
  BY <1>1, <1>3, <1>4
<1> HIDE DEF n, d, l, end
<1>6. ASSUME NEW i \in 1 .. d + n
      PROVE  T[k - d + i] = F[a + i]
  <2>1. CASE i <= d
    <3>1. k - d + i \in 1 .. k /\ i \in 1 .. d
      BY <1>1, <2>1
    <3> QED
      BY <1>1, <1>3, <3>1
  <2>2. CASE ~(i <= d)
    <3> DEFINE j == i - d
    <3>1. j \in 1 .. n /\ k - d + i = k + j
      BY <1>1, <2>2
    <3>2. b + j = a + i
      BY <1>1 DEF d
    <3> HIDE DEF j
    <3> QED
      BY <1>2, <1>3, <3>1, <3>2
  <2> QED
    BY <2>1, <2>2
<1>7. a <= l /\ l <= l /\ end <= Len(T)
  BY <1>1, <1>3, <1>4
<1>8. \A i \in 1 .. end : T[Len(T) - end + i] = F[a + i]
  BY <1>4, <1>5, <1>6
<1> QED
  BY <1>7, <1>8 DEF Ends, T, rest, l, end

LEMMA GapRuns ==
  ASSUME ReadInv, WriteInv', GapInv, UNCHANGED readVars,
         UNCHANGED writeVars \/ \A r \in Runs : Grows(r)
  PROVE  GapInv'
<1> USE DEF readVars
<1> SUFFICES ASSUME Follows
             PROVE  \E a, b \in Nat : /\ first = 3 * a /\ off = 3 * b
                                      /\ Ends(shown \o got[view[1]], file'[cur][view[1]], a, b)
  BY DEF GapInv, Follows, ByOffset
<1> DEFINE s == view[1]
           F == file[cur][s]
           G == file'[cur][s]
           S == shown \o got[s]
<1>1. s \in Streams /\ cur \in Runs
  BY StreamIs, GotIs DEF ReadInv, ReadTypes, Follows
<1>2. F \in Seq(Frame) /\ G \in Seq(Frame)
  BY <1>1 DEF ReadInv, WriteInv, WriteTypes, Contents
<1>3. Longer(F, G)
  BY <1>1 DEF Grows, Longer, writeVars
<1>4. \E a, b \in Nat : first = 3 * a /\ off = 3 * b /\ Ends(S, F, a, b)
  BY DEF GapInv
<1> HIDE DEF F, G, S
<1>5. \A a, b \in Nat : Ends(S, F, a, b) => Ends(S, G, a, b)
  BY <1>2, <1>3, EndsLater
<1>6. \E a, b \in Nat : first = 3 * a /\ off = 3 * b /\ Ends(S, G, a, b)
  BY <1>4, <1>5
<1> QED
  BY <1>6 DEF S, G

LEMMA GapOffset ==
  ASSUME ReadInv, Whole, GapInv, ReadOffset
  PROVE  GapInv'
<1> DEFINE s == view[1]
           F == file[cur][s]
           z == Size(cur, s)
           l == Len(F)
<1>1. at \in {"poll", "drain"} /\ ByOffset /\ Follows
  BY DEF ReadOffset, Follows
<1>2. Still /\ UNCHANGED <<at, cur, since, first, shown, next>>
  BY DEF ReadOffset, Still, writeVars
<1>3. s \in Streams /\ cur \in Runs /\ file[cur] \in Contents /\ got \in Contents /\ off \in Nat
      /\ shown \in Seq(Frame)
  BY <1>1, StreamIs, GotIs DEF ReadInv, ReadTypes
<1>4. got[s] = <<>>
  <2>1. todo = 1
    <3>1. todo \in Nat \ {0} /\ Len(view) = 1
      BY <1>1, StreamIs DEF ReadInv, ReadTypes
    <3>2. ~(todo > Len(view))
      BY DEF ReadOffset, ReadDone
    <3> QED
      BY <3>1, <3>2
  <2>2. got = Nothing
    BY <2>1 DEF ReadInv, AtRun
  <2> QED
    BY <1>3, <2>2, NothingIs
<1>5. F \in Seq(Frame) /\ l \in Nat /\ z = 3 * l
  <2>1. F \in Seq(Frame) /\ torn[cur][s] = 0
    BY <1>3 DEF Contents, Whole
  <2> QED
    BY <2>1 DEF Size
<1>6. PICK a \in Nat, b \in Nat : first = 3 * a /\ off = 3 * b /\ Ends(shown \o got[s], F, a, b)
  BY <1>1 DEF GapInv
<1>7. \/ got' = [got EXCEPT ![s] = FromOffset(F, off)] /\ off' = z
      \/ got' = got /\ off' = off
  <2>1. off % 3 = 0
    BY <1>6
  <2> QED
    BY <2>1 DEF ReadOffset
<1> SUFFICES \E c, d \in Nat : /\ first = 3 * c /\ off' = 3 * d
                               /\ Ends(shown \o got'[s], F, c, d)
  BY <1>2 DEF GapInv, Still
<1>8. CASE got' = got /\ off' = off
  BY <1>6, <1>8
<1>9. CASE got' = [got EXCEPT ![s] = FromOffset(F, off)] /\ off' = z
  <2> DEFINE S == shown
  <2>1. S \in Seq(Frame) /\ S \o <<>> = S
    BY <1>3
  <2>2. off \div 3 = b
    BY <1>6
  <2>3. got'[s] = SubSeq(F, b + 1, Len(F))
    BY <1>3, <1>9, <2>2 DEF FromOffset, Contents
  <2> HIDE DEF S
  <2>4. Ends(S, F, a, b)
    BY <1>4, <1>6, <2>1 DEF S
  <2> HIDE DEF F
  <2>5. Ends(S \o SubSeq(F, b + 1, Len(F)), F, a, l)
    BY <1>5, <1>6, <2>1, <2>4, EndsMore DEF S
  <2> QED
    BY <1>5, <1>6, <1>9, <2>3, <2>5 DEF S
<1> QED
  BY <1>7, <1>8, <1>9

LEMMA GapReads ==
  ASSUME ReadInv, Whole, GapInv, Reading
  PROVE  GapInv'
<1>0. Still
  <2>1. UNCHANGED writeVars
    BY ReadSteps
  <2>2. UNCHANGED <<job, view>>
    BY Zenon DEF Reading, Start, ReadFile, ReadOffset, ShowTail, TakeSize, ShowPoll, Show, PollAgain,
       TimeOut, Query, Drain, Switch
  <2> QED
    BY <2>1, <2>2 DEF Still, writeVars
<1>1. CASE Start \/ ReadFile \/ ShowTail
  <2>1. CASE Start
    <3>1. ByOffset' => at' = "tail"
      BY <2>1, <1>0 DEF Start, Goto, ByOffset, Still
    <3> QED
      BY <3>1 DEF GapInv, Follows
  <2>2. CASE ReadFile
    <3>1. ByOffset' => at' = "tail"
      BY <2>2, <1>0 DEF ReadFile, ByOffset, Still
    <3> QED
      BY <3>1 DEF GapInv, Follows
  <2>3. CASE ShowTail
    <3>1. at' = "size"
      BY <2>3 DEF ShowTail, Goto
    <3> QED
      BY <3>1 DEF GapInv, Follows
  <2> QED
    BY <1>1, <2>1, <2>2, <2>3
<1>2. CASE ReadOffset
  BY <1>2, GapOffset
<1> SUFFICES ASSUME ByOffset, ~(Start \/ ReadFile \/ ShowTail \/ ReadOffset)
             PROVE  \E a, b \in Nat :
                      /\ first' = 3 * a /\ off' = 3 * b
                      /\ Ends(shown' \o got'[view[1]], file[cur'][view[1]], a, b)
  BY <1>0, <1>1, <1>2 DEF GapInv, Follows, ByOffset, Still
<1> DEFINE s == view[1]
           F == file[cur][s]
           l == Len(F)
<1>3. s \in Streams /\ view # Files /\ shown \in Seq(Frame) /\ got \in Contents
  BY StreamIs DEF ReadInv, ReadTypes
<1>4. CASE TakeSize
  <2>1. at = "size" /\ cur' = cur /\ shown' = shown /\ got' = Nothing
        /\ off' = Size(cur, s) /\ first' = off'
    BY <1>4 DEF TakeSize, Goto
  <2>2. cur \in Runs /\ file[cur] \in Contents
    BY <2>1, GotIs
  <2>3. F \in Seq(Frame) /\ torn[cur][s] = 0
    BY <1>3, <2>2 DEF Contents, Whole
  <2>4. l \in Nat /\ l \in 0 .. Len(F) /\ off' = 3 * l
    BY <2>1, <2>3 DEF Size
  <2> DEFINE S == shown \o got'[s]
  <2>5. S \in Seq(Frame)
    <3>1. got'[s] = <<>>
      BY <1>3, <2>1, NothingIs
    <3> DEFINE T == shown
    <3>2. T \in Seq(Frame)
      BY <1>3
    <3> HIDE DEF T
    <3>3. T \o <<>> \in Seq(Frame)
      BY <3>2
    <3> QED
      BY <3>1, <3>3 DEF T
  <2> HIDE DEF S, F
  <2>6. Ends(S, F, l, l)
    BY <2>3, <2>4, <2>5, EndsNone
  <2> HIDE DEF l
  <2>7. first' = 3 * l /\ off' = 3 * l /\ S = shown' \o got'[s] /\ F = file[cur'][s]
    BY <2>1, <2>4 DEF S, F
  <2> QED
    BY <2>4, <2>6, <2>7
<1>5. CASE ShowPoll \/ Drain
  <2>1. /\ at \in {"poll", "drain"} /\ got' = Nothing /\ shown' = shown \o NewFrames
        /\ UNCHANGED <<cur, off, first>>
    BY <1>5, ShowIs
  <2>2. NewFrames = got[s] /\ Follows
    BY <2>1 DEF NewFrames, Follows
  <2> DEFINE S == shown \o got[s]
  <2>3. S \in Seq(Frame)
    BY <1>3 DEF Contents
  <2>4. shown' = S
    BY <2>1, <2>2
  <2>5. \E a, b \in Nat : first = 3 * a /\ off = 3 * b /\ Ends(S, F, a, b)
    BY <2>2 DEF GapInv
  <2> HIDE DEF S
  <2>6. S \o <<>> = S
    BY <2>3
  <2>7. shown' \o got'[s] = S
    BY <1>3, <2>1, <2>4, <2>6, NothingIs
  <2> QED
    BY <2>1, <2>5, <2>7
<1>6. CASE Query \/ PollAgain \/ TimeOut
  <2>1. at \in {"query", "timer"} /\ got' = Nothing /\ UNCHANGED <<cur, off, first, shown>>
    <3>1. CASE Query
      BY <3>1 DEF Query, Goto
    <3>2. CASE PollAgain
      BY <3>2 DEF PollAgain, Goto
    <3>3. CASE TimeOut
      BY <3>3 DEF TimeOut, Goto
    <3> QED
      BY <1>6, <3>1, <3>2, <3>3
  <2>2. got = Nothing /\ Follows
    BY <2>1 DEF ReadInv, AtRun, Follows
  <2> QED
    BY <2>1, <2>2 DEF GapInv
<1>7. CASE Switch
  <2>1. at = "switch" /\ cur' = next /\ first' = 0 /\ off' = 0 /\ shown' = <<>> /\ got' = Nothing
    BY <1>7 DEF Switch, Goto
  <2> DEFINE S == shown' \o got'[s]
             G == file[cur'][s]
  <2>2. S \in Seq(Frame)
    <3>1. got'[s] = <<>>
      BY <1>3, <2>1, NothingIs
    <3>2. S = <<>>
      BY <2>1, <3>1
    <3> HIDE DEF S
    <3> QED
      BY <3>2, NoneIs
  <2>3. G \in Seq(Frame)
    <3>1. next \in Runs /\ file \in [Runs -> Contents]
      BY <2>1 DEF ReadInv, AtRun, WriteInv, WriteTypes
    <3>2. file[next] \in Contents
      BY <3>1
    <3>3. file[next][s] \in Seq(Frame)
      BY <1>3, <3>2 DEF Contents
    <3> QED
      BY <2>1, <3>3
  <2>4. 0 \in 0 .. Len(G) /\ 0 = 3 * 0
    BY <2>3
  <2> HIDE DEF S, G
  <2>5. Ends(S, G, 0, 0)
    BY <2>2, <2>3, <2>4, EndsNone
  <2> QED
    BY <2>1, <2>4, <2>5 DEF S, G, s
<1> QED
  BY <1>4, <1>5, <1>6, <1>7 DEF Reading

LEMMA GapInvariant == ASSUME ~Torn PROVE Spec => [](ReadInv /\ GapInv /\ Whole)
<1>1. Init => GapInv
  BY DEF Init, GapInv, Follows
<1>2. ReadInv /\ GapInv /\ Whole /\ ReadInv' /\ [Next]_vars => GapInv'
  <2> SUFFICES ASSUME ReadInv, GapInv, Whole, ReadInv', [Next]_vars
               PROVE  GapInv'
    OBVIOUS
  <2>1. WriteInv /\ WriteInv'
    BY DEF ReadInv
  <2>2. CASE Reading
    BY <2>2, GapReads
  <2>3. CASE UNCHANGED readVars /\ (UNCHANGED writeVars \/ \A r \in Runs : Grows(r))
    BY <2>1, <2>3, GapRuns
  <2> QED
    BY <2>1, <2>2, <2>3, RunSteps
<1> QED
  BY <1>1, <1>2, ReadInvariant, StaysWhole, PTL DEF Spec

(* Where no read finds half a frame, a follower of one stream leaves out no *)
(* frame between the offset it began at and the one it has reached.        *)
THEOREM NothingLeftOut == ASSUME ~Torn PROVE Spec => []NoGap
<1>1. ReadInv /\ GapInv => NoGap
  <2> SUFFICES ASSUME ReadInv, GapInv, ByOffset, cur # 0, at \notin {"tail", "size"}, todo = 1
               PROVE  LET n == (off - first) \div 3
                      IN  LastN(shown, n) = SubSeq(file[cur][view[1]], first \div 3 + 1, off \div 3)
    BY DEF NoGap
  <2> DEFINE s == view[1]
             F == file[cur][s]
             S == shown
  <2>1. Follows
    BY DEF ReadInv, AtRun, Follows
  <2>2. /\ s \in Streams /\ cur \in Runs /\ file[cur] \in Contents /\ got[s] = <<>>
        /\ S \in Seq(Frame)
    <3>1. got = Nothing
      BY DEF ReadInv, AtRun
    <3> QED
      BY <2>1, <3>1, StreamIs, GotIs, NothingIs DEF ReadInv, ReadTypes, Follows
  <2>3. PICK a \in Nat, b \in Nat : first = 3 * a /\ off = 3 * b /\ Ends(shown \o got[s], F, a, b)
    BY <2>1 DEF GapInv
  <2>4. F \in Seq(Frame)
    BY <2>2 DEF Contents
  <2> HIDE DEF F, s, S
  <2>5. S \o <<>> = S
    BY <2>2
  <2>6. Ends(S, F, a, b)
    BY <2>2, <2>3, <2>5 DEF S
  <2> DEFINE n == b - a
             g == LastN(S, n)
             h == SubSeq(F, a + 1, b)
  <2>7. n \in Nat /\ n <= Len(S) /\ Len(S) \in Nat /\ b <= Len(F) /\ Len(F) \in Nat
        /\ \A i \in 1 .. n : S[Len(S) - n + i] = F[a + i]
    BY <2>2, <2>4, <2>6 DEF Ends
  <2>8. (off - first) \div 3 = n /\ first \div 3 + 1 = a + 1 /\ off \div 3 = b
    BY <2>3
  <2>9. h \in Seq(Frame) /\ Len(h) = n /\ \A i \in 1 .. n : h[i] = F[a + i]
    <3>1. /\ SubSeq(F, a + 1, b) \in Seq(Frame) /\ Len(SubSeq(F, a + 1, b)) = b - a
          /\ \A i \in 1 .. b - a : SubSeq(F, a + 1, b)[i] = F[a + i]
      BY <2>4, <2>7
    <3> QED
      BY <3>1
  <2> HIDE DEF n, h
  <2>10. g \in Seq(Frame) /\ Len(g) = n /\ \A i \in 1 .. n : g[i] = S[Len(S) - n + i]
    <3>1. /\ g \in Seq(Frame) /\ Len(g) = IF n < Len(S) THEN n ELSE Len(S)
          /\ \A i \in 1 .. Len(g) : g[i] = S[Len(S) - Len(g) + i]
      BY <2>2, <2>7, LastNIs
    <3>2. Len(g) = n
      BY <2>7, <3>1
    <3> QED
      BY <3>1, <3>2
  <2> HIDE DEF g
  <2>11. g = h
    BY <2>7, <2>9, <2>10, SeqEqual
  <2> QED
    BY <2>8, <2>11 DEF F, S, s, g, h
<1> QED
  BY <1>1, GapInvariant, PTL
-----------------------------------------------------------------------------
(* Where runs of the service come one after the other, a follower leaves    *)
(* one that is over, and so has no more to write.                          *)
InOrder == \A r \in Runs : phase[r] # "absent" => \A q \in Runs : q < r => phase[q] \in Over
DrainInv ==
  /\ at \in {"drain", "switch"} => phase[cur] \in Over
  /\ ByOffset /\ (at = "switch" \/ (at = "drain" /\ todo # 1)) => off = Size(cur, view[1])

LEMMA LatestOver ==
  ASSUME WriteInv, InOrder, cur \in Runs, phase[cur] # "absent", Latest # cur
  PROVE  phase[cur] \in Over
<1> SUFFICES ASSUME phase[cur] \notin Over
             PROVE  FALSE
  OBVIOUS
<1>1. phase[cur] \in Phases
  BY DEF WriteInv, WriteTypes
<1>2. cur \in Running /\ cur \in Started
  BY <1>1 DEF Phases, Running, Started, Over
<1>3. Latest \in Runs /\ phase[Latest] # "absent" /\ cur <= Latest
  BY <1>2, LatestIs
<1>4. cur < Latest
  BY <1>3, LogsAssumption DEF Runs
<1> QED
  BY <1>3, <1>4 DEF InOrder

LEMMA StaysInOrder == ASSUME ~Overlap PROVE Spec => []InOrder
<1>1. Init => InOrder
  BY DEF Init, InOrder
<1>2. WriteInv /\ InOrder /\ WriteInv' /\ [Next]_vars => InOrder'
  <2> SUFFICES ASSUME WriteInv, InOrder, WriteInv', [Next]_vars
               PROVE  InOrder'
    OBVIOUS
  <2>1. phase \in [Runs -> Phases] /\ phase' \in [Runs -> Phases]
    BY DEF WriteInv, WriteTypes
  <2>2. phase' = phase \/ \A r \in Runs : phase[r] \in Over => phase'[r] \in Over
    BY RunsGrow DEF Grows, writeVars
  <2>3. ASSUME \A r \in Runs : phase'[r] # "absent" => phase[r] # "absent"
        PROVE  InOrder'
    BY <2>2, <2>3 DEF InOrder
  <2>4. CASE Reading \/ UNCHANGED vars
    <3>1. phase' = phase
      BY <2>4, ReadSteps DEF writeVars
    <3> QED
      BY <3>1 DEF InOrder
  <2>5. ASSUME NEW r \in Runs, NEW s \in Streams, Stamp(r, s) \/ Send(r, s)
        PROVE  InOrder'
    <3>1. phase' = phase
      BY <2>5, Zenon DEF Stamp, Send
    <3> QED
      BY <3>1 DEF InOrder
  <2>6. ASSUME NEW r \in Runs, Recv(r) \/ WriterDone(r) \/ Write(r) \/ WriterFails(r) \/ WritePart(r)
        PROVE  InOrder'
    <3>1. phase' = phase
      BY <2>6, Zenon DEF Recv, WriterDone, Write, WriterFails, WritePart
    <3> QED
      BY <3>1 DEF InOrder
  <2>7. ASSUME NEW r \in Runs, EndCapture(r) \/ Close(r) \/ Sweep(r) \/ Kill(r)
        PROVE  InOrder'
    <3>1. /\ phase[r] # "absent" /\ \E p : phase' = [phase EXCEPT ![r] = p]
      BY <2>7 DEF EndCapture, Close, Sweep, Kill
    <3>2. \A q \in Runs : phase'[q] # "absent" => phase[q] # "absent"
      BY <2>1, <3>1
    <3> QED
      BY <2>3, <3>2
  <2>8. ASSUME NEW r \in Runs, StartRun(r)
        PROVE  InOrder'
    <3>1. /\ phase[r] = "absent" /\ \A q \in 1 .. r - 1 : phase[q] \in Over
          /\ phase' = [phase EXCEPT ![r] = "open"]
      BY <2>8 DEF StartRun
    <3>2. \A q \in Runs : q < r => phase[q] \in Over
      <4>1. \A q \in Runs : q < r => q \in 1 .. r - 1
        BY LogsAssumption DEF Runs
      <4> QED
        BY <3>1, <4>1
    <3>3. \A q \in Runs : r < q => phase[q] = "absent"
      BY <3>1 DEF InOrder, Over
    <3>4. /\ phase'[r] = "open" /\ \A q \in Runs : q # r => phase'[q] = phase[q]
      BY <2>1, <3>1
    <3> SUFFICES ASSUME NEW p \in Runs, phase'[p] # "absent", NEW q \in Runs, q < p
                 PROVE  phase'[q] \in Over
      BY DEF InOrder
    <3>5. p \in Int /\ q \in Int /\ r \in Int
      BY LogsAssumption DEF Runs
    <3>6. CASE p = r
      BY <3>2, <3>4, <3>5, <3>6
    <3>7. CASE p # r
      <4>1. phase[p] # "absent" /\ q # r
        <5>1. phase[p] # "absent"
          BY <3>4, <3>7
        <5>2. ASSUME q = r
              PROVE  FALSE
          BY <3>3, <5>1, <5>2
        <5> QED
          BY <5>1, <5>2
      <4> QED
        BY <3>4, <4>1 DEF InOrder
    <3> QED
      BY <3>6, <3>7
  <2> QED
    BY <2>4, <2>5, <2>6, <2>7, <2>8 DEF Next, Pipeline
<1> QED
  BY <1>1, <1>2, WriteInvariant, PTL DEF Spec

LEMMA DrainReads ==
  ASSUME ReadInv, Whole, GapInv, InOrder, DrainInv, Reading
  PROVE  DrainInv'
<1>0. Still
  <2>1. UNCHANGED writeVars
    BY ReadSteps
  <2>2. UNCHANGED <<job, view>>
    BY Zenon DEF Reading, Start, ReadFile, ReadOffset, ShowTail, TakeSize, ShowPoll, Show, PollAgain,
       TimeOut, Query, Drain, Switch
  <2> QED
    BY <2>1, <2>2 DEF Still, writeVars
<1> SUFFICES ASSUME at' \in {"drain", "switch"}
             PROVE  /\ phase[cur'] \in Over
                    /\ ByOffset /\ (at' = "switch" \/ todo' # 1) => off' = Size(cur', view[1])
  BY <1>0 DEF DrainInv, Still, ByOffset, Size
<1>1. CASE Start \/ ShowTail \/ TakeSize \/ ShowPoll \/ PollAgain \/ TimeOut \/ Switch
  BY <1>1 DEF Start, ShowTail, TakeSize, ShowPoll, PollAgain, TimeOut, Switch, Goto
<1>2. CASE Query
  <2>1. at = "query" /\ Latest # cur /\ cur' = cur /\ todo' = 1 /\ at' = "drain"
    BY <1>2 DEF Query, Goto
  <2>2. cur \in Runs /\ phase[cur] # "absent" /\ WriteInv
    BY <2>1 DEF ReadInv, AtRun
  <2> QED
    BY <2>1, <2>2, LatestOver
<1>3. CASE ReadFile
  <2>1. at' = at /\ cur' = cur /\ ~(ByOffset /\ at # "tail") /\ at \in {"tail", "poll", "drain"}
    BY <1>3 DEF ReadFile
  <2> QED
    BY <2>1 DEF DrainInv
<1>4. CASE ReadOffset
  <2> DEFINE s == view[1]
             z == Size(cur, s)
  <2>1. at = "drain" /\ at' = "drain" /\ cur' = cur /\ ByOffset /\ Follows
    BY <1>4 DEF ReadOffset, Follows
  <2>2. off \in Nat /\ off % 3 = 0 /\ off <= z
    <3>1. PICK a \in Nat, b \in Nat : off = 3 * b
      BY <2>1 DEF GapInv
    <3>2. off <= z
      BY <2>1 DEF ReadInv, InBytes
    <3> QED
      BY <3>1, <3>2
  <2>3. z \in Nat
    <3> DEFINE l == Len(file[cur][s])
    <3>1. l \in Nat /\ torn[cur][s] = 0
      BY <2>1, StreamIs, GotIs DEF ReadInv, ReadTypes, Contents, Whole
    <3>2. z = 3 * l + torn[cur][s]
      BY DEF Size
    <3> HIDE DEF l, z
    <3> QED
      BY <3>1, <3>2
  <2>4. IF z > off THEN off' = z ELSE off' = off
    <3>1. IF z > off THEN IF off % 3 = 0 THEN off' = z ELSE TRUE ELSE off' = off
      BY <1>4, Zenon DEF ReadOffset
    <3> QED
      BY <2>2, <3>1
  <2> HIDE DEF z
  <2>5. off' = z
    BY <2>2, <2>3, <2>4
  <2> QED
    BY <2>1, <2>5 DEF DrainInv, z
<1>5. CASE Drain
  <2>1. at = "drain" /\ at' = "switch" /\ cur' = cur /\ off' = off /\ ReadDone
    BY <1>5 DEF Drain, Show, Goto
  <2>2. ByOffset => todo # 1
    <3>1. view \in Views /\ todo \in Nat
      BY DEF ReadInv, ReadTypes
    <3>2. ByOffset => Len(view) = 1
      BY <3>1, StreamIs
    <3> QED
      BY <2>1, <3>1, <3>2 DEF ReadDone
  <2> QED
    BY <2>1, <2>2 DEF DrainInv
<1> QED
  BY <1>1, <1>2, <1>3, <1>4, <1>5 DEF Reading

LEMMA DrainRuns ==
  ASSUME ReadInv, Whole, Whole', DrainInv, UNCHANGED readVars,
         UNCHANGED writeVars \/ \A r \in Runs : Grows(r)
  PROVE  DrainInv'
<1> USE DEF readVars
<1> SUFFICES ASSUME at \in {"drain", "switch"}
             PROVE  /\ phase'[cur] \in Over
                    /\ ByOffset => Size(cur, view[1])' = Size(cur, view[1])
  BY DEF DrainInv, ByOffset
<1>1. cur \in Runs /\ phase[cur] \in Over
  BY DEF ReadInv, AtRun, DrainInv
<1>2. phase'[cur] \in Over /\ file'[cur] = file[cur]
  BY <1>1 DEF Grows, writeVars
<1>3. ASSUME ByOffset
      PROVE  Size(cur, view[1])' = Size(cur, view[1])
  <2>1. view[1] \in Streams
    BY <1>3, StreamIs DEF ReadInv, ReadTypes
  <2>2. torn'[cur][view[1]] = torn[cur][view[1]]
    BY <1>1, <2>1 DEF Whole
  <2> QED
    BY <1>2, <2>2 DEF Size
<1> QED
  BY <1>2, <1>3

(* Where no read finds half a frame and the runs of the service do not      *)
(* overlap, a follower turns to the next run only with the last frame of    *)
(* the old one shown.                                                      *)
THEOREM DrainedFirst == ASSUME ~Torn, ~Overlap PROVE Spec => []SwitchDrains
<1>1. Init => DrainInv
  BY DEF Init, DrainInv
<1>2. /\ ReadInv /\ GapInv /\ Whole /\ InOrder /\ DrainInv /\ Whole' /\ [Next]_vars
      => DrainInv'
  <2> SUFFICES ASSUME ReadInv, GapInv, Whole, InOrder, DrainInv, Whole', [Next]_vars
               PROVE  DrainInv'
    OBVIOUS
  <2>1. WriteInv
    BY DEF ReadInv
  <2>2. CASE Reading
    BY <2>2, DrainReads
  <2>3. CASE UNCHANGED readVars /\ (UNCHANGED writeVars \/ \A r \in Runs : Grows(r))
    BY <2>3, DrainRuns
  <2> QED
    BY <2>1, <2>2, <2>3, RunSteps
<1>3. DrainInv => SwitchDrains
  BY DEF DrainInv, SwitchDrains
<1> QED
  BY <1>1, <1>2, <1>3, GapInvariant, StaysInOrder, PTL DEF Spec
=============================================================================
