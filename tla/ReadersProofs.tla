---------------------------- MODULE ReadersProofs ----------------------------
(* Lemmas about what the readers of Logs make of the files, whatever these  *)
(* hold.  The loops of the readers are recursive functions; what they give  *)
(* is shown by induction on the number of rounds.                          *)
EXTENDS Logs, SequenceTheorems, FiniteSetTheorems, WellFoundedInduction, TLAPS

-----------------------------------------------------------------------------
(* Induction, over a set of naturals. *)
Closed(n, S) == 0 \in S /\ \A i \in 1 .. n : i - 1 \in S => i \in S
LEMMA Induct ==
  ASSUME NEW n \in Nat, NEW S, Closed(n, S)
  PROVE  0 .. n \subseteq S /\ n \in S
<1> USE DEF Closed
<1> DEFINE bad == {i \in 0 .. n : i \notin S}
<1> SUFFICES ASSUME bad # {} PROVE FALSE
  OBVIOUS
<1>1. bad \subseteq Nat
  OBVIOUS
<1>2. PICK x \in bad : \A y \in bad : ~ (<<y, x>> \in OpToRel(<, Nat))
  BY <1>1, NatLessThanWellFounded, WFMin
<1>3. \A y \in Nat : y < x => <<y, x>> \in OpToRel(<, Nat)
  BY <1>1 DEF OpToRel
<1>4. x \in 1 .. n /\ x - 1 \in 0 .. n /\ x - 1 < x
  OBVIOUS
<1>5. x - 1 \in S
  BY <1>1, <1>2, <1>3, <1>4
<1> QED
  BY <1>4, <1>5

(* A least element. *)
LEMMA LeastOf ==
  ASSUME NEW S, S \subseteq Nat, S # {}
  PROVE  \E x \in S : \A y \in S : x <= y
<1>1. PICK x \in S : \A y \in S : ~ (<<y, x>> \in OpToRel(<, Nat))
  BY NatLessThanWellFounded, WFMin
<1>2. \A y \in Nat : y < x => <<y, x>> \in OpToRel(<, Nat)
  BY DEF OpToRel
<1>3. \A y \in S : ~ (y < x)
  BY <1>1, <1>2
<1>4. \A y \in S : x <= y
  BY <1>3
<1> QED
  BY <1>4

(* A loop: n rounds of step, each on what the round before left.           *)
Rounds(M, n) == [(1 .. n) \X M -> M]
Goes(it, m0, step, n) == it[0] = m0 /\ \A i \in 1 .. n : it[i] = step[<<i, it[i - 1]>>]
LEMMA Loop ==
  ASSUME NEW M, NEW m0 \in M, NEW n \in Nat, NEW step \in Rounds(M, n)
  PROVE  \E it \in [0 .. n -> M] : Goes(it, m0, step, n)
<1> USE DEF Rounds
<1> DEFINE Runs0(k, it) == it[0] = m0 /\ \A i \in 1 .. k : it[i] = step[<<i, it[i - 1]>>]
           S == {k \in 0 .. n : \E it \in [0 .. n -> M] : Runs0(k, it)}
<1>1. 0 \in S
  <2> DEFINE it == [i \in 0 .. n |-> m0]
  <2>1. it \in [0 .. n -> M]
    OBVIOUS
  <2>2. Runs0(0, it)
    OBVIOUS
  <2> HIDE DEF it
  <2> QED
    BY <2>1, <2>2
<1>2. ASSUME NEW k \in 1 .. n, k - 1 \in S
      PROVE  k \in S
  <2>1. PICK it \in [0 .. n -> M] : Runs0(k - 1, it)
    BY <1>2
  <2> DEFINE next0 == step[<<k, it[k - 1]>>]
             it2 == [it EXCEPT ![k] = next0]
  <2>2. next0 \in M /\ it2 \in [0 .. n -> M]
    <3>1. k - 1 \in 0 .. n
      OBVIOUS
    <3>2. it[k - 1] \in M
      BY <3>1
    <3>3. <<k, it[k - 1]>> \in (1 .. n) \X M
      BY <3>2
    <3> QED
      BY <3>3
  <2>3. it2[0] = m0
    BY <2>1
  <2>4. ASSUME NEW i \in 1 .. k PROVE it2[i] = step[<<i, it2[i - 1]>>]
    <3>1. i - 1 \in 0 .. n /\ i \in 0 .. n /\ i - 1 # k
      OBVIOUS
    <3>2. it2[i - 1] = it[i - 1]
      BY <3>1
    <3>3. CASE i = k
      BY <3>1, <3>2, <3>3
    <3>4. CASE i # k
      <4>1. i \in 1 .. k - 1 /\ it2[i] = it[i]
        BY <3>1, <3>4
      <4> QED
        BY <2>1, <3>2, <4>1
    <3> QED
      BY <3>3, <3>4
  <2> HIDE DEF it2
  <2> QED
    BY <2>2, <2>3, <2>4
<1> HIDE DEF S
<1>3. Closed(n, S)
  BY <1>1, <1>2 DEF Closed
<1>0. n \in S
  BY <1>3, Induct
<1>4. \E it \in [0 .. n -> M] : Runs0(n, it)
  BY <1>0 DEF S
<1> QED
  BY <1>4 DEF Goes

-----------------------------------------------------------------------------
(* During: the frames of the times T. *)
Keeps(fs, T, kept) ==
  /\ kept \in [0 .. Len(fs) -> Seq(Frame)]
  /\ kept[0] = <<>>
  /\ \A i \in 1 .. Len(fs) :
       kept[i] = IF fs[i].ts \in T THEN Append(kept[i - 1], fs[i]) ELSE kept[i - 1]

LEMMA DuringKeeps ==
  ASSUME NEW fs \in Seq(Frame), NEW T
  PROVE  \E kept : Keeps(fs, T, kept) /\ During(fs, T) = kept[Len(fs)]
<1> DEFINE n == Len(fs)
           step == [x \in (1 .. n) \X Seq(Frame) |->
                      IF fs[x[1]].ts \in T THEN Append(x[2], fs[x[1]]) ELSE x[2]]
           Def(k) == [i \in 0 .. n |-> IF i = 0 THEN <<>>
                        ELSE IF fs[i].ts \in T THEN Append(k[i - 1], fs[i]) ELSE k[i - 1]]
<1>1. n \in Nat /\ \A i \in 1 .. n : fs[i] \in Frame
  OBVIOUS
<1>2. step \in Rounds(Seq(Frame), n)
  BY <1>1 DEF Rounds
<1>3. PICK it \in [0 .. n -> Seq(Frame)] : Goes(it, <<>>, step, n)
  <2>1. <<>> \in Seq(Frame)
    OBVIOUS
  <2>2. n \in Nat
    BY <1>1
  <2> HIDE DEF n, step
  <2> QED
    BY <1>2, <2>1, <2>2, Loop
<1>4. ASSUME NEW i \in 1 .. n
      PROVE  it[i] = IF fs[i].ts \in T THEN Append(it[i - 1], fs[i]) ELSE it[i - 1]
  <2>1. i - 1 \in 0 .. n
    BY <1>1
  <2>2. <<i, it[i - 1]>> \in (1 .. n) \X Seq(Frame)
    BY <2>1
  <2>3. it[i] = step[<<i, it[i - 1]>>]
    BY <1>3 DEF Goes
  <2> QED
    BY <2>2, <2>3
<1> HIDE DEF step
<1>0. it[0] = <<>>
  BY <1>3 DEF Goes
<1>5. it = Def(it)
  <2> DEFINE val(i) == IF i = 0 THEN <<>>
                       ELSE IF fs[i].ts \in T THEN Append(it[i - 1], fs[i]) ELSE it[i - 1]
  <2>1. ASSUME NEW i \in 0 .. n PROVE it[i] = val(i)
    <3>1. CASE i = 0
      BY <1>0, <3>1
    <3>2. CASE i # 0
      <4>1. i \in 1 .. n
        BY <1>1, <3>2
      <4> QED
        BY <1>4, <3>2, <4>1
    <3> QED
      BY <3>1, <3>2
  <2>2. Def(it) = [i \in 0 .. n |-> val(i)]
    OBVIOUS
  <2> HIDE DEF val, Def, n
  <2> QED
    BY <2>1, <2>2
<1> DEFINE kept == CHOOSE k : k = Def(k)
<1>6. During(fs, T) = kept[n]
  BY DEF During
<1>7. kept = Def(kept)
  <2> HIDE DEF Def
  <2> QED
    BY <1>5
<1> HIDE DEF kept
<1>8. \A i \in 0 .. n : kept[i] = IF i = 0 THEN <<>>
        ELSE IF fs[i].ts \in T THEN Append(kept[i - 1], fs[i]) ELSE kept[i - 1]
  <2> HIDE DEF n
  <2> QED
    BY <1>7
<1>9. n \in {j \in 0 .. n : kept[j] = it[j]}
  <2> DEFINE S == {j \in 0 .. n : kept[j] = it[j]}
  <2>1. 0 \in S
    BY <1>0, <1>1, <1>8
  <2>2. ASSUME NEW i \in 1 .. n, i - 1 \in S PROVE i \in S
    <3>1. i \in 0 .. n /\ i # 0 /\ kept[i - 1] = it[i - 1]
      BY <1>1, <2>2
    <3> HIDE DEF n
    <3> QED
      BY <1>4, <1>8, <3>1
  <2>3. n \in Nat
    BY <1>1
  <2> HIDE DEF S, n
  <2>4. Closed(n, S)
    BY <2>1, <2>2 DEF Closed
  <2> QED
    BY <2>3, <2>4, Induct
<1>10. kept[n] = it[n]
  BY <1>1, <1>9
<1>11. Keeps(fs, T, it)
  BY <1>0, <1>4 DEF Keeps
<1> QED
  BY <1>6, <1>10, <1>11

(* The order of frames is strict and total: first the time, then the place  *)
(* of the file; of one stream it is that of time.                           *)
LEMMA PlaceIs ==
  \A s, t \in Streams :
    Place(s) \in Int /\ Place(s) \in DOMAIN Files /\ (Place(s) = Place(t) => s = t)
<1>1. ASSUME NEW s \in Streams PROVE Place(s) \in DOMAIN Files /\ Files[Place(s)] = s
  <2>1. \E i \in DOMAIN Files : Files[i] = s
    BY DEF Streams, Range
  <2> QED
    BY <2>1 DEF Place
<1>2. DOMAIN Files \subseteq Int
  BY LogsAssumption
<1> QED
  BY <1>1, <1>2

LEMMA BeforeIs ==
  ASSUME NEW f \in Frame, NEW g \in Frame
  PROVE  /\ f.ts < g.ts => Before(f, g)
         /\ Before(f, g) => f.ts <= g.ts /\ f # g /\ ~Before(g, f)
         /\ ~Before(f, g) /\ ~Before(g, f) => f = g
         /\ f.s = g.s => (Before(f, g) <=> f.ts < g.ts)
<1>1. f.ts \in Int /\ g.ts \in Int /\ f.s \in Streams /\ g.s \in Streams
  BY DEF Frame
<1>2. Place(f.s) \in Int /\ Place(g.s) \in Int /\ (Place(f.s) = Place(g.s) => f.s = g.s)
  BY <1>1, PlaceIs
<1>3. f.ts = g.ts /\ f.s = g.s => f = g
  BY DEF Frame
<1> QED
  BY <1>1, <1>2, <1>3 DEF Before

LEMMA BeforeTransitive ==
  ASSUME NEW f \in Frame, NEW g \in Frame, NEW h \in Frame, Before(f, g), Before(g, h)
  PROVE  Before(f, h)
<1>1. /\ f.ts \in Int /\ g.ts \in Int /\ h.ts \in Int
      /\ f.s \in Streams /\ g.s \in Streams /\ h.s \in Streams
  BY DEF Frame
<1>2. Place(f.s) \in Int /\ Place(g.s) \in Int /\ Place(h.s) \in Int
  BY <1>1, PlaceIs
<1> QED
  BY <1>1, <1>2 DEF Before

(* In that order, no frame twice.                                           *)
Rising(fs) == \A i, j \in 1 .. Len(fs) : i < j => Before(fs[i], fs[j])

(* It holds those frames and no others, in the order they had.             *)
LEMMA DuringSelects ==
  ASSUME NEW fs \in Seq(Frame), NEW T
  PROVE  /\ During(fs, T) \in Seq(Frame) /\ Len(During(fs, T)) <= Len(fs)
         /\ \A i \in 1 .. Len(During(fs, T)) :
              /\ During(fs, T)[i].ts \in T
              /\ \E j \in 1 .. Len(fs) : During(fs, T)[i] = fs[j]
         /\ \A j \in 1 .. Len(fs) : fs[j].ts \in T =>
              \E i \in 1 .. Len(During(fs, T)) : During(fs, T)[i] = fs[j]
         /\ Rising(fs) => Rising(During(fs, T))
<1>1. PICK kept : Keeps(fs, T, kept) /\ During(fs, T) = kept[Len(fs)]
  BY DuringKeeps
<1> DEFINE n == Len(fs)
           P(k) == /\ kept[k] \in Seq(Frame) /\ Len(kept[k]) <= k
                   /\ \A i \in 1 .. Len(kept[k]) :
                        kept[k][i].ts \in T /\ \E j \in 1 .. k : kept[k][i] = fs[j]
                   /\ \A j \in 1 .. k : fs[j].ts \in T =>
                        \E i \in 1 .. Len(kept[k]) : kept[k][i] = fs[j]
                   /\ Rising(fs) => Rising(kept[k])
           S == {k \in 0 .. n : P(k)}
<1>2. n \in Nat /\ \A i \in 1 .. n : fs[i] \in Frame
  OBVIOUS
<1>3. 0 \in S
  BY <1>1, <1>2 DEF Keeps, Rising
<1>4. ASSUME NEW k \in 1 .. n, k - 1 \in S
      PROVE  k \in S
  <2> DEFINE old == kept[k - 1]
  <2>1. P(k - 1) /\ k \in 0 .. n /\ fs[k] \in Frame /\ k \in Nat
    BY <1>2, <1>4
  <2>2. kept[k] = IF fs[k].ts \in T THEN Append(old, fs[k]) ELSE old
    BY <1>1 DEF Keeps
  <2> HIDE DEF n
  <2>3. CASE fs[k].ts \notin T
    <3>1. kept[k] = old
      BY <2>2, <2>3
    <3>2. \A j \in 1 .. k : j = k \/ j \in 1 .. k - 1
      BY <2>1
    <3>3. P(k)
      BY <2>1, <2>3, <3>1, <3>2
    <3> QED
      BY <2>1, <3>3
  <2>4. CASE fs[k].ts \in T
    <3>1. kept[k] = Append(old, fs[k]) /\ old \in Seq(Frame)
      BY <2>1, <2>2, <2>4
    <3>2. /\ kept[k] \in Seq(Frame) /\ Len(kept[k]) = Len(old) + 1
          /\ \A i \in 1 .. Len(old) : kept[k][i] = old[i]
          /\ kept[k][Len(old) + 1] = fs[k]
      BY <2>1, <3>1, AppendProperties
    <3>3. Len(old) \in Nat /\ Len(old) <= k - 1
      BY <2>1
    <3>4. \A i \in 1 .. Len(kept[k]) : i \in 1 .. Len(old) \/ i = Len(old) + 1
      BY <3>2, <3>3
    <3>5. ASSUME NEW i \in 1 .. Len(kept[k])
          PROVE  kept[k][i].ts \in T /\ \E j \in 1 .. k : kept[k][i] = fs[j]
      <4>1. CASE i \in 1 .. Len(old)
        <5>1. PICK j \in 1 .. k - 1 : old[i] = fs[j]
          BY <2>1, <4>1
        <5>2. j \in 1 .. k
          BY <2>1
        <5> QED
          BY <2>1, <3>2, <4>1, <5>1, <5>2
      <4>2. CASE i = Len(old) + 1
        BY <2>1, <2>4, <3>2, <4>2
      <4> QED
        BY <3>4, <4>1, <4>2
    <3>6. ASSUME NEW j \in 1 .. k, fs[j].ts \in T
          PROVE  \E i \in 1 .. Len(kept[k]) : kept[k][i] = fs[j]
      <4>1. CASE j = k
        <5>1. Len(old) + 1 \in 1 .. Len(kept[k])
          BY <3>2, <3>3
        <5> QED
          BY <3>2, <4>1, <5>1
      <4>2. CASE j # k
        <5>1. j \in 1 .. k - 1
          BY <2>1, <4>2
        <5>2. PICK i \in 1 .. Len(old) : old[i] = fs[j]
          BY <2>1, <3>6, <5>1
        <5>3. i \in 1 .. Len(kept[k])
          BY <3>2, <3>3
        <5> QED
          BY <3>2, <5>2, <5>3
      <4> QED
        BY <4>1, <4>2
    <3>7. ASSUME Rising(fs)
          PROVE  Rising(kept[k])
      <4> SUFFICES ASSUME NEW i \in 1 .. Len(kept[k]), NEW j \in 1 .. Len(kept[k]), i < j
                   PROVE  Before(kept[k][i], kept[k][j])
        BY DEF Rising
      <4>1. i \in 1 .. Len(old)
        BY <3>2, <3>3
      <4>2. CASE j \in 1 .. Len(old)
        BY <2>1, <3>2, <3>7, <4>1, <4>2 DEF Rising
      <4>3. CASE j = Len(old) + 1
        <5>1. PICK l \in 1 .. k - 1 : old[i] = fs[l]
          BY <2>1, <4>1
        <5>2. l \in 1 .. n /\ k \in 1 .. n /\ l < k
          BY <1>2, <2>1
        <5>3. Before(fs[l], fs[k])
          BY <3>7, <5>2 DEF Rising, n
        <5> QED
          BY <3>2, <4>1, <4>3, <5>1, <5>3
      <4> QED
        BY <3>4, <4>2, <4>3
    <3>8. Len(kept[k]) <= k
      BY <2>1, <3>2, <3>3
    <3>9. P(k)
      BY <3>2, <3>5, <3>6, <3>7, <3>8
    <3> QED
      BY <2>1, <3>9
  <2> QED
    BY <2>3, <2>4
<1> HIDE DEF S, n
<1>11. n \in Nat
  BY <1>2 DEF n
<1>12. Closed(n, S)
  BY <1>3, <1>4 DEF Closed
<1>5. n \in S
  BY <1>11, <1>12, Induct
<1>6. P(n)
  BY <1>5 DEF S
<1> QED
  BY <1>1, <1>6 DEF n

(* What the frames beyond a prefix do not add is decided by the prefix.    *)
LEMMA DuringPrefix ==
  ASSUME NEW fs \in Seq(Frame), NEW gs \in Seq(Frame), NEW T, NEW U,
         Len(gs) <= Len(fs), \A i \in 1 .. Len(gs) : gs[i] = fs[i],
         \A i \in 1 .. Len(gs) : fs[i].ts \in T <=> fs[i].ts \in U,
         \A i \in 1 .. Len(fs) : i > Len(gs) => fs[i].ts \notin T
  PROVE  During(fs, T) = During(gs, U)
<1>1. PICK kept : Keeps(fs, T, kept) /\ During(fs, T) = kept[Len(fs)]
  BY DuringKeeps
<1>2. PICK held : Keeps(gs, U, held) /\ During(gs, U) = held[Len(gs)]
  BY DuringKeeps
<1> DEFINE n == Len(fs)
           m == Len(gs)
           S == {k \in 0 .. n : kept[k] = held[IF k <= m THEN k ELSE m]}
<1>3. n \in Nat /\ m \in Nat /\ m <= n
  OBVIOUS
<1>4. 0 \in S
  BY <1>1, <1>2, <1>3 DEF Keeps
<1>5. ASSUME NEW k \in 1 .. n, k - 1 \in S
      PROVE  k \in S
  <2>1. k \in 0 .. n /\ k \in Nat /\ kept[k - 1] = held[IF k - 1 <= m THEN k - 1 ELSE m]
    BY <1>3, <1>5
  <2>2. kept[k] = IF fs[k].ts \in T THEN Append(kept[k - 1], fs[k]) ELSE kept[k - 1]
    BY <1>1 DEF Keeps
  <2>3. CASE k <= m
    <3>1. k \in 1 .. m /\ k - 1 <= m
      BY <1>3, <2>1, <2>3
    <3>2. held[k] = IF gs[k].ts \in U THEN Append(held[k - 1], gs[k]) ELSE held[k - 1]
      BY <1>2, <3>1 DEF Keeps
    <3>3. gs[k] = fs[k] /\ (fs[k].ts \in T <=> fs[k].ts \in U)
      BY <3>1
    <3> HIDE DEF n, m
    <3>4. kept[k - 1] = held[k - 1]
      BY <2>1, <3>1
    <3>5. kept[k] = held[k]
      BY <2>2, <3>2, <3>3, <3>4
    <3> QED
      BY <2>1, <2>3, <3>5
  <2>4. CASE ~(k <= m)
    <3>1. fs[k].ts \notin T
      BY <1>3, <2>1, <2>4
    <3>2. kept[k - 1] = held[m]
      <4>1. k - 1 <= m => k - 1 = m
        BY <1>3, <2>1, <2>4
      <4> HIDE DEF n, m
      <4> QED
        BY <2>1, <4>1
    <3> HIDE DEF n, m
    <3>3. kept[k] = held[m]
      BY <2>2, <3>1, <3>2
    <3> QED
      BY <2>1, <2>4, <3>3
  <2> QED
    BY <2>3, <2>4
<1> HIDE DEF S, n, m
<1>11. n \in Nat
  BY <1>3 DEF n
<1>12. Closed(n, S)
  BY <1>4, <1>5 DEF Closed
<1>6. n \in S
  BY <1>11, <1>12, Induct
<1>7. kept[n] = held[m]
  BY <1>3, <1>6 DEF S
<1> QED
  BY <1>1, <1>2, <1>7 DEF n, m

LEMMA DuringAll ==
  ASSUME NEW fs \in Seq(Frame), NEW T, \A i \in 1 .. Len(fs) : fs[i].ts \in T
  PROVE  During(fs, T) = fs
<1>1. PICK kept : Keeps(fs, T, kept) /\ During(fs, T) = kept[Len(fs)]
  BY DuringKeeps
<1> DEFINE n == Len(fs)
           S == {k \in 0 .. n : Len(kept[k]) = k /\ \A i \in 1 .. k : kept[k][i] = fs[i]}
<1>2. n \in Nat /\ \A i \in 1 .. n : fs[i] \in Frame
  OBVIOUS
<1>3. 0 \in S
  BY <1>1, <1>2 DEF Keeps
<1>4. ASSUME NEW k \in 1 .. n, k - 1 \in S
      PROVE  k \in S
  <2> DEFINE old == kept[k - 1]
  <2>1. /\ k \in 0 .. n /\ k \in Nat /\ k - 1 \in 0 .. n /\ fs[k] \in Frame
        /\ Len(old) = k - 1 /\ \A i \in 1 .. k - 1 : old[i] = fs[i]
    BY <1>2, <1>4
  <2>2. kept[k] = Append(old, fs[k]) /\ old \in Seq(Frame)
    BY <1>1, <2>1 DEF Keeps
  <2>3. /\ Len(kept[k]) = k
        /\ \A i \in 1 .. k - 1 : kept[k][i] = old[i]
        /\ kept[k][k] = fs[k]
    <3> HIDE DEF n, old
    <3>1. /\ Len(kept[k]) = Len(old) + 1
          /\ \A i \in 1 .. Len(old) : kept[k][i] = old[i]
          /\ kept[k][Len(old) + 1] = fs[k]
      BY <2>1, <2>2, AppendProperties
    <3> QED
      BY <2>1, <3>1
  <2>4. \A i \in 1 .. k : i = k \/ i \in 1 .. k - 1
    BY <2>1
  <2> QED
    BY <2>1, <2>3, <2>4
<1> HIDE DEF S, n
<1>11. n \in Nat
  BY <1>2 DEF n
<1>12. Closed(n, S)
  BY <1>3, <1>4 DEF Closed
<1>5. n \in S
  BY <1>11, <1>12, Induct
<1>6. Len(kept[n]) = n /\ \A i \in 1 .. n : kept[n][i] = fs[i]
  BY <1>5 DEF S
<1>7. kept[n] \in Seq(Frame)
  BY <1>1, <1>2 DEF Keeps, n
<1>8. kept[n] = fs
  BY <1>6, <1>7, SeqEqual DEF n
<1> QED
  BY <1>1, <1>8 DEF n

-----------------------------------------------------------------------------
(* Ranges. *)

(* Until ends before the first frame that is later.                        *)
LEMMA UntilIs ==
  ASSUME NEW fs \in Seq(Frame), NEW end \in Int
  PROVE  \E m \in 0 .. Len(fs) :
           /\ Until(fs, end) = SubSeq(fs, 1, m)
           /\ \A i \in 1 .. m : fs[i].ts <= end
           /\ m < Len(fs) => fs[m + 1].ts > end
<1> DEFINE I == {i \in 1 .. Len(fs) : fs[i].ts > end}
<1>1. UpTo(fs, end) = IF I # {} THEN Min(I) ELSE 0
  BY DEF UpTo, SelectInSeq
<1>2. Len(fs) \in 0 .. Len(fs) /\ \A i \in 1 .. Len(fs) : fs[i].ts \in Int
  <2>1. \A i \in 1 .. Len(fs) : fs[i] \in Frame
    OBVIOUS
  <2>2. \A f \in Frame : f.ts \in Int
    BY DEF Frame
  <2> QED
    BY <2>1, <2>2
<1>3. CASE I = {}
  <2>1. Until(fs, end) = fs
    BY <1>1, <1>3 DEF Until
  <2>2. Until(fs, end) = SubSeq(fs, 1, Len(fs))
    BY <2>1, SubSeqFull
  <2>3. \A i \in 1 .. Len(fs) : fs[i].ts <= end
    BY <1>2, <1>3
  <2> DEFINE n == Len(fs)
  <2>4. n \in 0 .. Len(fs) /\ ~(n < Len(fs))
    BY <1>2
  <2>5. Until(fs, end) = SubSeq(fs, 1, n) /\ \A i \in 1 .. n : fs[i].ts <= end
    BY <2>2, <2>3
  <2> HIDE DEF n
  <2> QED
    BY <2>4, <2>5
<1>4. CASE I # {}
  <2>1. \E x \in I : \A y \in I : x <= y
    <3>1. I \subseteq Nat
      OBVIOUS
    <3> HIDE DEF I
    <3> QED
      BY <1>4, <3>1, LeastOf
  <2> DEFINE x == Min(I)
  <2>2. x \in I /\ \A y \in I : x <= y
    BY <2>1 DEF Min
  <2> HIDE DEF x
  <2>3. UpTo(fs, end) = x
    BY <1>1, <1>4 DEF x
  <2>4. x \in 1 .. Len(fs) /\ fs[x].ts > end /\ x # 0
    BY <2>2
  <2>5. Until(fs, end) = SubSeq(fs, 1, x - 1)
    BY <2>3, <2>4 DEF Until
  <2>6. \A i \in 1 .. x - 1 : fs[i].ts <= end
    <3> SUFFICES ASSUME NEW i \in 1 .. x - 1 PROVE fs[i].ts <= end
      OBVIOUS
    <3>1. i \in 1 .. Len(fs) /\ ~(x <= i)
      BY <2>4
    <3>2. i \notin I
      BY <2>2, <3>1
    <3> QED
      BY <1>2, <3>1, <3>2
  <2>7. x - 1 \in 0 .. Len(fs) /\ x - 1 + 1 = x
    BY <2>4
  <2> QED
    BY <2>4, <2>5, <2>6, <2>7
<1> QED
  BY <1>3, <1>4

(* A range: what of the file is in it, for the file is in order.           *)
LEMMA RangeIs ==
  ASSUME NEW fs \in Seq(Frame), Rising(fs), NEW a \in Int, NEW b \in Int, b <= MaxClock
  PROVE  From(Until(fs, b), a) = During(fs, a .. b)
<1>1. PICK m \in 0 .. Len(fs) : /\ Until(fs, b) = SubSeq(fs, 1, m)
                                /\ \A i \in 1 .. m : fs[i].ts <= b
                                /\ m < Len(fs) => fs[m + 1].ts > b
  BY UntilIs
<1> DEFINE gs == SubSeq(fs, 1, m)
<1>2. /\ gs \in Seq(Frame) /\ Len(gs) = m /\ m <= Len(fs) /\ Len(fs) \in Nat
      /\ \A i \in 1 .. m : gs[i] = fs[i]
  <2>1. m \in Int /\ 1 \in Int /\ \A i \in 1 .. m : fs[i] \in Frame
    OBVIOUS
  <2>2. /\ gs \in Seq(Frame) /\ Len(gs) = IF 1 <= m THEN m - 1 + 1 ELSE 0
        /\ \A i \in 1 .. m - 1 + 1 : gs[i] = fs[1 + i - 1]
    BY <2>1, SubSeqProperties
  <2> QED
    BY <2>2
<1>3. \A i \in 1 .. Len(fs) : fs[i].ts \in 1 .. MaxClock
  <2>1. \A i \in 1 .. Len(fs) : fs[i] \in Frame
    OBVIOUS
  <2>2. \A f \in Frame : f.ts \in 1 .. MaxClock
    BY DEF Frame
  <2> QED
    BY <2>1, <2>2
<1>4. MaxClock \in Int
  BY LogsAssumption
<1> HIDE DEF gs
<1>5. \A i \in 1 .. Len(gs) : fs[i].ts \in a .. b <=> fs[i].ts \in a .. MaxClock
  BY <1>1, <1>2, <1>3, <1>4
<1>6. \A i \in 1 .. Len(fs) : i > Len(gs) => fs[i].ts \notin a .. b
  <2> SUFFICES ASSUME NEW i \in 1 .. Len(fs), i > m PROVE ~(fs[i].ts <= b)
    BY <1>2, <1>3, <1>4
  <2>1. m + 1 \in 1 .. Len(fs) /\ m < Len(fs)
    BY <1>2
  <2>2. fs[m + 1].ts > b
    BY <1>1, <2>1
  <2>3. i = m + 1 \/ m + 1 < i
    BY <1>2
  <2>4. i = m + 1 \/ fs[m + 1].ts <= fs[i].ts
    <3>1. fs[i] \in Frame /\ fs[m + 1] \in Frame
      BY <2>1
    <3>2. i = m + 1 \/ Before(fs[m + 1], fs[i])
      BY <2>1, <2>3 DEF Rising
    <3> QED
      BY <3>1, <3>2, BeforeIs
  <2>5. fs[i].ts \in Int /\ fs[m + 1].ts \in Int
    BY <1>3, <2>1
  <2> QED
    BY <2>2, <2>4, <2>5
<1>7. During(fs, a .. b) = During(gs, a .. MaxClock)
  <2> DEFINE T == a .. b
             U == a .. MaxClock
  <2>1. /\ gs \in Seq(Frame) /\ Len(gs) <= Len(fs)
        /\ \A i \in 1 .. Len(gs) : gs[i] = fs[i]
    BY <1>2
  <2>2. /\ \A i \in 1 .. Len(gs) : fs[i].ts \in T <=> fs[i].ts \in U
        /\ \A i \in 1 .. Len(fs) : i > Len(gs) => fs[i].ts \notin T
    BY <1>5, <1>6
  <2> HIDE DEF T, U
  <2>3. During(fs, T) = During(gs, U)
    BY <2>1, <2>2, DuringPrefix
  <2> QED
    BY <2>3 DEF T, U
<1> QED
  BY <1>1, <1>7 DEF From, gs

-----------------------------------------------------------------------------
(* What the files of a run may hold: each its own frames, in order of time. *)
Contents == [Streams -> Seq(Frame)]
Ordered(F) ==
  /\ \A s \in Streams : Rising(F[s])
  /\ \A s \in Streams : \A i \in 1 .. Len(F[s]) : F[s][i].s = s

LEMMA FrameParts ==
  ASSUME NEW f \in Frame
  PROVE  f.ts \in 1 .. MaxClock /\ f.s \in Streams /\ f.ts \in Int
BY DEF Frame

LEMMA Elements ==
  ASSUME NEW fs \in Seq(Frame)
  PROVE  /\ Len(fs) \in Nat
         /\ \A i \in 1 .. Len(fs) : /\ fs[i] \in Frame /\ fs[i].ts \in Int
                                    /\ fs[i].ts \in 1 .. MaxClock /\ fs[i].s \in Streams
<1>1. Len(fs) \in Nat /\ \A i \in 1 .. Len(fs) : fs[i] \in Frame
  OBVIOUS
<1> QED
  BY <1>1, FrameParts

LEMMA FramesAre ==
  ASSUME NEW F \in Contents
  PROVE  /\ \A f \in Frames(F) : \E s \in Streams : \E i \in 1 .. Len(F[s]) : f = F[s][i]
         /\ \A s \in Streams : \A i \in 1 .. Len(F[s]) : F[s][i] \in Frames(F)
         /\ Frames(F) \subseteq Frame
<1>1. \A s \in Streams : F[s] \in Seq(Frame)
  BY DEF Contents
<1>2. \A s \in Streams : DOMAIN F[s] = 1 .. Len(F[s]) /\ \A i \in 1 .. Len(F[s]) : F[s][i] \in Frame
  BY <1>1
<1>3. ASSUME NEW f \in Frames(F)
      PROVE  \E s \in Streams : \E i \in 1 .. Len(F[s]) : f = F[s][i]
  <2>1. PICK s \in Streams : f \in Range(F[s])
    BY <1>3 DEF Frames
  <2>2. PICK i \in DOMAIN F[s] : f = F[s][i]
    BY <2>1 DEF Range
  <2> QED
    BY <1>2, <2>2
<1>4. ASSUME NEW s \in Streams, NEW i \in 1 .. Len(F[s])
      PROVE  F[s][i] \in Frames(F)
  <2>1. F[s][i] \in Range(F[s])
    BY <1>2 DEF Range
  <2> QED
    BY <2>1 DEF Frames
<1>5. Frames(F) \subseteq Frame
  BY <1>2, <1>3
<1> QED
  BY <1>3, <1>4, <1>5

(* There are finitely many frames at all. *)
LEMMA FrameFinite == IsFiniteSet(Frame)
<1> DEFINE T == 1 .. MaxClock
           h == [f \in Frame |-> <<f.ts, f.s>>]
<1>1. IsFiniteSet(T)
  BY LogsAssumption, FS_Interval
<1>2. IsFiniteSet(Streams)
  <2> DEFINE k == [s \in Streams |-> Place(s)]
  <2>1. IsFiniteSet(DOMAIN Files)
    <3>1. \E n \in Nat : DOMAIN Files = 1 .. n
      BY LogsAssumption
    <3> QED
      BY <3>1, FS_Interval
  <2>2. k \in [Streams -> DOMAIN Files] /\ \A s, t \in Streams : k[s] = k[t] => s = t
    BY PlaceIs
  <2> HIDE DEF k
  <2>3. k \in Injection(Streams, DOMAIN Files)
    BY <2>2 DEF Injection, IsInjective
  <2> QED
    BY <2>1, <2>3, FS_Injection
<1>3. h \in [Frame -> T \X Streams] /\ \A f, g \in Frame : h[f] = h[g] => f = g
  BY DEF Frame
<1> HIDE DEF h, T
<1>4. h \in Injection(Frame, T \X Streams)
  BY <1>3 DEF Injection, IsInjective
<1>5. IsFiniteSet(T \X Streams)
  BY <1>1, <1>2, FS_Product
<1> QED
  BY <1>4, <1>5, FS_Injection

LEMMA FramesFinite ==
  ASSUME NEW F \in Contents
  PROVE  IsFiniteSet(Frames(F)) /\ Cardinality(Frames(F)) \in Nat
<1>1. Frames(F) \subseteq Frame
  BY FramesAre
<1>2. IsFiniteSet(Frames(F))
  BY <1>1, FrameFinite, FS_Subset
<1> QED
  BY <1>2, FS_CardinalityType
(* Where a frame stands among all: how many are earlier, and one.          *)
Earlier(F, f) == {g \in Frames(F) : Before(g, f)}
LEMMA RankIs ==
  ASSUME NEW F \in Contents, NEW f \in Frames(F)
  PROVE  /\ IsFiniteSet(Earlier(F, f)) /\ Cardinality(Earlier(F, f)) \in Nat
         /\ Rank(f, Frames(F)) = Cardinality(Earlier(F, f)) + 1
         /\ Rank(f, Frames(F)) \in 1 .. Cardinality(Frames(F))
<1> DEFINE E == Earlier(F, f)
<1>1. IsFiniteSet(Frames(F)) /\ Cardinality(Frames(F)) \in Nat
  BY FramesFinite
<1>2. E \in SUBSET (Frames(F) \ {f})
  <2>1. f \in Frame
    BY FramesAre
  <2>2. ~Before(f, f)
    BY <2>1, BeforeIs
  <2> QED
    BY <2>2 DEF Earlier
<1>3. E = {g \in Frames(F) : Before(g, f)}
  BY DEF Earlier
<1> HIDE DEF E
<1>4. IsFiniteSet(Frames(F) \ {f}) /\ Cardinality(Frames(F) \ {f}) = Cardinality(Frames(F)) - 1
  BY <1>1, FS_RemoveElement
<1>5. IsFiniteSet(E) /\ Cardinality(E) <= Cardinality(Frames(F)) - 1
  BY <1>2, <1>4, FS_Subset
<1>6. Cardinality(E) \in Nat
  BY <1>5, FS_CardinalityType
<1>7. Rank(f, Frames(F)) = Cardinality(E) + 1
  BY <1>3 DEF Rank
<1> QED
  BY <1>1, <1>5, <1>6, <1>7 DEF E

LEMMA RankRises ==
  ASSUME NEW F \in Contents, NEW f \in Frames(F), NEW g \in Frames(F), Before(f, g)
  PROVE  Rank(f, Frames(F)) < Rank(g, Frames(F))
<1> DEFINE D == Earlier(F, f)
           E == Earlier(F, g)
<1>1. /\ IsFiniteSet(D) /\ IsFiniteSet(E) /\ Cardinality(D) \in Nat /\ Cardinality(E) \in Nat
      /\ Rank(f, Frames(F)) = Cardinality(D) + 1 /\ Rank(g, Frames(F)) = Cardinality(E) + 1
  BY RankIs
<1>2. Frames(F) \subseteq Frame
  BY FramesAre
<1>3. f \notin D /\ f \in E /\ \A h \in D : h \in E
  BY <1>2, BeforeIs, BeforeTransitive DEF Earlier
<1> HIDE DEF D, E
<1>4. D \cup {f} \in SUBSET E
  BY <1>3
<1>5. Cardinality(D \cup {f}) = Cardinality(D) + 1
  BY <1>1, <1>3, FS_AddElement
<1>6. Cardinality(D \cup {f}) <= Cardinality(E)
  BY <1>1, <1>4, FS_Subset
<1> QED
  BY <1>1, <1>5, <1>6

(* Everything, sorted: each frame once, at its rank.                       *)
LEMMA SortedIs ==
  ASSUME NEW F \in Contents
  PROVE  /\ Sorted(F) \in Seq(Frame) /\ Len(Sorted(F)) = Cardinality(Frames(F))
         /\ \A i \in 1 .. Len(Sorted(F)) :
              Sorted(F)[i] \in Frames(F) /\ Rank(Sorted(F)[i], Frames(F)) = i
         /\ \A f \in Frames(F) : Rank(f, Frames(F)) \in 1 .. Len(Sorted(F))
                                 /\ Sorted(F)[Rank(f, Frames(F))] = f
         /\ Rising(Sorted(F))
<1> DEFINE A == Frames(F)
           N == Cardinality(A)
           rank == [f \in A |-> Rank(f, A)]
           all == Sorted(F)
<1>1. IsFiniteSet(A) /\ N \in Nat
  BY FramesFinite
<1>2. \A f \in A : Rank(f, A) \in 1 .. N /\ f \in Frame
  BY RankIs, FramesAre
<1>3. \A f, g \in A : Before(f, g) => Rank(f, A) < Rank(g, A)
  BY RankRises
<1>4. ASSUME NEW f \in A, NEW g \in A, Rank(f, A) = Rank(g, A)
      PROVE  f = g
  <2>1. ~Before(f, g) /\ ~Before(g, f)
    BY <1>2, <1>3, <1>4
  <2> QED
    BY <1>2, <2>1, BeforeIs
<1>5. \A i \in 1 .. N : \E f \in A : Rank(f, A) = i
  <2> DEFINE T == 1 .. N
  <2>1. rank \in [A -> T]
    BY <1>2
  <2>2. \A f, g \in A : rank[f] = rank[g] => f = g
    BY <1>4
  <2>3. rank \in Injection(A, T)
    BY <2>1, <2>2 DEF Injection, IsInjective
  <2>4. IsFiniteSet(T) /\ Cardinality(T) = N
    BY <1>1, FS_Interval
  <2> HIDE DEF rank, T, N, A
  <2>5. rank \in Surjection(A, T)
    BY <2>3, <2>4, FS_Injection DEF N
  <2>6. \A i \in T : \E f \in A : rank[f] = i
    BY <2>5 DEF Surjection
  <2> QED
    BY <2>6 DEF T, rank
<1>6. all = [i \in 1 .. N |-> CHOOSE f \in A : Rank(f, A) = i]
  BY DEF Sorted
<1> HIDE DEF all, N, A
<1>7. \A i \in 1 .. N : all[i] \in A /\ Rank(all[i], A) = i
  BY <1>5, <1>6
<1>8. \A f \in A : all[Rank(f, A)] = f
  BY <1>2, <1>4, <1>7
<1>9. all \in Seq(Frame) /\ Len(all) = N
  <2>1. A \subseteq Frame
    BY FramesAre DEF A
  <2> QED
    BY <1>1, <1>6, <1>7, <2>1
<1>10. Rising(all)
  <2> SUFFICES ASSUME NEW i \in 1 .. N, NEW j \in 1 .. N, i < j PROVE Before(all[i], all[j])
    BY <1>9 DEF Rising
  <2>1. all[i] \in Frame /\ all[j] \in Frame /\ all[i] # all[j]
    BY <1>2, <1>7
  <2>2. ~Before(all[j], all[i])
    BY <1>3, <1>7
  <2> QED
    BY <2>1, <2>2, BeforeIs
<1> QED
  BY <1>2, <1>7, <1>8, <1>9, <1>10 DEF all, N, A
-----------------------------------------------------------------------------
(* The merge.  Between two of its rounds what is out is the beginning of    *)
(* everything sorted, and what is left of the files is the rest.           *)
Merging(F, m) ==
  /\ m.left \in Contents /\ m.out \in Seq(Frame) /\ Len(m.out) <= Len(Sorted(F))
  /\ \A s \in Streams : Rising(m.left[s])
  /\ \A s \in Streams : \A i \in 1 .. Len(m.left[s]) :
       /\ m.left[s][i] \in Frames(F) /\ m.left[s][i].s = s
       /\ Rank(m.left[s][i], Frames(F)) > Len(m.out)
  /\ \A f \in Frames(F) : Rank(f, Frames(F)) > Len(m.out) =>
       \E i \in 1 .. Len(m.left[f.s]) : m.left[f.s][i] = f
  /\ \A j \in 1 .. Len(m.out) : m.out[j] = Sorted(F)[j]

(* The stream chosen is that of the frame that comes next.                 *)
LEMMA EarliestIs ==
  ASSUME NEW F \in Contents, Ordered(F), NEW m, Merging(F, m), Len(m.out) < Len(Sorted(F))
  PROVE  LET f == Sorted(F)[Len(m.out) + 1]
         IN  /\ f \in Frames(F) /\ f.s \in Streams /\ Rank(f, Frames(F)) = Len(m.out) + 1
             /\ Len(m.left[f.s]) > 0 /\ m.left[f.s][1] = f
             /\ Earliest(m.left) = f.s
<1> DEFINE k == Len(m.out) + 1
           f == Sorted(F)[k]
           L == m.left
           R(g) == Rank(g, Frames(F))
           Goal == /\ f \in Frames(F) /\ f.s \in Streams /\ R(f) = k
                   /\ Len(L[f.s]) > 0 /\ L[f.s][1] = f /\ Earliest(L) = f.s
<1>1. Sorted(F) \in Seq(Frame) /\ m.out \in Seq(Frame) /\ L \in Contents
  BY SortedIs DEF Merging
<1>2. k \in 1 .. Len(Sorted(F)) /\ k \in Nat /\ Len(m.out) = k - 1
  BY <1>1
<1>3. f \in Frames(F) /\ R(f) = k
  BY <1>2, SortedIs
<1>4. f.s \in Streams
  BY <1>3, FramesAre, FrameParts
<1>5. \A g \in Frames(F) : R(g) \in Int /\ g \in Frame
  BY RankIs, FramesAre
<1>6. \A g \in Frames(F) : Before(g, f) => R(g) < k
  BY <1>3, RankRises
<1>7. \A s \in Streams : /\ Rising(L[s]) /\ L[s] \in Seq(Frame)
                         /\ \A i \in 1 .. Len(L[s]) : L[s][i] \in Frames(F) /\ L[s][i].s = s
                                                      /\ R(L[s][i]) >= k
  <2> SUFFICES ASSUME NEW s \in Streams
               PROVE  /\ Rising(L[s]) /\ L[s] \in Seq(Frame)
                      /\ \A i \in 1 .. Len(L[s]) : L[s][i] \in Frames(F) /\ L[s][i].s = s
                                                   /\ R(L[s][i]) >= k
    OBVIOUS
  <2>1. L[s] \in Seq(Frame) /\ Rising(L[s])
    BY <1>1 DEF Contents, Merging
  <2>2. \A i \in 1 .. Len(L[s]) : L[s][i] \in Frames(F) /\ L[s][i].s = s /\ R(L[s][i]) > Len(m.out)
    BY DEF Merging
  <2> HIDE DEF R, L, k
  <2>3. \A i \in 1 .. Len(L[s]) : R(L[s][i]) >= k
    BY <1>2, <1>5, <2>2
  <2> QED
    BY <2>1, <2>2, <2>3
<1>8. \E i \in 1 .. Len(L[f.s]) : L[f.s][i] = f
  <2>1. R(f) > Len(m.out)
    BY <1>2, <1>3
  <2> QED
    BY <1>3, <2>1 DEF Merging
<1> HIDE DEF f, L, k, R
<1>9. Len(L[f.s]) > 0 /\ L[f.s][1] = f /\ L[f.s] # <<>> /\ Head(L[f.s]) = f
  <2>1. PICK i \in 1 .. Len(L[f.s]) : L[f.s][i] = f
    BY <1>8
  <2>2. L[f.s] \in Seq(Frame) /\ 1 \in 1 .. Len(L[f.s])
    BY <1>4, <1>7
  <2>3. i = 1
    <3> SUFFICES ASSUME 1 < i PROVE FALSE
      OBVIOUS
    <3>1. Before(L[f.s][1], f)
      BY <1>4, <1>7, <2>1, <2>2 DEF Rising
    <3> QED
      BY <1>4, <1>5, <1>6, <1>7, <1>2, <2>2, <3>1
  <2> QED
    BY <2>1, <2>2, <2>3
<1>10. ASSUME NEW t \in Streams, L[t] # <<>>, t # f.s
       PROVE  Head(L[t]) \in Frames(F) /\ Before(f, Head(L[t]))
  <2>1. L[t] \in Seq(Frame) /\ 1 \in 1 .. Len(L[t]) /\ Head(L[t]) = L[t][1]
    BY <1>7, <1>10
  <2> DEFINE g == Head(L[t])
  <2>2. g \in Frames(F) /\ g.s = t /\ R(g) >= k
    BY <1>7, <2>1
  <2> HIDE DEF g
  <2>3. g # f /\ ~Before(g, f)
    BY <1>2, <1>5, <1>6, <1>10, <2>2
  <2>5. Before(f, g)
    BY <1>3, <1>5, <2>2, <2>3, BeforeIs
  <2> QED
    BY <2>2, <2>5 DEF g
<1>11. Earliest(L) = f.s
  <2> DEFINE P(s) == L[s] # <<>> /\
               \A t \in Streams \ {s} : L[t] = <<>> \/ Before(Head(L[s]), Head(L[t]))
  <2>1. P(f.s)
    <3> SUFFICES ASSUME NEW t \in Streams \ {f.s}, L[t] # <<>>
                 PROVE  Before(Head(L[f.s]), Head(L[t]))
      BY <1>9
    <3>1. Before(f, Head(L[t]))
      BY <1>10
    <3> QED
      BY <1>9, <3>1
  <2>2. ASSUME NEW s \in Streams, P(s)
        PROVE  s = f.s
    <3> SUFFICES ASSUME s # f.s PROVE FALSE
      OBVIOUS
    <3>1. Head(L[s]) \in Frames(F) /\ Before(f, Head(L[s]))
      BY <1>10, <2>2
    <3>2. Before(Head(L[s]), f)
      BY <1>4, <1>9, <2>2
    <3> QED
      BY <1>3, <1>5, <3>1, <3>2, BeforeIs
  <2>3. Earliest(L) = CHOOSE s \in Streams : P(s)
    BY DEF Earliest
  <2> HIDE DEF P
  <2> QED
    BY <1>4, <2>1, <2>2, <2>3
<1>12. Goal
  BY <1>3, <1>4, <1>9, <1>11
<1> QED
  BY <1>12 DEF Goal, f, L, k, R
(* A round takes the next frame, or none when there is none.               *)
LEMMA MergeStepIs ==
  ASSUME NEW F \in Contents, Ordered(F), NEW m \in [left : Contents, out : Seq(Frame)],
         Merging(F, m)
  PROVE  LET o == MergeStep(m)
         IN  /\ o \in [left : Contents, out : Seq(Frame)] /\ Merging(F, o)
             /\ Len(o.out) = IF Len(m.out) < Len(Sorted(F)) THEN Len(m.out) + 1 ELSE Len(m.out)
<1> DEFINE o == MergeStep(m)
           k == Len(m.out) + 1
           N == Len(Sorted(F))
           R(g) == Rank(g, Frames(F))
           L == m.left
           Goal == /\ o \in [left : Contents, out : Seq(Frame)] /\ Merging(F, o)
                   /\ Len(o.out) = IF Len(m.out) < N THEN Len(m.out) + 1 ELSE Len(m.out)
<1>1. /\ N \in Nat /\ m.out \in Seq(Frame) /\ L \in Contents /\ Len(m.out) <= N
      /\ Len(m.out) \in Nat /\ k \in Nat /\ Len(m.out) = k - 1
  BY SortedIs DEF Merging
<1>2. ASSUME ~(Len(m.out) < N) PROVE Goal
  <2>1. \A g \in Frames(F) : R(g) \in 1 .. N
    BY RankIs, SortedIs
  <2>2. ASSUME NEW s \in Streams PROVE L[s] = <<>>
    <3> SUFFICES ASSUME L[s] # <<>> PROVE FALSE
      OBVIOUS
    <3>1. L[s] \in Seq(Frame)
      BY <1>1 DEF Contents
    <3> HIDE DEF L
    <3>2. 1 \in 1 .. Len(L[s])
      BY <3>1
    <3>3. L[s][1] \in Frames(F) /\ R(L[s][1]) > Len(m.out)
      BY <3>2 DEF Merging, L
    <3> HIDE DEF R, N
    <3> QED
      BY <1>1, <1>2, <2>1, <3>3
  <2>3. o = m
    BY <2>2 DEF MergeStep
  <2> HIDE DEF o, N
  <2>4. /\ o \in [left : Contents, out : Seq(Frame)] /\ Merging(F, o)
        /\ Len(o.out) = Len(m.out)
    BY <2>3
  <2> QED
    BY <1>2, <2>4
<1>3. ASSUME Len(m.out) < N PROVE Goal
  <2> DEFINE f == Sorted(F)[k]
             s == f.s
             T == [L EXCEPT ![s] = Tail(@)]
             Q == Append(m.out, f)
  <2>1. /\ f \in Frames(F) /\ s \in Streams /\ R(f) = k /\ Len(L[s]) > 0 /\ L[s][1] = f
        /\ Earliest(L) = s
    BY <1>3, EarliestIs
  <2>2. f \in Frame
    BY <2>1, FramesAre
  <2>3. L[s] \in Seq(Frame) /\ L[s] # <<>> /\ Head(L[s]) = f
    <3>1. L[s] \in Seq(Frame)
      BY <1>1, <2>1 DEF Contents
    <3> HIDE DEF L, s, f
    <3> QED
      BY <2>1, <3>1
  <2>4. o = [left |-> T, out |-> Q]
    <3>1. ~ \A t \in Streams : m.left[t] = <<>>
      BY <2>1, <2>3
    <3>2. o = LET e == Earliest(L)
              IN  [left |-> [L EXCEPT ![e] = Tail(@)], out |-> Append(m.out, Head(L[e]))]
      BY <3>1 DEF MergeStep
    <3> HIDE DEF L, s, f, o
    <3> QED
      BY <2>1, <2>3, <3>2
  <2> HIDE DEF o, s, f
  <2>5. Q \in Seq(Frame) /\ Len(Q) = k /\ Q[k] = f /\ \A j \in 1 .. Len(m.out) : Q[j] = m.out[j]
    BY <1>1, <2>2, AppendProperties
  <2>6. /\ T[s] \in Seq(Frame) /\ Len(T[s]) = Len(L[s]) - 1
        /\ \A i \in 1 .. Len(T[s]) : T[s][i] = L[s][i + 1]
        /\ \A t \in Streams : t # s => T[t] = L[t]
    <3>1. T[s] = Tail(L[s]) /\ \A t \in Streams : t # s => T[t] = L[t]
      BY <1>1, <2>1 DEF Contents
    <3> HIDE DEF T, L
    <3> QED
      BY <2>3, <3>1, HeadTailProperties
  <2>7. T \in Contents
    <3>1. Tail(L[s]) \in Seq(Frame)
      BY <2>3
    <3> HIDE DEF L
    <3> QED
      BY <1>1, <3>1 DEF Contents
  <2>8. o.left = T /\ o.out = Q /\ o \in [left : Contents, out : Seq(Frame)]
    BY <2>4, <2>5, <2>7
  <2>9. \A t \in Streams : /\ Rising(L[t]) /\ Len(L[t]) \in Nat
                           /\ \A i \in 1 .. Len(L[t]) : L[t][i] \in Frames(F) /\ L[t][i].s = t
                                                        /\ R(L[t][i]) > Len(m.out)
    BY <1>1 DEF Merging, Contents
  <2>10. \A g \in Frames(F) : R(g) > Len(m.out) => \E i \in 1 .. Len(L[g.s]) : L[g.s][i] = g
    BY DEF Merging
  <2>11. \A j \in 1 .. Len(m.out) : m.out[j] = Sorted(F)[j]
    BY DEF Merging
  <2>12. \A g \in Frames(F) : R(g) \in Int /\ g.s \in Streams
    BY RankIs, FramesAre, FrameParts
  <2>13. \A g \in Frames(F) : R(g) = k => g = f
    BY SortedIs DEF f
  <2>14. \A g \in Frames(F) : Before(f, g) => R(g) > k
    BY <2>1, RankRises
  <2> HIDE DEF T, Q, L, R, k
  <2>15. ASSUME NEW i \in 1 .. Len(T[s])
         PROVE  i + 1 \in 1 .. Len(L[s]) /\ T[s][i] = L[s][i + 1]
    BY <2>1, <2>6, <2>9
  <2>16. \A t \in Streams : Rising(T[t])
    <3>1. Rising(T[s])
      <4> SUFFICES ASSUME NEW i \in 1 .. Len(T[s]), NEW j \in 1 .. Len(T[s]), i < j
                   PROVE  Before(T[s][i], T[s][j])
        BY DEF Rising
      <4>1. i + 1 < j + 1
        OBVIOUS
      <4> QED
        BY <2>1, <2>9, <2>15, <4>1 DEF Rising
    <3> QED
      BY <2>6, <2>9, <3>1
  <2>17. ASSUME NEW t \in Streams, NEW i \in 1 .. Len(T[t])
         PROVE  T[t][i] \in Frames(F) /\ T[t][i].s = t /\ R(T[t][i]) > k
    <3>1. CASE t = s
      <4>1. i + 1 \in 1 .. Len(L[s]) /\ T[s][i] = L[s][i + 1] /\ 1 \in 1 .. Len(L[s]) /\ 1 < i + 1
        BY <2>1, <2>9, <2>15, <3>1
      <4>2. Before(f, L[s][i + 1])
        BY <2>1, <2>9, <4>1 DEF Rising
      <4> QED
        BY <2>1, <2>9, <2>14, <3>1, <4>1, <4>2
    <3>2. CASE t # s
      <4>1. T[t] = L[t] /\ L[t][i] \in Frames(F) /\ L[t][i].s = t /\ R(L[t][i]) > Len(m.out)
        BY <2>6, <2>9, <3>2
      <4>2. R(L[t][i]) # k
        BY <2>13, <3>2, <4>1 DEF s
      <4> QED
        BY <1>1, <2>12, <4>1, <4>2
    <3> QED
      BY <3>1, <3>2
  <2>18. ASSUME NEW g \in Frames(F), R(g) > k
         PROVE  \E i \in 1 .. Len(T[g.s]) : T[g.s][i] = g
    <3>1. PICK i \in 1 .. Len(L[g.s]) : L[g.s][i] = g
      BY <1>1, <2>10, <2>12, <2>18
    <3>2. CASE g.s = s
      <4>1. i # 1
        BY <1>1, <2>1, <2>18, <3>1, <3>2
      <4>2. i - 1 \in 1 .. Len(T[s]) /\ i - 1 + 1 = i
        BY <2>1, <2>6, <2>9, <3>2, <4>1
      <4>3. T[s][i - 1] = g
        BY <2>15, <3>1, <3>2, <4>2
      <4> QED
        BY <3>2, <4>2, <4>3
    <3>3. CASE g.s # s
      BY <2>6, <2>12, <3>1, <3>3
    <3> QED
      BY <3>2, <3>3
  <2>19. ASSUME NEW j \in 1 .. k PROVE Q[j] = Sorted(F)[j]
    <3>1. j = k \/ j \in 1 .. Len(m.out)
      BY <1>1
    <3> QED
      BY <2>5, <2>11, <3>1 DEF f
  <2>20. k <= N
    BY <1>1, <1>3
  <2>21. Merging(F, o)
    BY <2>5, <2>7, <2>8, <2>16, <2>17, <2>18, <2>19, <2>20 DEF Merging, R, N
  <2>22. Len(o.out) = k
    BY <2>5, <2>8
  <2> QED
    BY <1>3, <2>8, <2>21, <2>22 DEF k, Goal
<1> QED
  BY <1>2, <1>3
(* The first n and the last n. *)
LEMMA FirstNIs ==
  ASSUME NEW fs \in Seq(Frame), NEW n \in Nat
  PROVE  LET g == FirstN(fs, n)
         IN  /\ g \in Seq(Frame) /\ Len(g) = IF n < Len(fs) THEN n ELSE Len(fs)
             /\ Len(g) \in Nat /\ Len(g) <= n /\ Len(g) <= Len(fs)
             /\ \A i \in 1 .. Len(g) : g[i] = fs[i]
<1> DEFINE m == IF n < Len(fs) THEN n ELSE Len(fs)
           g == FirstN(fs, n)
<1>1. Len(fs) \in Nat /\ \A i \in 1 .. Len(fs) : fs[i] \in Frame
  OBVIOUS
<1>2. m \in Nat /\ m \in Int /\ m <= Len(fs) /\ m <= n /\ 1 \in Int
  BY <1>1
<1>3. g = SubSeq(fs, 1, m)
  BY DEF FirstN
<1> HIDE DEF m, g
<1>4. \A i \in 1 .. m : fs[i] \in Frame
  BY <1>1, <1>2
<1>5. /\ g \in Seq(Frame) /\ Len(g) = IF 1 <= m THEN m - 1 + 1 ELSE 0
      /\ \A i \in 1 .. m - 1 + 1 : g[i] = fs[1 + i - 1]
  BY <1>2, <1>3, <1>4, SubSeqProperties
<1>6. Len(g) = m /\ \A i \in 1 .. Len(g) : g[i] = fs[i]
  BY <1>2, <1>5
<1> QED
  BY <1>2, <1>5, <1>6 DEF g, m

LEMMA LastNIs ==
  ASSUME NEW fs \in Seq(Frame), NEW n \in Nat
  PROVE  LET g == LastN(fs, n)
         IN  /\ g \in Seq(Frame) /\ Len(g) = IF n < Len(fs) THEN n ELSE Len(fs)
             /\ Len(g) \in Nat /\ Len(g) <= n /\ Len(g) <= Len(fs)
             /\ \A i \in 1 .. Len(g) : g[i] = fs[Len(fs) - Len(g) + i]
<1> DEFINE m == IF n < Len(fs) THEN n ELSE Len(fs)
           l == Len(fs)
           b == l - m + 1
           g == LastN(fs, n)
<1>1. l \in Nat /\ \A i \in 1 .. l : fs[i] \in Frame
  OBVIOUS
<1>2. m \in Nat /\ m <= l /\ m <= n /\ b \in Int /\ l \in Int /\ b >= 1 /\ l - b + 1 = m
  BY <1>1
<1>3. g = SubSeq(fs, b, l)
  <2>1. n < l => b = l - n + 1
    OBVIOUS
  <2>2. ~(n < l) => b = 1
    BY <1>1
  <2>3. g = SubSeq(fs, IF n < l THEN l - n + 1 ELSE 1, l)
    BY DEF LastN
  <2> HIDE DEF b, g, l
  <2> QED
    BY <2>1, <2>2, <2>3
<1> HIDE DEF m, g, b, l
<1>4. \A i \in b .. l : fs[i] \in Frame
  BY <1>1, <1>2
<1>5. /\ g \in Seq(Frame) /\ Len(g) = IF b <= l THEN l - b + 1 ELSE 0
      /\ \A i \in 1 .. l - b + 1 : g[i] = fs[b + i - 1]
  BY <1>2, <1>3, <1>4, SubSeqProperties
<1>6. Len(g) = m
  BY <1>2, <1>5
<1>7. \A i \in 1 .. Len(g) : g[i] = fs[l - Len(g) + i]
  <2>1. \A i \in 1 .. m : b + i - 1 = l - m + i
    BY <1>2 DEF b
  <2> QED
    BY <1>2, <1>5, <1>6, <2>1
<1> QED
  BY <1>2, <1>5, <1>6, <1>7 DEF g, m, l

(* The merge gives the first of everything sorted.                         *)
LEMMA MergeIs ==
  ASSUME NEW F \in Contents, Ordered(F), NEW n \in Nat
  PROVE  Merge(F, n) = FirstN(Sorted(F), n)
<1> DEFINE Recs == [left : Contents, out : Seq(Frame)]
           M == {m \in Recs : Merging(F, m)}
           N == Len(Sorted(F))
           m0 == [left |-> F, out |-> <<>>]
           step == [x \in (1 .. n) \X M |-> MergeStep(x[2])]
           Def(k) == [i \in 0 .. n |-> IF i = 0 THEN m0 ELSE MergeStep(k[i - 1])]
<1>1. N \in Nat /\ Sorted(F) \in Seq(Frame)
  BY SortedIs
<1>2. m0 \in M
  <2>1. m0.left = F /\ m0.out = <<>> /\ m0 \in Recs /\ Len(m0.out) = 0
    OBVIOUS
  <2> HIDE DEF m0, Recs
  <2>2. \A s \in Streams : Rising(F[s]) /\ \A i \in 1 .. Len(F[s]) :
          F[s][i] \in Frames(F) /\ F[s][i].s = s /\ Rank(F[s][i], Frames(F)) > 0
    BY FramesAre, RankIs DEF Ordered
  <2>3. ASSUME NEW f \in Frames(F)
        PROVE  \E i \in 1 .. Len(F[f.s]) : F[f.s][i] = f
    <3>1. PICK s \in Streams : \E i \in 1 .. Len(F[s]) : f = F[s][i]
      BY FramesAre
    <3>2. PICK i \in 1 .. Len(F[s]) : f = F[s][i]
      BY <3>1
    <3>3. f.s = s
      BY <3>2 DEF Ordered
    <3> QED
      BY <3>2, <3>3
  <2>4. Merging(F, m0)
    BY <1>1, <2>1, <2>2, <2>3 DEF Merging
  <2> QED
    BY <2>1, <2>4
<1>3. ASSUME NEW m \in M
      PROVE  /\ MergeStep(m) \in M
             /\ Len(MergeStep(m).out) = IF Len(m.out) < N THEN Len(m.out) + 1 ELSE Len(m.out)
  BY MergeStepIs
<1> HIDE DEF M, N, m0
<1>4. step \in Rounds(M, n)
  BY <1>3 DEF Rounds
<1>5. PICK it \in [0 .. n -> M] : Goes(it, m0, step, n)
  <2> HIDE DEF step
  <2> QED
    BY <1>2, <1>4, Loop
<1>6. ASSUME NEW i \in 1 .. n
      PROVE  i - 1 \in 0 .. n /\ i \in 0 .. n /\ it[i - 1] \in M /\ it[i] = MergeStep(it[i - 1])
  <2>1. i - 1 \in 0 .. n /\ i \in 0 .. n
    OBVIOUS
  <2>2. <<i, it[i - 1]>> \in (1 .. n) \X M /\ it[i - 1] \in M
    BY <2>1
  <2>3. it[i] = step[<<i, it[i - 1]>>]
    BY <1>5 DEF Goes
  <2> QED
    BY <2>1, <2>2, <2>3
<1> HIDE DEF step
<1>7. it[0] = m0
  BY <1>5 DEF Goes
<1>8. it = Def(it)
  <2> DEFINE val(i) == IF i = 0 THEN m0 ELSE MergeStep(it[i - 1])
  <2>1. ASSUME NEW i \in 0 .. n PROVE it[i] = val(i)
    <3>1. i = 0 \/ i \in 1 .. n
      OBVIOUS
    <3> QED
      BY <1>6, <1>7, <3>1
  <2>2. Def(it) = [i \in 0 .. n |-> val(i)]
    OBVIOUS
  <2> HIDE DEF val, Def
  <2> QED
    BY <2>1, <2>2
<1> DEFINE runs == CHOOSE k : k = Def(k)
<1>9. Merge(F, n) = runs[n].out
  BY DEF Merge, m0
<1>10. runs = Def(runs)
  <2> HIDE DEF Def
  <2> QED
    BY <1>8
<1> HIDE DEF runs
<1>11. \A i \in 0 .. n : runs[i] = IF i = 0 THEN m0 ELSE MergeStep(runs[i - 1])
  BY <1>10
<1> DEFINE S == {j \in 0 .. n : runs[j] = it[j] /\ Len(it[j].out) = IF j < N THEN j ELSE N}
<1>12. 0 \in S
  <2>1. Len(m0.out) = 0
    BY DEF m0
  <2> QED
    BY <1>1, <1>7, <1>11, <2>1
<1>13. ASSUME NEW i \in 1 .. n, i - 1 \in S
       PROVE  i \in S
  <2>1. i - 1 \in 0 .. n /\ i \in 0 .. n /\ it[i - 1] \in M /\ it[i] = MergeStep(it[i - 1]) /\ i # 0
    BY <1>6
  <2>2. runs[i - 1] = it[i - 1] /\ Len(it[i - 1].out) = IF i - 1 < N THEN i - 1 ELSE N
    BY <1>13
  <2>3. runs[i] = it[i]
    BY <1>11, <2>1, <2>2
  <2>4. Len(it[i].out) = IF Len(it[i - 1].out) < N THEN Len(it[i - 1].out) + 1 ELSE Len(it[i - 1].out)
    BY <1>3, <2>1
  <2>5. Len(it[i].out) = IF i < N THEN i ELSE N
    BY <1>1, <2>2, <2>4
  <2> QED
    BY <2>1, <2>3, <2>5
<1> HIDE DEF S
<1>14. Closed(n, S)
  BY <1>12, <1>13 DEF Closed
<1>15. n \in S
  BY <1>14, Induct
<1>16. Merge(F, n) = it[n].out /\ Len(it[n].out) = IF n < N THEN n ELSE N
  BY <1>9, <1>15 DEF S
<1>17. Merging(F, it[n])
  BY DEF M
<1> DEFINE got0 == Merge(F, n)
           want == FirstN(Sorted(F), n)
<1>18. /\ got0 \in Seq(Frame) /\ Len(got0) = IF n < N THEN n ELSE N
       /\ \A j \in 1 .. Len(got0) : got0[j] = Sorted(F)[j]
  BY <1>16, <1>17 DEF Merging
<1>19. /\ want \in Seq(Frame) /\ Len(want) = IF n < N THEN n ELSE N
       /\ \A j \in 1 .. Len(want) : want[j] = Sorted(F)[j]
  BY <1>1, FirstNIs DEF N
<1> HIDE DEF got0, want
<1>20. got0 = want
  BY <1>18, <1>19, SeqEqual
<1> QED
  BY <1>20 DEF got0, want
-----------------------------------------------------------------------------
(* What is read of all files or of one. *)
LEMMA FirstAll ==
  ASSUME NEW fs \in Seq(Frame), NEW n \in Nat, Len(fs) <= n
  PROVE  FirstN(fs, n) = fs /\ LastN(fs, n) = fs
<1> DEFINE g == FirstN(fs, n)
           h == LastN(fs, n)
<1>1. Len(fs) \in Nat
  OBVIOUS
<1>2. g \in Seq(Frame) /\ Len(g) = Len(fs) /\ \A i \in 1 .. Len(g) : g[i] = fs[i]
  BY <1>1, FirstNIs
<1>3. h \in Seq(Frame) /\ Len(h) = Len(fs) /\ \A i \in 1 .. Len(h) : h[i] = fs[Len(fs) - Len(h) + i]
  BY <1>1, LastNIs
<1> HIDE DEF g, h
<1>4. g = fs
  BY <1>2, SeqEqual
<1>5. \A i \in 1 .. Len(h) : h[i] = fs[i]
  BY <1>1, <1>3
<1>6. h = fs
  BY <1>3, <1>5, SeqEqual
<1> QED
  BY <1>4, <1>6 DEF g, h

LEMMA ViewIs ==
  ASSUME NEW v \in AnyView, v # Files
  PROVE  v[1] \in Streams /\ Len(v) = 1 /\ v = <<v[1]>>
BY DEF AnyView

LEMMA ReadAllIs ==
  ASSUME NEW F \in Contents, Ordered(F), NEW v \in AnyView
  PROVE  /\ ReadAll(F, v) \in Seq(Frame) /\ Rising(ReadAll(F, v))
         /\ (IF v = Files THEN Merge(F, Total(F)) ELSE F[v[1]]) = ReadAll(F, v)
         /\ \A i \in 1 .. Len(ReadAll(F, v)) : ReadAll(F, v)[i] \in Frames(F)
<1>1. CASE v = Files
  <2>1. Sorted(F) \in Seq(Frame) /\ Rising(Sorted(F)) /\ Total(F) \in Nat /\ Len(Sorted(F)) <= Total(F)
        /\ \A i \in 1 .. Len(Sorted(F)) : Sorted(F)[i] \in Frames(F)
    BY SortedIs DEF Total
  <2>2. Merge(F, Total(F)) = Sorted(F)
    BY <2>1, MergeIs, FirstAll
  <2> QED
    BY <1>1, <2>1, <2>2 DEF ReadAll
<1>2. CASE v # Files
  <2>1. v[1] \in Streams
    BY <1>2, ViewIs
  <2>2. F[v[1]] \in Seq(Frame) /\ Rising(F[v[1]]) /\ \A i \in 1 .. Len(F[v[1]]) : F[v[1]][i] \in Frames(F)
    BY <2>1, FramesAre DEF Contents, Ordered
  <2> QED
    BY <1>2, <2>2 DEF ReadAll
<1> QED
  BY <1>1, <1>2

(* Heads and ranges are parts of what reading everything gives.            *)
LEMMA ReadHeadIs ==
  ASSUME NEW F \in Contents, Ordered(F), NEW v \in AnyView, NEW n \in Nat
  PROVE  ReadHead(F, v, n) = FirstN(ReadAll(F, v), n)
BY MergeIs DEF ReadHead, ReadAll

LEMMA ReadRangeIs ==
  ASSUME NEW F \in Contents, Ordered(F), NEW v \in AnyView, NEW a \in Int, NEW b \in Int, b <= MaxClock
  PROVE  ReadRange(F, v, a, b) = During(ReadAll(F, v), a .. b)
<1> DEFINE all == ReadAll(F, v)
<1>1. all \in Seq(Frame) /\ Rising(all)
  BY ReadAllIs
<1>2. ReadRange(F, v, a, b) = From(Until(all, b), a)
  BY ReadAllIs DEF ReadRange
<1> HIDE DEF all
<1>3. From(Until(all, b), a) = During(all, a .. b)
  BY <1>1, RangeIs
<1> QED
  BY <1>2, <1>3 DEF all

-----------------------------------------------------------------------------
(* Searches. *)
LEMMA FirstOfBoth ==
  ASSUME NEW h \in Seq(Frame), NEW g \in Seq(Frame), NEW n \in Nat
  PROVE  LET k == FirstN(h, n)
         IN  /\ n - Len(k) \in Nat
             /\ FirstN(h \o g, n) = k \o FirstN(g, n - Len(k))
<1> DEFINE k == FirstN(h, n)
           m == n - Len(k)
           l == FirstN(g, m)
           x == FirstN(h \o g, n)
           y == k \o l
<1>1. /\ k \in Seq(Frame) /\ Len(k) = (IF n < Len(h) THEN n ELSE Len(h)) /\ Len(k) \in Nat
      /\ Len(k) <= n /\ \A i \in 1 .. Len(k) : k[i] = h[i]
  BY FirstNIs
<1>2. m \in Nat /\ m = n - Len(k) /\ Len(h) \in Nat /\ Len(g) \in Nat
  BY <1>1
<1> HIDE DEF k, m
<1>3. /\ l \in Seq(Frame) /\ Len(l) = (IF m < Len(g) THEN m ELSE Len(g)) /\ Len(l) \in Nat
      /\ \A i \in 1 .. Len(l) : l[i] = g[i]
  BY <1>2, FirstNIs
<1> HIDE DEF l
<1>4. /\ h \o g \in Seq(Frame) /\ Len(h \o g) = Len(h) + Len(g)
      /\ \A i \in 1 .. Len(h) + Len(g) : (h \o g)[i] = IF i <= Len(h) THEN h[i] ELSE g[i - Len(h)]
  BY ConcatProperties
<1>5. /\ y \in Seq(Frame) /\ Len(y) = Len(k) + Len(l)
      /\ \A i \in 1 .. Len(k) + Len(l) : y[i] = IF i <= Len(k) THEN k[i] ELSE l[i - Len(k)]
  <2>1. k \in Seq(Frame) /\ l \in Seq(Frame)
    BY <1>1, <1>3
  <2> QED
    BY <2>1, ConcatProperties
<1> DEFINE w == h \o g
<1>6. /\ x \in Seq(Frame) /\ Len(x) = (IF n < Len(w) THEN n ELSE Len(w))
      /\ \A i \in 1 .. Len(x) : x[i] = w[i]
  <2>1. w \in Seq(Frame) /\ x = FirstN(w, n)
    BY <1>4
  <2> HIDE DEF w, x
  <2> QED
    BY <2>1, FirstNIs
<1>7. Len(w) = Len(h) + Len(g)
      /\ \A i \in 1 .. Len(h) + Len(g) : w[i] = IF i <= Len(h) THEN h[i] ELSE g[i - Len(h)]
  BY <1>4
<1> HIDE DEF w, x, y
<1>8. Len(x) = Len(y) /\ Len(x) <= Len(h) + Len(g) /\ Len(x) \in Nat
  <2> DEFINE A == Len(h)
             B == Len(g)
             K == Len(k)
  <2>1. /\ A \in Nat /\ B \in Nat /\ K = (IF n < A THEN n ELSE A) /\ m = n - K
        /\ Len(l) = (IF m < B THEN m ELSE B) /\ Len(y) = K + Len(l)
        /\ Len(x) = (IF n < A + B THEN n ELSE A + B)
    BY <1>1, <1>2, <1>3, <1>5, <1>6, <1>7
  <2> HIDE DEF A, B, K
  <2>2. Len(x) = Len(y) /\ Len(x) <= A + B /\ Len(x) \in Nat
    BY <2>1
  <2> QED
    BY <2>2 DEF A, B
<1>9. ASSUME NEW i \in 1 .. Len(x) PROVE x[i] = y[i]
  <2>1. x[i] = IF i <= Len(h) THEN h[i] ELSE g[i - Len(h)]
    BY <1>2, <1>6, <1>7, <1>8
  <2>2. y[i] = IF i <= Len(k) THEN k[i] ELSE l[i - Len(k)]
    BY <1>5, <1>8
  <2>3. CASE i <= Len(k)
    <3>1. i <= Len(h) /\ i \in 1 .. Len(k)
      BY <1>1, <1>2, <1>8, <2>3
    <3> QED
      BY <1>1, <2>1, <2>2, <2>3, <3>1
  <2>4. CASE ~(i <= Len(k))
    <3>1. Len(k) = Len(h) /\ i - Len(k) \in 1 .. Len(l)
      <4>1. Len(k) = IF n < Len(h) THEN n ELSE Len(h)
        BY <1>1
      <4>2. Len(x) = Len(k) + Len(l) /\ Len(x) <= n
        <5>1. Len(x) = IF n < Len(w) THEN n ELSE Len(w)
          BY <1>6
        <5>2. Len(w) \in Nat
          BY <1>2, <1>7
        <5>3. Len(x) <= n
          BY <5>1, <5>2
        <5>4. Len(y) = Len(k) + Len(l)
          BY <1>5
        <5>5. Len(x) = Len(k) + Len(l)
          BY <1>8, <5>4
        <5> QED
          BY <5>3, <5>5
      <4>3. i \in Int /\ i > Len(k) /\ i <= Len(k) + Len(l) /\ i <= n
        <5>1. i \in Int /\ i <= Len(x) /\ Len(k) \in Nat /\ Len(l) \in Nat
          BY <1>1, <1>3, <1>8
        <5> QED
          BY <2>4, <4>2, <5>1
      <4>4. Len(k) # n
        BY <1>1, <4>3
      <4>5. Len(k) = Len(h)
        BY <4>1, <4>4
      <4>6. i - Len(k) \in 1 .. Len(l)
        BY <1>1, <1>3, <4>3
      <4> QED
        BY <4>5, <4>6
    <3> QED
      BY <1>3, <2>1, <2>2, <2>4, <3>1
  <2> QED
    BY <2>3, <2>4
<1>10. x = y
  BY <1>5, <1>6, <1>8, <1>9, SeqEqual
<1> QED
  BY <1>2, <1>10 DEF x, y, w, l, m, k
(* The loop of search_logs over the runs, the latest first. *)
Found(v, n, a, b, found) ==
  /\ found \in [0 .. NRuns -> Seq(Frame)] /\ found[0] = <<>>
  /\ \A i \in 1 .. NRuns : found[i] = SearchRun(v, n, a, b, found[i - 1], NRuns + 1 - i)

LEMMA SearchRunIs ==
  ASSUME NEW v \in AnyView, NEW n \in Nat, NEW a \in Int, NEW b \in Int, NEW r \in Runs,
         file[r] \in Contents, Ordered(file[r]), NEW old \in Seq(Frame), Len(old) <= n
  PROVE  LET new == SearchRun(v, n, a, b, old, r)
             hits == During(ReadAll(file[r], v), Hits)
         IN  /\ new \in Seq(Frame) /\ Len(new) <= n /\ hits \in Seq(Frame)
             /\ \A i \in 1 .. Len(new) : (\E j \in 1 .. Len(old) : new[i] = old[j])
                                         \/ (new[i].ts \in Hits /\ new[i].ts \in a .. b)
             /\ a = 0 /\ b = MaxClock => new = old \o FirstN(hits, n - Len(old))
<1> DEFINE all == ReadAll(file[r], v)
           hits == During(all, Hits)
           m == n - Len(old)
           part == FirstN(hits, m)
           T == a .. b
           add == During(part, T)
           new == SearchRun(v, n, a, b, old, r)
           Goal == /\ new \in Seq(Frame) /\ Len(new) <= n /\ hits \in Seq(Frame)
                   /\ \A i \in 1 .. Len(new) : (\E j \in 1 .. Len(old) : new[i] = old[j])
                                               \/ (new[i].ts \in Hits /\ new[i].ts \in T)
                   /\ a = 0 /\ b = MaxClock => new = old \o part
<1>1. all \in Seq(Frame)
  BY ReadAllIs
<1>2. m \in Nat /\ Len(old) \in Nat /\ Len(old) + m = n
  OBVIOUS
<1>3. new = old \o add
  BY DEF SearchRun, Search
<1> HIDE DEF all, m, new
<1>4. hits \in Seq(Frame) /\ \A i \in 1 .. Len(hits) : hits[i].ts \in Hits
  BY <1>1, DuringSelects
<1> HIDE DEF hits
<1>5. /\ part \in Seq(Frame) /\ Len(part) <= m /\ Len(part) \in Nat
      /\ \A i \in 1 .. Len(part) : part[i].ts \in Hits /\ part[i].ts \in 0 .. MaxClock
  <2>1. /\ part \in Seq(Frame) /\ Len(part) <= m /\ Len(part) \in Nat /\ Len(part) <= Len(hits)
        /\ \A i \in 1 .. Len(part) : part[i] = hits[i]
    BY <1>2, <1>4, FirstNIs
  <2> HIDE DEF part
  <2>2. \A i \in 1 .. Len(part) : i \in 1 .. Len(hits)
    BY <1>4, <2>1
  <2>3. \A i \in 1 .. Len(part) : part[i].ts \in 1 .. MaxClock
    BY <2>1, Elements
  <2> QED
    BY <1>4, <2>1, <2>2, <2>3
<1> HIDE DEF part, T
<1>6. /\ add \in Seq(Frame) /\ Len(add) <= Len(part)
      /\ \A i \in 1 .. Len(add) : add[i].ts \in T /\ \E j \in 1 .. Len(part) : add[i] = part[j]
  BY <1>5, DuringSelects
<1>7. a = 0 /\ b = MaxClock => add = part
  <2> SUFFICES ASSUME a = 0, b = MaxClock PROVE add = part
    OBVIOUS
  <2>1. \A i \in 1 .. Len(part) : part[i].ts \in T
    BY <1>5 DEF T
  <2> QED
    BY <1>5, <2>1, DuringAll
<1> HIDE DEF add
<1>8. Len(add) \in Nat /\ \A i \in 1 .. Len(add) : add[i].ts \in Hits /\ add[i].ts \in T
  BY <1>5, <1>6
<1>9. /\ new \in Seq(Frame) /\ Len(new) = Len(old) + Len(add)
      /\ \A i \in 1 .. Len(old) + Len(add) : new[i] = IF i <= Len(old) THEN old[i] ELSE add[i - Len(old)]
  BY <1>3, <1>6, ConcatProperties
<1>10. Len(new) <= n
  <2>1. Len(add) <= m
    BY <1>2, <1>5, <1>6, <1>8
  <2> QED
    BY <1>2, <1>8, <1>9, <2>1
<1>11. ASSUME NEW i \in 1 .. Len(new)
       PROVE  (\E j \in 1 .. Len(old) : new[i] = old[j])
                 \/ (new[i].ts \in Hits /\ new[i].ts \in T)
  <2>1. CASE i <= Len(old)
    <3>1. i \in 1 .. Len(old) /\ new[i] = old[i]
      BY <1>2, <1>8, <1>9, <2>1
    <3> QED
      BY <3>1
  <2>2. CASE ~(i <= Len(old))
    <3>1. i - Len(old) \in 1 .. Len(add) /\ new[i] = add[i - Len(old)]
      BY <1>2, <1>8, <1>9, <2>2
    <3> QED
      BY <1>8, <3>1
  <2> QED
    BY <2>1, <2>2
<1>12. Goal
  BY <1>3, <1>4, <1>7, <1>9, <1>10, <1>11
<1> QED
  BY <1>12 DEF Goal, new, hits, all, part, m, T
LEMMA SearchLoops ==
  ASSUME NEW v \in AnyView, NEW n \in Nat, NEW a \in Int, NEW b \in Int,
         \A r \in Runs : file[r] \in Contents /\ Ordered(file[r])
  PROVE  \E found : /\ Found(v, n, a, b, found) /\ SearchLogs(v, n, a, b) = found[NRuns]
                    /\ \A i \in 0 .. NRuns : Len(found[i]) <= n
<1> DEFINE M == {x \in Seq(Frame) : Len(x) <= n}
           step == [x \in (1 .. NRuns) \X M |-> SearchRun(v, n, a, b, x[2], NRuns + 1 - x[1])]
           Def(k) == [i \in 0 .. NRuns |-> IF i = 0 THEN <<>>
                        ELSE SearchRun(v, n, a, b, k[i - 1], NRuns + 1 - i)]
<1>1. NRuns \in Nat /\ \A i \in 1 .. NRuns : NRuns + 1 - i \in Runs
  BY LogsAssumption DEF Runs
<1>2. <<>> \in M
  OBVIOUS
<1>3. ASSUME NEW x \in M, NEW r \in Runs PROVE SearchRun(v, n, a, b, x, r) \in M
  BY SearchRunIs
<1> HIDE DEF M
<1>4. step \in Rounds(M, NRuns)
  BY <1>1, <1>3 DEF Rounds
<1>5. PICK it \in [0 .. NRuns -> M] : Goes(it, <<>>, step, NRuns)
  <2> HIDE DEF step
  <2> QED
    BY <1>1, <1>2, <1>4, Loop
<1>6. ASSUME NEW i \in 1 .. NRuns
      PROVE  it[i] = SearchRun(v, n, a, b, it[i - 1], NRuns + 1 - i)
  <2>1. i - 1 \in 0 .. NRuns
    BY <1>1
  <2>2. <<i, it[i - 1]>> \in (1 .. NRuns) \X M
    BY <2>1
  <2>3. it[i] = step[<<i, it[i - 1]>>]
    BY <1>5 DEF Goes
  <2> QED
    BY <2>2, <2>3
<1> HIDE DEF step
<1>7. it[0] = <<>>
  BY <1>5 DEF Goes
<1>8. it = Def(it)
  <2> DEFINE val(i) == IF i = 0 THEN <<>> ELSE SearchRun(v, n, a, b, it[i - 1], NRuns + 1 - i)
  <2>1. ASSUME NEW i \in 0 .. NRuns PROVE it[i] = val(i)
    <3>1. i = 0 \/ i \in 1 .. NRuns
      BY <1>1
    <3> QED
      BY <1>1, <1>6, <1>7, <3>1
  <2>2. Def(it) = [i \in 0 .. NRuns |-> val(i)]
    OBVIOUS
  <2> HIDE DEF val, Def
  <2> QED
    BY <2>1, <2>2
<1> DEFINE runs == CHOOSE k : k = Def(k)
<1>9. SearchLogs(v, n, a, b) = runs[NRuns]
  BY DEF SearchLogs
<1>10. runs = Def(runs)
  <2> HIDE DEF Def
  <2> QED
    BY <1>8
<1> HIDE DEF runs
<1>11. \A i \in 0 .. NRuns : runs[i] = IF i = 0 THEN <<>>
                                       ELSE SearchRun(v, n, a, b, runs[i - 1], NRuns + 1 - i)
  BY <1>10
<1> DEFINE S == {j \in 0 .. NRuns : runs[j] = it[j]}
<1>12. 0 \in S
  BY <1>1, <1>7, <1>11
<1>13. ASSUME NEW i \in 1 .. NRuns, i - 1 \in S
       PROVE  i \in S
  <2>1. i \in 0 .. NRuns /\ i # 0 /\ runs[i - 1] = it[i - 1]
    BY <1>1, <1>13
  <2> QED
    BY <1>6, <1>11, <2>1
<1> HIDE DEF S
<1>14. Closed(NRuns, S)
  BY <1>12, <1>13 DEF Closed
<1>15. runs[NRuns] = it[NRuns]
  BY <1>1, <1>14, Induct DEF S
<1>16. it \in [0 .. NRuns -> Seq(Frame)] /\ \A i \in 0 .. NRuns : Len(it[i]) <= n
  BY DEF M
<1>17. Found(v, n, a, b, it)
  BY <1>6, <1>7, <1>16 DEF Found
<1> QED
  BY <1>9, <1>15, <1>16, <1>17

RunHits(v) ==
  CHOOSE k : k = [i \in 0 .. NRuns |-> IF i = 0 THEN <<>>
                    ELSE k[i - 1] \o During(ReadAll(file[NRuns + 1 - i], v), Hits)]
LEMMA HitsLoop ==
  ASSUME NEW v \in AnyView, \A r \in Runs : file[r] \in Contents /\ Ordered(file[r])
  PROVE  LET hits == RunHits(v)
         IN  /\ hits[0] = <<>> /\ \A i \in 0 .. NRuns : hits[i] \in Seq(Frame)
             /\ \A i \in 1 .. NRuns :
                  hits[i] = hits[i - 1] \o During(ReadAll(file[NRuns + 1 - i], v), Hits)
<1> DEFINE D(i) == During(ReadAll(file[NRuns + 1 - i], v), Hits)
           step == [x \in (1 .. NRuns) \X Seq(Frame) |-> x[2] \o D(x[1])]
           Def(k) == [i \in 0 .. NRuns |-> IF i = 0 THEN <<>> ELSE k[i - 1] \o D(i)]
           hits == RunHits(v)
<1>1. NRuns \in Nat /\ \A i \in 1 .. NRuns : NRuns + 1 - i \in Runs
  BY LogsAssumption DEF Runs
<1>2. <<>> \in Seq(Frame)
  OBVIOUS
<1>3. ASSUME NEW i \in 1 .. NRuns PROVE D(i) \in Seq(Frame)
  BY <1>1, ReadAllIs, DuringSelects
<1>4. step \in Rounds(Seq(Frame), NRuns)
  <2> HIDE DEF D
  <2> QED
    BY <1>1, <1>3 DEF Rounds
<1>5. PICK it \in [0 .. NRuns -> Seq(Frame)] : Goes(it, <<>>, step, NRuns)
  <2> HIDE DEF step
  <2> QED
    BY <1>1, <1>2, <1>4, Loop
<1>6. ASSUME NEW i \in 1 .. NRuns
      PROVE  i - 1 \in 0 .. NRuns /\ it[i] = it[i - 1] \o D(i)
  <2>1. i - 1 \in 0 .. NRuns
    BY <1>1
  <2>2. <<i, it[i - 1]>> \in (1 .. NRuns) \X Seq(Frame)
    BY <2>1
  <2>3. it[i] = step[<<i, it[i - 1]>>]
    BY <1>5 DEF Goes
  <2> HIDE DEF D
  <2> QED
    BY <2>1, <2>2, <2>3
<1> HIDE DEF step
<1>7. it[0] = <<>>
  BY <1>5 DEF Goes
<1>8. it = Def(it)
  <2> DEFINE val(i) == IF i = 0 THEN <<>> ELSE it[i - 1] \o D(i)
  <2>1. ASSUME NEW i \in 0 .. NRuns PROVE it[i] = val(i)
    <3>1. i = 0 \/ i \in 1 .. NRuns
      BY <1>1
    <3> HIDE DEF D
    <3> QED
      BY <1>1, <1>6, <1>7, <3>1
  <2>2. Def(it) = [i \in 0 .. NRuns |-> val(i)]
    OBVIOUS
  <2> HIDE DEF val, Def
  <2> QED
    BY <2>1, <2>2
<1>9. hits = CHOOSE k : k = Def(k)
  BY DEF RunHits
<1>10. hits = Def(hits)
  <2> HIDE DEF Def, hits
  <2> QED
    BY <1>8, <1>9
<1> HIDE DEF hits
<1>11. hits = [i \in 0 .. NRuns |-> IF i = 0 THEN <<>> ELSE hits[i - 1] \o D(i)]
  BY <1>10
<1> HIDE DEF Def, D
<1>12. \A i \in 0 .. NRuns : hits[i] = IF i = 0 THEN <<>> ELSE hits[i - 1] \o D(i)
  BY <1>11
<1> DEFINE S == {j \in 0 .. NRuns : hits[j] = it[j]}
<1>13. 0 \in S
  BY <1>1, <1>7, <1>12
<1>14. ASSUME NEW i \in 1 .. NRuns, i - 1 \in S
       PROVE  i \in S
  <2>1. i \in 0 .. NRuns /\ i # 0 /\ hits[i - 1] = it[i - 1]
    BY <1>1, <1>14
  <2> QED
    BY <1>6, <1>12, <2>1
<1> HIDE DEF S
<1>15. Closed(NRuns, S)
  BY <1>13, <1>14 DEF Closed
<1>16. \A i \in 0 .. NRuns : hits[i] = it[i]
  BY <1>1, <1>15, Induct DEF S
<1>17. \A i \in 0 .. NRuns : hits[i] \in Seq(Frame)
  BY <1>16
<1>18. hits[0] = <<>>
  BY <1>1, <1>12
<1>19. ASSUME NEW i \in 1 .. NRuns PROVE hits[i] = hits[i - 1] \o D(i)
  <2>1. i \in 0 .. NRuns /\ i # 0
    BY <1>1
  <2> QED
    BY <1>12, <2>1
<1> QED
  BY <1>17, <1>18, <1>19 DEF hits, D

(* A search gives matches within its window, no more than asked for; with   *)
(* no window the first matches.                                            *)
LEMMA SearchIs ==
  ASSUME NEW v \in AnyView, NEW n \in Nat, NEW a \in Int, NEW b \in Int,
         \A r \in Runs : file[r] \in Contents /\ Ordered(file[r])
  PROVE  LET found == SearchLogs(v, n, a, b)
         IN  /\ found \in Seq(Frame) /\ Len(found) <= n
             /\ \A i \in 1 .. Len(found) : found[i].ts \in Hits /\ found[i].ts \in a .. b
             /\ a = 0 /\ b = MaxClock => found = FirstN(RunHits(v)[NRuns], n)
<1>1. PICK found : /\ Found(v, n, a, b, found) /\ SearchLogs(v, n, a, b) = found[NRuns]
                   /\ \A i \in 0 .. NRuns : Len(found[i]) <= n
  BY SearchLoops
<1> DEFINE hits == RunHits(v)
           H(i) == During(ReadAll(file[NRuns + 1 - i], v), Hits)
           P(x) == \A i \in 1 .. Len(x) : x[i].ts \in Hits /\ x[i].ts \in a .. b
           Q(i) == a = 0 /\ b = MaxClock => found[i] = FirstN(hits[i], n)
           S == {i \in 0 .. NRuns : P(found[i]) /\ Q(i)}
<1>2. NRuns \in Nat /\ \A i \in 1 .. NRuns : NRuns + 1 - i \in Runs
  BY LogsAssumption DEF Runs
<1>3. /\ hits[0] = <<>> /\ \A i \in 0 .. NRuns : hits[i] \in Seq(Frame)
      /\ \A i \in 1 .. NRuns : hits[i] = hits[i - 1] \o H(i)
  BY HitsLoop
<1>4. found \in [0 .. NRuns -> Seq(Frame)] /\ found[0] = <<>>
  BY <1>1 DEF Found
<1> HIDE DEF hits
<1>5. 0 \in S
  <2>1. FirstN(<<>>, n) = <<>>
    <3>1. <<>> \in Seq(Frame) /\ Len(<<>>) <= n
      OBVIOUS
    <3> QED
      BY <3>1, FirstAll
  <2> QED
    BY <1>2, <1>3, <1>4, <2>1
<1>6. ASSUME NEW i \in 1 .. NRuns, i - 1 \in S
      PROVE  i \in S
  <2> DEFINE r == NRuns + 1 - i
             old == found[i - 1]
             new == found[i]
  <2>1. /\ i - 1 \in 0 .. NRuns /\ i \in 0 .. NRuns /\ r \in Runs /\ old \in Seq(Frame) /\ Len(old) <= n
        /\ P(old) /\ Q(i - 1) /\ new = SearchRun(v, n, a, b, old, r)
    BY <1>1, <1>2, <1>4, <1>6 DEF Found
  <2>2. /\ new \in Seq(Frame) /\ H(i) \in Seq(Frame)
        /\ \A j \in 1 .. Len(new) : (\E l \in 1 .. Len(old) : new[j] = old[l])
                                    \/ (new[j].ts \in Hits /\ new[j].ts \in a .. b)
        /\ a = 0 /\ b = MaxClock => new = old \o FirstN(H(i), n - Len(old))
    <3> DEFINE G == During(ReadAll(file[r], v), Hits)
    <3>1. file[r] \in Contents /\ Ordered(file[r])
      BY <2>1
    <3>2. H(i) = G
      OBVIOUS
    <3> HIDE DEF old, new, r, H
    <3>3. /\ new \in Seq(Frame) /\ G \in Seq(Frame)
          /\ \A j \in 1 .. Len(new) : (\E l \in 1 .. Len(old) : new[j] = old[l])
                                      \/ (new[j].ts \in Hits /\ new[j].ts \in a .. b)
          /\ a = 0 /\ b = MaxClock => new = old \o FirstN(G, n - Len(old))
      BY <2>1, <3>1, SearchRunIs
    <3> HIDE DEF G
    <3> QED
      BY <3>2, <3>3
  <2>3. P(new)
    BY <2>1, <2>2
  <2>4. Q(i)
    <3> SUFFICES ASSUME a = 0, b = MaxClock PROVE new = FirstN(hits[i], n)
      OBVIOUS
    <3> DEFINE h == hits[i - 1]
               g == H(i)
    <3>1. old = FirstN(h, n) /\ new = old \o FirstN(g, n - Len(old))
      BY <2>1, <2>2
    <3>2. h \in Seq(Frame) /\ g \in Seq(Frame) /\ hits[i] = h \o g
      BY <1>3, <2>1, <2>2
    <3> HIDE DEF old, new, h, g
    <3>3. FirstN(h \o g, n) = FirstN(h, n) \o FirstN(g, n - Len(FirstN(h, n)))
      BY <3>2, FirstOfBoth
    <3> QED
      BY <3>1, <3>2, <3>3
  <2> QED
    BY <2>1, <2>3, <2>4
<1> HIDE DEF S
<1>7. Closed(NRuns, S)
  BY <1>5, <1>6 DEF Closed
<1>8. NRuns \in S
  BY <1>2, <1>7, Induct
<1>9. P(found[NRuns]) /\ Q(NRuns) /\ found[NRuns] \in Seq(Frame) /\ Len(found[NRuns]) <= n
  BY <1>1, <1>2, <1>4, <1>8 DEF S
<1> QED
  BY <1>1, <1>9 DEF hits
=============================================================================
