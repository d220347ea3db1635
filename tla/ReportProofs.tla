---------------------------- MODULE ReportProofs ----------------------------
(***************************************************************************)
(* Proofs about Report for every configuration of modules, length of a day *)
(* and of the midnight window, and number of days.                         *)
(*                                                                         *)
(* The file of a channel is a faithful summary of the samples (FileTells):  *)
(* from one line to the next the channel was sampled in the state of the    *)
(* first of the two, and every stop since the midnight window has its line. *)
(* The loop of on_btnPrint over the lines is then a walk along the ticks:   *)
(* at every line what it has added up lies between the stops and the        *)
(* downtime passed so far (Walk).                                           *)
(***************************************************************************)
EXTENDS Report, TLAPS, FiniteSetTheorems, WellFoundedInduction

-----------------------------------------------------------------------------
(* Induction over a set of numbers                                         *)

\* A set of naturals that holds 0, and with each number below a bound the next
\* one, holds all numbers up to the bound.
LEMMA UpTo ==
    ASSUME NEW S, NEW m \in Nat, 0 \in S,
           \A n \in Nat : n < m /\ n \in S => n + 1 \in S
    PROVE  \A n \in 0..m : n \in S
  <1> DEFINE bad == {n \in 0..m : n \notin S}
             R == {p \in Nat \X Nat : p[1] < p[2]}
  <1> SUFFICES ASSUME bad # {} PROVE FALSE
    OBVIOUS
  <1>1. IsWellFoundedOn(R, Nat)
    BY NatLessThanWellFounded DEF OpToRel
  <1>2. bad \in SUBSET Nat
    OBVIOUS
  <1>3. PICK n \in bad : \A e \in bad : <<e, n>> \notin R
    <2> HIDE DEF R, bad
    <2> QED
      BY <1>1, <1>2, WFMin
  <1>4. n \in Nat /\ n <= m /\ n \notin S /\ n # 0
    OBVIOUS
  <1>5. n - 1 \in Nat /\ n - 1 < m /\ n - 1 \in 0..m /\ n - 1 < n
    BY <1>4
  <1>6. n - 1 \notin bad
    BY <1>3, <1>4, <1>5
  <1>7. (n - 1) + 1 = n
    BY <1>4
  <1> QED
    BY <1>4, <1>5, <1>6, <1>7

-----------------------------------------------------------------------------
(* The loop over the lines of a file                                       *)

Begin == [done |-> FALSE, isGoOn |-> TRUE, chanelState |-> TRUE,
          closeTime |-> 0, allTime |-> 0]

\* What was read by the first lines of f, for a range of ticks.
Reads(g, f, m, startDate, endDate) ==
    g = [n \in 0..m |-> IF n = 0 THEN Begin
                        ELSE ReadLine(g[n - 1], f[n], startDate, endDate)]

\* The loop of on_btnPrint comes to its end.
LEMMA ReadsExists ==
    ASSUME NEW f, NEW m \in Nat, NEW startDate, NEW endDate
    PROVE  \E g : Reads(g, f, m, startDate, endDate)
  <1> DEFINE S == {n \in Nat : \E g : Reads(g, f, n, startDate, endDate)}
  <1>1. 0 \in S
    <2> DEFINE g == [n \in 0..0 |-> Begin]
    <2>1. Reads(g, f, 0, startDate, endDate)
      BY DEF Reads
    <2> HIDE DEF g
    <2> QED
      BY <2>1
  <1>2. ASSUME NEW n \in Nat, n \in S PROVE n + 1 \in S
    <2>1. PICK g : Reads(g, f, n, startDate, endDate)
      BY <1>2
    <2> DEFINE step(r, k) == ReadLine(r, f[k], startDate, endDate)
               h == [k \in 0..(n + 1) |-> IF k <= n THEN g[k] ELSE step(g[n], n + 1)]
    <2> HIDE DEF step
    <2>2. g = [k \in 0..n |-> IF k = 0 THEN Begin ELSE step(g[k - 1], k)]
      BY <2>1 DEF Reads, step
    <2>3. \A k \in 0..(n + 1) : h[k] = IF k = 0 THEN Begin ELSE step(h[k - 1], k)
      <3> SUFFICES ASSUME NEW k \in 0..(n + 1)
                   PROVE  h[k] = IF k = 0 THEN Begin ELSE step(h[k - 1], k)
        OBVIOUS
      <3>1. CASE k = 0
        BY <2>2, <3>1
      <3>2. CASE k # 0 /\ k <= n
        <4>1. k - 1 \in 0..(n + 1) /\ k - 1 <= n /\ k \in 0..n
          BY <3>2
        <4>2. h[k - 1] = g[k - 1] /\ h[k] = g[k]
          BY <3>2, <4>1
        <4> HIDE DEF h
        <4> QED
          BY <2>2, <3>2, <4>1, <4>2
      <3>3. CASE k = n + 1
        <4>1. k - 1 = n /\ n \in 0..(n + 1) /\ k # 0 /\ ~(k <= n) /\ n <= n
          BY <3>3
        <4>2. h[n] = g[n] /\ h[k] = step(g[n], n + 1)
          BY <4>1
        <4> HIDE DEF h
        <4> QED
          BY <3>3, <4>1, <4>2
      <3> QED
        BY <3>1, <3>2, <3>3
    <2>4. h = [k \in 0..(n + 1) |-> h[k]]
      OBVIOUS
    <2> HIDE DEF h
    <2>5. h = [k \in 0..(n + 1) |-> IF k = 0 THEN Begin ELSE step(h[k - 1], k)]
      BY <2>3, <2>4
    <2>6. Reads(h, f, n + 1, startDate, endDate)
      BY <2>5 DEF Reads, step
    <2> QED
      BY <2>6
  <1> HIDE DEF S
  <1>3. m \in S
    BY <1>1, <1>2, UpTo
  <1> QED
    BY <1>3 DEF S

\* What is known after the last line is what was read by it.
LEMMA ReadLinesReads ==
    ASSUME NEW f, Len(f) \in Nat, NEW startDate, NEW endDate
    PROVE  \E g : /\ Reads(g, f, Len(f), startDate, endDate)
                  /\ ReadLines(f, startDate, endDate) = g[Len(f)]
  <1> DEFINE read == CHOOSE g : Reads(g, f, Len(f), startDate, endDate)
  <1>1. Reads(read, f, Len(f), startDate, endDate)
    BY ReadsExists
  <1>2. ReadLines(f, startDate, endDate) = read[Len(f)]
    BY DEF ReadLines, Reads, Begin
  <1> HIDE DEF read
  <1> QED
    BY <1>1, <1>2

-----------------------------------------------------------------------------
(* Counting ticks                                                          *)

\* The ticks of S from a on and before b.
Count(S, a, b) == Cardinality(S \cap (a..(b - 1)))

\* A count is a number, and at most the length of the interval.
LEMMA CountBounds ==
    ASSUME NEW S, NEW a \in Int, NEW b \in Int
    PROVE  /\ Count(S, a, b) \in Nat
           /\ a <= b => Count(S, a, b) <= b - a
           /\ (\A t \in a..(b - 1) : t \notin S) => Count(S, a, b) = 0
           /\ (a <= b /\ \A t \in a..(b - 1) : t \in S) => Count(S, a, b) = b - a
  <1> DEFINE I == a..(b - 1)
             J == S \cap I
  <1>1. IsFiniteSet(I) /\ Cardinality(I) = IF a > b - 1 THEN 0 ELSE (b - 1) - a + 1
    BY FS_Interval
  <1>2. J \subseteq I
    OBVIOUS
  <1>3. IsFiniteSet(J) /\ Cardinality(J) <= Cardinality(I) /\ Cardinality(J) \in Nat
    <2> HIDE DEF I, J
    <2> QED
      BY <1>1, <1>2, FS_Subset, FS_CardinalityType
  <1>4. a <= b => Cardinality(I) = b - a
    BY <1>1
  <1>5. ASSUME \A t \in a..(b - 1) : t \notin S PROVE Cardinality(J) = 0
    <2>1. J = {}
      BY <1>5
    <2> QED
      BY <2>1, FS_EmptySet
  <1>6. ASSUME \A t \in a..(b - 1) : t \in S PROVE J = I
    BY <1>6
  <1> QED
    BY <1>3, <1>4, <1>5, <1>6 DEF Count

\* What is counted up to b and from b on is counted altogether.
LEMMA CountSplit ==
    ASSUME NEW S, NEW a \in Int, NEW b \in Int, NEW c \in Int, a <= b, b <= c
    PROVE  Count(S, a, c) = Count(S, a, b) + Count(S, b, c)
  <1> DEFINE I == S \cap (a..(c - 1))
             J == S \cap (a..(b - 1))
             K == S \cap (b..(c - 1))
  <1>1. I = J \cup K /\ J \cap K = {}
    OBVIOUS
  <1>2. IsFiniteSet(J) /\ IsFiniteSet(K)
    <2>1. IsFiniteSet(a..(b - 1)) /\ IsFiniteSet(b..(c - 1))
      BY FS_Interval
    <2>2. J \subseteq a..(b - 1) /\ K \subseteq b..(c - 1)
      OBVIOUS
    <2> HIDE DEF J, K
    <2> QED
      BY <2>1, <2>2, FS_Subset
  <1>3. Cardinality(J) \in Nat /\ Cardinality(K) \in Nat
    BY <1>2, FS_CardinalityType
  <1>4. Cardinality(I) = Cardinality(J) + Cardinality(K)
    <2> HIDE DEF I, J, K
    <2>1. Cardinality(J \cup K) = Cardinality(J) + Cardinality(K) - Cardinality(J \cap K)
      BY <1>2, FS_Union
    <2>2. Cardinality(J \cap K) = 0
      BY <1>1, FS_EmptySet
    <2> QED
      BY <1>1, <1>3, <2>1, <2>2
  <1> QED
    BY <1>4 DEF Count

-----------------------------------------------------------------------------
(* The walk of on_btnPrint along the lines of a file                       *)

Line == [at : Nat, on : BOOLEAN, legible : BOOLEAN]

\* What the loop knows of the lines before.
Reading == [done : BOOLEAN, isGoOn : BOOLEAN, chanelState : BOOLEAN,
            closeTime : Int, allTime : Int]

InRange(line, start, end) == line.legible /\ start <= line.at /\ line.at <= end

\* Later lines are of later ticks, and only the first may be the one of midnight.
Ordered(f) == \A m, n \in 1..Len(f) : m < n => f[m].at < f[n].at /\ f[n].legible

\* Between a line and the next, a channel that was on is never among the stops
\* and one that was off always among the ticks without power; a stop begins
\* with a line of its own.
Holds(f, start, end, stops, off) ==
    /\ \A n \in 1..Len(f) : InRange(f[n], start, end) =>
          \A t \in f[n].at..end : (n < Len(f) => t < f[n + 1].at) =>
              IF f[n].on THEN t \notin stops ELSE t \in off
    /\ \A t \in stops : t \in start..(end - 1) =>
          \E n \in 1..Len(f) : InRange(f[n], start, end) /\ f[n].at <= t

\* What was added up lies between the stops and the downtime up to x.
Between(sum, start, x, stops, off) ==
    Count(stops, start, x) <= sum /\ sum <= Count(off, start, x)

\* After n lines: none was in the range yet, or the last that was, the p-th,
\* tells how far the sum reaches: up to this line or to where the stop began.
Walked(r, f, p, start, end, stops, off) ==
    LET x == IF f[p].on THEN f[p].at ELSE r.closeTime
    IN  /\ ~r.isGoOn /\ r.chanelState = f[p].on
        /\ start <= x /\ x <= f[p].at
        /\ Between(r.allTime, start, x, stops, off)
        /\ ~f[p].on => \A t \in x..(f[p].at - 1) : t \in off

Walk(r, f, n, start, end, stops, off) ==
    /\ r \in Reading
    /\ \/ r = Begin /\ \A k \in 1..n : ~InRange(f[k], start, end)
       \/ \E p \in 1..n :
            /\ InRange(f[p], start, end)
            /\ Walked(r, f, p, start, end, stops, off)
            /\ IF r.done THEN p < Len(f) /\ f[p + 1].at > end ELSE p = n

\* A line within the range, and one outside of it.
LEMMA ReadLineIn ==
    ASSUME NEW r \in Reading, ~r.done, NEW item \in Line, NEW start, NEW end,
           InRange(item, start, end)
    PROVE  LET s == ReadLine(r, item, start, end)
               changed == item.on # r.chanelState
           IN  /\ s \in Reading /\ ~s.done /\ ~s.isGoOn /\ s.chanelState = item.on
               /\ s.closeTime = IF changed /\ ~item.on THEN item.at ELSE r.closeTime
               /\ s.allTime = IF changed /\ item.on
                              THEN r.allTime + (item.at - r.closeTime) ELSE r.allTime
  <1> DEFINE changed == item.on # r.chanelState
             close == IF changed /\ ~item.on THEN item.at ELSE r.closeTime
             sum == IF changed /\ item.on
                    THEN r.allTime + (item.at - r.closeTime) ELSE r.allTime
  <1>1. /\ r.done \in BOOLEAN /\ r.closeTime \in Int /\ r.allTime \in Int
        /\ item.on \in BOOLEAN /\ item.at \in Int
    BY DEF Reading, Line
  <1>2. close \in Int /\ sum \in Int
    BY <1>1
  <1> DEFINE t == [r EXCEPT !.isGoOn = FALSE, !.chanelState = item.on,
                            !.closeTime = close, !.allTime = sum]
  <1>3. ReadLine(r, item, start, end) = t
    BY DEF ReadLine, InRange
  <1> HIDE DEF close, sum
  <1>4. /\ t \in Reading /\ t.done = r.done /\ t.isGoOn = FALSE
        /\ t.chanelState = item.on /\ t.closeTime = close /\ t.allTime = sum
    BY <1>1, <1>2 DEF Reading
  <1> HIDE DEF t
  <1> QED
    BY <1>3, <1>4 DEF close, sum

\* A line outside of the range ends the walk once it has begun.
LEMMA ReadLineOut ==
    ASSUME NEW r \in Reading, ~r.done, NEW item, NEW start, NEW end,
           ~InRange(item, start, end)
    PROVE  LET s == ReadLine(r, item, start, end)
           IN  /\ s \in Reading /\ s.done = ~r.isGoOn
               /\ s.isGoOn = r.isGoOn /\ s.chanelState = r.chanelState
               /\ s.closeTime = r.closeTime /\ s.allTime = r.allTime
  <1>1. ReadLine(r, item, start, end) = [r EXCEPT !.done = ~r.isGoOn]
    BY DEF ReadLine, InRange
  <1> QED
    BY <1>1 DEF Reading

\* Outside of it, what came before the first line in the range is forgotten.
LEMMA ReadLineSkip ==
    ASSUME NEW item, NEW start, NEW end, ~InRange(item, start, end)
    PROVE  ReadLine(Begin, item, start, end) = Begin
  <1>1. ~Begin.done /\ Begin.isGoOn
    BY DEF Begin
  <1>2. ReadLine(Begin, item, start, end) = [Begin EXCEPT !.done = ~Begin.isGoOn]
    BY <1>1 DEF ReadLine, InRange
  <1> QED
    BY <1>2 DEF Begin

\* One more line is read.
LEMMA WalkStep ==
    ASSUME NEW f \in Seq(Line), NEW n \in Nat, n < Len(f), Ordered(f),
           NEW start \in Int, NEW end \in Int, NEW stops, NEW off,
           Holds(f, start, end, stops, off),
           NEW r, Walk(r, f, n, start, end, stops, off)
    PROVE  Walk(ReadLine(r, f[n + 1], start, end), f, n + 1, start, end, stops, off)
  <1> DEFINE q == n + 1
             s == ReadLine(r, f[q], start, end)
  <1>0. \A k \in 1..Len(f) : f[k] \in Line
    OBVIOUS
  <1>1. /\ Len(f) \in Nat /\ q \in 1..Len(f) /\ q \in Nat
        /\ \A k \in 1..Len(f) : f[k] \in Line /\ f[k].at \in Int /\ f[k].on \in BOOLEAN
    <2>1. \A l \in Line : l.at \in Int /\ l.on \in BOOLEAN
      BY DEF Line
    <2>2. Len(f) \in Nat /\ q \in 1..Len(f) /\ q \in Nat
      OBVIOUS
    <2> QED
      BY <1>0, <2>1, <2>2
  <1>2. r \in Reading
    BY DEF Walk
  <1>3. /\ r.done \in BOOLEAN /\ r.isGoOn \in BOOLEAN /\ r.chanelState \in BOOLEAN
        /\ r.closeTime \in Int /\ r.allTime \in Int
    BY <1>2 DEF Reading
  <1> HIDE DEF s
  <1>4. CASE r = Begin /\ \A k \in 1..n : ~InRange(f[k], start, end)
    <2>1. /\ ~r.done /\ r.isGoOn /\ r.chanelState = TRUE
          /\ r.closeTime = 0 /\ r.allTime = 0
      BY <1>4 DEF Begin
    <2>2. CASE ~InRange(f[q], start, end)
      <3>1. s = ReadLine(Begin, f[q], start, end) /\ Begin \in Reading
        BY <1>2, <1>4 DEF s
      <3>2. s = Begin /\ s \in Reading
        BY <3>1, <2>2, ReadLineSkip
      <3>3. \A k \in 1..q : ~InRange(f[k], start, end)
        BY <1>4, <2>2
      <3> QED
        BY <3>1, <3>2, <3>3 DEF Walk, s
    <2>3. CASE InRange(f[q], start, end)
      <3>0. /\ s \in Reading /\ ~s.done /\ ~s.isGoOn /\ s.chanelState = f[q].on
            /\ s.closeTime = IF f[q].on # r.chanelState /\ ~f[q].on
                             THEN f[q].at ELSE r.closeTime
            /\ s.allTime = IF f[q].on # r.chanelState /\ f[q].on
                           THEN r.allTime + (f[q].at - r.closeTime) ELSE r.allTime
        BY <1>1, <1>2, <2>1, <2>3, ReadLineIn DEF s
      <3>1. /\ s \in Reading /\ ~s.done /\ ~s.isGoOn /\ s.chanelState = f[q].on
            /\ ~f[q].on => s.closeTime = f[q].at
            /\ s.allTime = 0
        <4>1. f[q].on \in BOOLEAN
          BY <1>1
        <4>2. f[q].on = TRUE \/ f[q].on = FALSE
          BY <4>1
        <4> QED
          BY <2>1, <3>0, <4>2
      <3>2. start <= f[q].at
        BY <2>3 DEF InRange
      <3>3. \A t \in start..(f[q].at - 1) : t \notin stops
        <4> SUFFICES ASSUME NEW t \in start..(f[q].at - 1), t \in stops PROVE FALSE
          OBVIOUS
        <4>1. f[q].at <= end
          BY <2>3 DEF InRange
        <4>2. t \in start..(end - 1)
          BY <1>1, <4>1
        <4>3. PICK k \in 1..Len(f) : InRange(f[k], start, end) /\ f[k].at <= t
          BY <4>2 DEF Holds
        <4>4. ~(k <= n)
          BY <1>4, <4>3
        <4>5. f[q].at <= f[k].at
          BY <1>1, <4>4 DEF Ordered
        <4> QED
          BY <1>1, <4>3, <4>5
      <3>4. Between(0, start, f[q].at, stops, off)
        BY <1>1, <3>2, <3>3, CountBounds DEF Between
      <3>5. Walked(s, f, q, start, end, stops, off)
        <4>1. f[q].at <= f[q].at /\ (~f[q].on => \A t \in f[q].at..(f[q].at - 1) : t \in off)
          BY <1>1
        <4> QED
          BY <3>1, <3>2, <3>4, <4>1 DEF Walked
      <3> QED
        BY <1>1, <2>3, <3>1, <3>5 DEF Walk, s
    <2> QED
      BY <2>2, <2>3
  <1>5. ASSUME NEW p \in 1..n, InRange(f[p], start, end),
               Walked(r, f, p, start, end, stops, off),
               IF r.done THEN p < Len(f) /\ f[p + 1].at > end ELSE p = n
        PROVE  Walk(s, f, q, start, end, stops, off)
    <2>1. CASE r.done
      <3>1. s = r
        BY <2>1 DEF ReadLine, s
      <3> QED
        BY <1>1, <1>2, <1>5, <2>1, <3>1 DEF Walk
    <2>2. CASE ~r.done /\ ~InRange(f[q], start, end)
      <3>1. p = n /\ p \in 1..Len(f) /\ p < q /\ p + 1 = q /\ ~r.isGoOn
        BY <1>1, <1>5, <2>2 DEF Walked
      <3>2. f[p].at < f[q].at /\ f[q].legible
        BY <1>1, <3>1 DEF Ordered
      <3>3. f[q].at > end
        BY <1>1, <1>5, <2>2, <3>2 DEF InRange
      <3>4. /\ s \in Reading /\ s.done /\ ~s.isGoOn /\ s.chanelState = r.chanelState
            /\ s.closeTime = r.closeTime /\ s.allTime = r.allTime
        <4>1. /\ s \in Reading /\ s.done = ~r.isGoOn
              /\ s.isGoOn = r.isGoOn /\ s.chanelState = r.chanelState
              /\ s.closeTime = r.closeTime /\ s.allTime = r.allTime
          BY <1>2, <2>2, ReadLineOut DEF s
        <4> QED
          BY <3>1, <4>1
      <3>5. Walked(s, f, p, start, end, stops, off)
        BY <1>5, <3>4 DEF Walked
      <3>6. p \in 1..q /\ p < Len(f)
        BY <1>1, <3>1
      <3> QED
        BY <1>5, <3>1, <3>3, <3>4, <3>5, <3>6 DEF Walk
    <2>3. CASE ~r.done /\ InRange(f[q], start, end)
      <3> DEFINE x == IF f[p].on THEN f[p].at ELSE r.closeTime
                 y == IF f[q].on THEN f[q].at ELSE s.closeTime
      <3>1. p = n /\ p \in 1..Len(f) /\ p < q /\ p + 1 = q /\ p < Len(f)
        BY <1>1, <1>5, <2>3
      <3>2. f[p].at < f[q].at /\ start <= f[q].at /\ f[q].at <= end
        BY <1>1, <2>3, <3>1 DEF Ordered, InRange
      <3>3. \A t \in f[p].at..(f[q].at - 1) : IF f[p].on THEN t \notin stops ELSE t \in off
        <4> SUFFICES ASSUME NEW t \in f[p].at..(f[q].at - 1)
                     PROVE  IF f[p].on THEN t \notin stops ELSE t \in off
          OBVIOUS
        <4>1. t \in f[p].at..end /\ t < f[p + 1].at
          BY <1>1, <3>1, <3>2
        <4> QED
          BY <1>5, <3>1, <4>1 DEF Holds
      <3>4. /\ r.chanelState = f[p].on /\ x \in Int /\ start <= x /\ x <= f[p].at
            /\ Count(stops, start, x) <= r.allTime /\ r.allTime <= Count(off, start, x)
            /\ ~f[p].on => \A t \in x..(f[p].at - 1) : t \in off
        BY <1>1, <1>3, <1>5, <3>1 DEF Walked, Between
      <3>5. /\ s \in Reading /\ ~s.done /\ ~s.isGoOn /\ s.chanelState = f[q].on
            /\ s.closeTime = IF f[q].on # f[p].on /\ ~f[q].on THEN f[q].at ELSE r.closeTime
            /\ s.allTime = IF f[q].on # f[p].on /\ f[q].on
                           THEN r.allTime + (f[q].at - r.closeTime) ELSE r.allTime
        BY <1>1, <1>2, <2>3, <3>4, ReadLineIn DEF s
      <3>6. x \in Int /\ x <= f[q].at /\ f[q].at \in Int
        BY <1>1, <3>1, <3>2, <3>4
      <3>7. /\ Count(stops, start, f[q].at) = Count(stops, start, x) + Count(stops, x, f[q].at)
            /\ Count(off, start, f[q].at) = Count(off, start, x) + Count(off, x, f[q].at)
        BY <3>4, <3>6, CountSplit
      <3>8. /\ Count(stops, start, x) \in Nat /\ Count(stops, x, f[q].at) \in Nat
            /\ Count(off, start, x) \in Nat /\ Count(off, x, f[q].at) \in Nat
            /\ Count(stops, x, f[q].at) <= f[q].at - x
        BY <3>6, CountBounds
      <3>9. CASE f[p].on
        <4>1. x = f[p].at
          BY <3>9
        <4>2. Count(stops, x, f[q].at) = 0
          BY <3>3, <3>6, <3>9, <4>1, CountBounds
        <4>3. s.allTime = r.allTime
          BY <3>5, <3>9
        <4>4. y = f[q].at
          BY <3>5, <3>9
        <4>5. Between(s.allTime, start, y, stops, off)
          BY <1>3, <3>4, <3>7, <3>8, <4>2, <4>3, <4>4 DEF Between
        <4>6. \A t \in y..(f[q].at - 1) : t \in off
          BY <3>6, <4>4
        <4>7. Walked(s, f, q, start, end, stops, off)
          BY <3>2, <3>5, <3>6, <4>4, <4>5, <4>6 DEF Walked
        <4> QED
          BY <1>1, <2>3, <3>5, <4>7 DEF Walk
      <3>10. CASE ~f[p].on
        <4>1. x = r.closeTime
          BY <3>10
        <4>2. \A t \in x..(f[q].at - 1) : t \in off
          <5> SUFFICES ASSUME NEW t \in x..(f[q].at - 1) PROVE t \in off
            OBVIOUS
          <5>1. t \in x..(f[p].at - 1) \/ t \in f[p].at..(f[q].at - 1)
            BY <1>1, <3>1, <3>6
          <5> QED
            BY <3>3, <3>4, <3>10, <5>1
        <4> HIDE DEF x
        <4>3. CASE f[q].on
          <5>1. s.allTime = r.allTime + (f[q].at - x) /\ y = f[q].at
            BY <3>5, <3>10, <4>1, <4>3
          <5> HIDE DEF y
          <5>2. Count(off, x, f[q].at) = f[q].at - x
            BY <3>6, <4>2, CountBounds
          <5>3. Between(s.allTime, start, y, stops, off)
            <6> DEFINE u == Count(stops, start, x)
                       v == Count(stops, x, f[q].at)
                       w == Count(off, start, x)
            <6>0. /\ u \in Nat /\ v \in Nat /\ w \in Nat /\ r.allTime \in Int
                  /\ f[q].at - x \in Int
                  /\ u <= r.allTime /\ r.allTime <= w /\ v <= f[q].at - x
              BY <1>3, <3>4, <3>6, <3>8
            <6> HIDE DEF u, v, w
            <6>1. Count(stops, start, f[q].at) <= r.allTime + (f[q].at - x)
              <7>1. u + v <= r.allTime + (f[q].at - x)
                BY <6>0
              <7> QED
                BY <3>7, <7>1 DEF u, v
            <6>2. r.allTime + (f[q].at - x) <= Count(off, start, f[q].at)
              <7>1. r.allTime + (f[q].at - x) <= w + (f[q].at - x)
                BY <6>0
              <7> QED
                BY <3>7, <5>2, <7>1 DEF w
            <6> QED
              BY <5>1, <6>1, <6>2 DEF Between
          <5>4. Walked(s, f, q, start, end, stops, off)
            <6>1. f[q].at <= f[q].at
              BY <3>6
            <6> QED
              BY <3>2, <3>5, <4>3, <5>1, <5>3, <6>1 DEF Walked, y
          <5> QED
            BY <1>1, <2>3, <3>5, <5>4 DEF Walk
        <4>4. CASE ~f[q].on
          <5>0. (f[q].on = FALSE) /\ (f[p].on = FALSE)
            BY <1>1, <3>1, <3>10, <4>4
          <5>1. s.allTime = r.allTime /\ s.closeTime = x /\ y = x
            BY <3>5, <4>1, <5>0
          <5>2. Between(s.allTime, start, y, stops, off)
            BY <3>4, <5>1 DEF Between
          <5>3. Walked(s, f, q, start, end, stops, off)
            BY <3>4, <3>5, <3>6, <4>2, <4>4, <5>1, <5>2 DEF Walked
          <5> QED
            BY <1>1, <2>3, <3>5, <5>3 DEF Walk
        <4> QED
          BY <4>3, <4>4
      <3> QED
        BY <3>9, <3>10
    <2> QED
      BY <2>1, <2>2, <2>3
  <1> QED
    BY <1>4, <1>5 DEF Walk, s

\* What is printed, from what the loop knows in the end.
Total(r, end) == r.allTime + (IF r.chanelState THEN 0 ELSE end - r.closeTime)

\* The walk to the last line.
LEMMA WalkAll ==
    ASSUME NEW f \in Seq(Line), Ordered(f),
           NEW start \in Int, NEW end \in Int, NEW stops, NEW off,
           Holds(f, start, end, stops, off)
    PROVE  Walk(ReadLines(f, start, end), f, Len(f), start, end, stops, off)
  <1>1. Len(f) \in Nat
    OBVIOUS
  <1>2. PICK g : /\ Reads(g, f, Len(f), start, end)
                 /\ ReadLines(f, start, end) = g[Len(f)]
    BY <1>1, ReadLinesReads
  <1>3. \A n \in 0..Len(f) :
           g[n] = IF n = 0 THEN Begin ELSE ReadLine(g[n - 1], f[n], start, end)
    BY <1>2 DEF Reads
  <1> DEFINE S == {n \in Nat : Walk(g[n], f, n, start, end, stops, off)}
  <1>4. 0 \in S
    <2>1. g[0] = Begin
      BY <1>1, <1>3
    <2>2. Begin \in Reading
      BY DEF Begin, Reading
    <2> QED
      BY <2>1, <2>2 DEF Walk
  <1>5. ASSUME NEW n \in Nat, n < Len(f), n \in S PROVE n + 1 \in S
    <2>1. n + 1 \in 0..Len(f) /\ n + 1 # 0 /\ (n + 1) - 1 = n /\ n + 1 \in Nat
      BY <1>1, <1>5
    <2>2. g[n + 1] = ReadLine(g[n], f[n + 1], start, end)
      BY <1>3, <2>1
    <2>3. Walk(g[n], f, n, start, end, stops, off)
      BY <1>5
    <2>4. Walk(ReadLine(g[n], f[n + 1], start, end), f, n + 1, start, end, stops, off)
      BY <1>5, <2>3, WalkStep
    <2> QED
      BY <2>1, <2>2, <2>4
  <1> HIDE DEF S
  <1>6. \A n \in 0..Len(f) : n \in S
    BY <1>1, <1>4, <1>5, UpTo
  <1>7. Len(f) \in S
    BY <1>1, <1>6
  <1> QED
    BY <1>2, <1>7 DEF S

\* The downtime printed is at least the stops and at most the ticks off.
LEMMA Printed ==
    ASSUME NEW f \in Seq(Line), Ordered(f),
           NEW start \in Int, NEW end \in Int, NEW stops, NEW off,
           Holds(f, start, end, stops, off)
    PROVE  /\ Count(stops, start, end) <= Total(ReadLines(f, start, end), end)
           /\ Total(ReadLines(f, start, end), end) <= Count(off, start, end)
  <1> DEFINE r == ReadLines(f, start, end)
  <1>1. Walk(r, f, Len(f), start, end, stops, off)
    BY WalkAll
  <1>2. Len(f) \in Nat /\ \A k \in 1..Len(f) : f[k] \in Line
    OBVIOUS
  <1>3. \A l \in Line : l.at \in Int /\ l.on \in BOOLEAN
    BY DEF Line
  <1> HIDE DEF r
  <1>4. /\ r.done \in BOOLEAN /\ r.chanelState \in BOOLEAN
        /\ r.closeTime \in Int /\ r.allTime \in Int
    BY <1>1 DEF Walk, Reading
  <1>5. /\ Count(stops, start, end) \in Nat /\ Count(off, start, end) \in Nat
    BY CountBounds
  <1>6. CASE r = Begin /\ \A k \in 1..Len(f) : ~InRange(f[k], start, end)
    <2>1. Total(r, end) = 0
      BY <1>6 DEF Total, Begin
    <2>2. \A t \in start..(end - 1) : t \notin stops
      BY <1>6 DEF Holds
    <2>3. Count(stops, start, end) = 0
      BY <2>2, CountBounds
    <2> QED
      BY <1>5, <2>1, <2>3 DEF r
  <1>7. ASSUME NEW p \in 1..Len(f), InRange(f[p], start, end),
               Walked(r, f, p, start, end, stops, off),
               IF r.done THEN p < Len(f) /\ f[p + 1].at > end ELSE p = Len(f)
        PROVE  /\ Count(stops, start, end) <= Total(r, end)
               /\ Total(r, end) <= Count(off, start, end)
    <2> DEFINE x == IF f[p].on THEN f[p].at ELSE r.closeTime
               u == Count(stops, start, x)
               v == Count(stops, x, end)
               w == Count(off, start, x)
               z == Count(off, x, end)
    <2>1. f[p].at \in Int /\ f[p].on \in BOOLEAN /\ start <= f[p].at /\ f[p].at <= end
      BY <1>2, <1>3, <1>7 DEF InRange
    <2>2. /\ r.chanelState = f[p].on /\ x \in Int /\ start <= x /\ x <= f[p].at
          /\ u <= r.allTime /\ r.allTime <= w
          /\ ~f[p].on => \A t \in x..(f[p].at - 1) : t \in off
      BY <1>4, <1>7, <2>1 DEF Walked, Between
    <2>3. \A t \in f[p].at..end : IF f[p].on THEN t \notin stops ELSE t \in off
      <3> SUFFICES ASSUME NEW t \in f[p].at..end
                   PROVE  IF f[p].on THEN t \notin stops ELSE t \in off
        OBVIOUS
      <3>1. p < Len(f) => t < f[p + 1].at
        <4> SUFFICES ASSUME p < Len(f) PROVE t < f[p + 1].at
          OBVIOUS
        <4>1. f[p + 1].at > end
          BY <1>2, <1>7
        <4>2. f[p + 1].at \in Int /\ t \in Int /\ t <= end
          BY <1>2, <1>3, <2>1
        <4> QED
          BY <4>1, <4>2
      <3> QED
        BY <1>7, <3>1 DEF Holds
    <2>4. x <= end /\ end - x \in Int
      BY <2>1, <2>2
    <2>5. /\ Count(stops, start, end) = u + v /\ Count(off, start, end) = w + z
          /\ u \in Nat /\ v \in Nat /\ w \in Nat /\ z \in Nat /\ v <= end - x
      BY <2>2, <2>4, CountSplit, CountBounds
    <2>6. CASE f[p].on
      <3>1. Total(r, end) = r.allTime + 0 /\ x = f[p].at
        BY <2>2, <2>6 DEF Total
      <3>2. \A t \in x..(end - 1) : t \notin stops
        BY <2>1, <2>3, <2>6, <3>1
      <3>3. v = 0
        BY <2>2, <3>2, CountBounds
      <3> HIDE DEF u, v, w, z, x
      <3> QED
        BY <1>4, <2>2, <2>5, <3>1, <3>3
    <2>7. CASE ~f[p].on
      <3>1. Total(r, end) = r.allTime + (end - x) /\ x = r.closeTime
        BY <2>2, <2>7 DEF Total
      <3>2. \A t \in x..(end - 1) : t \in off
        <4> SUFFICES ASSUME NEW t \in x..(end - 1) PROVE t \in off
          OBVIOUS
        <4>1. t \in x..(f[p].at - 1) \/ t \in f[p].at..end
          BY <2>1, <2>2
        <4> QED
          BY <2>2, <2>3, <2>7, <4>1
      <3>3. z = end - x
        BY <2>2, <2>4, <3>2, CountBounds
      <3> HIDE DEF u, v, w, z, x
      <3> DEFINE d == end - x
      <3>4. /\ u \in Nat /\ v \in Nat /\ w \in Nat /\ z \in Nat /\ d \in Int
            /\ r.allTime \in Int /\ u <= r.allTime /\ r.allTime <= w
            /\ v <= d /\ z = d
        BY <1>4, <2>2, <2>4, <2>5, <3>3
      <3>5. Total(r, end) = r.allTime + d
        BY <3>1
      <3> HIDE DEF d
      <3>6. u + v <= r.allTime + d /\ r.allTime + d <= w + z
        BY <3>4
      <3> QED
        BY <2>5, <3>5, <3>6
    <2> QED
      BY <2>6, <2>7
  <1> QED
    BY <1>1, <1>6, <1>7 DEF Walk, r

-----------------------------------------------------------------------------
(* What the file of a channel tells of its samples                         *)

State(on) == IF on THEN "on" ELSE "off"

\* From a line that can be read to the next, or to now after the last one, the
\* channel was sampled in the state of the line.
Tells(f, samples, last) ==
    \A n \in 1..Len(f) : \A t \in f[n].at..last :
        (f[n].legible /\ (n < Len(f) => t < f[n + 1].at)) => samples[t] = State(f[n].on)

\* Every stop first sampled at the tick from or later has its line.
Notes(f, samples, from, last) ==
    \A s \in from..last : (samples[s] = "off" /\ samples[s - 1] # "off") =>
        \E n \in 1..Len(f) : f[n].legible /\ ~f[n].on /\ f[n].at = s

\* The file f of a channel with these samples, at the tick last; `open' while
\* the round of this tick is still to come.
FileOK(f, samples, from, last, open) ==
    /\ f \in Seq(Line)
    /\ \A n \in 1..Len(f) : f[n].at <= last /\ (open => f[n].at < last)
    /\ Ordered(f)
    /\ Tells(f, samples, last)
    /\ Notes(f, samples, from, last)
    /\ f # << >> => samples[last] = State(f[Len(f)].on)

\* Ticks are naturals, and the ticks before a tick are ticks.
LEMMA TicksBefore ==
    /\ LastTick \in Nat
    /\ Ticks \subseteq Nat
    /\ \A last \in Ticks, t \in Nat : t <= last => t \in Ticks
  <1>1. Day \in Nat /\ Days \in Nat /\ Day > 0 /\ Days > 0
    BY ReportConstants
  <1>2. Day * Days \in Nat /\ Day * Days > 0
    BY <1>1
  <1>3. LastTick \in Nat
    BY <1>2 DEF LastTick
  <1> QED
    BY <1>3 DEF Ticks

\* A change is noted behind the lines before.
LEMMA NoteChange ==
    ASSUME NEW f, NEW samples \in [Ticks -> States], NEW last \in Nat, last \in Ticks,
           NEW from \in Nat \ {0}, NEW on \in BOOLEAN, FileOK(f, samples, from, last, TRUE)
    PROVE  FileOK(Append(f, [at |-> last, on |-> on, legible |-> TRUE]),
                  [samples EXCEPT ![last] = State(on)], from, last, FALSE)
  <1> DEFINE line == [at |-> last, on |-> on, legible |-> TRUE]
             h == Append(f, line)
             after == [samples EXCEPT ![last] = State(on)]
  <1>1. f \in Seq(Line) /\ Len(f) \in Nat
    BY DEF FileOK
  <1>2. line \in Line /\ line.at = last /\ line.on = on /\ line.legible
    BY DEF Line
  <1> HIDE DEF line
  <1>3. /\ h \in Seq(Line) /\ Len(h) = Len(f) + 1 /\ h[Len(f) + 1] = line
        /\ \A n \in 1..Len(f) : h[n] = f[n]
    BY <1>1, <1>2
  <1>4. \A n \in 1..Len(f) : f[n].at \in Nat /\ f[n].at < last
    <2>1. \A n \in 1..Len(f) : f[n] \in Line
      BY <1>1
    <2> QED
      BY <2>1 DEF FileOK, Line
  <1>5. after[last] = State(on) /\ \A t \in Ticks : t # last => after[t] = samples[t]
    BY DEF States
  <1> HIDE DEF h, after
  <1>6. \A n \in 1..Len(h) : n \in 1..Len(f) \/ n = Len(f) + 1
    BY <1>1, <1>3
  <1>7. \A n \in 1..Len(h) : h[n].at <= last
    BY <1>2, <1>3, <1>4, <1>6
  <1>8. Ordered(h)
    <2> SUFFICES ASSUME NEW m \in 1..Len(h), NEW n \in 1..Len(h), m < n
                 PROVE  h[m].at < h[n].at /\ h[n].legible
      BY DEF Ordered
    <2>1. m \in 1..Len(f)
      BY <1>1, <1>3
    <2>2. CASE n \in 1..Len(f)
      BY <1>3, <2>1, <2>2 DEF FileOK, Ordered
    <2>3. CASE n = Len(f) + 1
      BY <1>2, <1>3, <1>4, <2>1, <2>3
    <2> QED
      BY <1>6, <2>2, <2>3
  <1>9. Tells(h, after, last)
    <2> SUFFICES ASSUME NEW n \in 1..Len(h), NEW t \in h[n].at..last,
                        h[n].legible, n < Len(h) => t < h[n + 1].at
                 PROVE  after[t] = State(h[n].on)
      BY DEF Tells
    <2>1. CASE n \in 1..Len(f)
      <3>1. n + 1 \in 1..Len(h) /\ n < Len(h)
        BY <1>1, <1>3, <2>1
      <3>2. t < h[n + 1].at /\ h[n + 1].at <= last /\ h[n + 1].at \in Int
        BY <1>2, <1>3, <1>4, <1>6, <1>7, <3>1
      <3>3. t \in f[n].at..last /\ t < last /\ t \in Ticks
        <4>1. f[n].at \in Nat /\ t \in Nat /\ t < last
          BY <1>3, <1>4, <2>1, <3>2
        <4> QED
          BY <1>3, <2>1, <4>1, TicksBefore
      <3>4. n < Len(f) => t < f[n + 1].at
        BY <1>1, <1>3, <2>1, <3>2
      <3>5. samples[t] = State(f[n].on)
        BY <1>3, <2>1, <3>3, <3>4 DEF FileOK, Tells
      <3> QED
        BY <1>3, <1>5, <2>1, <3>3, <3>5
    <2>2. CASE n = Len(f) + 1
      <3>1. t = last
        BY <1>2, <1>3, <2>2
      <3> QED
        BY <1>2, <1>3, <1>5, <2>2, <3>1
    <2> QED
      BY <1>6, <2>1, <2>2
  <1>10. Notes(h, after, from, last)
    <2> SUFFICES ASSUME NEW s \in from..last, after[s] = "off", after[s - 1] # "off"
                 PROVE  \E n \in 1..Len(h) : h[n].legible /\ ~h[n].on /\ h[n].at = s
      BY DEF Notes
    <2>1. CASE s = last
      <3>1. ~on
        BY <1>5, <2>1 DEF State
      <3>2. Len(f) + 1 \in 1..Len(h)
        BY <1>1, <1>3
      <3> QED
        BY <1>2, <1>3, <2>1, <3>1, <3>2
    <2>2. CASE s # last
      <3>1. s \in Ticks /\ s - 1 \in Ticks /\ s - 1 # last
        <4>1. s \in Nat /\ s - 1 \in Nat /\ s <= last /\ s - 1 <= last /\ s - 1 # last
          OBVIOUS
        <4> QED
          BY <4>1, TicksBefore
      <3>2. samples[s] = "off" /\ samples[s - 1] # "off"
        BY <1>5, <2>2, <3>1
      <3>3. PICK n \in 1..Len(f) : f[n].legible /\ ~f[n].on /\ f[n].at = s
        BY <3>2 DEF FileOK, Notes
      <3>4. n \in 1..Len(h)
        BY <1>1, <1>3
      <3> QED
        BY <1>3, <3>3, <3>4
    <2> QED
      BY <2>1, <2>2
  <1>11. after[last] = State(h[Len(h)].on)
    BY <1>2, <1>3, <1>5
  <1>12. FileOK(h, after, from, last, FALSE)
    BY <1>3, <1>7, <1>8, <1>9, <1>10, <1>11 DEF FileOK
  <1> QED
    BY <1>12 DEF h, after, line

\* Nothing changed, and nothing is noted.
LEMMA NoteNothing ==
    ASSUME NEW f, NEW samples \in [Ticks -> States], NEW last \in Ticks,
           NEW from, NEW on \in BOOLEAN, FileOK(f, samples, from, last, TRUE),
           f # << >>, f[Len(f)].on = on
    PROVE  FileOK(f, [samples EXCEPT ![last] = State(on)], from, last, FALSE)
  <1>1. [samples EXCEPT ![last] = State(on)] = samples
    BY DEF FileOK
  <1>2. FileOK(f, samples, from, last, FALSE)
    BY DEF FileOK
  <1> QED
    BY <1>1, <1>2

\* Soon after midnight only the line of midnight is left.
LEMMA NoteMidnight ==
    ASSUME NEW samples \in [Ticks -> States], NEW last \in Nat, last \in Ticks,
           NEW from \in Nat, last < from, NEW on \in BOOLEAN, NEW m \in Nat, m <= last
    PROVE  FileOK(<<[at |-> m, on |-> on, legible |-> FALSE]>>,
                  [samples EXCEPT ![last] = State(on)], from, last, FALSE)
  <1> DEFINE line == [at |-> m, on |-> on, legible |-> FALSE]
             h == <<line>>
             after == [samples EXCEPT ![last] = State(on)]
  <1>1. line \in Line /\ line.at = m /\ line.on = on /\ ~line.legible
    BY DEF Line
  <1> HIDE DEF line
  <1>2. h \in Seq(Line) /\ Len(h) = 1 /\ h[1] = line
    BY <1>1
  <1>3. after[last] = State(on)
    OBVIOUS
  <1> HIDE DEF h, after
  <1>4. \A n \in 1..Len(h) : h[n] = line /\ n = 1
    BY <1>2
  <1>5. Ordered(h)
    BY <1>4 DEF Ordered
  <1>6. Tells(h, after, last)
    BY <1>1, <1>4 DEF Tells
  <1>7. Notes(h, after, from, last)
    <2>1. \A s \in from..last : FALSE
      OBVIOUS
    <2> QED
      BY <2>1 DEF Notes
  <1>8. \A n \in 1..Len(h) : h[n].at <= last
    BY <1>1, <1>4
  <1>9. after[last] = State(h[Len(h)].on)
    BY <1>1, <1>2, <1>3
  <1>10. FileOK(h, after, from, last, FALSE)
    BY <1>2, <1>5, <1>6, <1>7, <1>8, <1>9 DEF FileOK
  <1> QED
    BY <1>10 DEF h, after, line

\* A tick passes: the state lasts, and the time stops are noted from may move on.
LEMMA TickPasses ==
    ASSUME NEW f, NEW samples \in [Ticks -> States], NEW last \in Nat,
           last \in Ticks, last + 1 \in Ticks, NEW open \in BOOLEAN,
           NEW from \in Nat \ {0}, NEW from2 \in Nat, from <= from2,
           FileOK(f, samples, from, last, open)
    PROVE  FileOK(f, [samples EXCEPT ![last + 1] = samples[last]], from2, last + 1, TRUE)
  <1> DEFINE after == [samples EXCEPT ![last + 1] = samples[last]]
  <1>1. f \in Seq(Line) /\ Len(f) \in Nat
    BY DEF FileOK
  <1>2. \A n \in 1..Len(f) : f[n].at \in Nat /\ f[n].at <= last
    <2>1. \A n \in 1..Len(f) : f[n] \in Line
      BY <1>1
    <2> QED
      BY <2>1 DEF FileOK, Line
  <1>3. /\ after[last + 1] = samples[last]
        /\ \A t \in Ticks : t # last + 1 => after[t] = samples[t]
    OBVIOUS
  <1> HIDE DEF after
  <1>4. \A n \in 1..Len(f) : f[n].at <= last + 1 /\ f[n].at < last + 1
    BY <1>2
  <1>5. Tells(f, after, last + 1)
    <2> SUFFICES ASSUME NEW n \in 1..Len(f), NEW t \in f[n].at..(last + 1),
                        f[n].legible, n < Len(f) => t < f[n + 1].at
                 PROVE  after[t] = State(f[n].on)
      BY DEF Tells
    <2>1. CASE t = last + 1
      <3>1. ~(n < Len(f))
        <4> SUFFICES ASSUME n < Len(f) PROVE FALSE
          OBVIOUS
        <4>1. n + 1 \in 1..Len(f)
          BY <1>1
        <4>2. f[n + 1].at <= last /\ f[n + 1].at \in Nat
          BY <1>2, <4>1
        <4> QED
          BY <2>1, <4>2
      <3>2. n = Len(f) /\ f # << >>
        BY <1>1, <3>1
      <3> QED
        BY <1>3, <2>1, <3>2 DEF FileOK
    <2>2. CASE t # last + 1
      <3>1. t \in f[n].at..last /\ t \in Ticks
        <4>1. f[n].at \in Nat /\ t \in Nat /\ t <= last
          BY <1>2, <2>2
        <4> QED
          BY <4>1, TicksBefore
      <3>2. samples[t] = State(f[n].on)
        BY <3>1 DEF FileOK, Tells
      <3> QED
        BY <1>3, <2>2, <3>1, <3>2
    <2> QED
      BY <2>1, <2>2
  <1>6. Notes(f, after, from2, last + 1)
    <2> SUFFICES ASSUME NEW s \in from2..(last + 1), after[s] = "off", after[s - 1] # "off"
                 PROVE  \E n \in 1..Len(f) : f[n].legible /\ ~f[n].on /\ f[n].at = s
      BY DEF Notes
    <2>1. s # last + 1
      <3> SUFFICES ASSUME s = last + 1 PROVE FALSE
        OBVIOUS
      <3>1. s - 1 = last /\ last # last + 1
        OBVIOUS
      <3> QED
        BY <1>3, <3>1
    <2>2. s \in from..last /\ s \in Ticks /\ s - 1 \in Ticks /\ s - 1 # last + 1
      <3>1. /\ s \in Nat /\ s - 1 \in Nat /\ s <= last /\ s - 1 <= last
            /\ s - 1 # last + 1 /\ from <= s
        BY <2>1
      <3> QED
        BY <3>1, TicksBefore
    <2>3. samples[s] = "off" /\ samples[s - 1] # "off"
      BY <1>3, <2>1, <2>2
    <2> QED
      BY <2>2, <2>3 DEF FileOK, Notes
  <1>7. f # << >> => after[last + 1] = State(f[Len(f)].on)
    BY <1>3 DEF FileOK
  <1>8. Ordered(f)
    BY DEF FileOK
  <1> QED
    BY <1>1, <1>4, <1>5, <1>6, <1>7, <1>8 DEF FileOK, after

-----------------------------------------------------------------------------
(* Days and places                                                         *)

MidnightOf(t) == t - (t % Day)

\* Midnight is the first tick of the day, and never moves back.
LEMMA DayOf ==
    ASSUME NEW t \in Nat
    PROVE  /\ t % Day \in 0..(Day - 1) /\ t \div Day \in Nat
           /\ MidnightOf(t) \in Nat /\ MidnightOf(t) <= t
           /\ MidnightOf(t) = (t \div Day) * Day
           /\ t < MidnightOf(t) + Day
  <1>1. Day \in Nat /\ Day > 0
    BY ReportConstants
  <1>2. t % Day \in 0..(Day - 1) /\ t \div Day \in Nat
    BY <1>1
  <1>3. t = Day * (t \div Day) + (t % Day)
    BY <1>1
  <1>4. Day * (t \div Day) = (t \div Day) * Day
    BY <1>1, <1>2
  <1>5. Day * (t \div Day) \in Nat
    BY <1>1, <1>2
  <1> QED
    BY <1>1, <1>2, <1>3, <1>4, <1>5 DEF MidnightOf

\* The next tick is of the same day or a later one.
LEMMA MidnightMoves ==
    ASSUME NEW t \in Nat
    PROVE  MidnightOf(t) <= MidnightOf(t + 1)
  <1> DEFINE a == t \div Day
             b == (t + 1) \div Day
  <1>1. Day \in Nat /\ Day > 0
    BY ReportConstants
  <1>2. /\ a \in Nat /\ b \in Nat /\ MidnightOf(t) = a * Day /\ MidnightOf(t + 1) = b * Day
        /\ MidnightOf(t) <= t /\ t + 1 < MidnightOf(t + 1) + Day
    BY DayOf
  <1> HIDE DEF a, b
  <1>3. a * Day < (b + 1) * Day
    BY <1>1, <1>2
  <1>4. a < b + 1
    BY <1>1, <1>2, <1>3
  <1>5. a * Day <= b * Day
    BY <1>1, <1>2, <1>4
  <1> QED
    BY <1>2, <1>5

\* A key is found where its module and its channel are.
LEMMA PlaceOf ==
    ASSUME NEW i \in Index, NEW k \in 1..Len(Modules[i].Channels),
           NEW key, key = <<Modules[i].Id, Modules[i].Channels[k].Id>>
    PROVE  Place(key) = <<i, k>>
  <1> DEFINE m == Modules[i]
             hits == {l \in 1..Len(m.Channels) : m.Channels[l].Id = key[2]}
  <1>1. key[1] = m.Id /\ key[2] = m.Channels[k].Id
    OBVIOUS
  <1>2. getModeNumByDevid(key[1]) = i
    BY <1>1, ReportConstants
  <1>3. Len(m.Channels) \in Nat
    BY ReportConstants
  <1>4. ASSUME NEW l \in hits PROVE l = k
    <2> DEFINE id == [n \in 1..Len(m.Channels) |-> m.Channels[n].Id]
    <2>1. IsInjective(id)
      BY ReportConstants
    <2>2. id[l] = id[k] /\ l \in DOMAIN id /\ k \in DOMAIN id
      BY <1>1, <1>4
    <2> HIDE DEF id
    <2> QED
      BY <2>1, <2>2 DEF IsInjective
  <1>5. k \in hits /\ k <= k
    BY <1>1, <1>3
  <1>6. (CHOOSE l \in hits : \A n \in hits : l <= n) = k
    <2> HIDE DEF hits
    <2>1. \E l \in hits : \A n \in hits : l <= n
      BY <1>4, <1>5
    <2>2. (CHOOSE l \in hits : \A n \in hits : l <= n) \in hits
      BY <2>1
    <2> QED
      BY <1>4, <2>2
  <1>7. getIndexByChannelId(m, key[2]) = k
    BY <1>5, <1>6 DEF getIndexByChannelId
  <1> QED
    BY <1>2, <1>7 DEF Place

\* No two keys are of one place.
LEMMA PlacesDiffer ==
    ASSUME NEW a \in Keys, NEW b \in Keys, Place(a) = Place(b)
    PROVE  a = b
  <1>1. PICK i \in Index : \E k \in 1..Len(Modules[i].Channels) :
               a = <<Modules[i].Id, Modules[i].Channels[k].Id>>
    BY DEF Keys
  <1>2. PICK k \in 1..Len(Modules[i].Channels) :
               a = <<Modules[i].Id, Modules[i].Channels[k].Id>>
    BY <1>1
  <1>3. PICK j \in Index : \E k2 \in 1..Len(Modules[j].Channels) :
               b = <<Modules[j].Id, Modules[j].Channels[k2].Id>>
    BY DEF Keys
  <1>4. PICK l \in 1..Len(Modules[j].Channels) :
               b = <<Modules[j].Id, Modules[j].Channels[l].Id>>
    BY <1>3
  <1>5. Place(a) = <<i, k>>
    BY <1>2, PlaceOf
  <1>6. Place(b) = <<j, l>>
    BY <1>4, PlaceOf
  <1>7. i = j /\ k = l
    <2>1. <<i, k>> = <<j, l>>
      BY <1>5, <1>6
    <2> QED
      BY <2>1
  <1> QED
    BY <1>2, <1>4, <1>7

-----------------------------------------------------------------------------
(* The invariant                                                           *)

ReportTypes ==
    /\ now \in Ticks /\ due \in BOOLEAN /\ served \in 0..Len(Modules)
    /\ first \in BOOLEAN
    /\ staArray \in [{Place(key) : key \in Keys} -> BOOLEAN]
    /\ file \in [Keys -> Seq(Line)]
    /\ seen \in [Keys -> [Ticks -> States]]

FileTells == \A key \in Keys :
    FileOK(file[key], seen[key], MidnightOf(now) + SamplingFrequency, now, due)

\* Past the first payload of a run, createReport compares with the last line.
LastNoted == ~first => \A key \in AcKeys : Place(key)[1] <= served =>
    /\ file[key] # << >>
    /\ staArray[Place(key)] = file[key][Len(file[key])].on

\* Until the round has ended, the state of the tick before lasts.
Carried == (due /\ now > 0) => \A key \in Keys : seen[key][now] = seen[key][now - 1]

ReportInv == ReportTypes /\ FileTells /\ LastNoted /\ Carried

\* Nothing was sampled and nothing is noted.
LEMMA ReportInitInv == ReportInit => ReportInv
  <1> SUFFICES ASSUME ReportInit PROVE ReportInv
    OBVIOUS
  <1>1. 0 \in Ticks
    BY TicksBefore DEF Ticks
  <1>2. /\ now = 0 /\ due = TRUE /\ first = TRUE
        /\ \A key \in Keys : /\ file[key] = << >>
                             /\ seen[key] = [t \in Ticks |-> "unknown"]
    BY DEF ReportInit, NoLines, NothingSeen
  <1>3. ReportTypes
    <2>1. << >> \in Seq(Line) /\ "unknown" \in States
      BY DEF States
    <2> QED
      BY <1>1, <2>1 DEF ReportInit, ReportTypes, AllOff, NoLines, NothingSeen
  <1>4. FileTells
    <2> SUFFICES ASSUME NEW key \in Keys
                 PROVE  FileOK(<< >>, seen[key], MidnightOf(now) + SamplingFrequency, now, due)
      BY <1>2 DEF FileTells
    <2>1. << >> \in Seq(Line) /\ Len(<< >>) = 0
      OBVIOUS
    <2>2. \A n \in 1..Len(<< >>) : FALSE
      BY <2>1
    <2>3. SamplingFrequency \in Nat /\ SamplingFrequency > 0
      BY ReportConstants
    <2>4. MidnightOf(now) \in Nat
      BY <1>2, DayOf
    <2>5. \A s \in (MidnightOf(now) + SamplingFrequency)..now : FALSE
      BY <1>2, <2>3, <2>4
    <2> QED
      BY <2>1, <2>2, <2>5 DEF FileOK, Ordered, Tells, Notes
  <1> QED
    BY <1>2, <1>3, <1>4 DEF ReportInv, LastNoted, Carried

\* What a payload does to the file and the samples of a channel it names.
LEMMA ChannelTold ==
    ASSUME ReportInv, due, NEW payload,
           DOMAIN payload = {key \in Keys : Place(key)[1] <= served},
           NEW key \in Keys, key \in DOMAIN payload, key \in AcKeys, NEW on \in BOOLEAN
    PROVE  /\ FileOK(Written(key, on), [seen[key] EXCEPT ![now] = State(on)],
                     MidnightOf(now) + SamplingFrequency, now, FALSE)
           /\ Written(key, on) # << >>
           /\ Written(key, on)[Len(Written(key, on))].on = on
  <1> DEFINE f == file[key]
             from == MidnightOf(now) + SamplingFrequency
             after == [seen[key] EXCEPT ![now] = State(on)]
             change == [at |-> now, on |-> on, legible |-> TRUE]
             midnight == [at |-> MidnightOf(now), on |-> on, legible |-> FALSE]
  <1>1. now \in Ticks /\ now \in Nat
    BY TicksBefore DEF ReportInv, ReportTypes
  <1>2. SamplingFrequency \in Nat \ {0} /\ MidnightOf(now) \in Nat /\ MidnightOf(now) <= now
    BY <1>1, DayOf, ReportConstants
  <1>3. from \in Nat \ {0}
    BY <1>2
  <1>4. /\ seen[key] \in [Ticks -> States] /\ f \in Seq(Line)
        /\ FileOK(f, seen[key], from, now, TRUE)
    BY DEF ReportInv, ReportTypes, FileTells
  <1>5. now % Day \in Nat /\ MidnightOf(now) = now - (now % Day)
    BY <1>1, DayOf DEF MidnightOf
  <1> HIDE DEF from
  <1>6. CASE InMidnightWindow
    <2>1. Written(key, on) = <<midnight>>
      BY <1>6 DEF Written, Midnight, MidnightOf
    <2>2. now < from
      BY <1>1, <1>2, <1>5, <1>6 DEF InMidnightWindow, from
    <2>3. FileOK(<<midnight>>, after, from, now, FALSE)
      BY <1>1, <1>2, <1>3, <1>4, <2>2, NoteMidnight
    <2>4. <<midnight>> # << >> /\ <<midnight>>[Len(<<midnight>>)].on = on
      OBVIOUS
    <2> QED
      BY <2>1, <2>3, <2>4 DEF from
  <1>7. CASE ~InMidnightWindow /\ (staArray[Place(key)] # on \/ first)
    <2>1. Written(key, on) = Append(f, change)
      BY <1>7 DEF Written, Change
    <2>2. FileOK(Append(f, change), after, from, now, FALSE)
      BY <1>1, <1>3, <1>4, NoteChange
    <2> DEFINE h == Append(f, change)
    <2>3. h # << >> /\ h[Len(h)].on = on
      <3>1. change.on = on
        OBVIOUS
      <3> HIDE DEF change
      <3>2. h # << >> /\ h[Len(h)] = change
        BY <1>4
      <3> QED
        BY <3>1, <3>2
    <2> QED
      BY <2>1, <2>2, <2>3 DEF from
  <1>8. CASE ~InMidnightWindow /\ ~(staArray[Place(key)] # on \/ first)
    <2>1. Written(key, on) = f
      BY <1>8 DEF Written
    <2>2. f # << >> /\ f[Len(f)].on = on
      BY <1>8 DEF ReportInv, LastNoted
    <2>3. FileOK(f, after, from, now, FALSE)
      BY <1>1, <1>4, <2>2, NoteNothing
    <2> QED
      BY <2>1, <2>2, <2>3 DEF from
  <1> QED
    BY <1>6, <1>7, <1>8

\* A round appends to the files, cuts them or leaves them.
LEMMA SampleStep ==
    ASSUME ReportInv, Sample
    PROVE  ReportInv'
  <1>1. PICK payload \in [{key \in Keys : Place(key)[1] <= served} -> Levels] :
              createReport(payload)
    BY DEF Sample
  <1> DEFINE told == DOMAIN payload \cap AcKeys
             on(key) == IsOn(key, payload[key])
  <1>2. DOMAIN payload = {key \in Keys : Place(key)[1] <= served}
    OBVIOUS
  <1>3. \A key \in told : key \in Keys /\ key \in AcKeys /\ key \in DOMAIN payload
    BY <1>2
  <1>4. \A key \in told : on(key) \in BOOLEAN
    BY DEF IsOn
  <1>5. due /\ due' = FALSE /\ now' = now /\ served' = served
    BY DEF Sample
  <1>6. now \in Ticks /\ now \in Nat
    BY TicksBefore DEF ReportInv, ReportTypes
  <1>7. file' = [key \in Keys |->
              IF key \in told THEN Written(key, on(key)) ELSE file[key]]
    BY <1>1 DEF createReport
  <1>8. seen' = [key \in Keys |-> IF key \in told
              THEN [seen[key] EXCEPT ![now] = State(on(key))] ELSE seen[key]]
    BY <1>1 DEF createReport, State
  <1>9. first' = (first /\ DOMAIN payload = {})
    BY <1>1 DEF createReport
  <1>10. staArray' = [place \in DOMAIN staArray |->
              IF \E key \in told : Place(key) = place
              THEN on(CHOOSE key \in told : Place(key) = place)
              ELSE staArray[place]]
    BY <1>1 DEF createReport
  <1>11. \A key \in told : staArray'[Place(key)] = on(key)
    <2> SUFFICES ASSUME NEW key \in told PROVE staArray'[Place(key)] = on(key)
      OBVIOUS
    <2> DEFINE other == CHOOSE k \in told : Place(k) = Place(key)
    <2>1. other \in told /\ Place(other) = Place(key)
      OBVIOUS
    <2> HIDE DEF other
    <2>2. other = key
      BY <1>3, <2>1, PlacesDiffer
    <2>3. Place(key) \in DOMAIN staArray
      BY <1>3 DEF ReportInv, ReportTypes
    <2>4. staArray'[Place(key)] = on(other)
      BY <1>10, <2>3 DEF other
    <2> QED
      BY <2>2, <2>4
  <1> HIDE DEF told, on
  <1>12. \A key \in told :
            /\ FileOK(Written(key, on(key)), [seen[key] EXCEPT ![now] = State(on(key))],
                      MidnightOf(now) + SamplingFrequency, now, FALSE)
            /\ Written(key, on(key)) # << >>
            /\ Written(key, on(key))[Len(Written(key, on(key)))].on = on(key)
    BY <1>2, <1>3, <1>4, <1>5, ChannelTold
  <1>13. ReportTypes'
    <2>1. staArray' \in [{Place(key) : key \in Keys} -> BOOLEAN]
      <3>1. \A place \in DOMAIN staArray :
              (IF \E key \in told : Place(key) = place
               THEN on(CHOOSE key \in told : Place(key) = place)
               ELSE staArray[place]) \in BOOLEAN
        <4> SUFFICES ASSUME NEW place \in DOMAIN staArray
              PROVE (IF \E key \in told : Place(key) = place
                     THEN on(CHOOSE key \in told : Place(key) = place)
                     ELSE staArray[place]) \in BOOLEAN
          OBVIOUS
        <4>1. CASE \E key \in told : Place(key) = place
          <5>1. (CHOOSE key \in told : Place(key) = place) \in told
            BY <4>1
          <5> QED
            BY <1>4, <4>1, <5>1
        <4>2. CASE ~\E key \in told : Place(key) = place
          BY <4>2 DEF ReportInv, ReportTypes
        <4> QED
          BY <4>1, <4>2
      <3>2. DOMAIN staArray = {Place(key) : key \in Keys}
        BY DEF ReportInv, ReportTypes
      <3> HIDE DEF Keys
      <3> QED
        BY <1>10, <3>1, <3>2
    <2>2. \A key \in Keys : file'[key] \in Seq(Line)
      BY <1>7, <1>12 DEF ReportInv, ReportTypes, FileOK
    <2>3. file' \in [Keys -> Seq(Line)]
      BY <1>7, <2>2
    <2>4. \A key \in Keys : seen'[key] \in [Ticks -> States]
      <3> SUFFICES ASSUME NEW key \in Keys PROVE seen'[key] \in [Ticks -> States]
        OBVIOUS
      <3>1. seen[key] \in [Ticks -> States]
        BY DEF ReportInv, ReportTypes
      <3>2. State(on(key)) \in States
        BY DEF State, States
      <3> QED
        BY <1>6, <1>8, <3>1, <3>2
    <2>5. seen' \in [Keys -> [Ticks -> States]]
      BY <1>8, <2>4
    <2>6. first' \in BOOLEAN
      BY <1>9
    <2> QED
      BY <1>5, <2>1, <2>3, <2>5, <2>6 DEF ReportInv, ReportTypes
  <1>14. FileTells'
    <2> SUFFICES ASSUME NEW key \in Keys
                 PROVE  FileOK(file'[key], seen'[key],
                               MidnightOf(now') + SamplingFrequency, now', due')
      BY DEF FileTells
    <2>1. CASE key \in told
      BY <1>5, <1>7, <1>8, <1>12, <2>1
    <2>2. CASE key \notin told
      <3>1. FileOK(file[key], seen[key], MidnightOf(now) + SamplingFrequency, now, TRUE)
        BY <1>5 DEF ReportInv, FileTells
      <3>2. FileOK(file[key], seen[key], MidnightOf(now) + SamplingFrequency, now, FALSE)
        BY <3>1 DEF FileOK
      <3> QED
        BY <1>5, <1>7, <1>8, <2>2, <3>2
    <2> QED
      BY <2>1, <2>2
  <1>15. LastNoted'
    <2> SUFFICES ASSUME NEW key \in AcKeys, Place(key)[1] <= served
                 PROVE  /\ file'[key] # << >>
                        /\ staArray'[Place(key)] = file'[key][Len(file'[key])].on
      BY <1>5 DEF LastNoted, AcKeys, Place, Keys
    <2>1. key \in told /\ key \in Keys
      BY <1>2 DEF told, AcKeys
    <2>2. file'[key] = Written(key, on(key))
      BY <1>7, <2>1
    <2> QED
      BY <1>11, <1>12, <2>1, <2>2
  <1>16. Carried'
    BY <1>5 DEF Carried
  <1> QED
    BY <1>13, <1>14, <1>15, <1>16 DEF ReportInv

\* The clock advances and every state lasts.
LEMMA TickStep ==
    ASSUME ReportInv, Tick
    PROVE  ReportInv'
  <1>1. /\ now < LastTick /\ now' = now + 1 /\ due' = TRUE
        /\ seen' = [key \in Keys |-> [seen[key] EXCEPT ![now + 1] = seen[key][now]]]
        /\ served' = served /\ first' = first /\ staArray' = staArray /\ file' = file
    BY DEF Tick
  <1>2. now \in Ticks /\ now \in Nat /\ now + 1 \in Ticks /\ now + 1 \in Nat
    <2>1. now \in Ticks /\ now \in Nat /\ LastTick \in Nat
      BY TicksBefore DEF ReportInv, ReportTypes
    <2> QED
      BY <1>1, <2>1 DEF Ticks
  <1>3. \A key \in Keys : seen[key] \in [Ticks -> States] /\ seen[key][now] \in States
    BY <1>2 DEF ReportInv, ReportTypes
  <1>4. ReportTypes'
    <2>1. seen' \in [Keys -> [Ticks -> States]]
      BY <1>1, <1>2, <1>3
    <2> QED
      BY <1>1, <1>2, <2>1 DEF ReportInv, ReportTypes
  <1>5. FileTells'
    <2> SUFFICES ASSUME NEW key \in Keys
                 PROVE  FileOK(file[key], [seen[key] EXCEPT ![now + 1] = seen[key][now]],
                               MidnightOf(now + 1) + SamplingFrequency, now + 1, TRUE)
      BY <1>1 DEF FileTells
    <2> DEFINE from == MidnightOf(now) + SamplingFrequency
               from2 == MidnightOf(now + 1) + SamplingFrequency
    <2>1. SamplingFrequency \in Nat \ {0}
      BY ReportConstants
    <2>2. MidnightOf(now) \in Nat /\ MidnightOf(now + 1) \in Nat
      BY <1>2, DayOf
    <2>3. MidnightOf(now) <= MidnightOf(now + 1)
      BY <1>2, MidnightMoves
    <2>4. from \in Nat \ {0} /\ from2 \in Nat /\ from <= from2
      BY <2>1, <2>2, <2>3
    <2>5. FileOK(file[key], seen[key], from, now, due) /\ due \in BOOLEAN
      BY DEF ReportInv, ReportTypes, FileTells
    <2> HIDE DEF from, from2
    <2>6. FileOK(file[key], [seen[key] EXCEPT ![now + 1] = seen[key][now]],
                 from2, now + 1, TRUE)
      BY <1>2, <1>3, <2>4, <2>5, TickPasses
    <2> QED
      BY <2>6 DEF from2
  <1>6. LastNoted'
    BY <1>1 DEF ReportInv, LastNoted, AcKeys, Place, Keys
  <1>7. Carried'
    <2> SUFFICES ASSUME NEW key \in Keys
                 PROVE  seen'[key][now + 1] = seen'[key][(now + 1) - 1]
      BY <1>1 DEF Carried
    <2>1. (now + 1) - 1 = now /\ now # now + 1
      BY <1>2
    <2>2. seen'[key] = [seen[key] EXCEPT ![now + 1] = seen[key][now]]
      BY <1>1
    <2> QED
      BY <1>2, <1>3, <2>1, <2>2
  <1> QED
    BY <1>4, <1>5, <1>6, <1>7 DEF ReportInv

\* A new process forgets what it compared with; files and samples stay.
LEMMA RestartStep ==
    ASSUME ReportInv, Restart
    PROVE  ReportInv'
  <1>1. /\ served' \in 0..Len(Modules) /\ first' = TRUE
        /\ staArray' = [place \in DOMAIN staArray |-> FALSE]
        /\ now' = now /\ due' = due /\ file' = file /\ seen' = seen
    BY DEF Restart
  <1>2. ReportTypes'
    BY <1>1 DEF ReportInv, ReportTypes
  <1>3. FileTells' /\ Carried'
    BY <1>1 DEF ReportInv, FileTells, Carried
  <1>4. LastNoted'
    BY <1>1 DEF LastNoted
  <1> QED
    BY <1>2, <1>3, <1>4 DEF ReportInv

\* The files are the faithful summary of the samples that createReport keeps,
\* through midnights and restarts.
THEOREM ReportInvOK == ReportSpec => []ReportInv
  <1>1. ReportInv /\ [ReportNext]_reportVars => ReportInv'
    <2> SUFFICES ASSUME ReportInv, [ReportNext]_reportVars PROVE ReportInv'
      OBVIOUS
    <2>1. CASE Sample
      BY <2>1, SampleStep
    <2>2. CASE Tick
      BY <2>2, TickStep
    <2>3. CASE Restart
      BY <2>3, RestartStep
    <2>4. CASE UNCHANGED reportVars
      BY <2>4 DEF reportVars, ReportInv, ReportTypes, FileTells, LastNoted, Carried,
        AcKeys, Place, Keys
    <2> QED
      BY <2>1, <2>2, <2>3, <2>4 DEF ReportNext
  <1> QED
    BY <1>1, ReportInitInv, PTL DEF ReportSpec

-----------------------------------------------------------------------------
(* The report's properties                                                 *)

\* The file, the samples and the memory of createReport keep their types.
THEOREM ReportTypeCorrect == ReportSpec => []ReportTypeOK
  <1>1. ReportInv => ReportTypeOK
    <2> SUFFICES ASSUME ReportInv PROVE ReportTypeOK
      OBVIOUS
    <2>1. \A key \in Keys : \A n \in DOMAIN file[key] :
             file[key][n] \in [at : 0..now, on : BOOLEAN, legible : BOOLEAN]
      <3> SUFFICES ASSUME NEW key \in Keys, NEW n \in DOMAIN file[key]
                   PROVE  file[key][n] \in [at : 0..now, on : BOOLEAN, legible : BOOLEAN]
        OBVIOUS
      <3>1. file[key] \in Seq(Line) /\ n \in 1..Len(file[key])
        BY DEF ReportInv, ReportTypes
      <3>2. file[key][n] \in Line /\ file[key][n].at <= now
        BY <3>1 DEF ReportInv, FileTells, FileOK
      <3>3. now \in Nat
        BY TicksBefore DEF ReportInv, ReportTypes
      <3> QED
        BY <3>2, <3>3 DEF Line
    <2> QED
      BY <2>1 DEF ReportInv, ReportTypes, ReportTypeOK
  <1> QED
    BY <1>1, ReportInvOK, PTL

\* What the lines in a range tell holds of the samples.
LEMMA LinesTell ==
    ASSUME ReportInv, NEW key \in Keys, NEW start \in Int, NEW end \in Int,
           NEW n \in 1..Len(file[key]), InRange(file[key][n], start, end),
           NEW t \in file[key][n].at..end,
           n < Len(file[key]) => t < file[key][n + 1].at
    PROVE  IsOff(key, t) <=> ~file[key][n].on
  <1> DEFINE f == file[key]
  <1>1. /\ f \in Seq(Line) /\ Len(f) \in Nat
        /\ FileOK(f, seen[key], MidnightOf(now) + SamplingFrequency, now, due)
    BY DEF ReportInv, ReportTypes, FileTells
  <1>2. now \in Nat
    BY TicksBefore DEF ReportInv, ReportTypes
  <1>3. \A k \in 1..Len(f) : f[k].at \in Nat /\ f[k].at <= now
    <2>1. \A k \in 1..Len(f) : f[k] \in Line
      BY <1>1
    <2> QED
      BY <1>1, <2>1 DEF FileOK, Line
  <1>4. f[n].legible /\ f[n].at \in Nat /\ t \in Int /\ f[n].at <= t
    BY <1>3 DEF InRange
  <1> HIDE DEF f
  <1>5. CASE t <= now
    <2>1. t \in f[n].at..now
      BY <1>2, <1>4, <1>5
    <2>2. seen[key][t] = State(f[n].on)
      BY <1>1, <1>4, <2>1 DEF FileOK, Tells, f
    <2> QED
      BY <1>5, <2>2 DEF IsOff, State, f
  <1>6. CASE ~(t <= now)
    <2>1. ~(n < Len(f))
      <3> SUFFICES ASSUME n < Len(f) PROVE FALSE
        OBVIOUS
      <3>1. n + 1 \in 1..Len(f)
        BY <1>1 DEF f
      <3>2. f[n + 1].at <= now /\ f[n + 1].at \in Nat /\ t < f[n + 1].at
        BY <1>3, <3>1 DEF f
      <3> QED
        BY <1>2, <1>4, <1>6, <3>2
    <2>2. n = Len(f) /\ f # << >>
      BY <1>1, <2>1 DEF f
    <2>3. seen[key][now] = State(f[n].on)
      BY <1>1, <2>2 DEF FileOK
    <2> QED
      BY <1>6, <2>3 DEF IsOff, State, f
  <1> QED
    BY <1>5, <1>6

\* No report adds up more than was sampled, for any range of days asked for.
THEOREM ReportNeverOvercounts == ReportSpec => []NeverOvercounts
  <1>1. ReportInv => NeverOvercounts
    <2> SUFFICES ASSUME ReportInv, NEW key \in AcKeys,
                        NEW d1 \in 0..(Days - 1), NEW d2 \in 0..(Days - 1)
                 PROVE  on_btnPrint(key, d1, d2)
                          <= Cardinality({t \in (d1 * Day)..(d2 * Day + Day - 1) : IsOff(key, t)})
      BY DEF NeverOvercounts
    <2> DEFINE f == file[key]
               start == d1 * Day
               end == d2 * Day + Day - 1
               off == {t \in Int : IsOff(key, t)}
               all == {t \in start..end : IsOff(key, t)}
    <2>1. key \in Keys /\ Days \in Nat /\ Day \in Nat
      BY ReportConstants DEF AcKeys
    <2>2. start \in Int /\ end \in Int
      BY <2>1
    <2>3. f \in Seq(Line) /\ Ordered(f)
      BY <2>1 DEF ReportInv, ReportTypes, FileTells, FileOK
    <2>4. on_btnPrint(key, d1, d2) = Total(ReadLines(f, start, end), end)
      BY DEF on_btnPrint, Total
    <2> HIDE DEF start, end
    <2>5. Holds(f, start, end, {}, off)
      <3>1. ASSUME NEW n \in 1..Len(f), InRange(f[n], start, end),
                   NEW t \in f[n].at..end, n < Len(f) => t < f[n + 1].at
            PROVE  IF f[n].on THEN t \notin {} ELSE t \in off
        <4>1. IsOff(key, t) <=> ~f[n].on
          BY <2>1, <2>2, <3>1, LinesTell
        <4>2. f[n].at \in Int
          <5>1. f[n] \in Line
            BY <2>3, <3>1
          <5> QED
            BY <5>1 DEF Line
        <4> QED
          BY <2>2, <4>1, <4>2
      <3> QED
        BY <3>1 DEF Holds
    <2>6. Total(ReadLines(f, start, end), end) <= Count(off, start, end)
      BY <2>2, <2>3, <2>5, Printed
    <2>7. Count(off, start, end) <= Cardinality(all) /\ Cardinality(all) \in Nat
      <3>1. IsFiniteSet(start..end)
        BY <2>2, FS_Interval
      <3>2. all \subseteq start..end /\ off \cap (start..(end - 1)) \subseteq all
        BY <2>2
      <3> HIDE DEF all, off
      <3>3. IsFiniteSet(all)
        BY <3>1, <3>2, FS_Subset
      <3> QED
        BY <3>2, <3>3, FS_Subset, FS_CardinalityType DEF Count
    <2>8. Count(off, start, end) \in Nat /\ Total(ReadLines(f, start, end), end) \in Int
      <3>1. Count(off, start, end) \in Nat
        BY <2>2, CountBounds
      <3>2. ReadLines(f, start, end) \in Reading
        BY <2>2, <2>3, <2>5, WalkAll DEF Walk
      <3> QED
        BY <2>2, <3>1, <3>2 DEF Total, Reading
    <2>9. on_btnPrint(key, d1, d2) <= Cardinality(all)
      <3> DEFINE a == on_btnPrint(key, d1, d2)
                 b == Count(off, start, end)
                 c == Cardinality(all)
      <3>1. a \in Int /\ b \in Int /\ c \in Int /\ a <= b /\ b <= c
        BY <2>4, <2>6, <2>7, <2>8
      <3> HIDE DEF a, b, c
      <3>2. a <= c
        BY <3>1
      <3> QED
        BY <3>2 DEF a, c
    <2> QED
      BY <2>9 DEF start, end
  <1> QED
    BY <1>1, ReportInvOK, PTL

\* A stop that began today since the midnight window has a line of today.
LEMMA StopsAreNoted ==
    ASSUME ReportInv, NEW key \in Keys, NEW start \in Nat, start = MidnightOf(now),
           NEW t \in Int, NEW s \in (start + SamplingFrequency)..t,
           ~IsOff(key, s - 1), IsOff(key, s)
    PROVE  \E n \in 1..Len(file[key]) : file[key][n].legible /\ file[key][n].at = s
  <1>1. now \in Nat /\ SamplingFrequency \in Nat \ {0}
    BY TicksBefore, ReportConstants DEF ReportInv, ReportTypes
  <1>2. s \in Int /\ start + SamplingFrequency <= s /\ s - 1 \in Int
    BY <1>1
  <1>3. s <= now
    <2> SUFFICES ASSUME ~(s <= now) PROVE FALSE
      OBVIOUS
    <2>1. seen[key][now] = "off"
      BY DEF IsOff
    <2>2. (IF s - 1 <= now THEN s - 1 ELSE now) = now
      BY <1>1, <1>2
    <2> QED
      BY <2>1, <2>2 DEF IsOff
  <1>4. s - 1 <= now /\ s \in (start + SamplingFrequency)..now
    BY <1>1, <1>2, <1>3
  <1>5. seen[key][s] = "off" /\ seen[key][s - 1] # "off"
    BY <1>3, <1>4 DEF IsOff
  <1>6. Notes(file[key], seen[key], start + SamplingFrequency, now)
    BY DEF ReportInv, FileTells, FileOK
  <1> QED
    BY <1>4, <1>5, <1>6 DEF Notes

\* Today's report accounts for every stop sampled since the midnight window.
THEOREM ReportAccountsForToday == ReportSpec => []TodayIsAccounted
  <1>1. ReportInv => TodayIsAccounted
    <2> DEFINE today == now \div Day
    <2> SUFFICES ASSUME ReportInv, NEW key \in AcKeys
                 PROVE  on_btnPrint(key, today, today) >= Cardinality(StopsOf(key, today))
      BY DEF TodayIsAccounted
    <2> DEFINE f == file[key]
               start == today * Day
               end == today * Day + Day - 1
               off == {t \in Int : IsOff(key, t)}
               stops == StopsOf(key, today)
    <2>1. key \in Keys /\ Day \in Nat /\ now \in Nat /\ SamplingFrequency \in Nat
      BY ReportConstants, TicksBefore DEF AcKeys, ReportInv, ReportTypes
    <2>2. start = MidnightOf(now) /\ start \in Nat
      BY <2>1, DayOf
    <2>3. end \in Int /\ end - 1 = start + Day - 2
      <3> HIDE DEF today
      <3>1. start \in Int /\ end = start + Day - 1
        BY <2>2
      <3> HIDE DEF start, end
      <3> QED
        BY <2>1, <3>1
    <2>4. f \in Seq(Line) /\ Ordered(f)
      BY <2>1 DEF ReportInv, ReportTypes, FileTells, FileOK
    <2>5. on_btnPrint(key, today, today) = Total(ReadLines(f, start, end), end)
      BY DEF on_btnPrint, Total
    <2>6. stops = {t \in start..(start + Day - 2) :
             /\ IsOff(key, t)
             /\ \E s \in (start + SamplingFrequency)..t :
                   ~IsOff(key, s - 1) /\ \A u \in s..t : IsOff(key, u)}
      BY DEF StopsOf
    <2> HIDE DEF today, start, end, stops
    <2>7. Holds(f, start, end, stops, off)
      <3>1. ASSUME NEW n \in 1..Len(f), InRange(f[n], start, end),
                   NEW t \in f[n].at..end, n < Len(f) => t < f[n + 1].at
            PROVE  IF f[n].on THEN t \notin stops ELSE t \in off
        <4>1. IsOff(key, t) <=> ~f[n].on
          BY <2>1, <2>2, <2>3, <3>1, LinesTell
        <4>2. f[n].at \in Int
          <5>1. f[n] \in Line
            BY <2>4, <3>1
          <5> QED
            BY <5>1 DEF Line
        <4>3. t \in stops => IsOff(key, t)
          BY <2>6
        <4> QED
          BY <2>3, <4>1, <4>2, <4>3
      <3>2. ASSUME NEW t \in stops, t \in start..(end - 1)
            PROVE  \E n \in 1..Len(f) : InRange(f[n], start, end) /\ f[n].at <= t
        <4>1. PICK s \in (start + SamplingFrequency)..t :
                   ~IsOff(key, s - 1) /\ \A u \in s..t : IsOff(key, u)
          BY <2>6
        <4>2. t \in Int /\ s \in Int /\ s <= t /\ start <= s /\ t <= end
          BY <2>1, <2>2, <2>3, <3>2
        <4>3. IsOff(key, s)
          BY <4>1, <4>2
        <4>4. PICK n \in 1..Len(f) : f[n].legible /\ f[n].at = s
          BY <2>1, <2>2, <4>1, <4>2, <4>3, StopsAreNoted
        <4>5. s <= end
          BY <2>3, <4>2
        <4> QED
          BY <4>2, <4>4, <4>5 DEF InRange
      <3> QED
        BY <3>1, <3>2 DEF Holds
    <2>8. Count(stops, start, end) <= Total(ReadLines(f, start, end), end)
      BY <2>2, <2>3, <2>4, <2>7, Printed
    <2>9. Count(stops, start, end) = Cardinality(stops) /\ Count(stops, start, end) \in Nat
      <3>1. stops \subseteq start..(end - 1)
        BY <2>3, <2>6
      <3>2. stops \cap (start..(end - 1)) = stops
        BY <3>1
      <3>3. Count(stops, start, end) \in Nat
        BY <2>2, <2>3, CountBounds
      <3> QED
        BY <3>2, <3>3 DEF Count
    <2>10. Total(ReadLines(f, start, end), end) \in Int
      <3>1. ReadLines(f, start, end) \in Reading
        BY <2>2, <2>3, <2>4, <2>7, WalkAll DEF Walk
      <3> QED
        BY <2>3, <3>1 DEF Total, Reading
    <2> QED
      BY <2>5, <2>8, <2>9, <2>10 DEF stops
  <1> QED
    BY <1>1, ReportInvOK, PTL

=============================================================================
