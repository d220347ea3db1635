---------------------------- MODULE SessionProofs ----------------------------
(***************************************************************************)
(* Proofs about Session, for every base of the length digits, any number   *)
(* of message ids above the messages in flight and any other bounds.       *)
(*                                                                         *)
(* The bytes on the wire are the rest of the frame being read and whole    *)
(* frames behind it (Parsing), from which the refinement of FrameChannel   *)
(* follows.  The ids of the frames under way are the latest that nextmid   *)
(* has drawn, in the order in which they were drawn, so that an id comes   *)
(* round again only when its frame is gone (Drawing).  And no frame goes   *)
(* before one that is under way (Advances).                                *)
(***************************************************************************)
EXTENDS Session, TLAPS, FiniteSetTheorems, SequenceTheorems, WellFoundedInduction

-----------------------------------------------------------------------------
(* Numbers                                                                 *)

\* A set that holds every natural whose predecessors it holds has them all.
LEMMA Strongly ==
    ASSUME NEW S, \A n \in Nat : (\A k \in Nat : k < n => k \in S) => n \in S
    PROVE  \A n \in Nat : n \in S
  <1> DEFINE bad == {n \in Nat : n \notin S}
             R == {p \in Nat \X Nat : p[1] < p[2]}
  <1> SUFFICES ASSUME bad # {} PROVE FALSE
    OBVIOUS
  <1>1. IsWellFoundedOn(R, Nat)
    BY NatLessThanWellFounded DEF OpToRel
  <1>2. bad \in SUBSET Nat
    OBVIOUS
  <1>3. PICK n \in bad : \A e \in bad : <<e, n>> \notin R
    <2> HIDE DEF R, bad
    <2> QED
      BY <1>1, <1>2, WFMin
  <1>4. n \in Nat /\ n \notin S
    OBVIOUS
  <1>5. \A k \in Nat : k < n => k \in S
    BY <1>3, <1>4
  <1> QED
    BY <1>4, <1>5

\* A number of more than one digit, its lowest digit and the rest of it.
LEMMA Digit ==
    ASSUME NEW m \in Nat, Base <= m
    PROVE  /\ m \div Base \in Nat /\ m \div Base < m /\ m \div Base # 0
           /\ m % Base \in Nat /\ m % Base < Base
           /\ m = (m \div Base) * Base + (m % Base)
  <1> DEFINE q == m \div Base
             r == m % Base
  <1>1. Base \in Nat /\ Base > 1
    BY SessionAssumption
  <1>2. q \in Nat /\ r \in Nat /\ r < Base /\ m = Base * q + r
    BY <1>1
  <1>3. q * Base = Base * q
    BY <1>1, <1>2
  <1> HIDE DEF q, r
  <1>4. q # 0
    BY <1>1, <1>2
  <1>5. q + q <= Base * q
    BY <1>1, <1>2
  <1>6. q < m
    BY <1>1, <1>2, <1>4, <1>5
  <1> QED
    BY <1>2, <1>3, <1>4, <1>6 DEF q, r

\* A number of one digit.
LEMMA LastDigit ==
    ASSUME NEW m \in Nat, m < Base
    PROVE  m \div Base = 0 /\ m % Base = m
  <1> DEFINE q == m \div Base
             l == m % Base
             p == Base * q
  <1>1. Base \in Nat /\ Base > 1
    BY SessionAssumption
  <1>2. q \in Nat /\ l \in Nat /\ l < Base /\ m = Base * q + l
    BY <1>1
  <1> HIDE DEF q, l
  <1>3. (q # 0 => Base <= p) /\ p \in Nat /\ (q = 0 => p = 0)
    BY <1>1, <1>2
  <1>4. m = p + l
    BY <1>2
  <1> HIDE DEF p
  <1>5. q = 0
    BY <1>1, <1>2, <1>3, <1>4
  <1>6. l = m
    BY <1>2, <1>3, <1>4, <1>5
  <1> QED
    BY <1>5, <1>6 DEF q, l

\* A digit that more follow.
LEMMA MarkedDigit ==
    ASSUME NEW l \in Nat, l < Base
    PROVE  (Base + l) \div Base = 1 /\ (Base + l) % Base = l
  <1> DEFINE m == Base + l
             q == m \div Base
             k == m % Base
             p == Base * q
  <1>1. Base \in Nat /\ Base > 1
    BY SessionAssumption
  <1>2. m \in Nat
    BY <1>1
  <1>3. q \in Nat /\ k \in Nat /\ k < Base /\ m = Base * q + k
    <2> HIDE DEF m
    <2> QED
      BY <1>1, <1>2
  <1> HIDE DEF q, k
  <1>4. (q > 1 => Base + Base <= p) /\ p \in Nat /\ (q = 0 => p = 0) /\ (q = 1 => p = Base)
    <2>1. q > 1 => Base * 2 <= Base * q
      BY <1>1, <1>3
    <2>2. Base * 2 = Base + Base
      BY <1>1
    <2> QED
      BY <1>1, <1>3, <2>1, <2>2
  <1>5. Base + l = p + k
    BY <1>3
  <1> HIDE DEF p, m
  <1>6. q = 1
    BY <1>1, <1>3, <1>4, <1>5
  <1>7. k = l
    BY <1>1, <1>3, <1>4, <1>5, <1>6
  <1> QED
    BY <1>6, <1>7 DEF q, k, m

-----------------------------------------------------------------------------
(* Sequences of bytes                                                      *)

Bytes == Seq(Nat)

\* What comes first of two sequences of bytes is taken off first.
LEMMA TakeFirst ==
    ASSUME NEW s \in Bytes, NEW t \in Bytes, s # << >>
    PROVE  /\ s \o t \in Bytes /\ s \o t # << >>
           /\ Head(s \o t) = Head(s) /\ Tail(s \o t) = Tail(s) \o t
  <1> USE DEF Bytes
  <1>1. s \o t \in Seq(Nat) /\ Len(s) \in Nat \ {0} /\ Len(t) \in Nat /\ Len(s \o t) = Len(s) + Len(t)
    OBVIOUS
  <1>2. s \o t # << >> /\ Head(s \o t) = Head(s)
    BY <1>1
  <1>3. Tail(s) \in Seq(Nat) /\ Len(Tail(s)) = Len(s) - 1
    OBVIOUS
  <1>4. /\ Tail(s \o t) \in Seq(Nat) /\ Len(Tail(s \o t)) = Len(s) + Len(t) - 1
        /\ Tail(s) \o t \in Seq(Nat) /\ Len(Tail(s) \o t) = Len(s) + Len(t) - 1
    BY <1>1, <1>2, <1>3
  <1>5. \A i \in 1..(Len(s) + Len(t) - 1) : Tail(s \o t)[i] = (Tail(s) \o t)[i]
    <2> SUFFICES ASSUME NEW i \in 1..(Len(s) + Len(t) - 1)
                 PROVE  Tail(s \o t)[i] = (Tail(s) \o t)[i]
      OBVIOUS
    <2>1. Tail(s \o t)[i] = (s \o t)[i + 1]
      BY <1>1, <1>2, <1>4
    <2>2. CASE i <= Len(s) - 1
      <3>1. (s \o t)[i + 1] = s[i + 1] /\ Tail(s)[i] = s[i + 1]
        BY <1>1, <1>3, <2>2
      <3>2. (Tail(s) \o t)[i] = Tail(s)[i]
        BY <1>3, <2>2
      <3> QED
        BY <2>1, <3>1, <3>2
    <2>3. CASE ~(i <= Len(s) - 1)
      <3>1. (s \o t)[i + 1] = t[i + 1 - Len(s)]
        BY <1>1, <2>3
      <3>2. (Tail(s) \o t)[i] = t[i - (Len(s) - 1)]
        BY <1>1, <1>3, <2>3
      <3>3. i + 1 - Len(s) = i - (Len(s) - 1)
        BY <1>1
      <3> QED
        BY <2>1, <3>1, <3>2, <3>3
    <2> QED
      BY <2>2, <2>3
  <1> HIDE DEF Bytes
  <1>6. Tail(s \o t) = Tail(s) \o t
    BY <1>4, <1>5, SeqEqual
  <1> QED
    BY <1>1, <1>2, <1>6 DEF Bytes

\* The same for a single byte.
LEMMA TakeByte ==
    ASSUME NEW b \in Nat, NEW t \in Bytes
    PROVE  /\ <<b>> \o t \in Bytes /\ <<b>> \o t # << >>
           /\ Head(<<b>> \o t) = b /\ Tail(<<b>> \o t) = t
  <1>1. <<b>> \in Bytes /\ <<b>> # << >> /\ Head(<<b>>) = b /\ Tail(<<b>>) = << >>
    BY DEF Bytes
  <1>2. << >> \o t = t
    BY DEF Bytes
  <1> QED
    BY <1>1, <1>2, TakeFirst

-----------------------------------------------------------------------------
(* The length of a frame                                                   *)

\* The lengths up to n in digits.
Digits(g, n) ==
    g = [m \in 0..n |-> IF m < Base THEN <<m>>
                        ELSE <<Base + (m % Base)>> \o g[m \div Base]]

\* They can all be encoded,
LEMMA DigitsExist == \A n \in Nat : \E g : Digits(g, n)
  <1> DEFINE S == {n \in Nat : \E g : Digits(g, n)}
  <1>1. ASSUME NEW n \in Nat, \A k \in Nat : k < n => k \in S PROVE n \in S
    <2>1. Base \in Nat /\ Base > 1
      BY SessionAssumption
    <2>2. CASE n = 0
      <3> DEFINE g == [m \in 0..0 |-> <<0>>]
      <3>1. g = [m \in 0..0 |-> IF m < Base THEN <<m>>
                                ELSE <<Base + (m % Base)>> \o g[m \div Base]]
        BY <2>1
      <3> HIDE DEF g
      <3> QED
        BY <2>2, <3>1 DEF Digits
    <2>3. CASE n # 0
      <3>1. n - 1 \in Nat /\ n - 1 < n
        BY <2>3
      <3>2. PICK g : Digits(g, n - 1)
        BY <1>1, <3>1
      <3> DEFINE step(f, m) == IF m < Base THEN <<m>>
                               ELSE <<Base + (m % Base)>> \o f[m \div Base]
                 h == [m \in 0..n |-> IF m <= n - 1 THEN g[m] ELSE step(g, m)]
      <3>3. \A m \in 0..(n - 1) : g[m] = step(g, m)
        BY <3>2 DEF Digits
      <3>4. \A m \in 0..n : h[m] = step(g, m)
        <4> HIDE DEF step
        <4>1. \A m \in 0..n : m <= n - 1 => m \in 0..(n - 1)
          BY <3>1
        <4> QED
          BY <3>3, <4>1
      <3>5. \A m \in 0..n : Base <= m => (m \div Base) \in 0..(n - 1)
        <4> SUFFICES ASSUME NEW m \in 0..n, Base <= m PROVE (m \div Base) \in 0..(n - 1)
          OBVIOUS
        <4>1. m \div Base \in Nat /\ m \div Base < m
          BY Digit
        <4> HIDE DEF step, h
        <4> QED
          BY <4>1, <3>1
      <3>6. \A m \in 0..n : step(h, m) = step(g, m)
        <4> SUFFICES ASSUME NEW m \in 0..n PROVE step(h, m) = step(g, m)
          OBVIOUS
        <4>1. CASE m < Base
          BY <4>1
        <4>2. CASE ~(m < Base)
          <5>1. Base <= m
            BY <2>1, <4>2
          <5>2. (m \div Base) \in 0..(n - 1)
            BY <3>5, <5>1
          <5>3. h[m \div Base] = g[m \div Base]
            <6> DEFINE q == m \div Base
            <6>1. q \in 0..n /\ q <= n - 1
              BY <3>1, <5>2
            <6> HIDE DEF q, step
            <6>2. h[q] = g[q]
              BY <6>1
            <6> QED
              BY <6>2 DEF q
          <5> HIDE DEF h
          <5> QED
            BY <5>3
        <4> QED
          BY <4>1, <4>2
      <3>7. h = [m \in 0..n |-> h[m]]
        OBVIOUS
      <3> HIDE DEF h, step
      <3>8. h = [m \in 0..n |-> step(h, m)]
        BY <3>4, <3>6, <3>7
      <3>9. Digits(h, n)
        BY <3>8 DEF Digits, step
      <3> QED
        BY <3>9
    <2> QED
      BY <2>2, <2>3
  <1> HIDE DEF S
  <1>2. \A n \in Nat : n \in S
    BY <1>1, Strongly
  <1> QED
    BY <1>2 DEF S

\* and in one way only.
LEMMA DigitsAgree ==
    ASSUME NEW n \in Nat, NEW k \in Nat, NEW g, NEW h, Digits(g, n), Digits(h, k)
    PROVE  \A m \in Nat : m <= n /\ m <= k => g[m] = h[m]
  <1> DEFINE S == {m \in Nat : m <= n /\ m <= k => g[m] = h[m]}
  <1>1. ASSUME NEW m \in Nat, \A l \in Nat : l < m => l \in S PROVE m \in S
    <2> SUFFICES ASSUME m <= n, m <= k PROVE g[m] = h[m]
      OBVIOUS
    <2> DEFINE step(f, l) == IF l < Base THEN <<l>>
                             ELSE <<Base + (l % Base)>> \o f[l \div Base]
    <2>1. g[m] = step(g, m) /\ h[m] = step(h, m)
      <3>1. m \in 0..n /\ m \in 0..k
        OBVIOUS
      <3>2. /\ g = [l \in 0..n |-> step(g, l)]
            /\ h = [l \in 0..k |-> step(h, l)]
        BY DEF Digits
      <3> HIDE DEF step
      <3> QED
        BY <3>1, <3>2
    <2>2. CASE m < Base
      BY <2>1, <2>2
    <2>3. CASE ~(m < Base)
      <3>1. Base <= m
        BY <2>3, SessionAssumption
      <3>2. m \div Base \in Nat /\ m \div Base < m
        BY <3>1, Digit
      <3> DEFINE q == m \div Base
      <3>3. q \in Nat /\ q <= n /\ q <= k /\ q \in S
        BY <1>1, <3>2
      <3>4. g[q] = h[q]
        <4> HIDE DEF q, step
        <4> QED
          BY <3>3
      <3> QED
        BY <2>1, <2>3, <3>4
    <2> QED
      BY <2>2, <2>3
  <1> HIDE DEF S
  <1>2. \A m \in Nat : m \in S
    BY <1>1, Strongly
  <1> QED
    BY <1>2 DEF S

\* So encodeLength may be taken apart digit by digit.
LEMMA EncodeIs ==
    ASSUME NEW n \in Nat
    PROVE  \E g : Digits(g, n) /\ encodeLength(n) = g[n]
  <1> DEFINE digits == CHOOSE g : Digits(g, n)
  <1>1. Digits(digits, n)
    BY DigitsExist
  <1>2. encodeLength(n) = digits[n]
    BY DEF encodeLength, Digits
  <1> HIDE DEF digits
  <1> QED
    BY <1>1, <1>2

\* The lowest digit of a length, and the digits of the rest.
LEMMA EncodeDigit ==
    ASSUME NEW n \in Nat
    PROVE  encodeLength(n) = IF n < Base THEN <<n>>
                             ELSE <<Base + (n % Base)>> \o encodeLength(n \div Base)
  <1>1. PICK g : Digits(g, n) /\ encodeLength(n) = g[n]
    BY EncodeIs
  <1>2. g[n] = IF n < Base THEN <<n>> ELSE <<Base + (n % Base)>> \o g[n \div Base]
    <2> DEFINE step(m) == IF m < Base THEN <<m>>
                          ELSE <<Base + (m % Base)>> \o g[m \div Base]
    <2>1. n \in 0..n
      OBVIOUS
    <2>2. g = [m \in 0..n |-> step(m)]
      BY <1>1 DEF Digits
    <2>3. g[n] = step(n)
      <3> HIDE DEF step
      <3> QED
        BY <2>1, <2>2
    <2> QED
      BY <2>3
  <1>3. CASE n < Base
    BY <1>1, <1>2, <1>3
  <1>4. CASE ~(n < Base)
    <2>1. Base <= n
      BY <1>4, SessionAssumption
    <2> DEFINE q == n \div Base
    <2>2. q \in Nat /\ q < n
      BY <2>1, Digit
    <2>3. PICK h : Digits(h, q) /\ encodeLength(q) = h[q]
      BY <2>2, EncodeIs
    <2>4. g[q] = h[q]
      <3> HIDE DEF q
      <3>1. q <= n /\ q <= q
        BY <2>2
      <3> QED
        BY <1>1, <2>2, <2>3, <3>1, DigitsAgree
    <2> QED
      BY <1>1, <1>2, <1>4, <2>3, <2>4
  <1> QED
    BY <1>3, <1>4

\* It has a digit at least.
LEMMA EncodeType == \A n \in Nat : encodeLength(n) \in Bytes /\ encodeLength(n) # << >>
  <1> DEFINE S == {n \in Nat : encodeLength(n) \in Bytes /\ encodeLength(n) # << >>}
  <1>1. ASSUME NEW n \in Nat, \A k \in Nat : k < n => k \in S PROVE n \in S
    <2>1. CASE n < Base
      <3>1. encodeLength(n) = <<n>>
        BY <2>1, EncodeDigit
      <3>2. <<n>> \in Bytes /\ <<n>> # << >>
        BY DEF Bytes
      <3> QED
        BY <3>1, <3>2
    <2>2. CASE ~(n < Base)
      <3>1. Base \in Nat /\ Base <= n
        BY <2>2, SessionAssumption
      <3> DEFINE q == n \div Base
                 d == Base + (n % Base)
      <3>2. q \in Nat /\ q < n /\ d \in Nat
        BY <3>1, Digit
      <3>3. encodeLength(n) = <<d>> \o encodeLength(q)
        BY <2>2, EncodeDigit
      <3> HIDE DEF q, d
      <3>4. encodeLength(q) \in Bytes
        BY <1>1, <3>2
      <3> QED
        BY <3>2, <3>3, <3>4, TakeByte
    <2> QED
      BY <2>1, <2>2
  <1> HIDE DEF S
  <1>2. \A n \in Nat : n \in S
    BY <1>1, Strongly
  <1> QED
    BY <1>2 DEF S

-----------------------------------------------------------------------------
(* Frames on the wire                                                      *)

Frame == [header : Nat, data : Bytes]

\* An empty frame is written like any other.
LEMMA WriteIs ==
    ASSUME NEW f \in Frame
    PROVE  /\ write(f) = <<f.header>> \o (encodeLength(Len(f.data)) \o f.data)
           /\ encodeLength(Len(f.data)) \o f.data \in Bytes
           /\ write(f) \in Bytes
  <1>1. f.header \in Nat /\ f.data \in Bytes /\ Len(f.data) \in Nat
    BY DEF Frame, Bytes
  <1>2. encodeLength(Len(f.data)) \in Bytes /\ encodeLength(Len(f.data)) # << >>
    BY <1>1, EncodeType
  <1>3. encodeLength(Len(f.data)) \o f.data \in Bytes
    BY <1>1, <1>2, TakeFirst
  <1>4. write(f) = <<f.header>> \o (encodeLength(Len(f.data)) \o f.data)
    <2>1. CASE f.data = << >>
      <3>1. Len(f.data) = 0 /\ 0 < Base
        BY <2>1, SessionAssumption
      <3>2. encodeLength(Len(f.data)) = <<0>>
        <4>1. 0 \in Nat
          OBVIOUS
        <4> QED
          BY <3>1, <4>1, EncodeDigit
      <3>3. <<0>> \o << >> = <<0>>
        OBVIOUS
      <3> QED
        BY <2>1, <3>2, <3>3 DEF write
    <2>2. CASE f.data # << >>
      BY <2>2 DEF write
    <2> QED
      BY <2>1, <2>2
  <1> QED
    BY <1>1, <1>3, <1>4, TakeByte

\* The bytes v are those of the frames of q: the k-th ends with the byte cut[k].
Cuts(cut, v, q) ==
    /\ cut \in [0..Len(q) -> Nat]
    /\ cut[0] = 0 /\ cut[Len(q)] = Len(v)
    /\ \A j, k \in 0..Len(q) : j <= k => cut[j] <= cut[k]
    /\ \A k \in 1..Len(q) :
          /\ cut[k] = cut[k - 1] + Len(write(q[k]))
          /\ \A j \in 1..Len(write(q[k])) : v[cut[k - 1] + j] = write(q[k])[j]

Frames(v, q) == \E cut : Cuts(cut, v, q)

\* Nothing is written for no frames.
LEMMA FramesNone ==
    /\ Frames(<< >>, << >>)
    /\ \A v \in Bytes : Frames(v, << >>) => v = << >>
  <1>1. Len(<< >>) = 0
    OBVIOUS
  <1>2. Frames(<< >>, << >>)
    <2> DEFINE cut == [k \in 0..0 |-> 0]
    <2>1. Cuts(cut, << >>, << >>)
      BY <1>1 DEF Cuts
    <2> QED
      BY <2>1 DEF Frames
  <1>3. ASSUME NEW v \in Bytes, Frames(v, << >>) PROVE v = << >>
    <2>1. Len(v) = 0
      BY <1>1, <1>3 DEF Frames, Cuts
    <2> QED
      BY <2>1 DEF Bytes
  <1> QED
    BY <1>2, <1>3

\* One more frame is written behind the others.
LEMMA FramesAppend ==
    ASSUME NEW v \in Bytes, NEW q \in Seq(Frame), Frames(v, q), NEW f \in Frame
    PROVE  Frames(v \o write(f), Append(q, f)) /\ v \o write(f) \in Bytes
  <1> DEFINE w == write(f)
             n == Len(q)
  <1>1. w \in Bytes /\ Len(w) \in Nat /\ n \in Nat /\ Len(v) \in Nat
    <2>1. w \in Bytes
      BY WriteIs
    <2> HIDE DEF w
    <2> QED
      BY <2>1 DEF Bytes
  <1>2. PICK cut : Cuts(cut, v, q)
    BY DEF Frames
  <1> DEFINE p == Append(q, f)
             u == v \o w
             to == [k \in 0..(n + 1) |-> IF k <= n THEN cut[k] ELSE Len(v) + Len(w)]
  <1>3. Len(p) = n + 1 /\ p[n + 1] = f /\ \A k \in 1..n : p[k] = q[k]
    OBVIOUS
  <1> HIDE DEF w
  <1>4. /\ u \in Bytes /\ Len(u) = Len(v) + Len(w)
        /\ \A i \in 1..Len(v) : u[i] = v[i]
        /\ \A i \in 1..Len(w) : u[Len(v) + i] = w[i]
    BY <1>1 DEF Bytes
  <1>5. /\ cut \in [0..n -> Nat] /\ cut[0] = 0 /\ cut[n] = Len(v)
        /\ \A j, k \in 0..n : j <= k => cut[j] <= cut[k]
    BY <1>2 DEF Cuts
  <1> HIDE DEF p, u, n
  <1>6. /\ \A k \in 0..n : to[k] = cut[k]
        /\ to[n + 1] = Len(v) + Len(w)
        /\ to \in [0..(n + 1) -> Nat]
    <2>1. \A k \in 0..n : k \in 0..(n + 1) /\ k <= n /\ cut[k] \in Nat
      BY <1>1, <1>5
    <2>2. n + 1 \in 0..(n + 1) /\ ~(n + 1 <= n)
      BY <1>1
    <2>3. \A k \in 0..(n + 1) : k <= n => k \in 0..n
      BY <1>1
    <2> QED
      BY <1>1, <2>1, <2>2, <2>3
  <1> HIDE DEF to
  <1>7. \A k \in 0..(n + 1) : k \in 0..n \/ k = n + 1
    BY <1>1
  <1>8. \A j, k \in 0..(n + 1) : j <= k => to[j] <= to[k]
    <2> SUFFICES ASSUME NEW j \in 0..(n + 1), NEW k \in 0..(n + 1), j <= k
                 PROVE  to[j] <= to[k]
      OBVIOUS
    <2>1. CASE k \in 0..n
      <3>1. j \in 0..n
        BY <1>1, <2>1
      <3> QED
        BY <1>5, <1>6, <2>1, <3>1
    <2>2. CASE k = n + 1 /\ j \in 0..n
      <3>1. cut[j] <= cut[n] /\ cut[j] \in Nat
        BY <1>1, <1>5, <2>2
      <3> QED
        BY <1>1, <1>5, <1>6, <2>2, <3>1
    <2>3. CASE k = n + 1 /\ j = n + 1
      BY <1>1, <1>6, <2>3
    <2> QED
      BY <1>7, <2>1, <2>2, <2>3
  <1>9. \A k \in 1..(n + 1) :
          /\ to[k] = to[k - 1] + Len(write(p[k]))
          /\ \A j \in 1..Len(write(p[k])) : u[to[k - 1] + j] = write(p[k])[j]
    <2> SUFFICES ASSUME NEW k \in 1..(n + 1)
                 PROVE  /\ to[k] = to[k - 1] + Len(write(p[k]))
                        /\ \A j \in 1..Len(write(p[k])) : u[to[k - 1] + j] = write(p[k])[j]
      OBVIOUS
    <2>1. CASE k \in 1..n
      <3>1. k \in 0..n /\ k - 1 \in 0..n /\ p[k] = q[k]
        BY <1>1, <1>3, <2>1
      <3>2. to[k] = cut[k] /\ to[k - 1] = cut[k - 1] /\ cut[k - 1] \in Nat /\ cut[k] <= Len(v)
        BY <1>1, <1>5, <1>6, <3>1
      <3>3. /\ cut[k] = cut[k - 1] + Len(write(q[k]))
            /\ \A j \in 1..Len(write(q[k])) : v[cut[k - 1] + j] = write(q[k])[j]
        BY <1>2, <2>1 DEF Cuts, n
      <3>4. Len(write(q[k])) \in Nat
        <4>1. q[k] \in Frame
          BY <2>1 DEF n
        <4> QED
          BY <4>1, WriteIs DEF Bytes
      <3>5. \A j \in 1..Len(write(q[k])) : cut[k - 1] + j \in 1..Len(v)
        BY <1>1, <3>2, <3>3, <3>4
      <3> QED
        BY <1>4, <3>1, <3>2, <3>3, <3>5
    <2>2. CASE k = n + 1
      <3>1. k - 1 = n /\ p[k] = f
        BY <1>1, <1>3, <2>2
      <3>2. to[k - 1] = Len(v) /\ to[k] = Len(v) + Len(w)
        BY <1>1, <1>5, <1>6, <2>2, <3>1
      <3> QED
        BY <1>4, <3>1, <3>2 DEF w
    <2> QED
      BY <1>1, <2>1, <2>2
  <1>10. to[0] = 0 /\ to[n + 1] = Len(u)
    BY <1>1, <1>4, <1>5, <1>6
  <1>11. Cuts(to, u, p)
    BY <1>3, <1>6, <1>8, <1>9, <1>10 DEF Cuts
  <1> QED
    BY <1>4, <1>11 DEF Frames, p, u, w

\* The bytes of the first frame come first.
LEMMA FramesHead ==
    ASSUME NEW v \in Bytes, NEW q \in Seq(Frame), Frames(v, q), q # << >>
    PROVE  \E u \in Bytes : v = write(Head(q)) \o u /\ Frames(u, Tail(q))
  <1> DEFINE f == Head(q)
             w == write(f)
             n == Len(q)
             p == Tail(q)
  <1>1. /\ f \in Frame /\ f = q[1] /\ n \in Nat \ {0} /\ p \in Seq(Frame) /\ Len(p) = n - 1
        /\ \A k \in 1..(n - 1) : p[k] = q[k + 1]
    OBVIOUS
  <1>2. w \in Bytes /\ Len(w) \in Nat /\ Len(v) \in Nat
    <2>1. w \in Bytes
      BY <1>1, WriteIs
    <2> HIDE DEF w
    <2> QED
      BY <2>1 DEF Bytes
  <1>3. PICK cut : Cuts(cut, v, q)
    BY DEF Frames
  <1>4. /\ cut \in [0..n -> Nat] /\ cut[0] = 0 /\ cut[n] = Len(v)
        /\ \A j, k \in 0..n : j <= k => cut[j] <= cut[k]
    BY <1>3 DEF Cuts
  <1>5. cut[1] = Len(w) /\ \A j \in 1..Len(w) : v[j] = w[j]
    <2>1. 1 \in 1..n /\ 1 - 1 = 0
      BY <1>1
    <2>2. /\ cut[1] = cut[1 - 1] + Len(write(q[1]))
          /\ \A j \in 1..Len(write(q[1])) : v[cut[1 - 1] + j] = write(q[1])[j]
      BY <1>3, <2>1 DEF Cuts
    <2>3. /\ cut[1] = 0 + Len(write(q[1]))
          /\ \A j \in 1..Len(write(q[1])) : v[0 + j] = write(q[1])[j]
      BY <1>4, <2>1, <2>2
    <2> QED
      BY <1>1, <1>2, <2>3
  <1> HIDE DEF w, p
  <1>6. Len(w) <= Len(v)
    <2>1. 1 \in 0..n /\ n \in 0..n /\ 1 <= n
      BY <1>1
    <2> QED
      BY <1>4, <1>5, <2>1
  <1> DEFINE u == SubSeq(v, Len(w) + 1, Len(v))
             to == [k \in 0..(n - 1) |-> cut[k + 1] - cut[1]]
  <1>7. /\ u \in Bytes /\ Len(u) = Len(v) - Len(w)
        /\ \A i \in 1..(Len(v) - Len(w)) : u[i] = v[Len(w) + i]
    BY <1>2, <1>6 DEF Bytes
  <1>8. v = w \o u
    <2>1. w \o u \in Seq(Nat) /\ Len(w \o u) = Len(v) /\ v \in Seq(Nat)
      BY <1>2, <1>7 DEF Bytes
    <2>2. \A i \in 1..Len(v) : v[i] = (w \o u)[i]
      <3> SUFFICES ASSUME NEW i \in 1..Len(v) PROVE v[i] = (w \o u)[i]
        OBVIOUS
      <3>1. CASE i <= Len(w)
        <4>1. (w \o u)[i] = w[i]
          BY <1>2, <1>7, <3>1 DEF Bytes
        <4> QED
          BY <1>2, <1>5, <3>1, <4>1
      <3>2. CASE ~(i <= Len(w))
        <4> DEFINE j == i - Len(w)
        <4>1. j \in 1..(Len(v) - Len(w)) /\ i = Len(w) + j
          BY <1>2, <3>2
        <4>2. (w \o u)[i] = u[j]
          BY <1>2, <1>7, <3>2, <4>1 DEF Bytes
        <4> HIDE DEF j
        <4> QED
          BY <1>7, <4>1, <4>2
      <3> QED
        BY <3>1, <3>2
    <2> HIDE DEF u
    <2> QED
      BY <2>1, <2>2, SeqEqual
  <1> HIDE DEF u
  <1>9. \A k \in 0..(n - 1) : k + 1 \in 0..n /\ cut[1] <= cut[k + 1] /\ cut[k + 1] \in Nat
    <2> SUFFICES ASSUME NEW k \in 0..(n - 1)
                 PROVE  k + 1 \in 0..n /\ cut[1] <= cut[k + 1] /\ cut[k + 1] \in Nat
      OBVIOUS
    <2>1. k + 1 \in 0..n /\ 1 \in 0..n /\ 1 <= k + 1
      BY <1>1
    <2> QED
      BY <1>4, <2>1
  <1>10. to \in [0..(n - 1) -> Nat] /\ \A k \in 0..(n - 1) : to[k] = cut[k + 1] - Len(w)
    <2>1. cut[1] \in Nat /\ cut[1] = Len(w)
      BY <1>2, <1>5
    <2> QED
      BY <1>9, <2>1
  <1> HIDE DEF to
  <1>11. to[0] = 0 /\ to[n - 1] = Len(u)
    <2>1. 0 \in 0..(n - 1) /\ n - 1 \in 0..(n - 1) /\ 0 + 1 = 1 /\ (n - 1) + 1 = n
      BY <1>1
    <2>2. to[0] = cut[1] - Len(w) /\ to[n - 1] = cut[n] - Len(w)
      BY <1>10, <2>1
    <2> QED
      BY <1>2, <1>4, <1>5, <1>7, <2>2
  <1>12. \A j, k \in 0..(n - 1) : j <= k => to[j] <= to[k]
    <2> SUFFICES ASSUME NEW j \in 0..(n - 1), NEW k \in 0..(n - 1), j <= k
                 PROVE  to[j] <= to[k]
      OBVIOUS
    <2>1. j + 1 \in 0..n /\ k + 1 \in 0..n /\ j + 1 <= k + 1
      BY <1>1
    <2>2. cut[j + 1] <= cut[k + 1] /\ cut[j + 1] \in Nat /\ cut[k + 1] \in Nat
      BY <1>4, <2>1
    <2> QED
      BY <1>2, <1>10, <2>2
  <1>13. \A k \in 1..(n - 1) :
          /\ to[k] = to[k - 1] + Len(write(p[k]))
          /\ \A j \in 1..Len(write(p[k])) : u[to[k - 1] + j] = write(p[k])[j]
    <2> SUFFICES ASSUME NEW k \in 1..(n - 1)
                 PROVE  /\ to[k] = to[k - 1] + Len(write(p[k]))
                        /\ \A j \in 1..Len(write(p[k])) : u[to[k - 1] + j] = write(p[k])[j]
      OBVIOUS
    <2> DEFINE m == k + 1
               x == write(p[k])
    <2>1. /\ m \in 1..n /\ m \in 0..n /\ m - 1 = k /\ k \in 0..n /\ k \in 0..(n - 1)
          /\ k - 1 \in 0..(n - 1) /\ (k - 1) + 1 = k /\ p[k] = q[m]
      BY <1>1 DEF p
    <2>2. x \in Bytes /\ Len(x) \in Nat
      <3>1. p[k] \in Frame
        BY <1>1 DEF p
      <3>2. x \in Bytes
        BY <3>1, WriteIs
      <3> HIDE DEF x
      <3> QED
        BY <3>2 DEF Bytes
    <2>3. /\ cut[m] = cut[k] + Len(x)
          /\ \A j \in 1..Len(x) : v[cut[k] + j] = x[j]
      <3>1. /\ cut[m] = cut[m - 1] + Len(write(q[m]))
            /\ \A j \in 1..Len(write(q[m])) : v[cut[m - 1] + j] = write(q[m])[j]
        BY <1>3, <2>1 DEF Cuts
      <3> HIDE DEF m
      <3> QED
        BY <2>1, <3>1
    <2>4. /\ to[k] = cut[m] - Len(w) /\ to[k - 1] = cut[k] - Len(w)
          /\ cut[m] \in Nat /\ cut[k] \in Nat /\ Len(w) <= cut[k] /\ cut[m] <= Len(v)
      <3>1. to[k] = cut[k + 1] - Len(w) /\ to[k - 1] = cut[(k - 1) + 1] - Len(w)
        BY <1>10, <2>1
      <3>2. cut[1] <= cut[k]
        BY <1>9, <2>1
      <3>3. cut[m] <= cut[n] /\ cut[m] \in Nat /\ cut[k] \in Nat
        <4>1. n \in 0..n /\ m <= n
          BY <1>1, <2>1
        <4> HIDE DEF m
        <4> QED
          BY <1>4, <2>1, <4>1
      <3> QED
        BY <1>4, <1>5, <2>1, <3>1, <3>2, <3>3
    <2> HIDE DEF m, x
    <2>5. to[k] = to[k - 1] + Len(x)
      BY <1>2, <2>2, <2>3, <2>4
    <2>6. \A j \in 1..Len(x) : u[to[k - 1] + j] = x[j]
      <3> SUFFICES ASSUME NEW j \in 1..Len(x) PROVE u[to[k - 1] + j] = x[j]
        OBVIOUS
      <3> DEFINE i == to[k - 1] + j
      <3>1. i \in 1..(Len(v) - Len(w)) /\ Len(w) + i = cut[k] + j
        <4> DEFINE a == cut[k]
                   z == cut[m]
                   lv == Len(v)
                   lw == Len(w)
                   lx == Len(x)
                   l == to[k - 1]
        <4>1. /\ a \in Nat /\ z \in Nat /\ lv \in Nat /\ lw \in Nat /\ lx \in Nat
              /\ z = a + lx /\ z <= lv /\ lw <= a /\ l = a - lw
          BY <1>2, <2>2, <2>3, <2>4
        <4>2. j \in Nat /\ 1 <= j /\ j <= lx
          BY <2>2
        <4> HIDE DEF a, z, lv, lw, lx, l
        <4>3. l + j \in 1..(lv - lw) /\ lw + (l + j) = a + j
          BY <4>1, <4>2
        <4> QED
          BY <4>3 DEF a, lv, lw, l
      <3> HIDE DEF i
      <3>2. u[i] = v[Len(w) + i]
        BY <1>7, <3>1
      <3> QED
        BY <2>3, <3>1, <3>2 DEF i
    <2> QED
      BY <2>5, <2>6 DEF x
  <1>14. Cuts(to, u, p)
    <2>1. Len(p) = n - 1
      BY <1>1 DEF p
    <2> QED
      BY <1>10, <1>11, <1>12, <1>13, <2>1 DEF Cuts
  <1> QED
    BY <1>7, <1>8, <1>14 DEF Frames, p, w

-----------------------------------------------------------------------------
(* Types                                                                   *)

Sent == [type : Nat, id : Ids, msg : 0..MaxMessages]

\* TypeOK, and what the frames and the bytes consist of.
Types ==
    /\ TypeOK
    /\ midToMessage = [i \in DOMAIN midToMessage |-> midToMessage[i]]
    /\ count \in 0..MaxMessages
    /\ toBroker \in Seq(Sent)
    /\ wire \in Bytes
    /\ header \in Nat /\ length \in Nat /\ shift \in Nat /\ data \in Bytes
    /\ queue \in Seq(Frame)
    /\ sound \in BOOLEAN

\* Without a connection nothing is under way; the parser is at a header when
\* one begins; nothing is promised after a reset within a frame; and who waits
\* for the contents of a frame waits for a byte at least.
Quiet ==
    /\ sock # "up" => toBroker = << >> /\ wire = << >> /\ queue = << >> /\ sound
    /\ sock = "connecting" => readState = "Header"
    /\ ~sound => queue = << >>
    /\ readState = "PayLoad" => length # 0

\* There are at least two ids, 0 and 1 among them.
LEMMA SomeIds == IdCount \in Nat /\ IdCount >= 2 /\ 0 \in Ids /\ 1 \in Ids /\ Ids \subseteq Nat
  BY SessionAssumption DEF Ids

\* The bounds are numbers, and the ids outnumber the messages in flight by two.
LEMMA Bounds == MaxMessages \in Nat /\ MaxInFlight \in Nat /\ MaxInFlight + 2 <= IdCount
  BY SessionAssumption

\* Before the first connection nothing is on its way.
LEMMA InitTypes == Init => Types /\ Quiet
  <1> SUFFICES ASSUME Init PROVE Types /\ Quiet
    OBVIOUS
  <1>1. TypeOK
    BY SomeIds DEF Init, TypeOK
  <1>2. midToMessage = [i \in DOMAIN midToMessage |-> midToMessage[i]]
    BY DEF Init
  <1>3. count \in 0..MaxMessages
    BY Bounds DEF Init
  <1>4. toBroker \in Seq(Sent) /\ queue \in Seq(Frame)
    BY DEF Init
  <1>5. wire \in Bytes /\ data \in Bytes
    BY DEF Init, Bytes
  <1> QED
    BY <1>1, <1>2, <1>3, <1>4, <1>5 DEF Init, Types, Quiet

\* The id of a message is one of Ids.
LEMMA NextmidType == \A i \in Ids : nextmid(i) \in Ids
  BY SomeIds DEF nextmid, Ids

\* readInt of a frame yields ids, also where it reads what the reply does not hold.
LEMMA ReadIntType == \A bytes : (Len(bytes) < 2 \/ bytes \in Bytes) => readInt(bytes) \subseteq Ids
  <1> SUFFICES ASSUME NEW bytes, Len(bytes) < 2 \/ bytes \in Bytes
               PROVE  readInt(bytes) \subseteq Ids
    OBVIOUS
  <1>1. CASE Len(bytes) >= 2 /\ bytes \in Bytes
    <2>1. bytes[1] \in Nat /\ bytes[2] \in Nat
      BY <1>1 DEF Bytes
    <2> DEFINE n == 256 * bytes[1] + bytes[2]
    <2>2. n \in Nat
      BY <2>1
    <2> HIDE DEF n
    <2>3. n % IdCount \in Ids
      BY <2>2, SomeIds DEF Ids
    <2> QED
      BY <1>1, <2>3 DEF readInt, n
  <1>2. CASE ~(Len(bytes) >= 2)
    BY <1>2 DEF readInt
  <1>3. CASE Len(bytes) >= 2 /\ bytes \notin Bytes
    BY <1>3
  <1> QED
    BY <1>1, <1>2, <1>3

\* What follows the topic of a published frame is bytes.
LEMMA AfterStringType == \A bytes \in Bytes : AfterString(bytes) \in Bytes
  <1> SUFFICES ASSUME NEW bytes \in Bytes PROVE AfterString(bytes) \in Bytes
    OBVIOUS
  <1>1. CASE Len(bytes) < 2
    BY <1>1 DEF AfterString, Bytes
  <1>2. CASE ~(Len(bytes) < 2)
    <2>1. bytes[1] \in Nat /\ bytes[2] \in Nat /\ Len(bytes) \in Nat
      BY <1>2 DEF Bytes
    <2> DEFINE m == 3 + 256 * bytes[1] + bytes[2]
    <2>2. m \in Nat /\ m >= 1
      BY <2>1
    <2>3. AfterString(bytes) = SubSeq(bytes, m, Len(bytes))
      BY <1>2 DEF AfterString
    <2> HIDE DEF m
    <2>4. SubSeq(bytes, m, Len(bytes)) \in Seq(Nat)
      BY <2>1, <2>2 DEF Bytes
    <2> QED
      BY <2>3, <2>4 DEF Bytes
  <1> QED
    BY <1>1, <1>2

\* What the client sends is written behind what it has sent.
LEMMA WrittenType ==
    ASSUME Types, NEW more \in Seq(Sent)
    PROVE  /\ Written(more) \in Seq(Sent)
           /\ sock # "up" => Written(more) = toBroker
  BY DEF Types, Written

\* midToMessage with a message remembered under an id.
LEMMA RememberType ==
    ASSUME Types, NEW id \in Ids, NEW m \in 1..MaxMessages
    PROVE  LET map == Remember(midToMessage, id, m)
           IN  /\ DOMAIN map = DOMAIN midToMessage \cup {id}
               /\ map = [i \in DOMAIN map |-> map[i]]
               /\ \A i \in DOMAIN map : map[i] \in 1..MaxMessages
               /\ map[id] = m
               /\ \A i \in DOMAIN midToMessage : i # id => map[i] = midToMessage[i]
  BY DEF Types, TypeOK, Remember

\* midToMessage with an id forgotten.
LEMMA ForgetType ==
    ASSUME Types, NEW id
    PROVE  LET map == Forget(midToMessage, id)
           IN  /\ DOMAIN map = DOMAIN midToMessage \ {id}
               /\ map = [i \in DOMAIN map |-> map[i]]
               /\ \A i \in DOMAIN map : map[i] = midToMessage[i]
  BY DEF Types, TypeOK, Forget

\* The variables that a received frame may change keep their types.
IdTypes ==
    /\ gmid \in Ids
    /\ DOMAIN midToMessage \subseteq Ids
    /\ \A i \in DOMAIN midToMessage : midToMessage[i] \in 1..MaxMessages
    /\ midToTopic \subseteq Ids
    /\ midToMessage = [i \in DOMAIN midToMessage |-> midToMessage[i]]
    /\ count \in 0..MaxMessages
    /\ toBroker \in Seq(Sent)

\* The subscription and the version report that answer a CONNACK are typed.
LEMMA ConnackTypes ==
    ASSUME Types, handleConnack
    PROVE  IdTypes'
  <1>1. PICK version \in BOOLEAN :
          LET publishes == version /\ count < MaxMessages
              id2 == nextmid(gmid)
              subscribe == [type |-> SUBSCRIBE, id |-> gmid, msg |-> NoMessage]
              publish == [type |-> PUBLISH, id |-> id2, msg |-> count + 1]
          IN  /\ midToTopic' = midToTopic \cup {gmid}
              /\ gmid' = IF publishes THEN nextmid(id2) ELSE id2
              /\ toBroker' = Written(IF publishes THEN <<subscribe, publish>> ELSE <<subscribe>>)
              /\ midToMessage' = IF publishes THEN Remember(midToMessage, id2, count + 1)
                                 ELSE midToMessage
              /\ count' = IF publishes THEN count + 1 ELSE count
    BY DEF handleConnack
  <1> DEFINE publishes == version /\ count < MaxMessages
             id2 == nextmid(gmid)
             subscribe == [type |-> SUBSCRIBE, id |-> gmid, msg |-> NoMessage]
             publish == [type |-> PUBLISH, id |-> id2, msg |-> count + 1]
  <1>2. gmid \in Ids /\ id2 \in Ids /\ nextmid(id2) \in Ids /\ count \in 0..MaxMessages /\ MaxMessages \in Nat
    BY NextmidType, Bounds DEF Types, TypeOK
  <1>3. subscribe \in Sent
    BY <1>2 DEF Sent, SUBSCRIBE, NoMessage
  <1>4. publishes => publish \in Sent /\ count + 1 \in 1..MaxMessages
    BY <1>2 DEF Sent, PUBLISH
  <1>5. CASE publishes
    <2>1. <<subscribe, publish>> \in Seq(Sent)
      <3> HIDE DEF subscribe, publish
      <3> QED
        BY <1>3, <1>4, <1>5
    <2>2. toBroker' \in Seq(Sent)
      BY <1>1, <1>5, <2>1, WrittenType
    <2>3. midToMessage' = Remember(midToMessage, id2, count + 1)
      BY <1>1, <1>5
    <2>4. /\ DOMAIN midToMessage' = DOMAIN midToMessage \cup {id2}
          /\ midToMessage' = [i \in DOMAIN midToMessage' |-> midToMessage'[i]]
          /\ \A i \in DOMAIN midToMessage' : midToMessage'[i] \in 1..MaxMessages
      <3>1. count + 1 \in 1..MaxMessages
        BY <1>4, <1>5
      <3> DEFINE m == count + 1
      <3> HIDE DEF id2, m, publishes
      <3>2. LET map == Remember(midToMessage, id2, m)
            IN  /\ DOMAIN map = DOMAIN midToMessage \cup {id2}
                /\ map = [i \in DOMAIN map |-> map[i]]
                /\ \A i \in DOMAIN map : map[i] \in 1..MaxMessages
        BY <1>2, <3>1, RememberType DEF m
      <3>3. midToMessage' = Remember(midToMessage, id2, m)
        BY <2>3 DEF m
      <3> QED
        BY <3>2, <3>3
    <2>5. gmid' = nextmid(id2) /\ count' = count + 1 /\ midToTopic' = midToTopic \cup {gmid}
      BY <1>1, <1>5
    <2> QED
      BY <1>2, <1>4, <1>5, <2>2, <2>4, <2>5 DEF IdTypes, Types, TypeOK
  <1>6. CASE ~publishes
    <2>1. <<subscribe>> \in Seq(Sent)
      <3> HIDE DEF subscribe
      <3> QED
        BY <1>3
    <2>2. toBroker' \in Seq(Sent)
      BY <1>1, <1>6, <2>1, WrittenType
    <2>3. midToMessage' = midToMessage /\ gmid' = id2 /\ count' = count /\ midToTopic' = midToTopic \cup {gmid}
      BY <1>1, <1>6
    <2> QED
      BY <1>2, <2>2, <2>3 DEF IdTypes, Types, TypeOK
  <1> QED
    BY <1>5, <1>6

\* An acknowledgement that is written is a typed frame.
LEMMA PubackTypes ==
    ASSUME Types, NEW type \in Nat, NEW id \in Ids
    PROVE  /\ <<Puback(type, id)>> \in Seq(Sent)
           /\ Written(<<Puback(type, id)>>) \in Seq(Sent)
  <1>1. Puback(type, id) \in Sent
    BY Bounds DEF Puback, Sent, NoMessage
  <1>2. <<Puback(type, id)>> \in Seq(Sent)
    BY <1>1
  <1> QED
    BY <1>2, WrittenType

\* Handling a published frame keeps the types.
LEMMA PublishedTypes ==
    ASSUME Types, NEW frame \in Frame, handlePublish(frame)
    PROVE  IdTypes'
  <1>1. toBroker' \in Seq(Sent)
    <2>1. CASE UNCHANGED toBroker
      BY <2>1 DEF Types
    <2>2. CASE \E type \in {PUBACK, PUBREC} : \E id \in readInt(AfterString(frame.data)) :
                 toBroker' = Written(<<Puback(type, id)>>)
      <3>1. frame.data \in Bytes
        BY DEF Frame
      <3>2. readInt(AfterString(frame.data)) \subseteq Ids
        BY <3>1, AfterStringType, ReadIntType
      <3>3. PUBACK \in Nat /\ PUBREC \in Nat
        BY DEF PUBACK, PUBREC
      <3> QED
        BY <2>2, <3>2, <3>3, PubackTypes
    <2> QED
      BY <2>1, <2>2 DEF handlePublish
  <1>2. UNCHANGED <<ids, count>>
    BY DEF handlePublish
  <1> QED
    BY <1>1, <1>2 DEF IdTypes, Types, TypeOK, ids

\* Handling an acknowledgement keeps the types.
LEMMA AcknowledgedTypes ==
    ASSUME Types, NEW type \in Nat, NEW id \in Ids, handlePuback(type, id)
    PROVE  IdTypes'
  <1>1. CASE type \in {PUBACK, PUBCOMP}
    <2>1. midToMessage' = Forget(midToMessage, id) /\ UNCHANGED <<toBroker, gmid, midToTopic, count>>
      BY <1>1 DEF handlePuback
    <2>2. /\ DOMAIN midToMessage' = DOMAIN midToMessage \ {id}
          /\ midToMessage' = [i \in DOMAIN midToMessage' |-> midToMessage'[i]]
          /\ \A i \in DOMAIN midToMessage' : midToMessage'[i] = midToMessage[i]
      BY <2>1, ForgetType
    <2> QED
      BY <2>1, <2>2 DEF IdTypes, Types, TypeOK
  <1>2. CASE type \notin {PUBACK, PUBCOMP}
    <2>1. /\ toBroker' = Written(<<Puback(IF type = PUBREC THEN PUBREL ELSE PUBCOMP, id)>>)
          /\ UNCHANGED <<midToMessage, gmid, midToTopic, count>>
      BY <1>2 DEF handlePuback
    <2>2. (IF type = PUBREC THEN PUBREL ELSE PUBCOMP) \in Nat
      BY DEF PUBREC, PUBREL, PUBCOMP
    <2>3. toBroker' \in Seq(Sent)
      BY <2>1, <2>2, PubackTypes
    <2> QED
      BY <2>1, <2>3 DEF IdTypes, Types, TypeOK
  <1> QED
    BY <1>1, <1>2

\* Handling any frame keeps the types.
LEMMA ReceivedTypes ==
    ASSUME Types, NEW frame \in Frame, onNetworkReceived(frame)
    PROVE  IdTypes'
  <1> DEFINE type == frame.header \div 16
  <1>1. type \in Nat /\ frame.data \in Bytes
    <2>1. frame.header \in Nat
      BY DEF Frame
    <2> QED
      BY <2>1 DEF Frame
  <1>2. readInt(frame.data) \subseteq Ids
    BY <1>1, ReadIntType
  <1>3. CASE handleConnack
    BY <1>3, ConnackTypes
  <1>4. CASE handlePublish(frame)
    BY <1>4, PublishedTypes
  <1>5. CASE \E id \in readInt(frame.data) : handlePuback(type, id)
    <2> HIDE DEF type
    <2> QED
      BY <1>1, <1>2, <1>5, AcknowledgedTypes
  <1>6. CASE \E id \in Ids : midToTopic' = midToTopic \ {id} /\ UNCHANGED <<toBroker, gmid, midToMessage, count>>
    BY <1>6 DEF IdTypes, Types, TypeOK
  <1>7. CASE UNCHANGED <<toBroker, ids, count>>
    BY <1>7 DEF IdTypes, Types, TypeOK, ids
  <1>8. onNetworkReceived(frame) => \/ handleConnack
                                    \/ handlePublish(frame)
                                    \/ \E id \in readInt(frame.data) : handlePuback(type, id)
                                    \/ \E id \in readInt(frame.data) :
                                         midToTopic' = midToTopic \ {id} /\ UNCHANGED <<toBroker, gmid, midToMessage, count>>
                                    \/ UNCHANGED <<toBroker, ids, count>>
    BY DEF onNetworkReceived
  <1> QED
    BY <1>2, <1>3, <1>4, <1>5, <1>6, <1>7, <1>8

-----------------------------------------------------------------------------
(* The types are kept                                                      *)

\* Publishing keeps the types.
LEMMA PublishTypes == ASSUME Types, Quiet, Publish PROVE Types' /\ Quiet'
  <1> DEFINE frame == [type |-> PUBLISH, id |-> gmid, msg |-> count + 1]
  <1>1. /\ count + 1 \in 1..MaxMessages /\ gmid \in Ids /\ nextmid(gmid) \in Ids
    BY Bounds, NextmidType DEF Types, TypeOK, Publish
  <1>2. frame \in Sent
    BY <1>1, Bounds DEF Sent, PUBLISH
  <1>3. toBroker' = Written(<<frame>>)
    BY DEF Publish
  <1>4. toBroker' \in Seq(Sent) /\ (sock # "up" => toBroker' = toBroker)
    <2> HIDE DEF frame
    <2>1. <<frame>> \in Seq(Sent)
      BY <1>2
    <2> QED
      BY <1>3, <2>1, WrittenType
  <1> DEFINE m == count + 1
  <1>5. midToMessage' = Remember(midToMessage, gmid, m) /\ gmid' = nextmid(gmid) /\ count' = m
    BY DEF Publish
  <1> HIDE DEF m, frame
  <1>6. /\ DOMAIN midToMessage' = DOMAIN midToMessage \cup {gmid}
        /\ midToMessage' = [i \in DOMAIN midToMessage' |-> midToMessage'[i]]
        /\ \A i \in DOMAIN midToMessage' : midToMessage'[i] \in 1..MaxMessages
    <2>1. LET map == Remember(midToMessage, gmid, m)
          IN  /\ DOMAIN map = DOMAIN midToMessage \cup {gmid}
              /\ map = [i \in DOMAIN map |-> map[i]]
              /\ \A i \in DOMAIN map : map[i] \in 1..MaxMessages
      BY <1>1, RememberType DEF m
    <2> QED
      BY <1>5, <2>1
  <1>7. UNCHANGED <<sock, wire, parser, midToTopic, connects, commands, subscribed, history>>
    BY DEF Publish
  <1>8. m \in 0..MaxMessages
    BY <1>1 DEF m
  <1>9. TypeOK'
    BY <1>1, <1>4, <1>5, <1>6, <1>7 DEF Types, TypeOK, parser, Quiet
  <1> QED
    BY <1>4, <1>5, <1>6, <1>7, <1>8, <1>9 DEF Types, Quiet, parser, history, channel

\* A ping keeps the types.
LEMMA PingReqTypes == ASSUME Types, Quiet, PingReq PROVE Types' /\ Quiet'
  <1> DEFINE frame == [type |-> PINGREQ, id |-> 0, msg |-> NoMessage]
  <1>1. frame \in Sent
    BY SomeIds, Bounds DEF Sent, PINGREQ, NoMessage
  <1>2. toBroker' = Written(<<frame>>)
    BY DEF PingReq
  <1>3. toBroker' \in Seq(Sent)
    <2> HIDE DEF frame
    <2>1. <<frame>> \in Seq(Sent)
      BY <1>1
    <2> QED
      BY <1>2, <2>1, WrittenType
  <1>4. sock = "up" /\ UNCHANGED <<sock, wire, parser, ids, count, connects, subscribed, history>>
    BY DEF PingReq
  <1>5. TypeOK'
    BY <1>4 DEF Types, TypeOK, parser, ids
  <1> QED
    BY <1>3, <1>4, <1>5 DEF Types, Quiet, parser, ids, history, channel

\* connectToHost keeps the types, and leaves nothing on its way.
LEMMA ConnectToHostTypes == ASSUME Types, Quiet, ConnectToHost PROVE Types' /\ Quiet'
  <1>1. /\ readState' = "Header"
        /\ sock' = IF sock = "down" THEN "connecting" ELSE sock
        /\ UNCHANGED <<toBroker, wire, header, length, shift, data, ids, count>>
    BY DEF ConnectToHost
  <1>2. \/ sock = "up" /\ sound' = FALSE /\ queue' = << >>
        \/ UNCHANGED <<sound, queue>>
    BY DEF ConnectToHost
  <1>3. queue' \in Seq(Frame) /\ sound' \in BOOLEAN
    <2>1. << >> \in Seq(Frame) /\ queue \in Seq(Frame) /\ sound \in BOOLEAN
      BY DEF Types
    <2>2. CASE UNCHANGED <<sound, queue>>
      BY <2>1, <2>2
    <2>3. CASE sound' = FALSE /\ queue' = << >>
      BY <2>1, <2>3
    <2> QED
      BY <1>2, <2>2, <2>3
  <1>4. TypeOK'
    BY <1>1 DEF Types, TypeOK, ids
  <1>5. Types'
    BY <1>1, <1>3, <1>4 DEF Types, ids
  <1>6. Quiet'
    BY <1>1, <1>2 DEF Types, TypeOK, Quiet
  <1> QED
    BY <1>5, <1>6

\* The greeting keeps the types.
LEMMA NetworkConnectedTypes == ASSUME Types, Quiet, NetworkConnected PROVE Types' /\ Quiet'
  <1> DEFINE frame == [type |-> CONNECT, id |-> 0, msg |-> NoMessage]
  <1>1. frame \in Sent
    BY SomeIds, Bounds DEF Sent, CONNECT, NoMessage
  <1>2. toBroker' = <<frame>>
    BY DEF NetworkConnected
  <1>3. toBroker' \in Seq(Sent)
    <2> HIDE DEF frame
    <2> QED
      BY <1>1, <1>2
  <1>4. sock' = "up" /\ sound' = TRUE /\ UNCHANGED <<wire, parser, ids, count, queue>>
    BY DEF NetworkConnected
  <1>5. TypeOK'
    BY <1>4 DEF Types, TypeOK, parser, ids
  <1> QED
    BY <1>3, <1>4, <1>5 DEF Types, Quiet, parser, ids

\* A refused connection keeps the types.
LEMMA ConnectRefusedTypes == ASSUME Types, Quiet, ConnectRefused PROVE Types' /\ Quiet'
  <1>1. /\ sock = "connecting" /\ sock' = "down"
        /\ UNCHANGED <<toBroker, wire, parser, ids, count, queue, sound>>
    BY DEF ConnectRefused, bounds, history, channel
  <1> QED
    BY <1>1 DEF Types, TypeOK, Quiet, parser, ids

\* A lost connection keeps the types, and leaves nothing on its way.
LEMMA NetworkDisconnectedTypes == ASSUME Types, Quiet, NetworkDisconnected PROVE Types' /\ Quiet'
  <1>1. /\ sock' = "down"
        /\ toBroker' = << >> /\ wire' = << >>
        /\ midToMessage' = << >> /\ midToTopic' = {}
        /\ queue' = << >> /\ sound' = TRUE
        /\ UNCHANGED <<parser, gmid, count>>
    BY DEF NetworkDisconnected, bounds
  <1>2. DOMAIN midToMessage' = {} /\ midToMessage' = [i \in DOMAIN midToMessage' |-> midToMessage'[i]]
    BY <1>1
  <1>3. wire' \in Bytes
    BY <1>1 DEF Bytes
  <1>4. toBroker' \in Seq(Sent) /\ queue' \in Seq(Frame)
    BY <1>1
  <1>5. TypeOK'
    BY <1>1, <1>2 DEF Types, TypeOK, parser
  <1> QED
    BY <1>1, <1>2, <1>3, <1>4, <1>5 DEF Types, Quiet, parser

\* What the broker writes is a frame.
LEMMA BrokerFrameType ==
    \A type \in Nat, bytes \in Bytes :
      /\ BrokerFrame(type, bytes) \in Frame
      /\ BrokerFrame(type, bytes).header = 16 * type
      /\ BrokerFrame(type, bytes).data = bytes
  BY DEF BrokerFrame, Frame

\* The answer to each kind of frame.
LEMMA AnswerIs ==
    ASSUME NEW frame
    PROVE  /\ frame.type = CONNECT => Answer(frame) = <<BrokerFrame(CONNACK, <<0, 0>>)>>
           /\ frame.type = PUBLISH => Answer(frame) = <<BrokerFrame(PUBACK, writeInt(frame.id))>>
           /\ frame.type = SUBSCRIBE =>
                Answer(frame) = <<BrokerFrame(SUBACK, writeInt(frame.id) \o <<0>>)>>
           /\ frame.type = PINGREQ => Answer(frame) = <<BrokerFrame(PINGRESP, << >>)>>
           /\ frame.type \notin {CONNECT, PUBLISH, SUBSCRIBE, PINGREQ} => Answer(frame) = << >>
  <1> DEFINE a == <<BrokerFrame(CONNACK, <<0, 0>>)>>
             b == <<BrokerFrame(PUBACK, writeInt(frame.id))>>
             c == <<BrokerFrame(SUBACK, writeInt(frame.id) \o <<0>>)>>
             d == <<BrokerFrame(PINGRESP, << >>)>>
             t == frame.type
  <1>1. Answer(frame) = CASE t = CONNECT -> a [] t = PUBLISH -> b [] t = SUBSCRIBE -> c
                          [] t = PINGREQ -> d [] OTHER -> << >>
    BY DEF Answer
  <1> HIDE DEF a, b, c, d, t
  <1>2. /\ t = CONNECT => Answer(frame) = a
        /\ t = PUBLISH => Answer(frame) = b
        /\ t = SUBSCRIBE => Answer(frame) = c
        /\ t = PINGREQ => Answer(frame) = d
        /\ t \notin {CONNECT, PUBLISH, SUBSCRIBE, PINGREQ} => Answer(frame) = << >>
    BY <1>1 DEF CONNECT, PUBLISH, SUBSCRIBE, PINGREQ
  <1> QED
    BY <1>2 DEF a, b, c, d, t

\* The broker answers with one typed frame or with none.
LEMMA AnswerType ==
    ASSUME NEW frame \in Sent
    PROVE  /\ Answer(frame) = << >> \/ Answer(frame) = <<Answer(frame)[1]>>
           /\ Answer(frame) # << >> => Answer(frame)[1] \in Frame
  <1>1. frame.id \in Nat
    BY SomeIds DEF Sent
  <1>2. frame.id \div 256 \in Nat /\ frame.id % 256 \in Nat
    BY <1>1
  <1>3. writeInt(frame.id) \in Bytes /\ writeInt(frame.id) \o <<0>> \in Bytes
    <2> DEFINE hi == frame.id \div 256
               lo == frame.id % 256
    <2> HIDE DEF hi, lo
    <2>1. writeInt(frame.id) = <<hi, lo>>
      BY DEF writeInt, hi, lo
    <2> QED
      BY <1>2, <2>1 DEF Bytes, hi, lo
  <1>4. <<0, 0>> \in Bytes /\ << >> \in Bytes
    BY DEF Bytes
  <1>5. CONNACK \in Nat /\ PUBACK \in Nat /\ SUBACK \in Nat /\ PINGRESP \in Nat
    BY DEF CONNACK, PUBACK, SUBACK, PINGRESP
  <1> DEFINE One(s) == \E f \in Frame : s = <<f>>
  <1>6. \A type \in Nat, bytes \in Bytes : One(<<BrokerFrame(type, bytes)>>)
    BY BrokerFrameType
  <1>7. \A s : One(s) => s = <<s[1]>> /\ s[1] \in Frame
    <2> SUFFICES ASSUME NEW s, NEW f \in Frame, s = <<f>> PROVE s = <<s[1]>> /\ s[1] \in Frame
      OBVIOUS
    <2> QED
      OBVIOUS
  <1> HIDE DEF One
  <1>8. One(Answer(frame)) \/ Answer(frame) = << >>
    BY <1>3, <1>4, <1>5, <1>6, AnswerIs
  <1> QED
    BY <1>7, <1>8

\* A frame that the broker writes goes behind the bytes and the frames under way.
LEMMA BrokerWritesType ==
    ASSUME Types, NEW f \in Frame, BrokerWrites(f)
    PROVE  wire' \in Bytes /\ queue' \in Seq(Frame) /\ (~sound => queue' = queue)
  <1> DEFINE w == write(f)
  <1>1. w \in Bytes /\ wire \in Bytes
    BY WriteIs DEF Types
  <1>2. wire' = wire \o w
    BY DEF BrokerWrites
  <1> HIDE DEF w
  <1>3. wire' \in Bytes
    BY <1>1, <1>2 DEF Bytes
  <1>4. queue' = IF sound THEN Append(queue, f) ELSE queue
    BY DEF BrokerWrites
  <1>5. queue' \in Seq(Frame)
    BY <1>4 DEF Types
  <1> QED
    BY <1>3, <1>4, <1>5

\* A connection has something under way only while it is up.
LEMMA SomethingUp ==
    ASSUME Types, Quiet, toBroker # << >> \/ wire # << >>
    PROVE  sock = "up"
  BY DEF Quiet

\* An answer of the broker keeps the types.
LEMMA BrokerAnswersTypes == ASSUME Types, Quiet, BrokerAnswers PROVE Types' /\ Quiet'
  <1> DEFINE frame == Head(toBroker)
             answer == Answer(frame)
  <1>1. /\ toBroker # << >>
        /\ IF answer # << >> THEN BrokerWrites(answer[1]) ELSE UNCHANGED <<wire, queue>>
        /\ toBroker' = Tail(toBroker)
        /\ UNCHANGED <<sock, parser, ids, bounds, emitted, last, sound>>
    BY DEF BrokerAnswers
  <1>2. frame \in Sent /\ toBroker' \in Seq(Sent) /\ sock = "up"
    BY <1>1, SomethingUp DEF Types
  <1>3. wire' \in Bytes /\ queue' \in Seq(Frame) /\ (~sound => queue' = queue)
    <2>1. CASE answer # << >>
      <3>1. answer[1] \in Frame
        BY <1>2, <2>1, AnswerType
      <3> QED
        BY <1>1, <2>1, <3>1, BrokerWritesType
    <2>2. CASE answer = << >>
      BY <1>1, <2>2 DEF Types
    <2> QED
      BY <2>1, <2>2
  <1>4. TypeOK'
    BY <1>1, <1>2 DEF Types, TypeOK, parser, ids
  <1> QED
    BY <1>1, <1>2, <1>3, <1>4 DEF Types, Quiet, parser, ids, bounds

\* The command that the broker publishes is a frame.
LEMMA CommandType == BrokerFrame(PUBLISH, <<0, 1, 116, 49>>) \in Frame
  <1>1. <<0, 1, 116, 49>> \in Bytes /\ PUBLISH \in Nat
    BY DEF Bytes, PUBLISH
  <1> QED
    BY <1>1, BrokerFrameType

\* A command of the broker keeps the types.
LEMMA BrokerCommandsTypes == ASSUME Types, Quiet, BrokerCommands PROVE Types' /\ Quiet'
  <1>1. /\ sock = "up"
        /\ BrokerWrites(BrokerFrame(PUBLISH, <<0, 1, 116, 49>>))
        /\ UNCHANGED <<sock, toBroker, parser, ids, count, sound>>
    BY DEF BrokerCommands
  <1>2. wire' \in Bytes /\ queue' \in Seq(Frame) /\ (~sound => queue' = queue)
    BY <1>1, CommandType, BrokerWritesType
  <1>3. TypeOK'
    BY <1>1 DEF Types, TypeOK, parser, ids
  <1> QED
    BY <1>1, <1>2, <1>3 DEF Types, Quiet, parser, ids

-----------------------------------------------------------------------------
(* What the parser has read of a frame                                     *)

\* The frame f has been begun and the bytes r of it are still to come: digits
\* of its length and its contents, or the rest of its contents.
Begun(r, f) ==
    /\ header = f.header
    /\ \/ /\ readState = "Length"
          /\ data = << >>
          /\ \E m \in Nat : r = encodeLength(m) \o f.data /\ length + m * shift = Len(f.data)
       \/ /\ readState = "PayLoad"
          /\ Len(r) = length
          /\ f.data = data \o r

\* The bytes under way are the frames under way, the first of which may have
\* been begun.
Parsing ==
    sock = "up" /\ sound =>
      \/ readState = "Header" /\ Frames(wire, queue)
      \/ /\ readState # "Header"
         /\ queue # << >>
         /\ \E r, v \in Bytes : /\ wire = r \o v
                                /\ Begun(r, Head(queue))
                                /\ Frames(v, Tail(queue))

\* Taking a byte from one end and adding it to the other.
LEMMA MoveByte ==
    ASSUME NEW s \in Bytes, NEW t \in Bytes, t # << >>
    PROVE  /\ Head(t) \in Nat /\ Tail(t) \in Bytes /\ Len(Tail(t)) = Len(t) - 1
           /\ Append(s, Head(t)) \in Bytes
           /\ s \o t = Append(s, Head(t)) \o Tail(t)
           /\ Len(t) = 1 => s \o t = Append(s, Head(t)) /\ Tail(t) = << >>
  <1> USE DEF Bytes
  <1> DEFINE h == Head(t)
             u == Tail(t)
  <1>1. h \in Nat /\ u \in Seq(Nat) /\ Len(u) = Len(t) - 1
    BY HeadTailProperties
  <1>2. h = t[1] /\ Len(t) \in Nat /\ \A i \in 1..Len(u) : u[i] = t[i + 1]
    BY HeadTailProperties
  <1> HIDE DEF h, u
  <1>3. <<h>> \in Seq(Nat) /\ Len(<<h>>) = 1 /\ <<h>>[1] = h
    BY <1>1
  <1>4. Append(s, h) = s \o <<h>> /\ Append(s, h) \in Seq(Nat)
    BY <1>1, AppendIsConcat, AppendProperties
  <1>5. (s \o <<h>>) \o u = s \o (<<h>> \o u)
    BY <1>1, <1>3, ConcatAssociative
  <1>6. s \o t = Append(s, h) \o u
    <2> DEFINE c == <<h>> \o u
    <2>1. /\ c \in Seq(Nat) /\ Len(c) = 1 + Len(u)
          /\ \A i \in 1..(1 + Len(u)) : c[i] = IF i <= 1 THEN h ELSE u[i - 1]
      BY <1>1, <1>3, ConcatProperties
    <2> HIDE DEF c
    <2>2. Len(c) = Len(t)
      BY <1>1, <1>2, <2>1
    <2>3. ASSUME NEW i \in 1..Len(t) PROVE t[i] = c[i]
      <3>1. CASE i = 1
        BY <1>2, <2>1, <2>2, <3>1
      <3>2. CASE i > 1
        <4>1. i - 1 \in 1..Len(u) /\ (i - 1) + 1 = i
          BY <1>1, <1>2, <3>2
        <4>2. u[i - 1] = t[i]
          BY <1>2, <4>1
        <4> QED
          BY <1>2, <2>1, <2>2, <3>2, <4>2
      <3> QED
        BY <1>2, <3>1, <3>2
    <2>4. t = c
      BY <2>1, <2>2, <2>3, SeqEqual
    <2> QED
      BY <1>4, <1>5, <2>4 DEF c
  <1>7. Len(t) = 1 => u = << >> /\ Append(s, h) \o u = Append(s, h)
    <2> SUFFICES ASSUME Len(t) = 1 PROVE u = << >> /\ Append(s, h) \o u = Append(s, h)
      OBVIOUS
    <2>1. u = << >>
      BY <1>1
    <2> QED
      BY <1>4, <2>1, ConcatEmptySeq
  <1> QED
    BY <1>1, <1>4, <1>6, <1>7 DEF h, u

\* The first byte of a frame is its header.
LEMMA HeaderRead ==
    ASSUME Types, Frames(wire, queue), wire # << >>
    PROVE  /\ queue # << >> /\ Head(queue) \in Frame
           /\ Head(wire) = Head(queue).header
           /\ \E v \in Bytes :
                /\ Tail(wire) = (encodeLength(Len(Head(queue).data)) \o Head(queue).data) \o v
                /\ Frames(v, Tail(queue))
  <1> DEFINE f == Head(queue)
             r == encodeLength(Len(f.data)) \o f.data
  <1>1. wire \in Bytes /\ queue \in Seq(Frame)
    BY DEF Types
  <1>2. queue # << >>
    BY <1>1, FramesNone
  <1>3. f \in Frame
    BY <1>1, <1>2
  <1>4. PICK v \in Bytes : wire = write(f) \o v /\ Frames(v, Tail(queue))
    BY <1>1, <1>2, FramesHead
  <1>5. write(f) = <<f.header>> \o r /\ r \in Bytes /\ f.header \in Nat /\ write(f) \in Bytes
    <2>1. f.header \in Nat
      BY <1>3 DEF Frame
    <2> QED
      BY <1>3, <2>1, WriteIs
  <1> HIDE DEF f, r
  <1>6. write(f) # << >> /\ Head(write(f)) = f.header /\ Tail(write(f)) = r
    BY <1>5, TakeByte
  <1>7. Head(wire) = f.header /\ Tail(wire) = r \o v
    BY <1>4, <1>5, <1>6, TakeFirst
  <1> QED
    BY <1>2, <1>3, <1>4, <1>7 DEF f, r

\* The bytes u start with the lowest digit of m; the other digits of m, the
\* contents d and the bytes v follow.
DigitFirst(byte, u, m, d, v) ==
    /\ byte = Head(u)
    /\ m < Base => /\ byte % Base = m /\ (byte \div Base) % 2 = 0
                   /\ Tail(u) = d \o v
    /\ Base <= m => /\ byte % Base = m % Base /\ (byte \div Base) % 2 = 1
                    /\ Tail(u) = (encodeLength(m \div Base) \o d) \o v

\* The first byte of the rest of a length.
LEMMA LengthRead ==
    ASSUME NEW m \in Nat, NEW d \in Bytes, NEW v \in Bytes,
           NEW r, r = encodeLength(m) \o d, NEW u, u = r \o v
    PROVE  \E byte \in Nat : DigitFirst(byte, u, m, d, v)
  <1> USE DEF DigitFirst
  <1>1. Base \in Nat /\ Base > 1
    BY SessionAssumption
  <1>2. encodeLength(m) \in Bytes /\ encodeLength(m) # << >>
    BY EncodeType
  <1>3. r \in Bytes /\ r # << >> /\ Head(r) = Head(encodeLength(m)) /\ Tail(r) = Tail(encodeLength(m)) \o d
    BY <1>2, TakeFirst
  <1>4. r \o v # << >> /\ Head(r \o v) = Head(r) /\ Tail(r \o v) = Tail(r) \o v
    BY <1>3, TakeFirst
  <1>5. ASSUME m < Base
        PROVE  /\ Head(r \o v) = m /\ m % Base = m /\ (m \div Base) % 2 = 0
               /\ Tail(r \o v) = d \o v
    <2>1. encodeLength(m) = <<m>>
      BY <1>5, EncodeDigit
    <2>2. Head(<<m>>) = m /\ Tail(<<m>>) = << >>
      OBVIOUS
    <2>3. << >> \o d = d
      BY DEF Bytes
    <2>4. m % Base = m /\ m \div Base = 0
      BY <1>5, LastDigit
    <2>5. (m \div Base) % 2 = 0
      BY <2>4
    <2> QED
      BY <1>3, <1>4, <2>1, <2>2, <2>3, <2>4, <2>5
  <1>6. ASSUME Base <= m
        PROVE  LET byte == Base + (m % Base)
               IN  /\ Head(r \o v) = byte /\ byte \in Nat
                   /\ byte % Base = m % Base /\ (byte \div Base) % 2 = 1
                   /\ Tail(r \o v) = (encodeLength(m \div Base) \o d) \o v
    <2> DEFINE q == m \div Base
               l == m % Base
               byte == Base + l
    <2>1. q \in Nat /\ l \in Nat /\ l < Base
      BY <1>6, Digit
    <2>2. encodeLength(m) = <<byte>> \o encodeLength(q)
      <3>1. ~(m < Base)
        BY <1>1, <1>6
      <3> QED
        BY <3>1, EncodeDigit
    <2> HIDE DEF q, l
    <2>3. encodeLength(q) \in Bytes /\ byte \in Nat
      BY <1>1, <2>1, EncodeType
    <2>4. byte % Base = l /\ byte \div Base = 1
      BY <2>1, MarkedDigit
    <2>5. (byte \div Base) % 2 = 1
      BY <2>4
    <2> HIDE DEF byte
    <2>6. Head(encodeLength(m)) = byte /\ Tail(encodeLength(m)) = encodeLength(q)
      BY <2>2, <2>3, TakeByte
    <2>7. Head(r \o v) = byte /\ Tail(r \o v) = (encodeLength(q) \o d) \o v
      BY <1>3, <1>4, <2>6
    <2> QED
      BY <2>3, <2>4, <2>5, <2>7 DEF byte, q, l
  <1>7. m < Base \/ Base <= m
    BY <1>1
  <1>8. CASE m < Base
    <2>1. ~(Base <= m)
      BY <1>1, <1>8
    <2> QED
      BY <1>5, <1>8, <2>1
  <1>9. CASE Base <= m
    <2>1. ~(m < Base)
      BY <1>1, <1>9
    <2>2. PICK byte \in Nat :
            /\ Head(r \o v) = byte
            /\ byte % Base = m % Base /\ (byte \div Base) % 2 = 1
            /\ Tail(r \o v) = (encodeLength(m \div Base) \o d) \o v
      BY <1>6, <1>9
    <2> QED
      BY <1>9, <2>1, <2>2
  <1> QED
    BY <1>7, <1>8, <1>9

-----------------------------------------------------------------------------
(* Reading a byte                                                          *)

\* The first byte on the wire and the bytes behind it.
LEMMA ByteIs ==
    ASSUME Types, wire # << >>
    PROVE  Head(wire) \in Nat /\ Tail(wire) \in Bytes
  <1>1. wire \in Seq(Nat)
    BY DEF Types, Bytes
  <1> QED
    BY <1>1, HeadTailProperties DEF Bytes

\* A frame is still incomplete.
LEMMA PartTypes ==
    ASSUME Types, Quiet, Read, NothingReceived,
           header' \in Nat, length' \in Nat, shift' \in Nat, data' \in Bytes,
           readState' \in {"Header", "Length", "PayLoad"},
           readState' = "PayLoad" => length' # 0
    PROVE  Types' /\ Quiet'
  <1>1. /\ sock = "up" /\ sock' = "up" /\ sound' = sound
        /\ wire # << >> /\ wire' = Tail(wire)
        /\ UNCHANGED <<toBroker, ids, count, queue>>
    BY DEF Read, NothingReceived
  <1>2. wire' \in Bytes
    BY <1>1, ByteIs
  <1>3. TypeOK'
    BY <1>1 DEF Types, TypeOK, ids
  <1>4. Types'
    BY <1>1, <1>2, <1>3 DEF Types, ids
  <1>5. Quiet'
    BY <1>1 DEF Quiet
  <1> QED
    BY <1>4, <1>5

\* A frame is complete.
LEMMA WholeTypes ==
    ASSUME Types, Quiet, Read, NEW f \in Frame, Received(f)
    PROVE  Types' /\ Quiet'
  <1>1. /\ sock = "up" /\ sock' = "up" /\ sound' = sound
        /\ wire # << >> /\ wire' = Tail(wire)
    BY DEF Read
  <1>2. /\ readState' = "Header" /\ header' = 0 /\ length' = 0 /\ shift' = 0 /\ data' = << >>
        /\ queue' = IF queue # << >> THEN Tail(queue) ELSE queue
        /\ onNetworkReceived(f)
    BY DEF Received
  <1>3. wire' \in Bytes
    BY <1>1, ByteIs
  <1>4. IdTypes'
    BY <1>2, ReceivedTypes
  <1>5. queue' \in Seq(Frame) /\ (queue = << >> => queue' = << >>)
    <2>1. queue \in Seq(Frame)
      BY DEF Types
    <2> QED
      BY <1>2, <2>1, HeadTailProperties
  <1>6. data' \in Bytes
    BY <1>2 DEF Bytes
  <1>7. TypeOK'
    BY <1>1, <1>2, <1>4 DEF TypeOK, IdTypes
  <1>8. Types'
    BY <1>1, <1>2, <1>3, <1>4, <1>5, <1>6, <1>7 DEF Types, IdTypes
  <1>9. Quiet'
    BY <1>1, <1>2, <1>5 DEF Quiet
  <1> QED
    BY <1>8, <1>9

\* What has been read of a frame is a frame.
LEMMA ReadFrame ==
    ASSUME Types, NEW d \in Bytes
    PROVE  [header |-> header, data |-> d] \in Frame
  BY DEF Types, Frame

\* The digit that a byte holds counts for its weight.
LEMMA DigitWeighed ==
    ASSUME Types, NEW byte \in Nat
    PROVE  /\ length + (byte % Base) * shift \in Nat
           /\ shift * Base \in Nat
  <1>1. Base \in Nat /\ Base > 1 /\ length \in Nat /\ shift \in Nat
    BY SessionAssumption DEF Types
  <1> DEFINE l == byte % Base
  <1>2. l \in Nat
    BY <1>1
  <1> HIDE DEF l
  <1>3. l * shift \in Nat /\ shift * Base \in Nat
    BY <1>1, <1>2
  <1> QED
    BY <1>1, <1>3 DEF l

\* Reading a byte keeps the types.
LEMMA ReadTypes == ASSUME Types, Quiet, Read PROVE Types' /\ Quiet'
  <1> DEFINE byte == Head(wire)
  <1>1. wire # << >> /\ (HeaderByte(byte) \/ LengthByte(byte) \/ PayLoadByte(byte))
    BY DEF Read
  <1>2. byte \in Nat
    BY <1>1, ByteIs
  <1> HIDE DEF byte
  <1>3. CASE HeaderByte(byte)
    <2>1. /\ readState' = "Length" /\ header' = byte /\ length' = 0 /\ shift' = 1 /\ data' = << >>
          /\ NothingReceived
      BY <1>3 DEF HeaderByte
    <2>2. data' \in Bytes
      BY <2>1 DEF Bytes
    <2> QED
      BY <1>2, <2>1, <2>2, PartTypes
  <1>4. CASE LengthByte(byte)
    <2> DEFINE read == length + (byte % Base) * shift
               more == (byte \div Base) % 2 = 1
               w == shift * Base
    <2>1. read \in Nat /\ w \in Nat
      BY <1>2, DigitWeighed
    <2>2. /\ readState = "Length"
          /\ IF ~more /\ read = 0
             THEN Received([header |-> header, data |-> data])
             ELSE /\ readState' = IF more THEN "Length" ELSE "PayLoad"
                  /\ length' = read
                  /\ shift' = w
                  /\ UNCHANGED <<header, data>>
                  /\ NothingReceived
      BY <1>4 DEF LengthByte
    <2> HIDE DEF read, more, w
    <2>3. CASE ~more /\ read = 0
      <3>1. [header |-> header, data |-> data] \in Frame
        BY ReadFrame DEF Types
      <3> QED
        BY <2>2, <2>3, <3>1, WholeTypes
    <2>4. CASE ~(~more /\ read = 0)
      <3>1. /\ readState' = (IF more THEN "Length" ELSE "PayLoad")
            /\ length' = read /\ shift' = w /\ header' = header /\ data' = data
            /\ NothingReceived
        BY <2>2, <2>4
      <3>2. header' \in Nat /\ data' \in Bytes
        BY <3>1 DEF Types
      <3> QED
        BY <2>1, <2>4, <3>1, <3>2, PartTypes
    <2> QED
      BY <2>3, <2>4
  <1>5. CASE PayLoadByte(byte)
    <2>1. Append(data, byte) \in Bytes
      BY <1>2, AppendProperties DEF Types, Bytes
    <2>2. length \in Nat /\ length # 0
      BY <1>5 DEF PayLoadByte, Types, Quiet
    <2>3. CASE length = 1
      <3>1. Received([header |-> header, data |-> Append(data, byte)])
        BY <1>5, <2>3 DEF PayLoadByte
      <3> QED
        BY <2>1, <3>1, ReadFrame, WholeTypes
    <2>4. CASE length # 1
      <3>1. /\ data' = Append(data, byte) /\ length' = length - 1
            /\ readState' = "PayLoad" /\ header' = header /\ shift' = shift
            /\ NothingReceived
        BY <1>5, <2>4 DEF PayLoadByte
      <3>2. length' \in Nat /\ length' # 0
        BY <2>2, <2>4, <3>1
      <3>3. header' \in Nat /\ shift' \in Nat /\ data' \in Bytes
        BY <2>1, <3>1 DEF Types
      <3> QED
        BY <3>1, <3>2, <3>3, PartTypes
    <2> QED
      BY <2>3, <2>4
  <1> QED
    BY <1>1, <1>3, <1>4, <1>5

\* A byte completes no frame, or the frame that comes next.
Outcome ==
    \/ NothingReceived
    \/ \E f \in Frame : /\ Received(f)
                        /\ sound => queue # << >> /\ f = Head(queue)

\* The parser in the middle of a frame.
LEMMA InFrame ==
    ASSUME NEW f, NEW r \in Bytes, NEW v \in Bytes,
           queue' # << >>, Head(queue') = f, wire' = r \o v, readState' # "Header",
           Begun(r, f)', Frames(v, Tail(queue'))
    PROVE  Parsing'
  BY DEF Parsing

\* The parser behind a frame.
LEMMA BehindFrame ==
    ASSUME NEW v \in Bytes, queue # << >>, wire' = v, Frames(v, Tail(queue)),
           NEW f, Received(f)
    PROVE  Parsing'
  <1>1. readState' = "Header" /\ queue' = Tail(queue)
    BY DEF Received
  <1> QED
    BY <1>1 DEF Parsing

\* The header byte begins the first of the frames under way.
LEMMA HeaderParses ==
    ASSUME Types, Quiet, Parsing, sound, Read, HeaderByte(Head(wire))
    PROVE  Parsing' /\ Outcome
  <1>1. /\ sock = "up" /\ wire # << >> /\ wire' = Tail(wire)
    BY DEF Read
  <1>2. /\ readState = "Header" /\ readState' = "Length" /\ header' = Head(wire)
        /\ length' = 0 /\ shift' = 1 /\ data' = << >>
        /\ NothingReceived /\ queue' = queue
    BY DEF HeaderByte, NothingReceived
  <1>3. Frames(wire, queue)
    BY <1>1, <1>2 DEF Parsing
  <1>4. PICK f \in Frame : f = Head(queue)
    BY <1>1, <1>3, HeaderRead
  <1>5. queue # << >> /\ Head(wire) = f.header
    BY <1>1, <1>3, <1>4, HeaderRead
  <1>6. PICK v \in Bytes : /\ Tail(wire) = (encodeLength(Len(f.data)) \o f.data) \o v
                           /\ Frames(v, Tail(queue))
    BY <1>1, <1>3, <1>4, HeaderRead
  <1>7. PICK r : r = encodeLength(Len(f.data)) \o f.data
    OBVIOUS
  <1>8. r \in Bytes
    BY <1>7, WriteIs
  <1>9. Begun(r, f)'
    <2>1. PICK m \in Nat : m = Len(f.data)
      BY DEF Frame, Bytes
    <2>2. 0 + m * 1 = m
      OBVIOUS
    <2>3. r = encodeLength(m) \o f.data /\ length' + m * shift' = Len(f.data)
      BY <1>2, <1>7, <2>1, <2>2
    <2> QED
      BY <1>2, <1>5, <2>3 DEF Begun
  <1>10. Parsing'
    BY <1>1, <1>2, <1>4, <1>5, <1>6, <1>7, <1>8, <1>9, InFrame
  <1> QED
    BY <1>2, <1>10 DEF Outcome

\* A length byte leaves the rest of the frame, or it is the whole of an empty one.
LEMMA LengthParses ==
    ASSUME Types, Quiet, Parsing, sound, Read, LengthByte(Head(wire))
    PROVE  Parsing' /\ Outcome
  <1>1. /\ sock = "up" /\ wire # << >> /\ wire' = Tail(wire) /\ readState = "Length"
    BY DEF Read, LengthByte
  <1>2. queue # << >> /\ queue \in Seq(Frame)
    BY <1>1 DEF Parsing, Types
  <1>3. PICK f \in Frame : f = Head(queue)
    BY <1>2, HeadTailProperties
  <1>4. PICK r \in Bytes, v \in Bytes :
          wire = r \o v /\ Begun(r, f) /\ Frames(v, Tail(queue))
    BY <1>1, <1>3 DEF Parsing
  <1>5. PICK m \in Nat : r = encodeLength(m) \o f.data /\ length + m * shift = Len(f.data)
    BY <1>1, <1>4 DEF Begun
  <1>6. f.header = header /\ data = << >>
    BY <1>1, <1>4 DEF Begun
  <1>7. f.header \in Nat /\ f.data \in Bytes /\ f = [header |-> f.header, data |-> f.data]
        /\ Len(f.data) \in Nat /\ << >> \o f.data = f.data
    BY DEF Frame, Bytes
  <1>8. Base \in Nat /\ Base > 1 /\ length \in Nat /\ shift \in Nat
    BY SessionAssumption DEF Types
  <1>9. PICK d \in Bytes : d = f.data
    BY <1>7
  <1>10. PICK byte \in Nat : DigitFirst(byte, wire, m, d, v)
    <2>1. r = encodeLength(m) \o d
      BY <1>5, <1>9
    <2> QED
      BY <1>4, <1>5, <1>9, <2>1, LengthRead
  <1>11. LengthByte(byte)
    BY <1>10 DEF DigitFirst
  <1> DEFINE read == length + (byte % Base) * shift
             more == (byte \div Base) % 2 = 1
  <1>12. IF ~more /\ read = 0
        THEN Received([header |-> header, data |-> data])
        ELSE /\ readState' = IF more THEN "Length" ELSE "PayLoad"
             /\ length' = read
             /\ shift' = shift * Base
             /\ UNCHANGED <<header, data>>
             /\ NothingReceived
    BY <1>11 DEF LengthByte
  <1>13. CASE m < Base
    <2>1. byte % Base = m /\ (byte \div Base) % 2 = 0 /\ wire' = f.data \o v
      BY <1>1, <1>9, <1>10, <1>13 DEF DigitFirst
    <2>2. ~more /\ read = Len(f.data)
      BY <1>5, <2>1
    <2>3. CASE read = 0
      <3>1. Received([header |-> header, data |-> data])
        BY <1>12, <2>2, <2>3
      <3>2. f.data = << >>
        BY <1>7, <2>2, <2>3 DEF Bytes
      <3>3. f = [header |-> header, data |-> data]
        BY <1>6, <1>7, <3>2
      <3>4. wire' = v
        BY <2>1, <3>2, ConcatEmptySeq DEF Bytes
      <3>5. Received(f)
        BY <3>1, <3>3
      <3>6. Parsing'
        BY <1>2, <1>4, <3>4, <3>5, BehindFrame
      <3>7. Outcome
        BY <1>2, <1>3, <3>5 DEF Outcome
      <3> QED
        BY <3>6, <3>7
    <2>4. CASE read # 0
      <3>1. /\ readState' = "PayLoad" /\ length' = Len(f.data)
            /\ header' = header /\ data' = data /\ NothingReceived
        BY <1>12, <2>2, <2>4
      <3>2. queue' = queue
        BY <3>1 DEF NothingReceived
      <3>3. Begun(f.data, f)'
        BY <1>6, <1>7, <3>1 DEF Begun
      <3>4. Parsing'
        BY <1>2, <1>3, <1>4, <1>7, <2>1, <3>1, <3>2, <3>3, InFrame
      <3> QED
        BY <3>1, <3>4 DEF Outcome
    <2> QED
      BY <2>3, <2>4
  <1>14. CASE Base <= m
    <2>1. PICK q \in Nat, l \in Nat : q = m \div Base /\ l = m % Base /\ m = q * Base + l
      BY <1>14, Digit
    <2>2. byte % Base = l /\ (byte \div Base) % 2 = 1
          /\ wire' = (encodeLength(q) \o f.data) \o v
      BY <1>1, <1>9, <1>10, <1>14, <2>1 DEF DigitFirst
    <2>3. more
      BY <2>2
    <2>4. /\ readState' = "Length" /\ length' = length + l * shift
          /\ shift' = shift * Base
          /\ header' = header /\ data' = data /\ NothingReceived
      BY <1>12, <2>2, <2>3
    <2>5. queue' = queue
      BY <2>4 DEF NothingReceived
    <2>6. PICK s \in Bytes : s = encodeLength(q) \o f.data
      BY <1>7, EncodeType, TakeFirst
    <2>7. length' + q * shift' = Len(f.data)
      <3>1. m * shift = q * (shift * Base) + l * shift
        <4>1. (q * Base + l) * shift = (q * Base) * shift + l * shift
          BY <1>8
        <4>2. (q * Base) * shift = q * (shift * Base)
          BY <1>8
        <4> QED
          BY <2>1, <4>1, <4>2
      <3> DEFINE a == m * shift
                 b == q * (shift * Base)
                 c == l * shift
      <3>2. a \in Nat /\ b \in Nat /\ c \in Nat
        BY <1>8
      <3> HIDE DEF a, b, c
      <3>3. length + a = Len(f.data) /\ a = b + c
        BY <1>5, <3>1 DEF a, b, c
      <3>4. (length + c) + b = Len(f.data)
        BY <1>8, <3>2, <3>3
      <3> QED
        BY <2>4, <3>4 DEF b, c
    <2>8. Begun(s, f)'
      BY <1>6, <2>4, <2>6, <2>7 DEF Begun
    <2>9. Parsing'
      BY <1>2, <1>3, <1>4, <2>2, <2>4, <2>5, <2>6, <2>8, InFrame
    <2> QED
      BY <2>4, <2>9 DEF Outcome
  <1> QED
    BY <1>8, <1>13, <1>14

\* A byte of the payload leaves the rest of the frame, or completes it.
LEMMA PayLoadParses ==
    ASSUME Types, Quiet, Parsing, sound, Read, PayLoadByte(Head(wire))
    PROVE  Parsing' /\ Outcome
  <1>1. /\ sock = "up" /\ wire # << >> /\ wire' = Tail(wire) /\ readState = "PayLoad"
    BY DEF Read, PayLoadByte
  <1>2. queue # << >> /\ queue \in Seq(Frame)
    BY <1>1 DEF Parsing, Types
  <1>3. PICK f \in Frame : f = Head(queue)
    BY <1>2, HeadTailProperties
  <1>4. PICK r \in Bytes, v \in Bytes :
          wire = r \o v /\ Begun(r, f) /\ Frames(v, Tail(queue))
    BY <1>1, <1>3 DEF Parsing
  <1>5. f.header = header /\ Len(r) = length /\ f.data = data \o r
    BY <1>1, <1>4 DEF Begun
  <1>6. f = [header |-> f.header, data |-> f.data] /\ data \in Bytes
    BY DEF Frame, Types
  <1>7. length \in Nat /\ length # 0 /\ r # << >>
    <2>1. length \in Nat /\ length # 0
      BY <1>1 DEF Types, Quiet
    <2> QED
      BY <1>5, <2>1
  <1>8. Head(wire) = Head(r) /\ wire' = Tail(r) \o v
    BY <1>1, <1>4, <1>7, TakeFirst
  <1>9. PICK a \in Bytes, t \in Bytes :
          /\ a = Append(data, Head(wire)) /\ t = Tail(r) /\ Len(t) = length - 1
          /\ f.data = a \o t
          /\ length = 1 => f.data = a /\ t = << >>
    <2>1. /\ Tail(r) \in Bytes /\ Len(Tail(r)) = Len(r) - 1
          /\ Append(data, Head(r)) \in Bytes
          /\ data \o r = Append(data, Head(r)) \o Tail(r)
          /\ Len(r) = 1 => data \o r = Append(data, Head(r)) /\ Tail(r) = << >>
      BY <1>6, <1>7, MoveByte
    <2> QED
      BY <1>5, <1>8, <2>1
  <1>10. CASE length = 1
    <2>1. Received([header |-> header, data |-> a])
      BY <1>9, <1>10 DEF PayLoadByte
    <2>2. Received(f)
      BY <1>5, <1>6, <1>9, <1>10, <2>1
    <2>3. wire' = v
      <3>1. << >> \o v = v
        BY ConcatEmptySeq DEF Bytes
      <3> QED
        BY <1>8, <1>9, <1>10, <3>1
    <2>4. Parsing'
      BY <1>2, <1>4, <2>2, <2>3, BehindFrame
    <2> QED
      BY <1>2, <1>3, <2>2, <2>4 DEF Outcome
  <1>11. CASE length # 1
    <2>1. /\ data' = a /\ length' = length - 1
          /\ readState' = "PayLoad" /\ header' = header
          /\ NothingReceived
      BY <1>1, <1>9, <1>11 DEF PayLoadByte
    <2>2. queue' = queue
      BY <2>1 DEF NothingReceived
    <2>3. Begun(t, f)'
      BY <1>5, <1>9, <2>1 DEF Begun
    <2>4. Parsing'
      BY <1>2, <1>3, <1>4, <1>8, <1>9, <2>1, <2>2, <2>3, InFrame
    <2> QED
      BY <2>1, <2>4 DEF Outcome
  <1> QED
    BY <1>10, <1>11

\* Reading a byte keeps the parser within the frame that is under way.
LEMMA ReadParses == ASSUME Types, Quiet, Parsing, Read PROVE Parsing' /\ Outcome
  <1> DEFINE byte == Head(wire)
  <1>1. wire # << >> /\ (HeaderByte(byte) \/ LengthByte(byte) \/ PayLoadByte(byte))
        /\ sound' = sound
    BY DEF Read
  <1>2. CASE sound
    BY <1>1, <1>2, HeaderParses, LengthParses, PayLoadParses
  <1>3. CASE ~sound
    <2>1. Parsing'
      BY <1>1, <1>3 DEF Parsing
    <2>2. byte \in Nat
      BY <1>1, ByteIs
    <2>3. Append(data, byte) \in Bytes /\ data \in Bytes
      <3> HIDE DEF byte
      <3> QED
        BY <2>2, AppendProperties DEF Types, Bytes
    <2>4. NothingReceived \/ \E f \in Frame : Received(f)
      <3> HIDE DEF byte
      <3>1. CASE HeaderByte(byte)
        BY <3>1 DEF HeaderByte
      <3>2. CASE LengthByte(byte)
        <4>1. NothingReceived \/ Received([header |-> header, data |-> data])
          BY <3>2 DEF LengthByte
        <4> QED
          BY <2>3, <4>1, ReadFrame
      <3>3. CASE PayLoadByte(byte)
        <4>1. NothingReceived \/ Received([header |-> header, data |-> Append(data, byte)])
          BY <3>3 DEF PayLoadByte
        <4> QED
          BY <2>3, <4>1, ReadFrame
      <3> QED
        BY <1>1, <3>1, <3>2, <3>3
    <2> QED
      BY <1>3, <2>1, <2>4 DEF Outcome
  <1> QED
    BY <1>2, <1>3

-----------------------------------------------------------------------------
(* The other steps                                                         *)

\* A frame that is written goes behind the rest of the begun one.
LEMMA WriteParses ==
    ASSUME Types, Parsing, NEW f \in Frame, BrokerWrites(f),
           UNCHANGED <<sock, sound, parser>>
    PROVE  Parsing'
  <1> SUFFICES ASSUME sock = "up", sound PROVE Parsing'
    BY DEF Parsing
  <1>1. /\ UNCHANGED <<sock, sound, readState, header, length, shift, data>>
        /\ wire' = wire \o write(f) /\ queue' = Append(queue, f)
        /\ queue \in Seq(Frame) /\ wire \in Bytes
    BY DEF BrokerWrites, Types, parser
  <1>2. CASE readState = "Header"
    <2>1. Frames(wire, queue)
      BY <1>2 DEF Parsing
    <2>2. Frames(wire', queue')
      BY <1>1, <2>1, FramesAppend
    <2> QED
      BY <1>1, <1>2, <2>2 DEF Parsing
  <1>3. CASE readState # "Header"
    <2>1. queue # << >>
      BY <1>3 DEF Parsing
    <2>2. PICK r \in Bytes, v \in Bytes :
            wire = r \o v /\ Begun(r, Head(queue)) /\ Frames(v, Tail(queue))
      BY <1>3 DEF Parsing
    <2>3. PICK g \in Frame, q \in Seq(Frame) : g = Head(queue) /\ q = Tail(queue)
      BY <1>1, <2>1, HeadTailProperties
    <2>4. queue' # << >> /\ Head(queue') = g /\ Tail(queue') = Append(q, f)
      <3>1. queue' # << >>
        BY <1>1, AppendProperties
      <3>2. Head(queue') = g /\ Tail(queue') = Append(q, f)
        BY <1>1, <2>1, <2>3, HeadTailAppend
      <3> QED
        BY <3>1, <3>2
    <2>5. Frames(v \o write(f), Append(q, f)) /\ v \o write(f) \in Bytes
      BY <2>2, <2>3, FramesAppend
    <2>6. wire' = r \o (v \o write(f))
      <3>1. write(f) \in Bytes
        BY WriteIs
      <3> QED
        BY <1>1, <2>2, <3>1, ConcatAssociative DEF Bytes
    <2>7. Begun(r, g)'
      BY <1>1, <2>2, <2>3 DEF Begun
    <2>8. PICK u \in Bytes : u = v \o write(f)
      BY <2>5
    <2> QED
      BY <1>1, <1>3, <2>4, <2>5, <2>6, <2>7, <2>8, InFrame
  <1> QED
    BY <1>2, <1>3

\* connectToHost leaves no bytes, or a stream that counts as unsound.
LEMMA ConnectToHostParses == ASSUME Types, Quiet, Parsing, ConnectToHost PROVE Parsing'
  <1>1. /\ readState' = "Header"
        /\ sock' = IF sock = "down" THEN "connecting" ELSE sock
        /\ wire' = wire
        /\ IF sock = "up" /\ readState # "Header" THEN sound' = FALSE /\ queue' = << >>
           ELSE UNCHANGED <<sound, queue>>
    BY DEF ConnectToHost
  <1>2. CASE sock = "up" /\ readState = "Header"
    <2>1. sock' = "up" /\ UNCHANGED <<sound, queue>>
      BY <1>1, <1>2
    <2>2. sound => Frames(wire, queue)
      BY <1>2 DEF Parsing
    <2> QED
      BY <1>1, <2>1, <2>2 DEF Parsing
  <1>3. CASE sock = "up" /\ readState # "Header"
    BY <1>1, <1>3 DEF Parsing
  <1>4. CASE sock # "up"
    BY <1>1, <1>4 DEF Parsing
  <1> QED
    BY <1>2, <1>3, <1>4

\* A fresh connection begins with no byte on the wire.
LEMMA NetworkConnectedParses == ASSUME Types, Quiet, NetworkConnected PROVE Parsing'
  <1>1. wire = << >> /\ queue = << >> /\ readState = "Header"
    BY DEF NetworkConnected, Quiet
  <1>2. wire' = wire /\ queue' = queue /\ readState' = readState
    BY DEF NetworkConnected, parser
  <1> QED
    BY <1>1, <1>2, FramesNone DEF Parsing

\* The invariant behind the refinement.
Linked == Types /\ Quiet /\ Parsing

\* The invariant holds before the first connection.
LEMMA InitLinked == Init => Linked
  <1>1. Init => Parsing
    BY DEF Init, Parsing
  <1> QED
    BY <1>1, InitTypes DEF Linked

\* What the client sees of its channel in a step.
ChannelStep == [Channel!Next]_(Channel!channelVars)

\* A frame that the broker writes is sent on the abstract channel.
LEMMA WriteSends ==
    ASSUME Types, NEW f \in Frame, BrokerWrites(f), UNCHANGED <<last, sound>>
    PROVE  ChannelStep
  <1>1. queue \in Seq(Frame)
    BY DEF Types
  <1>2. CASE sound
    <2>1. queue' = Append(queue, f)
      BY <1>2 DEF BrokerWrites
    <2>2. Len(queue') = Len(queue) + 1 /\ SubSeq(queue', 1, Len(queue)) = queue
      BY <1>1, <2>1
    <2>3. Channel!Send
      BY <1>2, <2>2 DEF Channel!Send
    <2> QED
      BY <2>3 DEF ChannelStep, Channel!Next
  <1>3. CASE ~sound
    BY <1>3 DEF BrokerWrites, ChannelStep, Channel!channelVars
  <1> QED
    BY <1>2, <1>3

\* A byte that is read delivers the head of the abstract channel, or nothing.
LEMMA ReadDelivers ==
    ASSUME Types, Quiet, Outcome, UNCHANGED sound
    PROVE  ChannelStep
  <1>1. CASE NothingReceived
    BY <1>1 DEF NothingReceived, ChannelStep, Channel!channelVars
  <1>2. ASSUME NEW f \in Frame, Received(f), sound => queue # << >> /\ f = Head(queue)
        PROVE  ChannelStep
    <2>1. last' = f /\ queue' = IF queue # << >> THEN Tail(queue) ELSE queue
      BY <1>2 DEF Received
    <2>2. CASE sound
      <3>1. Channel!Deliver
        BY <1>2, <2>1, <2>2 DEF Channel!Deliver
      <3> QED
        BY <3>1 DEF ChannelStep, Channel!Next
    <2>3. CASE ~sound
      <3>1. queue = << >>
        BY <2>3 DEF Quiet
      <3>2. Channel!Garble
        BY <2>1, <2>3, <3>1 DEF Channel!Garble
      <3> QED
        BY <3>2 DEF ChannelStep, Channel!Next
    <2> QED
      BY <2>2, <2>3
  <1> QED
    BY <1>1, <1>2 DEF Outcome

\* A step of the program keeps the invariant and is a step of the channel.
LEMMA NextLinked ==
    ASSUME Linked, [Next]_vars
    PROVE  Linked' /\ ChannelStep
  <1> USE DEF Linked
  <1>1. CASE Publish
    <2>1. UNCHANGED <<sock, wire, parser, queue, last, sound>>
      BY <1>1 DEF Publish, history, channel
    <2>2. Parsing' /\ ChannelStep
      BY <2>1 DEF Parsing, Begun, parser, ChannelStep, Channel!channelVars
    <2> QED
      BY <1>1, <2>2, PublishTypes
  <1>2. CASE PingReq
    <2>1. UNCHANGED <<sock, wire, parser, queue, last, sound>>
      BY <1>2 DEF PingReq, history, channel
    <2>2. Parsing' /\ ChannelStep
      BY <2>1 DEF Parsing, Begun, parser, ChannelStep, Channel!channelVars
    <2> QED
      BY <1>2, <2>2, PingReqTypes
  <1>3. CASE ConnectToHost
    <2>1. last' = last /\ ((sound' = FALSE /\ queue' = << >>) \/ UNCHANGED <<sound, queue>>)
      BY <1>3 DEF ConnectToHost
    <2>2. CASE sound' = FALSE /\ queue' = << >>
      <3>1. Channel!LoseBorders
        BY <2>1, <2>2 DEF Channel!LoseBorders
      <3> QED
        BY <1>3, <3>1, ConnectToHostTypes, ConnectToHostParses DEF ChannelStep, Channel!Next
    <2>3. CASE UNCHANGED <<sound, queue>>
      <3>1. ChannelStep
        BY <2>1, <2>3 DEF ChannelStep, Channel!channelVars
      <3> QED
        BY <1>3, <3>1, ConnectToHostTypes, ConnectToHostParses
    <2> QED
      BY <2>1, <2>2, <2>3
  <1>4. CASE NetworkConnected
    <2>1. queue = << >>
      BY <1>4 DEF NetworkConnected, Quiet
    <2>2. queue' = queue /\ last' = last /\ sound' = TRUE
      BY <1>4 DEF NetworkConnected
    <2>3. Channel!Restart
      BY <2>1, <2>2 DEF Channel!Restart
    <2> QED
      BY <1>4, <2>3, NetworkConnectedTypes, NetworkConnectedParses DEF ChannelStep, Channel!Next
  <1>5. CASE ConnectRefused
    <2>1. sock' = "down" /\ UNCHANGED <<queue, last, sound>>
      BY <1>5 DEF ConnectRefused, history, channel
    <2>2. Parsing' /\ ChannelStep
      BY <2>1 DEF Parsing, ChannelStep, Channel!channelVars
    <2> QED
      BY <1>5, <2>2, ConnectRefusedTypes
  <1>6. CASE NetworkDisconnected
    <2>1. sock' = "down" /\ queue' = << >> /\ sound' = TRUE /\ last' = last
      BY <1>6 DEF NetworkDisconnected
    <2>2. Parsing' /\ Channel!Restart
      BY <2>1 DEF Parsing, Channel!Restart
    <2> QED
      BY <1>6, <2>2, NetworkDisconnectedTypes DEF ChannelStep, Channel!Next
  <1>7. CASE BrokerAnswers
    <2> DEFINE frame == Head(toBroker)
               answer == Answer(frame)
    <2>1. /\ toBroker # << >>
          /\ IF answer # << >> THEN BrokerWrites(answer[1]) ELSE UNCHANGED <<wire, queue>>
          /\ UNCHANGED <<sock, parser, last, sound>>
      BY <1>7 DEF BrokerAnswers
    <2>2. frame \in Sent
      BY <2>1, HeadTailProperties DEF Types
    <2>3. CASE answer # << >>
      <3>1. answer[1] \in Frame
        BY <2>2, <2>3, AnswerType
      <3> QED
        BY <1>7, <2>1, <2>3, <3>1, WriteParses, WriteSends, BrokerAnswersTypes
    <2>4. CASE answer = << >>
      <3>1. UNCHANGED <<sock, wire, parser, queue, last, sound>>
        BY <2>1, <2>4
      <3>2. Parsing' /\ ChannelStep
        BY <3>1 DEF Parsing, Begun, parser, ChannelStep, Channel!channelVars
      <3> QED
        BY <1>7, <3>2, BrokerAnswersTypes
    <2> QED
      BY <2>3, <2>4
  <1>8. CASE BrokerCommands
    <2>1. /\ BrokerWrites(BrokerFrame(PUBLISH, <<0, 1, 116, 49>>))
          /\ UNCHANGED <<sock, parser, last, sound>>
      BY <1>8 DEF BrokerCommands
    <2> QED
      BY <1>8, <2>1, CommandType, WriteParses, WriteSends, BrokerCommandsTypes
  <1>9. CASE Read
    <2>1. sound' = sound
      BY <1>9 DEF Read
    <2> QED
      BY <1>9, <2>1, ReadTypes, ReadParses, ReadDelivers
  <1>10. CASE UNCHANGED vars
    <2>1. UNCHANGED <<sock, toBroker, wire, readState, header, length, shift, data, gmid,
                      midToMessage, midToTopic, count, queue, last, sound>>
      BY <1>10 DEF vars, parser, ids, bounds, history, channel
    <2>2. Types'
      BY <2>1 DEF Types, TypeOK
    <2>3. Quiet'
      BY <2>1 DEF Quiet
    <2>4. Parsing' /\ ChannelStep
      BY <2>1 DEF Parsing, Begun, ChannelStep, Channel!channelVars
    <2> QED
      BY <2>2, <2>3, <2>4
  <1> QED
    BY <1>1, <1>2, <1>3, <1>4, <1>5, <1>6, <1>7, <1>8, <1>9, <1>10 DEF Next

\* The invariant holds in every state.
LEMMA AlwaysLinked == Spec => []Linked
  <1>1. Linked /\ [Next]_vars => Linked'
    BY NextLinked
  <1> QED
    BY InitLinked, <1>1, PTL DEF Spec

\* The variables of the parser, of the ids and of the frames under way keep to
\* their types, and nothing is under way without a connection.
THEOREM TypeCorrect == Spec => []TypeOK
  <1>1. Linked => TypeOK
    BY DEF Linked, Types
  <1> QED
    BY AlwaysLinked, <1>1, PTL

\* The byte parser delivers the frames of a connection whole, once and in
\* order, whatever their contents and lengths, however their bytes are cut and
\* however often connectToHost is called between two frames.
THEOREM FramesAreDelivered == Spec => ImplementsChannel
  <1>1. Init => Channel!Init
    BY DEF Init, Channel!Init
  <1>2. Linked /\ [Next]_vars => [Channel!Next]_(Channel!channelVars)
    BY NextLinked DEF ChannelStep
  <1> QED
    BY AlwaysLinked, <1>1, <1>2, PTL DEF Spec, ImplementsChannel, Channel!Spec

-----------------------------------------------------------------------------
(* The ids that are drawn                                                  *)

\* nextmid counts up, and starts again from 0.
LEMMA NextmidIs ==
    ASSUME NEW g \in Ids
    PROVE  nextmid(g) = IF g + 1 = IdCount THEN 0 ELSE g + 1
  <1> DEFINE m == g + 1
             q == m \div IdCount
             l == m % IdCount
             p == IdCount * q
  <1>1. IdCount \in Nat /\ IdCount >= 2 /\ m \in Nat /\ m >= 1 /\ m <= IdCount
    BY SomeIds DEF Ids
  <1>2. q \in Nat /\ l \in Nat /\ l < IdCount /\ m = IdCount * q + l
    <2> HIDE DEF m
    <2> QED
      BY <1>1
  <1>3. nextmid(g) = l
    BY DEF nextmid
  <1> HIDE DEF m, q, l
  <1>4. /\ q = 0 => p = 0
        /\ q = 1 => p = IdCount
        /\ q > 1 => IdCount + IdCount <= p
        /\ p \in Nat
    <2>1. q > 1 => IdCount * 2 <= IdCount * q
      BY <1>1, <1>2
    <2>2. IdCount * 2 = IdCount + IdCount
      BY <1>1
    <2> QED
      BY <1>1, <1>2, <2>1, <2>2
  <1>5. m = p + l
    BY <1>2
  <1> HIDE DEF p
  <1>6. q = 0 \/ q = 1
    BY <1>1, <1>2, <1>4, <1>5
  <1>7. l = IF m = IdCount THEN 0 ELSE m
    BY <1>1, <1>2, <1>4, <1>5, <1>6
  <1> QED
    BY <1>3, <1>7 DEF m

\* How many draws ago the id i was drawn for the last time, if g is next.
Age(g, i) == IF i < g THEN g - i ELSE g + IdCount - i

\* Every draw makes each other id one older, and the drawn one the youngest.
LEMMA AgeIs ==
    ASSUME NEW g \in Ids
    PROVE  /\ \A i \in Ids : Age(g, i) \in 1..IdCount
           /\ \A i, j \in Ids : Age(g, i) = Age(g, j) => i = j
           /\ Age(g, g) = IdCount
           /\ nextmid(g) # g
           /\ Age(nextmid(g), g) = 1
           /\ \A i \in Ids : i # g => Age(nextmid(g), i) = Age(g, i) + 1
  BY SomeIds, NextmidIs DEF Age, Ids

-----------------------------------------------------------------------------
(* The ids under way                                                       *)

Number(f) == 256 * f.data[1] + f.data[2]
Ack(f) == f.header \in {16 * PUBACK, 16 * SUBACK}
Draw(f) == f.type \in {PUBLISH, SUBSCRIBE}

\* An id is under way if a frame of the client still carries it to the broker,
\* in t, or an answer of the broker back, in q.
UnderWay(q, t, i) ==
    \/ \E m \in 1..Len(q) : Ack(q[m]) /\ Number(q[m]) = i
    \/ \E n \in 1..Len(t) : Draw(t[n]) /\ t[n].id = i

\* The ids come in the order in which they were drawn,
Ordered(q, t, g) ==
    /\ \A m, n \in 1..Len(q) :
         m < n /\ Ack(q[m]) /\ Ack(q[n]) => Age(g, Number(q[m])) > Age(g, Number(q[n]))
    /\ \A m, n \in 1..Len(t) :
         m < n /\ Draw(t[m]) /\ Draw(t[n]) => Age(g, t[m].id) > Age(g, t[n].id)
    /\ \A m \in 1..Len(q), n \in 1..Len(t) :
         Ack(q[m]) /\ Draw(t[n]) => Age(g, Number(q[m])) > Age(g, t[n].id)

\* and none that was drawn since is missing.
Latest(q, t, g) ==
    \A i, j \in Ids : UnderWay(q, t, i) /\ Age(g, j) <= Age(g, i) => UnderWay(q, t, j)

Numbered(q) == \A m \in 1..Len(q) : Ack(q[m]) => Number(q[m]) \in Ids

\* A sequence that has grown by one, and one that has lost its head.
LEMMA Grown ==
    ASSUME NEW S, NEW s \in Seq(S), NEW e \in S
    PROVE  /\ Append(s, e) \in Seq(S)
           /\ Len(s) \in Nat /\ Len(Append(s, e)) = Len(s) + 1
           /\ Append(s, e)[Len(s) + 1] = e
           /\ \A n \in 1..Len(s) : n \in 1..Len(Append(s, e)) /\ Append(s, e)[n] = s[n]
           /\ \A n \in 1..Len(Append(s, e)) : n \in 1..Len(s) \/ n = Len(s) + 1
           /\ Len(s) + 1 \in 1..Len(Append(s, e))
  <1> DEFINE t == Append(s, e)
             l == Len(s)
  <1>1. t \in Seq(S) /\ Len(t) = l + 1 /\ t[l + 1] = e /\ l \in Nat
        /\ \A n \in 1..l : t[n] = s[n]
    BY AppendProperties
  <1> HIDE DEF t, l
  <1>2. /\ \A n \in 1..l : n \in 1..Len(t)
        /\ \A n \in 1..Len(t) : n \in 1..l \/ n = l + 1
        /\ l + 1 \in 1..Len(t)
    BY <1>1
  <1> QED
    BY <1>1, <1>2 DEF t, l

\* A sequence that has lost its head.
LEMMA Shrunk ==
    ASSUME NEW S, NEW s \in Seq(S), s # << >>
    PROVE  /\ Head(s) \in S /\ Head(s) = s[1] /\ 1 \in 1..Len(s)
           /\ Tail(s) \in Seq(S)
           /\ \A n \in 1..Len(Tail(s)) : n + 1 \in 1..Len(s) /\ Tail(s)[n] = s[n + 1]
           /\ \A n \in 1..Len(s) : n = 1 \/ (n - 1 \in 1..Len(Tail(s)) /\ Tail(s)[n - 1] = s[n])
  <1> DEFINE t == Tail(s)
             l == Len(s)
  <1>1. /\ Head(s) \in S /\ t \in Seq(S) /\ Len(t) = l - 1 /\ l \in Nat /\ l # 0
        /\ \A n \in 1..Len(t) : t[n] = s[n + 1]
    BY HeadTailProperties
  <1>2. Head(s) = s[1]
    OBVIOUS
  <1> HIDE DEF t, l
  <1>3. /\ \A n \in 1..Len(t) : n + 1 \in 1..l
        /\ \A n \in 1..l : n = 1 \/ (n - 1 \in 1..Len(t) /\ (n - 1) + 1 = n)
        /\ 1 \in 1..l
    BY <1>1
  <1> QED
    BY <1>1, <1>2, <1>3 DEF t, l

\* A frame that was written carries an id.
LEMMA SentIds ==
    ASSUME NEW t \in Seq(Sent), NEW n \in 1..Len(t)
    PROVE  t[n] \in Sent /\ t[n].id \in Ids
  <1>1. t[n] \in Sent
    OBVIOUS
  <1>2. \A f \in Sent : f.id \in Ids
    BY DEF Sent
  <1> QED
    BY <1>1, <1>2

\* An id is drawn, and sent behind the others.
LEMMA DrawKeeps ==
    ASSUME NEW q \in Seq(Frame), NEW t \in Seq(Sent), NEW g \in Ids, NEW f \in Sent,
           Numbered(q), Ordered(q, t, g), Latest(q, t, g),
           Draw(f), f.id = g, ~UnderWay(q, t, g)
    PROVE  /\ Ordered(q, Append(t, f), nextmid(g))
           /\ Latest(q, Append(t, f), nextmid(g))
           /\ \A i : UnderWay(q, Append(t, f), i) <=> UnderWay(q, t, i) \/ i = g
  <1> DEFINE h == nextmid(g)
             u == Append(t, f)
             l == Len(t)
  <1>1. h \in Ids
    BY NextmidType
  <1>2. /\ \A i \in Ids : Age(g, i) \in 1..IdCount
        /\ \A i \in Ids : i # g => Age(h, i) = Age(g, i) + 1
        /\ Age(h, g) = 1
    BY AgeIs
  <1>3. /\ l \in Nat /\ u[l + 1] = f /\ l + 1 \in 1..Len(u)
        /\ \A n \in 1..l : n \in 1..Len(u) /\ u[n] = t[n]
        /\ \A n \in 1..Len(u) : n \in 1..l \/ n = l + 1
    BY Grown
  <1>4. \A n \in 1..l : t[n].id \in Ids
    BY SentIds
  <1> HIDE DEF h, u, l
  <1>5. \A i : UnderWay(q, u, i) <=> UnderWay(q, t, i) \/ i = g
    BY <1>3 DEF UnderWay, l
  <1>6. \A m \in 1..Len(q) : Ack(q[m]) => Number(q[m]) \in Ids /\ Number(q[m]) # g
    BY DEF Numbered, UnderWay
  <1>7. \A n \in 1..l : Draw(t[n]) => t[n].id \in Ids /\ t[n].id # g
    BY <1>4 DEF UnderWay, l
  <1>8. \A i \in Ids : i # g => Age(h, i) > 1
    BY <1>2, SomeIds
  <1>9. \A i, j \in Ids : i # g /\ j # g /\ Age(g, i) > Age(g, j) => Age(h, i) > Age(h, j)
    BY <1>2, SomeIds
  <1>10. Ordered(q, u, h)
    <2>1. \A m, n \in 1..Len(q) :
            m < n /\ Ack(q[m]) /\ Ack(q[n]) => Age(h, Number(q[m])) > Age(h, Number(q[n]))
      BY <1>6, <1>9 DEF Ordered
    <2>2. ASSUME NEW m \in 1..Len(u), NEW n \in 1..Len(u), m < n, Draw(u[m]), Draw(u[n])
          PROVE  Age(h, u[m].id) > Age(h, u[n].id)
      <3>1. m \in 1..l /\ u[m] = t[m]
        BY <1>3, <2>2
      <3>2. CASE n \in 1..l
        <4>1. u[n] = t[n]
          BY <1>3, <3>2
        <4>2. Age(g, t[m].id) > Age(g, t[n].id)
          BY <2>2, <3>1, <3>2, <4>1 DEF Ordered, l
        <4> QED
          BY <1>7, <1>9, <2>2, <3>1, <3>2, <4>1, <4>2
      <3>3. CASE n = l + 1
        BY <1>2, <1>3, <1>7, <1>8, <2>2, <3>1, <3>3
      <3> QED
        BY <1>3, <3>2, <3>3
    <2>3. ASSUME NEW m \in 1..Len(q), NEW n \in 1..Len(u), Ack(q[m]), Draw(u[n])
          PROVE  Age(h, Number(q[m])) > Age(h, u[n].id)
      <3>1. CASE n \in 1..l
        <4>1. u[n] = t[n]
          BY <1>3, <3>1
        <4>2. Age(g, Number(q[m])) > Age(g, t[n].id)
          BY <2>3, <3>1, <4>1 DEF Ordered, l
        <4> QED
          BY <1>6, <1>7, <1>9, <2>3, <3>1, <4>1, <4>2
      <3>2. CASE n = l + 1
        BY <1>2, <1>3, <1>6, <1>8, <2>3, <3>2
      <3> QED
        BY <1>3, <3>1, <3>2
    <2> QED
      BY <2>1, <2>2, <2>3 DEF Ordered
  <1>11. Latest(q, u, h)
    <2> SUFFICES ASSUME NEW i \in Ids, NEW j \in Ids, UnderWay(q, u, i),
                        Age(h, j) <= Age(h, i), j # g
                 PROVE  UnderWay(q, t, j)
      BY <1>5 DEF Latest
    <2>1. i # g
      BY <1>2, <1>8, SomeIds
    <2>2. Age(g, j) <= Age(g, i) /\ UnderWay(q, t, i)
      BY <1>2, <1>5, <2>1
    <2> QED
      BY <2>2 DEF Latest
  <1> QED
    BY <1>5, <1>10, <1>11 DEF h, u

\* A frame without an id is sent.
LEMMA PlainKeeps ==
    ASSUME NEW q \in Seq(Frame), NEW t \in Seq(Sent), NEW g \in Ids, NEW f \in Sent,
           Ordered(q, t, g), Latest(q, t, g), ~Draw(f)
    PROVE  /\ Ordered(q, Append(t, f), g) /\ Latest(q, Append(t, f), g)
           /\ \A i : UnderWay(q, Append(t, f), i) <=> UnderWay(q, t, i)
  <1> DEFINE u == Append(t, f)
             l == Len(t)
  <1>1. /\ l \in Nat /\ u[l + 1] = f /\ l + 1 \in 1..Len(u)
        /\ \A n \in 1..l : n \in 1..Len(u) /\ u[n] = t[n]
        /\ \A n \in 1..Len(u) : n \in 1..l \/ n = l + 1
    BY Grown
  <1> HIDE DEF u, l
  <1>2. \A n \in 1..Len(u) : Draw(u[n]) => n \in 1..l /\ u[n] = t[n]
    BY <1>1
  <1>3. \A i : UnderWay(q, u, i) <=> UnderWay(q, t, i)
    BY <1>1, <1>2 DEF UnderWay, l
  <1>4. Ordered(q, u, g)
    BY <1>2 DEF Ordered, l
  <1>5. Latest(q, u, g)
    BY <1>3 DEF Latest
  <1> QED
    BY <1>3, <1>4, <1>5 DEF u

\* The broker sends a frame without an id of the client's.
LEMMA CommandKeeps ==
    ASSUME NEW q \in Seq(Frame), NEW t \in Seq(Sent), NEW g \in Ids, NEW f \in Frame,
           Ordered(q, t, g), Latest(q, t, g), ~Ack(f)
    PROVE  /\ Ordered(Append(q, f), t, g) /\ Latest(Append(q, f), t, g)
           /\ \A i : UnderWay(Append(q, f), t, i) <=> UnderWay(q, t, i)
  <1> DEFINE u == Append(q, f)
             l == Len(q)
  <1>1. /\ l \in Nat /\ u[l + 1] = f /\ l + 1 \in 1..Len(u)
        /\ \A n \in 1..l : n \in 1..Len(u) /\ u[n] = q[n]
        /\ \A n \in 1..Len(u) : n \in 1..l \/ n = l + 1
    BY Grown
  <1> HIDE DEF u, l
  <1>2. \A n \in 1..Len(u) : Ack(u[n]) => n \in 1..l /\ u[n] = q[n]
    BY <1>1
  <1>3. \A i : UnderWay(u, t, i) <=> UnderWay(q, t, i)
    BY <1>1, <1>2 DEF UnderWay, l
  <1>4. Ordered(u, t, g)
    BY <1>2 DEF Ordered, l
  <1>5. Latest(u, t, g)
    BY <1>3 DEF Latest
  <1> QED
    BY <1>3, <1>4, <1>5 DEF u

\* The broker takes a frame and answers it with its id, if it has one.
LEMMA AnswerKeeps ==
    ASSUME NEW q \in Seq(Frame), NEW t \in Seq(Sent), NEW g \in Ids, NEW a \in Frame,
           Ordered(q, t, g), Latest(q, t, g), t # << >>,
           Ack(a) <=> Draw(Head(t)), Ack(a) => Number(a) = Head(t).id
    PROVE  /\ Ordered(Append(q, a), Tail(t), g) /\ Latest(Append(q, a), Tail(t), g)
           /\ \A i : UnderWay(Append(q, a), Tail(t), i) <=> UnderWay(q, t, i)
  <1> DEFINE p == Append(q, a)
             u == Tail(t)
             l == Len(q)
  <1>1. /\ l \in Nat /\ p[l + 1] = a /\ l + 1 \in 1..Len(p)
        /\ \A n \in 1..l : n \in 1..Len(p) /\ p[n] = q[n]
        /\ \A n \in 1..Len(p) : n \in 1..l \/ n = l + 1
    BY Grown
  <1>2. /\ Head(t) = t[1] /\ 1 \in 1..Len(t)
        /\ \A n \in 1..Len(u) : n + 1 \in 1..Len(t) /\ u[n] = t[n + 1]
        /\ \A n \in 1..Len(t) : n = 1 \/ (n - 1 \in 1..Len(u) /\ u[n - 1] = t[n])
    BY Shrunk
  <1> HIDE DEF p, u, l
  <1>3. ASSUME NEW i PROVE UnderWay(p, u, i) <=> UnderWay(q, t, i)
    <2>1. ASSUME UnderWay(q, t, i) PROVE UnderWay(p, u, i)
      <3>1. CASE \E m \in 1..l : Ack(q[m]) /\ Number(q[m]) = i
        BY <1>1, <3>1 DEF UnderWay
      <3>2. ASSUME NEW n \in 1..Len(t), Draw(t[n]), t[n].id = i PROVE UnderWay(p, u, i)
        <4>1. CASE n = 1
          BY <1>1, <1>2, <3>2, <4>1 DEF UnderWay
        <4>2. CASE n # 1
          BY <1>2, <3>2, <4>2 DEF UnderWay
        <4> QED
          BY <4>1, <4>2
      <3> QED
        BY <2>1, <3>1, <3>2 DEF UnderWay, l
    <2>2. ASSUME UnderWay(p, u, i) PROVE UnderWay(q, t, i)
      <3>1. ASSUME NEW m \in 1..Len(p), Ack(p[m]), Number(p[m]) = i PROVE UnderWay(q, t, i)
        <4>1. CASE m \in 1..l
          BY <1>1, <3>1, <4>1 DEF UnderWay, l
        <4>2. CASE m = l + 1
          BY <1>1, <1>2, <3>1, <4>2 DEF UnderWay
        <4> QED
          BY <1>1, <4>1, <4>2
      <3>2. CASE \E n \in 1..Len(u) : Draw(u[n]) /\ u[n].id = i
        BY <1>2, <3>2 DEF UnderWay
      <3> QED
        BY <2>2, <3>1, <3>2 DEF UnderWay
    <2> QED
      BY <2>1, <2>2
  <1>4. Ordered(p, u, g)
    <2>1. ASSUME NEW m \in 1..Len(p), NEW n \in 1..Len(p), m < n, Ack(p[m]), Ack(p[n])
          PROVE  Age(g, Number(p[m])) > Age(g, Number(p[n]))
      <3>1. m \in 1..l /\ p[m] = q[m]
        BY <1>1, <2>1
      <3>2. CASE n \in 1..l
        BY <1>1, <2>1, <3>1, <3>2 DEF Ordered, l
      <3>3. CASE n = l + 1
        BY <1>1, <1>2, <2>1, <3>1, <3>3 DEF Ordered, l
      <3> QED
        BY <1>1, <3>2, <3>3
    <2>2. ASSUME NEW m \in 1..Len(u), NEW n \in 1..Len(u), m < n, Draw(u[m]), Draw(u[n])
          PROVE  Age(g, u[m].id) > Age(g, u[n].id)
      <3>1. m + 1 < n + 1
        BY <2>2
      <3> QED
        BY <1>2, <2>2, <3>1 DEF Ordered
    <2>3. ASSUME NEW m \in 1..Len(p), NEW n \in 1..Len(u), Ack(p[m]), Draw(u[n])
          PROVE  Age(g, Number(p[m])) > Age(g, u[n].id)
      <3>1. n + 1 \in 1..Len(t) /\ u[n] = t[n + 1] /\ 1 < n + 1
        BY <1>2
      <3>2. CASE m \in 1..l
        BY <1>1, <2>3, <3>1, <3>2 DEF Ordered, l
      <3>3. CASE m = l + 1
        BY <1>1, <1>2, <2>3, <3>1, <3>3 DEF Ordered
      <3> QED
        BY <1>1, <3>2, <3>3
    <2> QED
      BY <2>1, <2>2, <2>3 DEF Ordered
  <1>5. Latest(p, u, g)
    BY <1>3 DEF Latest
  <1> QED
    BY <1>3, <1>4, <1>5 DEF p, u

\* The client takes a frame.
LEMMA ReceiveKeeps ==
    ASSUME NEW q \in Seq(Frame), NEW t \in Seq(Sent), NEW g \in Ids,
           Numbered(q), Ordered(q, t, g), Latest(q, t, g), q # << >>
    PROVE  /\ Ordered(Tail(q), t, g) /\ Latest(Tail(q), t, g)
           /\ \A i : UnderWay(Tail(q), t, i) => UnderWay(q, t, i)
           /\ Ack(Head(q)) => ~UnderWay(Tail(q), t, Number(Head(q)))
  <1> DEFINE u == Tail(q)
  <1>1. /\ Head(q) = q[1] /\ 1 \in 1..Len(q)
        /\ \A n \in 1..Len(u) : n + 1 \in 1..Len(q) /\ u[n] = q[n + 1]
        /\ \A n \in 1..Len(q) : n = 1 \/ (n - 1 \in 1..Len(u) /\ u[n - 1] = q[n])
    BY Shrunk
  <1>2. /\ \A i \in Ids : Age(g, i) \in 1..IdCount
        /\ \A i, j \in Ids : Age(g, i) = Age(g, j) => i = j
    BY AgeIs
  <1>3. \A n \in 1..Len(t) : t[n].id \in Ids
    BY SentIds
  <1> HIDE DEF u
  <1>4. \A i : UnderWay(u, t, i) => UnderWay(q, t, i)
    BY <1>1 DEF UnderWay
  <1>5. Ordered(u, t, g)
    <2>1. ASSUME NEW m \in 1..Len(u), NEW n \in 1..Len(u), m < n, Ack(u[m]), Ack(u[n])
          PROVE  Age(g, Number(u[m])) > Age(g, Number(u[n]))
      <3>1. m + 1 < n + 1
        BY <2>1
      <3> QED
        BY <1>1, <2>1, <3>1 DEF Ordered
    <2> QED
      BY <1>1, <2>1 DEF Ordered
  <1>6. ASSUME Ack(Head(q)), NEW i \in Ids, UnderWay(u, t, i)
        PROVE  Age(g, Number(Head(q))) > Age(g, i)
    <2>1. CASE \E n \in 1..Len(u) : Ack(u[n]) /\ Number(u[n]) = i
      <3>1. PICK n \in 1..Len(u) : Ack(u[n]) /\ Number(u[n]) = i
        BY <2>1
      <3>2. n + 1 \in 1..Len(q) /\ u[n] = q[n + 1] /\ 1 < n + 1
        BY <1>1
      <3> QED
        BY <1>1, <1>6, <3>1, <3>2 DEF Ordered
    <2>2. CASE \E n \in 1..Len(t) : Draw(t[n]) /\ t[n].id = i
      BY <1>1, <1>6, <2>2 DEF Ordered
    <2> QED
      BY <1>6, <2>1, <2>2 DEF UnderWay
  <1>7. Ack(Head(q)) => Number(Head(q)) \in Ids
    BY <1>1 DEF Numbered
  <1>8. \A j : UnderWay(q, t, j) =>
               UnderWay(u, t, j) \/ (Ack(Head(q)) /\ j = Number(Head(q)))
    BY <1>1 DEF UnderWay
  <1>9. Latest(u, t, g)
    <2> SUFFICES ASSUME NEW i \in Ids, NEW j \in Ids, UnderWay(u, t, i), Age(g, j) <= Age(g, i)
                 PROVE  UnderWay(u, t, j)
      BY DEF Latest
    <2>1. UnderWay(q, t, j)
      BY <1>4 DEF Latest
    <2>2. Ack(Head(q)) => j # Number(Head(q))
      BY <1>2, <1>6, <1>7, SomeIds
    <2> QED
      BY <1>8, <2>1, <2>2
  <1>10. Ack(Head(q)) => ~UnderWay(u, t, Number(Head(q)))
    <2> SUFFICES ASSUME Ack(Head(q)), NEW i \in Ids, i = Number(Head(q)), UnderWay(u, t, i)
                 PROVE  FALSE
      BY <1>7
    <2>1. Age(g, i) > Age(g, i)
      BY <1>6
    <2>2. Age(g, i) \in 1..IdCount
      BY <1>2
    <2> QED
      BY <2>1, <2>2, SomeIds
  <1> QED
    BY <1>4, <1>5, <1>9, <1>10 DEF u

-----------------------------------------------------------------------------
(* The conversation of a connection                                        *)

\* An answer carries an id, and a message that is acknowledged was taken.
OkFrame(f, map, tk) ==
    /\ f.header \in {16 * CONNACK, 16 * PUBLISH, 16 * PUBACK, 16 * SUBACK, 16 * PINGRESP}
    /\ Ack(f) => Len(f.data) >= 2 /\ Number(f) \in Ids
    /\ f.header = 16 * PUBACK => Number(f) \in DOMAIN map /\ map[Number(f)] \in tk

\* A message that is sent is the one that its id stands for.
OkSent(f, map) ==
    /\ f.type \in {CONNECT, PUBLISH, SUBSCRIBE, PINGREQ}
    /\ f.type = PUBLISH => f.id \in DOMAIN map /\ map[f.id] = f.msg

\* The greeting comes first.
HelloFirst(q, t) ==
    /\ \A m \in 1..Len(q) : q[m].header = 16 * CONNACK => m = 1
    /\ \A n \in 1..Len(t) : t[n].type = CONNECT => n = 1 /\ q = << >>

Hello(q, t) ==
    \/ \E m \in 1..Len(q) : q[m].header = 16 * CONNACK
    \/ \E n \in 1..Len(t) : t[n].type = CONNECT

\* The id i is that of a subscription.
Subscribing(q, t, i) ==
    \/ \E m \in 1..Len(q) : q[m].header = 16 * SUBACK /\ Number(q[m]) = i
    \/ \E n \in 1..Len(t) : t[n].type = SUBSCRIBE /\ t[n].id = i

\* There is one subscription, and it comes behind the greeting. Until then no
\* more messages are remembered than publish admits.
OneSubscription(q, t) == \A i, j : Subscribing(q, t, i) /\ Subscribing(q, t, j) => i = j
Greeting(q, t, map) ==
    Hello(q, t) => /\ \A i : ~Subscribing(q, t, i)
                   /\ Cardinality(DOMAIN map) <= MaxInFlight

Conversation(q, t, g, map, tk) ==
    /\ \A m \in 1..Len(q) : OkFrame(q[m], map, tk)
    /\ \A n \in 1..Len(t) : OkSent(t[n], map)
    /\ HelloFirst(q, t)
    /\ OneSubscription(q, t)
    /\ Greeting(q, t, map)
    /\ Ordered(q, t, g)
    /\ Latest(q, t, g)

Codes ==
    /\ 16 * CONNACK = 32 /\ 16 * PUBLISH = 48 /\ 16 * PUBACK = 64
    /\ 16 * SUBACK = 144 /\ 16 * PINGRESP = 208
    /\ CONNECT = 1 /\ PUBLISH = 3 /\ SUBSCRIBE = 8 /\ PINGREQ = 12

\* The message types differ from each other.
LEMMA CodesAre == Codes
  BY DEF Codes, CONNACK, PUBLISH, PUBACK, SUBACK, PINGRESP, CONNECT, SUBSCRIBE, PINGREQ

\* The acknowledgements under way name ids.
LEMMA IdsNumbered ==
    ASSUME NEW q, NEW t, NEW g, NEW map, NEW tk, Conversation(q, t, g, map, tk)
    PROVE  Numbered(q)
  BY DEF Conversation, OkFrame, Numbered

\* Ids that miss one at most are more than may be remembered.
LEMMA Crowd ==
    ASSUME NEW D \in SUBSET Ids, NEW e, \A i \in Ids : i \in D \/ i = e
    PROVE  Cardinality(D) > MaxInFlight
  <1> DEFINE E == D \cup {e}
             n == IdCount
  <1>1. n \in Nat /\ MaxInFlight \in Nat /\ MaxInFlight + 2 <= n
    BY SomeIds, Bounds
  <1>2. IsFiniteSet(Ids) /\ Cardinality(Ids) = n
    <2>1. 0 \in Int /\ n - 1 \in Int /\ 0 <= n - 1 /\ (n - 1) - 0 + 1 = n
      BY <1>1
    <2> QED
      BY <2>1, FS_Interval DEF Ids
  <1>3. IsFiniteSet(D) /\ Cardinality(D) \in Nat
    BY <1>2, FS_Subset, FS_CardinalityType
  <1>4. IsFiniteSet(E) /\ Cardinality(E) \in Nat /\ Cardinality(E) <= Cardinality(D) + 1
    <2>1. IsFiniteSet(E) /\ Cardinality(E) = IF e \in D THEN Cardinality(D) ELSE Cardinality(D) + 1
      BY <1>3, FS_AddElement
    <2> QED
      BY <1>3, <2>1
  <1>5. Ids \in SUBSET E
    OBVIOUS
  <1>6. Cardinality(Ids) <= Cardinality(E)
    BY <1>4, <1>5, FS_Subset
  <1> HIDE DEF E
  <1> QED
    BY <1>1, <1>2, <1>3, <1>4, <1>6

\* An id under way is that of a message remembered, or of the subscription.
LEMMA Remembered ==
    ASSUME NEW q, NEW t, NEW g, NEW map, NEW tk, Conversation(q, t, g, map, tk),
           NEW i, UnderWay(q, t, i)
    PROVE  i \in DOMAIN map \/ Subscribing(q, t, i)
  BY DEF Conversation, UnderWay, Subscribing, OkFrame, OkSent, Ack, Draw

\* The next id is not under way.
LEMMA NextIsFree ==
    ASSUME NEW q, NEW t, NEW g \in Ids, NEW map, NEW tk, Conversation(q, t, g, map, tk),
           DOMAIN map \subseteq Ids, Cardinality(DOMAIN map) <= MaxInFlight
    PROVE  ~UnderWay(q, t, g)
  <1> SUFFICES ASSUME UnderWay(q, t, g) PROVE FALSE
    OBVIOUS
  <1>1. \A j \in Ids : Age(g, j) \in 1..IdCount /\ Age(g, g) = IdCount
    BY AgeIs
  <1>2. \A j \in Ids : Age(g, j) <= Age(g, g)
    BY <1>1, SomeIds
  <1>3. \A j \in Ids : UnderWay(q, t, j)
    BY <1>2 DEF Conversation, Latest
  <1>4. \A j \in Ids : j \in DOMAIN map \/ Subscribing(q, t, j)
    BY <1>3, Remembered
  <1>5. \E e : \A j \in Ids : j \in DOMAIN map \/ j = e
    BY <1>4 DEF Conversation, OneSubscription
  <1>6. Cardinality(DOMAIN map) > MaxInFlight
    BY <1>5, Crowd
  <1>7. Cardinality(DOMAIN map) \in Nat
    <2>1. IsFiniteSet(Ids)
      BY SomeIds, FS_Interval DEF Ids
    <2> QED
      BY <2>1, FS_Subset, FS_CardinalityType
  <1> QED
    BY <1>6, <1>7, Bounds

\* Nor is the one behind it, if the client subscribes with the next.
LEMMA SecondIsFree ==
    ASSUME NEW q \in Seq(Frame), NEW t \in Seq(Sent), NEW g \in Ids, NEW map, NEW tk,
           Conversation(q, t, g, map, tk), \A i : ~Subscribing(q, t, i),
           DOMAIN map \subseteq Ids, Cardinality(DOMAIN map) <= MaxInFlight,
           NEW f \in Sent, Draw(f), f.id = g
    PROVE  ~UnderWay(q, Append(t, f), nextmid(g))
  <1> DEFINE h == nextmid(g)
             u == Append(t, f)
  <1>1. /\ Latest(q, u, h)
        /\ \A i : UnderWay(q, u, i) <=> UnderWay(q, t, i) \/ i = g
    <2>1. Numbered(q) /\ ~UnderWay(q, t, g)
      BY NextIsFree, IdsNumbered
    <2>2. Ordered(q, t, g) /\ Latest(q, t, g)
      BY DEF Conversation
    <2> QED
      BY <2>1, <2>2, DrawKeeps
  <1>2. h \in Ids
    BY NextmidType
  <1> HIDE DEF h, u
  <1> SUFFICES ASSUME UnderWay(q, u, h) PROVE FALSE
    BY DEF h, u
  <1>3. \A j \in Ids : Age(h, j) \in 1..IdCount /\ Age(h, h) = IdCount
    BY <1>2, AgeIs
  <1>4. \A j \in Ids : Age(h, j) <= Age(h, h)
    BY <1>3, SomeIds
  <1>5. \A j \in Ids : UnderWay(q, u, j)
    BY <1>1, <1>2, <1>4 DEF Latest
  <1>6. \A j \in Ids : j \in DOMAIN map \/ j = g
    BY <1>1, <1>5, Remembered
  <1>7. Cardinality(DOMAIN map) > MaxInFlight
    BY <1>6, Crowd
  <1>8. Cardinality(DOMAIN map) \in Nat
    <2>1. IsFiniteSet(Ids)
      BY SomeIds, FS_Interval DEF Ids
    <2> QED
      BY <2>1, FS_Subset, FS_CardinalityType
  <1> QED
    BY <1>7, <1>8, Bounds

\* A message is sent with the next id.
LEMMA PublishConverses ==
    ASSUME NEW q \in Seq(Frame), NEW t \in Seq(Sent), NEW g \in Ids, NEW map, NEW tk,
           Conversation(q, t, g, map, tk), ~UnderWay(q, t, g),
           NEW f \in Sent, f.type = PUBLISH, f.id = g,
           NEW new, DOMAIN new = DOMAIN map \cup {g}, new[g] = f.msg,
           \A i \in DOMAIN map : i # g => new[i] = map[i],
           Hello(q, t) => Cardinality(DOMAIN new) <= MaxInFlight
    PROVE  Conversation(q, Append(t, f), nextmid(g), new, tk)
  <1> DEFINE u == Append(t, f)
             l == Len(t)
  <1>1. /\ l \in Nat /\ u[l + 1] = f /\ l + 1 \in 1..Len(u)
        /\ \A n \in 1..l : n \in 1..Len(u) /\ u[n] = t[n]
        /\ \A n \in 1..Len(u) : n \in 1..l \/ n = l + 1
    BY Grown
  <1>2. Draw(f)
    BY DEF Draw
  <1>3. Ordered(q, u, nextmid(g)) /\ Latest(q, u, nextmid(g))
    BY <1>2, IdsNumbered, DrawKeeps DEF Conversation
  <1> HIDE DEF u, l
  <1>4. \A m \in 1..Len(q) : OkFrame(q[m], new, tk)
    <2> SUFFICES ASSUME NEW m \in 1..Len(q) PROVE OkFrame(q[m], new, tk)
      OBVIOUS
    <2>1. OkFrame(q[m], map, tk)
      BY DEF Conversation
    <2>2. q[m].header = 16 * PUBACK => Ack(q[m]) /\ Number(q[m]) # g
      BY DEF Ack, UnderWay
    <2> QED
      BY <2>1, <2>2 DEF OkFrame
  <1>5. \A n \in 1..Len(u) : OkSent(u[n], new)
    <2> SUFFICES ASSUME NEW n \in 1..Len(u) PROVE OkSent(u[n], new)
      OBVIOUS
    <2>1. CASE n \in 1..l
      <3>1. OkSent(t[n], map) /\ u[n] = t[n]
        BY <1>1, <2>1 DEF Conversation, l
      <3>2. t[n].type = PUBLISH => t[n].id # g
        BY <2>1 DEF UnderWay, Draw, l
      <3> QED
        BY <3>1, <3>2 DEF OkSent
    <2>2. CASE n = l + 1
      BY <1>1, <2>2 DEF OkSent
    <2> QED
      BY <1>1, <2>1, <2>2
  <1>6. PUBLISH # CONNECT /\ PUBLISH # SUBSCRIBE
    BY CodesAre DEF Codes
  <1>7. /\ \A i : Subscribing(q, u, i) => Subscribing(q, t, i)
        /\ Hello(q, u) => Hello(q, t)
    BY <1>1, <1>6 DEF Subscribing, Hello, l
  <1>8. HelloFirst(q, u)
    BY <1>1, <1>6 DEF Conversation, HelloFirst, l
  <1>9. OneSubscription(q, u) /\ Greeting(q, u, new)
    BY <1>7 DEF Conversation, OneSubscription, Greeting
  <1> QED
    BY <1>3, <1>4, <1>5, <1>8, <1>9 DEF Conversation, u

\* The subscription is sent with the next id, once the greeting is over.
LEMMA SubscribeConverses ==
    ASSUME NEW q \in Seq(Frame), NEW t \in Seq(Sent), NEW g \in Ids, NEW map, NEW tk,
           Conversation(q, t, g, map, tk), ~UnderWay(q, t, g),
           ~Hello(q, t), \A i : ~Subscribing(q, t, i),
           NEW f \in Sent, f.type = SUBSCRIBE, f.id = g
    PROVE  /\ Conversation(q, Append(t, f), nextmid(g), map, tk)
           /\ ~Hello(q, Append(t, f))
  <1> DEFINE u == Append(t, f)
             l == Len(t)
  <1>1. /\ l \in Nat /\ u[l + 1] = f /\ l + 1 \in 1..Len(u)
        /\ \A n \in 1..l : n \in 1..Len(u) /\ u[n] = t[n]
        /\ \A n \in 1..Len(u) : n \in 1..l \/ n = l + 1
    BY Grown
  <1>2. Draw(f)
    BY DEF Draw
  <1>3. Ordered(q, u, nextmid(g)) /\ Latest(q, u, nextmid(g))
    BY <1>2, IdsNumbered, DrawKeeps DEF Conversation
  <1> HIDE DEF u, l
  <1>4. SUBSCRIBE # PUBLISH /\ SUBSCRIBE # CONNECT
    BY CodesAre DEF Codes
  <1>5. \A n \in 1..Len(u) : OkSent(u[n], map)
    <2> SUFFICES ASSUME NEW n \in 1..Len(u) PROVE OkSent(u[n], map)
      OBVIOUS
    <2>1. CASE n \in 1..l
      BY <1>1, <2>1 DEF Conversation, l
    <2>2. CASE n = l + 1
      BY <1>1, <1>4, <2>2 DEF OkSent
    <2> QED
      BY <1>1, <2>1, <2>2
  <1>6. ~Hello(q, u) /\ \A i : Subscribing(q, u, i) => i = g
    BY <1>1, <1>4 DEF Subscribing, Hello, l
  <1>7. HelloFirst(q, u)
    BY <1>1, <1>4 DEF Conversation, HelloFirst, l
  <1>8. OneSubscription(q, u) /\ Greeting(q, u, map)
    BY <1>6 DEF OneSubscription, Greeting
  <1> QED
    BY <1>3, <1>5, <1>6, <1>7, <1>8 DEF Conversation, u

\* A ping is sent.
LEMMA PingConverses ==
    ASSUME NEW q \in Seq(Frame), NEW t \in Seq(Sent), NEW g \in Ids, NEW map, NEW tk,
           Conversation(q, t, g, map, tk), NEW f \in Sent, f.type = PINGREQ
    PROVE  Conversation(q, Append(t, f), g, map, tk)
  <1> DEFINE u == Append(t, f)
             l == Len(t)
  <1>1. /\ l \in Nat /\ u[l + 1] = f /\ l + 1 \in 1..Len(u)
        /\ \A n \in 1..l : n \in 1..Len(u) /\ u[n] = t[n]
        /\ \A n \in 1..Len(u) : n \in 1..l \/ n = l + 1
    BY Grown
  <1>2. PINGREQ \notin {PUBLISH, SUBSCRIBE, CONNECT}
    BY CodesAre DEF Codes
  <1>3. Ordered(q, u, g) /\ Latest(q, u, g)
    <2>1. ~Draw(f)
      BY <1>2 DEF Draw
    <2> QED
      BY <2>1, PlainKeeps DEF Conversation
  <1> HIDE DEF u, l
  <1>4. \A n \in 1..Len(u) : OkSent(u[n], map)
    <2> SUFFICES ASSUME NEW n \in 1..Len(u) PROVE OkSent(u[n], map)
      OBVIOUS
    <2>1. CASE n \in 1..l
      BY <1>1, <2>1 DEF Conversation, l
    <2>2. CASE n = l + 1
      BY <1>1, <1>2, <2>2 DEF OkSent
    <2> QED
      BY <1>1, <2>1, <2>2
  <1>5. /\ \A i : Subscribing(q, u, i) => Subscribing(q, t, i)
        /\ Hello(q, u) => Hello(q, t)
    BY <1>1, <1>2 DEF Subscribing, Hello, l
  <1>6. HelloFirst(q, u)
    BY <1>1, <1>2 DEF Conversation, HelloFirst, l
  <1>7. OneSubscription(q, u) /\ Greeting(q, u, map)
    BY <1>5 DEF Conversation, OneSubscription, Greeting
  <1> QED
    BY <1>3, <1>4, <1>6, <1>7 DEF Conversation, u

\* The broker sends a command.
LEMMA CommandConverses ==
    ASSUME NEW q \in Seq(Frame), NEW t \in Seq(Sent), NEW g \in Ids, NEW map, NEW tk,
           Conversation(q, t, g, map, tk),
           NEW f \in Frame, f.header = 16 * PUBLISH,
           \A n \in 1..Len(t) : t[n].type # CONNECT
    PROVE  Conversation(Append(q, f), t, g, map, tk)
  <1> DEFINE u == Append(q, f)
             l == Len(q)
  <1>1. /\ l \in Nat /\ u[l + 1] = f /\ l + 1 \in 1..Len(u)
        /\ \A n \in 1..l : n \in 1..Len(u) /\ u[n] = q[n]
        /\ \A n \in 1..Len(u) : n \in 1..l \/ n = l + 1
    BY Grown
  <1>2. f.header \notin {16 * CONNACK, 16 * PUBACK, 16 * SUBACK}
    BY CodesAre DEF Codes
  <1>3. Ordered(u, t, g) /\ Latest(u, t, g)
    <2>1. ~Ack(f)
      BY <1>2 DEF Ack
    <2> QED
      BY <2>1, CommandKeeps DEF Conversation
  <1> HIDE DEF u, l
  <1>4. \A n \in 1..Len(u) : OkFrame(u[n], map, tk)
    <2> SUFFICES ASSUME NEW n \in 1..Len(u) PROVE OkFrame(u[n], map, tk)
      OBVIOUS
    <2>1. CASE n \in 1..l
      BY <1>1, <2>1 DEF Conversation, l
    <2>2. CASE n = l + 1
      BY <1>1, <1>2, <2>2 DEF OkFrame, Ack
    <2> QED
      BY <1>1, <2>1, <2>2
  <1>5. /\ \A i : Subscribing(u, t, i) => Subscribing(q, t, i)
        /\ Hello(u, t) => Hello(q, t)
    BY <1>1, <1>2 DEF Subscribing, Hello, l
  <1>6. HelloFirst(u, t)
    BY <1>1, <1>2 DEF Conversation, HelloFirst, l
  <1>7. OneSubscription(u, t) /\ Greeting(u, t, map)
    BY <1>5 DEF Conversation, OneSubscription, Greeting
  <1> QED
    BY <1>3, <1>4, <1>6, <1>7 DEF Conversation, u

\* The frame a answers the frame f.
Answers(a, f) ==
    /\ a.header \in {16 * CONNACK, 16 * PUBACK, 16 * SUBACK, 16 * PINGRESP}
    /\ a.header = 16 * CONNACK <=> f.type = CONNECT
    /\ a.header = 16 * PUBACK <=> f.type = PUBLISH
    /\ a.header = 16 * SUBACK <=> f.type = SUBSCRIBE
    /\ Ack(a) => Len(a.data) >= 2 /\ Number(a) = f.id

\* The broker takes a frame and answers it.
LEMMA AnswerConverses ==
    ASSUME NEW q \in Seq(Frame), NEW t \in Seq(Sent), NEW g \in Ids, NEW map, NEW tk,
           Conversation(q, t, g, map, tk), t # << >>,
           NEW a \in Frame, Answers(a, Head(t)),
           NEW new, tk \subseteq new, Head(t).type = PUBLISH => Head(t).msg \in new
    PROVE  Conversation(Append(q, a), Tail(t), g, map, new)
  <1> DEFINE p == Append(q, a)
             u == Tail(t)
             l == Len(q)
  <1>1. /\ l \in Nat /\ p[l + 1] = a /\ l + 1 \in 1..Len(p)
        /\ \A n \in 1..l : n \in 1..Len(p) /\ p[n] = q[n]
        /\ \A n \in 1..Len(p) : n \in 1..l \/ n = l + 1
    BY Grown
  <1>2. /\ Head(t) = t[1] /\ 1 \in 1..Len(t) /\ Head(t) \in Sent
        /\ \A n \in 1..Len(u) : n + 1 \in 1..Len(t) /\ u[n] = t[n + 1]
    BY Shrunk
  <1>3. Ordered(p, u, g) /\ Latest(p, u, g)
    <2>1. Ack(a) <=> Draw(Head(t))
      BY DEF Answers, Ack, Draw
    <2>2. Ack(a) => Number(a) = Head(t).id
      BY DEF Answers
    <2> QED
      BY <2>1, <2>2, AnswerKeeps DEF Conversation
  <1> HIDE DEF p, u, l
  <1>4. \A m \in 1..Len(p) : OkFrame(p[m], map, new)
    <2> SUFFICES ASSUME NEW m \in 1..Len(p) PROVE OkFrame(p[m], map, new)
      OBVIOUS
    <2>1. CASE m \in 1..l
      <3>1. OkFrame(q[m], map, tk) /\ p[m] = q[m]
        BY <1>1, <2>1 DEF Conversation, l
      <3> QED
        BY <3>1 DEF OkFrame
    <2>2. CASE m = l + 1
      <3>1. p[m] = a /\ OkSent(Head(t), map)
        BY <1>1, <1>2, <2>2 DEF Conversation
      <3>2. Head(t).id \in Ids
        BY <1>2 DEF Sent
      <3>3. a.header = 16 * PUBACK => Ack(a)
        BY DEF Ack
      <3> QED
        BY <3>1, <3>2, <3>3 DEF OkFrame, OkSent, Answers
    <2> QED
      BY <1>1, <2>1, <2>2
  <1>5. \A n \in 1..Len(u) : OkSent(u[n], map)
    BY <1>2 DEF Conversation
  <1>6. \A i : Subscribing(p, u, i) => Subscribing(q, t, i)
    <2> SUFFICES ASSUME NEW i, Subscribing(p, u, i) PROVE Subscribing(q, t, i)
      OBVIOUS
    <2>1. ASSUME NEW m \in 1..Len(p), p[m].header = 16 * SUBACK, Number(p[m]) = i
          PROVE  Subscribing(q, t, i)
      <3>1. CASE m \in 1..l
        BY <1>1, <2>1, <3>1 DEF Subscribing, l
      <3>2. CASE m = l + 1
        <4>1. Ack(a)
          BY <1>1, <2>1, <3>2 DEF Ack
        <4> QED
          BY <1>1, <1>2, <2>1, <3>2, <4>1 DEF Subscribing, Answers
      <3> QED
        BY <1>1, <3>1, <3>2
    <2>2. CASE \E n \in 1..Len(u) : u[n].type = SUBSCRIBE /\ u[n].id = i
      BY <1>2, <2>2 DEF Subscribing
    <2> QED
      BY <2>1, <2>2 DEF Subscribing
  <1>7. Hello(p, u) => Hello(q, t)
    <2>1. ASSUME NEW m \in 1..Len(p), p[m].header = 16 * CONNACK
          PROVE  Hello(q, t)
      <3>1. CASE m \in 1..l
        BY <1>1, <2>1, <3>1 DEF Hello, l
      <3>2. CASE m = l + 1
        BY <1>1, <1>2, <2>1, <3>2 DEF Hello, Answers
      <3> QED
        BY <1>1, <3>1, <3>2
    <2>2. CASE \E n \in 1..Len(u) : u[n].type = CONNECT
      BY <1>2, <2>2 DEF Hello
    <2> QED
      BY <2>1, <2>2 DEF Hello
  <1>8. HelloFirst(p, u)
    <2>1. ASSUME NEW m \in 1..Len(p), p[m].header = 16 * CONNACK PROVE m = 1
      <3>1. CASE m \in 1..l
        BY <1>1, <2>1, <3>1 DEF Conversation, HelloFirst, l
      <3>2. CASE m = l + 1
        <4>1. q = << >>
          BY <1>1, <1>2, <2>1, <3>2 DEF Conversation, HelloFirst, Answers
        <4> QED
          BY <3>2, <4>1 DEF l
      <3> QED
        BY <1>1, <3>1, <3>2
    <2>2. ASSUME NEW n \in 1..Len(u), u[n].type = CONNECT PROVE FALSE
      <3>1. n + 1 = 1
        BY <1>2, <2>2 DEF Conversation, HelloFirst
      <3> QED
        BY <3>1
    <2> QED
      BY <2>1, <2>2 DEF HelloFirst
  <1>9. OneSubscription(p, u) /\ Greeting(p, u, map)
    BY <1>6, <1>7 DEF Conversation, OneSubscription, Greeting
  <1> QED
    BY <1>3, <1>4, <1>5, <1>8, <1>9 DEF Conversation, p, u

\* The client takes a frame; an acknowledged message is forgotten.
LEMMA ReceiveConverses ==
    ASSUME NEW q \in Seq(Frame), NEW t \in Seq(Sent), NEW g \in Ids, NEW map, NEW tk,
           Conversation(q, t, g, map, tk), q # << >>,
           NEW new, DOMAIN new = IF Head(q).header = 16 * PUBACK
                                 THEN DOMAIN map \ {Number(Head(q))} ELSE DOMAIN map,
           \A i \in DOMAIN new : new[i] = map[i]
    PROVE  /\ Conversation(Tail(q), t, g, new, tk)
           /\ Head(q).header = 16 * CONNACK =>
                /\ ~Hello(Tail(q), t)
                /\ \A i : ~Subscribing(Tail(q), t, i)
                /\ Cardinality(DOMAIN map) <= MaxInFlight
  <1> DEFINE u == Tail(q)
             f == Head(q)
  <1>1. /\ f = q[1] /\ 1 \in 1..Len(q)
        /\ \A n \in 1..Len(u) : n + 1 \in 1..Len(q) /\ u[n] = q[n + 1]
    BY Shrunk
  <1>2. /\ Ordered(u, t, g) /\ Latest(u, t, g)
        /\ Ack(f) => ~UnderWay(u, t, Number(f))
    BY IdsNumbered, ReceiveKeeps DEF Conversation
  <1> HIDE DEF u, f
  <1>3. f.header = 16 * PUBACK => Ack(f)
    BY DEF Ack
  <1>4. DOMAIN new = IF f.header = 16 * PUBACK THEN DOMAIN map \ {Number(f)} ELSE DOMAIN map
    BY DEF f
  <1>5. \A m \in 1..Len(u) : OkFrame(u[m], new, tk)
    <2> SUFFICES ASSUME NEW m \in 1..Len(u) PROVE OkFrame(u[m], new, tk)
      OBVIOUS
    <2>1. OkFrame(u[m], map, tk)
      BY <1>1 DEF Conversation
    <2>2. u[m].header = 16 * PUBACK => UnderWay(u, t, Number(u[m]))
      BY DEF UnderWay, Ack
    <2> QED
      BY <1>2, <1>3, <1>4, <2>1, <2>2 DEF OkFrame
  <1>6. \A n \in 1..Len(t) : OkSent(t[n], new)
    <2> SUFFICES ASSUME NEW n \in 1..Len(t) PROVE OkSent(t[n], new)
      OBVIOUS
    <2>1. OkSent(t[n], map)
      BY DEF Conversation
    <2>2. t[n].type = PUBLISH => UnderWay(u, t, t[n].id)
      BY DEF UnderWay, Draw
    <2> QED
      BY <1>2, <1>3, <1>4, <2>1, <2>2 DEF OkSent
  <1>7. \A m \in 1..Len(u) : u[m].header # 16 * CONNACK
    <2> SUFFICES ASSUME NEW m \in 1..Len(u), u[m].header = 16 * CONNACK PROVE FALSE
      OBVIOUS
    <2>1. m + 1 = 1
      BY <1>1 DEF Conversation, HelloFirst
    <2> QED
      BY <2>1
  <1>8. \A n \in 1..Len(t) : t[n].type # CONNECT
    BY DEF Conversation, HelloFirst
  <1>9. ~Hello(u, t) /\ HelloFirst(u, t)
    BY <1>7, <1>8 DEF Hello, HelloFirst
  <1>10. \A i : Subscribing(u, t, i) => Subscribing(q, t, i)
    BY <1>1 DEF Subscribing
  <1>11. OneSubscription(u, t) /\ Greeting(u, t, new)
    BY <1>9, <1>10 DEF Conversation, OneSubscription, Greeting
  <1>12. f.header = 16 * CONNACK => Hello(q, t)
    BY <1>1 DEF Hello
  <1>13. f.header = 16 * CONNACK => /\ \A i : ~Subscribing(u, t, i)
                                    /\ Cardinality(DOMAIN map) <= MaxInFlight
    BY <1>10, <1>12 DEF Conversation, Greeting
  <1> QED
    BY <1>2, <1>5, <1>6, <1>9, <1>11, <1>13 DEF Conversation, u, f

-----------------------------------------------------------------------------
(* The invariant of the ids                                                *)

Drawing ==
    /\ sock = "up" /\ sound =>
         /\ Conversation(queue, toBroker, gmid, midToMessage, taken)
         /\ subscribed => \A n \in 1..Len(toBroker) : toBroker[n].type # CONNECT
    /\ sock # "up" =>
         /\ ~subscribed
         /\ Cardinality(DOMAIN midToMessage) <= MaxInFlight

\* Finitely many messages are remembered.
LEMMA FiniteIds ==
    ASSUME Types
    PROVE  IsFiniteSet(DOMAIN midToMessage) /\ Cardinality(DOMAIN midToMessage) \in Nat
  <1>1. IsFiniteSet(Ids)
    BY SomeIds, FS_Interval DEF Ids
  <1>2. DOMAIN midToMessage \in SUBSET Ids
    BY DEF Types, TypeOK
  <1>3. IsFiniteSet(DOMAIN midToMessage)
    BY <1>1, <1>2, FS_Subset
  <1> QED
    BY <1>3, FS_CardinalityType

\* An id is not changed by the width of the field it is read from.
LEMMA SmallId == \A i \in Ids : i % IdCount = i
  <1> SUFFICES ASSUME NEW i \in Ids PROVE i % IdCount = i
    OBVIOUS
  <1> DEFINE q == i \div IdCount
             l == i % IdCount
             p == IdCount * q
  <1>1. IdCount \in Nat /\ IdCount >= 2 /\ i \in Nat /\ i < IdCount
    BY SomeIds DEF Ids
  <1>2. q \in Nat /\ l \in Nat /\ l < IdCount /\ i = IdCount * q + l
    BY <1>1
  <1> HIDE DEF q, l
  <1>3. (q # 0 => IdCount <= p) /\ p \in Nat /\ (q = 0 => p = 0)
    BY <1>1, <1>2
  <1>4. i = p + l
    BY <1>2
  <1> HIDE DEF p
  <1>5. i = l
    BY <1>1, <1>2, <1>3, <1>4
  <1> QED
    BY <1>5 DEF l

\* What was written of an id is read again.
LEMMA ReadIntIs ==
    ASSUME NEW f \in Frame, Len(f.data) >= 2, Number(f) \in Ids
    PROVE  readInt(f.data) = {Number(f)}
  <1> DEFINE n == Number(f)
  <1>1. n % IdCount = n
    <2> HIDE DEF n
    <2>1. n \in Ids
      BY DEF n
    <2> QED
      BY <2>1, SmallId
  <1>2. readInt(f.data) = {n % IdCount}
    BY DEF readInt, Number
  <1> QED
    BY <1>1, <1>2

\* The two bytes of an id hold it, alone and with the granted QoS behind them.
LEMMA WriteIntIs ==
    ASSUME NEW i \in Nat
    PROVE  /\ Len(writeInt(i)) >= 2 /\ 256 * writeInt(i)[1] + writeInt(i)[2] = i
           /\ LET s == writeInt(i) \o <<0>>
              IN  Len(s) >= 2 /\ 256 * s[1] + s[2] = i
  <1> DEFINE hi == i \div 256
             lo == i % 256
  <1>1. hi \in Nat /\ lo \in Nat /\ 256 * hi + lo = i
    OBVIOUS
  <1>2. writeInt(i) = <<hi, lo>>
    BY DEF writeInt
  <1> HIDE DEF hi, lo
  <1>3. LET s == <<hi, lo>> \o <<0>> IN Len(s) = 3 /\ s[1] = hi /\ s[2] = lo
    BY <1>1
  <1>4. Len(<<hi, lo>>) >= 2 /\ <<hi, lo>>[1] = hi /\ <<hi, lo>>[2] = lo
    OBVIOUS
  <1> QED
    BY <1>1, <1>2, <1>3, <1>4

\* The broker answers each frame that a client sends on a sound connection.
LEMMA BrokerAnswersIt ==
    ASSUME NEW f \in Sent, f.type \in {CONNECT, PUBLISH, SUBSCRIBE, PINGREQ}
    PROVE  Answer(f) # << >> /\ Answer(f)[1] \in Frame /\ Answers(Answer(f)[1], f)
  <1>1. f.id \in Nat
    BY SomeIds DEF Sent
  <1> DEFINE w == writeInt(f.id)
  <1>2. w \in Bytes /\ w \o <<0>> \in Bytes /\ <<0, 0>> \in Bytes /\ << >> \in Bytes
    <2>1. f.id \div 256 \in Nat /\ f.id % 256 \in Nat
      BY <1>1
    <2> DEFINE hi == f.id \div 256
               lo == f.id % 256
    <2>2. w = <<hi, lo>>
      BY DEF writeInt
    <2> HIDE DEF hi, lo, w
    <2>3. hi \in Nat /\ lo \in Nat
      BY <2>1 DEF hi, lo
    <2> QED
      BY <2>2, <2>3 DEF Bytes
  <1>3. /\ Len(w) >= 2 /\ 256 * w[1] + w[2] = f.id
        /\ Len(w \o <<0>>) >= 2 /\ 256 * (w \o <<0>>)[1] + (w \o <<0>>)[2] = f.id
    BY <1>1, WriteIntIs
  <1> HIDE DEF w
  <1>4. PICK a, b, c, d :
          /\ a = BrokerFrame(CONNACK, <<0, 0>>) /\ b = BrokerFrame(PUBACK, w)
          /\ c = BrokerFrame(SUBACK, w \o <<0>>) /\ d = BrokerFrame(PINGRESP, << >>)
    OBVIOUS
  <1>5. /\ f.type = CONNECT => Answer(f) = <<a>>
        /\ f.type = PUBLISH => Answer(f) = <<b>>
        /\ f.type = SUBSCRIBE => Answer(f) = <<c>>
        /\ f.type = PINGREQ => Answer(f) = <<d>>
    BY <1>4, AnswerIs DEF w
  <1>6. CONNACK \in Nat /\ PUBACK \in Nat /\ SUBACK \in Nat /\ PINGRESP \in Nat
    BY DEF CONNACK, PUBACK, SUBACK, PINGRESP
  <1>7. /\ a \in Frame /\ a.header = 16 * CONNACK
        /\ b \in Frame /\ b.header = 16 * PUBACK /\ b.data = w
        /\ c \in Frame /\ c.header = 16 * SUBACK /\ c.data = w \o <<0>>
        /\ d \in Frame /\ d.header = 16 * PINGRESP
    BY <1>2, <1>4, <1>6, BrokerFrameType
  <1>8. f.type = CONNECT => Answers(a, f)
    BY <1>7, CodesAre DEF Answers, Ack, Codes
  <1>9. f.type = PUBLISH => Answers(b, f)
    <2>1. Len(b.data) >= 2
      BY <1>3, <1>7
    <2>2. 256 * b.data[1] + b.data[2] = f.id
      BY <1>3, <1>7
    <2>3. Len(b.data) >= 2 /\ Number(b) = f.id
      BY <2>1, <2>2 DEF Number
    <2> QED
      BY <1>7, <2>3, CodesAre DEF Answers, Codes
  <1>10. f.type = SUBSCRIBE => Answers(c, f)
    <2>1. Len(c.data) >= 2 /\ Number(c) = f.id
      BY <1>3, <1>7 DEF Number
    <2> QED
      BY <1>7, <2>1, CodesAre DEF Answers, Codes
  <1>11. f.type = PINGREQ => Answers(d, f)
    BY <1>7, CodesAre DEF Answers, Ack, Codes
  <1>12. \A x : <<x>> # << >> /\ <<x>>[1] = x
    OBVIOUS
  <1> QED
    BY <1>5, <1>7, <1>8, <1>9, <1>10, <1>11, <1>12

\* A frame written on an open socket goes behind the others.
LEMMA WrittenIs ==
    ASSUME Types, sock = "up", NEW a \in Sent
    PROVE  Written(<<a>>) = Append(toBroker, a)
  <1>1. toBroker \in Seq(Sent)
    BY DEF Types
  <1> QED
    BY <1>1, AppendIsConcat DEF Written

\* Two frames written on an open socket go behind the others, in their order.
LEMMA WrittenTwo ==
    ASSUME Types, sock = "up", NEW a \in Sent, NEW b \in Sent
    PROVE  Written(<<a, b>>) = Append(Append(toBroker, a), b)
  <1>1. toBroker \in Seq(Sent) /\ <<a>> \in Seq(Sent) /\ <<b>> \in Seq(Sent)
    BY DEF Types
  <1>2. Append(toBroker, a) = toBroker \o <<a>> /\ Append(toBroker, a) \in Seq(Sent)
    BY <1>1, AppendIsConcat, AppendProperties
  <1>3. Append(Append(toBroker, a), b) = (toBroker \o <<a>>) \o <<b>>
    BY <1>2, AppendIsConcat
  <1>4. (toBroker \o <<a>>) \o <<b>> = toBroker \o (<<a>> \o <<b>>)
    BY <1>1, ConcatAssociative
  <1>5. <<a>> \o <<b>> = <<a, b>>
    <2> DEFINE s == <<a>> \o <<b>>
               u == <<a, b>>
    <2>1. s \in Seq(Sent) /\ Len(s) = 2 /\ s[1] = a /\ s[2] = b
      BY <1>1
    <2>2. u \in Seq(Sent) /\ Len(u) = 2 /\ u[1] = a /\ u[2] = b
      OBVIOUS
    <2> HIDE DEF s, u
    <2>3. \A i \in 1..2 : i = 1 \/ i = 2
      OBVIOUS
    <2>4. \A i \in 1..Len(s) : s[i] = u[i]
      BY <2>1, <2>2, <2>3
    <2>5. s = u
      BY <2>1, <2>2, <2>4, SeqEqual
    <2> QED
      BY <2>5 DEF s, u
  <1> QED
    BY <1>3, <1>4, <1>5 DEF Written

\* Sending a frame that is no greeting.
LEMMA NoGreeting ==
    ASSUME NEW t \in Seq(Sent), NEW f \in Sent, f.type # CONNECT,
           \A n \in 1..Len(t) : t[n].type # CONNECT
    PROVE  \A n \in 1..Len(Append(t, f)) : Append(t, f)[n].type # CONNECT
  <1> DEFINE u == Append(t, f)
             l == Len(t)
  <1>1. /\ u[l + 1] = f
        /\ \A n \in 1..l : u[n] = t[n]
        /\ \A n \in 1..Len(u) : n \in 1..l \/ n = l + 1
    BY Grown
  <1> HIDE DEF u, l
  <1>2. \A n \in 1..Len(u) : u[n].type # CONNECT
    BY <1>1 DEF l
  <1> QED
    BY <1>2 DEF u

\* A remembered message adds its id and changes no other.
LEMMA RememberAdds ==
    ASSUME Types, NEW id, NEW m
    PROVE  /\ DOMAIN Remember(midToMessage, id, m) = DOMAIN midToMessage \cup {id}
           /\ Remember(midToMessage, id, m)[id] = m
           /\ \A i \in DOMAIN midToMessage :
                i # id => Remember(midToMessage, id, m)[i] = midToMessage[i]
           /\ Cardinality(DOMAIN Remember(midToMessage, id, m))
                \in {Cardinality(DOMAIN midToMessage), Cardinality(DOMAIN midToMessage) + 1}
  <1> DEFINE D == DOMAIN midToMessage
             map == Remember(midToMessage, id, m)
  <1>1. /\ DOMAIN map = D \cup {id} /\ map[id] = m
        /\ \A i \in D : i # id => map[i] = midToMessage[i]
    BY DEF Remember
  <1>2. IsFiniteSet(D)
    BY FiniteIds
  <1> HIDE DEF D, map
  <1>3. Cardinality(DOMAIN map) = IF id \in D THEN Cardinality(D) ELSE Cardinality(D) + 1
    BY <1>1, <1>2, FS_AddElement
  <1> QED
    BY <1>1, <1>3 DEF D, map

\* The invariant holds before the first connection.
LEMMA InitDraws == Init => Drawing
  <1> SUFFICES ASSUME Init PROVE Drawing
    OBVIOUS
  <1>1. DOMAIN midToMessage = {} /\ sock # "up" /\ ~subscribed
    BY DEF Init
  <1>2. Cardinality(DOMAIN midToMessage) = 0
    BY <1>1, FS_EmptySet
  <1> QED
    BY <1>1, <1>2, Bounds DEF Drawing

\* Publishing draws an id that is not under way.
LEMMA PublishDraws == ASSUME Types, Quiet, Drawing, Publish PROVE Drawing'
  <1> DEFINE f == [type |-> PUBLISH, id |-> gmid, msg |-> count + 1]
             m == count + 1
             new == Remember(midToMessage, gmid, m)
  <1>1. /\ toBroker' = Written(<<f>>) /\ midToMessage' = new /\ gmid' = nextmid(gmid)
        /\ Cardinality(DOMAIN midToMessage) < MaxInFlight
        /\ UNCHANGED <<sock, queue, sound, subscribed, taken>>
    BY DEF Publish, history, channel
  <1>2. f \in Sent /\ f.type = PUBLISH /\ f.id = gmid /\ f.msg = m
    <2>1. m \in 1..MaxMessages /\ gmid \in Ids
      BY Bounds DEF Types, TypeOK, Publish
    <2> QED
      BY <2>1, Bounds DEF Sent, PUBLISH
  <1> HIDE DEF f, m
  <1>3. /\ DOMAIN new = DOMAIN midToMessage \cup {gmid} /\ new[gmid] = m
        /\ \A i \in DOMAIN midToMessage : i # gmid => new[i] = midToMessage[i]
        /\ Cardinality(DOMAIN new)
             \in {Cardinality(DOMAIN midToMessage), Cardinality(DOMAIN midToMessage) + 1}
    <2> DEFINE g == gmid
               l == m
    <2> HIDE DEF g, l
    <2>1. /\ DOMAIN Remember(midToMessage, g, l) = DOMAIN midToMessage \cup {g}
          /\ Remember(midToMessage, g, l)[g] = l
          /\ \A i \in DOMAIN midToMessage :
               i # g => Remember(midToMessage, g, l)[i] = midToMessage[i]
          /\ Cardinality(DOMAIN Remember(midToMessage, g, l))
               \in {Cardinality(DOMAIN midToMessage), Cardinality(DOMAIN midToMessage) + 1}
      BY RememberAdds
    <2> QED
      BY <2>1 DEF g, l
  <1> HIDE DEF new
  <1>4. Cardinality(DOMAIN midToMessage) <= MaxInFlight /\ Cardinality(DOMAIN new) <= MaxInFlight
    BY <1>1, <1>3, FiniteIds, Bounds
  <1>5. CASE sock # "up"
    BY <1>1, <1>4, <1>5 DEF Drawing
  <1>6. CASE sock = "up" /\ ~sound
    BY <1>1, <1>6 DEF Drawing
  <1>7. CASE sock = "up" /\ sound
    <2>1. /\ queue \in Seq(Frame) /\ toBroker \in Seq(Sent) /\ gmid \in Ids
          /\ DOMAIN midToMessage \subseteq Ids
      BY DEF Types, TypeOK
    <2>2. Conversation(queue, toBroker, gmid, midToMessage, taken)
      BY <1>7 DEF Drawing
    <2>3. ~UnderWay(queue, toBroker, gmid)
      BY <1>4, <2>1, <2>2, NextIsFree
    <2>4. Conversation(queue, Append(toBroker, f), nextmid(gmid), new, taken)
      BY <1>2, <1>3, <1>4, <2>1, <2>2, <2>3, PublishConverses
    <2>5. toBroker' = Append(toBroker, f)
      BY <1>1, <1>2, <1>7, WrittenIs
    <2>6. subscribed => \A n \in 1..Len(toBroker') : toBroker'[n].type # CONNECT
      <3>1. f.type # CONNECT
        BY <1>2, CodesAre DEF Codes
      <3>2. subscribed => \A n \in 1..Len(toBroker) : toBroker[n].type # CONNECT
        BY <1>7 DEF Drawing
      <3> QED
        BY <1>2, <2>1, <2>5, <3>1, <3>2, NoGreeting
    <2>7. Conversation(queue', toBroker', gmid', midToMessage', taken')
      BY <1>1, <2>4, <2>5
    <2> QED
      BY <1>1, <1>7, <2>6, <2>7 DEF Drawing
  <1> QED
    BY <1>5, <1>6, <1>7

\* A ping draws no id.
LEMMA PingReqDraws == ASSUME Types, Quiet, Drawing, PingReq PROVE Drawing'
  <1> DEFINE f == [type |-> PINGREQ, id |-> 0, msg |-> NoMessage]
  <1>1. /\ sock = "up" /\ toBroker' = Written(<<f>>)
        /\ UNCHANGED <<sock, gmid, midToMessage, queue, sound, subscribed, taken>>
    BY DEF PingReq, ids, history, channel
  <1>2. f \in Sent /\ f.type = PINGREQ
    BY SomeIds, Bounds DEF Sent, PINGREQ, NoMessage
  <1> HIDE DEF f
  <1>3. CASE ~sound
    BY <1>1, <1>3 DEF Drawing
  <1>4. CASE sound
    <2>1. queue \in Seq(Frame) /\ toBroker \in Seq(Sent) /\ gmid \in Ids
      BY DEF Types, TypeOK
    <2>2. Conversation(queue, toBroker, gmid, midToMessage, taken)
      BY <1>1, <1>4 DEF Drawing
    <2>3. toBroker' = Append(toBroker, f)
      BY <1>1, <1>2, WrittenIs
    <2>4. Conversation(queue, toBroker', gmid, midToMessage, taken)
      BY <1>2, <2>1, <2>2, <2>3, PingConverses
    <2>5. subscribed => \A n \in 1..Len(toBroker') : toBroker'[n].type # CONNECT
      <3>1. f.type # CONNECT
        BY <1>2, CodesAre DEF Codes
      <3>2. subscribed => \A n \in 1..Len(toBroker) : toBroker[n].type # CONNECT
        BY <1>1, <1>4 DEF Drawing
      <3> QED
        BY <1>2, <2>1, <2>3, <3>1, <3>2, NoGreeting
    <2> QED
      BY <1>1, <1>4, <2>4, <2>5 DEF Drawing
  <1> QED
    BY <1>3, <1>4

\* connectToHost ends the conversation.
LEMMA ConnectToHostDraws == ASSUME Types, Quiet, Drawing, ConnectToHost PROVE Drawing'
  <1>1. /\ sock' = IF sock = "down" THEN "connecting" ELSE sock
        /\ UNCHANGED <<toBroker, gmid, midToMessage, subscribed, taken>>
        /\ sound' = FALSE \/ UNCHANGED <<sound, queue>>
    BY DEF ConnectToHost, ids
  <1> QED
    BY <1>1 DEF Drawing

\* A connection begins with the greeting.
LEMMA NetworkConnectedDraws == ASSUME Types, Quiet, Drawing, NetworkConnected PROVE Drawing'
  <1> DEFINE f == [type |-> CONNECT, id |-> 0, msg |-> NoMessage]
  <1>1. /\ sock = "connecting" /\ sock' = "up" /\ toBroker' = <<f>> /\ sound' = TRUE
        /\ UNCHANGED <<gmid, midToMessage, queue, subscribed, taken>>
    BY DEF NetworkConnected, ids
  <1>2. /\ queue = << >> /\ ~subscribed
        /\ Cardinality(DOMAIN midToMessage) <= MaxInFlight
    BY <1>1 DEF Drawing, Quiet
  <1>3. Len(<<f>>) = 1 /\ <<f>>[1] = f /\ f.type = CONNECT
    OBVIOUS
  <1>4. PICK t : t = <<f>> /\ Len(t) = 1 /\ t[1].type = CONNECT
    BY <1>3
  <1>5. \A n \in 1..Len(t) : n = 1 /\ t[n].type = CONNECT
    BY <1>4
  <1>6. CONNECT \notin {PUBLISH, SUBSCRIBE} /\ CONNECT = 1
    BY CodesAre DEF Codes
  <1>7. Len(queue) = 0
    BY <1>2
  <1>8. \A m \in 1..Len(queue) : FALSE
    BY <1>7
  <1>9. \A n \in 1..Len(t) : OkSent(t[n], midToMessage) /\ ~Draw(t[n]) /\ t[n].type # SUBSCRIBE
    BY <1>5, <1>6 DEF OkSent, Draw
  <1>10. \A i : ~UnderWay(queue, t, i) /\ ~Subscribing(queue, t, i)
    BY <1>8, <1>9 DEF UnderWay, Subscribing
  <1>11. Ordered(queue, t, gmid) /\ Latest(queue, t, gmid)
    BY <1>8, <1>9, <1>10 DEF Ordered, Latest
  <1>12. HelloFirst(queue, t)
    BY <1>2, <1>5, <1>8 DEF HelloFirst
  <1>13. OneSubscription(queue, t) /\ Greeting(queue, t, midToMessage)
    BY <1>2, <1>10 DEF OneSubscription, Greeting
  <1>14. Conversation(queue, t, gmid, midToMessage, taken)
    BY <1>8, <1>9, <1>11, <1>12, <1>13 DEF Conversation
  <1> QED
    BY <1>1, <1>2, <1>4, <1>14 DEF Drawing

\* A refused connection draws no id.
LEMMA ConnectRefusedDraws == ASSUME Types, Quiet, Drawing, ConnectRefused PROVE Drawing'
  <1>1. sock = "connecting" /\ sock' = "down" /\ UNCHANGED <<midToMessage, subscribed>>
    BY DEF ConnectRefused, ids
  <1> QED
    BY <1>1 DEF Drawing

\* A lost connection ends the conversation.
LEMMA NetworkDisconnectedDraws ==
    ASSUME Types, Quiet, Drawing, NetworkDisconnected PROVE Drawing'
  <1>1. sock' = "down" /\ midToMessage' = << >> /\ subscribed' = FALSE
    BY DEF NetworkDisconnected
  <1>2. Cardinality(DOMAIN midToMessage') = 0
    <2>1. DOMAIN midToMessage' = {}
      BY <1>1
    <2> QED
      BY <2>1, FS_EmptySet
  <1> QED
    BY <1>1, <1>2, Bounds DEF Drawing

\* An answer carries the id of the frame that it answers.
LEMMA BrokerAnswersDraws == ASSUME Types, Quiet, Drawing, BrokerAnswers PROVE Drawing'
  <1> DEFINE f == Head(toBroker)
             answer == Answer(f)
  <1>1. /\ toBroker # << >> /\ toBroker' = Tail(toBroker)
        /\ taken' = (IF f.type = PUBLISH THEN taken \cup {f.msg} ELSE taken)
        /\ subscribed' = (subscribed \/ f.type = SUBSCRIBE)
        /\ IF answer # << >> THEN BrokerWrites(answer[1]) ELSE UNCHANGED <<wire, queue>>
        /\ UNCHANGED <<sock, gmid, midToMessage, sound>>
    BY DEF BrokerAnswers, ids
  <1>2. sock = "up"
    BY <1>1, SomethingUp
  <1>3. CASE ~sound
    BY <1>1, <1>2, <1>3 DEF Drawing
  <1>4. CASE sound
    <2>1. queue \in Seq(Frame) /\ toBroker \in Seq(Sent) /\ gmid \in Ids
      BY DEF Types, TypeOK
    <2>2. Conversation(queue, toBroker, gmid, midToMessage, taken)
      BY <1>2, <1>4 DEF Drawing
    <2>3. /\ f \in Sent /\ f = toBroker[1] /\ 1 \in 1..Len(toBroker)
          /\ \A n \in 1..Len(Tail(toBroker)) :
               n + 1 \in 1..Len(toBroker) /\ Tail(toBroker)[n] = toBroker[n + 1]
      BY <1>1, <2>1, Shrunk
    <2>4. f.type \in {CONNECT, PUBLISH, SUBSCRIBE, PINGREQ}
      BY <2>2, <2>3 DEF Conversation, OkSent
    <2>5. answer # << >> /\ answer[1] \in Frame /\ Answers(answer[1], f)
      BY <2>3, <2>4, BrokerAnswersIt
    <2> DEFINE a == answer[1]
    <2>6. queue' = Append(queue, a)
      BY <1>1, <1>4, <2>5 DEF BrokerWrites
    <2> HIDE DEF answer, a
    <2>7. taken \subseteq taken' /\ (f.type = PUBLISH => f.msg \in taken')
      BY <1>1
    <2>8. Conversation(Append(queue, a), Tail(toBroker), gmid, midToMessage, taken')
      BY <1>1, <2>1, <2>2, <2>5, <2>7, AnswerConverses DEF a
    <2>9. \A n \in 1..Len(toBroker') : toBroker'[n].type # CONNECT
      <3> SUFFICES ASSUME NEW n \in 1..Len(Tail(toBroker)), Tail(toBroker)[n].type = CONNECT
                   PROVE  FALSE
        BY <1>1
      <3>1. n + 1 = 1
        BY <2>2, <2>3 DEF Conversation, HelloFirst
      <3> QED
        BY <3>1
    <2> QED
      BY <1>1, <1>2, <1>4, <2>6, <2>8, <2>9 DEF Drawing
  <1> QED
    BY <1>3, <1>4

\* A command of the broker carries no id that was drawn.
LEMMA BrokerCommandsDraws == ASSUME Types, Quiet, Drawing, BrokerCommands PROVE Drawing'
  <1> DEFINE f == BrokerFrame(PUBLISH, <<0, 1, 116, 49>>)
  <1>1. /\ sock = "up" /\ subscribed /\ BrokerWrites(f)
        /\ UNCHANGED <<sock, toBroker, gmid, midToMessage, subscribed, taken, sound>>
    BY DEF BrokerCommands, ids
  <1>2. f \in Frame /\ f.header = 16 * PUBLISH
    BY CommandType DEF BrokerFrame
  <1> HIDE DEF f
  <1>3. CASE ~sound
    BY <1>1, <1>3 DEF Drawing
  <1>4. CASE sound
    <2>1. queue \in Seq(Frame) /\ toBroker \in Seq(Sent) /\ gmid \in Ids
      BY DEF Types, TypeOK
    <2>2. /\ Conversation(queue, toBroker, gmid, midToMessage, taken)
          /\ \A n \in 1..Len(toBroker) : toBroker[n].type # CONNECT
      BY <1>1, <1>4 DEF Drawing
    <2>3. queue' = Append(queue, f)
      BY <1>1, <1>4 DEF BrokerWrites
    <2>4. Conversation(queue', toBroker, gmid, midToMessage, taken)
      BY <1>2, <2>1, <2>2, <2>3, CommandConverses
    <2> QED
      BY <1>1, <1>4, <2>2, <2>4 DEF Drawing
  <1> QED
    BY <1>3, <1>4

\* A forgotten id takes no other message along.
LEMMA ForgetTakes ==
    ASSUME Types, NEW id
    PROVE  /\ DOMAIN Forget(midToMessage, id) = DOMAIN midToMessage \ {id}
           /\ \A i \in DOMAIN Forget(midToMessage, id) :
                Forget(midToMessage, id)[i] = midToMessage[i]
  BY DEF Forget

\* What is published is marked with the soundness of the connection.
LEMMA EmitsIs ==
    ASSUME NEW f, onNetworkReceived(f)
    PROVE  \A e \in emitted' : e \in emitted \/ e.sound = sound
  <1>1. ASSUME NEW m, Emits(m) PROVE \A e \in emitted' : e \in emitted \/ e.sound = sound
    BY <1>1 DEF Emits
  <1>2. CASE emitted' = emitted
    BY <1>2
  <1>3. ASSUME NEW type, NEW id, handlePuback(type, id)
        PROVE  (\E m : Emits(m)) \/ emitted' = emitted
    BY <1>3 DEF handlePuback
  <1>4. (\E m : Emits(m)) \/ emitted' = emitted
    BY <1>3 DEF onNetworkReceived, handleConnack, handlePublish
  <1> QED
    BY <1>1, <1>2, <1>4

\* The greeting is answered: the client subscribes, and may send its version.
LEMMA ConnackDraws ==
    ASSUME Types, sock = "up", handleConnack,
           NEW q \in Seq(Frame), Conversation(q, toBroker, gmid, midToMessage, taken),
           ~Hello(q, toBroker), \A i : ~Subscribing(q, toBroker, i),
           Cardinality(DOMAIN midToMessage) <= MaxInFlight
    PROVE  /\ Conversation(q, toBroker', gmid', midToMessage', taken)
           /\ \A n \in 1..Len(toBroker') : toBroker'[n].type # CONNECT
  <1>1. PICK version \in BOOLEAN :
          LET publishes == version /\ count < MaxMessages
              id2 == nextmid(gmid)
              subscribe == [type |-> SUBSCRIBE, id |-> gmid, msg |-> NoMessage]
              publish == [type |-> PUBLISH, id |-> id2, msg |-> count + 1]
          IN  /\ gmid' = IF publishes THEN nextmid(id2) ELSE id2
              /\ toBroker' = Written(IF publishes THEN <<subscribe, publish>> ELSE <<subscribe>>)
              /\ midToMessage' = IF publishes THEN Remember(midToMessage, id2, count + 1)
                                 ELSE midToMessage
    BY DEF handleConnack
  <1> DEFINE publishes == version /\ count < MaxMessages
             h == nextmid(gmid)
             m == count + 1
             s == [type |-> SUBSCRIBE, id |-> gmid, msg |-> NoMessage]
             p == [type |-> PUBLISH, id |-> h, msg |-> m]
             t == Append(toBroker, s)
  <1>2. /\ gmid \in Ids /\ h \in Ids /\ toBroker \in Seq(Sent) /\ DOMAIN midToMessage \subseteq Ids
        /\ count \in 0..MaxMessages /\ MaxMessages \in Nat
    BY NextmidType, Bounds DEF Types, TypeOK
  <1>3. s \in Sent /\ s.type = SUBSCRIBE /\ s.id = gmid
    BY <1>2 DEF Sent, SUBSCRIBE, NoMessage
  <1>4. publishes => p \in Sent /\ p.type = PUBLISH /\ p.id = h /\ p.msg = m
    BY <1>2 DEF Sent, PUBLISH
  <1>5. SUBSCRIBE # CONNECT /\ PUBLISH # CONNECT
    BY CodesAre DEF Codes
  <1>6. \A n \in 1..Len(toBroker) : toBroker[n].type # CONNECT
    BY DEF Hello
  <1>7. \/ /\ publishes
           /\ gmid' = nextmid(h) /\ toBroker' = Written(<<s, p>>)
           /\ midToMessage' = Remember(midToMessage, h, m)
        \/ ~publishes /\ gmid' = h /\ toBroker' = Written(<<s>>) /\ midToMessage' = midToMessage
    BY <1>1
  <1> HIDE DEF s, p, m, publishes
  <1>8. t \in Seq(Sent) /\ \A n \in 1..Len(t) : t[n].type # CONNECT
    <2>1. t \in Seq(Sent)
      BY <1>2, <1>3, AppendProperties
    <2>2. s.type # CONNECT
      BY <1>3, <1>5
    <2> QED
      BY <1>2, <1>3, <1>6, <2>1, <2>2, NoGreeting
  <1>9. ~UnderWay(q, toBroker, gmid)
    BY <1>2, NextIsFree
  <1>10. Conversation(q, t, h, midToMessage, taken) /\ ~Hello(q, t)
    BY <1>2, <1>3, <1>9, SubscribeConverses
  <1>11. ~UnderWay(q, t, h)
    <2>1. Draw(s)
      BY <1>3 DEF Draw
    <2> QED
      BY <1>2, <1>3, <2>1, SecondIsFree
  <1>12. CASE publishes
    <2>1. toBroker' = Append(t, p)
      BY <1>3, <1>4, <1>7, <1>12, WrittenTwo
    <2>2. midToMessage' = Remember(midToMessage, h, m) /\ gmid' = nextmid(h)
      BY <1>7, <1>12
    <2> DEFINE new == Remember(midToMessage, h, m)
    <2>3. /\ DOMAIN new = DOMAIN midToMessage \cup {h} /\ new[h] = m
          /\ \A i \in DOMAIN midToMessage : i # h => new[i] = midToMessage[i]
      <3> DEFINE g == h
                 l == m
      <3> HIDE DEF g, l
      <3>1. /\ DOMAIN Remember(midToMessage, g, l) = DOMAIN midToMessage \cup {g}
            /\ Remember(midToMessage, g, l)[g] = l
            /\ \A i \in DOMAIN midToMessage :
                 i # g => Remember(midToMessage, g, l)[i] = midToMessage[i]
            /\ Cardinality(DOMAIN Remember(midToMessage, g, l))
                 \in {Cardinality(DOMAIN midToMessage), Cardinality(DOMAIN midToMessage) + 1}
        BY RememberAdds
      <3> QED
        BY <3>1 DEF g, l
    <2> HIDE DEF h
    <2> HIDE DEF new, t
    <2>4. Conversation(q, Append(t, p), nextmid(h), new, taken)
      BY <1>2, <1>4, <1>8, <1>10, <1>11, <1>12, <2>3, PublishConverses
    <2>5. \A n \in 1..Len(toBroker') : toBroker'[n].type # CONNECT
      <3>1. p \in Sent /\ p.type # CONNECT
        BY <1>4, <1>5, <1>12
      <3> QED
        BY <1>8, <2>1, <3>1, NoGreeting
    <2> QED
      BY <2>1, <2>2, <2>4, <2>5 DEF new
  <1>13. CASE ~publishes
    <2>1. toBroker' = t
      BY <1>3, <1>7, <1>13, WrittenIs
    <2> QED
      BY <1>7, <1>8, <1>10, <1>13, <2>1
  <1> QED
    BY <1>12, <1>13

\* A frame is received on a sound connection.
LEMMA ReceiveDraws ==
    ASSUME Types, Quiet, Drawing, AckMeansTaken, Read, sound, queue # << >>,
           NEW f \in Frame, f = Head(queue), Received(f)
    PROVE  Drawing' /\ AckMeansTaken'
  <1>1. /\ sock = "up" /\ UNCHANGED <<sock, subscribed, taken, sound>>
        /\ queue' = Tail(queue) /\ onNetworkReceived(f)
    BY DEF Read, Received
  <1>2. /\ queue \in Seq(Frame) /\ toBroker \in Seq(Sent) /\ gmid \in Ids
    BY DEF Types, TypeOK
  <1>3. /\ Conversation(queue, toBroker, gmid, midToMessage, taken)
        /\ subscribed => \A n \in 1..Len(toBroker) : toBroker[n].type # CONNECT
    BY <1>1 DEF Drawing
  <1>4. OkFrame(f, midToMessage, taken)
    BY <1>2, <1>3, Shrunk DEF Conversation
  <1>5. queue' \in Seq(Frame)
    BY <1>1, <1>2, HeadTailProperties
  <1> DEFINE type == f.header \div 16
             Same == \* nothing changes but the queue
                     UNCHANGED <<toBroker, gmid, midToMessage, emitted>>
  <1>6. ASSUME f.header # 16 * PUBACK
        PROVE  /\ Conversation(queue', toBroker, gmid, midToMessage, taken)
               /\ f.header = 16 * CONNACK =>
                    /\ ~Hello(queue', toBroker)
                    /\ \A i : ~Subscribing(queue', toBroker, i)
                    /\ Cardinality(DOMAIN midToMessage) <= MaxInFlight
    BY <1>1, <1>2, <1>3, <1>6, ReceiveConverses
  <1>7. ASSUME f.header # 16 * PUBACK, Same
        PROVE  Drawing' /\ AckMeansTaken'
    <2>1. Conversation(queue', toBroker', gmid', midToMessage', taken')
      BY <1>1, <1>6, <1>7
    <2>2. subscribed' => \A n \in 1..Len(toBroker') : toBroker'[n].type # CONNECT
      BY <1>1, <1>3, <1>7
    <2> QED
      BY <1>1, <1>7, <2>1, <2>2 DEF Drawing, AckMeansTaken
  <1>8. CASE f.header = 16 * CONNACK
    <2>1. type = CONNACK
      BY <1>8, CodesAre DEF Codes, CONNACK
    <2>2. handleConnack
      BY <1>1, <2>1 DEF onNetworkReceived, CONNACK, PUBLISH, PUBACK, PUBREC, PUBREL, PUBCOMP,
                        SUBACK, UNSUBACK
    <2>3. f.header # 16 * PUBACK
      BY <1>8, CodesAre DEF Codes
    <2>4. /\ Conversation(queue', toBroker', gmid', midToMessage', taken)
          /\ \A n \in 1..Len(toBroker') : toBroker'[n].type # CONNECT
      BY <1>1, <1>5, <1>6, <1>8, <2>2, <2>3, ConnackDraws
    <2>5. emitted' = emitted
      BY <2>2 DEF handleConnack
    <2> QED
      BY <1>1, <2>4, <2>5 DEF Drawing, AckMeansTaken
  <1>9. CASE f.header = 16 * PUBLISH
    <2>1. type = PUBLISH /\ (f.header \div 2) % 4 = 0
      BY <1>9, CodesAre DEF Codes
    <2>2. handlePublish(f)
      BY <1>1, <2>1 DEF onNetworkReceived, CONNACK, PUBLISH, PUBACK, PUBREC, PUBREL, PUBCOMP,
                        SUBACK, UNSUBACK
    <2>3. Same
      BY <2>1, <2>2 DEF handlePublish, ids
    <2>4. f.header # 16 * PUBACK
      BY <1>9, CodesAre DEF Codes
    <2> QED
      BY <1>7, <2>3, <2>4
  <1>10. CASE f.header = 16 * SUBACK
    <2>1. type = SUBACK
      BY <1>10, CodesAre DEF Codes, SUBACK
    <2>2. Same
      BY <1>1, <2>1 DEF onNetworkReceived, CONNACK, PUBLISH, PUBACK, PUBREC, PUBREL, PUBCOMP,
                        SUBACK, UNSUBACK
    <2>3. f.header # 16 * PUBACK
      BY <1>10, CodesAre DEF Codes
    <2> QED
      BY <1>7, <2>2, <2>3
  <1>11. CASE f.header = 16 * PINGRESP
    <2>1. type = PINGRESP
      BY <1>11, CodesAre DEF Codes, PINGRESP
    <2>2. Same
      BY <1>1, <2>1 DEF onNetworkReceived, CONNACK, PUBLISH, PUBACK, PUBREC, PUBREL, PUBCOMP,
                        SUBACK, UNSUBACK, PINGRESP, ids
    <2>3. f.header # 16 * PUBACK
      BY <1>11, CodesAre DEF Codes
    <2> QED
      BY <1>7, <2>2, <2>3
  <1>12. CASE f.header = 16 * PUBACK
    <2>1. type = PUBACK
      BY <1>12, CodesAre DEF Codes, PUBACK
    <2>2. PICK id \in readInt(f.data) : handlePuback(type, id)
      BY <1>1, <2>1 DEF onNetworkReceived, CONNACK, PUBLISH, PUBACK, PUBREC, PUBREL, PUBCOMP,
                        SUBACK, UNSUBACK
    <2>3. id = Number(f) /\ id \in DOMAIN midToMessage /\ midToMessage[id] \in taken
      <3>1. Len(f.data) >= 2 /\ Number(f) \in Ids
        BY <1>4, <1>12 DEF OkFrame, Ack
      <3>2. readInt(f.data) = {Number(f)}
        BY <3>1, ReadIntIs
      <3> QED
        BY <1>4, <1>12, <2>2, <3>2 DEF OkFrame
    <2>4. /\ Emits(midToMessage[id]) /\ midToMessage' = Forget(midToMessage, id)
          /\ UNCHANGED <<toBroker, gmid>>
      BY <2>1, <2>2, <2>3 DEF handlePuback
    <2>5. /\ DOMAIN midToMessage' = DOMAIN midToMessage \ {Number(f)}
          /\ \A i \in DOMAIN midToMessage' : midToMessage'[i] = midToMessage[i]
      BY <2>3, <2>4, ForgetTakes
    <2>6. Conversation(queue', toBroker, gmid, midToMessage', taken)
      <3>1. DOMAIN midToMessage' = IF Head(queue).header = 16 * PUBACK
                                   THEN DOMAIN midToMessage \ {Number(Head(queue))}
                                   ELSE DOMAIN midToMessage
        BY <1>12, <2>5
      <3> QED
        BY <1>1, <1>2, <1>3, <2>5, <3>1, ReceiveConverses
    <2>7. Drawing'
      BY <1>1, <1>3, <2>4, <2>6 DEF Drawing
    <2>8. AckMeansTaken'
      <3>1. emitted' = emitted \cup {[msg |-> midToMessage[id], sound |-> sound]}
        BY <2>4 DEF Emits
      <3> QED
        BY <1>1, <2>3, <3>1 DEF AckMeansTaken
    <2> QED
      BY <2>7, <2>8
  <1>13. f.header \in {16 * CONNACK, 16 * PUBLISH, 16 * PUBACK, 16 * SUBACK, 16 * PINGRESP}
    BY <1>4 DEF OkFrame
  <1> QED
    BY <1>8, <1>9, <1>10, <1>11, <1>12, <1>13

\* Reading a byte keeps the conversation.
LEMMA ReadDraws ==
    ASSUME Types, Quiet, Parsing, Drawing, AckMeansTaken, Read
    PROVE  Drawing' /\ AckMeansTaken'
  <1>1. sock = "up" /\ UNCHANGED <<sock, subscribed, taken, sound>>
    BY DEF Read
  <1>2. Outcome
    BY ReadParses
  <1>3. CASE NothingReceived
    BY <1>1, <1>3 DEF NothingReceived, ids, Drawing, AckMeansTaken
  <1>4. ASSUME NEW f \in Frame, Received(f), sound => queue # << >> /\ f = Head(queue)
        PROVE  Drawing' /\ AckMeansTaken'
    <2>1. CASE sound
      BY <1>4, <2>1, ReceiveDraws
    <2>2. CASE ~sound
      <3>1. \A e \in emitted' : e \in emitted \/ e.sound = sound
        BY <1>4, EmitsIs DEF Received
      <3> QED
        BY <1>1, <2>2, <3>1 DEF Drawing, AckMeansTaken
    <2> QED
      BY <2>1, <2>2
  <1> QED
    BY <1>2, <1>3, <1>4 DEF Outcome

\* The invariant behind AckMeansTaken.
Acknowledging == Linked /\ Drawing /\ AckMeansTaken

\* The invariant holds before the first connection.
LEMMA InitAcknowledging == Init => Acknowledging
  <1>1. Init => AckMeansTaken
    BY DEF Init, AckMeansTaken
  <1> QED
    BY <1>1, InitLinked, InitDraws DEF Acknowledging

\* Only a byte read can publish a signal.
LEMMA OnlyReadEmits ==
    ASSUME AckMeansTaken, emitted' = emitted, taken \subseteq taken'
    PROVE  AckMeansTaken'
  BY DEF AckMeansTaken

\* Every step keeps the invariant.
LEMMA NextAcknowledging ==
    ASSUME Acknowledging, [Next]_vars
    PROVE  Acknowledging'
  <1>1. Linked' /\ Types /\ Quiet /\ Parsing /\ Drawing /\ AckMeansTaken
    BY NextLinked DEF Acknowledging, Linked
  <1> SUFFICES Drawing' /\ AckMeansTaken'
    BY <1>1 DEF Acknowledging
  <1>2. CASE Publish
    <2>1. UNCHANGED <<emitted, taken>>
      BY <1>2 DEF Publish, history
    <2> QED
      BY <1>1, <1>2, <2>1, PublishDraws, OnlyReadEmits
  <1>3. CASE PingReq
    <2>1. UNCHANGED <<emitted, taken>>
      BY <1>3 DEF PingReq, history
    <2> QED
      BY <1>1, <1>3, <2>1, PingReqDraws, OnlyReadEmits
  <1>4. CASE ConnectToHost
    <2>1. UNCHANGED <<emitted, taken>>
      BY <1>4 DEF ConnectToHost
    <2> QED
      BY <1>1, <1>4, <2>1, ConnectToHostDraws, OnlyReadEmits
  <1>5. CASE NetworkConnected
    <2>1. UNCHANGED <<emitted, taken>>
      BY <1>5 DEF NetworkConnected
    <2> QED
      BY <1>1, <1>5, <2>1, NetworkConnectedDraws, OnlyReadEmits
  <1>6. CASE ConnectRefused
    <2>1. UNCHANGED <<emitted, taken>>
      BY <1>6 DEF ConnectRefused, history
    <2> QED
      BY <1>1, <1>6, <2>1, ConnectRefusedDraws, OnlyReadEmits
  <1>7. CASE NetworkDisconnected
    <2>1. UNCHANGED <<emitted, taken>>
      BY <1>7 DEF NetworkDisconnected
    <2> QED
      BY <1>1, <1>7, <2>1, NetworkDisconnectedDraws, OnlyReadEmits
  <1>8. CASE BrokerAnswers
    <2>1. emitted' = emitted /\ taken \subseteq taken'
      BY <1>8 DEF BrokerAnswers
    <2> QED
      BY <1>1, <1>8, <2>1, BrokerAnswersDraws, OnlyReadEmits
  <1>9. CASE BrokerCommands
    <2>1. UNCHANGED <<emitted, taken>>
      BY <1>9 DEF BrokerCommands
    <2> QED
      BY <1>1, <1>9, <2>1, BrokerCommandsDraws, OnlyReadEmits
  <1>10. CASE Read
    BY <1>1, <1>10, ReadDraws
  <1>11. CASE UNCHANGED vars
    BY <1>1, <1>11 DEF vars, ids, history, channel, Drawing, AckMeansTaken
  <1> QED
    BY <1>2, <1>3, <1>4, <1>5, <1>6, <1>7, <1>8, <1>9, <1>10, <1>11 DEF Next

\* A published signal of a sound connection names a message that the broker
\* has taken: its id was drawn once among the frames under way, whenever the
\* ids wrap and whatever was published while there was no connection.
THEOREM AcknowledgedMeansTaken == Spec => []AckMeansTaken
  <1>1. Acknowledging => AckMeansTaken
    BY DEF Acknowledging
  <1>2. Acknowledging /\ [Next]_vars => Acknowledging'
    BY NextAcknowledging
  <1> QED
    BY InitAcknowledging, <1>1, <1>2, PTL DEF Spec

-----------------------------------------------------------------------------
(* The way of a message                                                    *)

Live == sock = "up" /\ sound

\* The k-th frame of t takes the message m to the broker.
Goes(t, m, k) == k \in 1..Len(t) /\ t[k].type = PUBLISH /\ t[k].msg = m

\* The k-th frame of q acknowledges the message m.
Returns(q, map, m, k) ==
    /\ k \in 1..Len(q)
    /\ q[k].header = 16 * PUBACK
    /\ Number(q[k]) \in DOMAIN map
    /\ map[Number(q[k])] = m

Signalled(m) == [msg |-> m, sound |-> TRUE] \in emitted

\* Only messages are named in what the client sends.
Named(t) == \A k \in 1..Len(t) : t[k].msg # NoMessage => t[k].type = PUBLISH

\* A message on its way: it goes to the broker, and its acknowledgement is
\* among the bytes to come.
OnItsWay ==
    Live => \A m \in 1..MaxMessages :
      /\ WrittenOn(m) => \E k \in Nat : Goes(toBroker, m, k)
      /\ \A k \in Nat : Returns(queue, midToMessage, m, k) => wire # << >>

\* In a step a message keeps its place while no frame before it is taken, and
\* moves up when one is; the first to be taken becomes an acknowledgement
\* behind the others, and the first acknowledgement a signal.
Advances ==
    \A m \in 1..MaxMessages, k \in Nat :
      /\ Goes(toBroker, m, k) =>
           \/ Len(toBroker') >= Len(toBroker) /\ Goes(toBroker', m, k)
           \/ k > 1 /\ Goes(toBroker', m, k - 1)
           \/ k = 1 /\ Returns(queue', midToMessage', m, Len(queue'))
      /\ Returns(queue, midToMessage, m, k) =>
           \/ Len(queue') >= Len(queue) /\ Returns(queue', midToMessage', m, k)
           \/ k > 1 /\ Returns(queue', midToMessage', m, k - 1)
           \/ k = 1 /\ Signalled(m)'

\* A frame that is sent leaves those before it in their places.
LEMMA SentBehind ==
    ASSUME NEW t \in Seq(Sent), NEW f \in Sent
    PROVE  /\ Append(t, f) \in Seq(Sent) /\ Len(Append(t, f)) >= Len(t)
           /\ \A m, k : Goes(t, m, k) => Goes(Append(t, f), m, k)
           /\ Named(t) /\ (f.msg # NoMessage => f.type = PUBLISH) => Named(Append(t, f))
  <1> DEFINE u == Append(t, f)
             l == Len(t)
  <1>1. /\ u \in Seq(Sent) /\ l \in Nat /\ Len(u) = l + 1 /\ u[l + 1] = f
        /\ \A n \in 1..l : n \in 1..Len(u) /\ u[n] = t[n]
        /\ \A n \in 1..Len(u) : n \in 1..l \/ n = l + 1
    BY Grown
  <1> HIDE DEF u, l
  <1>2. Len(u) >= l
    BY <1>1
  <1>3. \A m, k : Goes(t, m, k) => Goes(u, m, k)
    BY <1>1 DEF Goes, l
  <1>4. Named(t) /\ (f.msg # NoMessage => f.type = PUBLISH) => Named(u)
    BY <1>1 DEF Named, l
  <1> QED
    BY <1>1, <1>2, <1>3, <1>4 DEF u, l

\* So does a frame that the broker writes.
LEMMA WrittenBehind ==
    ASSUME NEW q \in Seq(Frame), NEW f \in Frame
    PROVE  /\ Append(q, f) \in Seq(Frame) /\ Len(Append(q, f)) >= Len(q)
           /\ \A map, m, k : Returns(q, map, m, k) => Returns(Append(q, f), map, m, k)
           /\ \A map, m : f.header = 16 * PUBACK /\ Number(f) \in DOMAIN map /\ map[Number(f)] = m
                            => Returns(Append(q, f), map, m, Len(Append(q, f)))
  <1> DEFINE u == Append(q, f)
             l == Len(q)
  <1>1. /\ u \in Seq(Frame) /\ l \in Nat /\ Len(u) = l + 1 /\ u[l + 1] = f
        /\ \A n \in 1..l : n \in 1..Len(u) /\ u[n] = q[n]
        /\ l + 1 \in 1..Len(u)
    BY Grown
  <1> HIDE DEF u, l
  <1>2. Len(u) >= l
    BY <1>1
  <1>3. \A map, m, k : Returns(q, map, m, k) => Returns(u, map, m, k)
    BY <1>1 DEF Returns, l
  <1>4. \A map, m : f.header = 16 * PUBACK /\ Number(f) \in DOMAIN map /\ map[Number(f)] = m
                      => Returns(u, map, m, Len(u))
    BY <1>1 DEF Returns
  <1> QED
    BY <1>1, <1>2, <1>3, <1>4 DEF u, l

\* Remembering a message under an id that is not under way changes the meaning
\* of no acknowledgement.
LEMMA MeaningKept ==
    ASSUME NEW q, NEW t, NEW g, NEW map, NEW new, ~UnderWay(q, t, g),
           DOMAIN new = DOMAIN map \cup {g}, \A i \in DOMAIN map : i # g => new[i] = map[i]
    PROVE  \A m, k : Returns(q, map, m, k) => Returns(q, new, m, k)
  <1> SUFFICES ASSUME NEW m, NEW k, Returns(q, map, m, k) PROVE Returns(q, new, m, k)
    OBVIOUS
  <1>1. Number(q[k]) # g
    BY DEF Returns, UnderWay, Ack
  <1> QED
    BY <1>1 DEF Returns

\* The acknowledgements behind the first move up.
LEMMA MovesUp ==
    ASSUME NEW q \in Seq(Frame), q # << >>
    PROVE  \A map, m : \A k \in Nat :
             Returns(q, map, m, k) =>
               \/ k > 1 /\ Returns(Tail(q), map, m, k - 1)
               \/ /\ k = 1 /\ Head(q).header = 16 * PUBACK
                  /\ Number(Head(q)) \in DOMAIN map /\ map[Number(Head(q))] = m
  <1> DEFINE p == Tail(q)
  <1>1. /\ Head(q) = q[1]
        /\ \A n \in 1..Len(q) : n = 1 \/ (n - 1 \in 1..Len(p) /\ p[n - 1] = q[n])
        /\ Len(q) \in Nat
    BY Shrunk, LenProperties
  <1> HIDE DEF p
  <1> SUFFICES ASSUME NEW map, NEW m, NEW k \in Nat, Returns(q, map, m, k)
               PROVE  \/ k > 1 /\ Returns(p, map, m, k - 1)
                      \/ /\ k = 1 /\ Head(q).header = 16 * PUBACK
                         /\ Number(Head(q)) \in DOMAIN map /\ map[Number(Head(q))] = m
    BY DEF p
  <1>2. CASE k = 1
    BY <1>1, <1>2 DEF Returns
  <1>3. CASE k # 1
    <2>1. k \in 1..Len(q)
      BY DEF Returns
    <2>2. k > 1 /\ k - 1 \in 1..Len(p) /\ p[k - 1] = q[k]
      BY <1>1, <1>3, <2>1
    <2> QED
      BY <2>2 DEF Returns
  <1> QED
    BY <1>2, <1>3

\* So do the messages.
LEMMA MessagesMoveUp ==
    ASSUME NEW t \in Seq(Sent), t # << >>
    PROVE  /\ Named(t) => Named(Tail(t))
           /\ \A m : \A k \in Nat :
                Goes(t, m, k) =>
                  \/ k > 1 /\ Goes(Tail(t), m, k - 1)
                  \/ k = 1 /\ Head(t).type = PUBLISH /\ Head(t).msg = m
  <1> DEFINE u == Tail(t)
  <1>1. /\ Head(t) = t[1]
        /\ \A n \in 1..Len(u) : n + 1 \in 1..Len(t) /\ u[n] = t[n + 1]
        /\ \A n \in 1..Len(t) : n = 1 \/ (n - 1 \in 1..Len(u) /\ u[n - 1] = t[n])
        /\ Len(t) \in Nat
    BY Shrunk, LenProperties
  <1> HIDE DEF u
  <1>2. Named(t) => Named(u)
    BY <1>1 DEF Named
  <1>3. ASSUME NEW m, NEW k \in Nat, Goes(t, m, k)
        PROVE  \/ k > 1 /\ Goes(u, m, k - 1)
               \/ k = 1 /\ Head(t).type = PUBLISH /\ Head(t).msg = m
    <2>1. CASE k = 1
      BY <1>1, <1>3, <2>1 DEF Goes
    <2>2. CASE k # 1
      <3>1. k \in 1..Len(t)
        BY <1>3 DEF Goes
      <3>2. k > 1 /\ k - 1 \in 1..Len(u) /\ u[k - 1] = t[k]
        BY <1>1, <2>2, <3>1
      <3> QED
        BY <1>3, <3>2 DEF Goes
    <2> QED
      BY <2>1, <2>2
  <1> QED
    BY <1>2, <1>3 DEF u

\* Publishing lets what is under way advance.
LEMMA PublishAdvances ==
    ASSUME Types, Drawing, Live, Named(toBroker), Publish
    PROVE  Advances /\ Named(toBroker')
  <1> DEFINE f == [type |-> PUBLISH, id |-> gmid, msg |-> count + 1]
             m == count + 1
             new == Remember(midToMessage, gmid, m)
  <1>1. /\ toBroker' = Written(<<f>>) /\ midToMessage' = new /\ queue' = queue
        /\ Cardinality(DOMAIN midToMessage) < MaxInFlight
    BY DEF Publish, history, channel
  <1>2. f \in Sent /\ f.type = PUBLISH
    <2>1. m \in 1..MaxMessages /\ gmid \in Ids
      BY Bounds DEF Types, TypeOK, Publish
    <2> QED
      BY <2>1, Bounds DEF Sent, PUBLISH
  <1>3. /\ queue \in Seq(Frame) /\ toBroker \in Seq(Sent) /\ gmid \in Ids
        /\ DOMAIN midToMessage \subseteq Ids
        /\ Conversation(queue, toBroker, gmid, midToMessage, taken)
    BY DEF Types, TypeOK, Live, Drawing
  <1>4. Cardinality(DOMAIN midToMessage) <= MaxInFlight
    BY <1>1, FiniteIds, Bounds
  <1>5. ~UnderWay(queue, toBroker, gmid)
    BY <1>3, <1>4, NextIsFree
  <1>6. toBroker' = Append(toBroker, f)
    BY <1>1, <1>2, WrittenIs DEF Live
  <1>7. /\ DOMAIN new = DOMAIN midToMessage \cup {gmid}
        /\ \A i \in DOMAIN midToMessage : i # gmid => new[i] = midToMessage[i]
    BY DEF Remember
  <1> HIDE DEF f, m, new
  <1>8. \A n, k : Returns(queue, midToMessage, n, k) => Returns(queue', midToMessage', n, k)
    BY <1>1, <1>5, <1>7, MeaningKept
  <1>9. /\ Len(toBroker') >= Len(toBroker) /\ Named(toBroker')
        /\ \A n, k : Goes(toBroker, n, k) => Goes(toBroker', n, k)
    BY <1>2, <1>3, <1>6, SentBehind
  <1>10. Len(queue') >= Len(queue)
    BY <1>1, <1>3, LenProperties
  <1> QED
    BY <1>8, <1>9, <1>10 DEF Advances

\* So does a ping.
LEMMA PingReqAdvances ==
    ASSUME Types, Live, Named(toBroker), PingReq
    PROVE  Advances /\ Named(toBroker')
  <1> DEFINE f == [type |-> PINGREQ, id |-> 0, msg |-> NoMessage]
  <1>1. toBroker' = Written(<<f>>) /\ midToMessage' = midToMessage /\ queue' = queue
    BY DEF PingReq, history, channel, ids
  <1>2. f \in Sent /\ f.msg = NoMessage
    BY SomeIds, Bounds DEF Sent, PINGREQ, NoMessage
  <1>3. queue \in Seq(Frame) /\ toBroker \in Seq(Sent)
    BY DEF Types
  <1>4. toBroker' = Append(toBroker, f)
    BY <1>1, <1>2, WrittenIs DEF Live
  <1> HIDE DEF f
  <1>5. /\ Len(toBroker') >= Len(toBroker) /\ Named(toBroker')
        /\ \A n, k : Goes(toBroker, n, k) => Goes(toBroker', n, k)
    BY <1>2, <1>3, <1>4, SentBehind
  <1>6. Len(queue') >= Len(queue)
    BY <1>1, <1>3, LenProperties
  <1> QED
    BY <1>1, <1>5, <1>6 DEF Advances

\* A message that the broker takes is acknowledged behind the others.
LEMMA BrokerAnswersAdvances ==
    ASSUME Types, Drawing, Live, Named(toBroker), BrokerAnswers
    PROVE  Advances /\ Named(toBroker')
  <1> DEFINE f == Head(toBroker)
             answer == Answer(f)
             a == answer[1]
  <1>1. /\ toBroker # << >> /\ toBroker' = Tail(toBroker)
        /\ IF answer # << >> THEN BrokerWrites(answer[1]) ELSE UNCHANGED <<wire, queue>>
        /\ midToMessage' = midToMessage
    BY DEF BrokerAnswers, ids
  <1>2. /\ queue \in Seq(Frame) /\ toBroker \in Seq(Sent)
        /\ Conversation(queue, toBroker, gmid, midToMessage, taken)
    BY DEF Types, TypeOK, Live, Drawing
  <1>3. f \in Sent /\ OkSent(f, midToMessage)
    BY <1>1, <1>2, Shrunk DEF Conversation
  <1>4. answer # << >> /\ a \in Frame /\ Answers(a, f)
    BY <1>3, BrokerAnswersIt DEF OkSent
  <1>5. queue' = Append(queue, a)
    BY <1>1, <1>4 DEF BrokerWrites, Live
  <1>6. ASSUME NEW m, f.type = PUBLISH, f.msg = m
        PROVE  a.header = 16 * PUBACK /\ Number(a) \in DOMAIN midToMessage
               /\ midToMessage[Number(a)] = m
    <2>1. a.header = 16 * PUBACK /\ Ack(a)
      BY <1>4, <1>6 DEF Answers, Ack
    <2>2. Number(a) = f.id
      BY <1>4, <2>1 DEF Answers
    <2> QED
      BY <1>3, <1>6, <2>1, <2>2 DEF OkSent
  <1> HIDE DEF a, f
  <1>7. /\ Len(queue') >= Len(queue)
        /\ \A m, k : Returns(queue, midToMessage, m, k) => Returns(queue', midToMessage', m, k)
        /\ \A m : f.type = PUBLISH /\ f.msg = m => Returns(queue', midToMessage', m, Len(queue'))
    BY <1>1, <1>2, <1>4, <1>5, <1>6, WrittenBehind
  <1>8. /\ Named(toBroker')
        /\ \A m : \A k \in Nat :
             Goes(toBroker, m, k) =>
               \/ k > 1 /\ Goes(toBroker', m, k - 1)
               \/ k = 1 /\ f.type = PUBLISH /\ f.msg = m
    BY <1>1, <1>2, MessagesMoveUp DEF f
  <1> QED
    BY <1>7, <1>8 DEF Advances

\* A command goes behind the acknowledgements that are under way.
LEMMA BrokerCommandsAdvances ==
    ASSUME Types, Live, Named(toBroker), BrokerCommands
    PROVE  Advances /\ Named(toBroker')
  <1> DEFINE f == BrokerFrame(PUBLISH, <<0, 1, 116, 49>>)
  <1>1. BrokerWrites(f) /\ toBroker' = toBroker /\ midToMessage' = midToMessage
    BY DEF BrokerCommands, ids
  <1>2. f \in Frame
    BY CommandType
  <1> HIDE DEF f
  <1>3. queue' = Append(queue, f)
    BY <1>1 DEF BrokerWrites, Live
  <1>4. queue \in Seq(Frame) /\ toBroker \in Seq(Sent)
    BY DEF Types
  <1>5. /\ Len(queue') >= Len(queue)
        /\ \A m, k : Returns(queue, midToMessage, m, k) => Returns(queue', midToMessage', m, k)
    BY <1>1, <1>2, <1>3, <1>4, WrittenBehind
  <1>6. Len(toBroker') >= Len(toBroker)
    BY <1>1, <1>4, LenProperties
  <1> QED
    BY <1>1, <1>5, <1>6 DEF Advances

\* The subscription and the version go behind the messages under way.
LEMMA ConnackAdvances ==
    ASSUME Types, sock = "up", handleConnack, Named(toBroker),
           NEW q \in Seq(Frame), Conversation(q, toBroker, gmid, midToMessage, taken),
           \A i : ~Subscribing(q, toBroker, i), Cardinality(DOMAIN midToMessage) <= MaxInFlight
    PROVE  /\ Named(toBroker') /\ Len(toBroker') >= Len(toBroker)
           /\ \A m, k : Goes(toBroker, m, k) => Goes(toBroker', m, k)
           /\ \A m, k : Returns(q, midToMessage, m, k) => Returns(q, midToMessage', m, k)
  <1>1. PICK version \in BOOLEAN :
          LET publishes == version /\ count < MaxMessages
              id2 == nextmid(gmid)
              subscribe == [type |-> SUBSCRIBE, id |-> gmid, msg |-> NoMessage]
              publish == [type |-> PUBLISH, id |-> id2, msg |-> count + 1]
          IN  /\ toBroker' = Written(IF publishes THEN <<subscribe, publish>> ELSE <<subscribe>>)
              /\ midToMessage' = IF publishes THEN Remember(midToMessage, id2, count + 1)
                                 ELSE midToMessage
    BY DEF handleConnack
  <1> DEFINE publishes == version /\ count < MaxMessages
             h == nextmid(gmid)
             l == count + 1
             s == [type |-> SUBSCRIBE, id |-> gmid, msg |-> NoMessage]
             p == [type |-> PUBLISH, id |-> h, msg |-> l]
             t == Append(toBroker, s)
             new == Remember(midToMessage, h, l)
  <1>2. /\ gmid \in Ids /\ h \in Ids /\ toBroker \in Seq(Sent) /\ DOMAIN midToMessage \subseteq Ids
        /\ count \in 0..MaxMessages /\ MaxMessages \in Nat
    BY NextmidType, Bounds DEF Types, TypeOK
  <1>3. s \in Sent /\ s.type = SUBSCRIBE /\ s.id = gmid /\ s.msg = NoMessage
    BY <1>2 DEF Sent, SUBSCRIBE, NoMessage
  <1>4. publishes => p \in Sent /\ p.type = PUBLISH
    BY <1>2 DEF Sent, PUBLISH
  <1>5. \/ publishes /\ toBroker' = Written(<<s, p>>) /\ midToMessage' = new
        \/ ~publishes /\ toBroker' = Written(<<s>>) /\ midToMessage' = midToMessage
    BY <1>1
  <1>6. /\ DOMAIN new = DOMAIN midToMessage \cup {h}
        /\ \A i \in DOMAIN midToMessage : i # h => new[i] = midToMessage[i]
    BY DEF Remember
  <1> HIDE DEF s, p, l, publishes, new
  <1>7. /\ t \in Seq(Sent) /\ Len(t) >= Len(toBroker) /\ Named(t)
        /\ \A m, k : Goes(toBroker, m, k) => Goes(t, m, k)
    BY <1>2, <1>3, SentBehind
  <1>8. CASE publishes
    <2>1. toBroker' = Append(t, p)
      BY <1>3, <1>4, <1>5, <1>8, WrittenTwo
    <2> HIDE DEF t
    <2>2. /\ Len(toBroker') >= Len(t) /\ Named(toBroker')
          /\ \A m, k : Goes(t, m, k) => Goes(toBroker', m, k)
      BY <1>4, <1>7, <1>8, <2>1, SentBehind
    <2>3. Len(toBroker') >= Len(toBroker)
      <3>1. Append(t, p) \in Seq(Sent)
        BY <1>4, <1>7, <1>8, AppendProperties
      <3>2. Len(t) \in Nat /\ Len(toBroker) \in Nat /\ Len(toBroker') \in Nat
        BY <1>2, <1>7, <2>1, <3>1, LenProperties
      <3> QED
        BY <1>7, <2>2, <3>2
    <2>4. ~UnderWay(q, t, h)
      <3>1. Draw(s)
        BY <1>3 DEF Draw
      <3> QED
        BY <1>2, <1>3, <3>1, SecondIsFree DEF t
    <2>5. ~UnderWay(q, toBroker, h)
      <3>1. /\ \A n \in 1..Len(toBroker) : n \in 1..Len(t) /\ t[n] = toBroker[n]
        BY <1>2, <1>3, Grown DEF t
      <3> QED
        BY <2>4, <3>1 DEF UnderWay
    <2>6. \A m, k : Returns(q, midToMessage, m, k) => Returns(q, new, m, k)
      BY <1>6, <2>5, MeaningKept
    <2> QED
      BY <1>5, <1>7, <1>8, <2>2, <2>3, <2>6
  <1>9. CASE ~publishes
    <2>1. toBroker' = t
      BY <1>3, <1>5, <1>9, WrittenIs
    <2> QED
      BY <1>5, <1>7, <1>9, <2>1
  <1> QED
    BY <1>8, <1>9

\* A frame that is received was the first; the others move up, and an
\* acknowledgement is signalled.
LEMMA ReceiveAdvances ==
    ASSUME Types, Drawing, Live, Named(toBroker), Read, queue # << >>,
           NEW f \in Frame, f = Head(queue), Received(f)
    PROVE  Advances /\ Named(toBroker')
  <1>1. sound /\ sock = "up" /\ queue' = Tail(queue) /\ onNetworkReceived(f)
    BY DEF Live, Received
  <1>2. queue \in Seq(Frame) /\ toBroker \in Seq(Sent) /\ gmid \in Ids /\ Tail(queue) \in Seq(Frame)
    BY HeadTailProperties DEF Types, TypeOK
  <1>3. Conversation(queue, toBroker, gmid, midToMessage, taken)
    BY <1>1 DEF Drawing
  <1>4. OkFrame(f, midToMessage, taken)
    BY <1>2, <1>3, Shrunk DEF Conversation
  <1> DEFINE type == f.header \div 16
             Moved == \* what is on its way to the broker stays before what is new
                 /\ Named(toBroker') /\ Len(toBroker') >= Len(toBroker)
                 /\ \A m, k : Goes(toBroker, m, k) => Goes(toBroker', m, k)
             Kept == \* the acknowledgements behind the first keep their meaning
                 \A m, k : Returns(Tail(queue), midToMessage, m, k)
                             => Returns(Tail(queue), midToMessage', m, k)
             Told == \* the first is signalled
                 f.header = 16 * PUBACK =>
                   [msg |-> midToMessage[Number(f)], sound |-> TRUE] \in emitted'
  <1>5. ASSUME Moved, Kept, Told PROVE Advances /\ Named(toBroker')
    <2>1. ASSUME NEW m, NEW k \in Nat, Returns(queue, midToMessage, m, k)
          PROVE  \/ k > 1 /\ Returns(queue', midToMessage', m, k - 1)
                 \/ k = 1 /\ Signalled(m)'
      <3>1. \/ k > 1 /\ Returns(Tail(queue), midToMessage, m, k - 1)
            \/ k = 1 /\ f.header = 16 * PUBACK /\ midToMessage[Number(f)] = m
        BY <1>2, <2>1, MovesUp
      <3>2. CASE k > 1 /\ Returns(Tail(queue), midToMessage, m, k - 1)
        BY <1>1, <1>5, <3>2
      <3>3. CASE k = 1 /\ f.header = 16 * PUBACK /\ midToMessage[Number(f)] = m
        BY <1>5, <3>3 DEF Signalled
      <3> QED
        BY <3>1, <3>2, <3>3
    <2> QED
      BY <1>5, <2>1 DEF Advances
  <1>6. ASSUME UNCHANGED <<toBroker, midToMessage>>, f.header # 16 * PUBACK
        PROVE  Advances /\ Named(toBroker')
    <2>1. Len(toBroker') >= Len(toBroker)
      BY <1>2, <1>6, LenProperties
    <2> QED
      BY <1>5, <1>6, <2>1
  <1> HIDE DEF Moved, Kept, Told
  <1>7. CASE f.header = 16 * CONNACK
    <2>1. type = CONNACK
      BY <1>7, CodesAre DEF Codes, CONNACK
    <2>2. handleConnack
      BY <1>1, <2>1 DEF onNetworkReceived, CONNACK, PUBLISH, PUBACK, PUBREC, PUBREL, PUBCOMP,
                        SUBACK, UNSUBACK
    <2>3. f.header # 16 * PUBACK
      BY <1>7, CodesAre DEF Codes
    <2>4. /\ Conversation(Tail(queue), toBroker, gmid, midToMessage, taken)
          /\ \A i : ~Subscribing(Tail(queue), toBroker, i)
          /\ Cardinality(DOMAIN midToMessage) <= MaxInFlight
      BY <1>2, <1>3, <1>7, <2>3, ReceiveConverses
    <2>5. Moved /\ Kept
      BY <1>1, <1>2, <2>2, <2>4, ConnackAdvances DEF Moved, Kept
    <2> QED
      BY <1>5, <2>3, <2>5 DEF Told
  <1>8. CASE f.header = 16 * PUBLISH
    <2>1. type = PUBLISH /\ (f.header \div 2) % 4 = 0
      BY <1>8, CodesAre DEF Codes
    <2>2. handlePublish(f)
      BY <1>1, <2>1 DEF onNetworkReceived, CONNACK, PUBLISH, PUBACK, PUBREC, PUBREL, PUBCOMP,
                        SUBACK, UNSUBACK
    <2>3. UNCHANGED <<toBroker, midToMessage>>
      BY <2>1, <2>2 DEF handlePublish, ids
    <2>4. f.header # 16 * PUBACK
      BY <1>8, CodesAre DEF Codes
    <2> QED
      BY <1>6, <2>3, <2>4
  <1>9. CASE f.header = 16 * SUBACK
    <2>1. type = SUBACK
      BY <1>9, CodesAre DEF Codes, SUBACK
    <2>2. UNCHANGED <<toBroker, midToMessage>>
      BY <1>1, <2>1 DEF onNetworkReceived, CONNACK, PUBLISH, PUBACK, PUBREC, PUBREL, PUBCOMP,
                        SUBACK, UNSUBACK
    <2>3. f.header # 16 * PUBACK
      BY <1>9, CodesAre DEF Codes
    <2> QED
      BY <1>6, <2>2, <2>3
  <1>10. CASE f.header = 16 * PINGRESP
    <2>1. type = PINGRESP
      BY <1>10, CodesAre DEF Codes, PINGRESP
    <2>2. UNCHANGED <<toBroker, midToMessage>>
      BY <1>1, <2>1 DEF onNetworkReceived, CONNACK, PUBLISH, PUBACK, PUBREC, PUBREL, PUBCOMP,
                        SUBACK, UNSUBACK, PINGRESP, ids
    <2>3. f.header # 16 * PUBACK
      BY <1>10, CodesAre DEF Codes
    <2> QED
      BY <1>6, <2>2, <2>3
  <1>11. CASE f.header = 16 * PUBACK
    <2>1. type = PUBACK
      BY <1>11, CodesAre DEF Codes, PUBACK
    <2>2. PICK id \in readInt(f.data) : handlePuback(type, id)
      BY <1>1, <2>1 DEF onNetworkReceived, CONNACK, PUBLISH, PUBACK, PUBREC, PUBREL, PUBCOMP,
                        SUBACK, UNSUBACK
    <2>3. id = Number(f) /\ id \in DOMAIN midToMessage
      <3>1. Len(f.data) >= 2 /\ Number(f) \in Ids
        BY <1>4, <1>11 DEF OkFrame, Ack
      <3>2. readInt(f.data) = {Number(f)}
        BY <3>1, ReadIntIs
      <3> QED
        BY <1>4, <1>11, <2>2, <3>2 DEF OkFrame
    <2>4. /\ emitted' = emitted \cup {[msg |-> midToMessage[id], sound |-> sound]}
          /\ midToMessage' = Forget(midToMessage, id)
          /\ toBroker' = toBroker
      BY <2>1, <2>2, <2>3 DEF handlePuback, Emits
    <2>5. Told
      <3>1. sound = TRUE
        BY <1>1 DEF Types
      <3> QED
        BY <2>3, <2>4, <3>1 DEF Told
    <2>6. /\ DOMAIN midToMessage' = DOMAIN midToMessage \ {Number(f)}
          /\ \A i \in DOMAIN midToMessage' : midToMessage'[i] = midToMessage[i]
      BY <2>3, <2>4, ForgetTakes
    <2>7. ~UnderWay(Tail(queue), toBroker, Number(f))
      <3>1. Ack(f)
        BY <1>11 DEF Ack
      <3>2. Numbered(queue) /\ Ordered(queue, toBroker, gmid) /\ Latest(queue, toBroker, gmid)
        BY <1>3, IdsNumbered DEF Conversation
      <3> QED
        BY <1>2, <3>1, <3>2, ReceiveKeeps
    <2>8. Kept
      <3> SUFFICES ASSUME NEW m, NEW k, Returns(Tail(queue), midToMessage, m, k)
                   PROVE  Returns(Tail(queue), midToMessage', m, k)
        BY DEF Kept
      <3>1. Number(Tail(queue)[k]) # Number(f)
        BY <2>7 DEF Returns, UnderWay, Ack
      <3> QED
        BY <2>6, <3>1 DEF Returns
    <2>9. Moved
      <3>1. Len(toBroker') >= Len(toBroker)
        BY <1>2, <2>4, LenProperties
      <3> QED
        BY <2>4, <3>1 DEF Moved
    <2> QED
      BY <1>5, <2>5, <2>8, <2>9
  <1>12. f.header \in {16 * CONNACK, 16 * PUBLISH, 16 * PUBACK, 16 * SUBACK, 16 * PINGRESP}
    BY <1>4 DEF OkFrame
  <1> QED
    BY <1>7, <1>8, <1>9, <1>10, <1>11, <1>12

\* A step that leaves the frames under way alone leaves them in their places.
LEMMA StillAdvances ==
    ASSUME Types, Named(toBroker), UNCHANGED <<toBroker, queue, midToMessage>>
    PROVE  Advances /\ Named(toBroker')
  <1>1. Len(toBroker) \in Nat /\ Len(queue) \in Nat
    BY LenProperties DEF Types
  <1>2. Len(toBroker') >= Len(toBroker) /\ Len(queue') >= Len(queue)
    BY <1>1
  <1> QED
    BY <1>2 DEF Advances

\* The invariant behind the way of a message.
Answering == Acknowledging /\ (Live => Named(toBroker))

\* On a connection that stays sound every step lets what is under way advance.
LEMMA NextAdvances ==
    ASSUME Answering, [Next]_vars
    PROVE  Answering' /\ (Live /\ Live' => Advances)
  <1>1. Types /\ Quiet /\ Parsing /\ Drawing /\ AckMeansTaken /\ Acknowledging'
    BY NextAcknowledging DEF Answering, Acknowledging, Linked
  <1> SUFFICES ASSUME Live'
               PROVE  Named(toBroker') /\ (Live => Advances)
    BY <1>1 DEF Answering
  <1>2. Live => Named(toBroker)
    BY DEF Answering
  <1>3. CASE ~Live
    <2>1. sock # "up" \/ ~sound
      BY <1>3 DEF Live
    <2>2. sock' = "up" /\ sound'
      BY DEF Live
    <2>3. NetworkConnected
      BY <2>1, <2>2 DEF Next, Publish, PingReq, ConnectToHost, ConnectRefused,
                        NetworkDisconnected, BrokerAnswers, BrokerCommands, Read, vars,
                        history, channel
    <2>4. toBroker' = <<[type |-> CONNECT, id |-> 0, msg |-> NoMessage]>>
      BY <2>3 DEF NetworkConnected
    <2>5. \A n \in 1..Len(toBroker') : toBroker'[n].msg = NoMessage
      BY <2>4
    <2> QED
      BY <1>3, <2>5 DEF Named
  <1>4. CASE Live
    <2> SUFFICES Advances /\ Named(toBroker')
      OBVIOUS
    <2>1. CASE Publish
      BY <1>1, <1>2, <1>4, <2>1, PublishAdvances
    <2>2. CASE PingReq
      BY <1>1, <1>2, <1>4, <2>2, PingReqAdvances
    <2>3. CASE ConnectToHost
      <3>1. UNCHANGED <<toBroker, queue, midToMessage>>
        BY <2>3 DEF ConnectToHost, ids, Live
      <3> QED
        BY <1>1, <1>2, <1>4, <3>1, StillAdvances
    <2>4. CASE NetworkConnected \/ ConnectRefused \/ NetworkDisconnected
      BY <1>4, <2>4 DEF NetworkConnected, ConnectRefused, NetworkDisconnected, Live
    <2>5. CASE BrokerAnswers
      BY <1>1, <1>2, <1>4, <2>5, BrokerAnswersAdvances
    <2>6. CASE BrokerCommands
      BY <1>1, <1>2, <1>4, <2>6, BrokerCommandsAdvances
    <2>7. CASE Read
      <3>1. Outcome
        BY <1>1, <2>7, ReadParses
      <3>2. CASE NothingReceived
        <4>1. UNCHANGED <<toBroker, queue, midToMessage>>
          BY <3>2 DEF NothingReceived, ids
        <4> QED
          BY <1>1, <1>2, <1>4, <4>1, StillAdvances
      <3>3. ASSUME NEW f \in Frame, Received(f), sound => queue # << >> /\ f = Head(queue)
            PROVE  Advances /\ Named(toBroker')
        <4>1. queue # << >> /\ f = Head(queue)
          BY <1>4, <3>3 DEF Live
        <4> QED
          BY <1>1, <1>2, <1>4, <2>7, <3>3, <4>1, ReceiveAdvances
      <3> QED
        BY <3>1, <3>2, <3>3 DEF Outcome
    <2>8. CASE UNCHANGED vars
      <3>1. UNCHANGED <<toBroker, queue, midToMessage>>
        BY <2>8 DEF vars, ids, history, channel
      <3> QED
        BY <1>1, <1>2, <1>4, <3>1, StillAdvances
    <2> QED
      BY <2>1, <2>2, <2>3, <2>4, <2>5, <2>6, <2>7, <2>8 DEF Next
  <1> QED
    BY <1>3, <1>4

\* A frame under way has bytes under way.
LEMMA BytesToCome ==
    ASSUME Types, Quiet, Parsing, Live, queue # << >>
    PROVE  wire # << >>
  <1>1. queue \in Seq(Frame) /\ wire \in Bytes
    BY DEF Types
  <1>2. CASE readState = "Header" /\ Frames(wire, queue)
    <2>1. PICK u \in Bytes : wire = write(Head(queue)) \o u
      BY <1>1, <1>2, FramesHead
    <2>2. Head(queue) \in Frame
      BY <1>1, Shrunk
    <2> DEFINE f == Head(queue)
               b == encodeLength(Len(f.data)) \o f.data
    <2>3. write(f) = <<f.header>> \o b /\ b \in Bytes /\ f.header \in Nat
      BY <2>2, WriteIs DEF Frame
    <2> HIDE DEF b, f
    <2>4. write(f) \in Bytes /\ write(f) # << >>
      BY <2>3 DEF Bytes
    <2> QED
      BY <2>1, <2>4 DEF Bytes, f
  <1>3. CASE readState # "Header" /\ \E r, v \in Bytes : wire = r \o v /\ Begun(r, Head(queue))
    <2>1. PICK r, v \in Bytes : wire = r \o v /\ Begun(r, Head(queue))
      BY <1>3
    <2>2. r # << >>
      <3>1. CASE readState = "PayLoad"
        BY <2>1, <3>1 DEF Begun, Quiet
      <3>2. CASE readState # "PayLoad"
        <4>1. PICK n \in Nat : r = encodeLength(n) \o Head(queue).data
          BY <2>1, <3>2 DEF Begun
        <4>2. encodeLength(n) \in Bytes /\ encodeLength(n) # << >>
          BY EncodeType
        <4>3. Head(queue).data \in Bytes
          <5>1. Head(queue) \in Frame
            BY <1>1, Shrunk
          <5> QED
            BY <5>1 DEF Frame
        <4> DEFINE e == encodeLength(n)
                   d == Head(queue).data
        <4> HIDE DEF e, d
        <4>4. e \o d # << >>
          BY <4>2, <4>3 DEF Bytes, e, d
        <4> QED
          BY <4>1, <4>4 DEF e, d
      <3> QED
        BY <3>1, <3>2
    <2> QED
      BY <2>1, <2>2 DEF Bytes
  <1> QED
    BY <1>2, <1>3 DEF Parsing, Live

\* A message that was written has a place, and so has its acknowledgement.
LEMMA HasItsPlace == ASSUME Answering PROVE OnItsWay
  <1>1. Types /\ Quiet /\ Parsing
    BY DEF Answering, Acknowledging, Linked
  <1> SUFFICES ASSUME Live, NEW m \in 1..MaxMessages
               PROVE  /\ WrittenOn(m) => \E k \in Nat : Goes(toBroker, m, k)
                      /\ \A k \in Nat : Returns(queue, midToMessage, m, k) => wire # << >>
    BY DEF OnItsWay
  <1>2. ASSUME WrittenOn(m) PROVE \E k \in Nat : Goes(toBroker, m, k)
    <2>1. PICK k \in 1..Len(toBroker) : toBroker[k].msg = m
      BY <1>2 DEF WrittenOn
    <2>2. m # NoMessage
      BY Bounds DEF NoMessage
    <2>3. k \in Nat /\ toBroker[k].type = PUBLISH
      BY <2>1, <2>2 DEF Answering, Named
    <2> QED
      BY <2>1, <2>3 DEF Goes
  <1>3. ASSUME NEW k \in Nat, Returns(queue, midToMessage, m, k) PROVE wire # << >>
    <2>1. queue # << >>
      BY <1>3 DEF Returns
    <2> QED
      BY <1>1, <2>1, BytesToCome
  <1> QED
    BY <1>2, <1>3

\* A message that was written to a connection is answered unless the connection
\* or the borders of the frames are lost first, whatever is published, pinged,
\* commanded or asked to connect meanwhile: it has a place on its way to the
\* broker and its acknowledgement one on the way back, with bytes to be read,
\* and no step lets another frame go before it. So the step that takes the frame
\* before it brings it nearer, and the last one signals it. What remains of
\* Answered is that the broker and the event loop go on.
\* (ClientPrivate::publish to handlePuback, through the parser)
THEOREM NothingIsOvertaken == Spec => []OnItsWay /\ [][Live /\ Live' => Advances]_vars
  <1>1. Init => Answering
    BY InitAcknowledging DEF Answering, Live, Init
  <1>2. Answering /\ [Next]_vars => Answering'
    BY NextAdvances
  <1>3. Answering => OnItsWay
    BY HasItsPlace
  <1>4. Answering /\ [Next]_vars => [Live /\ Live' => Advances]_vars
    BY NextAdvances
  <1> QED
    BY <1>1, <1>2, <1>3, <1>4, PTL DEF Spec

=============================================================================
