-------------------------- MODULE PendingFileProofs --------------------------
(***************************************************************************)
(* Why the one array w of aes.cpp needs no lock, and why what the re-push  *)
(* thread emits is what was saved, for every set of messages and every     *)
(* build.                                                                  *)
(*                                                                         *)
(* A word of w is stored from words with a lower index only, and all       *)
(* threads use the same key; so every word below the place where a thread  *)
(* is (Expanded) is what any thread would store there again. The key then  *)
(* has one schedule, KeyWords, which is what w holds whenever a thread is  *)
(* at its blocks. For that schedule, as for any words, deAes takes a block *)
(* back through the rounds of aes (BlockComesBack): the boxes are inverse  *)
(* by their tables, the rows turn back, and the column mix is undone since *)
(* the products are linear in the bits of a byte (XorIs to MixedBack).     *)
(* Buffers follows the blocks through the hands of both threads and the    *)
(* files.                                                                  *)
(*                                                                         *)
(* The tables themselves are those of the field of 256 elements            *)
(* (TablesAreOfTheField). A product is a sum of doublings (ProductSums),   *)
(* and x^8 is x^4 + x^3 + x + 1 (EighthDoubling), so a factor of 3 moves   *)
(* from one side to the other (ThreeMoves); all bytes but zero are powers  *)
(* of 3, so two of them with exponents that add up to 255 are inverse.     *)
(***************************************************************************)
EXTENDS PendingFile, SequenceTheorems, WellFoundedInduction, TLAPS

\* The words of v below n are those of the key.
Expanded(v, n) == \A j \in WordIndex : j < n => v[j] = NextWord(key, v, j)

Shape ==
    /\ w = [j \in WordIndex |-> w[j]]
    /\ DOMAIN th = Threads
    /\ \A t \in Threads : {"pc", "i"} \subseteq DOMAIN th[t]

\* A thread has the words it has passed behind it, and needs all of them for
\* the blocks.
Progress ==
    \A t \in Threads :
        /\ th[t].pc = "extend" => th[t].i \in WordIndex /\ Expanded(w, th[t].i)
        /\ th[t].pc = "blocks" => Expanded(w, 44)

Inv == Shape /\ Progress

-----------------------------------------------------------------------------

\* extendKey looks back only.
LEMMA NextWordLooksBack ==
    ASSUME NEW u, NEW v, NEW i \in WordIndex,
           \A j \in WordIndex : j < i => u[j] = v[j]
    PROVE  NextWord(key, u, i) = NextWord(key, v, i)
  <1>1. CASE i < 4
    BY <1>1 DEF NextWord
  <1>2. CASE i >= 4
    <2>1. /\ i - 4 \in WordIndex /\ i - 4 < i
          /\ i - 1 \in WordIndex /\ i - 1 < i
      BY <1>2 DEF WordIndex
    <2>2. u[i - 4] = v[i - 4] /\ u[i - 1] = v[i - 1]
      BY <2>1
    <2>3. ~(i < 4)
      BY <1>2 DEF WordIndex
    <2> QED
      BY <2>2, <2>3 DEF NextWord
  <1> QED
    BY <1>1, <1>2 DEF WordIndex

\* Storing a word adds one to those that are in place, and repeats what is
\* there if it was in place.
LEMMA StoreKeeps ==
    ASSUME w = [j \in WordIndex |-> w[j]],
           NEW i \in WordIndex, Expanded(w, i),
           w' = [w EXCEPT ![i] = NextWord(key, w, i)]
    PROVE  /\ w' = [j \in WordIndex |-> w'[j]]
           /\ \A n \in 0..44 : Expanded(w, n) => Expanded(w', n)
           /\ Expanded(w', i + 1)
           /\ Expanded(w, 44) => w' = w
  <1> DEFINE new == NextWord(key, w, i)
  <1> HIDE DEF new
  <1>1. w' = [j \in WordIndex |-> IF j = i THEN new ELSE w[j]]
    BY DEF new
  <1>2. /\ w'[i] = new
        /\ \A j \in WordIndex : j # i => w'[j] = w[j]
    BY <1>1
  <1>3. ASSUME w[i] = new PROVE w' = w
    BY <1>1, <1>3
  <1>4. ASSUME NEW j \in WordIndex, j <= i
        PROVE  w'[j] = NextWord(key, w', j)
    <2>1. \A k \in WordIndex : k < j => w'[k] = w[k]
      BY <1>2, <1>4 DEF WordIndex
    <2>2. NextWord(key, w', j) = NextWord(key, w, j)
      BY <2>1, NextWordLooksBack
    <2>3. w'[j] = NextWord(key, w, j)
      <3>1. CASE j = i
        BY <3>1, <1>2 DEF new
      <3>2. CASE j < i
        BY <3>2, <1>2 DEF Expanded, WordIndex
      <3> QED
        BY <3>1, <3>2, <1>4 DEF WordIndex
    <2> QED
      BY <2>2, <2>3
  <1>5. Expanded(w', i + 1)
    BY <1>4 DEF Expanded, WordIndex
  <1>6. ASSUME NEW n \in 0..44, Expanded(w, n) PROVE Expanded(w', n)
    <2>1. CASE n > i
      <3>1. w[i] = new
        BY <2>1, <1>6 DEF Expanded, new
      <3> QED
        BY <3>1, <1>3, <1>6 DEF Expanded
    <2>2. CASE n <= i
      BY <2>2, <1>4 DEF Expanded, WordIndex
    <2> QED
      BY <2>1, <2>2 DEF WordIndex
  <1>7. ASSUME Expanded(w, 44) PROVE w' = w
    <2>1. i < 44
      BY DEF WordIndex
    <2>2. \A j \in WordIndex : j < 44 => w[j] = NextWord(key, w, j)
      BY <1>7 DEF Expanded
    <2>3. w[i] = NextWord(key, w, i)
      BY <2>1, <2>2
    <2>4. w[i] = new
      BY <2>3 DEF new
    <2> QED
      BY <2>4, <1>3
  <1> QED
    BY <1>1, <1>2, <1>5, <1>6, <1>7

\* A thread that expands the key takes nothing from the other one.
LEMMA ExtendKeyKeeps ==
    ASSUME Inv, NEW t \in Threads, ExtendKey(t)
    PROVE  /\ Inv'
           /\ \A u \in Threads : th[u].pc = "blocks" => w' = w
  <1> DEFINE i == th[t].i
  <1>1. i \in WordIndex /\ Expanded(w, i)
    BY DEF Inv, Progress, ExtendKey
  <1>2. /\ w' = [w EXCEPT ![i] = NextWord(key, w, i)]
        /\ th' = [th EXCEPT ![t].pc = IF i = 43 THEN "blocks" ELSE "extend",
                            ![t].i = (i + 1) % 44]
    BY DEF ExtendKey
  <1>3. w = [j \in WordIndex |-> w[j]]
    BY DEF Inv, Shape
  <1>4. /\ w' = [j \in WordIndex |-> w'[j]]
        /\ \A n \in 0..44 : Expanded(w, n) => Expanded(w', n)
        /\ Expanded(w', i + 1)
        /\ Expanded(w, 44) => w' = w
    <2> HIDE DEF i
    <2> QED
      BY <1>1, <1>2, <1>3, StoreKeeps
  <1>5. /\ DOMAIN th' = Threads
        /\ \A u \in Threads : u # t => th'[u] = th[u]
        /\ DOMAIN th'[t] = DOMAIN th[t]
        /\ th'[t].pc = IF i = 43 THEN "blocks" ELSE "extend"
        /\ th'[t].i = (i + 1) % 44
    BY <1>2 DEF Inv, Shape
  <1>6. Shape'
    BY <1>4, <1>5 DEF Inv, Shape
  <1>7. Progress'
    <2> SUFFICES ASSUME NEW u \in Threads
                 PROVE  /\ th'[u].pc = "extend" =>
                             th'[u].i \in WordIndex /\ Expanded(w', th'[u].i)
                        /\ th'[u].pc = "blocks" => Expanded(w', 44)
      BY DEF Progress
    <2>1. CASE u # t
      BY <2>1, <1>4, <1>5 DEF Inv, Progress, WordIndex
    <2>2. CASE u = t /\ i = 43
      BY <2>2, <1>4, <1>5
    <2>3. CASE u = t /\ i # 43
      <3>1. (i + 1) % 44 = i + 1 /\ i + 1 \in WordIndex
        BY <2>3, <1>1 DEF WordIndex
      <3> QED
        BY <2>3, <3>1, <1>4, <1>5
    <2> QED
      BY <2>1, <2>2, <2>3
  <1>8. \A u \in Threads : th[u].pc = "blocks" => w' = w
    BY <1>4 DEF Inv, Progress
  <1> QED
    BY <1>6, <1>7, <1>8 DEF Inv

\* Beginning or ending a buffer, and enciphering a block, leave w alone.
LEMMA OthersKeep ==
    ASSUME Inv,
           \/ \E batch \in Batches : \E m \in batch : Save(m)
           \/ SaveBlock \/ SaveWrite \/ \E f \in files : PushRead(f)
           \/ PushBlock \/ PushEmit
    PROVE  Inv' /\ w' = w
  <1>1. w' = w
    BY DEF Save, SaveBlock, SaveWrite, PushRead, PushBlock, PushEmit
  <1>3. Expanded(w', 0)
    BY DEF Expanded, WordIndex
  <1>a. 0 \in WordIndex
    BY DEF WordIndex
  <1>4. \E t \in Threads :
          /\ DOMAIN th' = Threads
          /\ \A u \in Threads : u # t => th'[u] = th[u]
          /\ {"pc", "i"} \subseteq DOMAIN th'[t]
          /\ \/ th'[t].pc \in {"idle", "done"}
             \/ th'[t].pc = "extend" /\ th'[t].i = 0
             \/ th'[t].pc = "blocks" /\ th[t].pc = "blocks"
    <2> USE DEF Threads
    <2>1. CASE \E batch \in Batches : \E m \in batch : Save(m)
      <3>1. PICK m : Save(m)
        BY <2>1
      <3> WITNESS "save" \in Threads
      <3> QED
        BY <3>1 DEF Inv, Shape, Save, Threads
    <2>2. CASE SaveBlock
      <3> WITNESS "save" \in Threads
      <3> QED
        BY <2>2 DEF Inv, Shape, SaveBlock, Threads
    <2>3. CASE SaveWrite
      <3> WITNESS "save" \in Threads
      <3> QED
        BY <2>3 DEF Inv, Shape, SaveWrite, Threads, Idle
    <2>4. CASE \E f \in files : PushRead(f)
      <3>1. PICK f \in files : PushRead(f)
        BY <2>4
      <3> WITNESS "push" \in Threads
      <3> QED
        BY <3>1 DEF Inv, Shape, PushRead, Threads
    <2>5. CASE PushBlock
      <3> WITNESS "push" \in Threads
      <3> QED
        BY <2>5 DEF Inv, Shape, PushBlock, Threads
    <2>6. CASE PushEmit
      <3> WITNESS "push" \in Threads
      <3> QED
        BY <2>6 DEF Inv, Shape, PushEmit, Threads, Idle
    <2> QED
      BY <2>1, <2>2, <2>3, <2>4, <2>5, <2>6
  <1>5. Shape'
    BY <1>1, <1>4 DEF Inv, Shape
  <1>6. Progress'
    BY <1>1, <1>3, <1>a, <1>4 DEF Inv, Progress
  <1> QED
    BY <1>1, <1>5, <1>6 DEF Inv

\* Both threads are idle at first.
LEMMA InitInv == Init => Inv
  <1> SUFFICES ASSUME Init PROVE Inv
    OBVIOUS
  <1>1. w = [j \in WordIndex |-> w[j]]
    BY DEF Init, ZeroSchedule
  <1>2. th = [t \in Threads |-> Idle]
    BY DEF Init
  <1>3. {"pc", "i"} \subseteq DOMAIN Idle /\ Idle.pc = "idle"
    BY DEF Idle
  <1> QED
    BY <1>1, <1>2, <1>3 DEF Inv, Shape, Progress


\* The words a thread has passed are in place, whatever both threads do.
THEOREM InvOK == Spec => []Inv
  <1>1. Inv /\ [Next]_vars => Inv'
    <2> SUFFICES ASSUME Inv, [Next]_vars PROVE Inv'
      OBVIOUS
    <2>1. CASE \E t \in Threads : ExtendKey(t)
      BY <2>1, ExtendKeyKeeps
    <2>2. CASE \/ \E batch \in Batches : \E m \in batch : Save(m)
               \/ SaveBlock \/ SaveWrite \/ \E f \in files : PushRead(f)
               \/ PushBlock \/ PushEmit
      BY <2>2, OthersKeep
    <2>3. CASE UNCHANGED vars
      BY <2>3 DEF vars, Inv, Shape, Progress, Expanded
    <2> QED
      BY <2>1, <2>2, <2>3 DEF Next
  <1> QED
    BY InitInv, <1>1, PTL DEF Spec

\* While a thread enciphers or deciphers blocks no store of the other thread
\* changes a word of the key schedule.
THEOREM NoLockNeeded == Spec => ScheduleStable
  <1>1. Inv /\ [Next]_vars =>
          [\A t \in Threads : th[t].pc = "blocks" => w' = w]_vars
    <2> SUFFICES ASSUME Inv, Next
                 PROVE  \A t \in Threads : th[t].pc = "blocks" => w' = w
      OBVIOUS
    <2>1. CASE \E t \in Threads : ExtendKey(t)
      BY <2>1, ExtendKeyKeeps
    <2>2. CASE \/ \E batch \in Batches : \E m \in batch : Save(m)
               \/ SaveBlock \/ SaveWrite \/ \E f \in files : PushRead(f)
               \/ PushBlock \/ PushEmit
      BY <2>2, OthersKeep
    <2> QED
      BY <2>1, <2>2 DEF Next
  <1> QED
    BY <1>1, InvOK, PTL DEF Spec, ScheduleStable
-----------------------------------------------------------------------------
(* Bytes as bits                                                           *)

Powers == {1, 2, 4, 8, 16, 32, 64, 128}
BitAt(p, a) == (a \div p) % 2

\* A byte is the sum of its bits.
LEMMA ByteIsBits ==
    ASSUME NEW a \in Byte
    PROVE  /\ \A p \in Powers : BitAt(p, a) \in {0, 1}
           /\ a = BitAt(1, a) + 2 * BitAt(2, a) + 4 * BitAt(4, a) + 8 * BitAt(8, a)
                  + 16 * BitAt(16, a) + 32 * BitAt(32, a) + 64 * BitAt(64, a)
                  + 128 * BitAt(128, a)
  BY DEF Byte, BitAt, Powers

\* Bytes with the same bits are equal.
LEMMA SameBits ==
    ASSUME NEW a \in Byte, NEW b \in Byte, \A p \in Powers : BitAt(p, a) = BitAt(p, b)
    PROVE  a = b
  BY ByteIsBits DEF Powers

\* The bits of a sum of bits.
LEMMA BitsOfSum ==
    ASSUME NEW b1 \in {0, 1}, NEW b2 \in {0, 1}, NEW b4 \in {0, 1}, NEW b8 \in {0, 1},
           NEW b16 \in {0, 1}, NEW b32 \in {0, 1}, NEW b64 \in {0, 1}, NEW b128 \in {0, 1}
    PROVE  LET s == b1 + 2 * b2 + 4 * b4 + 8 * b8 + 16 * b16 + 32 * b32 + 64 * b64 + 128 * b128
           IN  /\ s \in Byte
               /\ BitAt(1, s) = b1 /\ BitAt(2, s) = b2 /\ BitAt(4, s) = b4
               /\ BitAt(8, s) = b8 /\ BitAt(16, s) = b16 /\ BitAt(32, s) = b32
               /\ BitAt(64, s) = b64 /\ BitAt(128, s) = b128
  BY DEF Byte, BitAt

\* Xor adds the bits.
LEMMA XorIs ==
    ASSUME NEW a \in Byte, NEW b \in Byte
    PROVE  /\ Xor[a][b] \in Byte
           /\ \A p \in Powers : BitAt(p, Xor[a][b]) = (BitAt(p, a) + BitAt(p, b)) % 2
  <1> DEFINE s(p) == ((a \div p) + (b \div p)) % 2
             x == 1 * s(1) + 2 * s(2) + 4 * s(4) + 8 * s(8) + 16 * s(16) + 32 * s(32)
                    + 64 * s(64) + 128 * s(128)
  <1>1. Xor[a][b] = x
    BY DEF Xor
  <1>2. /\ s(1) \in {0, 1} /\ s(2) \in {0, 1} /\ s(4) \in {0, 1} /\ s(8) \in {0, 1}
        /\ s(16) \in {0, 1} /\ s(32) \in {0, 1} /\ s(64) \in {0, 1} /\ s(128) \in {0, 1}
    BY DEF Byte
  <1>3. \A p \in Powers : s(p) = (BitAt(p, a) + BitAt(p, b)) % 2
    BY DEF Byte, BitAt, Powers
  <1> HIDE DEF s
  <1>4. x \in Byte /\ \A p \in Powers : BitAt(p, x) = s(p)
    <2>1. x = s(1) + 2 * s(2) + 4 * s(4) + 8 * s(8) + 16 * s(16) + 32 * s(32)
                + 64 * s(64) + 128 * s(128)
      BY <1>2
    <2> HIDE DEF x
    <2> QED
      BY <1>2, <2>1, BitsOfSum DEF Powers
  <1> QED
    BY <1>1, <1>3, <1>4

\* Bytes form a group under Xor in which each is its own inverse.
LEMMA XorGroup ==
    /\ \A a, b \in Byte : Xor[a][b] \in Byte /\ Xor[a][b] = Xor[b][a]
                          /\ Xor[Xor[a][b]][b] = a
    /\ \A a, b, c \in Byte : Xor[Xor[a][b]][c] = Xor[a][Xor[b][c]]
  <1>1. ASSUME NEW a \in Byte, NEW b \in Byte
        PROVE  Xor[a][b] \in Byte /\ Xor[a][b] = Xor[b][a] /\ Xor[Xor[a][b]][b] = a
    <2>1. Xor[a][b] \in Byte /\ Xor[b][a] \in Byte /\ Xor[Xor[a][b]][b] \in Byte
      BY XorIs
    <2>2. \A p \in Powers : /\ BitAt(p, a) \in {0, 1} /\ BitAt(p, b) \in {0, 1}
                            /\ BitAt(p, Xor[a][b]) = (BitAt(p, a) + BitAt(p, b)) % 2
                            /\ BitAt(p, Xor[b][a]) = (BitAt(p, b) + BitAt(p, a)) % 2
                            /\ BitAt(p, Xor[Xor[a][b]][b]) = (BitAt(p, Xor[a][b]) + BitAt(p, b)) % 2
      BY <2>1, XorIs, ByteIsBits
    <2>3. \A p \in Powers : /\ BitAt(p, Xor[a][b]) = BitAt(p, Xor[b][a])
                            /\ BitAt(p, Xor[Xor[a][b]][b]) = BitAt(p, a)
      BY <2>2
    <2> QED
      BY <2>1, <2>3, SameBits
  <1>2. ASSUME NEW a \in Byte, NEW b \in Byte, NEW c \in Byte
        PROVE  Xor[Xor[a][b]][c] = Xor[a][Xor[b][c]]
    <2>1. /\ Xor[a][b] \in Byte /\ Xor[b][c] \in Byte
          /\ Xor[Xor[a][b]][c] \in Byte /\ Xor[a][Xor[b][c]] \in Byte
      BY XorIs
    <2>2. \A p \in Powers :
            /\ BitAt(p, a) \in {0, 1} /\ BitAt(p, b) \in {0, 1} /\ BitAt(p, c) \in {0, 1}
            /\ BitAt(p, Xor[a][b]) = (BitAt(p, a) + BitAt(p, b)) % 2
            /\ BitAt(p, Xor[b][c]) = (BitAt(p, b) + BitAt(p, c)) % 2
            /\ BitAt(p, Xor[Xor[a][b]][c]) = (BitAt(p, Xor[a][b]) + BitAt(p, c)) % 2
            /\ BitAt(p, Xor[a][Xor[b][c]]) = (BitAt(p, a) + BitAt(p, Xor[b][c])) % 2
      BY <2>1, XorIs, ByteIsBits
    <2>3. \A p \in Powers : BitAt(p, Xor[Xor[a][b]][c]) = BitAt(p, Xor[a][Xor[b][c]])
      BY <2>2
    <2> QED
      BY <2>1, <2>3, SameBits
  <1> QED
    BY <1>1, <1>2

\* Doubling moves every bit up by one, and the highest one to four places.
LEMMA DoubledIs ==
    ASSUME NEW s \in Byte
    PROVE  /\ GFMul2(s) \in Byte
           /\ BitAt(1, GFMul2(s)) = BitAt(128, s)
           /\ BitAt(2, GFMul2(s)) = (BitAt(1, s) + BitAt(128, s)) % 2
           /\ BitAt(4, GFMul2(s)) = BitAt(2, s)
           /\ BitAt(8, GFMul2(s)) = (BitAt(4, s) + BitAt(128, s)) % 2
           /\ BitAt(16, GFMul2(s)) = (BitAt(8, s) + BitAt(128, s)) % 2
           /\ BitAt(32, GFMul2(s)) = BitAt(16, s)
           /\ BitAt(64, GFMul2(s)) = BitAt(32, s)
           /\ BitAt(128, GFMul2(s)) = BitAt(64, s)
  <1> DEFINE d == (2 * s) % 256
  <1>1. /\ d \in Byte /\ BitAt(1, d) = 0 /\ BitAt(2, d) = BitAt(1, s)
        /\ BitAt(4, d) = BitAt(2, s) /\ BitAt(8, d) = BitAt(4, s)
        /\ BitAt(16, d) = BitAt(8, s) /\ BitAt(32, d) = BitAt(16, s)
        /\ BitAt(64, d) = BitAt(32, s) /\ BitAt(128, d) = BitAt(64, s)
        /\ BitAt(128, s) = IF 2 * s >= 256 THEN 1 ELSE 0
    BY DEF Byte, BitAt
  <1>2. GFMul2(s) = IF 2 * s >= 256 THEN Xor[d][27] ELSE d
    BY DEF GFMul2, Byte
  <1>3. \A p \in Powers : BitAt(p, s) \in {0, 1} /\ BitAt(p, d) \in {0, 1}
    BY <1>1, ByteIsBits
  <1> HIDE DEF d
  <1>4. CASE 2 * s >= 256
    <2>1. /\ 27 \in Byte /\ BitAt(1, 27) = 1 /\ BitAt(2, 27) = 1 /\ BitAt(4, 27) = 0
          /\ BitAt(8, 27) = 1 /\ BitAt(16, 27) = 1 /\ BitAt(32, 27) = 0
          /\ BitAt(64, 27) = 0 /\ BitAt(128, 27) = 0
      BY DEF Byte, BitAt
    <2>2. /\ GFMul2(s) \in Byte
          /\ \A p \in Powers : BitAt(p, GFMul2(s)) = (BitAt(p, d) + BitAt(p, 27)) % 2
      BY <1>1, <1>2, <1>4, <2>1, XorIs
    <2> QED
      BY <1>1, <1>3, <1>4, <2>1, <2>2 DEF Powers
  <1>5. CASE ~(2 * s >= 256)
    BY <1>1, <1>2, <1>3, <1>5 DEF Powers
  <1> QED
    BY <1>4, <1>5

\* Doubling a sum doubles its parts.
LEMMA DoubledSum ==
    ASSUME NEW a \in Byte, NEW b \in Byte
    PROVE  GFMul2(Xor[a][b]) = Xor[GFMul2(a)][GFMul2(b)]
  <1> DEFINE x == Xor[a][b]
             l == GFMul2(x)
             u == GFMul2(a)
             v == GFMul2(b)
             r == Xor[u][v]
  <1>1. x \in Byte /\ u \in Byte /\ v \in Byte
    BY XorIs, DoubledIs
  <1>2. l \in Byte /\ r \in Byte
    <2> HIDE DEF x, u, v
    <2> QED
      BY <1>1, XorIs, DoubledIs
  <1>3. \A p \in Powers : /\ BitAt(p, a) \in {0, 1} /\ BitAt(p, b) \in {0, 1}
                          /\ BitAt(p, x) = (BitAt(p, a) + BitAt(p, b)) % 2
                          /\ BitAt(p, r) = (BitAt(p, u) + BitAt(p, v)) % 2
    <2>1. \A p \in Powers : BitAt(p, x) = (BitAt(p, a) + BitAt(p, b)) % 2
      BY XorIs
    <2> HIDE DEF x, u, v
    <2> QED
      BY <1>1, <2>1, XorIs, ByteIsBits
  <1>4. /\ BitAt(1, l) = BitAt(128, x) /\ BitAt(1, u) = BitAt(128, a)
        /\ BitAt(1, v) = BitAt(128, b)
        /\ BitAt(4, l) = BitAt(2, x) /\ BitAt(4, u) = BitAt(2, a) /\ BitAt(4, v) = BitAt(2, b)
        /\ BitAt(32, l) = BitAt(16, x) /\ BitAt(32, u) = BitAt(16, a)
        /\ BitAt(32, v) = BitAt(16, b)
        /\ BitAt(64, l) = BitAt(32, x) /\ BitAt(64, u) = BitAt(32, a)
        /\ BitAt(64, v) = BitAt(32, b)
        /\ BitAt(128, l) = BitAt(64, x) /\ BitAt(128, u) = BitAt(64, a)
        /\ BitAt(128, v) = BitAt(64, b)
    <2> HIDE DEF x
    <2> QED
      BY <1>1, DoubledIs
  <1>5. /\ BitAt(2, l) = (BitAt(1, x) + BitAt(128, x)) % 2
        /\ BitAt(2, u) = (BitAt(1, a) + BitAt(128, a)) % 2
        /\ BitAt(2, v) = (BitAt(1, b) + BitAt(128, b)) % 2
        /\ BitAt(8, l) = (BitAt(4, x) + BitAt(128, x)) % 2
        /\ BitAt(8, u) = (BitAt(4, a) + BitAt(128, a)) % 2
        /\ BitAt(8, v) = (BitAt(4, b) + BitAt(128, b)) % 2
        /\ BitAt(16, l) = (BitAt(8, x) + BitAt(128, x)) % 2
        /\ BitAt(16, u) = (BitAt(8, a) + BitAt(128, a)) % 2
        /\ BitAt(16, v) = (BitAt(8, b) + BitAt(128, b)) % 2
    <2> HIDE DEF x
    <2> QED
      BY <1>1, DoubledIs
  <1> HIDE DEF x, l, u, v, r
  <1>6. \A p \in Powers : BitAt(p, l) = BitAt(p, r)
    <2>1. 1 \in Powers /\ 2 \in Powers /\ 4 \in Powers /\ 8 \in Powers /\ 16 \in Powers
          /\ 32 \in Powers /\ 64 \in Powers /\ 128 \in Powers
      BY DEF Powers
    <2>2. BitAt(1, l) = BitAt(1, r) /\ BitAt(4, l) = BitAt(4, r)
          /\ BitAt(32, l) = BitAt(32, r) /\ BitAt(64, l) = BitAt(64, r)
          /\ BitAt(128, l) = BitAt(128, r)
      BY <1>3, <1>4, <2>1
    <2>3. BitAt(2, l) = BitAt(2, r)
      BY <1>3, <1>5, <2>1
    <2>4. BitAt(8, l) = BitAt(8, r)
      BY <1>3, <1>5, <2>1
    <2>5. BitAt(16, l) = BitAt(16, r)
      BY <1>3, <1>5, <2>1
    <2> QED
      BY <2>2, <2>3, <2>4, <2>5 DEF Powers
  <1> QED
    <2>1. l = r
      BY <1>2, <1>6, SameBits
    <2> QED
      BY <2>1 DEF l, r, x, u, v

-----------------------------------------------------------------------------
(* The column mix                                                          *)

Factors == {1, 2, 3, 9, 11, 13, 14}
Doubled(s) == GFMul2(GFMul2(s))
Tripled(s) == GFMul2(GFMul2(GFMul2(s)))

\* The products, in terms of what is doubled once, twice and three times.
LEMMA ProductIs ==
    ASSUME NEW s \in Byte
    PROVE  /\ GFMul2(s) \in Byte /\ Doubled(s) \in Byte /\ Tripled(s) \in Byte
           /\ GFMul[1][s] = s /\ GFMul[2][s] = GFMul2(s)
           /\ GFMul[3][s] = Xor[GFMul2(s)][s]
           /\ GFMul[9][s] = Xor[Tripled(s)][s]
           /\ GFMul[11][s] = Xor[Xor[Tripled(s)][s]][GFMul2(s)]
           /\ GFMul[13][s] = Xor[Xor[Tripled(s)][Doubled(s)]][s]
           /\ GFMul[14][s] = Xor[Xor[Tripled(s)][Doubled(s)]][GFMul2(s)]
  <1>1. GFMul2(s) \in Byte
    BY DoubledIs
  <1>2. Doubled(s) \in Byte
    BY <1>1, DoubledIs DEF Doubled
  <1>3. Tripled(s) \in Byte
    BY <1>2, DoubledIs DEF Doubled, Tripled
  <1>4. /\ GFMul4(s) = Doubled(s) /\ GFMul8(s) = Tripled(s)
        /\ GFMul9(s) = Xor[Tripled(s)][s] /\ GFMul12(s) = Xor[Tripled(s)][Doubled(s)]
    BY DEF GFMul4, GFMul8, GFMul9, GFMul12, Doubled, Tripled
  <1>5. /\ GFMul[1][s] = s /\ GFMul[2][s] = GFMul2(s)
        /\ GFMul[3][s] = Xor[GFMul2(s)][s]
        /\ GFMul[9][s] = GFMul9(s)
        /\ GFMul[11][s] = Xor[GFMul9(s)][GFMul2(s)]
        /\ GFMul[13][s] = Xor[GFMul12(s)][s]
        /\ GFMul[14][s] = Xor[GFMul12(s)][GFMul2(s)]
    BY DEF GFMul
  <1> QED
    BY <1>1, <1>2, <1>3, <1>4, <1>5

\* A product is a byte.
LEMMA ProductType == \A n \in Factors, s \in Byte : GFMul[n][s] \in Byte
  <1> SUFFICES ASSUME NEW n \in Factors, NEW s \in Byte PROVE GFMul[n][s] \in Byte
    OBVIOUS
  <1>1. /\ GFMul2(s) \in Byte /\ Doubled(s) \in Byte /\ Tripled(s) \in Byte
    BY ProductIs
  <1> QED
    BY <1>1, ProductIs, XorIs DEF Factors

\* The bits of the products.
LEMMA ProductBits ==
    ASSUME NEW s \in Byte, NEW p \in Powers
    PROVE  LET one == BitAt(p, s)
               two == BitAt(p, GFMul2(s))
               four == BitAt(p, Doubled(s))
               eight == BitAt(p, Tripled(s))
           IN  /\ one \in {0, 1} /\ two \in {0, 1} /\ four \in {0, 1} /\ eight \in {0, 1}
               /\ BitAt(p, GFMul[3][s]) = (two + one) % 2
               /\ BitAt(p, GFMul[9][s]) = (eight + one) % 2
               /\ BitAt(p, GFMul[11][s]) = (eight + one + two) % 2
               /\ BitAt(p, GFMul[13][s]) = (eight + four + one) % 2
               /\ BitAt(p, GFMul[14][s]) = (eight + four + two) % 2
  <1> DEFINE b2 == GFMul2(s)
             b4 == Doubled(s)
             b8 == Tripled(s)
  <1>1. /\ b2 \in Byte /\ b4 \in Byte /\ b8 \in Byte
        /\ GFMul[3][s] = Xor[b2][s]
        /\ GFMul[9][s] = Xor[b8][s]
        /\ GFMul[11][s] = Xor[Xor[b8][s]][b2]
        /\ GFMul[13][s] = Xor[Xor[b8][b4]][s]
        /\ GFMul[14][s] = Xor[Xor[b8][b4]][b2]
    BY ProductIs
  <1> HIDE DEF b2, b4, b8
  <1>2. Xor[b8][s] \in Byte /\ Xor[b8][b4] \in Byte
    BY <1>1, XorIs
  <1>3. /\ BitAt(p, Xor[b2][s]) = (BitAt(p, b2) + BitAt(p, s)) % 2
        /\ BitAt(p, Xor[b8][s]) = (BitAt(p, b8) + BitAt(p, s)) % 2
        /\ BitAt(p, Xor[b8][b4]) = (BitAt(p, b8) + BitAt(p, b4)) % 2
        /\ BitAt(p, Xor[Xor[b8][s]][b2]) = (BitAt(p, Xor[b8][s]) + BitAt(p, b2)) % 2
        /\ BitAt(p, Xor[Xor[b8][b4]][s]) = (BitAt(p, Xor[b8][b4]) + BitAt(p, s)) % 2
        /\ BitAt(p, Xor[Xor[b8][b4]][b2]) = (BitAt(p, Xor[b8][b4]) + BitAt(p, b2)) % 2
    BY <1>1, <1>2, XorIs
  <1>4. BitAt(p, s) \in {0, 1} /\ BitAt(p, b2) \in {0, 1} /\ BitAt(p, b4) \in {0, 1}
        /\ BitAt(p, b8) \in {0, 1}
    BY <1>1, ByteIsBits
  <1> QED
    BY <1>1, <1>3, <1>4 DEF b2, b4, b8

\* The product of a sum is the sum of the products.
LEMMA ProductSum ==
    ASSUME NEW n \in Factors, NEW a \in Byte, NEW b \in Byte
    PROVE  GFMul[n][Xor[a][b]] = Xor[GFMul[n][a]][GFMul[n][b]]
  <1> DEFINE x == Xor[a][b]
  <1>1. x \in Byte
    BY XorIs
  <1>2. GFMul2(x) = Xor[GFMul2(a)][GFMul2(b)] /\ GFMul2(a) \in Byte /\ GFMul2(b) \in Byte
    BY DoubledSum, DoubledIs
  <1>3. Doubled(x) = Xor[Doubled(a)][Doubled(b)] /\ Doubled(a) \in Byte /\ Doubled(b) \in Byte
    BY <1>2, DoubledSum, DoubledIs DEF Doubled
  <1>4. Tripled(x) = Xor[Tripled(a)][Tripled(b)] /\ Tripled(a) \in Byte /\ Tripled(b) \in Byte
    BY <1>3, DoubledSum, DoubledIs DEF Doubled, Tripled
  <1> DEFINE l == GFMul[n][x]
             u == GFMul[n][a]
             v == GFMul[n][b]
             r == Xor[u][v]
  <1>5. l \in Byte /\ u \in Byte /\ v \in Byte
    <2> HIDE DEF x
    <2> QED
      BY <1>1, ProductType
  <1>6. r \in Byte
    <2> HIDE DEF u, v
    <2> QED
      BY <1>5, XorIs
  <1>7. ASSUME NEW p \in Powers PROVE BitAt(p, l) = BitAt(p, r)
    <2>1. BitAt(p, r) = (BitAt(p, u) + BitAt(p, v)) % 2
      <3> HIDE DEF u, v
      <3> QED
        BY <1>5, XorIs
    <2>2. /\ BitAt(p, x) = (BitAt(p, a) + BitAt(p, b)) % 2
          /\ BitAt(p, GFMul2(x)) = (BitAt(p, GFMul2(a)) + BitAt(p, GFMul2(b))) % 2
          /\ BitAt(p, Doubled(x)) = (BitAt(p, Doubled(a)) + BitAt(p, Doubled(b))) % 2
          /\ BitAt(p, Tripled(x)) = (BitAt(p, Tripled(a)) + BitAt(p, Tripled(b))) % 2
      BY <1>2, <1>3, <1>4, XorIs
    <2>3. /\ BitAt(p, GFMul[1][x]) = BitAt(p, x) /\ BitAt(p, GFMul[1][a]) = BitAt(p, a)
          /\ BitAt(p, GFMul[1][b]) = BitAt(p, b)
          /\ BitAt(p, GFMul[2][x]) = BitAt(p, GFMul2(x))
          /\ BitAt(p, GFMul[2][a]) = BitAt(p, GFMul2(a))
          /\ BitAt(p, GFMul[2][b]) = BitAt(p, GFMul2(b))
      <3> HIDE DEF x
      <3> QED
        BY <1>1, ProductIs
    <2> HIDE DEF x, r
    <2>4. CASE n = 1
      BY <2>1, <2>2, <2>3, <2>4
    <2>5. CASE n = 2
      BY <2>1, <2>2, <2>3, <2>5
    <2>6. CASE n = 3
      BY <2>1, <2>2, <2>6, <1>1, ProductBits
    <2>7. CASE n = 9
      BY <2>1, <2>2, <2>7, <1>1, ProductBits
    <2>8. CASE n = 11
      BY <2>1, <2>2, <2>8, <1>1, ProductBits
    <2>9. CASE n = 13
      BY <2>1, <2>2, <2>9, <1>1, ProductBits
    <2>10. CASE n = 14
      BY <2>1, <2>2, <2>10, <1>1, ProductBits
    <2> QED
      BY <2>4, <2>5, <2>6, <2>7, <2>8, <2>9, <2>10 DEF Factors
  <1>8. l = r
    <2> HIDE DEF l, r
    <2> QED
      BY <1>5, <1>6, <1>7, SameBits
  <1> QED
    BY <1>8

Four(a, b, c, d) == Xor[Xor[a][b]][Xor[c][d]]

\* The bits of a sum of four.
LEMMA SumOfFour ==
    ASSUME NEW a \in Byte, NEW b \in Byte, NEW c \in Byte, NEW d \in Byte
    PROVE  /\ Four(a, b, c, d) \in Byte
           /\ \A p \in Powers :
                BitAt(p, Four(a, b, c, d))
                  = (BitAt(p, a) + BitAt(p, b) + BitAt(p, c) + BitAt(p, d)) % 2
  <1>1. Xor[a][b] \in Byte /\ Xor[c][d] \in Byte
    BY XorIs
  <1>2. Xor[Xor[a][b]][Xor[c][d]] \in Byte
    BY <1>1, XorIs
  <1>3. ASSUME NEW p \in Powers
        PROVE  BitAt(p, Xor[Xor[a][b]][Xor[c][d]])
                 = (BitAt(p, a) + BitAt(p, b) + BitAt(p, c) + BitAt(p, d)) % 2
    <2>1. /\ BitAt(p, Xor[a][b]) = (BitAt(p, a) + BitAt(p, b)) % 2
          /\ BitAt(p, Xor[c][d]) = (BitAt(p, c) + BitAt(p, d)) % 2
          /\ BitAt(p, Xor[Xor[a][b]][Xor[c][d]])
               = (BitAt(p, Xor[a][b]) + BitAt(p, Xor[c][d])) % 2
      BY <1>1, XorIs
    <2>2. BitAt(p, a) \in {0, 1} /\ BitAt(p, b) \in {0, 1} /\ BitAt(p, c) \in {0, 1}
          /\ BitAt(p, d) \in {0, 1}
      BY ByteIsBits
    <2> QED
      BY <2>1, <2>2
  <1> QED
    BY <1>2, <1>3 DEF Four

\* The product of a sum of four.
LEMMA ProductSumOfFour ==
    ASSUME NEW n \in Factors, NEW a \in Byte, NEW b \in Byte, NEW c \in Byte, NEW d \in Byte
    PROVE  GFMul[n][Four(a, b, c, d)]
             = Four(GFMul[n][a], GFMul[n][b], GFMul[n][c], GFMul[n][d])
  <1> DEFINE x == Xor[a][b]
             y == Xor[c][d]
  <1>1. x \in Byte /\ y \in Byte
    BY XorIs
  <1>2. /\ GFMul[n][x] = Xor[GFMul[n][a]][GFMul[n][b]]
        /\ GFMul[n][y] = Xor[GFMul[n][c]][GFMul[n][d]]
    BY ProductSum
  <1>3. GFMul[n][Xor[x][y]] = Xor[GFMul[n][x]][GFMul[n][y]]
    <2> HIDE DEF x, y
    <2> QED
      BY <1>1, ProductSum
  <1> QED
    BY <1>2, <1>3 DEF Four

\* The sum of two bits, and of three and of four.
Plus(a, b) == (a + b) % 2

\* Two bits sum to nothing exactly when they agree.
LEMMA PlusIs ==
    \A a, b \in {0, 1} : Plus(a, b) = IF a = b THEN 0 ELSE 1
  BY DEF Plus

\* A sum of two, three or four bits, taken modulo 2 at the end, is the same
\* taken modulo 2 at every addition.
LEMMA PlusSums ==
    /\ \A a, b \in {0, 1} : (a + b) % 2 = Plus(a, b)
    /\ \A a, b, c \in {0, 1} : (a + b + c) % 2 = Plus(Plus(a, b), c)
    /\ \A a, b, c, d \in {0, 1} :
         (a + b + c + d) % 2 = Plus(Plus(a, b), Plus(c, d))
  BY DEF Plus

\* What a byte contributes to its own place in a column that was mixed and
\* mixed back, and to the three places below it: itself, and nothing.
Contribution(p, x, n, m, k, l) ==
    BitAt(p, GFMul[14][GFMul[n][x]]) + BitAt(p, GFMul[11][GFMul[m][x]])
      + BitAt(p, GFMul[13][GFMul[k][x]]) + BitAt(p, GFMul[9][GFMul[l][x]])

\* Mixing a column and mixing it back returns every bit of a byte to its own
\* place, and leaves an even number of copies of it at the three others.
LEMMA Contributions ==
    ASSUME NEW x \in Byte, NEW p \in Powers
    PROVE  /\ Contribution(p, x, 2, 1, 1, 3) \in Nat /\ Contribution(p, x, 3, 2, 1, 1) \in Nat
           /\ Contribution(p, x, 1, 3, 2, 1) \in Nat /\ Contribution(p, x, 1, 1, 3, 2) \in Nat
           /\ Contribution(p, x, 2, 1, 1, 3) % 2 = BitAt(p, x)
           /\ Contribution(p, x, 3, 2, 1, 1) % 2 = 0
           /\ Contribution(p, x, 1, 3, 2, 1) % 2 = 0
           /\ Contribution(p, x, 1, 1, 3, 2) % 2 = 0
  <1> DEFINE y == GFMul2(x)
             z == Xor[y][x]
  <1>1. y \in Byte /\ GFMul[1][x] = x /\ GFMul[2][x] = y /\ GFMul[3][x] = z
    BY ProductIs
  <1>2. z \in Byte
    <2> HIDE DEF y
    <2> QED
      BY <1>1, XorIs
  <1>3. /\ GFMul2(x) = y /\ Doubled(x) = GFMul2(y) /\ Tripled(x) = Doubled(y)
    BY DEF Doubled, Tripled
  <1> HIDE DEF y, z
  <1>4. \A n \in Factors : /\ GFMul[n][x] \in Byte /\ GFMul[n][y] \in Byte
                           /\ GFMul[n][z] = Xor[GFMul[n][y]][GFMul[n][x]]
    BY <1>1, ProductSum, ProductType DEF z
  <1>5. \A n \in Factors :
          /\ BitAt(p, GFMul[n][x]) \in {0, 1} /\ BitAt(p, GFMul[n][y]) \in {0, 1}
          /\ BitAt(p, GFMul[n][z]) = (BitAt(p, GFMul[n][y]) + BitAt(p, GFMul[n][x])) % 2
    BY <1>4, XorIs, ByteIsBits
  <1> DEFINE b1 == BitAt(p, x)
             b2 == BitAt(p, y)
             b4 == BitAt(p, GFMul2(y))
             b8 == BitAt(p, Doubled(y))
             b16 == BitAt(p, Tripled(y))
  <1>6. /\ b1 \in {0, 1} /\ b2 \in {0, 1} /\ b4 \in {0, 1} /\ b8 \in {0, 1} /\ b16 \in {0, 1}
        /\ BitAt(p, GFMul[9][x]) = (b8 + b1) % 2
        /\ BitAt(p, GFMul[11][x]) = (b8 + b1 + b2) % 2
        /\ BitAt(p, GFMul[13][x]) = (b8 + b4 + b1) % 2
        /\ BitAt(p, GFMul[14][x]) = (b8 + b4 + b2) % 2
        /\ BitAt(p, GFMul[9][y]) = (b16 + b2) % 2
        /\ BitAt(p, GFMul[11][y]) = (b16 + b2 + b4) % 2
        /\ BitAt(p, GFMul[13][y]) = (b16 + b8 + b2) % 2
        /\ BitAt(p, GFMul[14][y]) = (b16 + b8 + b4) % 2
    BY <1>1, <1>3, ProductBits
  <1> HIDE DEF b1, b2, b4, b8, b16
  <1> DEFINE c(n, v) == BitAt(p, GFMul[n][v])
  <1>7. /\ Contribution(p, x, 2, 1, 1, 3) = c(14, y) + c(11, x) + c(13, x) + c(9, z)
        /\ Contribution(p, x, 3, 2, 1, 1) = c(14, z) + c(11, y) + c(13, x) + c(9, x)
        /\ Contribution(p, x, 1, 3, 2, 1) = c(14, x) + c(11, z) + c(13, y) + c(9, x)
        /\ Contribution(p, x, 1, 1, 3, 2) = c(14, x) + c(11, x) + c(13, z) + c(9, y)
    BY <1>1 DEF Contribution
  <1>8. /\ c(9, z) = (c(9, y) + c(9, x)) % 2 /\ c(11, z) = (c(11, y) + c(11, x)) % 2
        /\ c(13, z) = (c(13, y) + c(13, x)) % 2 /\ c(14, z) = (c(14, y) + c(14, x)) % 2
    BY <1>5 DEF Factors
  <1>9. /\ c(9, x) = (b8 + b1) % 2 /\ c(11, x) = (b8 + b1 + b2) % 2
        /\ c(13, x) = (b8 + b4 + b1) % 2 /\ c(14, x) = (b8 + b4 + b2) % 2
        /\ c(9, y) = (b16 + b2) % 2 /\ c(11, y) = (b16 + b2 + b4) % 2
        /\ c(13, y) = (b16 + b8 + b2) % 2 /\ c(14, y) = (b16 + b8 + b4) % 2
    BY <1>6
  <1> HIDE DEF c
  <1>10. /\ c(9, x) = Plus(b8, b1) /\ c(11, x) = Plus(Plus(b8, b1), b2)
         /\ c(13, x) = Plus(Plus(b8, b4), b1) /\ c(14, x) = Plus(Plus(b8, b4), b2)
         /\ c(9, y) = Plus(b16, b2) /\ c(11, y) = Plus(Plus(b16, b2), b4)
         /\ c(13, y) = Plus(Plus(b16, b8), b2) /\ c(14, y) = Plus(Plus(b16, b8), b4)
    BY <1>6, <1>9, PlusSums
  <1>11. \A n \in {9, 11, 13, 14} : c(n, x) \in {0, 1} /\ c(n, y) \in {0, 1}
    BY <1>5 DEF Factors, c
  <1>12. \A n \in {9, 11, 13, 14} : c(n, z) = Plus(c(n, y), c(n, x)) /\ c(n, z) \in {0, 1}
    BY <1>8, <1>11, PlusIs DEF Plus
  <1>13. /\ c(14, y) + c(11, x) + c(13, x) + c(9, z) \in Nat
         /\ (c(14, y) + c(11, x) + c(13, x) + c(9, z)) % 2 = b1
    <2>1. (c(14, y) + c(11, x) + c(13, x) + c(9, z)) % 2
            = Plus(Plus(c(14, y), c(11, x)), Plus(c(13, x), c(9, z)))
      BY <1>11, <1>12, PlusSums
    <2>2. Plus(Plus(c(14, y), c(11, x)), Plus(c(13, x), c(9, z)))
            = Plus(Plus(Plus(Plus(b16, b8), b4), Plus(Plus(b8, b1), b2)),
                   Plus(Plus(Plus(b8, b4), b1), Plus(Plus(b16, b2), Plus(b8, b1))))
      BY <1>10, <1>12
    <2>3. Plus(Plus(Plus(Plus(b16, b8), b4), Plus(Plus(b8, b1), b2)),
               Plus(Plus(Plus(b8, b4), b1), Plus(Plus(b16, b2), Plus(b8, b1)))) = b1
      BY <1>6, PlusIs
    <2> QED
      BY <1>11, <1>12, <2>1, <2>2, <2>3
  <1>14. /\ c(14, z) + c(11, y) + c(13, x) + c(9, x) \in Nat
         /\ (c(14, z) + c(11, y) + c(13, x) + c(9, x)) % 2 = 0
    <2>1. (c(14, z) + c(11, y) + c(13, x) + c(9, x)) % 2
            = Plus(Plus(c(14, z), c(11, y)), Plus(c(13, x), c(9, x)))
      BY <1>11, <1>12, PlusSums
    <2> QED
      BY <1>6, <1>10, <1>11, <1>12, <2>1, PlusIs
  <1>15. /\ c(14, x) + c(11, z) + c(13, y) + c(9, x) \in Nat
         /\ (c(14, x) + c(11, z) + c(13, y) + c(9, x)) % 2 = 0
    <2>1. (c(14, x) + c(11, z) + c(13, y) + c(9, x)) % 2
            = Plus(Plus(c(14, x), c(11, z)), Plus(c(13, y), c(9, x)))
      BY <1>11, <1>12, PlusSums
    <2> QED
      BY <1>6, <1>10, <1>11, <1>12, <2>1, PlusIs
  <1>16. /\ c(14, x) + c(11, x) + c(13, z) + c(9, y) \in Nat
         /\ (c(14, x) + c(11, x) + c(13, z) + c(9, y)) % 2 = 0
    <2>1. (c(14, x) + c(11, x) + c(13, z) + c(9, y)) % 2
            = Plus(Plus(c(14, x), c(11, x)), Plus(c(13, z), c(9, y)))
      BY <1>11, <1>12, PlusSums
    <2> QED
      BY <1>6, <1>10, <1>11, <1>12, <2>1, PlusIs
  <1> QED
    BY <1>7, <1>13, <1>14, <1>15, <1>16 DEF b1

\* The parity of a sum is that of the sum of the parities.
LEMMA Parity ==
    ASSUME NEW a \in Nat, NEW b \in Nat, NEW c \in Nat, NEW d \in Nat
    PROVE  ((a % 2) + (b % 2) + (c % 2) + (d % 2)) % 2 = (a + b + c + d) % 2
  OBVIOUS

\* The order of four does not matter; one turn is all that is needed.
LEMMA FourTurns ==
    ASSUME NEW a \in Byte, NEW b \in Byte, NEW c \in Byte, NEW d \in Byte
    PROVE  Four(a, b, c, d) = Four(b, c, d, a) /\ Four(a, b, c, d) \in Byte
  <1>1. /\ Four(a, b, c, d) \in Byte /\ Four(b, c, d, a) \in Byte
        /\ \A p \in Powers :
             /\ BitAt(p, Four(a, b, c, d))
                  = (BitAt(p, a) + BitAt(p, b) + BitAt(p, c) + BitAt(p, d)) % 2
             /\ BitAt(p, Four(b, c, d, a))
                  = (BitAt(p, b) + BitAt(p, c) + BitAt(p, d) + BitAt(p, a)) % 2
    BY SumOfFour
  <1>2. \A p \in Powers : BitAt(p, a) \in {0, 1} /\ BitAt(p, b) \in {0, 1}
                          /\ BitAt(p, c) \in {0, 1} /\ BitAt(p, d) \in {0, 1}
    BY ByteIsBits
  <1>3. \A p \in Powers :
          BitAt(p, a) + BitAt(p, b) + BitAt(p, c) + BitAt(p, d)
            = BitAt(p, b) + BitAt(p, c) + BitAt(p, d) + BitAt(p, a)
    BY <1>2
  <1>4. \A p \in Powers : BitAt(p, Four(a, b, c, d)) = BitAt(p, Four(b, c, d, a))
    BY <1>1, <1>3
  <1> QED
    BY <1>1, <1>4, SameBits

\* A byte of a column that was mixed, from the byte itself and those below it.
Mixed(a, b, c, d) == Four(GFMul[2][a], GFMul[3][b], GFMul[1][c], GFMul[1][d])
Unmixed(a, b, c, d) == Four(GFMul[14][a], GFMul[11][b], GFMul[13][c], GFMul[9][d])

\* The product of a mixed byte.
LEMMA ProductOfMixed ==
    ASSUME NEW n \in Factors, NEW a \in Byte, NEW b \in Byte, NEW c \in Byte, NEW d \in Byte
    PROVE  /\ GFMul[n][Mixed(a, b, c, d)] \in Byte
           /\ \A p \in Powers :
                BitAt(p, GFMul[n][Mixed(a, b, c, d)])
                  = (BitAt(p, GFMul[n][GFMul[2][a]]) + BitAt(p, GFMul[n][GFMul[3][b]])
                     + BitAt(p, GFMul[n][GFMul[1][c]]) + BitAt(p, GFMul[n][GFMul[1][d]])) % 2
  <1> DEFINE u == GFMul[2][a]
             v == GFMul[3][b]
             x == GFMul[1][c]
             y == GFMul[1][d]
  <1>1. u \in Byte /\ v \in Byte /\ x \in Byte /\ y \in Byte
    BY ProductType DEF Factors
  <1> HIDE DEF u, v, x, y
  <1>2. /\ GFMul[n][u] \in Byte /\ GFMul[n][v] \in Byte
        /\ GFMul[n][x] \in Byte /\ GFMul[n][y] \in Byte
    BY <1>1, ProductType
  <1>3. GFMul[n][Four(u, v, x, y)]
          = Four(GFMul[n][u], GFMul[n][v], GFMul[n][x], GFMul[n][y])
    BY <1>1, ProductSumOfFour
  <1>4. /\ Four(GFMul[n][u], GFMul[n][v], GFMul[n][x], GFMul[n][y]) \in Byte
        /\ \A p \in Powers :
             BitAt(p, Four(GFMul[n][u], GFMul[n][v], GFMul[n][x], GFMul[n][y]))
               = (BitAt(p, GFMul[n][u]) + BitAt(p, GFMul[n][v])
                  + BitAt(p, GFMul[n][x]) + BitAt(p, GFMul[n][y])) % 2
    <2> DEFINE nu == GFMul[n][u]
               nv == GFMul[n][v]
               nx == GFMul[n][x]
               ny == GFMul[n][y]
    <2>0. nu \in Byte /\ nv \in Byte /\ nx \in Byte /\ ny \in Byte
      BY <1>2
    <2> HIDE DEF nu, nv, nx, ny
    <2>1. /\ Four(nu, nv, nx, ny) \in Byte
          /\ \A p \in Powers :
               BitAt(p, Four(nu, nv, nx, ny))
                 = (BitAt(p, nu) + BitAt(p, nv) + BitAt(p, nx) + BitAt(p, ny)) % 2
      BY <2>0, SumOfFour
    <2> QED
      BY <2>1 DEF nu, nv, nx, ny
  <1>5. Mixed(a, b, c, d) = Four(u, v, x, y)
    BY DEF Mixed, u, v, x, y
  <1> QED
    BY <1>3, <1>4, <1>5 DEF u, v, x, y

\* The first byte of a column that was mixed and mixed back.
LEMMA FirstIsBack ==
    ASSUME NEW a \in Byte, NEW b \in Byte, NEW c \in Byte, NEW d \in Byte
    PROVE  Unmixed(Mixed(a, b, c, d), Mixed(b, c, d, a), Mixed(c, d, a, b), Mixed(d, a, b, c)) = a
  <1> DEFINE u == GFMul[14][Mixed(a, b, c, d)]
             v == GFMul[11][Mixed(b, c, d, a)]
             x == GFMul[13][Mixed(c, d, a, b)]
             y == GFMul[9][Mixed(d, a, b, c)]
  <1>1. 14 \in Factors /\ 11 \in Factors /\ 13 \in Factors /\ 9 \in Factors
    BY DEF Factors
  <1>2. u \in Byte /\ v \in Byte /\ x \in Byte /\ y \in Byte
    BY <1>1, ProductOfMixed
  <1>3. ASSUME NEW p \in Powers
        PROVE  (BitAt(p, u) + BitAt(p, v) + BitAt(p, x) + BitAt(p, y)) % 2 = BitAt(p, a)
    <2> DEFINE B(n, m, s) == BitAt(p, GFMul[n][GFMul[m][s]])
    <2>1. \A n \in Factors, m \in Factors, s \in Byte : B(n, m, s) \in {0, 1}
      <3> TAKE n \in Factors, m \in Factors, s \in Byte
      <3>1. GFMul[m][s] \in Byte
        BY ProductType
      <3>2. GFMul[n][GFMul[m][s]] \in Byte
        BY <3>1, ProductType
      <3> QED
        BY <3>2, ByteIsBits
    <2>2. /\ BitAt(p, u) = (B(14, 2, a) + B(14, 3, b) + B(14, 1, c) + B(14, 1, d)) % 2
          /\ BitAt(p, v) = (B(11, 2, b) + B(11, 3, c) + B(11, 1, d) + B(11, 1, a)) % 2
          /\ BitAt(p, x) = (B(13, 2, c) + B(13, 3, d) + B(13, 1, a) + B(13, 1, b)) % 2
          /\ BitAt(p, y) = (B(9, 2, d) + B(9, 3, a) + B(9, 1, b) + B(9, 1, c)) % 2
      BY <1>1, ProductOfMixed
    <2>3. /\ Contribution(p, a, 2, 1, 1, 3) = B(14, 2, a) + B(11, 1, a) + B(13, 1, a) + B(9, 3, a)
          /\ Contribution(p, b, 3, 2, 1, 1) = B(14, 3, b) + B(11, 2, b) + B(13, 1, b) + B(9, 1, b)
          /\ Contribution(p, c, 1, 3, 2, 1) = B(14, 1, c) + B(11, 3, c) + B(13, 2, c) + B(9, 1, c)
          /\ Contribution(p, d, 1, 1, 3, 2) = B(14, 1, d) + B(11, 1, d) + B(13, 3, d) + B(9, 2, d)
      BY DEF Contribution
    <2>4. /\ Contribution(p, a, 2, 1, 1, 3) % 2 = BitAt(p, a)
          /\ Contribution(p, b, 3, 2, 1, 1) % 2 = 0
          /\ Contribution(p, c, 1, 3, 2, 1) % 2 = 0
          /\ Contribution(p, d, 1, 1, 3, 2) % 2 = 0
          /\ BitAt(p, a) \in {0, 1}
      BY Contributions, ByteIsBits
    <2> HIDE DEF B, u, v, x, y
    <2> DEFINE r1 == B(14, 2, a) + B(14, 3, b) + B(14, 1, c) + B(14, 1, d)
               r2 == B(11, 2, b) + B(11, 3, c) + B(11, 1, d) + B(11, 1, a)
               r3 == B(13, 2, c) + B(13, 3, d) + B(13, 1, a) + B(13, 1, b)
               r4 == B(9, 2, d) + B(9, 3, a) + B(9, 1, b) + B(9, 1, c)
               k1 == Contribution(p, a, 2, 1, 1, 3)
               k2 == Contribution(p, b, 3, 2, 1, 1)
               k3 == Contribution(p, c, 1, 3, 2, 1)
               k4 == Contribution(p, d, 1, 1, 3, 2)
    <2>5. /\ \A m \in {1, 2, 3} : \A s \in {a, b, c, d} :
               /\ B(14, m, s) \in {0, 1} /\ B(11, m, s) \in {0, 1}
               /\ B(13, m, s) \in {0, 1} /\ B(9, m, s) \in {0, 1}
      BY <2>1 DEF Factors
    <2>6. /\ r1 \in Nat /\ r2 \in Nat /\ r3 \in Nat /\ r4 \in Nat
          /\ k1 \in Nat /\ k2 \in Nat /\ k3 \in Nat /\ k4 \in Nat
      <3>1. k1 \in Nat /\ k2 \in Nat /\ k3 \in Nat /\ k4 \in Nat
        BY Contributions
      <3>2. r1 \in Nat /\ r2 \in Nat /\ r3 \in Nat /\ r4 \in Nat
        <4> HIDE DEF k1, k2, k3, k4
        <4> QED
          BY <2>5
      <3> QED
        BY <3>1, <3>2
    <2>7. r1 + r2 + r3 + r4 = k1 + k2 + k3 + k4
      BY <2>3, <2>5
    <2> HIDE DEF r1, r2, r3, r4, k1, k2, k3, k4
    <2>8. ((r1 % 2) + (r2 % 2) + (r3 % 2) + (r4 % 2)) % 2 = (r1 + r2 + r3 + r4) % 2
      BY <2>6, Parity
    <2>9. ((k1 % 2) + (k2 % 2) + (k3 % 2) + (k4 % 2)) % 2 = (k1 + k2 + k3 + k4) % 2
      BY <2>6, Parity
    <2>10. ((k1 % 2) + (k2 % 2) + (k3 % 2) + (k4 % 2)) % 2 = BitAt(p, a)
      BY <2>4 DEF k1, k2, k3, k4
    <2>11. (BitAt(p, u) + BitAt(p, v) + BitAt(p, x) + BitAt(p, y)) % 2
             = ((r1 % 2) + (r2 % 2) + (r3 % 2) + (r4 % 2)) % 2
      BY <2>2 DEF r1, r2, r3, r4
    <2> QED
      BY <2>7, <2>8, <2>9, <2>10, <2>11
  <1>4. Unmixed(Mixed(a, b, c, d), Mixed(b, c, d, a), Mixed(c, d, a, b), Mixed(d, a, b, c))
          = Four(u, v, x, y)
    BY DEF Unmixed
  <1> HIDE DEF u, v, x, y
  <1>5. /\ Four(u, v, x, y) \in Byte
        /\ \A p \in Powers : BitAt(p, Four(u, v, x, y))
             = (BitAt(p, u) + BitAt(p, v) + BitAt(p, x) + BitAt(p, y)) % 2
    BY <1>2, SumOfFour
  <1>6. \A p \in Powers : BitAt(p, Four(u, v, x, y)) = BitAt(p, a)
    BY <1>3, <1>5
  <1> QED
    BY <1>4, <1>5, <1>6, SameBits

\* Mixing back is linear.
LEMMA UnmixedSum ==
    ASSUME NEW p \in [1..4 -> Byte], NEW q \in [1..4 -> Byte]
    PROVE  Xor[Unmixed(p[1], p[2], p[3], p[4])][Unmixed(q[1], q[2], q[3], q[4])]
             = Unmixed(Xor[p[1]][q[1]], Xor[p[2]][q[2]], Xor[p[3]][q[3]], Xor[p[4]][q[4]])
  <1> DEFINE a == p[1]
             b == p[2]
             c == p[3]
             d == p[4]
             k == q[1]
             l == q[2]
             m == q[3]
             n == q[4]
  <1>0. /\ a \in Byte /\ b \in Byte /\ c \in Byte /\ d \in Byte
        /\ k \in Byte /\ l \in Byte /\ m \in Byte /\ n \in Byte
    OBVIOUS
  <1> HIDE DEF a, b, c, d, k, l, m, n
  <1> DEFINE a1 == GFMul[14][a]
             b1 == GFMul[11][b]
             c1 == GFMul[13][c]
             d1 == GFMul[9][d]
             k1 == GFMul[14][k]
             l1 == GFMul[11][l]
             m1 == GFMul[13][m]
             n1 == GFMul[9][n]
  <1>1. /\ a1 \in Byte /\ b1 \in Byte /\ c1 \in Byte /\ d1 \in Byte
        /\ k1 \in Byte /\ l1 \in Byte /\ m1 \in Byte /\ n1 \in Byte
    BY <1>0, ProductType DEF Factors
  <1>2. /\ GFMul[14][Xor[a][k]] = Xor[a1][k1] /\ GFMul[11][Xor[b][l]] = Xor[b1][l1]
        /\ GFMul[13][Xor[c][m]] = Xor[c1][m1] /\ GFMul[9][Xor[d][n]] = Xor[d1][n1]
    BY <1>0, ProductSum DEF Factors
  <1>3. /\ Unmixed(a, b, c, d) = Four(a1, b1, c1, d1)
        /\ Unmixed(k, l, m, n) = Four(k1, l1, m1, n1)
        /\ Unmixed(Xor[a][k], Xor[b][l], Xor[c][m], Xor[d][n])
             = Four(Xor[a1][k1], Xor[b1][l1], Xor[c1][m1], Xor[d1][n1])
    BY <1>2 DEF Unmixed
  <1> HIDE DEF a1, b1, c1, d1, k1, l1, m1, n1
  <1> DEFINE f == Four(a1, b1, c1, d1)
             g == Four(k1, l1, m1, n1)
             h == Four(Xor[a1][k1], Xor[b1][l1], Xor[c1][m1], Xor[d1][n1])
  <1> DEFINE s == Xor[a1][k1]
             t == Xor[b1][l1]
             u == Xor[c1][m1]
             v == Xor[d1][n1]
  <1>4. s \in Byte /\ t \in Byte /\ u \in Byte /\ v \in Byte
    BY <1>1, XorIs
  <1>5. /\ f \in Byte /\ g \in Byte /\ h \in Byte
        /\ \A z \in Powers :
             /\ BitAt(z, f) = (BitAt(z, a1) + BitAt(z, b1) + BitAt(z, c1) + BitAt(z, d1)) % 2
             /\ BitAt(z, g) = (BitAt(z, k1) + BitAt(z, l1) + BitAt(z, m1) + BitAt(z, n1)) % 2
             /\ BitAt(z, h) = (BitAt(z, s) + BitAt(z, t) + BitAt(z, u) + BitAt(z, v)) % 2
    <2>1. h = Four(s, t, u, v)
      OBVIOUS
    <2> HIDE DEF s, t, u, v, h
    <2>2. /\ Four(s, t, u, v) \in Byte
          /\ \A z \in Powers : BitAt(z, Four(s, t, u, v))
               = (BitAt(z, s) + BitAt(z, t) + BitAt(z, u) + BitAt(z, v)) % 2
      BY <1>4, SumOfFour
    <2>3. /\ f \in Byte /\ g \in Byte
          /\ \A z \in Powers :
             /\ BitAt(z, f) = (BitAt(z, a1) + BitAt(z, b1) + BitAt(z, c1) + BitAt(z, d1)) % 2
             /\ BitAt(z, g) = (BitAt(z, k1) + BitAt(z, l1) + BitAt(z, m1) + BitAt(z, n1)) % 2
      BY <1>1, SumOfFour
    <2> QED
      BY <2>1, <2>2, <2>3
  <1>6. \A z \in Powers :
          /\ BitAt(z, Xor[a1][k1]) = (BitAt(z, a1) + BitAt(z, k1)) % 2
          /\ BitAt(z, Xor[b1][l1]) = (BitAt(z, b1) + BitAt(z, l1)) % 2
          /\ BitAt(z, Xor[c1][m1]) = (BitAt(z, c1) + BitAt(z, m1)) % 2
          /\ BitAt(z, Xor[d1][n1]) = (BitAt(z, d1) + BitAt(z, n1)) % 2
    BY <1>1, XorIs
  <1> HIDE DEF f, g, h
  <1>7. /\ Xor[f][g] \in Byte
        /\ \A z \in Powers : BitAt(z, Xor[f][g]) = (BitAt(z, f) + BitAt(z, g)) % 2
    BY <1>5, XorIs
  <1>8. ASSUME NEW z \in Powers PROVE BitAt(z, Xor[f][g]) = BitAt(z, h)
    <2> DEFINE A == BitAt(z, a1)
               B == BitAt(z, b1)
               C == BitAt(z, c1)
               D == BitAt(z, d1)
               K == BitAt(z, k1)
               L == BitAt(z, l1)
               M == BitAt(z, m1)
               N == BitAt(z, n1)
    <2>1. /\ A \in {0, 1} /\ B \in {0, 1} /\ C \in {0, 1} /\ D \in {0, 1}
          /\ K \in {0, 1} /\ L \in {0, 1} /\ M \in {0, 1} /\ N \in {0, 1}
      BY <1>1, ByteIsBits
    <2>2. /\ BitAt(z, Xor[f][g]) = (((A + B + C + D) % 2) + ((K + L + M + N) % 2)) % 2
          /\ BitAt(z, h) = (((A + K) % 2) + ((B + L) % 2) + ((C + M) % 2) + ((D + N) % 2)) % 2
      BY <1>5, <1>6, <1>7
    <2> HIDE DEF A, B, C, D, K, L, M, N
    <2>3. (((A + K) % 2) + ((B + L) % 2) + ((C + M) % 2) + ((D + N) % 2)) % 2
            = ((A + K) + (B + L) + (C + M) + (D + N)) % 2
      BY <2>1, Parity
    <2>4. (((A + B + C + D) % 2) + ((K + L + M + N) % 2)) % 2
            = ((A + B + C + D) + (K + L + M + N)) % 2
      <3> DEFINE x == A + B + C + D
                 y == K + L + M + N
      <3>1. x \in Nat /\ y \in Nat
        BY <2>1
      <3> HIDE DEF x, y
      <3>2. ((x % 2) + (y % 2)) % 2 = (x + y) % 2
        BY <3>1
      <3> QED
        BY <3>2 DEF x, y
    <2>5. (A + K) + (B + L) + (C + M) + (D + N) = (A + B + C + D) + (K + L + M + N)
      BY <2>1
    <2> QED
      BY <2>2, <2>3, <2>4, <2>5
  <1>9. Xor[f][g] = h
    BY <1>5, <1>7, <1>8, SameBits
  <1> QED
    BY <1>3, <1>9 DEF f, g, h, a, b, c, d, k, l, m, n

-----------------------------------------------------------------------------
(* The steps of a round, cell by cell                                      *)

Square == [1..4 -> [1..4 -> Byte]]

\* Two arrays with the same cells are equal.
LEMMA SameCells ==
    ASSUME NEW a \in Square, NEW b \in Square, \A r, c \in 1..4 : a[r][c] = b[r][c]
    PROVE  a = b
  <1>1. \A r \in 1..4 : a[r] = b[r]
    BY DEF Square
  <1> QED
    BY <1>1 DEF Square

\* An array from its cells.
LEMMA ArrayOf ==
    ASSUME NEW a \in Square
    PROVE  << <<a[1][1], a[1][2], a[1][3], a[1][4]>>, <<a[2][1], a[2][2], a[2][3], a[2][4]>>,
              <<a[3][1], a[3][2], a[3][3], a[3][4]>>, <<a[4][1], a[4][2], a[4][3], a[4][4]>> >>
             = a
  <1>1. ASSUME NEW r \in 1..4 PROVE <<a[r][1], a[r][2], a[r][3], a[r][4]>> = a[r]
    <2>1. a[r] \in [1..4 -> Byte]
      BY DEF Square
    <2> DEFINE v == a[r]
    <2> HIDE DEF v
    <2>2. v \in [1..4 -> Byte] => <<v[1], v[2], v[3], v[4]>> = v
      OBVIOUS
    <2> QED
      BY <2>1, <2>2 DEF v
  <1>2. <<a[1], a[2], a[3], a[4]>> = a
    BY DEF Square
  <1> QED
    BY <1>1, <1>2

\* Adding two arrays.
LEMMA AddIs ==
    ASSUME NEW a \in Square, NEW b \in Square
    PROVE  /\ addRoundTowArray(a, b) \in Square
           /\ \A r, c \in 1..4 : addRoundTowArray(a, b)[r][c] = Xor[a[r][c]][b[r][c]]
  <1> DEFINE x(r, c) == Xor[a[r][c]][b[r][c]]
             f == [r \in 1..4 |-> [c \in 1..4 |-> x(r, c)]]
  <1>1. addRoundTowArray(a, b)
          = << <<x(1, 1), x(1, 2), x(1, 3), x(1, 4)>>, <<x(2, 1), x(2, 2), x(2, 3), x(2, 4)>>,
               <<x(3, 1), x(3, 2), x(3, 3), x(3, 4)>>, <<x(4, 1), x(4, 2), x(4, 3), x(4, 4)>> >>
    BY DEF addRoundTowArray, Array, Word
  <1>2. \A r, c \in 1..4 : x(r, c) \in Byte
    BY XorIs DEF Square
  <1> HIDE DEF x
  <1>3. f \in Square /\ \A r, c \in 1..4 : f[r][c] = x(r, c)
    BY <1>2 DEF Square
  <1> HIDE DEF f
  <1>4. addRoundTowArray(a, b) = f
    BY <1>1, <1>3, ArrayOf
  <1> QED
    BY <1>3, <1>4 DEF x

\* The boxes are inverse to each other.
LEMMA BoxesAreInverse ==
    \A b \in Byte : getNumFromSBox(b) \in Byte /\ getNumFromS1Box(getNumFromSBox(b)) = b
  <1>1. \A b \in Byte : getNumFromSBox(b) \in Byte
    BY DEF S, Byte, getNumFromSBox
  <1>2. \A b \in Byte : getNumFromS1Box(getNumFromSBox(b)) = b
    BY SMTT(60) DEF S, S2, Byte, getNumFromSBox, getNumFromS1Box
  <1> QED
    BY <1>1, <1>2

\* subBytes replaces each byte of a square by its image in the box.
LEMMA SubBytesIs ==
    ASSUME NEW a \in Square
    PROVE  /\ subBytes(a) \in Square
           /\ \A r, c \in 1..4 : subBytes(a)[r][c] = getNumFromSBox(a[r][c])
  <1>1. subBytes(a) = [r \in 1..4 |-> [c \in 1..4 |-> getNumFromSBox(a[r][c])]]
    BY DEF subBytes, Array, Word
  <1>2. \A r, c \in 1..4 : getNumFromSBox(a[r][c]) \in Byte
    BY BoxesAreInverse DEF Square
  <1> QED
    BY <1>1, <1>2 DEF Square

\* Turning a place right by as much as it was turned left returns it.
LEMMA TurnedIs ==
    \A r, c \in 1..4 : /\ Turned(c, r - 1) \in 1..4 /\ Turned(c, 1 - r) \in 1..4
                       /\ Turned(Turned(c, 1 - r), r - 1) = c
  BY DEF Turned

\* shiftRows turns row r of a square by r - 1 places.
LEMMA ShiftRowsIs ==
    ASSUME NEW a \in Square
    PROVE  /\ shiftRows(a) \in Square
           /\ \A r, c \in 1..4 : shiftRows(a)[r][c] = a[r][Turned(c, r - 1)]
  <1>1. shiftRows(a) = [r \in 1..4 |-> [c \in 1..4 |-> a[r][Turned(c, r - 1)]]]
    BY DEF shiftRows, Array, Word
  <1> QED
    BY <1>1, TurnedIs DEF Square

\* Shifting and substituting back.
LEMMA ShiftedBack ==
    ASSUME NEW a \in Square
    PROVE  deShiftRows(deSubBytes(shiftRows(subBytes(a)))) = a
  <1> DEFINE b == shiftRows(subBytes(a))
  <1>1. b \in Square /\ \A r, c \in 1..4 : b[r][c] = getNumFromSBox(a[r][Turned(c, r - 1)])
    <2> DEFINE s == subBytes(a)
    <2>1. s \in Square /\ \A r, c \in 1..4 : s[r][c] = getNumFromSBox(a[r][c])
      BY SubBytesIs
    <2> HIDE DEF s
    <2>2. shiftRows(s) \in Square /\ \A r, c \in 1..4 : shiftRows(s)[r][c] = s[r][Turned(c, r - 1)]
      BY <2>1, ShiftRowsIs
    <2> QED
      BY <2>1, <2>2, TurnedIs DEF s
  <1> HIDE DEF b
  <1>2. \A r, c \in 1..4 : a[r][c] \in Byte
    BY DEF Square
  <1>3. deSubBytes(b) = [r \in 1..4 |-> [c \in 1..4 |-> getNumFromS1Box(b[r][c])]]
    BY DEF deSubBytes, Array, Word
  <1>4. deSubBytes(b) = [r \in 1..4 |-> [c \in 1..4 |-> a[r][Turned(c, r - 1)]]]
    <2>1. \A r, c \in 1..4 : getNumFromS1Box(b[r][c]) = a[r][Turned(c, r - 1)]
      BY <1>1, <1>2, BoxesAreInverse, TurnedIs
    <2> QED
      BY <1>3, <2>1
  <1> DEFINE d == deSubBytes(b)
  <1>5. deShiftRows(d) = [r \in 1..4 |-> [c \in 1..4 |-> d[r][Turned(c, 1 - r)]]]
    BY DEF deShiftRows, Array, Word
  <1>6. \A r, c \in 1..4 : d[r][Turned(c, 1 - r)] = a[r][c]
    BY <1>4, TurnedIs
  <1> HIDE DEF d
  <1>7. deShiftRows(d) = [r \in 1..4 |-> [c \in 1..4 |-> a[r][c]]]
    BY <1>5, <1>6
  <1> QED
    BY <1>7 DEF Square, b, d

\* Mixing the columns.
LEMMA MixIs ==
    ASSUME NEW a \in Square
    PROVE  /\ mixColumns(a) \in Square
           /\ \A c \in 1..4 :
                /\ mixColumns(a)[1][c] = Mixed(a[1][c], a[2][c], a[3][c], a[4][c])
                /\ mixColumns(a)[2][c] = Mixed(a[2][c], a[3][c], a[4][c], a[1][c])
                /\ mixColumns(a)[3][c] = Mixed(a[3][c], a[4][c], a[1][c], a[2][c])
                /\ mixColumns(a)[4][c] = Mixed(a[4][c], a[1][c], a[2][c], a[3][c])
  <1> DEFINE h(r, k, c) == GFMul[colM[r][k]][a[k][c]]
             x(r, c) == Four(h(r, 1, c), h(r, 2, c), h(r, 3, c), h(r, 4, c))
             f == [r \in 1..4 |-> [c \in 1..4 |-> x(r, c)]]
  <1>1. mixColumns(a)
          = << <<x(1, 1), x(1, 2), x(1, 3), x(1, 4)>>, <<x(2, 1), x(2, 2), x(2, 3), x(2, 4)>>,
               <<x(3, 1), x(3, 2), x(3, 3), x(3, 4)>>, <<x(4, 1), x(4, 2), x(4, 3), x(4, 4)>> >>
    BY DEF mixColumns, Mix, Array, Word, Four
  <1>2. \A r, c \in 1..4 : colM[r][c] \in Factors
    BY DEF colM, Factors
  <1>3. \A r, c \in 1..4 : a[r][c] \in Byte
    BY DEF Square
  <1>4. \A r, c, k \in 1..4 : h(r, k, c) \in Byte
    BY <1>2, <1>3, ProductType
  <1>5. f \in Square /\ \A r, c \in 1..4 : f[r][c] = x(r, c)
    <2>1. \A r, c \in 1..4 : x(r, c) \in Byte
      <3> HIDE DEF h
      <3> TAKE r, c \in 1..4
      <3>1. h(r, 1, c) \in Byte /\ h(r, 2, c) \in Byte /\ h(r, 3, c) \in Byte /\ h(r, 4, c) \in Byte
        BY <1>4
      <3> QED
        BY <3>1, FourTurns
    <2> HIDE DEF x
    <2> QED
      BY <2>1 DEF Square
  <1>6. \A c \in 1..4 : /\ x(1, c) = Mixed(a[1][c], a[2][c], a[3][c], a[4][c])
                        /\ x(2, c) = Mixed(a[2][c], a[3][c], a[4][c], a[1][c])
                        /\ x(3, c) = Mixed(a[3][c], a[4][c], a[1][c], a[2][c])
                        /\ x(4, c) = Mixed(a[4][c], a[1][c], a[2][c], a[3][c])
    <2> TAKE c \in 1..4
    <2>1. /\ \A k \in 1..4 : /\ GFMul[1][a[k][c]] \in Byte /\ GFMul[2][a[k][c]] \in Byte
                             /\ GFMul[3][a[k][c]] \in Byte
      BY <1>3, ProductType DEF Factors
    <2> DEFINE g(n, k) == GFMul[n][a[k][c]]
    <2>2. /\ x(1, c) = Four(g(2, 1), g(3, 2), g(1, 3), g(1, 4))
          /\ x(2, c) = Four(g(1, 1), g(2, 2), g(3, 3), g(1, 4))
          /\ x(3, c) = Four(g(1, 1), g(1, 2), g(2, 3), g(3, 4))
          /\ x(4, c) = Four(g(3, 1), g(1, 2), g(1, 3), g(2, 4))
      BY DEF colM
    <2>3. /\ Mixed(a[1][c], a[2][c], a[3][c], a[4][c]) = Four(g(2, 1), g(3, 2), g(1, 3), g(1, 4))
          /\ Mixed(a[2][c], a[3][c], a[4][c], a[1][c]) = Four(g(2, 2), g(3, 3), g(1, 4), g(1, 1))
          /\ Mixed(a[3][c], a[4][c], a[1][c], a[2][c]) = Four(g(2, 3), g(3, 4), g(1, 1), g(1, 2))
          /\ Mixed(a[4][c], a[1][c], a[2][c], a[3][c]) = Four(g(2, 4), g(3, 1), g(1, 2), g(1, 3))
      BY DEF Mixed
    <2>4. \A k \in 1..4 : g(1, k) \in Byte /\ g(2, k) \in Byte /\ g(3, k) \in Byte
      BY <2>1
    <2> HIDE DEF g, x
    <2>5. /\ Four(g(1, 1), g(2, 2), g(3, 3), g(1, 4)) = Four(g(2, 2), g(3, 3), g(1, 4), g(1, 1))
          /\ Four(g(1, 1), g(1, 2), g(2, 3), g(3, 4)) = Four(g(1, 2), g(2, 3), g(3, 4), g(1, 1))
          /\ Four(g(1, 2), g(2, 3), g(3, 4), g(1, 1)) = Four(g(2, 3), g(3, 4), g(1, 1), g(1, 2))
          /\ Four(g(2, 4), g(3, 1), g(1, 2), g(1, 3)) = Four(g(3, 1), g(1, 2), g(1, 3), g(2, 4))
      BY <2>4, FourTurns
    <2> QED
      BY <2>2, <2>3, <2>5
  <1> HIDE DEF x, f
  <1>7. mixColumns(a) = f
    BY <1>1, <1>5, ArrayOf
  <1> QED
    BY <1>5, <1>6, <1>7

\* Mixing them back.
LEMMA UnmixIs ==
    ASSUME NEW a \in Square
    PROVE  /\ deMixColumns(a) \in Square
           /\ \A c \in 1..4 :
                /\ deMixColumns(a)[1][c] = Unmixed(a[1][c], a[2][c], a[3][c], a[4][c])
                /\ deMixColumns(a)[2][c] = Unmixed(a[2][c], a[3][c], a[4][c], a[1][c])
                /\ deMixColumns(a)[3][c] = Unmixed(a[3][c], a[4][c], a[1][c], a[2][c])
                /\ deMixColumns(a)[4][c] = Unmixed(a[4][c], a[1][c], a[2][c], a[3][c])
  <1> DEFINE h(r, k, c) == GFMul[deColM[r][k]][a[k][c]]
             x(r, c) == Four(h(r, 1, c), h(r, 2, c), h(r, 3, c), h(r, 4, c))
             f == [r \in 1..4 |-> [c \in 1..4 |-> x(r, c)]]
  <1>1. deMixColumns(a)
          = << <<x(1, 1), x(1, 2), x(1, 3), x(1, 4)>>, <<x(2, 1), x(2, 2), x(2, 3), x(2, 4)>>,
               <<x(3, 1), x(3, 2), x(3, 3), x(3, 4)>>, <<x(4, 1), x(4, 2), x(4, 3), x(4, 4)>> >>
    BY DEF deMixColumns, Mix, Array, Word, Four
  <1>2. \A r, c \in 1..4 : deColM[r][c] \in Factors
    BY DEF deColM, Factors
  <1>3. \A r, c \in 1..4 : a[r][c] \in Byte
    BY DEF Square
  <1>4. \A r, c, k \in 1..4 : h(r, k, c) \in Byte
    BY <1>2, <1>3, ProductType
  <1>5. f \in Square /\ \A r, c \in 1..4 : f[r][c] = x(r, c)
    <2>1. \A r, c \in 1..4 : x(r, c) \in Byte
      <3> HIDE DEF h
      <3> TAKE r, c \in 1..4
      <3>1. h(r, 1, c) \in Byte /\ h(r, 2, c) \in Byte /\ h(r, 3, c) \in Byte /\ h(r, 4, c) \in Byte
        BY <1>4
      <3> QED
        BY <3>1, FourTurns
    <2> HIDE DEF x
    <2> QED
      BY <2>1 DEF Square
  <1>6. \A c \in 1..4 : /\ x(1, c) = Unmixed(a[1][c], a[2][c], a[3][c], a[4][c])
                        /\ x(2, c) = Unmixed(a[2][c], a[3][c], a[4][c], a[1][c])
                        /\ x(3, c) = Unmixed(a[3][c], a[4][c], a[1][c], a[2][c])
                        /\ x(4, c) = Unmixed(a[4][c], a[1][c], a[2][c], a[3][c])
    <2> TAKE c \in 1..4
    <2>1. /\ \A k \in 1..4 : /\ GFMul[9][a[k][c]] \in Byte /\ GFMul[11][a[k][c]] \in Byte
                             /\ GFMul[13][a[k][c]] \in Byte /\ GFMul[14][a[k][c]] \in Byte
      BY <1>3, ProductType DEF Factors
    <2> DEFINE g(n, k) == GFMul[n][a[k][c]]
    <2>2. /\ x(1, c) = Four(g(14, 1), g(11, 2), g(13, 3), g(9, 4))
          /\ x(2, c) = Four(g(9, 1), g(14, 2), g(11, 3), g(13, 4))
          /\ x(3, c) = Four(g(13, 1), g(9, 2), g(14, 3), g(11, 4))
          /\ x(4, c) = Four(g(11, 1), g(13, 2), g(9, 3), g(14, 4))
      BY DEF deColM
    <2>3. /\ Unmixed(a[1][c], a[2][c], a[3][c], a[4][c])
               = Four(g(14, 1), g(11, 2), g(13, 3), g(9, 4))
          /\ Unmixed(a[2][c], a[3][c], a[4][c], a[1][c])
               = Four(g(14, 2), g(11, 3), g(13, 4), g(9, 1))
          /\ Unmixed(a[3][c], a[4][c], a[1][c], a[2][c])
               = Four(g(14, 3), g(11, 4), g(13, 1), g(9, 2))
          /\ Unmixed(a[4][c], a[1][c], a[2][c], a[3][c])
               = Four(g(14, 4), g(11, 1), g(13, 2), g(9, 3))
      BY DEF Unmixed
    <2>4. \A k \in 1..4 : g(9, k) \in Byte /\ g(11, k) \in Byte /\ g(13, k) \in Byte
                          /\ g(14, k) \in Byte
      BY <2>1
    <2> HIDE DEF g, x
    <2>5. /\ Four(g(9, 1), g(14, 2), g(11, 3), g(13, 4)) = Four(g(14, 2), g(11, 3), g(13, 4), g(9, 1))
          /\ Four(g(13, 1), g(9, 2), g(14, 3), g(11, 4)) = Four(g(9, 2), g(14, 3), g(11, 4), g(13, 1))
          /\ Four(g(9, 2), g(14, 3), g(11, 4), g(13, 1)) = Four(g(14, 3), g(11, 4), g(13, 1), g(9, 2))
          /\ Four(g(14, 4), g(11, 1), g(13, 2), g(9, 3)) = Four(g(11, 1), g(13, 2), g(9, 3), g(14, 4))
      BY <2>4, FourTurns
    <2> QED
      BY <2>2, <2>3, <2>5
  <1> HIDE DEF x, f
  <1>7. deMixColumns(a) = f
    BY <1>1, <1>5, ArrayOf
  <1> QED
    BY <1>5, <1>6, <1>7

\* What was mixed is mixed back.
LEMMA MixedBack ==
    ASSUME NEW a \in Square
    PROVE  deMixColumns(mixColumns(a)) = a
  <1> DEFINE m == mixColumns(a)
  <1>1. m \in Square
        /\ \A c \in 1..4 : /\ m[1][c] = Mixed(a[1][c], a[2][c], a[3][c], a[4][c])
                           /\ m[2][c] = Mixed(a[2][c], a[3][c], a[4][c], a[1][c])
                           /\ m[3][c] = Mixed(a[3][c], a[4][c], a[1][c], a[2][c])
                           /\ m[4][c] = Mixed(a[4][c], a[1][c], a[2][c], a[3][c])
    BY MixIs
  <1> HIDE DEF m
  <1> DEFINE d == deMixColumns(m)
  <1>2. d \in Square
        /\ \A c \in 1..4 : /\ d[1][c] = Unmixed(m[1][c], m[2][c], m[3][c], m[4][c])
                           /\ d[2][c] = Unmixed(m[2][c], m[3][c], m[4][c], m[1][c])
                           /\ d[3][c] = Unmixed(m[3][c], m[4][c], m[1][c], m[2][c])
                           /\ d[4][c] = Unmixed(m[4][c], m[1][c], m[2][c], m[3][c])
    BY <1>1, UnmixIs
  <1> HIDE DEF d
  <1>3. ASSUME NEW c \in 1..4
        PROVE  d[1][c] = a[1][c] /\ d[2][c] = a[2][c] /\ d[3][c] = a[3][c] /\ d[4][c] = a[4][c]
    <2> DEFINE s == a[1][c]
               t == a[2][c]
               u == a[3][c]
               v == a[4][c]
    <2>1. s \in Byte /\ t \in Byte /\ u \in Byte /\ v \in Byte
      BY DEF Square
    <2>2. /\ d[1][c] = Unmixed(Mixed(s, t, u, v), Mixed(t, u, v, s), Mixed(u, v, s, t), Mixed(v, s, t, u))
          /\ d[2][c] = Unmixed(Mixed(t, u, v, s), Mixed(u, v, s, t), Mixed(v, s, t, u), Mixed(s, t, u, v))
          /\ d[3][c] = Unmixed(Mixed(u, v, s, t), Mixed(v, s, t, u), Mixed(s, t, u, v), Mixed(t, u, v, s))
          /\ d[4][c] = Unmixed(Mixed(v, s, t, u), Mixed(s, t, u, v), Mixed(t, u, v, s), Mixed(u, v, s, t))
      BY <1>1, <1>2
    <2> HIDE DEF s, t, u, v
    <2>3. d[1][c] = s /\ d[2][c] = t /\ d[3][c] = u /\ d[4][c] = v
      BY <2>1, <2>2, FirstIsBack
    <2> QED
      BY <2>3 DEF s, t, u, v
  <1>4. \A r, c \in 1..4 : d[r][c] = a[r][c]
    <2> TAKE r, c \in 1..4
    <2>1. r = 1 \/ r = 2 \/ r = 3 \/ r = 4
      OBVIOUS
    <2> QED
      BY <1>3, <2>1
  <1> QED
    BY <1>2, <1>4, SameCells DEF d, m

\* Mixing back a sum mixes back its parts.
LEMMA UnmixSum ==
    ASSUME NEW a \in Square, NEW b \in Square
    PROVE  addRoundTowArray(deMixColumns(a), deMixColumns(b))
             = deMixColumns(addRoundTowArray(a, b))
  <1> DEFINE e == addRoundTowArray(a, b)
             u == deMixColumns(a)
             v == deMixColumns(b)
             x == deMixColumns(e)
             y == addRoundTowArray(u, v)
  <1>1. e \in Square /\ \A r, c \in 1..4 : e[r][c] = Xor[a[r][c]][b[r][c]]
    BY AddIs
  <1> HIDE DEF e
  <1>2. /\ u \in Square /\ v \in Square /\ x \in Square
        /\ \A c \in 1..4 :
             /\ u[1][c] = Unmixed(a[1][c], a[2][c], a[3][c], a[4][c])
             /\ u[2][c] = Unmixed(a[2][c], a[3][c], a[4][c], a[1][c])
             /\ u[3][c] = Unmixed(a[3][c], a[4][c], a[1][c], a[2][c])
             /\ u[4][c] = Unmixed(a[4][c], a[1][c], a[2][c], a[3][c])
             /\ v[1][c] = Unmixed(b[1][c], b[2][c], b[3][c], b[4][c])
             /\ v[2][c] = Unmixed(b[2][c], b[3][c], b[4][c], b[1][c])
             /\ v[3][c] = Unmixed(b[3][c], b[4][c], b[1][c], b[2][c])
             /\ v[4][c] = Unmixed(b[4][c], b[1][c], b[2][c], b[3][c])
             /\ x[1][c] = Unmixed(e[1][c], e[2][c], e[3][c], e[4][c])
             /\ x[2][c] = Unmixed(e[2][c], e[3][c], e[4][c], e[1][c])
             /\ x[3][c] = Unmixed(e[3][c], e[4][c], e[1][c], e[2][c])
             /\ x[4][c] = Unmixed(e[4][c], e[1][c], e[2][c], e[3][c])
    BY <1>1, UnmixIs
  <1> HIDE DEF u, v, x
  <1>3. y \in Square /\ \A r, c \in 1..4 : y[r][c] = Xor[u[r][c]][v[r][c]]
    BY <1>2, AddIs
  <1> HIDE DEF y
  <1>4. \A r, c \in 1..4 : a[r][c] \in Byte /\ b[r][c] \in Byte
    BY DEF Square
  <1>5. \A r, c \in 1..4 : y[r][c] = x[r][c]
    <2> TAKE r, c \in 1..4
    <2>1. r = 1 \/ r = 2 \/ r = 3 \/ r = 4
      OBVIOUS
    <2> DEFINE a1 == a[1][c]
               a2 == a[2][c]
               a3 == a[3][c]
               a4 == a[4][c]
               b1 == b[1][c]
               b2 == b[2][c]
               b3 == b[3][c]
               b4 == b[4][c]
    <2>2. /\ a1 \in Byte /\ a2 \in Byte /\ a3 \in Byte /\ a4 \in Byte
          /\ b1 \in Byte /\ b2 \in Byte /\ b3 \in Byte /\ b4 \in Byte
      BY <1>4
    <2>3. /\ y[1][c] = Xor[Unmixed(a1, a2, a3, a4)][Unmixed(b1, b2, b3, b4)]
          /\ y[2][c] = Xor[Unmixed(a2, a3, a4, a1)][Unmixed(b2, b3, b4, b1)]
          /\ y[3][c] = Xor[Unmixed(a3, a4, a1, a2)][Unmixed(b3, b4, b1, b2)]
          /\ y[4][c] = Xor[Unmixed(a4, a1, a2, a3)][Unmixed(b4, b1, b2, b3)]
      BY <1>2, <1>3
    <2>4. /\ x[1][c] = Unmixed(Xor[a1][b1], Xor[a2][b2], Xor[a3][b3], Xor[a4][b4])
          /\ x[2][c] = Unmixed(Xor[a2][b2], Xor[a3][b3], Xor[a4][b4], Xor[a1][b1])
          /\ x[3][c] = Unmixed(Xor[a3][b3], Xor[a4][b4], Xor[a1][b1], Xor[a2][b2])
          /\ x[4][c] = Unmixed(Xor[a4][b4], Xor[a1][b1], Xor[a2][b2], Xor[a3][b3])
      BY <1>1, <1>2
    <2> HIDE DEF a1, a2, a3, a4, b1, b2, b3, b4
    <2>5. /\ Xor[Unmixed(a1, a2, a3, a4)][Unmixed(b1, b2, b3, b4)]
               = Unmixed(Xor[a1][b1], Xor[a2][b2], Xor[a3][b3], Xor[a4][b4])
          /\ Xor[Unmixed(a2, a3, a4, a1)][Unmixed(b2, b3, b4, b1)]
               = Unmixed(Xor[a2][b2], Xor[a3][b3], Xor[a4][b4], Xor[a1][b1])
          /\ Xor[Unmixed(a3, a4, a1, a2)][Unmixed(b3, b4, b1, b2)]
               = Unmixed(Xor[a3][b3], Xor[a4][b4], Xor[a1][b1], Xor[a2][b2])
          /\ Xor[Unmixed(a4, a1, a2, a3)][Unmixed(b4, b1, b2, b3)]
               = Unmixed(Xor[a4][b4], Xor[a1][b1], Xor[a2][b2], Xor[a3][b3])
      <3>1. Xor[Unmixed(a1, a2, a3, a4)][Unmixed(b1, b2, b3, b4)]
               = Unmixed(Xor[a1][b1], Xor[a2][b2], Xor[a3][b3], Xor[a4][b4])
        <4> DEFINE p == <<a1, a2, a3, a4>>
                   q == <<b1, b2, b3, b4>>
        <4>1. p \in [1..4 -> Byte] /\ q \in [1..4 -> Byte]
          BY <2>2
        <4> HIDE DEF p, q
        <4>2. Xor[Unmixed(p[1], p[2], p[3], p[4])][Unmixed(q[1], q[2], q[3], q[4])]
                = Unmixed(Xor[p[1]][q[1]], Xor[p[2]][q[2]], Xor[p[3]][q[3]], Xor[p[4]][q[4]])
          BY <4>1, UnmixedSum
        <4> QED
          BY <4>2 DEF p, q
      <3>2. Xor[Unmixed(a2, a3, a4, a1)][Unmixed(b2, b3, b4, b1)]
               = Unmixed(Xor[a2][b2], Xor[a3][b3], Xor[a4][b4], Xor[a1][b1])
        <4> DEFINE p == <<a2, a3, a4, a1>>
                   q == <<b2, b3, b4, b1>>
        <4>1. p \in [1..4 -> Byte] /\ q \in [1..4 -> Byte]
          BY <2>2
        <4> HIDE DEF p, q
        <4>2. Xor[Unmixed(p[1], p[2], p[3], p[4])][Unmixed(q[1], q[2], q[3], q[4])]
                = Unmixed(Xor[p[1]][q[1]], Xor[p[2]][q[2]], Xor[p[3]][q[3]], Xor[p[4]][q[4]])
          BY <4>1, UnmixedSum
        <4> QED
          BY <4>2 DEF p, q
      <3>3. Xor[Unmixed(a3, a4, a1, a2)][Unmixed(b3, b4, b1, b2)]
               = Unmixed(Xor[a3][b3], Xor[a4][b4], Xor[a1][b1], Xor[a2][b2])
        <4> DEFINE p == <<a3, a4, a1, a2>>
                   q == <<b3, b4, b1, b2>>
        <4>1. p \in [1..4 -> Byte] /\ q \in [1..4 -> Byte]
          BY <2>2
        <4> HIDE DEF p, q
        <4>2. Xor[Unmixed(p[1], p[2], p[3], p[4])][Unmixed(q[1], q[2], q[3], q[4])]
                = Unmixed(Xor[p[1]][q[1]], Xor[p[2]][q[2]], Xor[p[3]][q[3]], Xor[p[4]][q[4]])
          BY <4>1, UnmixedSum
        <4> QED
          BY <4>2 DEF p, q
      <3>4. Xor[Unmixed(a4, a1, a2, a3)][Unmixed(b4, b1, b2, b3)]
               = Unmixed(Xor[a4][b4], Xor[a1][b1], Xor[a2][b2], Xor[a3][b3])
        <4> DEFINE p == <<a4, a1, a2, a3>>
                   q == <<b4, b1, b2, b3>>
        <4>1. p \in [1..4 -> Byte] /\ q \in [1..4 -> Byte]
          BY <2>2
        <4> HIDE DEF p, q
        <4>2. Xor[Unmixed(p[1], p[2], p[3], p[4])][Unmixed(q[1], q[2], q[3], q[4])]
                = Unmixed(Xor[p[1]][q[1]], Xor[p[2]][q[2]], Xor[p[3]][q[3]], Xor[p[4]][q[4]])
          BY <4>1, UnmixedSum
        <4> QED
          BY <4>2 DEF p, q
      <3> QED
        BY <3>1, <3>2, <3>3, <3>4
    <2>6. y[1][c] = x[1][c] /\ y[2][c] = x[2][c] /\ y[3][c] = x[3][c] /\ y[4][c] = x[4][c]
      BY <2>3, <2>4, <2>5, Zenon
    <2> QED
      BY <2>1, <2>6
  <1> QED
    BY <1>2, <1>3, <1>5, SameCells DEF e, u, v, x, y

-----------------------------------------------------------------------------
(* A block there and back                                                  *)

Column == [1..4 -> Byte]
Words == [WordIndex -> Column]
Block == [1..16 -> Byte]

\* A round key is an array.
LEMMA RoundKeyIs ==
    ASSUME NEW v \in Words, NEW round \in 0..10
    PROVE  getArrayFrom4W(v, round) \in Square
  <1> DEFINE x(r, c) == v[4 * round + c - 1][r]
             f == [r \in 1..4 |-> [c \in 1..4 |-> x(r, c)]]
  <1>1. getArrayFrom4W(v, round)
          = << <<x(1, 1), x(1, 2), x(1, 3), x(1, 4)>>, <<x(2, 1), x(2, 2), x(2, 3), x(2, 4)>>,
               <<x(3, 1), x(3, 2), x(3, 3), x(3, 4)>>, <<x(4, 1), x(4, 2), x(4, 3), x(4, 4)>> >>
    BY DEF getArrayFrom4W, Array, Word
  <1>2. \A r, c \in 1..4 : x(r, c) \in Byte
    <2> TAKE r, c \in 1..4
    <2>1. 4 * round + c - 1 \in WordIndex
      BY DEF WordIndex
    <2> QED
      BY <2>1 DEF Words, Column
  <1> HIDE DEF x
  <1>3. f \in Square /\ \A r, c \in 1..4 : f[r][c] = x(r, c)
    BY <1>2 DEF Square
  <1> HIDE DEF f
  <1> QED
    BY <1>1, <1>3, ArrayOf

\* Adding the same array twice changes nothing.
LEMMA AddTwice ==
    ASSUME NEW a \in Square, NEW k \in Square
    PROVE  addRoundTowArray(addRoundTowArray(a, k), k) = a
  <1> DEFINE b == addRoundTowArray(a, k)
             d == addRoundTowArray(b, k)
  <1>1. b \in Square /\ \A r, c \in 1..4 : b[r][c] = Xor[a[r][c]][k[r][c]]
    BY AddIs
  <1> HIDE DEF b
  <1>2. d \in Square /\ \A r, c \in 1..4 : d[r][c] = Xor[b[r][c]][k[r][c]]
    BY <1>1, AddIs
  <1> HIDE DEF d
  <1>3. \A r, c \in 1..4 : a[r][c] \in Byte /\ k[r][c] \in Byte
    BY DEF Square
  <1>4. \A r, c \in 1..4 : d[r][c] = a[r][c]
    <2> TAKE r, c \in 1..4
    <2> DEFINE x == a[r][c]
               y == k[r][c]
    <2>0. x \in Byte /\ y \in Byte
      BY <1>3
    <2>1. d[r][c] = Xor[Xor[x][y]][y]
      <3>1. b[r][c] = Xor[x][y]
        BY <1>1
      <3>2. d[r][c] = Xor[b[r][c]][y]
        BY <1>2
      <3> QED
        BY <3>1, <3>2
    <2> HIDE DEF x, y
    <2>2. d[r][c] = x
      BY <2>0, <2>1, XorGroup
    <2> QED
      BY <2>2 DEF x
  <1> QED
    BY <1>2, <1>4, SameCells DEF d, b

\* A block fills an array, and the array gives it back.
LEMMA BlockIs ==
    /\ \A b \in Block : /\ convertToIntArray(b) \in Square
                        /\ convertArrayToStr(convertToIntArray(b)) = b
    /\ \A a \in Square : /\ convertArrayToStr(a) \in Block
                         /\ convertToIntArray(convertArrayToStr(a)) = a
  <1>1. ASSUME NEW b \in Block
        PROVE  /\ convertToIntArray(b) \in Square
               /\ convertArrayToStr(convertToIntArray(b)) = b
    <2>1. convertToIntArray(b) = << <<b[1], b[5], b[9], b[13]>>, <<b[2], b[6], b[10], b[14]>>,
                                    <<b[3], b[7], b[11], b[15]>>, <<b[4], b[8], b[12], b[16]>> >>
      BY DEF convertToIntArray, Array, Word
    <2>2. convertToIntArray(b) \in Square
      BY <2>1 DEF Block, Square
    <2>3. convertArrayToStr(convertToIntArray(b))
            = <<b[1], b[2], b[3], b[4], b[5], b[6], b[7], b[8],
                b[9], b[10], b[11], b[12], b[13], b[14], b[15], b[16]>>
      BY <2>1 DEF convertArrayToStr
    <2> QED
      BY <2>2, <2>3 DEF Block
  <1>2. ASSUME NEW a \in Square
        PROVE  /\ convertArrayToStr(a) \in Block
               /\ convertToIntArray(convertArrayToStr(a)) = a
    <2>1. \A r, c \in 1..4 : a[r][c] \in Byte
      BY DEF Square
    <2>2. convertArrayToStr(a) \in Block
      BY <2>1 DEF convertArrayToStr, Block
    <2>3. convertToIntArray(convertArrayToStr(a))
            = << <<a[1][1], a[1][2], a[1][3], a[1][4]>>, <<a[2][1], a[2][2], a[2][3], a[2][4]>>,
                 <<a[3][1], a[3][2], a[3][3], a[3][4]>>, <<a[4][1], a[4][2], a[4][3], a[4][4]>> >>
      BY DEF convertToIntArray, convertArrayToStr, Array, Word
    <2> QED
      BY <2>2, <2>3, ArrayOf
  <1> QED
    BY <1>1, <1>2

\* The rounds of aes and those of deAes.
Round(v, i, a) == addRoundKey(mixColumns(shiftRows(subBytes(a))), v, i)
DeRound(v, i, a) ==
    addRoundTowArray(deMixColumns(deShiftRows(deSubBytes(a))),
                     deMixColumns(getArrayFrom4W(v, i)))

\* The loop of aes.
LEMMA AesRounds ==
    ASSUME NEW v, NEW b
    PROVE  \E g : /\ g[0] = addRoundKey(convertToIntArray(b), v, 0)
                  /\ \A i \in 1..9 : g[i] = Round(v, i, g[i - 1])
                  /\ aesBlock(v, b)
                       = convertArrayToStr(addRoundKey(shiftRows(subBytes(g[9])), v, 10))
  <1> DEFINE first == addRoundKey(convertToIntArray(b), v, 0)
             Rounds(g) == g = [i \in 0..9 |-> IF i = 0 THEN first ELSE Round(v, i, g[i - 1])]
  <1>1. \E g : Rounds(g)
    <2> DEFINE e1 == Round(v, 1, first)
               e2 == Round(v, 2, e1)
               e3 == Round(v, 3, e2)
               e4 == Round(v, 4, e3)
               e5 == Round(v, 5, e4)
               e6 == Round(v, 6, e5)
               e7 == Round(v, 7, e6)
               e8 == Round(v, 8, e7)
               e9 == Round(v, 9, e8)
               t == <<first, e1, e2, e3, e4, e5, e6, e7, e8, e9>>
               g == [i \in 0..9 |-> t[i + 1]]
    <2> HIDE DEF first, e1, e2, e3, e4, e5, e6, e7, e8, e9
    <2>1. \A i \in 0..9 : t[i + 1] = IF i = 0 THEN first ELSE Round(v, i, t[i])
      BY DEF e1, e2, e3, e4, e5, e6, e7, e8, e9
    <2>2. \A i \in 0..9 : i # 0 => g[i - 1] = t[i]
      <3> HIDE DEF t
      <3> QED
        OBVIOUS
    <2>3. Rounds(g)
      BY <2>1, <2>2
    <2> QED
      BY <2>3
  <1> DEFINE round == CHOOSE g : Rounds(g)
  <1>2. Rounds(round)
    BY <1>1
  <1>3. aesBlock(v, b)
          = convertArrayToStr(addRoundKey(shiftRows(subBytes(round[9])), v, 10))
    BY DEF aesBlock, Round
  <1> HIDE DEF first, round
  <1>4. round[0] = first /\ \A i \in 1..9 : round[i] = Round(v, i, round[i - 1])
    BY <1>2
  <1> QED
    BY <1>3, <1>4 DEF first

\* The loop of deAes.
LEMMA DeAesRounds ==
    ASSUME NEW v, NEW b
    PROVE  \E g : /\ g[10] = addRoundKey(convertToIntArray(b), v, 10)
                  /\ \A i \in 1..9 : g[i] = DeRound(v, i, g[i + 1])
                  /\ deAesBlock(v, b)
                       = convertArrayToStr(addRoundKey(deShiftRows(deSubBytes(g[1])), v, 0))
  <1> DEFINE first == addRoundKey(convertToIntArray(b), v, 10)
             Rounds(g) == g = [i \in 1..10 |-> IF i = 10 THEN first ELSE DeRound(v, i, g[i + 1])]
  <1>1. \E g : Rounds(g)
    <2> DEFINE e9 == DeRound(v, 9, first)
               e8 == DeRound(v, 8, e9)
               e7 == DeRound(v, 7, e8)
               e6 == DeRound(v, 6, e7)
               e5 == DeRound(v, 5, e6)
               e4 == DeRound(v, 4, e5)
               e3 == DeRound(v, 3, e4)
               e2 == DeRound(v, 2, e3)
               e1 == DeRound(v, 1, e2)
               g == <<e1, e2, e3, e4, e5, e6, e7, e8, e9, first>>
    <2> HIDE DEF first, e1, e2, e3, e4, e5, e6, e7, e8, e9
    <2>1. \A i \in 1..10 : g[i] = IF i = 10 THEN first ELSE DeRound(v, i, g[i + 1])
      BY DEF e1, e2, e3, e4, e5, e6, e7, e8, e9
    <2>2. g = [i \in 1..10 |-> g[i]]
      OBVIOUS
    <2> HIDE DEF g
    <2>3. Rounds(g)
      BY <2>1, <2>2
    <2> QED
      BY <2>3
  <1> DEFINE round == CHOOSE g : Rounds(g)
  <1>2. Rounds(round)
    BY <1>1
  <1>3. deAesBlock(v, b)
          = convertArrayToStr(addRoundKey(deShiftRows(deSubBytes(round[1])), v, 0))
    BY DEF deAesBlock, DeRound
  <1> HIDE DEF first, round
  <1>4. round[10] = first /\ \A i \in 1..9 : round[i] = DeRound(v, i, round[i + 1])
    BY <1>2
  <1> QED
    BY <1>3, <1>4 DEF first

\* A block enciphered and deciphered with the same words.
LEMMA BlockComesBack ==
    ASSUME NEW v \in Words, NEW b \in Block
    PROVE  aesBlock(v, b) \in Block /\ deAesBlock(v, aesBlock(v, b)) = b
  <1> DEFINE K(i) == getArrayFrom4W(v, i)
             In(a) == shiftRows(subBytes(a))
             Out(a) == deShiftRows(deSubBytes(a))
             m == convertToIntArray(b)
  <1>1. m \in Square /\ \A i \in 0..10 : K(i) \in Square
    BY BlockIs, RoundKeyIs
  <1>2. \A a \in Square : In(a) \in Square /\ Out(In(a)) = a
    <2> TAKE a \in Square
    <2>1. subBytes(a) \in Square
      BY SubBytesIs
    <2>2. shiftRows(subBytes(a)) \in Square
      BY <2>1, ShiftRowsIs
    <2> QED
      BY <2>2, ShiftedBack
  <1>3. PICK e : /\ e[0] = addRoundTowArray(m, K(0))
                 /\ \A i \in 1..9 : e[i] = addRoundTowArray(mixColumns(In(e[i - 1])), K(i))
                 /\ aesBlock(v, b) = convertArrayToStr(addRoundTowArray(In(e[9]), K(10)))
    BY AesRounds DEF addRoundKey, Round
  <1> DEFINE c == addRoundTowArray(In(e[9]), K(10))
             z == aesBlock(v, b)
  <1>4. PICK d : /\ d[10] = addRoundTowArray(convertToIntArray(z), K(10))
                 /\ \A i \in 1..9 : d[i] = addRoundTowArray(deMixColumns(Out(d[i + 1])),
                                                            deMixColumns(K(i)))
                 /\ deAesBlock(v, z) = convertArrayToStr(addRoundTowArray(Out(d[1]), K(0)))
    <2> HIDE DEF z
    <2> QED
      BY DeAesRounds DEF addRoundKey, DeRound
  <1> HIDE DEF K, In, Out, m
  <1>5. \A i \in 0..9 : e[i] \in Square
    <2>0. e[0] \in Square
      BY <1>1, <1>3, AddIs
    <2>1. ASSUME NEW i \in 1..9, e[i - 1] \in Square PROVE e[i] \in Square
      <3> DEFINE a == In(e[i - 1])
      <3>1. a \in Square
        BY <1>2, <2>1
      <3> HIDE DEF a
      <3>2. mixColumns(a) \in Square /\ K(i) \in Square
        BY <1>1, <3>1, MixIs
      <3>3. addRoundTowArray(mixColumns(a), K(i)) \in Square
        BY <3>2, AddIs
      <3> QED
        BY <1>3, <3>3 DEF a
    <2>2. e[1] \in Square /\ e[2] \in Square /\ e[3] \in Square
      BY <2>0, <2>1
    <2>3. e[4] \in Square /\ e[5] \in Square /\ e[6] \in Square
      BY <2>1, <2>2
    <2>4. e[7] \in Square /\ e[8] \in Square /\ e[9] \in Square
      BY <2>1, <2>3
    <2> QED
      BY <2>0, <2>2, <2>3, <2>4
  <1>6. c \in Square /\ z \in Block /\ convertToIntArray(z) = c
    <2>1. In(e[9]) \in Square
      BY <1>2, <1>5
    <2>2. c \in Square
      BY <1>1, <2>1, AddIs
    <2> HIDE DEF c
    <2> QED
      BY <1>3, <2>2, BlockIs DEF c
  <1>7. d[10] = In(e[9])
    BY <1>1, <1>2, <1>4, <1>5, <1>6, AddTwice
  <1>8. ASSUME NEW i \in 1..9, d[i + 1] = In(e[i]) PROVE d[i] = In(e[i - 1])
    <2> DEFINE a == In(e[i - 1])
               x == mixColumns(a)
    <2>1. a \in Square
      BY <1>2, <1>5
    <2> HIDE DEF a
    <2>2. x \in Square /\ deMixColumns(x) = a
      BY <2>1, MixIs, MixedBack
    <2> HIDE DEF x
    <2>3. e[i] = addRoundTowArray(x, K(i)) /\ e[i] \in Square /\ K(i) \in Square
      BY <1>1, <1>3, <1>5 DEF x, a
    <2>4. addRoundTowArray(e[i], K(i)) = x
      BY <2>2, <2>3, AddTwice
    <2>5. Out(d[i + 1]) = e[i]
      BY <1>2, <1>8, <2>3
    <2>6. d[i] = addRoundTowArray(deMixColumns(e[i]), deMixColumns(K(i)))
      BY <1>4, <2>5
    <2>7. d[i] = deMixColumns(addRoundTowArray(e[i], K(i)))
      BY <2>3, <2>6, UnmixSum
    <2> QED
      BY <2>2, <2>4, <2>7 DEF a
  <1>9. d[1] = In(e[0])
    <2>0. d[10] = In(e[9])
      BY <1>7
    <2>1. d[9] = In(e[8])
      <3>1. 9 \in 1..9 /\ 9 + 1 = 10 /\ 9 - 1 = 8
        OBVIOUS
      <3> QED
        BY <1>8, <2>0, <3>1
    <2>2. d[8] = In(e[7])
      <3>1. 8 \in 1..9 /\ 8 + 1 = 9 /\ 8 - 1 = 7
        OBVIOUS
      <3> QED
        BY <1>8, <2>1, <3>1
    <2>3. d[7] = In(e[6])
      BY <1>8, <2>2
    <2>4. d[6] = In(e[5])
      BY <1>8, <2>3
    <2>5. d[5] = In(e[4])
      BY <1>8, <2>4
    <2>6. d[4] = In(e[3])
      BY <1>8, <2>5
    <2>7. d[3] = In(e[2])
      BY <1>8, <2>6
    <2>8. d[2] = In(e[1])
      BY <1>8, <2>7
    <2>9. d[1] = In(e[0])
      BY <1>8, <2>8
    <2> QED
      BY <2>9
  <1>10. Out(d[1]) = e[0]
    BY <1>2, <1>5, <1>9
  <1>11. addRoundTowArray(e[0], K(0)) = m
    BY <1>1, <1>3, AddTwice
  <1>12. deAesBlock(v, z) = convertArrayToStr(m)
    BY <1>4, <1>10, <1>11
  <1>13. convertArrayToStr(m) = b
    BY BlockIs DEF m
  <1> QED
    BY <1>6, <1>12, <1>13

-----------------------------------------------------------------------------
(* The words of the key                                                    *)

\* A word is stored from two words.
LEMMA NextWordType ==
    ASSUME NEW v \in Words, NEW i \in WordIndex
    PROVE  NextWord(key, v, i) \in Column
  <1>1. ASSUME NEW x \in Column, NEW y \in Column PROVE XorWord(x, y) \in Column
    <2>1. /\ Xor[x[1]][y[1]] \in Byte /\ Xor[x[2]][y[2]] \in Byte
          /\ Xor[x[3]][y[3]] \in Byte /\ Xor[x[4]][y[4]] \in Byte
      BY XorIs DEF Column
    <2> QED
      BY <2>1 DEF XorWord, Word, Column
  <1>2. CASE i < 4
    <2>1. \A n \in (4 * i + 1)..(4 * i + 4) : key[n] \in Byte
      BY <1>2 DEF key, Byte, WordIndex
    <2> DEFINE s == SubSeq(key, 4 * i + 1, 4 * i + 4)
    <2>2. s \in Seq(Byte) /\ Len(s) = 4
      <3>1. 4 * i + 1 \in Int /\ 4 * i + 4 \in Int /\ 4 * i + 1 <= 4 * i + 4
            /\ (4 * i + 4) - (4 * i + 1) + 1 = 4
        BY DEF WordIndex
      <3> QED
        BY <2>1, <3>1, SubSeqProperties
    <2>3. s \in Column
      <3> HIDE DEF s
      <3> QED
        BY <2>2, LenProperties DEF Column
    <2> QED
      BY <1>2, <2>3 DEF NextWord, getWordFromStr
  <1>3. CASE i >= 4
    <2>1. v[i - 4] \in Column /\ v[i - 1] \in Column
      BY <1>3 DEF Words, WordIndex
    <2>2. CASE i % 4 # 0
      <3>1. NextWord(key, v, i) = XorWord(v[i - 4], v[i - 1])
        BY <1>3, <2>2 DEF NextWord, WordIndex
      <3> QED
        BY <1>1, <2>1, <3>1
    <2>3. CASE i % 4 = 0
      <3> DEFINE u == v[i - 1]
                 round == i \div 4 - 1
                 x == <<getNumFromSBox(u[2]), getNumFromSBox(u[3]),
                        getNumFromSBox(u[4]), getNumFromSBox(u[1])>>
                 y == <<Rcon[round + 1], 0, 0, 0>>
      <3>1. NextWord(key, v, i) = XorWord(v[i - 4], T(u, round))
        BY <1>3, <2>3 DEF NextWord, WordIndex
      <3>2. round \in 0..9
        BY <1>3, <2>3 DEF WordIndex
      <3>3. y \in Column
        <4> HIDE DEF round
        <4> QED
          BY <3>2 DEF Rcon, Column, Byte
      <3>4. x \in Column
        <4>1. u[1] \in Byte /\ u[2] \in Byte /\ u[3] \in Byte /\ u[4] \in Byte
          BY <2>1 DEF Column
        <4> HIDE DEF u
        <4> QED
          BY <4>1, BoxesAreInverse DEF Column
      <3>5. T(u, round) = XorWord(x, y)
        BY DEF T, Word
      <3> HIDE DEF x, y, u, round
      <3> QED
        BY <1>1, <2>1, <3>1, <3>3, <3>4, <3>5
    <2> QED
      BY <2>2, <2>3
  <1> QED
    BY <1>2, <1>3 DEF WordIndex

\* A nonempty set of positions has a first one.
LEMMA FirstIsIn ==
    ASSUME NEW N \in SUBSET Nat, N # {}
    PROVE  LET n == CHOOSE k \in N : \A l \in N : k <= l
           IN  n \in N /\ \A l \in N : n <= l
  <1> DEFINE R == {p \in Nat \X Nat : p[1] < p[2]}
  <1>1. IsWellFoundedOn(R, Nat)
    BY NatLessThanWellFounded DEF OpToRel
  <1>2. PICK n \in N : \A e \in N : <<e, n>> \notin R
    <2> HIDE DEF R
    <2> QED
      BY <1>1, WFMin
  <1>3. ASSUME NEW l \in N PROVE n <= l
    <2>1. n \in Nat /\ l \in Nat
      OBVIOUS
    <2>2. ~(l < n)
      BY <1>2, <2>1
    <2> QED
      BY <2>1, <2>2
  <1> QED
    BY <1>3

\* The key has one schedule.
KeyWords == CHOOSE v \in Words : Expanded(v, 44)

\* Any array of words that obeys the key expansion to its end is that schedule,
\* whichever thread stored its words and in whichever order.
LEMMA OneSchedule ==
    ASSUME NEW v \in Words, Expanded(v, 44)
    PROVE  v = KeyWords /\ KeyWords \in Words
  <1> DEFINE u == KeyWords
  <1>1. u \in Words /\ Expanded(u, 44)
    BY DEF KeyWords
  <1> HIDE DEF u
  <1> DEFINE Differ == {j \in WordIndex : u[j] # v[j]}
  <1>2. Differ = {}
    <2> SUFFICES ASSUME Differ # {} PROVE FALSE
      OBVIOUS
    <2>0. Differ # {}
      OBVIOUS
    <2>1. PICK j \in Differ : \A k \in Differ : j <= k
      <3>1. Differ \in SUBSET Nat
        BY DEF WordIndex
      <3> HIDE DEF Differ
      <3> QED
        BY <3>1, <2>0, FirstIsIn
    <2>2. j \in WordIndex /\ u[j] # v[j]
      BY <2>1
    <2>3. \A k \in WordIndex : k < j => u[k] = v[k]
      BY <2>1, <2>2 DEF WordIndex
    <2>4. NextWord(key, u, j) = NextWord(key, v, j)
      BY <2>2, <2>3, NextWordLooksBack
    <2>5. u[j] = NextWord(key, u, j) /\ v[j] = NextWord(key, v, j)
      BY <1>1, <2>2 DEF Expanded, WordIndex
    <2> QED
      BY <2>2, <2>4, <2>5
  <1>3. \A j \in WordIndex : u[j] = v[j]
    BY <1>2
  <1>4. u = v
    BY <1>1, <1>3 DEF Words
  <1> QED
    BY <1>1, <1>4 DEF u

-----------------------------------------------------------------------------
(* Buffers                                                                 *)

IsMsg(m) == m.type \in 1..7 /\ m.payload \in Seq(1..127)

\* The text of a message: its characters are neither NUL nor beyond ASCII.
LEMMA ConIs ==
    ASSUME NEW m, IsMsg(m)
    PROVE  /\ Con(m) \in Seq(1..127) /\ Len(Con(m)) \in Nat /\ Len(m.payload) \in Nat
           /\ Len(Con(m)) = Len(m.payload) + 2
           /\ Con(m)[1] = 48 + m.type
           /\ \A n \in 1..Len(m.payload) : Con(m)[n + 2] = m.payload[n]
  <1> DEFINE h == <<48 + m.type, Blank>>
             p == m.payload
  <1>1. h \in Seq(1..127) /\ Len(h) = 2 /\ h[1] = 48 + m.type
    <2> DEFINE x == 48 + m.type
    <2>1. x \in 1..127 /\ 32 \in 1..127
      <3>1. m.type \in 1..7
        BY DEF IsMsg
      <3> QED
        BY <3>1
    <2> HIDE DEF x
    <2>2. <<x, 32>> \in Seq(1..127) /\ Len(<<x, 32>>) = 2 /\ <<x, 32>>[1] = x
      BY <2>1
    <2> QED
      BY <2>2 DEF x, Blank
  <1>2. p \in Seq(1..127)
    BY DEF IsMsg
  <1>3. Con(m) = h \o p
    BY DEF Con
  <1> HIDE DEF h, p
  <1>4. /\ h \o p \in Seq(1..127)
        /\ Len(h \o p) = Len(h) + Len(p)
        /\ \A i \in 1..(Len(h) + Len(p)) :
             (h \o p)[i] = IF i <= Len(h) THEN h[i] ELSE p[i - Len(h)]
    BY <1>1, <1>2, ConcatProperties
  <1>5. Len(p) \in Nat
    BY <1>2, LenProperties
  <1>6. ASSUME NEW n \in 1..Len(p) PROVE (h \o p)[n + 2] = p[n]
    <2>1. n + 2 \in 1..(Len(h) + Len(p)) /\ ~(n + 2 <= Len(h)) /\ (n + 2) - Len(h) = n
      BY <1>1, <1>5
    <2> QED
      BY <1>4, <2>1
  <1>7. (h \o p)[1] = 48 + m.type
    <2>1. 1 \in 1..(Len(h) + Len(p)) /\ 1 <= Len(h)
      BY <1>1, <1>5
    <2> QED
      BY <1>1, <1>4, <2>1
  <1> QED
    BY <1>1, <1>3, <1>4, <1>5, <1>6, <1>7 DEF p

\* The length for the cipher: whole blocks, with room for the NUL.
LEMMA AesLenIs ==
    ASSUME NEW n \in Nat
    PROVE  getAesLen(n) \in Nat /\ n < getAesLen(n) /\ getAesLen(n) % 16 = 0
  <1> DEFINE len == n + 1
  <1>1. len \in Nat /\ len % 16 \in 0..15
    OBVIOUS
  <1>2. getAesLen(n) = IF len % 16 # 0 THEN len + (16 - (len % 16)) ELSE len
    BY DEF getAesLen
  <1>3. (len + (16 - (len % 16))) % 16 = 0
    OBVIOUS
  <1> QED
    BY <1>1, <1>2, <1>3

\* The bytes of a file before its last blank, before anything is enciphered.
FileLen(b, m) == IF b.encrypt THEN getAesLen(Len(Con(m))) ELSE Len(Con(m)) + 1
Plain(b, m) == Padded(Con(m), FileLen(b, m))

\* What a file's block starts from: a byte for each place, the text and then
\* nothing but zeros, of which there is at least one.
LEMMA PlainIs ==
    ASSUME NEW b, NEW m, IsMsg(m)
    PROVE  /\ FileLen(b, m) \in Nat /\ Len(Con(m)) < FileLen(b, m)
           /\ Plain(b, m) \in [1..FileLen(b, m) -> Byte]
           /\ \A n \in 1..FileLen(b, m) :
                Plain(b, m)[n] = IF n <= Len(Con(m)) THEN Con(m)[n] ELSE NUL
  <1> DEFINE con == Con(m)
             len == FileLen(b, m)
  <1>1. con \in Seq(1..127) /\ Len(con) \in Nat
    BY ConIs
  <1>2. len \in Nat /\ Len(con) < len
    <2> DEFINE l == Len(con)
    <2>1. len = IF b.encrypt THEN getAesLen(l) ELSE l + 1
      BY DEF FileLen
    <2>2. l \in Nat
      BY <1>1
    <2> HIDE DEF con, l, len
    <2>3. getAesLen(l) \in Nat /\ l < getAesLen(l)
      BY <2>2, AesLenIs
    <2>4. len \in Nat /\ l < len
      BY <2>1, <2>2, <2>3
    <2> QED
      BY <2>4 DEF l
  <1>3. Plain(b, m) = [n \in 1..len |-> IF n <= Len(con) THEN con[n] ELSE NUL]
    BY DEF Plain, Padded
  <1> HIDE DEF con, len
  <1>4. \A n \in 1..len : n <= Len(con) => con[n] \in Byte
    <2>1. \A n \in 1..Len(con) : con[n] \in 1..127
      BY <1>1, ElementOfSeq
    <2> QED
      BY <1>1, <1>2, <2>1 DEF Byte
  <1>5. NUL \in Byte
    BY DEF NUL, Byte
  <1> QED
    BY <1>2, <1>3, <1>4, <1>5 DEF con, len

\* A block of a buffer.
LEMMA BlockOfIs ==
    ASSUME NEW len \in Nat, NEW buf \in [1..len -> Byte], NEW k \in Nat, 16 * k + 16 <= len
    PROVE  /\ BlockOf(buf, k) \in Block
           /\ \A n \in 1..16 : BlockOf(buf, k)[n] = buf[16 * k + n]
  <1> DEFINE s == BlockOf(buf, k)
  <1>1. \A i \in (16 * k + 1)..(16 * k + 16) : buf[i] \in Byte
    OBVIOUS
  <1>2. /\ 16 * k + 1 \in Int /\ 16 * k + 16 \in Int /\ 16 * k + 1 <= 16 * k + 16
        /\ (16 * k + 16) - (16 * k + 1) + 1 = 16
    OBVIOUS
  <1>3. /\ s \in Seq(Byte) /\ Len(s) = 16
        /\ \A i \in 1..16 : s[i] = buf[(16 * k + 1) + i - 1]
    BY <1>1, <1>2, SubSeqProperties DEF BlockOf
  <1>4. \A i \in 1..16 : (16 * k + 1) + i - 1 = 16 * k + i
    OBVIOUS
  <1> HIDE DEF s
  <1>5. s \in Block
    BY <1>3, LenProperties DEF Block
  <1> QED
    BY <1>3, <1>4, <1>5 DEF s

\* Two blocks with the same bytes are equal.
LEMMA SameBlocks ==
    ASSUME NEW x \in Block, NEW y \in Block, \A n \in 1..16 : x[n] = y[n]
    PROVE  x = y
  BY DEF Block

\* Exchanging one block.
LEMMA WithBlockIs ==
    ASSUME NEW len \in Nat, NEW buf \in [1..len -> Byte], NEW k \in Nat, 16 * k + 16 <= len,
           NEW block \in Block
    PROVE  /\ WithBlock(buf, k, block) \in [1..len -> Byte]
           /\ BlockOf(WithBlock(buf, k, block), k) = block
           /\ \A j \in Nat : 16 * j + 16 <= len /\ j # k =>
                BlockOf(WithBlock(buf, k, block), j) = BlockOf(buf, j)
  <1> DEFINE new == WithBlock(buf, k, block)
  <1>1. \A n \in 1..len : (n - 1) \div 16 = k => ((n - 1) % 16) + 1 \in 1..16
    OBVIOUS
  <1>2. /\ new \in [1..len -> Byte]
        /\ \A n \in 1..len : new[n] = IF (n - 1) \div 16 = k THEN block[((n - 1) % 16) + 1]
                                      ELSE buf[n]
    <2>1. new = [n \in 1..len |-> IF (n - 1) \div 16 = k THEN block[((n - 1) % 16) + 1]
                                  ELSE buf[n]]
      BY DEF WithBlock
    <2> QED
      BY <1>1, <2>1 DEF Block
  <1> HIDE DEF new
  <1>3. ASSUME NEW j \in Nat, 16 * j + 16 <= len, NEW n \in 1..16
        PROVE  /\ 16 * j + n \in 1..len
               /\ (16 * j + n - 1) \div 16 = j
               /\ ((16 * j + n - 1) % 16) + 1 = n
    BY <1>3
  <1>4. BlockOf(new, k) = block
    <2>1. BlockOf(new, k) \in Block /\ \A n \in 1..16 : BlockOf(new, k)[n] = new[16 * k + n]
      BY <1>2, BlockOfIs
    <2>2. ASSUME NEW n \in 1..16 PROVE BlockOf(new, k)[n] = block[n]
      <3> DEFINE p == 16 * k + n
                 q == ((p - 1) % 16) + 1
      <3>1. p \in 1..len /\ (p - 1) \div 16 = k /\ q = n
        BY <1>3
      <3>2. BlockOf(new, k)[n] = new[p]
        BY <2>1
      <3>3. new[p] = IF (p - 1) \div 16 = k THEN block[q] ELSE buf[p]
        <4> HIDE DEF p
        <4> QED
          BY <1>2, <3>1
      <3> HIDE DEF p, q
      <3> QED
        BY <3>1, <3>2, <3>3
    <2> QED
      BY <2>1, <2>2, SameBlocks
  <1>5. ASSUME NEW j \in Nat, 16 * j + 16 <= len, j # k
        PROVE  BlockOf(new, j) = BlockOf(buf, j)
    <2>1. BlockOf(new, j) \in Block /\ \A n \in 1..16 : BlockOf(new, j)[n] = new[16 * j + n]
      BY <1>2, <1>5, BlockOfIs
    <2>2. BlockOf(buf, j) \in Block /\ \A n \in 1..16 : BlockOf(buf, j)[n] = buf[16 * j + n]
      BY <1>5, BlockOfIs
    <2>3. ASSUME NEW n \in 1..16 PROVE BlockOf(new, j)[n] = BlockOf(buf, j)[n]
      <3> DEFINE p == 16 * j + n
                 q == ((p - 1) % 16) + 1
      <3>1. p \in 1..len /\ (p - 1) \div 16 = j
        BY <1>3, <1>5
      <3>2. BlockOf(new, j)[n] = new[p] /\ BlockOf(buf, j)[n] = buf[p]
        BY <2>1, <2>2
      <3>3. new[p] = IF (p - 1) \div 16 = k THEN block[q] ELSE buf[p]
        <4> HIDE DEF p
        <4> QED
          BY <1>2, <3>1
      <3> HIDE DEF p, q
      <3> QED
        BY <1>5, <3>1, <3>2, <3>3
    <2> QED
      BY <2>1, <2>2, <2>3, SameBlocks
  <1> QED
    BY <1>2, <1>4, <1>5 DEF new

\* The blocks of buf are those of plain, the ones in K enciphered.
Blocks(buf, plain, len, K) ==
    \A k \in Nat : 16 * k + 16 <= len =>
        BlockOf(buf, k) = IF k \in K THEN aesBlock(KeyWords, BlockOf(plain, k))
                          ELSE BlockOf(plain, k)

\* One turn of the loop of aes.
LEMMA BlockEnciphered ==
    ASSUME NEW len \in Nat, len % 16 = 0,
           NEW plain \in [1..len -> Byte], NEW buf \in [1..len -> Byte],
           NEW i \in Nat, 16 * i < len, Blocks(buf, plain, len, 0..(i - 1)),
           KeyWords \in Words
    PROVE  LET new == WithBlock(buf, i, aesBlock(KeyWords, BlockOf(buf, i)))
           IN  /\ new \in [1..len -> Byte]
               /\ 16 * (i + 1) = len => Blocks(new, plain, len, Nat)
               /\ 16 * (i + 1) # len => /\ 16 * (i + 1) < len
                                        /\ Blocks(new, plain, len, 0..((i + 1) - 1))
  <1> DEFINE block == aesBlock(KeyWords, BlockOf(buf, i))
             new == WithBlock(buf, i, block)
  <1>1. 16 * i + 16 <= len
    OBVIOUS
  <1>2. BlockOf(buf, i) = BlockOf(plain, i) /\ BlockOf(buf, i) \in Block
    <2>1. i \notin 0..(i - 1)
      OBVIOUS
    <2> QED
      BY <1>1, <2>1, BlockOfIs DEF Blocks
  <1>3. block \in Block
    BY <1>2, BlockComesBack
  <1> HIDE DEF block
  <1>4. /\ new \in [1..len -> Byte] /\ BlockOf(new, i) = block
        /\ \A j \in Nat : 16 * j + 16 <= len /\ j # i => BlockOf(new, j) = BlockOf(buf, j)
    BY <1>1, <1>3, WithBlockIs
  <1> HIDE DEF new
  <1>5. ASSUME NEW k \in Nat, 16 * k + 16 <= len
        PROVE  BlockOf(new, k) = IF k <= i THEN aesBlock(KeyWords, BlockOf(plain, k))
                                 ELSE BlockOf(plain, k)
    <2>1. CASE k = i
      BY <1>2, <1>4, <2>1 DEF block
    <2>2. CASE k # i
      <3>1. BlockOf(new, k) = BlockOf(buf, k)
        BY <1>4, <1>5, <2>2
      <3>2. k \in 0..(i - 1) <=> k <= i
        BY <2>2
      <3>3. BlockOf(buf, k) = IF k \in 0..(i - 1) THEN aesBlock(KeyWords, BlockOf(plain, k))
                              ELSE BlockOf(plain, k)
        BY <1>5 DEF Blocks
      <3> QED
        BY <3>1, <3>2, <3>3
    <2> QED
      BY <2>1, <2>2
  <1>6. 16 * (i + 1) = len => Blocks(new, plain, len, Nat)
    <2> SUFFICES ASSUME 16 * (i + 1) = len, NEW k \in Nat, 16 * k + 16 <= len
                 PROVE  BlockOf(new, k) = aesBlock(KeyWords, BlockOf(plain, k))
      BY DEF Blocks
    <2>1. k <= i
      OBVIOUS
    <2> QED
      BY <1>5, <2>1
  <1>7. Blocks(new, plain, len, 0..((i + 1) - 1))
    <2> SUFFICES ASSUME NEW k \in Nat, 16 * k + 16 <= len
                 PROVE  BlockOf(new, k) = IF k \in 0..((i + 1) - 1)
                                          THEN aesBlock(KeyWords, BlockOf(plain, k))
                                          ELSE BlockOf(plain, k)
      BY DEF Blocks
    <2>1. k \in 0..((i + 1) - 1) <=> k <= i
      OBVIOUS
    <2> QED
      BY <1>5, <2>1
  <1>8. 16 * (i + 1) # len => 16 * (i + 1) < len
    OBVIOUS
  <1> QED
    BY <1>4, <1>6, <1>7, <1>8 DEF new, block

\* What the file of a message holds before its last blank.
Written(b, buf, m) ==
    /\ buf \in [1..FileLen(b, m) -> Byte]
    /\ IF b.encrypt THEN Blocks(buf, Plain(b, m), FileLen(b, m), Nat) ELSE buf = Plain(b, m)

OnFile(b, f) ==
    /\ IsMsg(f.msg)
    /\ \E buf : Written(b, buf, f.msg) /\ f.bytes = Append(buf, Blank)

Sane(b) == ~(b.encrypt /\ b.signedChar)

\* A buffer begins with the text of m and, when there is room, its NUL.
Kept(buf, m) ==
    /\ buf \in [1..BufSize -> Byte]
    /\ \A n \in 1..BufSize : /\ n <= Len(Con(m)) => buf[n] = Con(m)[n]
                             /\ n = Len(Con(m)) + 1 => buf[n] = NUL

\* A buffer holds the file of m, deciphered up to block i.
Deciphered(b, buf, m, i) ==
    /\ buf \in [1..BufSize -> Byte]
    /\ \A k \in 0..31 : 16 * k + 16 <= FileLen(b, m) =>
           BlockOf(buf, k) = IF k < i THEN BlockOf(Plain(b, m), k)
                             ELSE aesBlock(KeyWords, BlockOf(Plain(b, m), k))

\* Reading a file: what fits into c_data is there, and the whole of c_data
\* counts when it is to be deciphered.
LEMMA ReadIs ==
    ASSUME NEW f, OnFile(build, f), Sane(build),
           build.encrypt \in BOOLEAN, build.signedChar \in BOOLEAN
    PROVE  /\ build.encrypt => /\ CharsRead(f.bytes) = BufSize
                               /\ Deciphered(build, ReadBuffer(f.bytes), f.msg, 0)
           /\ ~build.encrypt => Kept(ReadBuffer(f.bytes), f.msg)
  <1> DEFINE m == f.msg
             bytes == f.bytes
             len == FileLen(build, m)
             plain == Plain(build, m)
             con == Con(m)
  <1>0. IsMsg(m)
    BY DEF OnFile
  <1>1. /\ len \in Nat /\ Len(con) < len /\ plain \in [1..len -> Byte]
        /\ \A n \in 1..len : plain[n] = IF n <= Len(con) THEN con[n] ELSE NUL
    BY <1>0, PlainIs
  <1>2. con \in Seq(1..127) /\ Len(con) \in Nat
    BY <1>0, ConIs
  <1>3. PICK buf : Written(build, buf, m) /\ bytes = Append(buf, Blank)
    BY DEF OnFile
  <1>4. buf \in [1..len -> Byte]
    BY <1>3 DEF Written
  <1>5. /\ Len(bytes) = len + 1 /\ bytes[len + 1] = Blank
        /\ \A n \in 1..len : bytes[n] = buf[n]
    <2> HIDE DEF len, bytes
    <2>1. buf \in Seq(Byte) /\ Len(buf) = len
      BY <1>1, <1>4
    <2>2. Blank \in Byte
      BY DEF Blank, Byte
    <2> QED
      BY <1>3, <2>1, <2>2, AppendProperties
  <1> DEFINE read == CharsRead(bytes)
             r == ReadBuffer(bytes)
  <1>6. /\ read = BufSize \/ read = Len(bytes)
        /\ build.encrypt => read = BufSize
    <2>1. CASE ~build.signedChar
      BY <2>1 DEF CharsRead
    <2>2. CASE build.signedChar
      <3> DEFINE ends == {n \in 1..Len(bytes) : bytes[n] = 255} \cup {Len(bytes) + 1, BufSize + 1}
                 least == CHOOSE n \in ends : \A k \in ends : n <= k
      <3>1. ~build.encrypt
        BY <2>2 DEF Sane
      <3>2. \A n \in 1..Len(bytes) : bytes[n] # 255
        <4> SUFFICES ASSUME NEW n \in 1..Len(bytes) PROVE bytes[n] # 255
          OBVIOUS
        <4>1. CASE n = len + 1
          BY <4>1, <1>5 DEF Blank
        <4>2. CASE n # len + 1
          <5> HIDE DEF len, con, plain, bytes
          <5>1. n \in 1..len
            BY <4>2, <1>1, <1>5
          <5>2. bytes[n] = plain[n]
            BY <5>1, <3>1, <1>3, <1>5 DEF Written, plain
          <5>3. CASE n <= Len(con)
            <6>1. con[n] \in 1..127
              BY <5>1, <5>3, <1>2, ElementOfSeq
            <6>2. bytes[n] = con[n]
              BY <5>1, <5>2, <5>3, <1>1
            <6>3. \A x \in 1..127 : x # 255
              OBVIOUS
            <6> QED
              BY <6>1, <6>2, <6>3
          <5>4. CASE ~(n <= Len(con))
            BY <5>1, <5>2, <5>4, <1>1 DEF NUL
          <5> QED
            BY <5>3, <5>4
        <4> QED
          BY <4>1, <4>2
      <3>3. ends = {Len(bytes) + 1, BufSize + 1}
        BY <3>2
      <3>4. least \in {Len(bytes) + 1, BufSize + 1}
        <4>1. ends \in SUBSET Nat /\ ends # {}
          <5> HIDE DEF len, bytes, ends
          <5> QED
            BY <1>1, <1>5, <3>3 DEF BufSize
        <4>2. least \in ends
          <5> HIDE DEF ends
          <5> QED
            BY <4>1, FirstIsIn
        <4> QED
          BY <3>3, <4>2
      <3>5. read = least - 1
        BY <2>2 DEF CharsRead
      <3> HIDE DEF least, read, len, bytes
      <3> QED
        BY <3>1, <3>4, <3>5, <1>1, <1>5 DEF BufSize
    <2> QED
      BY <2>1, <2>2
  <1>7. /\ r \in [1..BufSize -> Byte]
        /\ \A n \in 1..BufSize : n <= len => r[n] = buf[n]
    <2>1. r = [n \in 1..BufSize |-> IF n <= read + 1
                                    THEN IF n <= Len(bytes) THEN bytes[n] ELSE 255
                                    ELSE NUL]
      BY DEF ReadBuffer
    <2> HIDE DEF r, read, len, bytes
    <2>2. \A n \in 1..BufSize : n <= Len(bytes) => n <= read + 1
      BY <1>1, <1>5, <1>6 DEF BufSize
    <2>3. \A n \in 1..BufSize : n <= Len(bytes) => bytes[n] \in Byte
      <3> SUFFICES ASSUME NEW n \in 1..BufSize, n <= Len(bytes) PROVE bytes[n] \in Byte
        OBVIOUS
      <3>1. CASE n = len + 1
        BY <3>1, <1>5 DEF Blank, Byte
      <3>2. CASE n # len + 1
        <4>1. n \in 1..len
          BY <3>2, <1>1, <1>5
        <4> QED
          BY <4>1, <1>4, <1>5
      <3> QED
        BY <3>1, <3>2
    <2>4. NUL \in Byte /\ 255 \in Byte
      BY DEF NUL, Byte
    <2>5. r \in [1..BufSize -> Byte]
      BY <2>1, <2>3, <2>4
    <2>6. ASSUME NEW n \in 1..BufSize, n <= len PROVE r[n] = buf[n]
      <3>1. n \in 1..len /\ n <= Len(bytes)
        BY <2>6, <1>1, <1>5
      <3>2. r[n] = bytes[n]
        BY <2>1, <2>2, <3>1
      <3> QED
        BY <3>1, <3>2, <1>5
    <2> QED
      BY <2>5, <2>6
  <1> HIDE DEF r, read, len, bytes, plain, con
  <1>8. ASSUME build.encrypt PROVE Deciphered(build, r, m, 0)
    <2>1. Blocks(buf, plain, len, Nat)
      BY <1>3, <1>8 DEF Written, len, plain
    <2>2. ASSUME NEW k \in 0..31, 16 * k + 16 <= len
          PROVE  BlockOf(r, k) = aesBlock(KeyWords, BlockOf(plain, k))
      <3>1. BlockOf(buf, k) = aesBlock(KeyWords, BlockOf(plain, k))
        BY <2>1, <2>2 DEF Blocks
      <3>0. k \in Nat
        OBVIOUS
      <3>2. BlockOf(buf, k) \in Block /\ \A n \in 1..16 : BlockOf(buf, k)[n] = buf[16 * k + n]
        BY <3>0, <2>2, <1>1, <1>4, BlockOfIs
      <3>3. BufSize \in Nat /\ 16 * k + 16 <= BufSize
        BY DEF BufSize
      <3>4. BlockOf(r, k) \in Block /\ \A n \in 1..16 : BlockOf(r, k)[n] = r[16 * k + n]
        BY <3>0, <3>3, <1>7, BlockOfIs
      <3>5. ASSUME NEW n \in 1..16 PROVE BlockOf(r, k)[n] = BlockOf(buf, k)[n]
        <4> DEFINE p == 16 * k + n
        <4>1. p \in 1..BufSize /\ p <= len
          BY <2>2, <1>1, <3>3
        <4>2. BlockOf(r, k)[n] = r[p] /\ BlockOf(buf, k)[n] = buf[p]
          BY <3>2, <3>4
        <4> HIDE DEF p
        <4> QED
          BY <4>1, <4>2, <1>7
      <3> QED
        BY <3>1, <3>2, <3>4, <3>5, SameBlocks
    <2> QED
      BY <1>7, <2>2 DEF Deciphered, len, plain
  <1>9. ASSUME ~build.encrypt PROVE Kept(r, m)
    <2>1. buf = plain
      BY <1>3, <1>9 DEF Written, plain
    <2>2. ASSUME NEW n \in 1..BufSize
          PROVE  /\ n <= Len(con) => r[n] = con[n]
                 /\ n = Len(con) + 1 => r[n] = NUL
      <3>1. n <= Len(con) + 1 => n \in 1..len /\ n <= len
        BY <1>1, <1>2
      <3>2. n <= Len(con) + 1 => r[n] = IF n <= Len(con) THEN con[n] ELSE NUL
        BY <1>1, <1>7, <2>1, <3>1
      <3> QED
        BY <1>2, <3>2
    <2> QED
      BY <1>7, <2>2 DEF Kept, con
  <1> QED
    BY <1>6, <1>8, <1>9 DEF r, read, bytes, m

\* One turn of the loop of deAes.
LEMMA BlockDeciphered ==
    ASSUME NEW b, b.encrypt, NEW m, IsMsg(m), NEW buf, NEW i \in 0..31,
           16 * i <= Len(Con(m)), Deciphered(b, buf, m, i), KeyWords \in Words
    PROVE  LET block == deAesBlock(KeyWords, BlockOf(buf, i))
               new == WithBlock(buf, i, block)
               ends == \/ 16 * (i + 1) = BufSize
                       \/ \E n \in 1..16 : block[n] = NUL
           IN  /\ ends => Kept(new, m)
               /\ ~ends => /\ i + 1 \in 0..31 /\ 16 * (i + 1) <= Len(Con(m))
                           /\ Deciphered(b, new, m, i + 1)
  <1> DEFINE con == Con(m)
             len == FileLen(b, m)
             plain == Plain(b, m)
             block == deAesBlock(KeyWords, BlockOf(buf, i))
             new == WithBlock(buf, i, block)
             ends == \/ 16 * (i + 1) = BufSize
                     \/ \E n \in 1..16 : block[n] = NUL
  <1>1. con \in Seq(1..127) /\ Len(con) \in Nat
    BY ConIs
  <1>2. /\ len \in Nat /\ Len(con) < len /\ plain \in [1..len -> Byte]
        /\ \A n \in 1..len : plain[n] = IF n <= Len(con) THEN con[n] ELSE NUL
    BY PlainIs
  <1>3. len % 16 = 0
    <2> DEFINE l == Len(con)
    <2>1. len = getAesLen(l)
      BY DEF FileLen
    <2> HIDE DEF l, len, con
    <2> QED
      BY <1>1, <2>1, AesLenIs DEF l
  <1>b. BufSize = 512
    BY DEF BufSize
  <1>4. /\ BufSize \in Nat
        /\ \A k \in 0..31 : k \in Nat /\ 16 * k + 16 <= BufSize
    BY DEF BufSize
  <1>5. buf \in [1..BufSize -> Byte]
    BY DEF Deciphered
  <1>6. \A k \in 0..31 : 16 * k + 16 <= len =>
           BlockOf(buf, k) = IF k < i THEN BlockOf(plain, k)
                             ELSE aesBlock(KeyWords, BlockOf(plain, k))
    BY DEF Deciphered
  <1>a. 16 * i <= Len(con) /\ i \in Nat
    OBVIOUS
  <1> HIDE DEF con, len, plain
  <1>7. \A k \in Nat : 16 * k <= Len(con) => 16 * k + 16 <= len
    BY <1>1, <1>2, <1>3
  <1>8. 16 * i + 16 <= len /\ 16 * i + 16 <= BufSize
    BY <1>a, <1>4, <1>7
  <1>9. block = BlockOf(plain, i) /\ block \in Block
    <2>1. BlockOf(plain, i) \in Block
      BY <1>a, <1>2, <1>8, BlockOfIs
    <2>2. BlockOf(buf, i) = aesBlock(KeyWords, BlockOf(plain, i))
      <3>1. ~(i < i)
        OBVIOUS
      <3> QED
        BY <1>6, <1>8, <3>1
    <2> QED
      BY <2>1, <2>2, BlockComesBack
  <1>10. \A n \in 1..16 : block[n] = plain[16 * i + n]
    BY <1>a, <1>2, <1>8, <1>9, BlockOfIs
  <1> HIDE DEF block
  <1>11. /\ new \in [1..BufSize -> Byte] /\ BlockOf(new, i) = block
         /\ \A k \in 0..31 : k # i => BlockOf(new, k) = BlockOf(buf, k)
    <2>1. /\ new \in [1..BufSize -> Byte] /\ BlockOf(new, i) = block
          /\ \A k \in Nat : 16 * k + 16 <= BufSize /\ k # i => BlockOf(new, k) = BlockOf(buf, k)
      BY <1>a, <1>4, <1>5, <1>8, <1>9, WithBlockIs
    <2> HIDE DEF new
    <2> QED
      BY <1>4, <2>1
  <1> HIDE DEF new
  <1>12. \A k \in 0..31 : 16 * k + 16 <= len =>
           BlockOf(new, k) = IF k < i + 1 THEN BlockOf(plain, k)
                             ELSE aesBlock(KeyWords, BlockOf(plain, k))
    <2> SUFFICES ASSUME NEW k \in 0..31, 16 * k + 16 <= len
                 PROVE  BlockOf(new, k) = IF k < i + 1 THEN BlockOf(plain, k)
                                          ELSE aesBlock(KeyWords, BlockOf(plain, k))
      OBVIOUS
    <2>1. CASE k = i
      BY <1>9, <1>11, <2>1
    <2>2. CASE k # i
      <3>1. k < i + 1 <=> k < i
        BY <2>2
      <3> QED
        BY <1>6, <1>11, <2>2, <3>1
    <2> QED
      BY <2>1, <2>2
  <1>13. (\E n \in 1..16 : block[n] = NUL) <=> Len(con) < 16 * i + 16
    <2>1. ASSUME NEW n \in 1..16, block[n] = NUL PROVE Len(con) < 16 * i + 16
      <3> DEFINE p == 16 * i + n
      <3>1. p \in 1..len /\ p \in Nat /\ p <= 16 * i + 16
        BY <1>2, <1>8
      <3>2. block[n] = plain[p]
        BY <1>10
      <3> HIDE DEF p
      <3>3. p <= Len(con) => con[p] \in 1..127
        BY <1>1, <3>1, ElementOfSeq
      <3>4. NUL \notin 1..127
        BY DEF NUL
      <3>5. ~(p <= Len(con))
        BY <1>2, <2>1, <3>1, <3>2, <3>3, <3>4
      <3> QED
        BY <1>1, <3>1, <3>5
    <2>2. ASSUME Len(con) < 16 * i + 16 PROVE \E n \in 1..16 : block[n] = NUL
      <3> DEFINE n == Len(con) + 1 - 16 * i
      <3>1. n \in 1..16 /\ 16 * i + n = Len(con) + 1
        <4>1. Len(con) \in Nat
          BY <1>1
        <4>2. 16 * i \in Nat
          BY <1>a
        <4>3. \A j, l \in Nat : j <= l /\ l < j + 16 =>
                 l + 1 - j \in 1..16 /\ j + (l + 1 - j) = l + 1
          OBVIOUS
        <4> QED
          BY <1>a, <2>2, <4>1, <4>2, <4>3
      <3>2. block[n] = plain[16 * i + n]
        BY <1>10, <3>1
      <3>3. plain[Len(con) + 1] = NUL
        BY <1>1, <1>2
      <3> HIDE DEF n
      <3> QED
        BY <3>1, <3>2, <3>3
    <2> QED
      BY <2>1, <2>2
  <1>14. ASSUME ends PROVE Kept(new, m)
    <2>1. 16 * (i + 1) = 512 \/ Len(con) < 16 * i + 16
      BY <1>b, <1>13, <1>14
    <2>2. ASSUME NEW n \in 1..BufSize, n <= Len(con) + 1
          PROVE  new[n] = IF n <= Len(con) THEN con[n] ELSE NUL
      <3> DEFINE k == (n - 1) \div 16
                 j == ((n - 1) % 16) + 1
      <3>1. k \in 0..31 /\ j \in 1..16 /\ n = 16 * k + j /\ 16 * k <= n - 1
        BY <1>b
      <3>2. n \in Nat /\ n <= 512
        BY <1>b
      <3> HIDE DEF k, j
      <3>3. k < i + 1
        BY <2>1, <2>2, <3>1, <3>2, <1>1
      <3>4. 16 * k + 16 <= len
        BY <1>1, <1>7, <2>2, <3>1, <3>2
      <3>5. BlockOf(new, k) = BlockOf(plain, k)
        BY <1>12, <3>1, <3>3, <3>4
      <3>6. BlockOf(new, k)[j] = new[16 * k + j]
        <4>1. BufSize \in Nat /\ k \in Nat /\ 16 * k + 16 <= BufSize
          BY <1>4, <3>1
        <4> QED
          BY <4>1, <1>11, <3>1, BlockOfIs
      <3>7. BlockOf(plain, k)[j] = plain[16 * k + j]
        <4>1. k \in Nat
          BY <3>1
        <4> QED
          BY <4>1, <1>2, <3>1, <3>4, BlockOfIs
      <3>8. new[n] = plain[n]
        BY <3>1, <3>5, <3>6, <3>7
      <3>9. n \in 1..len
        BY <1>1, <1>2, <2>2, <3>2
      <3> QED
        BY <1>2, <3>8, <3>9
    <2>3. ASSUME NEW n \in 1..BufSize
          PROVE  /\ n <= Len(con) => new[n] = con[n]
                 /\ n = Len(con) + 1 => new[n] = NUL
      <3>1. n \in Nat /\ Len(con) \in Nat
        BY <1>1, <1>4
      <3> QED
        BY <2>2, <3>1
    <2> QED
      BY <1>11, <2>3 DEF Kept, con
  <1>15. ASSUME ~ends
         PROVE  i + 1 \in 0..31 /\ 16 * (i + 1) <= Len(con) /\ Deciphered(b, new, m, i + 1)
    <2>1. 16 * (i + 1) # 512 /\ ~(Len(con) < 16 * i + 16)
      BY <1>b, <1>13, <1>15
    <2>2. i + 1 \in 0..31 /\ 16 * (i + 1) <= Len(con)
      BY <1>1, <2>1
    <2> QED
      BY <1>11, <1>12, <2>2 DEF Deciphered, len, plain
  <1> QED
    BY <1>14, <1>15 DEF new, block, con

\* The message a pushed text is made from.
SameMessage(e) ==
    LET n == IF Len(e.msg.payload) < 510 THEN Len(e.msg.payload) ELSE 510
    IN  /\ e.type = e.msg.type
        /\ SubSeq(e.payload, 1, n) = SubSeq(e.msg.payload, 1, n)
        /\ n < 510 => e.payload = e.msg.payload

\* What the text of a kept buffer says.
LEMMA TextIsKept ==
    ASSUME NEW m, IsMsg(m), NEW buf, Kept(buf, m), NEW text \in Texts(buf)
    PROVE  SameMessage([msg |-> m, type |-> TypeOf(text), payload |-> PayloadOf(text)])
  <1> DEFINE con == Con(m)
             p == m.payload
             nuls == {n \in 1..Len(buf) : buf[n] = NUL}
             first == CHOOSE n \in nuls : \A k \in nuls : n <= k
             len == Len(text)
             n == IF Len(p) < 510 THEN Len(p) ELSE 510
  <1>0. BufSize \in Nat /\ 510 < BufSize
    BY DEF BufSize
  <1>b. BufSize = 512
    BY DEF BufSize
  <1>1. /\ con \in Seq(1..127) /\ Len(con) = Len(p) + 2 /\ Len(p) \in Nat /\ Len(con) \in Nat
        /\ con[1] = 48 + m.type
        /\ \A k \in 1..Len(p) : con[k + 2] = p[k]
    BY ConIs
  <1>2. m.type \in 1..7 /\ p \in Seq(1..127)
    BY DEF IsMsg
  <1>3. /\ buf \in [1..BufSize -> Byte]
        /\ \A k \in 1..BufSize : k = Len(con) + 1 => buf[k] = NUL
    BY DEF Kept
  <1>c. \A k \in 1..BufSize : k <= Len(con) => buf[k] = con[k]
    BY DEF Kept
  <1>4. buf \in Seq(Byte) /\ Len(buf) = BufSize
    BY <1>0, <1>3
  <1> HIDE DEF con, p
  <1>5. \A k \in 1..BufSize : k <= Len(con) => buf[k] # NUL
    <2> SUFFICES ASSUME NEW k \in 1..BufSize, k <= Len(con) PROVE buf[k] # NUL
      OBVIOUS
    <2>1. con[k] \in 1..127
      <3>1. k \in 1..Len(con)
        BY <1>1
      <3> QED
        BY <1>0, <1>1, <3>1, ElementOfSeq
    <2>2. NUL \notin 1..127
      BY DEF NUL
    <2>3. buf[k] = con[k]
      BY <1>c
    <2> QED
      BY <2>1, <2>2, <2>3
  \* The text is what was kept, or longer when there was no room for the NUL.
  <1>6. /\ text \in Seq(Byte) /\ len \in Nat
        /\ Len(con) < BufSize => len = Len(con)
        /\ BufSize <= Len(con) => BufSize <= len
        /\ \A k \in 1..BufSize : k <= Len(con) => text[k] = con[k]
    <2>1. CASE Len(con) < BufSize
      <3>1. Len(con) + 1 \in nuls
        BY <1>0, <1>1, <1>3, <1>4, <2>1
      <3>2. nuls \in SUBSET Nat /\ nuls # {}
        BY <1>0, <1>4, <3>1
      <3>3. first \in nuls /\ \A k \in nuls : first <= k
        <4> HIDE DEF nuls
        <4> QED
          BY <3>2, FirstIsIn
      <3>4. first = Len(con) + 1
        <4>1. first \in 1..BufSize /\ buf[first] = NUL /\ first <= Len(con) + 1
          BY <1>0, <1>4, <3>1, <3>3
        <4> HIDE DEF first
        <4> QED
          BY <1>0, <1>1, <1>5, <4>1
      <3>5. Texts(buf) = {SubSeq(buf, 1, first - 1)}
        BY <3>2 DEF Texts
      <3>6. text = SubSeq(buf, 1, Len(con))
        <4> HIDE DEF first, nuls
        <4> QED
          BY <1>0, <1>1, <3>4, <3>5
      <3>7. /\ 1 \in Int /\ Len(con) \in Int /\ 1 <= Len(con)
            /\ \A k \in 1..Len(con) : buf[k] \in Byte
        BY <1>0, <1>1, <1>3, <2>1
      <3> HIDE DEF first, nuls, len
      <3>8. /\ text \in Seq(Byte) /\ Len(text) = Len(con) - 1 + 1
            /\ \A k \in 1..(Len(con) - 1 + 1) : text[k] = buf[1 + k - 1]
        BY <3>6, <3>7, SubSeqProperties
      <3>9. \A k \in 1..Len(con) : text[k] = buf[k]
        <4> SUFFICES ASSUME NEW k \in 1..Len(con) PROVE text[k] = buf[k]
          OBVIOUS
        <4>1. 1 + k - 1 = k /\ k \in 1..(Len(con) - 1 + 1)
          BY <1>1
        <4> QED
          BY <3>8, <4>1
      <3>10. Len(text) = Len(con)
        BY <1>0, <1>1, <3>8
      <3>11. \A k \in 1..BufSize : k <= Len(con) => text[k] = con[k]
        <4> SUFFICES ASSUME NEW k \in 1..BufSize, k <= Len(con) PROVE text[k] = con[k]
          OBVIOUS
        <4>1. k \in 1..Len(con)
          BY <1>0, <1>1
        <4>2. buf[k] = con[k]
          BY <1>c
        <4> QED
          BY <3>9, <4>1, <4>2
      <3> QED
        BY <1>0, <1>1, <2>1, <3>8, <3>10, <3>11 DEF len
    <2>2. CASE ~(Len(con) < BufSize)
      <3>1. nuls = {}
        BY <1>0, <1>1, <1>4, <1>5, <2>2
      <3>2. text = buf \/ text = Append(buf, 35)
        BY <3>1 DEF Texts
      <3>3. 35 \in Byte
        BY DEF Byte
      <3>4. /\ text \in Seq(Byte) /\ (Len(text) = BufSize \/ Len(text) = BufSize + 1)
            /\ \A k \in 1..BufSize : text[k] = buf[k]
        <4>1. CASE text = buf
          BY <1>0, <1>4, <4>1
        <4>2. CASE text = Append(buf, 35)
          <5>1. /\ Append(buf, 35) \in Seq(Byte)
                /\ Len(Append(buf, 35)) = Len(buf) + 1
                /\ \A k \in 1..Len(buf) : Append(buf, 35)[k] = buf[k]
            BY <1>0, <1>4, <3>3, AppendProperties
          <5> QED
            BY <1>0, <1>4, <4>2, <5>1
        <4> QED
          BY <3>2, <4>1, <4>2
      <3>5. \A k \in 1..BufSize : k <= Len(con) => text[k] = con[k]
        <4> SUFFICES ASSUME NEW k \in 1..BufSize, k <= Len(con) PROVE text[k] = con[k]
          OBVIOUS
        <4>1. text[k] = buf[k]
          BY <3>4
        <4>2. buf[k] = con[k]
          BY <1>c
        <4> QED
          BY <4>1, <4>2
      <3> QED
        BY <1>0, <1>1, <2>2, <3>4, <3>5
    <2> QED
      BY <2>1, <2>2
  <1> HIDE DEF nuls, first
  <1>7. 2 <= len /\ text[1] = 48 + m.type
    <2>1. 1 \in 1..BufSize /\ 1 <= Len(con)
      BY <1>0, <1>1
    <2>2. text[1] = con[1]
      BY <1>0, <1>6, <2>1
    <2>3. 2 <= len
      <3> HIDE DEF len
      <3> QED
        BY <1>0, <1>1, <1>6
    <2> QED
      BY <1>0, <1>1, <2>2, <2>3
  <1>8. TypeOf(text) = m.type
    <2>1. text # << >>
      BY <1>7
    <2>2. text[1] \in 48..57 /\ text[1] - 48 = m.type
      BY <1>2, <1>7
    <2> QED
      BY <2>1, <2>2 DEF TypeOf
  <1> DEFINE u == PayloadOf(text)
  <1>9. /\ u \in Seq(Byte) /\ Len(u) = len - 2
        /\ \A k \in 1..(len - 2) : u[k] = text[k + 2]
    <2>1. \A k \in 3..len : text[k] \in Byte
      BY <1>0, <1>6, ElementOfSeq
    <2>2. u = SubSeq(text, 3, len)
      BY DEF PayloadOf
    <2> HIDE DEF u, len
    <2>3. 3 \in Int /\ len \in Int
      BY <1>0, <1>6
    <2>4. /\ u \in Seq(Byte) /\ Len(u) = IF 3 <= len THEN len - 3 + 1 ELSE 0
          /\ \A k \in 1..(len - 3 + 1) : u[k] = text[3 + k - 1]
      BY <2>1, <2>2, <2>3, SubSeqProperties
    <2>5. len - 3 + 1 = len - 2 /\ Len(u) = len - 2
      BY <1>0, <1>6, <1>7, <2>4
    <2>6. \A k \in 1..(len - 2) : u[k] = text[k + 2]
      <3> SUFFICES ASSUME NEW k \in 1..(len - 2) PROVE u[k] = text[k + 2]
        OBVIOUS
      <3>1. 3 + k - 1 = k + 2
        OBVIOUS
      <3> QED
        BY <2>4, <2>5, <3>1
    <2> QED
      BY <2>4, <2>5, <2>6
  <1> HIDE DEF u, len
  <1>10. n \in Nat /\ n <= Len(p) /\ n <= 510 /\ n <= Len(u)
    <2>1. /\ Len(con) < BufSize => len = Len(con)
          /\ BufSize <= Len(con) => BufSize <= len
          /\ len \in Nat
      BY <1>6
    <2>2. Len(u) = len - 2
      BY <1>9
    <2>3. Len(con) = Len(p) + 2 /\ Len(p) \in Nat
      BY <1>1
    <2> QED
      BY <1>b, <2>1, <2>2, <2>3
  <1>11. \A k \in 1..n : u[k] = p[k]
    <2> SUFFICES ASSUME NEW k \in 1..n PROVE u[k] = p[k]
      OBVIOUS
    <2> HIDE DEF n
    <2>1. k \in 1..Len(p) /\ k \in 1..(len - 2) /\ k + 2 \in 1..BufSize /\ k + 2 <= Len(con)
      <3>1. Len(u) = len - 2
        BY <1>9
      <3>2. Len(con) = Len(p) + 2 /\ Len(p) \in Nat
        BY <1>1
      <3>3. len \in Nat
        BY <1>6
      <3> QED
        BY <1>b, <1>10, <3>1, <3>2, <3>3
    <2>2. u[k] = text[k + 2] /\ text[k + 2] = con[k + 2] /\ con[k + 2] = p[k]
      BY <1>0, <1>1, <1>6, <1>9, <2>1
    <2> QED
      BY <2>2
  <1>12. SubSeq(u, 1, n) = SubSeq(p, 1, n)
    <2> HIDE DEF n
    <2>1. /\ \A k \in 1..n : u[k] \in Byte
          /\ \A k \in 1..n : p[k] \in Byte
      <3>1. \A k \in 1..n : k \in 1..Len(u)
        BY <1>9, <1>6, <1>10
      <3> QED
        BY <1>9, <1>11, <3>1, ElementOfSeq
    <2>2. 1 \in Int /\ n \in Int
      BY <1>10
    <2>3. /\ SubSeq(u, 1, n) \in Seq(Byte)
          /\ Len(SubSeq(u, 1, n)) = IF 1 <= n THEN n - 1 + 1 ELSE 0
          /\ \A k \in 1..(n - 1 + 1) : SubSeq(u, 1, n)[k] = u[1 + k - 1]
      BY <2>1, <2>2, SubSeqProperties
    <2>4. /\ SubSeq(p, 1, n) \in Seq(Byte)
          /\ Len(SubSeq(p, 1, n)) = IF 1 <= n THEN n - 1 + 1 ELSE 0
          /\ \A k \in 1..(n - 1 + 1) : SubSeq(p, 1, n)[k] = p[1 + k - 1]
      BY <2>1, <2>2, SubSeqProperties
    <2> DEFINE x == SubSeq(u, 1, n)
               y == SubSeq(p, 1, n)
    <2>5. x \in Seq(Byte) /\ y \in Seq(Byte) /\ Len(x) = n /\ Len(y) = n
      BY <1>10, <2>3, <2>4
    <2>6. \A k \in 1..n : x[k] = y[k]
      <3> SUFFICES ASSUME NEW k \in 1..n PROVE x[k] = y[k]
        OBVIOUS
      <3>1. k \in 1..(n - 1 + 1) /\ 1 + k - 1 = k
        BY <1>10
      <3>2. x[k] = u[k] /\ y[k] = p[k]
        BY <2>3, <2>4, <3>1
      <3> QED
        BY <1>11, <3>2
    <2> HIDE DEF x, y
    <2>7. x = y
      BY <2>5, <2>6, SeqEqual
    <2> QED
      BY <2>7 DEF x, y
  <1>13. ASSUME n < 510 PROVE u = p
    <2>1. n = Len(p) /\ Len(u) = Len(p)
      <3>1. /\ Len(con) < BufSize => len = Len(con)
            /\ len \in Nat
        BY <1>6
      <3>2. Len(u) = len - 2
        BY <1>9
      <3>3. Len(con) = Len(p) + 2 /\ Len(p) \in Nat
        BY <1>1
      <3> QED
        BY <1>b, <1>13, <3>1, <3>2, <3>3
    <2>2. u \in Seq(Nat) /\ p \in Seq(Nat)
      <3>1. Byte \subseteq Nat /\ 1..127 \subseteq Nat
        BY DEF Byte
      <3> QED
        BY <1>2, <1>9, <3>1, SeqMonotonic
    <2> HIDE DEF n
    <2> QED
      BY <1>11, <2>1, <2>2, SeqEqual
  <1> QED
    BY <1>8, <1>12, <1>13 DEF SameMessage, u, p

-----------------------------------------------------------------------------
(* The two threads and the files                                           *)

Phases == {"idle", "extend", "blocks", "done"}
Fields == {"pc", "i", "msg", "buf", "len"}

\* What save has in hand.
SaveOK(b, s) ==
    /\ s.pc \in Phases
    /\ s.pc # "idle" => IsMsg(s.msg) /\ s.len = FileLen(b, s.msg)
    /\ s.pc = "extend" => b.encrypt /\ s.buf = Plain(b, s.msg)
    /\ s.pc = "blocks" => /\ b.encrypt
                          /\ s.i \in Nat /\ 16 * s.i < s.len
                          /\ s.buf \in [1..s.len -> Byte]
                          /\ Blocks(s.buf, Plain(b, s.msg), s.len, 0..(s.i - 1))
    /\ s.pc = "done" => Written(b, s.buf, s.msg)

\* What the re-push thread has in hand.
PushOK(b, p) ==
    /\ p.pc \in Phases
    /\ Sane(b) =>
         /\ p.pc # "idle" => IsMsg(p.msg)
         /\ p.pc = "extend" => /\ b.encrypt /\ p.len = BufSize
                               /\ Deciphered(b, p.buf, p.msg, 0)
         /\ p.pc = "blocks" => /\ b.encrypt /\ p.len = BufSize
                               /\ p.i \in 0..31 /\ 16 * p.i <= Len(Con(p.msg))
                               /\ Deciphered(b, p.buf, p.msg, p.i)
         /\ p.pc = "done" => Kept(p.buf, p.msg)

Buffers ==
    /\ build \in Builds
    /\ w \in Words
    /\ DOMAIN th = Threads
    /\ \A t \in Threads : DOMAIN th[t] = Fields
    /\ \A f \in files : OnFile(build, f)
    /\ SaveOK(build, th["save"])
    /\ PushOK(build, th["push"])
    /\ Sane(build) => \A e \in pushed : SameMessage(e)

\* A build says yes or no.
LEMMA BuildIs == Buffers => build.encrypt \in BOOLEAN /\ build.signedChar \in BOOLEAN
  BY BuildsAssumption DEF Buffers

\* While a thread is at its blocks, w is the schedule.
LEMMA ScheduleIs ==
    ASSUME Inv, Buffers, NEW t \in Threads, th[t].pc = "blocks"
    PROVE  w = KeyWords /\ KeyWords \in Words
  BY OneSchedule DEF Inv, Progress, Buffers

\* A thread that has expanded the key begins with the first block.
LEMMA SaveGoesOn ==
    ASSUME NEW b, NEW s, NEW s2, SaveOK(b, s), s.pc = "extend",
           s2.pc \in {"extend", "blocks"}, s2.pc = "blocks" => s2.i = 0,
           s2.msg = s.msg, s2.buf = s.buf, s2.len = s.len
    PROVE  SaveOK(b, s2)
  <1> DEFINE m == s.msg
             plain == Plain(b, m)
             len == FileLen(b, m)
  <1>1. IsMsg(m) /\ s.len = len /\ b.encrypt /\ s.buf = plain
    BY DEF SaveOK
  <1>2. len \in Nat /\ 0 < len /\ plain \in [1..len -> Byte]
    <2>1. Len(Con(m)) \in Nat
      BY <1>1, ConIs
    <2>2. len \in Nat /\ Len(Con(m)) < len /\ plain \in [1..len -> Byte]
      BY <1>1, PlainIs
    <2> HIDE DEF len, plain
    <2> QED
      BY <2>1, <2>2
  <1>3. Blocks(plain, plain, len, 0..(0 - 1))
    <2> HIDE DEF plain, len
    <2> QED
      BY DEF Blocks
  <1> HIDE DEF plain, len
  <1>4. CASE s2.pc = "extend"
    BY <1>1, <1>4 DEF SaveOK, Phases, plain, len
  <1>5. CASE s2.pc = "blocks"
    <2>1. s2.i = 0 /\ 0 \in Nat /\ 16 * 0 < len
      BY <1>2, <1>5
    <2>2. /\ s2.len = len /\ s2.buf = plain /\ s2.msg = m
      BY <1>1
    <2>3. s2.i \in Nat /\ 16 * s2.i < s2.len /\ s2.buf \in [1..s2.len -> Byte]
      BY <1>2, <2>1, <2>2
    <2>4. Blocks(s2.buf, Plain(b, s2.msg), s2.len, 0..(s2.i - 1))
      BY <1>3, <2>1, <2>2 DEF plain
    <2> QED
      BY <1>1, <1>5, <2>2, <2>3, <2>4 DEF SaveOK, Phases, len
  <1> QED
    BY <1>4, <1>5

\* A push that goes on expanding the key, or has just finished it, still holds
\* the text it read: the expansion touches none of its buffer.
LEMMA PushGoesOn ==
    ASSUME NEW b, NEW p, NEW p2, PushOK(b, p), p.pc = "extend",
           p2.pc \in {"extend", "blocks"}, p2.pc = "blocks" => p2.i = 0,
           p2.msg = p.msg, p2.buf = p.buf, p2.len = p.len
    PROVE  PushOK(b, p2)
  <1>1. CASE ~Sane(b)
    BY <1>1 DEF PushOK, Phases
  <1>2. CASE Sane(b)
    <2>1. /\ IsMsg(p.msg) /\ b.encrypt /\ p.len = BufSize /\ Deciphered(b, p.buf, p.msg, 0)
      BY <1>2 DEF PushOK
    <2>2. 0 \in 0..31 /\ 16 * 0 <= Len(Con(p.msg))
      <3>1. Len(Con(p.msg)) \in Nat
        BY <2>1, ConIs
      <3> QED
        BY <3>1
    <2> QED
      BY <2>1, <2>2 DEF PushOK, Phases
  <1> QED
    BY <1>1, <1>2

\* A step of extendKey.
LEMMA ExtendKeyBuffers ==
    ASSUME Inv, Buffers, NEW t \in Threads, ExtendKey(t)
    PROVE  Buffers'
  <1> DEFINE i == th[t].i
  <1>1. i \in WordIndex /\ th[t].pc = "extend"
    BY DEF Inv, Progress, ExtendKey
  <1>2. /\ w' = [w EXCEPT ![i] = NextWord(key, w, i)]
        /\ th' = [th EXCEPT ![t].pc = IF i = 43 THEN "blocks" ELSE "extend",
                            ![t].i = (i + 1) % 44]
        /\ build' = build /\ files' = files /\ pushed' = pushed
    BY DEF ExtendKey
  <1>3. DOMAIN th = Threads /\ DOMAIN th[t] = Fields /\ \A u \in Threads : DOMAIN th[u] = Fields
    BY DEF Buffers
  <1>4. w' \in Words
    <2>1. NextWord(key, w, i) \in Column
      <3> HIDE DEF i
      <3> QED
        BY <1>1, NextWordType DEF Buffers
    <2> DEFINE new == NextWord(key, w, i)
    <2> HIDE DEF new, i
    <2> QED
      BY <1>1, <1>2, <2>1 DEF Buffers, Words, new
  <1>5. /\ DOMAIN th' = Threads
        /\ \A u \in Threads : u # t => th'[u] = th[u]
        /\ DOMAIN th'[t] = Fields
        /\ th'[t].pc = IF i = 43 THEN "blocks" ELSE "extend"
        /\ th'[t].i = (i + 1) % 44
        /\ th'[t].msg = th[t].msg /\ th'[t].buf = th[t].buf /\ th'[t].len = th[t].len
    BY <1>2, <1>3 DEF Fields
  <1>6. th'[t].pc \in {"extend", "blocks"} /\ (th'[t].pc = "blocks" => th'[t].i = 0)
    BY <1>1, <1>5
  <1> HIDE DEF i
  <1>7. SaveOK(build, th'["save"])
    <2>1. CASE t = "save"
      BY <2>1, <1>1, <1>5, <1>6, SaveGoesOn DEF Buffers
    <2>2. CASE t # "save"
      BY <2>2, <1>5 DEF Buffers, Threads
    <2> QED
      BY <2>1, <2>2
  <1>8. PushOK(build, th'["push"])
    <2>1. CASE t = "push"
      BY <2>1, <1>1, <1>5, <1>6, PushGoesOn DEF Buffers
    <2>2. CASE t # "push"
      BY <2>2, <1>5 DEF Buffers, Threads
    <2> QED
      BY <2>1, <2>2
  <1> QED
    BY <1>2, <1>3, <1>4, <1>5, <1>7, <1>8 DEF Buffers

\* A message is taken up.
LEMMA SaveBuffers ==
    ASSUME Buffers, NEW m, IsMsg(m), Save(m)
    PROVE  Buffers'
  <1> DEFINE con == Con(m)
             len == FileLen(build, m)
             s == th'["save"]
  <1>1. /\ build' = build /\ w' = w /\ files' = files /\ pushed' = pushed
        /\ th' = [th EXCEPT !["save"] =
                    [pc |-> IF build.encrypt /\ Accepts(len, key) THEN "extend" ELSE "done",
                     i |-> 0, msg |-> m, buf |-> Plain(build, m), len |-> len]]
    BY DEF Save, FileLen, Plain
  <1>2. DOMAIN th = Threads /\ \A t \in Threads : DOMAIN th[t] = Fields
    BY DEF Buffers
  <1>3. /\ s.pc = IF build.encrypt /\ Accepts(len, key) THEN "extend" ELSE "done"
        /\ s.msg = m /\ s.buf = Plain(build, m) /\ s.len = len
        /\ DOMAIN s = Fields /\ th'["push"] = th["push"] /\ DOMAIN th' = Threads
    <2> HIDE DEF len, con
    <2> QED
      BY <1>1, <1>2 DEF Fields, Threads
  <1>4. build.encrypt => Accepts(len, key)
    <2> SUFFICES ASSUME build.encrypt PROVE Accepts(len, key)
      OBVIOUS
    <2> DEFINE l == Len(con)
    <2>1. l \in Nat
      BY ConIs
    <2>2. len = getAesLen(l)
      BY DEF FileLen
    <2> HIDE DEF l, len, con
    <2>3. len \in Nat /\ len # 0 /\ len % 16 = 0
      BY <2>1, <2>2, AesLenIs
    <2>4. Len(key) = 16
      BY DEF key
    <2> QED
      BY <2>3, <2>4 DEF Accepts, checkKeyLen
  <1>5. Plain(build, m) \in [1..len -> Byte]
    BY PlainIs
  <1> HIDE DEF len
  <1>6. SaveOK(build, s)
    <2> HIDE DEF s
    <2>1. CASE build.encrypt
      <3>1. s.pc = "extend"
        BY <1>3, <1>4, <2>1
      <3> QED
        BY <1>3, <2>1, <3>1 DEF SaveOK, Phases, len
    <2>2. CASE ~build.encrypt
      <3>1. s.pc = "done"
        BY <1>3, <2>2
      <3>2. Written(build, s.buf, s.msg)
        BY <1>3, <1>5, <2>2 DEF Written, len
      <3> QED
        BY <1>3, <3>1, <3>2 DEF SaveOK, Phases, len
    <2> QED
      BY <2>1, <2>2, BuildIs
  <1> QED
    BY <1>1, <1>2, <1>3, <1>6 DEF Buffers, Threads

\* One turn of the loop of aes.
LEMMA SaveBlockBuffers ==
    ASSUME Inv, Buffers, SaveBlock
    PROVE  Buffers'
  <1> DEFINE s == th["save"]
             m == s.msg
             len == s.len
             i == s.i
             plain == Plain(build, m)
             new == WithBlock(s.buf, i, aesBlock(KeyWords, BlockOf(s.buf, i)))
             z == th'["save"]
  <1>1. "save" \in Threads /\ "push" \in Threads
    BY DEF Threads
  <1>2. w = KeyWords /\ KeyWords \in Words
    BY <1>1, ScheduleIs DEF SaveBlock
  <1>3. /\ build' = build /\ w' = w /\ files' = files /\ pushed' = pushed
        /\ th' = [th EXCEPT !["save"].buf = new,
                            !["save"].i = i + 1,
                            !["save"].pc = IF 16 * (i + 1) = len THEN "done" ELSE "blocks"]
    BY <1>2 DEF SaveBlock
  <1>4. DOMAIN th = Threads /\ \A t \in Threads : DOMAIN th[t] = Fields
    BY DEF Buffers
  <1>5. /\ z.pc = IF 16 * (i + 1) = len THEN "done" ELSE "blocks"
        /\ z.i = i + 1 /\ z.buf = new /\ z.msg = m /\ z.len = len
        /\ DOMAIN z = Fields /\ th'["push"] = th["push"] /\ DOMAIN th' = Threads
    <2> HIDE DEF new
    <2> QED
      BY <1>1, <1>3, <1>4 DEF Fields
  <1>6. /\ IsMsg(m) /\ len = FileLen(build, m) /\ build.encrypt
        /\ i \in Nat /\ 16 * i < len
        /\ s.buf \in [1..len -> Byte]
        /\ Blocks(s.buf, plain, len, 0..(i - 1))
    BY DEF SaveBlock, Buffers, SaveOK
  <1>7. len \in Nat /\ len % 16 = 0 /\ plain \in [1..len -> Byte]
    <2> DEFINE l == Len(Con(m))
    <2>1. l \in Nat
      BY <1>6, ConIs
    <2>2. len = getAesLen(l)
      BY <1>6 DEF FileLen
    <2>3. plain \in [1..len -> Byte]
      BY <1>6, PlainIs
    <2> HIDE DEF l, len, plain
    <2> QED
      BY <2>1, <2>2, <2>3, AesLenIs
  <1>8. /\ new \in [1..len -> Byte]
        /\ 16 * (i + 1) = len => Blocks(new, plain, len, Nat)
        /\ 16 * (i + 1) # len => /\ 16 * (i + 1) < len
                                 /\ Blocks(new, plain, len, 0..((i + 1) - 1))
    <2> DEFINE buf == s.buf
    <2> HIDE DEF i, len, plain, buf
    <2>1. /\ WithBlock(buf, i, aesBlock(KeyWords, BlockOf(buf, i))) \in [1..len -> Byte]
          /\ 16 * (i + 1) = len =>
               Blocks(WithBlock(buf, i, aesBlock(KeyWords, BlockOf(buf, i))), plain, len, Nat)
          /\ 16 * (i + 1) # len =>
               /\ 16 * (i + 1) < len
               /\ Blocks(WithBlock(buf, i, aesBlock(KeyWords, BlockOf(buf, i))),
                         plain, len, 0..((i + 1) - 1))
      BY <1>2, <1>6, <1>7, BlockEnciphered DEF buf
    <2> QED
      BY <2>1 DEF buf
  <1> HIDE DEF new, plain, z
  <1>9. SaveOK(build, z)
    <2>1. CASE 16 * (i + 1) = len
      <3>1. z.pc = "done" /\ Blocks(new, plain, len, Nat)
        BY <1>5, <1>8, <2>1
      <3>2. Written(build, z.buf, z.msg)
        BY <1>5, <1>6, <1>8, <3>1 DEF Written, plain
      <3> QED
        BY <1>5, <1>6, <3>1, <3>2 DEF SaveOK, Phases
    <2>2. CASE 16 * (i + 1) # len
      <3>1. z.pc = "blocks" /\ 16 * z.i < z.len /\ z.i \in Nat
        <4> HIDE DEF i, len
        <4> QED
          BY <1>5, <1>6, <1>8, <2>2
      <3>2. Blocks(z.buf, Plain(build, z.msg), z.len, 0..(z.i - 1))
        BY <1>5, <1>8, <2>2 DEF plain
      <3>3. z.buf \in [1..z.len -> Byte]
        BY <1>5, <1>8
      <3> QED
        BY <1>5, <1>6, <3>1, <3>2, <3>3 DEF SaveOK, Phases
    <2> QED
      BY <2>1, <2>2
  <1> QED
    BY <1>1, <1>3, <1>4, <1>5, <1>9 DEF Buffers, Threads, z

\* The file is written.
LEMMA SaveWriteBuffers ==
    ASSUME Buffers, SaveWrite
    PROVE  Buffers'
  <1> DEFINE s == th["save"]
             new == [msg |-> s.msg, bytes |-> Append(s.buf, Blank)]
  <1>1. /\ build' = build /\ w' = w /\ pushed' = pushed /\ files' = files \cup {new}
        /\ th' = [th EXCEPT !["save"] = Idle] /\ s.pc = "done"
    BY DEF SaveWrite
  <1>2. DOMAIN th = Threads /\ \A t \in Threads : DOMAIN th[t] = Fields
    BY DEF Buffers
  <1>3. /\ DOMAIN th' = Threads /\ \A t \in Threads : DOMAIN th'[t] = Fields
        /\ th'["save"] = Idle /\ th'["push"] = th["push"]
    BY <1>1, <1>2 DEF Threads, Idle, Fields
  <1>4. SaveOK(build, Idle)
    BY DEF SaveOK, Idle, Phases
  <1>5. OnFile(build, new)
    <2>1. IsMsg(s.msg) /\ Written(build, s.buf, s.msg)
      BY <1>1 DEF Buffers, SaveOK
    <2> HIDE DEF s
    <2>2. new.msg = s.msg /\ new.bytes = Append(s.buf, Blank)
      OBVIOUS
    <2> HIDE DEF new
    <2> QED
      BY <2>1, <2>2 DEF OnFile
  <1> HIDE DEF new
  <1> QED
    BY <1>1, <1>3, <1>4, <1>5 DEF Buffers

\* A file is read.
LEMMA PushReadBuffers ==
    ASSUME Buffers, NEW f \in files, PushRead(f)
    PROVE  Buffers'
  <1> DEFINE len == CharsRead(f.bytes)
             buf == ReadBuffer(f.bytes)
             p == th'["push"]
  <1>1. /\ build' = build /\ w' = w /\ pushed' = pushed /\ files' = files
        /\ th' = [th EXCEPT !["push"] =
                    [pc |-> IF build.encrypt /\ Accepts(len, key) THEN "extend" ELSE "done",
                     i |-> 0, msg |-> f.msg, buf |-> buf, len |-> len]]
    BY DEF PushRead
  <1>2. DOMAIN th = Threads /\ \A t \in Threads : DOMAIN th[t] = Fields
    BY DEF Buffers
  <1> HIDE DEF len, buf
  <1>3. /\ p.pc = IF build.encrypt /\ Accepts(len, key) THEN "extend" ELSE "done"
        /\ p.msg = f.msg /\ p.buf = buf /\ p.len = len
        /\ DOMAIN p = Fields /\ th'["save"] = th["save"] /\ DOMAIN th' = Threads
    BY <1>1, <1>2 DEF Fields, Threads
  <1>4. OnFile(build, f) /\ IsMsg(f.msg)
    BY DEF Buffers, OnFile
  <1> HIDE DEF p
  <1>5. PushOK(build, p)
    <2>1. p.pc \in Phases
      BY <1>3 DEF Phases
    <2>2. CASE ~Sane(build)
      BY <2>1, <2>2 DEF PushOK
    <2>3. CASE Sane(build)
      <3>1. /\ build.encrypt => len = BufSize /\ Deciphered(build, buf, f.msg, 0)
            /\ ~build.encrypt => Kept(buf, f.msg)
        BY <1>4, <2>3, ReadIs, BuildIs DEF len, buf
      <3>2. CASE build.encrypt
        <4>1. Accepts(len, key)
          <5>1. Len(key) = 16
            BY DEF key
          <5>2. BufSize # 0 /\ BufSize % 16 = 0
            BY DEF BufSize
          <5> QED
            BY <3>1, <3>2, <5>1, <5>2 DEF Accepts, checkKeyLen
        <4>2. p.pc = "extend"
          BY <1>3, <3>2, <4>1
        <4> QED
          BY <1>3, <1>4, <2>1, <3>1, <3>2, <4>2 DEF PushOK
      <3>3. CASE ~build.encrypt
        <4>1. p.pc = "done"
          BY <1>3, <3>3
        <4> QED
          BY <1>3, <1>4, <2>1, <3>1, <3>3, <4>1 DEF PushOK
      <3> QED
        BY <3>2, <3>3, BuildIs
    <2> QED
      BY <2>2, <2>3
  <1> QED
    BY <1>1, <1>2, <1>3, <1>5 DEF Buffers, Threads, p

\* One turn of the loop of deAes.
LEMMA PushBlockBuffers ==
    ASSUME Inv, Buffers, PushBlock
    PROVE  Buffers'
  <1> DEFINE p == th["push"]
             i == p.i
             m == p.msg
             buf == p.buf
             block == deAesBlock(KeyWords, BlockOf(buf, i))
             new == WithBlock(buf, i, block)
             ends(len) == \/ 16 * (i + 1) = len
                          \/ \E n \in 1..16 : block[n] = NUL
             z == th'["push"]
  <1>1. "save" \in Threads /\ "push" \in Threads
    BY DEF Threads
  <1>2. w = KeyWords /\ KeyWords \in Words
    BY <1>1, ScheduleIs DEF PushBlock
  <1>3. /\ build' = build /\ w' = w /\ files' = files /\ pushed' = pushed /\ p.pc = "blocks"
        /\ th' = [th EXCEPT !["push"].buf = new,
                            !["push"].i = i + 1,
                            !["push"].pc = IF ends(p.len) THEN "done" ELSE "blocks"]
    BY <1>2 DEF PushBlock
  <1>4. DOMAIN th = Threads /\ \A t \in Threads : DOMAIN th[t] = Fields
    BY DEF Buffers
  <1> HIDE DEF new, ends
  <1>5. /\ z.pc = IF ends(p.len) THEN "done" ELSE "blocks"
        /\ z.i = i + 1 /\ z.buf = new /\ z.msg = m /\ z.len = p.len
        /\ DOMAIN z = Fields /\ th'["save"] = th["save"] /\ DOMAIN th' = Threads
    BY <1>1, <1>3, <1>4 DEF Fields
  <1>6. PushOK(build, p)
    BY DEF Buffers
  <1> HIDE DEF z
  <1>7. PushOK(build, z)
    <2>1. z.pc \in Phases
      BY <1>5 DEF Phases
    <2>2. CASE ~Sane(build)
      BY <2>1, <2>2 DEF PushOK
    <2>3. CASE Sane(build)
      <3>1. /\ IsMsg(m) /\ build.encrypt /\ p.len = BufSize
            /\ i \in 0..31 /\ 16 * i <= Len(Con(m)) /\ Deciphered(build, buf, m, i)
        BY <1>3, <1>6, <2>3 DEF PushOK
      <3>2. /\ ends(p.len) => Kept(new, m)
            /\ ~ends(p.len) => /\ i + 1 \in 0..31 /\ 16 * (i + 1) <= Len(Con(m))
                               /\ Deciphered(build, new, m, i + 1)
        <4>1. ends(p.len) <=> \/ 16 * (i + 1) = BufSize
                              \/ \E n \in 1..16 : block[n] = NUL
          BY <3>1 DEF ends
        <4> HIDE DEF i, m, buf
        <4>2. LET blk == deAesBlock(KeyWords, BlockOf(buf, i))
                  nw == WithBlock(buf, i, blk)
                  en == \/ 16 * (i + 1) = BufSize
                        \/ \E n \in 1..16 : blk[n] = NUL
              IN  /\ en => Kept(nw, m)
                  /\ ~en => /\ i + 1 \in 0..31 /\ 16 * (i + 1) <= Len(Con(m))
                            /\ Deciphered(build, nw, m, i + 1)
          BY <1>2, <3>1, BlockDeciphered
        <4> QED
          BY <4>1, <4>2 DEF new
      <3>3. CASE ends(p.len)
        BY <1>5, <2>1, <3>1, <3>2, <3>3 DEF PushOK
      <3>4. CASE ~ends(p.len)
        BY <1>5, <2>1, <3>1, <3>2, <3>4 DEF PushOK
      <3> QED
        BY <3>3, <3>4
    <2> QED
      BY <2>2, <2>3
  <1> QED
    BY <1>1, <1>3, <1>4, <1>5, <1>7 DEF Buffers, Threads, z

\* A text is pushed and its file removed.
LEMMA PushEmitBuffers ==
    ASSUME Buffers, PushEmit
    PROVE  Buffers'
  <1> DEFINE p == th["push"]
  <1>1. PICK text \in Texts(p.buf) :
          pushed' = pushed \cup {[msg |-> p.msg, type |-> TypeOf(text),
                                  payload |-> PayloadOf(text)]}
    BY DEF PushEmit
  <1> DEFINE new == [msg |-> p.msg, type |-> TypeOf(text), payload |-> PayloadOf(text)]
  <1>2. /\ build' = build /\ w' = w /\ files' \subseteq files /\ p.pc = "done"
        /\ th' = [th EXCEPT !["push"] = Idle]
    BY DEF PushEmit
  <1>3. DOMAIN th = Threads /\ \A t \in Threads : DOMAIN th[t] = Fields
    BY DEF Buffers
  <1>4. /\ DOMAIN th' = Threads /\ \A t \in Threads : DOMAIN th'[t] = Fields
        /\ th'["push"] = Idle /\ th'["save"] = th["save"]
    BY <1>2, <1>3 DEF Threads, Idle, Fields
  <1>5. PushOK(build, Idle)
    BY DEF PushOK, Idle, Phases
  <1>6. Sane(build) => SameMessage(new)
    <2> SUFFICES ASSUME Sane(build) PROVE SameMessage(new)
      OBVIOUS
    <2>1. IsMsg(p.msg) /\ Kept(p.buf, p.msg)
      BY <1>2 DEF Buffers, PushOK
    <2> QED
      BY <1>1, <2>1, TextIsKept
  <1> HIDE DEF new
  <1>7. pushed' = pushed \cup {new}
    BY <1>1 DEF new
  <1> QED
    BY <1>2, <1>4, <1>5, <1>6, <1>7 DEF Buffers

\* Both threads are idle at first, and nothing is written or pushed.
LEMMA InitBuffers == Init => Buffers
  <1> SUFFICES ASSUME Init PROVE Buffers
    OBVIOUS
  <1>1. w \in Words
    BY DEF Init, ZeroSchedule, NoWord, Words, Column, Byte
  <1>2. th = [t \in Threads |-> Idle] /\ DOMAIN Idle = Fields /\ Idle.pc = "idle"
    BY DEF Init, Idle, Fields
  <1>3. "save" \in Threads /\ "push" \in Threads
    BY DEF Threads
  <1>4. SaveOK(build, Idle) /\ PushOK(build, Idle)
    BY <1>2 DEF SaveOK, PushOK, Phases
  <1> QED
    BY <1>1, <1>2, <1>3, <1>4 DEF Init, Buffers

\* What either thread holds, what is on the files and what was pushed.
THEOREM BuffersOK == Spec => []Buffers
  <1>1. Inv /\ Buffers /\ [Next]_vars => Buffers'
    <2> SUFFICES ASSUME Inv, Buffers, [Next]_vars PROVE Buffers'
      OBVIOUS
    <2>1. CASE \E t \in Threads : ExtendKey(t)
      BY <2>1, ExtendKeyBuffers
    <2>2. CASE \E batch \in Batches : \E m \in batch : Save(m)
      <3>1. PICK batch \in Batches : \E m \in batch : Save(m)
        BY <2>2
      <3>2. PICK m \in batch : Save(m)
        BY <3>1
      <3>3. IsMsg(m)
        BY <3>1, <3>2, BatchesAssumption DEF IsMsg
      <3> QED
        BY <3>2, <3>3, SaveBuffers
    <2>3. CASE SaveBlock
      BY <2>3, SaveBlockBuffers
    <2>4. CASE SaveWrite
      BY <2>4, SaveWriteBuffers
    <2>5. CASE \E f \in files : PushRead(f)
      BY <2>5, PushReadBuffers
    <2>6. CASE PushBlock
      BY <2>6, PushBlockBuffers
    <2>7. CASE PushEmit
      BY <2>7, PushEmitBuffers
    <2>8. CASE UNCHANGED vars
      BY <2>8 DEF vars, Buffers
    <2> QED
      BY <2>1, <2>2, <2>3, <2>4, <2>5, <2>6, <2>7, <2>8 DEF Next
  <1> QED
    BY InitBuffers, <1>1, InvOK, PTL DEF Spec

\* What is pushed is what was saved.
THEOREM PushedAsSaved == Spec => []PushedIsSaved
  <1>1. Buffers => PushedIsSaved
    BY DEF Buffers, PushedIsSaved, Sane, SameMessage
  <1> QED
    BY <1>1, BuffersOK, PTL
-----------------------------------------------------------------------------
(* The tables and the field                                                *)

\* The bit holds; one of two holds.
On(p, a) == BitAt(p, a) = 1
Differ(x, y) == ~(x <=> y)

\* An odd number of eight holds.
Odd(a, b, c, d, e, f, g, h) ==
    Differ(Differ(Differ(a, b), Differ(c, d)), Differ(Differ(e, f), Differ(g, h)))

\* d[k] is b, doubled k times.
Doublings(d, b) ==
    /\ d \in [0..8 -> Byte]
    /\ d[0] = b
    /\ \A k \in 1..8 : d[k] = GFMul2(d[k - 1])

\* A byte can be doubled eight times.
LEMMA DoublingsExist == \A b \in Byte : \E d : Doublings(d, b)
  <1> SUFFICES ASSUME NEW b \in Byte PROVE \E d : Doublings(d, b)
    OBVIOUS
  <1> DEFINE e1 == GFMul2(b)
             e2 == GFMul2(e1)
             e3 == GFMul2(e2)
             e4 == GFMul2(e3)
             e5 == GFMul2(e4)
             e6 == GFMul2(e5)
             e7 == GFMul2(e6)
             e8 == GFMul2(e7)
             t == <<b, e1, e2, e3, e4, e5, e6, e7, e8>>
             d == [k \in 0..8 |-> t[k + 1]]
  <1>1. e1 \in Byte
    BY DoubledIs
  <1> HIDE DEF e1
  <1>2. e2 \in Byte
    BY <1>1, DoubledIs
  <1> HIDE DEF e2
  <1>3. e3 \in Byte
    BY <1>2, DoubledIs
  <1> HIDE DEF e3
  <1>4. e4 \in Byte
    BY <1>3, DoubledIs
  <1> HIDE DEF e4
  <1>5. e5 \in Byte
    BY <1>4, DoubledIs
  <1> HIDE DEF e5
  <1>6. e6 \in Byte
    BY <1>5, DoubledIs
  <1> HIDE DEF e6
  <1>7. e7 \in Byte
    BY <1>6, DoubledIs
  <1> HIDE DEF e7
  <1>8. e8 \in Byte
    BY <1>7, DoubledIs
  <1> HIDE DEF e8
  <1>9. \A k \in 0..8 : t[k + 1] \in Byte
    BY <1>1, <1>2, <1>3, <1>4, <1>5, <1>6, <1>7, <1>8
  <1>10. \A k \in 1..8 : t[k + 1] = GFMul2(t[k])
    BY DEF e1, e2, e3, e4, e5, e6, e7, e8
  <1>11. t[1] = b
    OBVIOUS
  <1> HIDE DEF t
  <1>12. \A k \in 1..8 : d[k - 1] = t[k]
    OBVIOUS
  <1>13. Doublings(d, b)
    BY <1>9, <1>10, <1>11, <1>12 DEF Doublings
  <1> QED
    BY <1>13

\* A bit of a sum holds if one of the two does.
LEMMA OnSum ==
    ASSUME NEW a \in Byte, NEW b \in Byte
    PROVE  /\ Xor[a][b] \in Byte
           /\ \A p \in Powers : On(p, Xor[a][b]) <=> Differ(On(p, a), On(p, b))
  <1>1. /\ Xor[a][b] \in Byte
        /\ \A p \in Powers : BitAt(p, Xor[a][b]) = (BitAt(p, a) + BitAt(p, b)) % 2
    BY XorIs
  <1>2. \A p \in Powers : BitAt(p, a) \in {0, 1} /\ BitAt(p, b) \in {0, 1}
    BY ByteIsBits
  <1> QED
    BY <1>1, <1>2 DEF On, Differ

\* Doubling, bit by bit.
LEMMA OnDoubled ==
    ASSUME NEW s \in Byte
    PROVE  /\ On(1, GFMul2(s)) <=> On(128, s)
           /\ On(2, GFMul2(s)) <=> Differ(On(1, s), On(128, s))
           /\ On(4, GFMul2(s)) <=> On(2, s)
           /\ On(8, GFMul2(s)) <=> Differ(On(4, s), On(128, s))
           /\ On(16, GFMul2(s)) <=> Differ(On(8, s), On(128, s))
           /\ On(32, GFMul2(s)) <=> On(16, s)
           /\ On(64, GFMul2(s)) <=> On(32, s)
           /\ On(128, GFMul2(s)) <=> On(64, s)
  <1>1. \A p \in Powers : BitAt(p, s) \in {0, 1}
    BY ByteIsBits
  <1>2. /\ BitAt(1, s) \in {0, 1} /\ BitAt(4, s) \in {0, 1} /\ BitAt(8, s) \in {0, 1}
        /\ BitAt(128, s) \in {0, 1}
    BY <1>1 DEF Powers
  <1> QED
    BY <1>2, DoubledIs DEF On, Differ

\* x^8 is x^4 + x^3 + x + 1.
LEMMA EighthDoubling ==
    ASSUME NEW b, NEW d, Doublings(d, b)
    PROVE  \A p \in Powers :
             On(p, d[8]) <=> Differ(Differ(On(p, d[0]), On(p, d[1])),
                                    Differ(On(p, d[3]), On(p, d[4])))
  <1>1. \A k \in 1..8 :
          /\ On(1, d[k]) <=> On(128, d[k - 1])
          /\ On(2, d[k]) <=> Differ(On(1, d[k - 1]), On(128, d[k - 1]))
          /\ On(4, d[k]) <=> On(2, d[k - 1])
          /\ On(8, d[k]) <=> Differ(On(4, d[k - 1]), On(128, d[k - 1]))
          /\ On(16, d[k]) <=> Differ(On(8, d[k - 1]), On(128, d[k - 1]))
          /\ On(32, d[k]) <=> On(16, d[k - 1])
          /\ On(64, d[k]) <=> On(32, d[k - 1])
          /\ On(128, d[k]) <=> On(64, d[k - 1])
    <2> SUFFICES ASSUME NEW k \in 1..8
                 PROVE  LET s == d[k - 1]
                        IN  /\ d[k] = GFMul2(s) /\ s \in Byte
      BY OnDoubled
    <2> QED
      BY DEF Doublings
  <1> DEFINE o(p, k) == On(p, d[k])
  <1>2. ASSUME NEW k \in 0..7
        PROVE  /\ o(1, k + 1) <=> o(128, k)
               /\ o(2, k + 1) <=> Differ(o(1, k), o(128, k))
               /\ o(4, k + 1) <=> o(2, k)
               /\ o(8, k + 1) <=> Differ(o(4, k), o(128, k))
               /\ o(16, k + 1) <=> Differ(o(8, k), o(128, k))
               /\ o(32, k + 1) <=> o(16, k)
               /\ o(64, k + 1) <=> o(32, k)
               /\ o(128, k + 1) <=> o(64, k)
    <2>1. k + 1 \in 1..8 /\ (k + 1) - 1 = k
      OBVIOUS
    <2> QED
      BY <1>1, <2>1
  <1> QED
    BY <1>2 DEF Differ, Powers

\* What a bit of the first factor adds to a sum.
Added(p, a, s, x) == IF On(p, a) THEN Xor[s][x] ELSE s

\* Adding keeps to the bytes, and turns the bits that the added byte has.
LEMMA AddedIs ==
    ASSUME NEW a \in Byte, NEW s \in Byte, NEW x \in Byte, NEW q \in Powers
    PROVE  /\ Added(q, a, s, x) \in Byte
           /\ \A p \in Powers :
                On(p, Added(q, a, s, x)) <=> Differ(On(p, s), On(q, a) /\ On(p, x))
  BY OnSum DEF Added, Differ

\* A product is the sum of the doublings of one factor at the bits of the other.
LEMMA ProductSums ==
    ASSUME NEW a \in Byte, NEW b \in Byte, NEW d, Doublings(d, b)
    PROVE  Product(a, b) =
             Added(128, a, Added(64, a, Added(32, a, Added(16, a,
               Added(8, a, Added(4, a, Added(2, a, Added(1, a, 0, d[0]),
                 d[1]), d[2]), d[3]), d[4]), d[5]), d[6]), d[7])
  <1> DEFINE Doubles(f) ==
               f = [k \in 0..7 |-> IF k = 0 THEN b
                                   ELSE IF f[k - 1] >= 128 THEN Xor[(2 * f[k - 1]) % 256][27]
                                        ELSE 2 * f[k - 1]]
             doubled == CHOOSE f : Doubles(f)
             Sums(g) ==
               g = [k \in 0..8 |-> IF k = 0 THEN 0
                                   ELSE IF (a \div 2^(k - 1)) % 2 = 1
                                        THEN Xor[g[k - 1]][doubled[k - 1]]
                                        ELSE g[k - 1]]
             sum == CHOOSE g : Sums(g)
  <1>1. Product(a, b) = sum[8]
    BY DEF Product
  <1>2. \A s \in Byte : GFMul2(s) = IF s >= 128 THEN Xor[(2 * s) % 256][27] ELSE 2 * s
    BY DEF GFMul2, Byte
  <1>3. Doubles([k \in 0..7 |-> d[k]])
    <2> DEFINE f == [k \in 0..7 |-> d[k]]
    <2>1. ASSUME NEW k \in 0..7, k # 0
          PROVE  d[k] = IF f[k - 1] >= 128 THEN Xor[(2 * f[k - 1]) % 256][27] ELSE 2 * f[k - 1]
      <3>1. k \in 1..8 /\ k - 1 \in 0..7 /\ k - 1 \in 0..8
        BY <2>1
      <3>2. f[k - 1] = d[k - 1] /\ d[k] = GFMul2(d[k - 1]) /\ d[k - 1] \in Byte
        BY <3>1 DEF Doublings
      <3> HIDE DEF f
      <3> QED
        BY <1>2, <3>2
    <2>2. d[0] = b
      BY DEF Doublings
    <2> QED
      BY <2>1, <2>2
  <1>4. Doubles(doubled)
    BY <1>3
  <1>5. \A k \in 0..7 : doubled[k] = d[k]
    <2> HIDE DEF doubled
    <2>1. doubled[0] = d[0]
      BY <1>4 DEF Doublings
    <2>2. ASSUME NEW k \in 1..7, doubled[k - 1] = d[k - 1] PROVE doubled[k] = d[k]
      <3>1. k \in 0..7 /\ k # 0 /\ k - 1 \in 0..8 /\ k \in 1..8
        OBVIOUS
      <3>2. d[k] = GFMul2(d[k - 1]) /\ d[k - 1] \in Byte
        BY <3>1 DEF Doublings
      <3>3. doubled[k] = IF doubled[k - 1] >= 128 THEN Xor[(2 * doubled[k - 1]) % 256][27]
                         ELSE 2 * doubled[k - 1]
        BY <1>4, <3>1
      <3> QED
        BY <1>2, <2>2, <3>2, <3>3
    <2>3. \A k \in 1..7 : doubled[k - 1] = d[k - 1] => doubled[k] = d[k]
      BY <2>2
    <2>4. doubled[1] = d[1]
      BY <2>1, <2>3
    <2>5. doubled[2] = d[2]
      BY <2>3, <2>4
    <2>6. doubled[3] = d[3]
      BY <2>3, <2>5
    <2>7. doubled[4] = d[4]
      BY <2>3, <2>6
    <2>8. doubled[5] = d[5]
      BY <2>3, <2>7
    <2>9. doubled[6] = d[6]
      BY <2>3, <2>8
    <2>10. doubled[7] = d[7]
      BY <2>3, <2>9
    <2> QED
      BY <2>1, <2>4, <2>5, <2>6, <2>7, <2>8, <2>9, <2>10
  <1> HIDE DEF doubled
  <1>6. \E g : Sums(g)
    <2> DEFINE part(k, s) == IF (a \div 2^k) % 2 = 1 THEN Xor[s][doubled[k]] ELSE s
               s1 == part(0, 0)
               s2 == part(1, s1)
               s3 == part(2, s2)
               s4 == part(3, s3)
               s5 == part(4, s4)
               s6 == part(5, s5)
               s7 == part(6, s6)
               s8 == part(7, s7)
               t == <<0, s1, s2, s3, s4, s5, s6, s7, s8>>
               g == [k \in 0..8 |-> t[k + 1]]
    <2>1. \A k \in 0..8 : t[k + 1] = IF k = 0 THEN 0 ELSE part(k - 1, t[k])
      <3> HIDE DEF part
      <3>1. s1 = part(0, 0) /\ s2 = part(1, s1) /\ s3 = part(2, s2) /\ s4 = part(3, s3)
            /\ s5 = part(4, s4) /\ s6 = part(5, s5) /\ s7 = part(6, s6) /\ s8 = part(7, s7)
        OBVIOUS
      <3> HIDE DEF s1, s2, s3, s4, s5, s6, s7, s8
      <3> QED
        BY <3>1
    <2> HIDE DEF t
    <2>2. \A k \in 0..8 : k # 0 => g[k - 1] = t[k]
      OBVIOUS
    <2>3. g = [k \in 0..8 |-> IF k = 0 THEN 0 ELSE part(k - 1, g[k - 1])]
      <3> HIDE DEF part
      <3> QED
        BY <2>1, <2>2
    <2>4. Sums(g)
      <3> HIDE DEF g
      <3> QED
        BY <2>3
    <2> QED
      BY <2>4
  <1>7. Sums(sum)
    BY <1>6
  <1> HIDE DEF sum
  <1>8. /\ sum[0] = 0
        /\ \A k \in 1..8 : sum[k] = IF (a \div 2^(k - 1)) % 2 = 1
                                    THEN Xor[sum[k - 1]][doubled[k - 1]] ELSE sum[k - 1]
    BY <1>7
  <1>9. /\ 2^0 = 1 /\ 2^1 = 2 /\ 2^2 = 4 /\ 2^3 = 8 /\ 2^4 = 16 /\ 2^5 = 32
        /\ 2^6 = 64 /\ 2^7 = 128
    OBVIOUS
  <1>10. /\ sum[1] = Added(1, a, 0, d[0])
         /\ sum[2] = Added(2, a, sum[1], d[1])
         /\ sum[3] = Added(4, a, sum[2], d[2])
         /\ sum[4] = Added(8, a, sum[3], d[3])
         /\ sum[5] = Added(16, a, sum[4], d[4])
         /\ sum[6] = Added(32, a, sum[5], d[5])
         /\ sum[7] = Added(64, a, sum[6], d[6])
         /\ sum[8] = Added(128, a, sum[7], d[7])
    BY <1>5, <1>8, <1>9 DEF Added, On, BitAt
  <1> QED
    BY <1>1, <1>10

\* A bit of a product holds if an odd number of the doublings have it.
LEMMA OnProduct ==
    ASSUME NEW a \in Byte, NEW b \in Byte, NEW d, Doublings(d, b)
    PROVE  /\ Product(a, b) \in Byte
           /\ \A p \in Powers :
                On(p, Product(a, b)) <=>
                  Odd(On(1, a) /\ On(p, d[0]), On(2, a) /\ On(p, d[1]),
                      On(4, a) /\ On(p, d[2]), On(8, a) /\ On(p, d[3]),
                      On(16, a) /\ On(p, d[4]), On(32, a) /\ On(p, d[5]),
                      On(64, a) /\ On(p, d[6]), On(128, a) /\ On(p, d[7]))
  <1>1. PICK x0, x1, x2, x3, x4, x5, x6, x7 :
           /\ x0 = d[0] /\ x1 = d[1] /\ x2 = d[2] /\ x3 = d[3]
           /\ x4 = d[4] /\ x5 = d[5] /\ x6 = d[6] /\ x7 = d[7]
    OBVIOUS
  <1>2. /\ x0 \in Byte /\ x1 \in Byte /\ x2 \in Byte /\ x3 \in Byte
         /\ x4 \in Byte /\ x5 \in Byte /\ x6 \in Byte /\ x7 \in Byte
    BY <1>1 DEF Doublings
  <1>3. PICK s1, s2, s3, s4, s5, s6, s7, s8 :
           /\ s1 = Added(1, a, 0, x0) /\ s2 = Added(2, a, s1, x1) /\ s3 = Added(4, a, s2, x2)
           /\ s4 = Added(8, a, s3, x3) /\ s5 = Added(16, a, s4, x4)
           /\ s6 = Added(32, a, s5, x5) /\ s7 = Added(64, a, s6, x6)
           /\ s8 = Added(128, a, s7, x7)
    OBVIOUS
  <1>4. Product(a, b) = s8
    BY <1>1, <1>3, ProductSums
  <1>5. 0 \in Byte /\ \A p \in Powers : ~On(p, 0)
    BY DEF Byte, Powers, On, BitAt
  <1>6. /\ 1 \in Powers /\ 2 \in Powers /\ 4 \in Powers /\ 8 \in Powers
        /\ 16 \in Powers /\ 32 \in Powers /\ 64 \in Powers /\ 128 \in Powers
    BY DEF Powers
  <1>7. s1 \in Byte /\ \A p \in Powers : On(p, s1) <=> On(1, a) /\ On(p, x0)
    <2>1. 0 \in Byte /\ 1 \in Powers /\ x0 \in Byte
      BY <1>2, <1>5, <1>6
    <2>2. /\ s1 = Added(1, a, 0, x0)
          /\ s1 \in Byte
          /\ \A p \in Powers : On(p, s1) <=> Differ(On(p, 0), On(1, a) /\ On(p, x0))
      BY <2>1, <1>3, AddedIs
    <2> QED
      BY <1>5, <2>2 DEF Differ
  <1>8. s2 \in Byte /\ \A p \in Powers : On(p, s2) <=> Differ(On(p, s1), On(2, a) /\ On(p, x1))
    <2>1. s1 \in Byte /\ x1 \in Byte
      BY <1>2, <1>7
    <2>2. CASE On(2, a)
      <3>1. s2 = Xor[s1][x1]
        BY <1>3, <2>2 DEF Added
      <3> QED
        BY <2>1, <2>2, <3>1, OnSum DEF Differ
    <2>3. CASE ~On(2, a)
      BY <1>3, <2>1, <2>3 DEF Added, Differ
    <2> QED
      BY <2>2, <2>3
  <1>9. s3 \in Byte /\ \A p \in Powers : On(p, s3) <=> Differ(On(p, s2), On(4, a) /\ On(p, x2))
    <2>1. s2 \in Byte /\ x2 \in Byte
      BY <1>2, <1>8
    <2>2. CASE On(4, a)
      <3>1. s3 = Xor[s2][x2]
        BY <1>3, <2>2 DEF Added
      <3> QED
        BY <2>1, <2>2, <3>1, OnSum DEF Differ
    <2>3. CASE ~On(4, a)
      BY <1>3, <2>1, <2>3 DEF Added, Differ
    <2> QED
      BY <2>2, <2>3
  <1>10. s4 \in Byte /\ \A p \in Powers : On(p, s4) <=> Differ(On(p, s3), On(8, a) /\ On(p, x3))
    <2>1. s3 \in Byte /\ x3 \in Byte
      BY <1>2, <1>9
    <2>2. CASE On(8, a)
      <3>1. s4 = Xor[s3][x3]
        BY <1>3, <2>2 DEF Added
      <3> QED
        BY <2>1, <2>2, <3>1, OnSum DEF Differ
    <2>3. CASE ~On(8, a)
      BY <1>3, <2>1, <2>3 DEF Added, Differ
    <2> QED
      BY <2>2, <2>3
  <1>11. s5 \in Byte /\ \A p \in Powers : On(p, s5) <=> Differ(On(p, s4), On(16, a) /\ On(p, x4))
    <2>1. s4 \in Byte /\ x4 \in Byte
      BY <1>2, <1>10
    <2>2. CASE On(16, a)
      <3>1. s5 = Xor[s4][x4]
        BY <1>3, <2>2 DEF Added
      <3> QED
        BY <2>1, <2>2, <3>1, OnSum DEF Differ
    <2>3. CASE ~On(16, a)
      BY <1>3, <2>1, <2>3 DEF Added, Differ
    <2> QED
      BY <2>2, <2>3
  <1>12. s6 \in Byte /\ \A p \in Powers : On(p, s6) <=> Differ(On(p, s5), On(32, a) /\ On(p, x5))
    <2>1. s5 \in Byte /\ x5 \in Byte
      BY <1>2, <1>11
    <2>2. CASE On(32, a)
      <3>1. s6 = Xor[s5][x5]
        BY <1>3, <2>2 DEF Added
      <3> QED
        BY <2>1, <2>2, <3>1, OnSum DEF Differ
    <2>3. CASE ~On(32, a)
      BY <1>3, <2>1, <2>3 DEF Added, Differ
    <2> QED
      BY <2>2, <2>3
  <1>13. s7 \in Byte /\ \A p \in Powers : On(p, s7) <=> Differ(On(p, s6), On(64, a) /\ On(p, x6))
    <2>1. s6 \in Byte /\ x6 \in Byte
      BY <1>2, <1>12
    <2>2. CASE On(64, a)
      <3>1. s7 = Xor[s6][x6]
        BY <1>3, <2>2 DEF Added
      <3> QED
        BY <2>1, <2>2, <3>1, OnSum DEF Differ
    <2>3. CASE ~On(64, a)
      BY <1>3, <2>1, <2>3 DEF Added, Differ
    <2> QED
      BY <2>2, <2>3
  <1>14. s8 \in Byte /\ \A p \in Powers : On(p, s8) <=> Differ(On(p, s7), On(128, a) /\ On(p, x7))
    <2>1. s7 \in Byte /\ x7 \in Byte
      BY <1>2, <1>13
    <2>2. CASE On(128, a)
      <3>1. s8 = Xor[s7][x7]
        BY <1>3, <2>2 DEF Added
      <3> QED
        BY <2>1, <2>2, <3>1, OnSum DEF Differ
    <2>3. CASE ~On(128, a)
      BY <1>3, <2>1, <2>3 DEF Added, Differ
    <2> QED
      BY <2>2, <2>3
  <1>15. Product(a, b) \in Byte /\ \A p \in Powers :
           On(p, Product(a, b)) <=>
                  Odd(On(1, a) /\ On(p, x0), On(2, a) /\ On(p, x1),
                      On(4, a) /\ On(p, x2), On(8, a) /\ On(p, x3),
                      On(16, a) /\ On(p, x4), On(32, a) /\ On(p, x5),
                      On(64, a) /\ On(p, x6), On(128, a) /\ On(p, x7))
    BY <1>4, <1>7, <1>8, <1>9, <1>10, <1>11, <1>12, <1>13, <1>14 DEF Odd, Differ
  <1> QED
    BY <1>1, <1>15

\* Bytes with the same bits on are equal.
LEMMA SameOn ==
    ASSUME NEW a \in Byte, NEW b \in Byte, \A p \in Powers : On(p, a) <=> On(p, b)
    PROVE  a = b
  <1>1. \A p \in Powers : BitAt(p, a) \in {0, 1} /\ BitAt(p, b) \in {0, 1}
    BY ByteIsBits
  <1>2. \A p \in Powers : BitAt(p, a) = BitAt(p, b)
    BY <1>1 DEF On
  <1> QED
    BY <1>2, SameBits

\* Three times a byte, in the field.
Three(x) == Xor[GFMul2(x)][x]

\* Three times one factor is three times the other.
LEMMA ThreeMoves ==
    ASSUME NEW x \in Byte, NEW y \in Byte
    PROVE  Product(Three(x), y) = Product(x, Three(y))
  <1>1. PICK d : Doublings(d, y)
    BY DoublingsExist
  <1>2. PICK e : Doublings(e, Three(y))
    <2>1. Three(y) \in Byte
      BY DoubledIs, XorIs DEF Three
    <2> QED
      BY <2>1, DoublingsExist
  <1>3. \A k \in 0..8 : d[k] \in Byte /\ e[k] \in Byte
    BY <1>1, <1>2 DEF Doublings
  <1>4. \A k \in 0..7 : e[k] = Xor[d[k + 1]][d[k]]
    <2>1. e[0] = Xor[d[1]][d[0]]
      BY <1>1, <1>2 DEF Doublings, Three
    <2>2. ASSUME NEW k \in 0..6, e[k] = Xor[d[k + 1]][d[k]]
          PROVE  e[k + 1] = Xor[d[k + 2]][d[k + 1]]
      <3>1. k + 1 \in 1..8 /\ k + 2 \in 1..8 /\ (k + 1) - 1 = k /\ (k + 2) - 1 = k + 1
        OBVIOUS
      <3>2. e[k + 1] = GFMul2(e[k]) /\ d[k + 2] = GFMul2(d[k + 1]) /\ d[k + 1] = GFMul2(d[k])
        BY <1>1, <1>2, <3>1 DEF Doublings
      <3>3. d[k + 1] \in Byte /\ d[k] \in Byte
        BY <1>3
      <3> QED
        BY <2>2, <3>2, <3>3, DoubledSum
    <2>3. \A k \in 0..6 : e[k] = Xor[d[k + 1]][d[k]] => e[k + 1] = Xor[d[k + 2]][d[k + 1]]
      BY <2>2
    <2>4. e[1] = Xor[d[2]][d[1]]
      BY <2>1, <2>3
    <2>5. e[2] = Xor[d[3]][d[2]]
      BY <2>3, <2>4
    <2>6. e[3] = Xor[d[4]][d[3]]
      BY <2>3, <2>5
    <2>7. e[4] = Xor[d[5]][d[4]]
      BY <2>3, <2>6
    <2>8. e[5] = Xor[d[6]][d[5]]
      BY <2>3, <2>7
    <2>9. e[6] = Xor[d[7]][d[6]]
      BY <2>3, <2>8
    <2>10. e[7] = Xor[d[8]][d[7]]
      BY <2>3, <2>9
    <2> QED
      BY <2>1, <2>4, <2>5, <2>6, <2>7, <2>8, <2>9, <2>10
  <1>5. /\ Three(x) \in Byte /\ Three(y) \in Byte
        /\ \A p \in Powers : On(p, Three(x)) <=> Differ(On(p, GFMul2(x)), On(p, x))
    BY DoubledIs, OnSum DEF Three
  <1>6. /\ On(1, Three(x)) <=> Differ(On(128, x), On(1, x))
        /\ On(2, Three(x)) <=> Differ(Differ(On(1, x), On(128, x)), On(2, x))
        /\ On(4, Three(x)) <=> Differ(On(2, x), On(4, x))
        /\ On(8, Three(x)) <=> Differ(Differ(On(4, x), On(128, x)), On(8, x))
        /\ On(16, Three(x)) <=> Differ(Differ(On(8, x), On(128, x)), On(16, x))
        /\ On(32, Three(x)) <=> Differ(On(16, x), On(32, x))
        /\ On(64, Three(x)) <=> Differ(On(32, x), On(64, x))
        /\ On(128, Three(x)) <=> Differ(On(64, x), On(128, x))
    BY <1>5, OnDoubled DEF Powers, Differ
  <1>7. ASSUME NEW p \in Powers
        PROVE  On(p, Product(Three(x), y)) <=> On(p, Product(x, Three(y)))
    <2>1. \A k \in 0..7 : On(p, e[k]) <=> Differ(On(p, d[k + 1]), On(p, d[k]))
      <3> SUFFICES ASSUME NEW k \in 0..7
                   PROVE  On(p, e[k]) <=> Differ(On(p, d[k + 1]), On(p, d[k]))
        OBVIOUS
      <3>1. d[k + 1] \in Byte /\ d[k] \in Byte
        BY <1>3
      <3> QED
        BY <1>4, <3>1, OnSum
    <2>2. /\ On(p, e[0]) <=> Differ(On(p, d[1]), On(p, d[0]))
          /\ On(p, e[1]) <=> Differ(On(p, d[2]), On(p, d[1]))
          /\ On(p, e[2]) <=> Differ(On(p, d[3]), On(p, d[2]))
          /\ On(p, e[3]) <=> Differ(On(p, d[4]), On(p, d[3]))
          /\ On(p, e[4]) <=> Differ(On(p, d[5]), On(p, d[4]))
          /\ On(p, e[5]) <=> Differ(On(p, d[6]), On(p, d[5]))
          /\ On(p, e[6]) <=> Differ(On(p, d[7]), On(p, d[6]))
          /\ On(p, e[7]) <=> Differ(On(p, d[8]), On(p, d[7]))
      BY <2>1
    <2>3. On(p, d[8]) <=> Differ(Differ(On(p, d[0]), On(p, d[1])), Differ(On(p, d[3]), On(p, d[4])))
      BY <1>1, EighthDoubling
    <2>4. On(p, Product(Three(x), y)) <=>
            Odd(On(1, Three(x)) /\ On(p, d[0]), On(2, Three(x)) /\ On(p, d[1]),
                On(4, Three(x)) /\ On(p, d[2]), On(8, Three(x)) /\ On(p, d[3]),
                On(16, Three(x)) /\ On(p, d[4]), On(32, Three(x)) /\ On(p, d[5]),
                On(64, Three(x)) /\ On(p, d[6]), On(128, Three(x)) /\ On(p, d[7]))
      BY <1>1, <1>5, OnProduct
    <2>5. On(p, Product(x, Three(y))) <=>
            Odd(On(1, x) /\ On(p, e[0]), On(2, x) /\ On(p, e[1]),
                On(4, x) /\ On(p, e[2]), On(8, x) /\ On(p, e[3]),
                On(16, x) /\ On(p, e[4]), On(32, x) /\ On(p, e[5]),
                On(64, x) /\ On(p, e[6]), On(128, x) /\ On(p, e[7]))
      BY <1>2, <1>5, OnProduct
    <2> QED
      BY <1>6, <2>2, <2>3, <2>4, <2>5 DEF Odd, Differ
  <1>8. Product(Three(x), y) \in Byte /\ Product(x, Three(y)) \in Byte
    BY <1>1, <1>2, <1>5, OnProduct
  <1> QED
    BY <1>7, <1>8, SameOn

\* Nothing is added by zero.
LEMMA XorZero == \A x \in Byte : Xor[0][x] = x /\ Xor[x][0] = x
  <1>1. 0 \in Byte /\ \A p \in Powers : ~On(p, 0)
    BY DEF Byte, Powers, On, BitAt
  <1> SUFFICES ASSUME NEW x \in Byte PROVE Xor[0][x] = x /\ Xor[x][0] = x
    OBVIOUS
  <1>2. /\ Xor[0][x] \in Byte /\ Xor[x][0] \in Byte
        /\ \A p \in Powers : On(p, Xor[0][x]) <=> On(p, x)
        /\ \A p \in Powers : On(p, Xor[x][0]) <=> On(p, x)
    BY <1>1, OnSum DEF Differ
  <1> QED
    BY <1>2, SameOn

\* The constants of the matrices are multiplied by as the field multiplies.
LEMMA FactorsMultiply == \A n \in Factors, s \in Byte : GFMul[n][s] = Product(n, s)
  <1> SUFFICES ASSUME NEW n \in Factors, NEW s \in Byte PROVE GFMul[n][s] = Product(n, s)
    OBVIOUS
  <1>1. PICK d : Doublings(d, s)
    BY DoublingsExist
  <1>2. PICK x0, x1, x2, x3 : x0 = d[0] /\ x1 = d[1] /\ x2 = d[2] /\ x3 = d[3]
    OBVIOUS
  <1>3. /\ x0 = s /\ x1 = GFMul2(s) /\ x2 = Doubled(s) /\ x3 = Tripled(s)
        /\ x0 \in Byte /\ x1 \in Byte /\ x2 \in Byte /\ x3 \in Byte
    BY <1>1, <1>2 DEF Doublings, Doubled, Tripled
  <1>4. n \in Byte /\ GFMul[n][s] \in Byte /\ Product(n, s) \in Byte
    <2>1. n \in Byte
      BY DEF Factors, Byte
    <2>2. GFMul[n][s] \in Byte
      BY ProductType
    <2> QED
      BY <1>1, <2>1, <2>2, OnProduct
  <1>5. /\ GFMul[1][s] = x0 /\ GFMul[2][s] = x1 /\ GFMul[3][s] = Xor[x1][x0]
        /\ GFMul[9][s] = Xor[x3][x0] /\ GFMul[11][s] = Xor[Xor[x3][x0]][x1]
        /\ GFMul[13][s] = Xor[Xor[x3][x2]][x0] /\ GFMul[14][s] = Xor[Xor[x3][x2]][x1]
    BY <1>3, ProductIs
  <1>6. Xor[x1][x0] \in Byte /\ Xor[x3][x0] \in Byte /\ Xor[x3][x2] \in Byte
    BY <1>3, XorIs
  <1>7. ASSUME NEW p \in Powers PROVE On(p, GFMul[n][s]) <=> On(p, Product(n, s))
    <2>1. On(p, Product(n, s)) <=>
            Odd(On(1, n) /\ On(p, x0), On(2, n) /\ On(p, x1), On(4, n) /\ On(p, x2),
                On(8, n) /\ On(p, x3), On(16, n) /\ On(p, d[4]), On(32, n) /\ On(p, d[5]),
                On(64, n) /\ On(p, d[6]), On(128, n) /\ On(p, d[7]))
      BY <1>1, <1>2, <1>4, OnProduct
    <2>2. /\ On(p, Xor[x1][x0]) <=> Differ(On(p, x1), On(p, x0))
          /\ On(p, Xor[x3][x0]) <=> Differ(On(p, x3), On(p, x0))
          /\ On(p, Xor[x3][x2]) <=> Differ(On(p, x3), On(p, x2))
      BY <1>3, OnSum
    <2>3. /\ On(p, Xor[Xor[x3][x0]][x1]) <=> Differ(On(p, Xor[x3][x0]), On(p, x1))
          /\ On(p, Xor[Xor[x3][x2]][x0]) <=> Differ(On(p, Xor[x3][x2]), On(p, x0))
          /\ On(p, Xor[Xor[x3][x2]][x1]) <=> Differ(On(p, Xor[x3][x2]), On(p, x1))
      BY <1>3, <1>6, OnSum
    <2>4. /\ On(1, n) <=> n \in {1, 3, 9, 11, 13}
          /\ On(2, n) <=> n \in {2, 3, 11, 14}
          /\ On(4, n) <=> n \in {13, 14}
          /\ On(8, n) <=> n \in {9, 11, 13, 14}
          /\ ~On(16, n) /\ ~On(32, n) /\ ~On(64, n) /\ ~On(128, n)
      BY DEF Factors, On, BitAt
    <2>5. On(p, Product(n, s)) <=>
            Differ(Differ(n \in {1, 3, 9, 11, 13} /\ On(p, x0), n \in {2, 3, 11, 14} /\ On(p, x1)),
                   Differ(n \in {13, 14} /\ On(p, x2), n \in {9, 11, 13, 14} /\ On(p, x3)))
      BY <2>1, <2>4 DEF Odd, Differ
    <2>6. CASE n = 1
      BY <1>5, <2>2, <2>3, <2>5, <2>6 DEF Differ
    <2>7. CASE n = 2
      BY <1>5, <2>2, <2>3, <2>5, <2>7 DEF Differ
    <2>8. CASE n = 3
      BY <1>5, <2>2, <2>3, <2>5, <2>8 DEF Differ
    <2>9. CASE n = 9
      BY <1>5, <2>2, <2>3, <2>5, <2>9 DEF Differ
    <2>10. CASE n = 11
      BY <1>5, <2>2, <2>3, <2>5, <2>10 DEF Differ
    <2>11. CASE n = 13
      BY <1>5, <2>2, <2>3, <2>5, <2>11 DEF Differ
    <2>12. CASE n = 14
      BY <1>5, <2>2, <2>3, <2>5, <2>12 DEF Differ
    <2> QED
      BY <2>6, <2>7, <2>8, <2>9, <2>10, <2>11, <2>12 DEF Factors
  <1> QED
    BY <1>4, <1>7, SameOn

\* The powers of 3 in the field, from 3^0 to 3^255.
PowerOf3 ==
    <<    1,   3,   5,  15,  17,  51,  85, 255,  26,  46, 114, 150, 161, 248,  19,  53,
         95, 225,  56,  72, 216, 115, 149, 164, 247,   2,   6,  10,  30,  34, 102, 170,
        229,  52,  92, 228,  55,  89, 235,  38, 106, 190, 217, 112, 144, 171, 230,  49,
         83, 245,   4,  12,  20,  60,  68, 204,  79, 209, 104, 184, 211, 110, 178, 205,
         76, 212, 103, 169, 224,  59,  77, 215,  98, 166, 241,   8,  24,  40, 120, 136,
        131, 158, 185, 208, 107, 189, 220, 127, 129, 152, 179, 206,  73, 219, 118, 154,
        181, 196,  87, 249,  16,  48,  80, 240,  11,  29,  39, 105, 187, 214,  97, 163,
        254,  25,  43, 125, 135, 146, 173, 236,  47, 113, 147, 174, 233,  32,  96, 160,
        251,  22,  58,  78, 210, 109, 183, 194,  93, 231,  50,  86, 250,  21,  63,  65,
        195,  94, 226,  61,  71, 201,  64, 192,  91, 237,  44, 116, 156, 191, 218, 117,
        159, 186, 213, 100, 172, 239,  42, 126, 130, 157, 188, 223, 122, 142, 137, 128,
        155, 182, 193,  88, 232,  35, 101, 175, 234,  37, 111, 177, 200,  67, 197,  84,
        252,  31,  33,  99, 165, 244,   7,   9,  27,  45, 119, 153, 176, 203,  70, 202,
         69, 207,  74, 222, 121, 139, 134, 145, 168, 227,  62,  66, 198,  81, 243,  14,
         18,  54,  90, 238,  41, 123, 141, 140, 143, 138, 133, 148, 167, 242,  13,  23,
         57,  75, 221, 124, 132, 151, 162, 253,  28,  36, 108, 180, 199,  82, 246,   1 >>

\* The exponent of a byte from 1 to 255.
LogOf ==
    <<    0,  25,   1,  50,   2,  26, 198,  75, 199,  27, 104,  51, 238, 223,   3, 100,
          4, 224,  14,  52, 141, 129, 239,  76, 113,   8, 200, 248, 105,  28, 193, 125,
        194,  29, 181, 249, 185,  39, 106,  77, 228, 166, 114, 154, 201,   9, 120, 101,
         47, 138,   5,  33,  15, 225,  36,  18, 240, 130,  69,  53, 147, 218, 142, 150,
        143, 219, 189,  54, 208, 206, 148,  19,  92, 210, 241,  64,  70, 131,  56, 102,
        221, 253,  48, 191,   6, 139,  98, 179,  37, 226, 152,  34, 136, 145,  16, 126,
        110,  72, 195, 163, 182,  30,  66,  58, 107,  40,  84, 250, 133,  61, 186,  43,
        121,  10,  21, 155, 159,  94, 202,  78, 212, 172, 229, 243, 115, 167,  87, 175,
         88, 168,  80, 244, 234, 214, 116,  79, 174, 233, 213, 231, 230, 173, 232,  44,
        215, 117, 122, 235,  22,  11, 245,  89, 203,  95, 176, 156, 169,  81, 160, 127,
         12, 246, 111,  23, 196,  73, 236, 216,  67,  31,  45, 164, 118, 123, 183, 204,
        187,  62,  90, 251,  96, 177, 134,  59,  82, 161, 108, 170,  85,  41, 157, 151,
        178, 135, 144,  97, 190, 220, 252, 188, 149, 207, 205,  55,  63,  91, 209,  83,
         57, 132,  60,  65, 162, 109,  71,  20,  42, 158,  93,  86, 242, 211, 171,  68,
         17, 146, 217,  35,  32,  46, 137, 180, 124, 184,  38, 119, 153, 227, 165, 103,
         74, 237, 222, 197,  49, 254,  24,  13,  99, 140, 128, 192, 247, 112,   7 >>

\* 3^k.
Power(k) == PowerOf3[k + 1]

\* Every byte but zero is a power of 3.
LEMMA PowersOfThree ==
    /\ \A k \in 0..255 : Power(k) \in 1..255
    /\ \A b \in 1..255 : LogOf[b] \in 0..254 /\ Power(LogOf[b]) = b
  <1>1. \A k \in 0..255 : Power(k) \in 1..255
    BY SMTT(60) DEF PowerOf3, Power
  <1>2. \A b \in 1..255 : LogOf[b] \in 0..254 /\ Power(LogOf[b]) = b
    BY SMTT(60) DEF LogOf, PowerOf3, Power
  <1> QED
    BY <1>1, <1>2

\* Each power is three times the one before.
LEMMA NextPower == \A k \in 0..254 : Three(Power(k)) = Power(k + 1)
  <1>1. /\ Three(1) = 3 /\ Three(3) = 5 /\ Three(5) = 15 /\ Three(15) = 17
        /\ Three(17) = 51 /\ Three(51) = 85 /\ Three(85) = 255 /\ Three(255) = 26
        /\ Three(26) = 46 /\ Three(46) = 114 /\ Three(114) = 150 /\ Three(150) = 161
        /\ Three(161) = 248 /\ Three(248) = 19 /\ Three(19) = 53 /\ Three(53) = 95
    BY SMTT(60) DEF Three, GFMul2, Xor, Byte
  <1>2. /\ Three(95) = 225 /\ Three(225) = 56 /\ Three(56) = 72 /\ Three(72) = 216
        /\ Three(216) = 115 /\ Three(115) = 149 /\ Three(149) = 164 /\ Three(164) = 247
        /\ Three(247) = 2 /\ Three(2) = 6 /\ Three(6) = 10 /\ Three(10) = 30
        /\ Three(30) = 34 /\ Three(34) = 102 /\ Three(102) = 170 /\ Three(170) = 229
    BY SMTT(60) DEF Three, GFMul2, Xor, Byte
  <1>3. /\ Three(229) = 52 /\ Three(52) = 92 /\ Three(92) = 228 /\ Three(228) = 55
        /\ Three(55) = 89 /\ Three(89) = 235 /\ Three(235) = 38 /\ Three(38) = 106
        /\ Three(106) = 190 /\ Three(190) = 217 /\ Three(217) = 112 /\ Three(112) = 144
        /\ Three(144) = 171 /\ Three(171) = 230 /\ Three(230) = 49 /\ Three(49) = 83
    BY SMTT(60) DEF Three, GFMul2, Xor, Byte
  <1>4. /\ Three(83) = 245 /\ Three(245) = 4 /\ Three(4) = 12 /\ Three(12) = 20
        /\ Three(20) = 60 /\ Three(60) = 68 /\ Three(68) = 204 /\ Three(204) = 79
        /\ Three(79) = 209 /\ Three(209) = 104 /\ Three(104) = 184 /\ Three(184) = 211
        /\ Three(211) = 110 /\ Three(110) = 178 /\ Three(178) = 205 /\ Three(205) = 76
    BY SMTT(60) DEF Three, GFMul2, Xor, Byte
  <1>5. /\ Three(76) = 212 /\ Three(212) = 103 /\ Three(103) = 169 /\ Three(169) = 224
        /\ Three(224) = 59 /\ Three(59) = 77 /\ Three(77) = 215 /\ Three(215) = 98
        /\ Three(98) = 166 /\ Three(166) = 241 /\ Three(241) = 8 /\ Three(8) = 24
        /\ Three(24) = 40 /\ Three(40) = 120 /\ Three(120) = 136 /\ Three(136) = 131
    BY SMTT(60) DEF Three, GFMul2, Xor, Byte
  <1>6. /\ Three(131) = 158 /\ Three(158) = 185 /\ Three(185) = 208 /\ Three(208) = 107
        /\ Three(107) = 189 /\ Three(189) = 220 /\ Three(220) = 127 /\ Three(127) = 129
        /\ Three(129) = 152 /\ Three(152) = 179 /\ Three(179) = 206 /\ Three(206) = 73
        /\ Three(73) = 219 /\ Three(219) = 118 /\ Three(118) = 154 /\ Three(154) = 181
    BY SMTT(60) DEF Three, GFMul2, Xor, Byte
  <1>7. /\ Three(181) = 196 /\ Three(196) = 87 /\ Three(87) = 249 /\ Three(249) = 16
        /\ Three(16) = 48 /\ Three(48) = 80 /\ Three(80) = 240 /\ Three(240) = 11
        /\ Three(11) = 29 /\ Three(29) = 39 /\ Three(39) = 105 /\ Three(105) = 187
        /\ Three(187) = 214 /\ Three(214) = 97 /\ Three(97) = 163 /\ Three(163) = 254
    BY SMTT(60) DEF Three, GFMul2, Xor, Byte
  <1>8. /\ Three(254) = 25 /\ Three(25) = 43 /\ Three(43) = 125 /\ Three(125) = 135
        /\ Three(135) = 146 /\ Three(146) = 173 /\ Three(173) = 236 /\ Three(236) = 47
        /\ Three(47) = 113 /\ Three(113) = 147 /\ Three(147) = 174 /\ Three(174) = 233
        /\ Three(233) = 32 /\ Three(32) = 96 /\ Three(96) = 160 /\ Three(160) = 251
    BY SMTT(60) DEF Three, GFMul2, Xor, Byte
  <1>9. /\ Three(251) = 22 /\ Three(22) = 58 /\ Three(58) = 78 /\ Three(78) = 210
        /\ Three(210) = 109 /\ Three(109) = 183 /\ Three(183) = 194 /\ Three(194) = 93
        /\ Three(93) = 231 /\ Three(231) = 50 /\ Three(50) = 86 /\ Three(86) = 250
        /\ Three(250) = 21 /\ Three(21) = 63 /\ Three(63) = 65 /\ Three(65) = 195
    BY SMTT(60) DEF Three, GFMul2, Xor, Byte
  <1>10. /\ Three(195) = 94 /\ Three(94) = 226 /\ Three(226) = 61 /\ Three(61) = 71
         /\ Three(71) = 201 /\ Three(201) = 64 /\ Three(64) = 192 /\ Three(192) = 91
         /\ Three(91) = 237 /\ Three(237) = 44 /\ Three(44) = 116 /\ Three(116) = 156
         /\ Three(156) = 191 /\ Three(191) = 218 /\ Three(218) = 117 /\ Three(117) = 159
    BY SMTT(60) DEF Three, GFMul2, Xor, Byte
  <1>11. /\ Three(159) = 186 /\ Three(186) = 213 /\ Three(213) = 100 /\ Three(100) = 172
         /\ Three(172) = 239 /\ Three(239) = 42 /\ Three(42) = 126 /\ Three(126) = 130
         /\ Three(130) = 157 /\ Three(157) = 188 /\ Three(188) = 223 /\ Three(223) = 122
         /\ Three(122) = 142 /\ Three(142) = 137 /\ Three(137) = 128 /\ Three(128) = 155
    BY SMTT(60) DEF Three, GFMul2, Xor, Byte
  <1>12. /\ Three(155) = 182 /\ Three(182) = 193 /\ Three(193) = 88 /\ Three(88) = 232
         /\ Three(232) = 35 /\ Three(35) = 101 /\ Three(101) = 175 /\ Three(175) = 234
         /\ Three(234) = 37 /\ Three(37) = 111 /\ Three(111) = 177 /\ Three(177) = 200
         /\ Three(200) = 67 /\ Three(67) = 197 /\ Three(197) = 84 /\ Three(84) = 252
    BY SMTT(60) DEF Three, GFMul2, Xor, Byte
  <1>13. /\ Three(252) = 31 /\ Three(31) = 33 /\ Three(33) = 99 /\ Three(99) = 165
         /\ Three(165) = 244 /\ Three(244) = 7 /\ Three(7) = 9 /\ Three(9) = 27
         /\ Three(27) = 45 /\ Three(45) = 119 /\ Three(119) = 153 /\ Three(153) = 176
         /\ Three(176) = 203 /\ Three(203) = 70 /\ Three(70) = 202 /\ Three(202) = 69
    BY SMTT(60) DEF Three, GFMul2, Xor, Byte
  <1>14. /\ Three(69) = 207 /\ Three(207) = 74 /\ Three(74) = 222 /\ Three(222) = 121
         /\ Three(121) = 139 /\ Three(139) = 134 /\ Three(134) = 145 /\ Three(145) = 168
         /\ Three(168) = 227 /\ Three(227) = 62 /\ Three(62) = 66 /\ Three(66) = 198
         /\ Three(198) = 81 /\ Three(81) = 243 /\ Three(243) = 14 /\ Three(14) = 18
    BY SMTT(60) DEF Three, GFMul2, Xor, Byte
  <1>15. /\ Three(18) = 54 /\ Three(54) = 90 /\ Three(90) = 238 /\ Three(238) = 41
         /\ Three(41) = 123 /\ Three(123) = 141 /\ Three(141) = 140 /\ Three(140) = 143
         /\ Three(143) = 138 /\ Three(138) = 133 /\ Three(133) = 148 /\ Three(148) = 167
         /\ Three(167) = 242 /\ Three(242) = 13 /\ Three(13) = 23 /\ Three(23) = 57
    BY SMTT(60) DEF Three, GFMul2, Xor, Byte
  <1>16. /\ Three(57) = 75 /\ Three(75) = 221 /\ Three(221) = 124 /\ Three(124) = 132
         /\ Three(132) = 151 /\ Three(151) = 162 /\ Three(162) = 253 /\ Three(253) = 28
         /\ Three(28) = 36 /\ Three(36) = 108 /\ Three(108) = 180 /\ Three(180) = 199
         /\ Three(199) = 82 /\ Three(82) = 246 /\ Three(246) = 1
    BY SMTT(60) DEF Three, GFMul2, Xor, Byte
  <1> QED
    BY SMTT(120), <1>1, <1>2, <1>3, <1>4, <1>5, <1>6, <1>7, <1>8, <1>9, <1>10, <1>11, <1>12, <1>13, <1>14, <1>15, <1>16 DEF PowerOf3, Power

\* The box holds the affine image of the power with the opposite exponent.
LEMMA BoxIsAffine == \A k \in 0..254 : Affine(Power(255 - k)) = getNumFromSBox(Power(k))
  <1>1. /\ Affine(1) = 124 /\ Affine(246) = 123 /\ Affine(82) = 107 /\ Affine(199) = 118
        /\ Affine(180) = 130 /\ Affine(108) = 195 /\ Affine(36) = 252 /\ Affine(28) = 22
        /\ Affine(253) = 162 /\ Affine(162) = 49 /\ Affine(151) = 64 /\ Affine(132) = 144
        /\ Affine(124) = 50 /\ Affine(221) = 65 /\ Affine(75) = 125 /\ Affine(57) = 150
    BY SMTT(60) DEF Affine, RotatedLeft, Xor, Byte
  <1>2. /\ Affine(23) = 207 /\ Affine(13) = 248 /\ Affine(242) = 7 /\ Affine(167) = 82
        /\ Affine(148) = 97 /\ Affine(133) = 143 /\ Affine(138) = 42 /\ Affine(143) = 73
        /\ Affine(140) = 104 /\ Affine(141) = 119 /\ Affine(123) = 111 /\ Affine(41) = 103
        /\ Affine(238) = 114 /\ Affine(90) = 147 /\ Affine(54) = 51 /\ Affine(18) = 172
    BY SMTT(60) DEF Affine, RotatedLeft, Xor, Byte
  <1>3. /\ Affine(14) = 217 /\ Affine(243) = 24 /\ Affine(81) = 74 /\ Affine(198) = 105
        /\ Affine(66) = 154 /\ Affine(62) = 203 /\ Affine(227) = 233 /\ Affine(168) = 247
        /\ Affine(145) = 2 /\ Affine(134) = 174 /\ Affine(139) = 53 /\ Affine(121) = 81
        /\ Affine(222) = 96 /\ Affine(74) = 98 /\ Affine(207) = 142 /\ Affine(69) = 199
    BY SMTT(60) DEF Affine, RotatedLeft, Xor, Byte
  <1>4. /\ Affine(202) = 237 /\ Affine(70) = 230 /\ Affine(203) = 242 /\ Affine(176) = 254
        /\ Affine(153) = 250 /\ Affine(119) = 235 /\ Affine(45) = 27 /\ Affine(27) = 75
        /\ Affine(9) = 132 /\ Affine(7) = 62 /\ Affine(244) = 69 /\ Affine(165) = 108
        /\ Affine(99) = 102 /\ Affine(33) = 159 /\ Affine(31) = 55 /\ Affine(252) = 189
    BY SMTT(60) DEF Affine, RotatedLeft, Xor, Byte
  <1>5. /\ Affine(84) = 41 /\ Affine(197) = 72 /\ Affine(67) = 133 /\ Affine(200) = 211
        /\ Affine(177) = 225 /\ Affine(111) = 226 /\ Affine(37) = 227 /\ Affine(234) = 14
        /\ Affine(175) = 170 /\ Affine(101) = 36 /\ Affine(35) = 161 /\ Affine(232) = 48
        /\ Affine(88) = 173 /\ Affine(193) = 52 /\ Affine(182) = 188 /\ Affine(155) = 196
    BY SMTT(60) DEF Affine, RotatedLeft, Xor, Byte
  <1>6. /\ Affine(128) = 236 /\ Affine(137) = 11 /\ Affine(142) = 86 /\ Affine(122) = 112
        /\ Affine(223) = 127 /\ Affine(188) = 122 /\ Affine(157) = 134 /\ Affine(130) = 210
        /\ Affine(126) = 12 /\ Affine(42) = 70 /\ Affine(239) = 109 /\ Affine(172) = 139
        /\ Affine(100) = 59 /\ Affine(213) = 185 /\ Affine(186) = 56 /\ Affine(159) = 184
    BY SMTT(60) DEF Affine, RotatedLeft, Xor, Byte
  <1>7. /\ Affine(117) = 213 /\ Affine(218) = 28 /\ Affine(191) = 91 /\ Affine(156) = 153
        /\ Affine(116) = 202 /\ Affine(44) = 4 /\ Affine(237) = 83 /\ Affine(91) = 140
        /\ Affine(192) = 43 /\ Affine(64) = 164 /\ Affine(201) = 204 /\ Affine(71) = 249
        /\ Affine(61) = 234 /\ Affine(226) = 246 /\ Affine(94) = 239 /\ Affine(195) = 10
    BY SMTT(60) DEF Affine, RotatedLeft, Xor, Byte
  <1>8. /\ Affine(65) = 187 /\ Affine(63) = 212 /\ Affine(21) = 241 /\ Affine(250) = 255
        /\ Affine(86) = 23 /\ Affine(50) = 79 /\ Affine(231) = 149 /\ Affine(93) = 206
        /\ Affine(194) = 21 /\ Affine(183) = 163 /\ Affine(109) = 220 /\ Affine(210) = 228
        /\ Affine(78) = 30 /\ Affine(58) = 183 /\ Affine(22) = 208 /\ Affine(251) = 224
    BY SMTT(60) DEF Affine, RotatedLeft, Xor, Byte
  <1>9. /\ Affine(160) = 15 /\ Affine(96) = 71 /\ Affine(32) = 128 /\ Affine(233) = 47
        /\ Affine(174) = 181 /\ Affine(147) = 60 /\ Affine(113) = 169 /\ Affine(47) = 37
        /\ Affine(236) = 76 /\ Affine(173) = 148 /\ Affine(146) = 35 /\ Affine(135) = 177
        /\ Affine(125) = 45 /\ Affine(43) = 89 /\ Affine(25) = 117 /\ Affine(254) = 131
    BY SMTT(60) DEF Affine, RotatedLeft, Xor, Byte
  <1>10. /\ Affine(163) = 46 /\ Affine(97) = 88 /\ Affine(214) = 152 /\ Affine(187) = 39
         /\ Affine(105) = 160 /\ Affine(39) = 221 /\ Affine(29) = 9 /\ Affine(11) = 186
         /\ Affine(240) = 57 /\ Affine(80) = 85 /\ Affine(48) = 113 /\ Affine(16) = 146
         /\ Affine(249) = 222 /\ Affine(87) = 8 /\ Affine(196) = 87 /\ Affine(181) = 157
    BY SMTT(60) DEF Affine, RotatedLeft, Xor, Byte
  <1>11. /\ Affine(154) = 219 /\ Affine(118) = 244 /\ Affine(219) = 3 /\ Affine(73) = 67
         /\ Affine(206) = 145 /\ Affine(179) = 223 /\ Affine(152) = 229 /\ Affine(129) = 243
         /\ Affine(127) = 19 /\ Affine(220) = 94 /\ Affine(189) = 101 /\ Affine(107) = 158
         /\ Affine(208) = 218 /\ Affine(185) = 25 /\ Affine(158) = 167 /\ Affine(131) = 205
    BY SMTT(60) DEF Affine, RotatedLeft, Xor, Byte
  <1>12. /\ Affine(136) = 20 /\ Affine(120) = 78 /\ Affine(40) = 120 /\ Affine(24) = 106
         /\ Affine(8) = 155 /\ Affine(241) = 38 /\ Affine(166) = 77 /\ Affine(98) = 121
         /\ Affine(215) = 135 /\ Affine(77) = 63 /\ Affine(59) = 168 /\ Affine(224) = 200
         /\ Affine(169) = 232 /\ Affine(103) = 26 /\ Affine(212) = 166 /\ Affine(76) = 32
    BY SMTT(60) DEF Affine, RotatedLeft, Xor, Byte
  <1>13. /\ Affine(205) = 176 /\ Affine(178) = 192 /\ Affine(110) = 253 /\ Affine(211) = 251
         /\ Affine(184) = 6 /\ Affine(104) = 191 /\ Affine(209) = 197 /\ Affine(79) = 1
         /\ Affine(204) = 175 /\ Affine(68) = 216 /\ Affine(60) = 245 /\ Affine(20) = 238
         /\ Affine(12) = 231 /\ Affine(4) = 31 /\ Affine(245) = 90 /\ Affine(83) = 116
    BY SMTT(60) DEF Affine, RotatedLeft, Xor, Byte
  <1>14. /\ Affine(49) = 110 /\ Affine(230) = 138 /\ Affine(171) = 214 /\ Affine(144) = 29
         /\ Affine(112) = 182 /\ Affine(217) = 61 /\ Affine(190) = 68 /\ Affine(106) = 129
         /\ Affine(38) = 194 /\ Affine(235) = 17 /\ Affine(89) = 178 /\ Affine(55) = 44
         /\ Affine(228) = 180 /\ Affine(92) = 209 /\ Affine(52) = 13 /\ Affine(229) = 171
    BY SMTT(60) DEF Affine, RotatedLeft, Xor, Byte
  <1>15. /\ Affine(170) = 201 /\ Affine(102) = 5 /\ Affine(34) = 190 /\ Affine(30) = 40
         /\ Affine(10) = 165 /\ Affine(6) = 33 /\ Affine(2) = 93 /\ Affine(247) = 100
         /\ Affine(164) = 115 /\ Affine(149) = 126 /\ Affine(115) = 151 /\ Affine(216) = 34
         /\ Affine(72) = 92 /\ Affine(56) = 137 /\ Affine(225) = 215 /\ Affine(95) = 240
    BY SMTT(60) DEF Affine, RotatedLeft, Xor, Byte
  <1>16. /\ Affine(53) = 18 /\ Affine(19) = 179 /\ Affine(248) = 193 /\ Affine(161) = 16
         /\ Affine(150) = 95 /\ Affine(114) = 136 /\ Affine(46) = 58 /\ Affine(26) = 84
         /\ Affine(255) = 156 /\ Affine(85) = 54 /\ Affine(51) = 80 /\ Affine(17) = 141
         /\ Affine(15) = 198 /\ Affine(5) = 0 /\ Affine(3) = 66
    BY SMTT(60) DEF Affine, RotatedLeft, Xor, Byte
  <1> QED
    BY SMTT(120), <1>1, <1>2, <1>3, <1>4, <1>5, <1>6, <1>7, <1>8, <1>9, <1>10, <1>11, <1>12, <1>13, <1>14, <1>15, <1>16 DEF PowerOf3, Power, getNumFromSBox, S

\* The product of two powers is one if their exponents add up to 255.
LEMMA PowersCancel == \A k \in 0..255 : Product(Power(k), Power(255 - k)) = 1
  <1>1. \A k \in 0..255 : Power(k) \in Byte
    <2>1. \A v \in 1..255 : v \in Byte
      BY DEF Byte
    <2> QED
      BY <2>1, PowersOfThree
  <1>2. Product(Power(0), Power(255)) = 1
    <2>1. Power(0) = 1 /\ Power(255) = 1 /\ 1 \in Byte /\ 1 \in Factors
      BY DEF Power, PowerOf3, Byte, Factors
    <2>2. GFMul[1][1] = 1
      BY <2>1, ProductIs
    <2> QED
      BY <2>1, <2>2, FactorsMultiply
  <1>3. ASSUME NEW k \in 0..254, Product(Power(k), Power(255 - k)) = 1
        PROVE  Product(Power(k + 1), Power(255 - (k + 1))) = 1
    <2> DEFINE j == 255 - (k + 1)
    <2>1. j \in 0..254 /\ j + 1 = 255 - k /\ k + 1 \in 0..255
      OBVIOUS
    <2> HIDE DEF j
    <2>2. Power(k + 1) = Three(Power(k)) /\ Power(255 - k) = Three(Power(j))
      BY <2>1, NextPower
    <2>3. Power(k) \in Byte /\ Power(j) \in Byte
      BY <1>1, <2>1
    <2>4. Product(Three(Power(k)), Power(j)) = Product(Power(k), Three(Power(j)))
      BY <2>3, ThreeMoves
    <2>5. Product(Power(k + 1), Power(j)) = 1
      BY <1>3, <2>2, <2>4
    <2> QED
      BY <2>5 DEF j
  <1> DEFINE Bad == {k \in 0..255 : Product(Power(k), Power(255 - k)) # 1}
  <1>4. Bad = {}
    <2> SUFFICES ASSUME Bad # {} PROVE FALSE
      OBVIOUS
    <2> DEFINE first == CHOOSE k \in Bad : \A l \in Bad : k <= l
    <2>1. Bad \in SUBSET Nat
      OBVIOUS
    <2>2. first \in Bad /\ \A l \in Bad : first <= l
      <3> HIDE DEF Bad
      <3> QED
        BY <2>1, FirstIsIn
    <2> HIDE DEF first
    <2>3. first \in 0..255 /\ first # 0
      BY <1>2, <2>2
    <2>4. first - 1 \in 0..254 /\ (first - 1) + 1 = first /\ first - 1 \notin Bad
      BY <2>2, <2>3
    <2>5. Product(Power(first - 1), Power(255 - (first - 1))) = 1
      BY <2>4
    <2>6. Product(Power((first - 1) + 1), Power(255 - ((first - 1) + 1))) = 1
      BY <1>3, <2>4, <2>5
    <2>7. Product(Power(first), Power(255 - first)) = 1
      BY <2>4, <2>6
    <2> QED
      BY <2>2, <2>7
  <1> QED
    BY <1>4

\* Every byte but zero has an inverse, and the box holds its affine image.
LEMMA BoxIsInverse ==
    \A b \in 1..255 : \E inverse \in 1..255 : /\ getNumFromSBox(b) = Affine(inverse)
                                              /\ Product(b, inverse) = 1
  <1> SUFFICES ASSUME NEW b \in 1..255
               PROVE  \E inverse \in 1..255 : /\ getNumFromSBox(b) = Affine(inverse)
                                              /\ Product(b, inverse) = 1
    OBVIOUS
  <1>1. PICK k \in 0..254 : Power(k) = b
    BY PowersOfThree
  <1>2. k \in 0..255 /\ 255 - k \in 0..255
    OBVIOUS
  <1>3. Power(255 - k) \in 1..255
    BY <1>2, PowersOfThree
  <1>4. Affine(Power(255 - k)) = getNumFromSBox(b)
    BY <1>1, BoxIsAffine
  <1>5. Product(b, Power(255 - k)) = 1
    BY <1>1, <1>2, PowersCancel
  <1> QED
    BY <1>3, <1>4, <1>5

\* The tables of aes.cpp are those of the field: GFMul multiplies in it, S holds
\* the affine images of its inverses, and S2 undoes S (TablesMatchField).
THEOREM TablesAreOfTheField == Spec => []TablesMatchField
  <1>1. DOMAIN GFMul = Factors
    BY DEF GFMul, Factors
  <1>2. getNumFromSBox(0) = 99
    BY DEF getNumFromSBox, S
  <1>3. TablesMatchField
    BY <1>1, <1>2, FactorsMultiply, BoxIsInverse, BoxesAreInverse DEF TablesMatchField
  <1> QED
    BY <1>3, PTL
=============================================================================
