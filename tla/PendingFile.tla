---------------------------- MODULE PendingFile ----------------------------
(***************************************************************************)
(* What becomes of one message on its way through a pending file: the      *)
(* thread of the main window writes it (DataOperator::save), the re-push   *)
(* thread reads it back (DataOperator::run). Resend models which message   *)
(* is saved and pushed when; this module models the bytes, the cipher of   *)
(* helper/AES/aes.cpp between them, and the one array w that both threads  *)
(* expand the key into.                                                    *)
(***************************************************************************)
EXTENDS Aes, FiniteSets

CONSTANTS
    Batches,    \* sets of messages [type, payload] that a run may save
    Builds      \* [encrypt, signedChar]: EncryptLog of the configuration and
                \* the sign of char on the machine the program is built for

ASSUME BatchesAssumption ==
    \A batch \in Batches : \A m \in batch :
        m.type \in 1..7 /\ m.payload \in Seq(1..127)
ASSUME BuildsAssumption == Builds \subseteq [encrypt : BOOLEAN, signedChar : BOOLEAN]

VARIABLES
    build,      \* one of Builds
    toSave,     \* messages still to be saved
    files,      \* pending files: [msg, bytes]
    w,          \* static int w[44] of aes.cpp, shared by the threads
    th,         \* the two threads: [pc, i, msg, buf, len]
    pushed      \* what needPush emitted: [msg, type, payload]

vars == <<build, toSave, files, w, th, pushed>>

Threads == {"save", "push"}
BufSize == 512                       \* char c_data[512]
Blank == 32
NUL == 0

(* The key "1234567890123456".                                             *)
key == [k \in 1..16 |-> 48 + (k % 10)]

NoMsg == [type |-> 0, payload |-> << >>]
Idle == [pc |-> "idle", i |-> 0, msg |-> NoMsg, buf |-> << >>, len |-> 0]

(* QString("%1 %2").arg(type).arg(payload)                                 *)
Con(m) == <<48 + m.type, Blank>> \o m.payload

(* char data[len], zeroed, with con copied into it.                        *)
Padded(s, len) == [n \in 1..len |-> IF n <= Len(s) THEN s[n] ELSE NUL]

Init ==
    /\ build \in Builds
    /\ toSave \in Batches
    /\ files = {}
    /\ w = ZeroSchedule
    /\ th = [t \in Threads |-> Idle]
    /\ pushed = {}

-----------------------------------------------------------------------------
(* One word of extendKey, by whichever thread is in it. When the last word *)
(* is stored the thread goes on to the blocks.                             *)
ExtendKey(t) ==
    /\ th[t].pc = "extend"
    /\ w' = [w EXCEPT ![th[t].i] = NextWord(key, w, th[t].i)]
    /\ th' = [th EXCEPT ![t].pc = IF th[t].i = 43 THEN "blocks" ELSE "extend",
                        ![t].i = (th[t].i + 1) % 44]
    /\ UNCHANGED <<build, toSave, files, pushed>>

(* save: the text of the message, padded for the cipher, or with its NUL   *)
(* when nothing is enciphered. A buffer that aes refuses is written plain. *)
Save(m) ==
    /\ th["save"].pc = "idle"
    /\ m \in toSave
    /\ toSave' = toSave \ {m}
    /\ LET con == Con(m)
           len == IF build.encrypt THEN getAesLen(Len(con)) ELSE Len(con) + 1
       IN  th' = [th EXCEPT !["save"] =
                    [pc |-> IF build.encrypt /\ Accepts(len, key) THEN "extend" ELSE "done",
                     i |-> 0, msg |-> m, buf |-> Padded(con, len), len |-> len]]
    /\ UNCHANGED <<build, files, w, pushed>>

(* One turn of the loop of aes over the blocks of data.                    *)
SaveBlock ==
    LET s == th["save"]
        block == aesBlock(w, BlockOf(s.buf, s.i))
    IN  /\ s.pc = "blocks"
        /\ th' = [th EXCEPT !["save"].buf = WithBlock(s.buf, s.i, block),
                            !["save"].i = s.i + 1,
                            !["save"].pc = IF 16 * (s.i + 1) = s.len THEN "done" ELSE "blocks"]
        /\ UNCHANGED <<build, toSave, files, w, pushed>>

(* Seeded fault of SaveWrite: the key schedule is wiped after use.         *)
SaveWriteWipes ==
    LET s == th["save"]
    IN  /\ s.pc = "done"
        /\ files' = files \cup {[msg |-> s.msg, bytes |-> Append(s.buf, Blank)]}
        /\ th' = [th EXCEPT !["save"] = Idle]
        /\ w' = ZeroSchedule
        /\ UNCHANGED <<build, toSave, pushed>>

(* The bytes go to the file, and a blank behind them as its end.           *)
SaveWrite ==
    LET s == th["save"]
    IN  /\ s.pc = "done"
        /\ files' = files \cup {[msg |-> s.msg, bytes |-> Append(s.buf, Blank)]}
        /\ th' = [th EXCEPT !["save"] = Idle]
        /\ UNCHANGED <<build, toSave, w, pushed>>

-----------------------------------------------------------------------------
(* The loop that reads a file compares the char it has stored with EOF. A  *)
(* signed char equals EOF at the end of the file and at a byte 255 in it.  *)
(* An unsigned char never does: the loop stores 255 until c_data is full.  *)
CharsRead(bytes) ==
    LET ends == {n \in 1..Len(bytes) : bytes[n] = 255} \cup {Len(bytes) + 1, BufSize + 1}
    IN  IF build.signedChar
        THEN (CHOOSE n \in ends : \A k \in ends : n <= k) - 1
        ELSE BufSize

(* c_data after the loop: the bytes read, the char that stopped it, and    *)
(* the zeros that were there before.                                       *)
ReadBuffer(bytes) ==
    LET len == CharsRead(bytes)
    IN  [n \in 1..BufSize |-> IF n <= len + 1
                              THEN IF n <= Len(bytes) THEN bytes[n] ELSE 255
                              ELSE NUL]

(* deAes refuses a length that is not whole blocks: the buffer stays as it *)
(* was read and is pushed all the same.                                    *)
PushRead(f) ==
    /\ th["push"].pc = "idle"
    /\ f \in files
    /\ LET len == CharsRead(f.bytes)
       IN  th' = [th EXCEPT !["push"] =
                    [pc |-> IF build.encrypt /\ Accepts(len, key) THEN "extend" ELSE "done",
                     i |-> 0, msg |-> f.msg, buf |-> ReadBuffer(f.bytes), len |-> len]]
    /\ UNCHANGED <<build, toSave, files, w, pushed>>

(* One turn of the loop of deAes. The turns behind the block that holds    *)
(* the final NUL change nothing that is looked at and are left out.        *)
PushBlock ==
    LET p == th["push"]
        block == deAesBlock(w, BlockOf(p.buf, p.i))
        ends == \/ 16 * (p.i + 1) = p.len
                \/ \E n \in 1..16 : block[n] = NUL
    IN  /\ p.pc = "blocks"
        /\ th' = [th EXCEPT !["push"].buf = WithBlock(p.buf, p.i, block),
                            !["push"].i = p.i + 1,
                            !["push"].pc = IF ends THEN "done" ELSE "blocks"]
        /\ UNCHANGED <<build, toSave, files, w, pushed>>

(* QLatin1String takes the chars up to the first NUL. When c_data holds    *)
(* none it reads on behind the array: anything may follow.                 *)
Texts(buf) ==
    LET nuls == {n \in 1..Len(buf) : buf[n] = NUL}
    IN  IF nuls # {}
        THEN {SubSeq(buf, 1, (CHOOSE n \in nuls : \A k \in nuls : n <= k) - 1)}
        ELSE {buf, Append(buf, 35)}

(* str_data.mid(0,1).toInt() and str_data.mid(2)                           *)
TypeOf(text) == IF text # << >> /\ text[1] \in 48..57 THEN text[1] - 48 ELSE 0
PayloadOf(text) == SubSeq(text, 3, Len(text))

(* needPush is emitted and the file removed.                               *)
PushEmit ==
    LET p == th["push"]
    IN  /\ p.pc = "done"
        /\ \E text \in Texts(p.buf) :
             pushed' = pushed \cup {[msg |-> p.msg, type |-> TypeOf(text),
                                     payload |-> PayloadOf(text)]}
        /\ files' = {f \in files : f.msg # p.msg}
        /\ th' = [th EXCEPT !["push"] = Idle]
        /\ UNCHANGED <<build, toSave, w>>

Next ==
    \/ \E t \in Threads : ExtendKey(t)
    \/ \E batch \in Batches : \E m \in batch : Save(m)
    \/ SaveBlock
    \/ SaveWrite
    \/ \E f \in files : PushRead(f)
    \/ PushBlock
    \/ PushEmit

Spec == Init /\ [][Next]_vars

-----------------------------------------------------------------------------
(* What is read back is what was saved: the type and, up to the 510        *)
(* characters that c_data holds beside type and blank, the payload; a      *)
(* payload that fits with its NUL comes back whole. It takes both          *)
(* directions of the cipher, the padding, the trailing blank and the       *)
(* shared key schedule, whatever the other thread is doing to w.           *)
(* Enciphered files on a machine with a signed char are left out: there    *)
(* the trailing blank makes every length 16k + 1, which deAes refuses, and *)
(* the cipher text itself is pushed. (DataOperator::save, run; aes, deAes) *)
PushedIsSaved ==
    ~(build.encrypt /\ build.signedChar) =>
        \A e \in pushed :
            LET n == IF Len(e.msg.payload) < 510 THEN Len(e.msg.payload) ELSE 510
            IN  /\ e.type = e.msg.type
                /\ SubSeq(e.payload, 1, n) = SubSeq(e.msg.payload, 1, n)
                /\ n < 510 => e.payload = e.msg.payload

(* A thread that has expanded the key works on words nobody changes any    *)
(* more, although the other thread may be storing into w at that moment:   *)
(* every store repeats the value that is there. This is what makes the     *)
(* unprotected array harmless, and what a second key would end.            *)
(* (aes.cpp, w and extendKey; save on the main thread, run on its own)     *)
ScheduleStable ==
    [][\A t \in Threads : th[t].pc = "blocks" => w' = w]_vars

(* The tables of the cipher against the field they come from: every        *)
(* product with a constant of the column matrices is the product of        *)
(* polynomials modulo x^8+x^4+x^3+x+1, the S box is the inverse followed   *)
(* by the affine map, and the second box undoes the first.                 *)
(* (aes.cpp, S, S2, GFMul)                                                 *)
Product(a, b) ==
    LET doubled[k \in 0..7] ==
          IF k = 0 THEN b
          ELSE IF doubled[k - 1] >= 128 THEN Xor[(2 * doubled[k - 1]) % 256][27]
               ELSE 2 * doubled[k - 1]
        sum[k \in 0..8] ==
          IF k = 0 THEN 0
          ELSE IF (a \div 2^(k - 1)) % 2 = 1 THEN Xor[sum[k - 1]][doubled[k - 1]]
               ELSE sum[k - 1]
    IN  sum[8]
RotatedLeft(b, k) == ((b * 2^k) % 256) + (b \div 2^(8 - k))
Affine(b) ==
    Xor[Xor[Xor[b][RotatedLeft(b, 1)]][Xor[RotatedLeft(b, 2)][RotatedLeft(b, 3)]]]
       [Xor[RotatedLeft(b, 4)][99]]
TablesMatchField ==
    w = ZeroSchedule /\ th["save"].pc = "idle" =>
        /\ \A n \in DOMAIN GFMul, s \in Byte : GFMul[n][s] = Product(n, s)
        /\ getNumFromSBox(0) = 99
        /\ \A b \in 1..255 :
             \E inverse \in 1..255 : /\ getNumFromSBox(b) = Affine(inverse)
                                     /\ Product(b, inverse) = 1
        /\ \A b \in Byte : getNumFromS1Box(getNumFromSBox(b)) = b
=============================================================================
