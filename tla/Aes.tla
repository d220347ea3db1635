-------------------------------- MODULE Aes --------------------------------
(***************************************************************************)
(* The cipher of helper/AES/aes.cpp, the AES-128 that the pending files    *)
(* are written with: tables, key schedule, one block in each direction.    *)
(* A char is its value 0..255, an int of the key schedule is the four      *)
(* bytes it is split into (most significant first), and the 4x4 int array  *)
(* of the code is a tuple of rows, rows and columns counted from 1.        *)
(* The loop over the words of w and the loop over the blocks of a buffer   *)
(* are not here: two threads run them at once on the same array w, so they *)
(* are actions of PendingFile.                                             *)
(***************************************************************************)
EXTENDS Integers, Sequences

Byte == 0..255

(* The ^ of C on two bytes, as a table.                                    *)
Xor == [a \in Byte |-> [b \in Byte |->
          LET bit(p) == p * (((a \div p) + (b \div p)) % 2)
          IN  bit(1) + bit(2) + bit(4) + bit(8) + bit(16) + bit(32) + bit(64) + bit(128)]]

(* A word and an array from the expression of their cells.                 *)
Word(cell(_)) == <<cell(1), cell(2), cell(3), cell(4)>>
Array(cell(_, _)) ==
    Word(LAMBDA r : <<cell(r, 1), cell(r, 2), cell(r, 3), cell(r, 4)>>)

XorWord(u, v) == Word(LAMBDA k : Xor[u[k]][v[k]])

-----------------------------------------------------------------------------
(* The tables.                                                             *)
S ==
    <<  99, 124, 119, 123, 242, 107, 111, 197,  48,   1, 103,  43, 254, 215, 171, 118,
       202, 130, 201, 125, 250,  89,  71, 240, 173, 212, 162, 175, 156, 164, 114, 192,
       183, 253, 147,  38,  54,  63, 247, 204,  52, 165, 229, 241, 113, 216,  49,  21,
         4, 199,  35, 195,  24, 150,   5, 154,   7,  18, 128, 226, 235,  39, 178, 117,
         9, 131,  44,  26,  27, 110,  90, 160,  82,  59, 214, 179,  41, 227,  47, 132,
        83, 209,   0, 237,  32, 252, 177,  91, 106, 203, 190,  57,  74,  76,  88, 207,
       208, 239, 170, 251,  67,  77,  51, 133,  69, 249,   2, 127,  80,  60, 159, 168,
        81, 163,  64, 143, 146, 157,  56, 245, 188, 182, 218,  33,  16, 255, 243, 210,
       205,  12,  19, 236,  95, 151,  68,  23, 196, 167, 126,  61, 100,  93,  25, 115,
        96, 129,  79, 220,  34,  42, 144, 136,  70, 238, 184,  20, 222,  94,  11, 219,
       224,  50,  58,  10,  73,   6,  36,  92, 194, 211, 172,  98, 145, 149, 228, 121,
       231, 200,  55, 109, 141, 213,  78, 169, 108,  86, 244, 234, 101, 122, 174,   8,
       186, 120,  37,  46,  28, 166, 180, 198, 232, 221, 116,  31,  75, 189, 139, 138,
       112,  62, 181, 102,  72,   3, 246,  14,  97,  53,  87, 185, 134, 193,  29, 158,
       225, 248, 152,  17, 105, 217, 142, 148, 155,  30, 135, 233, 206,  85,  40, 223,
       140, 161, 137,  13, 191, 230,  66, 104,  65, 153,  45,  15, 176,  84, 187,  22 >>

S2 ==
    <<  82,   9, 106, 213,  48,  54, 165,  56, 191,  64, 163, 158, 129, 243, 215, 251,
       124, 227,  57, 130, 155,  47, 255, 135,  52, 142,  67,  68, 196, 222, 233, 203,
        84, 123, 148,  50, 166, 194,  35,  61, 238,  76, 149,  11,  66, 250, 195,  78,
         8,  46, 161, 102,  40, 217,  36, 178, 118,  91, 162,  73, 109, 139, 209,  37,
       114, 248, 246, 100, 134, 104, 152,  22, 212, 164,  92, 204,  93, 101, 182, 146,
       108, 112,  72,  80, 253, 237, 185, 218,  94,  21,  70,  87, 167, 141, 157, 132,
       144, 216, 171,   0, 140, 188, 211,  10, 247, 228,  88,   5, 184, 179,  69,   6,
       208,  44,  30, 143, 202,  63,  15,   2, 193, 175, 189,   3,   1,  19, 138, 107,
        58, 145,  17,  65,  79, 103, 220, 234, 151, 242, 207, 206, 240, 180, 230, 115,
       150, 172, 116,  34, 231, 173,  53, 133, 226, 249,  55, 232,  28, 117, 223, 110,
        71, 241,  26, 113,  29,  41, 197, 137, 111, 183,  98,  14, 170,  24, 190,  27,
       252,  86,  62,  75, 198, 210, 121,  32, 154, 219, 192, 254, 120, 205,  90, 244,
        31, 221, 168,  51, 136,   7, 199,  49, 177,  18,  16,  89,  39, 128, 236,  95,
        96,  81, 127, 169,  25, 181,  74,  13,  45, 229, 122, 159, 147, 201, 156, 239,
       160, 224,  59,  77, 174,  42, 245, 176, 200, 235, 187,  60, 131,  83, 153,  97,
        23,  43,   4, 126, 186, 119, 214,  38, 225, 105,  20,  99,  85,  33,  12, 125 >>

getNumFromSBox(b) == S[b + 1]
getNumFromS1Box(b) == S2[b + 1]

(* The first byte of Rcon[round]; the others are zero.                     *)
Rcon == <<1, 2, 4, 8, 16, 32, 64, 128, 27, 54>>

colM == << <<2, 3, 1, 1>>, <<1, 2, 3, 1>>, <<1, 1, 2, 3>>, <<3, 1, 1, 2>> >>
deColM == << <<14, 11, 13, 9>>, <<9, 14, 11, 13>>, <<13, 9, 14, 11>>, <<11, 13, 9, 14>> >>

-----------------------------------------------------------------------------
(* Key schedule.                                                           *)

(* T: rotate the word by one byte, substitute, add the round constant.     *)
T(word, round) ==
    LET turned == <<word[2], word[3], word[4], word[1]>>
        substituted == Word(LAMBDA k : getNumFromSBox(turned[k]))
    IN  XorWord(substituted, <<Rcon[round + 1], 0, 0, 0>>)

(* Word i of the key.                                                      *)
getWordFromStr(key, i) == SubSeq(key, 4 * i + 1, 4 * i + 4)

(* The value that extendKey stores in w[i], from the key and the words     *)
(* that w holds at that moment; the round counter j is i/4 - 1.            *)
NextWord(key, w, i) ==
    IF i < 4 THEN getWordFromStr(key, i)
    ELSE XorWord(w[i - 4],
                 IF i % 4 = 0 THEN T(w[i - 1], i \div 4 - 1) ELSE w[i - 1])

WordIndex == 0..43
NoWord == <<0, 0, 0, 0>>
ZeroSchedule == [i \in WordIndex |-> NoWord]

-----------------------------------------------------------------------------
(* Multiplication by the constants of the two matrices.                    *)
(* Seeded fault of GFMul2: the reduction is forgotten.                     *)
GFMul2Unreduced(s) == (2 * s) % 256

GFMul2(s) == LET doubled == 2 * s
             IN  IF doubled >= 256 THEN Xor[doubled % 256][27] ELSE doubled
GFMul4(s) == GFMul2(GFMul2(s))
GFMul8(s) == GFMul2(GFMul4(s))
GFMul9(s) == Xor[GFMul8(s)][s]
GFMul12(s) == Xor[GFMul8(s)][GFMul4(s)]

GFMul == [n \in {1, 2, 3, 9, 11, 13, 14} |-> [s \in Byte |->
            CASE n = 1  -> s
              [] n = 2  -> GFMul2(s)
              [] n = 3  -> Xor[GFMul2(s)][s]
              [] n = 9  -> GFMul9(s)
              [] n = 11 -> Xor[GFMul9(s)][GFMul2(s)]
              [] n = 13 -> Xor[GFMul12(s)][s]
              [] n = 14 -> Xor[GFMul12(s)][GFMul2(s)]]]

-----------------------------------------------------------------------------
(* The steps of a round, on the array a (a[row][column]).                  *)

(* The bytes fill the array column by column.                              *)
convertToIntArray(bytes) == Array(LAMBDA r, c : bytes[4 * (c - 1) + r])
convertArrayToStr(a) ==
    << a[1][1], a[2][1], a[3][1], a[4][1], a[1][2], a[2][2], a[3][2], a[4][2],
       a[1][3], a[2][3], a[3][3], a[4][3], a[1][4], a[2][4], a[3][4], a[4][4] >>

addRoundTowArray(a, b) == Array(LAMBDA r, c : Xor[a[r][c]][b[r][c]])
getArrayFrom4W(w, round) == Array(LAMBDA r, c : w[4 * round + c - 1][r])
addRoundKey(a, w, round) == addRoundTowArray(a, getArrayFrom4W(w, round))

subBytes(a) == Array(LAMBDA r, c : getNumFromSBox(a[r][c]))
deSubBytes(a) == Array(LAMBDA r, c : getNumFromS1Box(a[r][c]))

(* leftLoop4int and rightLoop4int: row r turns by r - 1 places.            *)
Turned(c, places) == 1 + ((c - 1 + places) % 4)
shiftRows(a) == Array(LAMBDA r, c : a[r][Turned(c, r - 1)])
deShiftRows(a) == Array(LAMBDA r, c : a[r][Turned(c, 1 - r)])

Mix(matrix, a) ==
    Array(LAMBDA r, c :
            LET m(k) == GFMul[matrix[r][k]][a[k][c]]
            IN  Xor[Xor[m(1)][m(2)]][Xor[m(3)][m(4)]])
mixColumns(a) == Mix(colM, a)
deMixColumns(a) == Mix(deColM, a)

-----------------------------------------------------------------------------
(* One block of 16 bytes, with the words that w holds.                     *)

(* The body of the loop of aes.                                            *)
aesBlock(w, bytes) ==
    LET round[i \in 0..9] ==
          IF i = 0 THEN addRoundKey(convertToIntArray(bytes), w, 0)
          ELSE addRoundKey(mixColumns(shiftRows(subBytes(round[i - 1]))), w, i)
    IN  convertArrayToStr(addRoundKey(shiftRows(subBytes(round[9])), w, 10))

(* The body of the loop of deAes: rounds 9 down to 1, with the round key   *)
(* taken through the inverse column mix.                                   *)
deAesBlock(w, bytes) ==
    LET round[i \in 1..10] ==
          IF i = 10 THEN addRoundKey(convertToIntArray(bytes), w, 10)
          ELSE addRoundTowArray(
                   deMixColumns(deShiftRows(deSubBytes(round[i + 1]))),
                   deMixColumns(getArrayFrom4W(w, i)))
    IN  convertArrayToStr(addRoundKey(deShiftRows(deSubBytes(round[1])), w, 0))

(* The checks at the head of aes and deAes.                                *)
checkKeyLen(key) == Len(key) = 16
Accepts(len, key) == len # 0 /\ len % 16 = 0 /\ checkKeyLen(key)

(* Seeded fault of getAesLen: no room is made for the NUL.                 *)
getAesLenTight(n) == IF n % 16 # 0 THEN n + (16 - (n % 16)) ELSE n

(* getAesLen of a string of n characters: room for the final NUL, rounded  *)
(* up to whole blocks.                                                     *)
getAesLen(n) == LET len == n + 1
                IN  IF len % 16 # 0 THEN len + (16 - (len % 16)) ELSE len

BlockOf(bytes, k) == SubSeq(bytes, 16 * k + 1, 16 * k + 16)
WithBlock(bytes, k, block) ==
    [n \in DOMAIN bytes |-> IF (n - 1) \div 16 = k THEN block[((n - 1) % 16) + 1] ELSE bytes[n]]
=============================================================================
