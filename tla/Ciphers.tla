------------------------------- MODULE Ciphers -------------------------------
(***************************************************************************)
(* AES (src/src/aes: portable, AES-NI and ARMv8 CE) and SM4 (src/src/sm4:  *)
(* by table and bit-sliced) as they are selected and keyed.  A byte is the *)
(* set of its bits that are one and an SM4 word a subset of 0 .. 31, so    *)
(* that ^ is symmetric difference and & intersection; a block is sixteen   *)
(* bytes.                                                                  *)
(***************************************************************************)
EXTENDS Naturals, Sequences, FiniteSetsExt, SequencesExt

CONSTANTS Impls,        \* pairs of a cipher and one of its implementations
          UserKeys,     \* bound: pairs of a cipher and a key, its bytes as numbers
          Plains        \* bound: sequences of blocks, their bytes as numbers

ASSUME CiphersAssumption ==
    /\ Impls \subseteq {<<"aes", "scalar">>, <<"aes", "aesni">>, <<"aes", "armce">>,
                        <<"sm4", "table">>, <<"sm4", "ct">>}
    /\ \A k \in UserKeys : k[1] \in {"aes", "sm4"} /\ k[2] \in Seq(0 .. 255)
    /\ \A p \in Plains : \A i \in DOMAIN p : p[i] \in Seq(0 .. 255) /\ Len(p[i]) = 16

VARIABLES ckey,     \* the key structure
          blocks,   \* the caller's data
          plain,    \* what it was at first
          done      \* the operations it has been through

ciphersVars == <<ckey, blocks, plain, done>>

Byte8 == 0 .. 7

Bits == [n \in 0 .. 255 |-> {k \in Byte8 : (n \div 2 ^ k) % 2 = 1}]
Num(b) == FoldSet(LAMBDA k, n : n + 2 ^ k, 0, b)

ToBits(numbers) == [i \in DOMAIN numbers |-> Bits[numbers[i]]]

(* Symmetric difference, and a sequence whose elements are worked out once. *)
Xor(a, b) == {k \in a \cup b : ~(k \in a /\ k \in b)}
Listed(s) == s \o <<>>

Sum(sets) == FoldLeft(Xor, {}, sets)

XorBlock(s, k) == Listed([i \in DOMAIN s |-> Xor(s[i], k[i])])

-----------------------------------------------------------------------------
(* The tables.                                                             *)

sbox ==
    << 99, 124, 119, 123, 242, 107, 111, 197, 48, 1, 103, 43, 254, 215, 171, 118, 202, 130, 201,
    125, 250, 89, 71, 240, 173, 212, 162, 175, 156, 164, 114, 192, 183, 253, 147, 38, 54, 63,
    247, 204, 52, 165, 229, 241, 113, 216, 49, 21, 4, 199, 35, 195, 24, 150, 5, 154, 7, 18,
    128, 226, 235, 39, 178, 117, 9, 131, 44, 26, 27, 110, 90, 160, 82, 59, 214, 179, 41, 227,
    47, 132, 83, 209, 0, 237, 32, 252, 177, 91, 106, 203, 190, 57, 74, 76, 88, 207, 208, 239,
    170, 251, 67, 77, 51, 133, 69, 249, 2, 127, 80, 60, 159, 168, 81, 163, 64, 143, 146, 157,
    56, 245, 188, 182, 218, 33, 16, 255, 243, 210, 205, 12, 19, 236, 95, 151, 68, 23, 196, 167,
    126, 61, 100, 93, 25, 115, 96, 129, 79, 220, 34, 42, 144, 136, 70, 238, 184, 20, 222, 94,
    11, 219, 224, 50, 58, 10, 73, 6, 36, 92, 194, 211, 172, 98, 145, 149, 228, 121, 231, 200,
    55, 109, 141, 213, 78, 169, 108, 86, 244, 234, 101, 122, 174, 8, 186, 120, 37, 46, 28, 166,
    180, 198, 232, 221, 116, 31, 75, 189, 139, 138, 112, 62, 181, 102, 72, 3, 246, 14, 97, 53,
    87, 185, 134, 193, 29, 158, 225, 248, 152, 17, 105, 217, 142, 148, 155, 30, 135, 233, 206,
    85, 40, 223, 140, 161, 137, 13, 191, 230, 66, 104, 65, 153, 45, 15, 176, 84, 187, 22 >>

rsbox ==
    << 82, 9, 106, 213, 48, 54, 165, 56, 191, 64, 163, 158, 129, 243, 215, 251, 124, 227, 57, 130,
    155, 47, 255, 135, 52, 142, 67, 68, 196, 222, 233, 203, 84, 123, 148, 50, 166, 194, 35, 61,
    238, 76, 149, 11, 66, 250, 195, 78, 8, 46, 161, 102, 40, 217, 36, 178, 118, 91, 162, 73,
    109, 139, 209, 37, 114, 248, 246, 100, 134, 104, 152, 22, 212, 164, 92, 204, 93, 101, 182,
    146, 108, 112, 72, 80, 253, 237, 185, 218, 94, 21, 70, 87, 167, 141, 157, 132, 144, 216,
    171, 0, 140, 188, 211, 10, 247, 228, 88, 5, 184, 179, 69, 6, 208, 44, 30, 143, 202, 63, 15,
    2, 193, 175, 189, 3, 1, 19, 138, 107, 58, 145, 17, 65, 79, 103, 220, 234, 151, 242, 207,
    206, 240, 180, 230, 115, 150, 172, 116, 34, 231, 173, 53, 133, 226, 249, 55, 232, 28, 117,
    223, 110, 71, 241, 26, 113, 29, 41, 197, 137, 111, 183, 98, 14, 170, 24, 190, 27, 252, 86,
    62, 75, 198, 210, 121, 32, 154, 219, 192, 254, 120, 205, 90, 244, 31, 221, 168, 51, 136, 7,
    199, 49, 177, 18, 16, 89, 39, 128, 236, 95, 96, 81, 127, 169, 25, 181, 74, 13, 45, 229,
    122, 159, 147, 201, 156, 239, 160, 224, 59, 77, 174, 42, 245, 176, 200, 235, 187, 60, 131,
    83, 153, 97, 23, 43, 4, 126, 186, 119, 214, 38, 225, 105, 20, 99, 85, 33, 12, 125 >>

SBOX ==
    << 214, 144, 233, 254, 204, 225, 61, 183, 22, 182, 20, 194, 40, 251, 44, 5, 43, 103, 154, 118,
    42, 190, 4, 195, 170, 68, 19, 38, 73, 134, 6, 153, 156, 66, 80, 244, 145, 239, 152, 122,
    51, 84, 11, 67, 237, 207, 172, 98, 228, 179, 28, 169, 201, 8, 232, 149, 128, 223, 148, 250,
    117, 143, 63, 166, 71, 7, 167, 252, 243, 115, 23, 186, 131, 89, 60, 25, 230, 133, 79, 168,
    104, 107, 129, 178, 113, 100, 218, 139, 248, 235, 15, 75, 112, 86, 157, 53, 30, 36, 14, 94,
    99, 88, 209, 162, 37, 34, 124, 59, 1, 33, 120, 135, 212, 0, 70, 87, 159, 211, 39, 82, 76,
    54, 2, 231, 160, 196, 200, 158, 234, 191, 138, 210, 64, 199, 56, 181, 163, 247, 242, 206,
    249, 97, 21, 161, 224, 174, 93, 164, 155, 52, 26, 85, 173, 147, 50, 48, 245, 140, 177, 227,
    29, 246, 226, 46, 130, 102, 202, 96, 192, 41, 35, 171, 13, 83, 78, 111, 213, 219, 55, 69,
    222, 253, 142, 47, 3, 255, 106, 114, 109, 108, 91, 81, 141, 27, 175, 146, 187, 221, 188,
    127, 17, 217, 92, 65, 31, 16, 90, 216, 10, 193, 49, 136, 165, 205, 123, 189, 45, 116, 208,
    18, 184, 229, 180, 176, 137, 105, 151, 74, 12, 150, 119, 126, 101, 185, 241, 9, 197, 110,
    198, 132, 24, 240, 125, 236, 58, 220, 77, 32, 121, 238, 95, 62, 215, 203, 57, 72 >>

(* Byte by byte.                                                           *)
FK ==
    << 163, 177, 186, 198, 86, 170, 51, 80, 103, 125, 145, 151, 178, 112, 34, 220 >>

CK ==
    << 0, 7, 14, 21, 28, 35, 42, 49, 56, 63, 70, 77, 84, 91, 98, 105, 112, 119, 126, 133, 140,
    147, 154, 161, 168, 175, 182, 189, 196, 203, 210, 217, 224, 231, 238, 245, 252, 3, 10, 17,
    24, 31, 38, 45, 52, 59, 66, 73, 80, 87, 94, 101, 108, 115, 122, 129, 136, 143, 150, 157,
    164, 171, 178, 185, 192, 199, 206, 213, 220, 227, 234, 241, 248, 255, 6, 13, 20, 27, 34,
    41, 48, 55, 62, 69, 76, 83, 90, 97, 104, 111, 118, 125, 132, 139, 146, 153, 160, 167, 174,
    181, 188, 195, 202, 209, 216, 223, 230, 237, 244, 251, 2, 9, 16, 23, 30, 37, 44, 51, 58,
    65, 72, 79, 86, 93, 100, 107, 114, 121 >>

-----------------------------------------------------------------------------
(* GF(2^8) and the AES rounds.                                             *)

Shl(b) == {k + 1 : k \in b \ {7}}

Xtime(b) == IF 7 \in b THEN Xor(Shl(b), Bits[27]) ELSE Shl(b)

Gmul(a, n) ==
    FoldLeft(LAMBDA s, i : [p |-> IF i \in Bits[n] THEN Xor(s.p, s.a) ELSE s.p,
                            a |-> Xtime(s.a)],
             [p |-> {}, a |-> a], <<0, 1, 2, 3, 4, 5, 6, 7>>).p

SubByte(b) == Bits[sbox[Num(b) + 1]]
SubBytes(s) == Listed([i \in DOMAIN s |-> SubByte(s[i])])
InvSubBytes(s) == Listed([i \in DOMAIN s |-> Bits[rsbox[Num(s[i]) + 1]]])

(* The new place of each byte, columns first.                              *)
ShiftRows(s) ==
    LET from == <<0, 5, 10, 15, 4, 9, 14, 3, 8, 13, 2, 7, 12, 1, 6, 11>>
    IN  [i \in DOMAIN s |-> s[from[i] + 1]]

InvShiftRows(s) ==
    LET from == <<0, 13, 10, 7, 4, 1, 14, 11, 8, 5, 2, 15, 12, 9, 6, 3>>
    IN  [i \in DOMAIN s |-> s[from[i] + 1]]

Column(s, c) == SubSeq(s, (4 * c) + 1, (4 * c) + 4)

MixColumns(s) ==
    LET mixed(a) == << Sum(<<Xtime(a[1]), Xtime(a[2]), a[2], a[3], a[4]>>),
                       Sum(<<a[1], Xtime(a[2]), Xtime(a[3]), a[3], a[4]>>),
                       Sum(<<a[1], a[2], Xtime(a[3]), Xtime(a[4]), a[4]>>),
                       Sum(<<Xtime(a[1]), a[1], a[2], a[3], Xtime(a[4])>>) >>
    IN  FlattenSeq([c \in 1 .. Len(s) \div 4 |-> mixed(Column(s, c - 1))])

InvMixColumns(s) ==
    LET times(a, n) == Sum([i \in 1 .. 4 |-> Gmul(a[i], n[i])])
        mixed(a) == << times(a, <<14, 11, 13, 9>>), times(a, <<9, 14, 11, 13>>),
                       times(a, <<13, 9, 14, 11>>), times(a, <<11, 13, 9, 14>>) >>
    IN  FlattenSeq([c \in 1 .. Len(s) \div 4 |-> mixed(Column(s, c - 1))])

-----------------------------------------------------------------------------
(* The AES key schedule; a word is four bytes.                             *)

rcon == <<1, 2, 4, 8, 16, 32, 64, 128, 27, 54>>

(* Mutant of KeyStep: the extra SubWord of a 256-bit key is left out.      *)
KeyStepShort(nk, i, t) ==
    IF i % nk = 0
    THEN XorBlock(SubBytes(<<t[2], t[3], t[4], t[1]>>), <<Bits[rcon[i \div nk]], {}, {}, {}>>)
    ELSE t

KeyStep(nk, i, t) ==
    CASE i % nk = 0 ->
            XorBlock(SubBytes(<<t[2], t[3], t[4], t[1]>>), <<Bits[rcon[i \div nk]], {}, {}, {}>>)
      [] nk > 6 /\ i % nk = 4 -> SubBytes(t)
      [] OTHER -> t

(* The round keys, a block each.                                           *)
KeyExpansion(key, nk, nr) ==
    LET w == FoldLeft(LAMBDA ws, i : Append(ws, XorBlock(ws[i - nk + 1], KeyStep(nk, i, ws[i]))),
                      [i \in 1 .. nk |-> SubSeq(key, (4 * i) - 3, 4 * i)],
                      [j \in 1 .. (4 * (nr + 1)) - nk |-> nk + j - 1])
    IN  [r \in 1 .. nr + 1 |-> FlattenSeq(SubSeq(w, (4 * r) - 3, 4 * r))]

-----------------------------------------------------------------------------
(* One block, the portable way.  rk[1] is the first round key.             *)

Up(n)   == [i \in 1 .. n |-> i]
Down(n) == [i \in 1 .. n |-> n + 1 - i]

ScalarEncrypt(rk, in) ==
    LET nr == Len(rk) - 1
        s  == FoldLeft(LAMBDA t, r :
                           XorBlock(MixColumns(ShiftRows(SubBytes(t))), rk[r + 1]),
                       XorBlock(in, rk[1]), Up(nr - 1))
    IN  XorBlock(ShiftRows(SubBytes(s)), rk[nr + 1])

ScalarDecrypt(rk, in) ==
    LET nr == Len(rk) - 1
        s  == FoldLeft(LAMBDA t, r :
                           InvMixColumns(XorBlock(InvSubBytes(InvShiftRows(t)), rk[r + 1])),
                       XorBlock(in, rk[nr + 1]), Down(nr - 1))
    IN  XorBlock(InvSubBytes(InvShiftRows(s)), rk[1])

(* The AES-NI instructions.                                                *)
aesenc(s, k)     == XorBlock(MixColumns(SubBytes(ShiftRows(s))), k)
aesenclast(s, k) == XorBlock(SubBytes(ShiftRows(s)), k)
aesdec(s, k)     == XorBlock(InvMixColumns(InvSubBytes(InvShiftRows(s))), k)
aesdeclast(s, k) == XorBlock(InvSubBytes(InvShiftRows(s)), k)

AesniEncrypt(rk, in) ==
    LET nr == Len(rk) - 1
    IN  aesenclast(FoldLeft(LAMBDA b, r : aesenc(b, rk[r + 1]), XorBlock(in, rk[1]), Up(nr - 1)),
                   rk[nr + 1])

AesniDecrypt(rk, in) ==
    LET nr == Len(rk) - 1
    IN  aesdeclast(FoldLeft(LAMBDA b, r : aesdec(b, InvMixColumns(rk[r + 1])),
                            XorBlock(in, rk[nr + 1]), Down(nr - 1)),
                   rk[1])

(* The ARMv8 instructions.                                                 *)
aese(s, k) == SubBytes(ShiftRows(XorBlock(s, k)))
aesd(s, k) == InvSubBytes(InvShiftRows(XorBlock(s, k)))

ArmceEncrypt(rk, in) ==
    LET nr == Len(rk) - 1
    IN  XorBlock(aese(FoldLeft(LAMBDA b, r : MixColumns(aese(b, rk[r])), in, Up(nr - 1)), rk[nr]),
                 rk[nr + 1])

ArmceDecrypt(rk, in) ==
    LET nr   == Len(rk) - 1
        zero == [i \in 1 .. 16 |-> {}]
    IN  XorBlock(aesd(FoldLeft(LAMBDA b, r : InvMixColumns(XorBlock(aesd(b, zero), rk[r + 1])),
                               XorBlock(in, rk[nr + 1]), Down(nr - 1)),
                      zero),
                 rk[1])

-----------------------------------------------------------------------------
(* Several blocks: lanes move through the rounds together, the rest goes   *)
(* block by block.                                                         *)

Lanes(n, in) == (Len(in) \div n) * n

(* Up to 8 at a time.                                                      *)
AesniEncryptBlocks(rk, in) ==
    LET nr   == Len(rk) - 1
        full == Lanes(8, in)
        b    == FoldLeft(LAMBDA bs, r : [i \in DOMAIN bs |-> aesenc(bs[i], rk[r + 1])],
                         [i \in 1 .. full |-> XorBlock(in[i], rk[1])], Up(nr - 1))
    IN  [i \in DOMAIN in |-> IF i <= full THEN aesenclast(b[i], rk[nr + 1])
                             ELSE AesniEncrypt(rk, in[i])]

(* Up to 4 at a time.                                                      *)
ArmceEncryptBlocks(rk, in) ==
    LET nr   == Len(rk) - 1
        full == Lanes(4, in)
        b    == FoldLeft(LAMBDA bs, r : [i \in DOMAIN bs |-> MixColumns(aese(bs[i], rk[r]))],
                         [i \in 1 .. full |-> in[i]], Up(nr - 1))
    IN  [i \in DOMAIN in |-> IF i <= full THEN XorBlock(aese(b[i], rk[nr]), rk[nr + 1])
                             ELSE ArmceEncrypt(rk, in[i])]

-----------------------------------------------------------------------------
(* SM4.                                                                    *)

Rotl(x, n) == {(k + n) % 32 : k \in x}

(* load32_be and store32_be.                                               *)
Word(bytes) == UNION {{k + (8 * (4 - i)) : k \in bytes[i]} : i \in 1 .. 4}
BytesOf(x) == [i \in 1 .. 4 |-> {k \in Byte8 : k + (8 * (4 - i)) \in x}]

Tau(x) == LET b == BytesOf(x) IN Word([i \in 1 .. 4 |-> Bits[SBOX[Num(b[i]) + 1]]])

(* A bit plane is the set of the bytes of the word, 0 .. 3, whose bit is   *)
(* one.  The affine maps, row by row.                                      *)
AffineIn ==
    << [of |-> {3, 4, 7}, not |-> TRUE],
       [of |-> {0, 5, 6, 7}, not |-> TRUE],
       [of |-> {0, 2}, not |-> FALSE],
       [of |-> {0, 1, 2, 3}, not |-> FALSE],
       [of |-> {0, 1, 4, 7}, not |-> FALSE],
       [of |-> {6}, not |-> TRUE],
       [of |-> {2, 6, 7}, not |-> FALSE],
       [of |-> {0, 1, 2, 3, 4, 5, 6}, not |-> TRUE] >>

AffineOut ==
    << [of |-> {0, 1, 4, 6, 7}, not |-> TRUE],
       [of |-> {0, 2, 5, 7}, not |-> TRUE],
       [of |-> {2, 5}, not |-> FALSE],
       [of |-> {0, 2, 4, 5, 6}, not |-> FALSE],
       [of |-> {1, 3, 5, 6, 7}, not |-> TRUE],
       [of |-> {1, 3, 6}, not |-> FALSE],
       [of |-> {0, 1, 2, 4, 6, 7}, not |-> TRUE],
       [of |-> {0, 3, 5, 7}, not |-> TRUE] >>

(* The terms of the product of two elements of GF(2^4) and of the inverse  *)
(* of one, bit by bit.                                                     *)
Products ==
    << {<<0, 0>>, <<1, 3>>, <<2, 2>>, <<3, 1>>},
       {<<0, 1>>, <<1, 0>>, <<1, 3>>, <<2, 2>>, <<2, 3>>, <<3, 1>>, <<3, 2>>},
       {<<0, 2>>, <<1, 1>>, <<2, 0>>, <<2, 3>>, <<3, 2>>, <<3, 3>>},
       {<<0, 3>>, <<1, 2>>, <<2, 1>>, <<3, 0>>, <<3, 3>>} >>

InverseTerms ==
    << {{0}, {1}, {2}, {0, 2}, {1, 2}, {0, 1, 2}, {3}, {1, 2, 3}},
       {{0, 1}, {0, 2}, {1, 2}, {3}, {1, 3}, {0, 1, 3}},
       {{0, 1}, {2}, {0, 2}, {3}, {0, 3}, {0, 2, 3}},
       {{1}, {2}, {3}, {0, 3}, {1, 3}, {2, 3}, {1, 2, 3}} >>

XorOver(S, plane(_)) == FoldSet(LAMBDA t, p : Xor(p, plane(t)), {}, S)

Affine(rows, p) ==
    Listed([i \in 1 .. 8 |-> Xor(XorOver(rows[i].of, LAMBDA k : p[k + 1]),
                                  IF rows[i].not THEN 0 .. 3 ELSE {})])

Times(a, b) ==
    Listed([i \in 1 .. 4 |-> XorOver(Products[i], LAMBDA t : a[t[1] + 1] \cap b[t[2] + 1])])

Inverted(d) ==
    Listed([i \in 1 .. 4 |->
        XorOver(InverseTerms[i], LAMBDA t : {j \in 0 .. 3 : \A k \in t : j \in d[k + 1]})])

(* Squaring of (h, l), and its product with the constant of the tower.     *)
Squared(x) == <<Xor(x[1], x[3]), x[3], Xor(x[2], x[4]), x[4]>>
TimesLambda(x) ==
    <<Xor(x[2], x[3]), Xor(x[2], x[4]), Xor(x[1], x[3]), Sum(<<x[1], x[2], x[4]>>)>>

SboxWord(x) ==
    LET p == [k \in 1 .. 8 |-> {j \in 0 .. 3 : (8 * j) + k - 1 \in x}]
        c == Affine(AffineIn, p)
        h == SubSeq(c, 5, 8)
        l == SubSeq(c, 1, 4)
        d == Inverted([i \in 1 .. 4 |-> Sum(<<TimesLambda(Squared(h))[i], Times(h, l)[i],
                                              Squared(l)[i]>>)])
        q == Affine(AffineOut, Times(XorBlock(h, l), d) \o Times(h, d))
    IN  UNION {{(8 * j) + k - 1 : j \in q[k]} : k \in 1 .. 8}

TauOf(impl, x) == IF impl = "ct" THEN SboxWord(x) ELSE Tau(x)

T(impl, x) ==
    LET b == TauOf(impl, x) IN Sum(<<b, Rotl(b, 2), Rotl(b, 10), Rotl(b, 18), Rotl(b, 24)>>)
Tp(impl, x) == LET b == TauOf(impl, x) IN Sum(<<b, Rotl(b, 13), Rotl(b, 23)>>)

Words(bytes) == [i \in 1 .. Len(bytes) \div 4 |-> Word(SubSeq(bytes, (4 * i) - 3, 4 * i))]

(* A schedule for decryption is the other backwards.                       *)
Sm4KeySchedule(impl, key, dir) ==
    LET ck == Words(ToBits(CK))
        X == FoldLeft(LAMBDA x, i : Append(x, Xor(x[i],
                          Tp(impl, Sum(<<x[i + 1], x[i + 2], x[i + 3], ck[i]>>)))),
                      XorBlock(Words(key), Words(ToBits(FK))), Up(32))
    IN  [i \in 1 .. 32 |-> IF dir = "decrypt" THEN X[37 - i] ELSE X[i + 4]]

Sm4CryptBlock(impl, rk, in) ==
    LET X == FoldLeft(LAMBDA x, i : <<x[2], x[3], x[4],
                          Xor(x[1], T(impl, Sum(<<x[2], x[3], x[4], rk[i]>>)))>>,
                      Words(in), Up(32))
    IN  FlattenSeq([i \in 1 .. 4 |-> BytesOf(X[5 - i])])

-----------------------------------------------------------------------------
NoKey == [alg |-> "none", impl |-> "none", user |-> <<>>, dir |-> "none", rk |-> <<>>]

CiphersInit ==
    /\ ckey = NoKey
    /\ plain \in Plains
    /\ blocks = [i \in DOMAIN plain |-> ToBits(plain[i])]
    /\ done = <<>>

(* AES keys of 16, 24 and 32 bytes serve both ways; any other length is    *)
(* refused and leaves the structure as it is.                              *)
Rounds == [n \in {16, 24, 32} |-> CASE n = 16 -> 10 [] n = 24 -> 12 [] n = 32 -> 14]

AesSetKey(impl, key, dir) ==
    /\ Len(key) \in DOMAIN Rounds
    /\ ckey' = [alg |-> "aes", impl |-> impl, user |-> key, dir |-> dir,
                rk  |-> KeyExpansion(ToBits(key), Len(key) \div 4, Rounds[Len(key)])]
    /\ UNCHANGED <<blocks, plain, done>>

Sm4SetKey(impl, key, dir) ==
    /\ Len(key) = 16
    /\ ckey' = [alg |-> "sm4", impl |-> impl, user |-> key, dir |-> dir,
                rk  |-> Sm4KeySchedule(impl, ToBits(key), dir)]
    /\ UNCHANGED <<blocks, plain, done>>

Encrypted(in) ==
    CASE ckey.impl = "scalar" -> [i \in DOMAIN in |-> ScalarEncrypt(ckey.rk, in[i])]
      [] ckey.impl = "aesni"  -> AesniEncryptBlocks(ckey.rk, in)
      [] ckey.impl = "armce"  -> ArmceEncryptBlocks(ckey.rk, in)
      [] OTHER -> [i \in DOMAIN in |-> Sm4CryptBlock(ckey.impl, ckey.rk, in[i])]

DecryptedBlock(in) ==
    CASE ckey.impl = "scalar" -> ScalarDecrypt(ckey.rk, in)
      [] ckey.impl = "aesni"  -> AesniDecrypt(ckey.rk, in)
      [] ckey.impl = "armce"  -> ArmceDecrypt(ckey.rk, in)
      [] OTHER -> Sm4CryptBlock(ckey.impl, ckey.rk, in)

Did(op) == [op |-> op, alg |-> ckey.alg, user |-> ckey.user, dir |-> ckey.dir]

(* ops->encrypt_blocks; the call uses the key up, to keep it bounded.      *)
EncryptBlocks ==
    /\ ckey # NoKey /\ Len(done) < 2
    /\ blocks' = Encrypted(blocks)
    /\ done' = Append(done, Did("encrypt"))
    /\ ckey' = NoKey /\ UNCHANGED plain

(* ops->decrypt_block, block after block.                                  *)
DecryptBlocks ==
    /\ ckey # NoKey /\ Len(done) < 2
    /\ blocks' = [i \in DOMAIN blocks |-> DecryptedBlock(blocks[i])]
    /\ done' = Append(done, Did("decrypt"))
    /\ ckey' = NoKey /\ UNCHANGED plain

(* The second time with the first key.                                     *)
KeyFor(i, k) ==
    /\ ckey = NoKey /\ i[1] = k[1] /\ Len(done) < 2
    /\ done # <<>> => done[1].alg = k[1] /\ done[1].user = k[2]

CiphersNext ==
    \/ \E i \in Impls, k \in UserKeys, dir \in {"encrypt", "decrypt"} :
        /\ KeyFor(i, k)
        /\ \/ i[1] = "aes" /\ AesSetKey(i[2], k[2], dir)
           \/ i[1] = "sm4" /\ Sm4SetKey(i[2], k[2], dir)
    \/ EncryptBlocks
    \/ DecryptBlocks

-----------------------------------------------------------------------------
(* Properties.                                                             *)

(* The product of two polynomials over GF(2), reduced by poly, of degree 8. *)
FieldProduct(a, b, poly) ==
    LET full == {n \in 0 .. 14 : Cardinality({i \in a : n >= i /\ n - i \in b}) % 2 = 1}
    IN  FoldLeft(LAMBDA p, n : IF n \in p THEN Xor(p, {k + n - 8 : k \in poly}) ELSE p,
                 full, <<14, 13, 12, 11, 10, 9, 8>>)

Parity(S) == Cardinality(S) % 2 = 1

Inverses(a, b, poly) == IF a = {} THEN b = {} ELSE FieldProduct(a, b, poly) = {0}

(* FIPS 197, 5.1.1: the affine map of the inverse modulo x^8+x^4+x^3+x+1.  *)
AesPoly == {0, 1, 3, 4, 8}
AesAffine(b) ==
    Xor({i \in Byte8 : Parity({k \in {0, 4, 5, 6, 7} : (i + k) % 8 \in b})}, Bits[99])

(* GB/T 32907: the affine map, the inverse modulo x^8+x^7+x^6+x^5+x^4+x^2+1 *)
(* and the same map again.                                                 *)
Sm4Poly == {0, 2, 4, 5, 6, 7, 8}
Sm4Affine == [n \in 0 .. 255 |->
    Xor({i \in Byte8 : Parity({k \in Bits[n] : (k + 8 - i) % 8 \in {0, 1, 2, 5, 7}})},
        Bits[211])]

SboxesExact ==
    \A n \in 0 .. 255 :
        /\ \E i \in 0 .. 255 :
            /\ Bits[sbox[n + 1]] = AesAffine(Bits[i])
            /\ Inverses(Bits[n], Bits[i], AesPoly)
        /\ rsbox[sbox[n + 1] + 1] = n
        /\ \E i \in 0 .. 255 :
            /\ Bits[SBOX[n + 1]] = Sm4Affine[i]
            /\ Inverses(Sm4Affine[n], Bits[i], Sm4Poly)
        /\ LET x == Word(ToBits(<<n, (n + 1) % 256, 255 - n, (n * 7) % 256>>))
           IN  SboxWord(x) = Tau(x)

(* FIPS 197, a round: byte r of column c of the result.                    *)
AesRound(s, k) ==
    Listed([i \in DOMAIN s |->
        LET r == (i - 1) % 4
            c == (i - 1) \div 4
            term(j) == FieldProduct(Bits[<<2, 3, 1, 1>>[((4 + j - r) % 4) + 1]],
                                    SubByte(s[(4 * ((c + j) % 4)) + j + 1]), AesPoly)
        IN  Sum(<<term(0), term(1), term(2), term(3), k[i]>>)])

AesOf(user, in) ==
    LET nr == Rounds[Len(user)]
        rk == KeyExpansion(ToBits(user), Len(user) \div 4, nr)
        s  == FoldLeft(LAMBDA t, r : AesRound(t, rk[r + 1]), XorBlock(in, rk[1]), Up(nr - 1))
    IN  [i \in 1 .. 16 |->
            Xor(SubByte(s[(4 * ((((i - 1) \div 4) + (i - 1)) % 4)) + ((i - 1) % 4) + 1]),
                    rk[nr + 1][i])]

(* FIPS 197, appendix C, and GB/T 32907, A.1.                              *)
CountUp(n) == [i \in 1 .. n |-> i - 1]
Nibbles    == [i \in 1 .. 16 |-> 17 * (i - 1)]
Sm4Sample  == <<1, 35, 69, 103, 137, 171, 205, 239, 254, 220, 186, 152, 118, 84, 50, 16>>

Vectors == {
    [alg |-> "aes", user |-> CountUp(16), in |-> Nibbles, out |->
        <<105, 196, 224, 216, 106, 123, 4, 48, 216, 205, 183, 128, 112, 180, 197, 90>>],
    [alg |-> "aes", user |-> CountUp(24), in |-> Nibbles, out |->
        <<221, 169, 124, 164, 134, 76, 223, 224, 110, 175, 112, 160, 236, 13, 113, 145>>],
    [alg |-> "aes", user |-> CountUp(32), in |-> Nibbles, out |->
        <<142, 162, 183, 202, 81, 103, 69, 191, 234, 252, 73, 144, 75, 73, 96, 137>>],
    [alg |-> "sm4", user |-> Sm4Sample, in |-> Sm4Sample, out |->
        <<104, 30, 223, 52, 210, 6, 150, 94, 134, 179, 233, 79, 83, 110, 66, 70>>]}

(* An AES key serves both ways; an SM4 key only the one it was set for,    *)
(* since decrypt_block is encrypt_block.                                   *)
RightKey(d) == d.alg = "sm4" => d.dir = d.op

(* sdc_aes_*_ops, sdc_sm4_table_ops, sdc_sm4_ct_ops: every S-box is the    *)
(* standard's, whichever backend encrypts is the standard's cipher on      *)
(* every block of a batch and of its remainder, and whichever backend      *)
(* undoes what another did gives the data back.                            *)
CiphersExact ==
    /\ done = <<>> /\ ckey = NoKey /\ plain # <<>> => SboxesExact
    /\ Len(done) = 1 /\ done[1].op = "encrypt" /\ RightKey(done[1]) =>
        \A i \in DOMAIN blocks :
            /\ done[1].alg = "aes" => blocks[i] = AesOf(done[1].user, ToBits(plain[i]))
            /\ \A v \in Vectors :
                v.alg = done[1].alg /\ v.user = done[1].user /\ v.in = plain[i] =>
                    blocks[i] = ToBits(v.out)
    /\ Len(done) = 2 /\ done[1].op # done[2].op /\ RightKey(done[1]) /\ RightKey(done[2]) =>
        blocks = [i \in DOMAIN plain |-> ToBits(plain[i])]
=============================================================================
