------------------------------ MODULE HashData ------------------------------
(***************************************************************************)
(* Hash algorithms, the bytes they absorb, and what a digest is: the       *)
(* compression of the padded message.  Compression is a free function, so  *)
(* a chaining state is the sequence of bytes absorbed so far.              *)
(***************************************************************************)
EXTENDS Naturals, Sequences

CONSTANT WordMod        \* 2^64 in the code: the range of a bit count word

ASSUME WordAssumption == WordMod \in Nat \ {0}

(* An algorithm: "md" (SHA-2, SM3), "sha3" or "shake".                     *)
Alg == [name     : STRING,
        kind     : {"md", "sha3", "shake"},
        block    : Nat \ {0},   \* bytes per compression, or the sponge's rate
        lenField : Nat,         \* bytes of the padding's length field
        words    : {1, 2},      \* words of the bit count
        pad      : Nat,         \* first padding byte: 128, 6 or 31
        hashLen  : Nat]

Byte == [src : {"msg", "zero", "mark", "len", "stale", "squeezed"}, at : Seq(Nat)]

MsgByte(i)   == [src |-> "msg", at |-> <<i>>]
Zero         == [src |-> "zero", at |-> <<>>]
Stale        == [src |-> "stale", at |-> <<>>]      \* left by an earlier use
XorMark(b,c) == [src |-> "mark", at |-> b.at \o <<c>>]

MsgOf(n)  == [i \in 1 .. n |-> MsgByte(i)]
Zeros(n)  == [i \in 1 .. n |-> Zero]

(* The big-endian bit count that ends the padding.                         *)
LenField(alg, count) ==
    [i \in 1 .. alg.lenField |-> [src |-> "len", at |-> <<count[1], count[2], i>>]]

(* The bit length of n bytes, low word first; FIPS 180-4 and GB/T 32905    *)
(* define no digest beyond the range of the field.                         *)
BitCount(alg, n) == <<(8 * n) % WordMod, (8 * n) \div WordMod>>

-----------------------------------------------------------------------------
(* Reference: the padded message, always whole blocks.                     *)

(* The fewest zeros that leave room for the length field.                  *)
MdFill(alg, n) ==
    CHOOSE k \in 0 .. alg.block - 1 : (n + 1 + k + alg.lenField) % alg.block = 0

MdPadded(alg, msg) ==
    msg \o <<XorMark(Zero, 128)>> \o Zeros(MdFill(alg, Len(msg)))
        \o LenField(alg, BitCount(alg, Len(msg)))

(* 0x06 or 0x1F, zeros, 0x80: one byte if there is room for one only.      *)
SpongePadded(alg, msg) ==
    LET q == alg.block - (Len(msg) % alg.block) IN
    msg \o (IF q = 1 THEN <<XorMark(XorMark(Zero, alg.pad), 128)>>
            ELSE <<XorMark(Zero, alg.pad)>> \o Zeros(q - 2) \o <<XorMark(Zero, 128)>>)

PaddedMsg(alg, msg) == IF alg.kind = "md" THEN MdPadded(alg, msg) ELSE SpongePadded(alg, msg)

(* Output byte j of a sponge: its permutation after the padding and its    *)
(* offset in the rate.  The output of an "md" algorithm is one state.      *)
StreamByte(alg, j) ==
    IF alg.kind = "md" THEN <<0, j>> ELSE <<(j - 1) \div alg.block, ((j - 1) % alg.block) + 1>>

OutputOf(alg, n) == [j \in 1 .. n |-> StreamByte(alg, j)]

Digest(absorbed, at) == [rc |-> "OK", of |-> absorbed, at |-> at]

NoResult == [rc |-> "none", of |-> <<>>, at |-> <<>>]
=============================================================================
