------------------------------- MODULE Bytes --------------------------------
(***************************************************************************)
(* The bytes the cipher modes and the MACs of src/src move about.          *)
(*                                                                         *)
(* A byte is known by where it comes from and by the keystream bytes XORed *)
(* onto it; XOR is symmetric difference, so the same keystream byte twice  *)
(* cancels.  A MAC is a free algebra: its accumulator is the sequence of   *)
(* bytes it has absorbed, so two are equal exactly when the same blocks    *)
(* were absorbed in the same order.                                        *)
(***************************************************************************)
EXTENDS Naturals, Sequences

CONSTANT BlockSize      \* 16 in the code: the bytes of a GHASH or Poly1305 block

ASSUME BlockSizeAssumption == BlockSize \in Nat \ {0}

KsByte == Nat \X Nat    \* <<counter of the keystream block, offset in it>>

Byte == [src : {"zero", "one", "aad", "msg", "bad", "len"},
         at  : Seq(Nat),
         ks  : SUBSET KsByte]

ZeroByte     == [src |-> "zero", at |-> <<>>, ks |-> {}]
BadByte      == [src |-> "bad", at |-> <<>>, ks |-> {}]   \* not what was sent
AadByte(i)   == [src |-> "aad", at |-> <<i>>, ks |-> {}]
PlainByte(i) == [src |-> "msg", at |-> <<i>>, ks |-> {}]

Xor(b, k) == [src |-> b.src, at |-> b.at, ks |-> (b.ks \ {k}) \cup ({k} \ b.ks)]

Zeros(n) == [i \in 1 .. n |-> ZeroByte]

AadOf(n) == [i \in 1 .. n |-> AadByte(i)]

(* The closing block: the two 64-bit lengths, here in bytes.               *)
LenBlock(aadLen, dataLen) ==
    [i \in 1 .. BlockSize |->
        [src |-> "len", at |-> <<aadLen, dataLen, i>>, ks |-> {}]]

WholeBlocks(n) == (n \div BlockSize) * BlockSize

(* A string zero-filled to whole blocks.                                   *)
Padded(s) == s \o Zeros((BlockSize - (Len(s) % BlockSize)) % BlockSize)
=============================================================================
