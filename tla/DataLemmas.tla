----------------------------- MODULE DataLemmas -----------------------------
(***************************************************************************)
(* Facts about naturals, sequences and the padded strings of Bytes that    *)
(* the proofs share: induction in a form the provers can instantiate (a    *)
(* set in the place of a predicate), quotients and remainders, and what a  *)
(* MAC absorbs of AAD and data.                                            *)
(***************************************************************************)
EXTENDS Bytes, SequenceTheorems, WellFoundedInduction, TLAPS

(* The order of the naturals as a relation.                                *)
Below == {ss \in Nat \X Nat : ss[1] < ss[2]}

(* A set of naturals that is not empty has a least element.                *)
LEMMA LeastNat ==
    ASSUME NEW S, S \subseteq Nat, S # {}
    PROVE  \E n \in S : \A m \in S : n <= m
<1>1. IsWellFoundedOn(Below, Nat)
  BY NatLessThanWellFounded DEF OpToRel, Below
<1>2. PICK x \in S : \A y \in S : ~ (<<y, x>> \in Below)
  BY <1>1, WFMin
<1>3. \A x1 \in S, y \in S : <<y, x1>> \in Below <=> y < x1
  BY DEF Below
<1>4. \A y \in S : ~ (y < x)
  BY <1>2, <1>3
<1> QED
  BY <1>4

(* Induction: a set of naturals that holds 0 and the successor of each of  *)
(* its elements holds them all.                                            *)
LEMMA SetInduction ==
    ASSUME NEW S, 0 \in S, \A n \in Nat : n \in S => n + 1 \in S
    PROVE  \A n \in Nat : n \in S
<1> DEFINE T == {n \in Nat : n \notin S}
<1>1. SUFFICES ASSUME T # {} PROVE FALSE
  OBVIOUS
<1>2. PICK n \in T : \A m \in T : n <= m
  <2>1. T \subseteq Nat
    OBVIOUS
  <2> HIDE DEF T
  <2> QED
    BY <1>1, <2>1, LeastNat
<1>3. n \in Nat /\ n # 0
  OBVIOUS
<1>4. n - 1 \in Nat /\ n - 1 \notin T
  BY <1>2, <1>3
<1>5. n - 1 \in S /\ (n - 1) + 1 = n
  BY <1>3, <1>4
<1> QED
  BY <1>3, <1>5

-----------------------------------------------------------------------------
(* Quotient and remainder are the numbers that make the sum.               *)
LEMMA DivMod ==
    ASSUME NEW d \in Nat \ {0}, NEW q \in Nat, NEW r \in Nat, r < d
    PROVE  (q * d + r) \div d = q /\ (q * d + r) % d = r
OBVIOUS

(* Every natural is quotient times divisor plus remainder.                 *)
LEMMA DivModSplit ==
    ASSUME NEW d \in Nat \ {0}, NEW n \in Nat
    PROVE  /\ n \div d \in Nat /\ n % d \in Nat /\ n % d < d
           /\ n = (n \div d) * d + (n % d)
OBVIOUS

(* Multiplication by a positive number keeps the order, both ways.         *)
LEMMA MultOrder ==
    ASSUME NEW d \in Nat \ {0}, NEW a \in Nat, NEW b \in Nat
    PROVE  /\ a < b <=> a * d < b * d
           /\ a <= b <=> a * d <= b * d
           /\ a = b <=> a * d = b * d
           /\ a * d \in Nat
OBVIOUS

(* Numbers below the divisor, and its multiples.                           *)
LEMMA SmallMod ==
    ASSUME NEW d \in Nat \ {0}, NEW r \in Nat
    PROVE  /\ r < d => r \div d = 0 /\ r % d = r
           /\ (r * d) \div d = r /\ (r * d) % d = 0
           /\ d % d = 0 /\ 0 % d = 0
OBVIOUS

(* Whole blocks in front do not change a remainder.                        *)
LEMMA ModAdd ==
    ASSUME NEW B \in Nat \ {0}, NEW s \in Nat, s % B = 0, NEW y \in Nat
    PROVE  (s + y) % B = y % B
<1> DEFINE q == s \div B
           p == y \div B
           r == y % B
<1>1. /\ q \in Nat /\ p \in Nat /\ r \in Nat /\ r < B
      /\ s = q * B /\ y = p * B + r /\ r = y % B
  BY DivModSplit
<1> HIDE DEF q, p, r
<1>2. s + y = (q + p) * B + r
  BY <1>1
<1>3. ((q + p) * B + r) % B = r
  <2>1. q + p \in Nat
    BY <1>1
  <2> QED
    BY <1>1, <2>1, DivMod
<1> QED
  BY <1>1, <1>2, <1>3

-----------------------------------------------------------------------------
(* A table over 1 .. n is a sequence of length n.                          *)
LEMMA TableIsSeq ==
    ASSUME NEW S, NEW n \in Nat, NEW f \in [1 .. n -> S]
    PROVE  f \in Seq(S) /\ Len(f) = n
OBVIOUS

(* Concatenation of sequences.                                             *)
LEMMA ConcatFacts ==
    ASSUME NEW S, NEW s \in Seq(S), NEW t \in Seq(S)
    PROVE  /\ s \o t \in Seq(S)
           /\ Len(s) \in Nat /\ Len(t) \in Nat
           /\ Len(s \o t) = Len(s) + Len(t)
           /\ s \o <<>> = s /\ <<>> \o s = s
OBVIOUS

(* The elements of a concatenation.                                        *)
LEMMA ConcatAt ==
    ASSUME NEW S, NEW s \in Seq(S), NEW t \in Seq(S)
    PROVE  /\ \A i \in 1 .. Len(s) : (s \o t)[i] = s[i]
           /\ \A i \in 1 .. Len(t) : (s \o t)[Len(s) + i] = t[i]
OBVIOUS

(* Concatenation associates.                                               *)
LEMMA ConcatAssoc ==
    ASSUME NEW S, NEW s \in Seq(S), NEW t \in Seq(S), NEW u \in Seq(S)
    PROVE  (s \o t) \o u = s \o (t \o u)
OBVIOUS

(* A sequence known by its two parts.                                      *)
LEMMA ConcatIs ==
    ASSUME NEW S, NEW s \in Seq(S), NEW t \in Seq(S), NEW u \in Seq(S),
           Len(u) = Len(s) + Len(t),
           \A i \in 1 .. Len(s) : u[i] = s[i],
           \A i \in 1 .. Len(t) : u[Len(s) + i] = t[i]
    PROVE  s \o t = u
BY SMTT(60)

(* A sequence cut in two.                                                  *)
LEMMA CutFacts ==
    ASSUME NEW S, NEW s \in Seq(S), NEW m \in 0 .. Len(s)
    PROVE  /\ SubSeq(s, 1, m) \in Seq(S)
           /\ Len(SubSeq(s, 1, m)) = m
           /\ SubSeq(s, m + 1, Len(s)) \in Seq(S)
           /\ Len(SubSeq(s, m + 1, Len(s))) = Len(s) - m
           /\ SubSeq(s, 1, m) \o SubSeq(s, m + 1, Len(s)) = s
           /\ SubSeq(s, 1, 0) = <<>>
<1>1. /\ SubSeq(s, 1, m) \in Seq(S) /\ Len(SubSeq(s, 1, m)) = m
      /\ SubSeq(s, m + 1, Len(s)) \in Seq(S)
      /\ Len(SubSeq(s, m + 1, Len(s))) = Len(s) - m
      /\ SubSeq(s, 1, 0) = <<>>
  OBVIOUS
<1>2. SubSeq(s, 1, m) \o SubSeq(s, m + 1, Len(s)) = SubSeq(s, 1, Len(s))
  <2>1. 1 \in 1 .. Len(s) + 1 /\ m \in 1 - 1 .. Len(s) /\ Len(s) \in m .. Len(s)
    OBVIOUS
  <2> QED
    BY <2>1, ConcatAdjacentSubSeq
<1>3. SubSeq(s, 1, Len(s)) = s
  BY SubSeqFull
<1> QED
  BY <1>1, <1>2, <1>3, ZenonT(60)

(* Two sequences that begin with equally many elements split alike.        *)
LEMMA ConcatCancel ==
    ASSUME NEW S, NEW a \in Seq(S), NEW b \in Seq(S), NEW c \in Seq(S), NEW d \in Seq(S),
           a \o b = c \o d, Len(a) = Len(c)
    PROVE  a = c /\ b = d
<1>1. Len(a) + Len(b) = Len(a \o b) /\ Len(c) + Len(d) = Len(c \o d)
  BY ConcatFacts
<1>2. Len(b) = Len(d) /\ Len(a) \in Nat /\ Len(b) \in Nat
  BY <1>1
<1>3. ASSUME NEW i \in 1 .. Len(a) PROVE a[i] = c[i]
  <2>1. (a \o b)[i] = a[i]
    BY ConcatAt
  <2>2. (c \o d)[i] = c[i]
    BY ConcatAt
  <2> QED
    BY <2>1, <2>2
<1>4. ASSUME NEW i \in 1 .. Len(b) PROVE b[i] = d[i]
  <2>1. \A j \in 1 .. Len(b) : (a \o b)[Len(a) + j] = b[j]
    BY ONLY ConcatAt, a \in Seq(S), b \in Seq(S)
  <2>2. \A j \in 1 .. Len(d) : (c \o d)[Len(c) + j] = d[j]
    BY ONLY ConcatAt, c \in Seq(S), d \in Seq(S)
  <2> QED
    BY <1>2, <2>1, <2>2
<1>5. a = c
  BY <1>3, SeqEqual
<1>6. b = d
  BY <1>2, <1>4, SeqEqual
<1> QED
  BY <1>5, <1>6

-----------------------------------------------------------------------------
(* The bytes the model is built from are bytes.                            *)
LEMMA ByteTypes ==
    /\ ZeroByte \in Byte /\ BadByte \in Byte
    /\ \A i \in Nat : AadByte(i) \in Byte /\ PlainByte(i) \in Byte
    /\ \A b \in Byte, k \in KsByte : Xor(b, k) \in Byte
<1>1. <<>> \in Seq(Nat) /\ \A i \in Nat : <<i>> \in Seq(Nat)
  OBVIOUS
<1>2. \A b \in Byte, k \in KsByte : Xor(b, k) \in Byte
  BY DEF Xor, Byte
<1>3. ZeroByte \in Byte /\ BadByte \in Byte
  BY <1>1 DEF ZeroByte, BadByte, Byte
<1>4. ASSUME NEW i \in Nat PROVE AadByte(i) \in Byte /\ PlainByte(i) \in Byte
  BY <1>1 DEF AadByte, PlainByte, Byte
<1> QED
  BY <1>2, <1>3, <1>4

(* Padding is a string of bytes.                                           *)
LEMMA ZerosFacts ==
    ASSUME NEW n \in Nat
    PROVE  Zeros(n) \in Seq(Byte) /\ Len(Zeros(n)) = n
<1>1. Zeros(n) \in [1 .. n -> Byte]
  BY ByteTypes DEF Zeros
<1> QED
  BY <1>1, TableIsSeq

(* AAD is a string of bytes.                                               *)
LEMMA AadOfFacts ==
    ASSUME NEW n \in Nat
    PROVE  AadOf(n) \in Seq(Byte) /\ Len(AadOf(n)) = n
<1>1. AadOf(n) \in [1 .. n -> Byte]
  BY ByteTypes DEF AadOf
<1> QED
  BY <1>1, TableIsSeq

(* The length block is a block, and names both lengths.                    *)
LEMMA LenBlockFacts ==
    ASSUME NEW a \in Nat, NEW d \in Nat
    PROVE  /\ LenBlock(a, d) \in Seq(Byte) /\ Len(LenBlock(a, d)) = BlockSize
           /\ \A b, e \in Nat : LenBlock(a, d) = LenBlock(b, e) => a = b /\ d = e
<1>1. BlockSize \in Nat /\ 1 \in 1 .. BlockSize
  BY BlockSizeAssumption
<1>2. ASSUME NEW i \in 1 .. BlockSize
      PROVE  [src |-> "len", at |-> <<a, d, i>>, ks |-> {}] \in Byte
  <2>1. <<a, d, i>> \in Seq(Nat)
    BY <1>1
  <2> QED
    BY <2>1 DEF Byte
<1>3. LenBlock(a, d) \in [1 .. BlockSize -> Byte]
  BY <1>2 DEF LenBlock
<1>4. ASSUME NEW b \in Nat, NEW e \in Nat, LenBlock(a, d) = LenBlock(b, e)
      PROVE  a = b /\ d = e
  <2>1. LenBlock(a, d)[1].at = <<a, d, 1>> /\ LenBlock(b, e)[1].at = <<b, e, 1>>
    BY <1>1 DEF LenBlock
  <2>2. <<a, d, 1>> = <<b, e, 1>>
    BY <1>4, <2>1
  <2> QED
    BY <2>2
<1> QED
  BY <1>1, <1>3, <1>4, TableIsSeq

(* Strings of bytes under concatenation.                                   *)
LEMMA Join ==
    /\ \A s, t \in Seq(Byte) : s \o t \in Seq(Byte) /\ Len(s \o t) = Len(s) + Len(t)
    /\ \A s, t, u \in Seq(Byte) : (s \o t) \o u = s \o (t \o u)
    /\ \A s \in Seq(Byte) : Len(s) \in Nat /\ s \o <<>> = s /\ <<>> \o s = s
<1>1. ASSUME NEW s \in Seq(Byte), NEW t \in Seq(Byte)
      PROVE  s \o t \in Seq(Byte) /\ Len(s \o t) = Len(s) + Len(t)
  BY ConcatFacts
<1>2. ASSUME NEW s \in Seq(Byte), NEW t \in Seq(Byte), NEW u \in Seq(Byte)
      PROVE  (s \o t) \o u = s \o (t \o u)
  BY ConcatAssoc
<1>3. ASSUME NEW s \in Seq(Byte) PROVE Len(s) \in Nat /\ s \o <<>> = s /\ <<>> \o s = s
  OBVIOUS
<1> QED
  BY <1>1, <1>2, <1>3

(* Whole blocks, none or one more, and whole blocks are whole blocks.      *)
LEMMA BlockSum ==
    ASSUME NEW h \in Nat, NEW x \in {0, BlockSize}, NEW f \in Nat,
           h % BlockSize = 0, f % BlockSize = 0
    PROVE  (h + x + f) % BlockSize = 0
<1>1. BlockSize \in Nat \ {0} /\ x \in Nat /\ x % BlockSize = 0
  BY BlockSizeAssumption, SmallMod
<1>2. (h + x) % BlockSize = 0
  BY <1>1, ModAdd
<1>3. h + x \in Nat
  BY <1>1
<1> QED
  BY <1>1, <1>2, <1>3, ModAdd

(* The zeros that fill a string up to whole blocks.                        *)
PadLen(n) == (BlockSize - (n % BlockSize)) % BlockSize

(* There are none, or what the last block lacks.                           *)
LEMMA PadLenFacts ==
    ASSUME NEW n \in Nat
    PROVE  /\ PadLen(n) \in Nat
           /\ (n + PadLen(n)) % BlockSize = 0
           /\ PadLen(n) = IF n % BlockSize = 0 THEN 0 ELSE BlockSize - (n % BlockSize)
<1> DEFINE B == BlockSize
           q == n \div B
           r == n % B
<1>1. B \in Nat \ {0}
  BY BlockSizeAssumption
<1>2. q \in Nat /\ r \in Nat /\ r < B /\ n = q * B + r /\ r = n % BlockSize
  BY <1>1, DivModSplit
<1> HIDE DEF B, q, r
<1>3. CASE r = 0
  <2>1. B % B = 0 /\ B - r = B
    BY <1>1, <1>3, SmallMod
  <2>2. PadLen(n) = 0
    BY <1>2, <2>1 DEF PadLen, B
  <2>3. n + PadLen(n) = n
    BY <2>2
  <2> QED
    BY <1>2, <1>3, <2>2, <2>3
<1>4. CASE r # 0
  <2>1. B - r \in Nat /\ B - r < B
    BY <1>1, <1>2, <1>4
  <2>2. (B - r) % B = B - r
    BY <1>1, <2>1, SmallMod
  <2>3. PadLen(n) = B - r
    BY <1>2, <2>1, <2>2 DEF PadLen, B
  <2>4. n + PadLen(n) = (q + 1) * B /\ q + 1 \in Nat
    <3>1. (q + 1) * B = q * B + B /\ q * B \in Nat
      BY <1>1, <1>2
    <3> QED
      BY <1>1, <1>2, <2>3, <3>1
  <2>5. ((q + 1) * B) % B = 0
    BY <1>1, <2>4, SmallMod
  <2> QED
    BY <1>2, <1>4, <2>1, <2>3, <2>4, <2>5 DEF B
<1> QED
  BY <1>3, <1>4

(* A padded string is the string, zeros, and whole blocks.                 *)
LEMMA PaddedFacts ==
    ASSUME NEW s \in Seq(Byte)
    PROVE  /\ Padded(s) = s \o Zeros(PadLen(Len(s)))
           /\ Padded(s) \in Seq(Byte)
           /\ Len(Padded(s)) = Len(s) + PadLen(Len(s))
           /\ Len(Padded(s)) % BlockSize = 0
<1>1. Len(s) \in Nat
  OBVIOUS
<1>2. /\ PadLen(Len(s)) \in Nat /\ (Len(s) + PadLen(Len(s))) % BlockSize = 0
      /\ Zeros(PadLen(Len(s))) \in Seq(Byte) /\ Len(Zeros(PadLen(Len(s)))) = PadLen(Len(s))
  BY <1>1, PadLenFacts, ZerosFacts
<1>3. Padded(s) = s \o Zeros(PadLen(Len(s)))
  BY DEF Padded, PadLen
<1> QED
  BY <1>2, <1>3, ConcatFacts

(* Strings of one length are equal when they are padded to equals.         *)
LEMMA PaddedInjective ==
    ASSUME NEW s \in Seq(Byte), NEW t \in Seq(Byte), Len(s) = Len(t), Padded(s) = Padded(t)
    PROVE  s = t
<1>1. /\ Padded(s) = s \o Zeros(PadLen(Len(s))) /\ Padded(t) = t \o Zeros(PadLen(Len(t)))
      /\ Len(s) \in Nat
  BY PaddedFacts, Join
<1>2. Zeros(PadLen(Len(s))) \in Seq(Byte)
  BY <1>1, PadLenFacts, ZerosFacts
<1> DEFINE z == Zeros(PadLen(Len(s)))
<1>3. s \o z = t \o z /\ z \in Seq(Byte)
  BY <1>1, <1>2
<1> HIDE DEF z
<1> QED
  BY <1>3, ConcatCancel

(* What GHASH and Poly1305 absorb of AAD a and data c.                      *)
Encoding(a, c) == Padded(a) \o Padded(c) \o LenBlock(Len(a), Len(c))

(* aead_auth and ghash_final: AAD, data and both lengths can be read off   *)
(* the bytes the MAC absorbs; no two pairs of AAD and data share them.     *)
THEOREM EncodingInjective ==
    ASSUME NEW a \in Seq(Byte), NEW c \in Seq(Byte), NEW b \in Seq(Byte), NEW e \in Seq(Byte),
           Encoding(a, c) = Encoding(b, e)
    PROVE  a = b /\ c = e
<1> DEFINE l1 == LenBlock(Len(a), Len(c))
           l2 == LenBlock(Len(b), Len(e))
           f1 == Padded(a) \o Padded(c)
           f2 == Padded(b) \o Padded(e)
<1>1. /\ Padded(a) \in Seq(Byte) /\ Padded(b) \in Seq(Byte)
      /\ Padded(c) \in Seq(Byte) /\ Padded(e) \in Seq(Byte)
      /\ Len(a) \in Nat /\ Len(b) \in Nat /\ Len(c) \in Nat /\ Len(e) \in Nat
  BY PaddedFacts, Join
<1>2. /\ l1 \in Seq(Byte) /\ l2 \in Seq(Byte) /\ Len(l1) = BlockSize /\ Len(l2) = BlockSize
      /\ l1 = l2 => Len(a) = Len(b) /\ Len(c) = Len(e)
  BY <1>1, LenBlockFacts, SMTT(60)
<1>3. f1 \in Seq(Byte) /\ f2 \in Seq(Byte)
  BY <1>1, Join
<1>4. f1 \o l1 = f2 \o l2
  BY DEF Encoding, f1, f2, l1, l2
<1> HIDE DEF l1, l2, f1, f2
<1>5. Len(f1) = Len(f2)
  <2>1. Len(f1 \o l1) = Len(f1) + Len(l1) /\ Len(f2 \o l2) = Len(f2) + Len(l2)
    BY <1>2, <1>3, Join
  <2>2. Len(f1) \in Nat /\ Len(f2) \in Nat /\ BlockSize \in Nat
    BY <1>3, Join, BlockSizeAssumption
  <2> QED
    BY <1>2, <1>4, <2>1, <2>2
<1>6. f1 = f2 /\ l1 = l2
  BY <1>2, <1>3, <1>4, <1>5, ConcatCancel
<1>7. Len(a) = Len(b) /\ Len(c) = Len(e)
  BY <1>2, <1>6
<1>8. Len(Padded(a)) = Len(Padded(b))
  BY <1>7, PaddedFacts
<1>9. Padded(a) = Padded(b) /\ Padded(c) = Padded(e)
  BY <1>1, <1>6, <1>8, ConcatCancel DEF f1, f2
<1> QED
  BY <1>7, <1>9, PaddedInjective
=============================================================================
