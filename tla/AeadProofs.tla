----------------------------- MODULE AeadProofs -----------------------------
(***************************************************************************)
(* The AEAD context for every block size, word size, keystream variant,    *)
(* AAD and message length and every split into calls: the MAC context      *)
(* holds the padded AAD and the message, the keystream context stands at   *)
(* the message's next byte, and the tag is injective.                      *)
(***************************************************************************)
EXTENDS Aead, ChaChaProofs

-----------------------------------------------------------------------------
-----------------------------------------------------------------------------
(* Poly1305.  Between two calls the accumulator has whole blocks and the   *)
(* buffer less than one; together they are the bytes fed.                  *)
Fed(p) == p.h \o p.buf

PolyOpen(p) == p \in PolyCtx /\ Len(p.buf) < BlockSize /\ Len(p.h) % BlockSize = 0

(* The buffer holds what exceeds the whole blocks of the bytes fed.        *)
LEMMA FedLength ==
    ASSUME NEW p, PolyOpen(p)
    PROVE  /\ Fed(p) \in Seq(Byte) /\ Len(Fed(p)) = Len(p.h) + Len(p.buf)
           /\ Len(p.buf) = Len(Fed(p)) % BlockSize
<1>1. p.h \in Seq(Byte) /\ p.buf \in Seq(Byte) /\ BlockSize \in Nat \ {0}
  BY BlockSizeAssumption DEF PolyOpen, PolyCtx
<1>2. /\ Fed(p) \in Seq(Byte) /\ Len(Fed(p)) = Len(p.h) + Len(p.buf)
      /\ Len(p.h) \in Nat /\ Len(p.buf) \in Nat
  BY <1>1, ConcatFacts DEF Fed
<1>3. (Len(p.h) + Len(p.buf)) % BlockSize = Len(p.buf) % BlockSize
  BY <1>1, <1>2, ModAdd DEF PolyOpen
<1>4. Len(p.buf) % BlockSize = Len(p.buf)
  BY <1>1, <1>2, SmallMod DEF PolyOpen
<1> QED
  BY <1>2, <1>3, <1>4

(* A block topped up, whole blocks and a rest: all the bytes, in order.    *)
LEMMA PolyAbsorb ==
    ASSUME NEW p, PolyOpen(p),
           NEW l \in Seq(Byte), NEW m \in Seq(Byte), NEW t \in Seq(Byte),
           Len(p.buf) + Len(l) \in {0, BlockSize}, Len(m) % BlockSize = 0, Len(t) < BlockSize
    PROVE  LET r == [key |-> p.key, h |-> (p.h \o (p.buf \o l)) \o m, buf |-> t]
           IN  PolyOpen(r) /\ Fed(r) = Fed(p) \o (l \o (m \o t)) /\ r.key = p.key
<1> DEFINE h == p.h
           b == p.buf
           r == [key |-> p.key, h |-> (h \o (b \o l)) \o m, buf |-> t]
<1>1. /\ h \in Seq(Byte) /\ b \in Seq(Byte)
      /\ Len(h) % BlockSize = 0 /\ p.key \in Seq(KsByte)
      /\ Len(b) + Len(l) \in {0, BlockSize} /\ Fed(p) = h \o b
  BY DEF PolyOpen, PolyCtx, Fed
<1> SUFFICES PolyOpen(r) /\ Fed(r) = Fed(p) \o (l \o (m \o t)) /\ r.key = p.key
  OBVIOUS
<1> HIDE DEF h, b
<1>2. /\ ((h \o (b \o l)) \o m) \o t = (h \o b) \o (l \o (m \o t))
      /\ (h \o (b \o l)) \o m \in Seq(Byte)
      /\ Len((h \o (b \o l)) \o m) = (Len(h) + Len(b \o l)) + Len(m)
  <2>1. h \o (b \o l) = (h \o b) \o l /\ h \o b \in Seq(Byte) /\ b \o l \in Seq(Byte)
    BY <1>1, Join
  <2>2. h \o (b \o l) \in Seq(Byte) /\ Len(h \o (b \o l)) = Len(h) + Len(b \o l)
    BY <1>1, <2>1, Join
  <2>3. ((h \o (b \o l)) \o m) \o t = (h \o (b \o l)) \o (m \o t) /\ m \o t \in Seq(Byte)
    BY <2>2, Join, ZenonT(60)
  <2>4. ((h \o b) \o l) \o (m \o t) = (h \o b) \o (l \o (m \o t))
    BY <2>1, <2>3, Join, ZenonT(60)
  <2>5. /\ (h \o (b \o l)) \o m \in Seq(Byte)
        /\ Len((h \o (b \o l)) \o m) = Len(h \o (b \o l)) + Len(m)
    BY <2>2, Join
  <2> QED
    BY <2>1, <2>2, <2>3, <2>4, <2>5
<1>3. Len(b \o l) = Len(b) + Len(l)
  BY <1>1, Join
<1>4. Len(h) \in Nat /\ Len(m) \in Nat
  BY <1>1, Join
<1>5. (Len(h) + (Len(b) + Len(l)) + Len(m)) % BlockSize = 0
  BY <1>1, <1>4, BlockSum
<1>6. r.h = (h \o (b \o l)) \o m /\ r.buf = t /\ r.key = p.key
  OBVIOUS
<1>7. r \in PolyCtx
  BY <1>1, <1>2 DEF PolyCtx
<1>8. Len(r.h) % BlockSize = 0
  BY <1>2, <1>3, <1>5, <1>6
<1>9. Fed(r) = Fed(p) \o (l \o (m \o t))
  BY <1>1, <1>2, <1>6 DEF Fed
<1> QED
  BY <1>6, <1>7, <1>8, <1>9 DEF PolyOpen

(* update() absorbs the bytes given, whole blocks of them at once.         *)
LEMMA PolyUpdateFacts ==
    ASSUME NEW p, PolyOpen(p), NEW in \in Seq(Byte)
    PROVE  /\ PolyOpen(PolyUpdate(p, in))
           /\ PolyUpdate(p, in).key = p.key
           /\ Fed(PolyUpdate(p, in)) = Fed(p) \o in
<1> DEFINE B    == BlockSize
           r    == PolyUpdate(p, in)
           want == IF p.buf = <<>> THEN 0 ELSE B - Len(p.buf)
           left == SubSeq(in, 1, want)
           head == p.buf \o left
           rest == SubSeq(in, want + 1, Len(in))
           full == WholeBlocks(Len(rest))
           mid  == SubSeq(rest, 1, full)
           tail == SubSeq(rest, full + 1, Len(rest))
<1>1. /\ p.h \in Seq(Byte) /\ p.buf \in Seq(Byte) /\ B \in Nat \ {0} /\ p \in PolyCtx
      /\ Len(p.buf) \in Nat /\ Len(in) \in Nat /\ Len(p.h) \in Nat
      /\ Len(p.buf) < B /\ Len(p.h) % B = 0
  BY BlockSizeAssumption DEF PolyOpen, PolyCtx
<1>2. want \in Nat
  BY <1>1
<1>3. r = IF Len(in) < want THEN [p EXCEPT !.buf = @ \o in]
          ELSE [p EXCEPT !.h = @ \o head \o mid, !.buf = tail]
  BY DEF PolyUpdate
<1> HIDE DEF r
<1>4. CASE Len(in) < want
  <2>1. r = [key |-> p.key, h |-> p.h, buf |-> p.buf \o in]
    BY <1>1, <1>3, <1>4 DEF PolyCtx
  <2>2. p.buf \o in \in Seq(Byte) /\ Len(p.buf \o in) = Len(p.buf) + Len(in)
    BY <1>1, ConcatFacts
  <2>3. Len(p.buf) + Len(in) < B
    BY <1>1, <1>4
  <2>4. Fed(r) = p.h \o (p.buf \o in) /\ Fed(r) = Fed(p) \o in
    BY <1>1, <2>1, Join DEF Fed
  <2> QED
    <3>1. r \in PolyCtx
      BY <1>1, <2>1, <2>2 DEF PolyCtx
    <3>2. r.key = p.key /\ Len(r.buf) < BlockSize /\ Len(r.h) % BlockSize = 0
      BY <1>1, <2>1, <2>2, <2>3
    <3> QED
      BY <2>4, <3>1, <3>2 DEF PolyOpen, r
<1>5. CASE ~ (Len(in) < want)
  <2>1. want \in 0 .. Len(in) /\ Len(p.buf) + want \in {0, B}
    <3>1. p.buf = <<>> => Len(p.buf) = 0
      OBVIOUS
    <3>2. want = IF p.buf = <<>> THEN 0 ELSE B - Len(p.buf)
      OBVIOUS
    <3> HIDE DEF want
    <3>3. Len(p.buf) + want \in {0, B}
      <4>1. Len(p.buf) \in Nat /\ B \in Nat
        BY <1>1
      <4>2. CASE p.buf = <<>>
        BY <3>1, <3>2, <4>1, <4>2
      <4>3. CASE p.buf # <<>>
        <5>1. want = B - Len(p.buf)
          BY <3>2, <4>3
        <5> QED
          BY <4>1, <5>1
      <4> QED
        BY <4>2, <4>3
    <3> QED
      BY <1>1, <1>2, <1>5, <3>3
  <2>2. r = [p EXCEPT !.h = @ \o head \o mid, !.buf = tail]
    BY <1>3, <1>5
  <2> HIDE DEF want
  <2>3. /\ left \in Seq(Byte) /\ Len(left) = want /\ rest \in Seq(Byte)
        /\ left \o rest = in
    BY <2>1, CutFacts
  <2> HIDE DEF left, rest
  <2>4. Len(rest) \in Nat
    BY <2>3
  <2>5. full \in 0 .. Len(rest) /\ Len(rest) - full < B /\ full % B = 0
    <3> DEFINE d == Len(rest) \div B
    <3>1. d \in Nat /\ d * B <= Len(rest) /\ Len(rest) - d * B < B /\ d * B \in Nat
      <4>1. \A k \in Nat : /\ (k \div B) * B <= k /\ k - (k \div B) * B < B
                           /\ k \div B \in Nat /\ (k \div B) * B \in Nat
        BY <1>1, SMTT(60)
      <4> QED
        BY <2>4, <4>1
    <3>2. (d * B) % B = 0
      <4> HIDE DEF d
      <4> QED
        BY <1>1, <3>1, SmallMod
    <3>3. full = d * B
      BY DEF WholeBlocks
    <3> HIDE DEF d, full
    <3> QED
      BY <2>4, <3>1, <3>2, <3>3
  <2> HIDE DEF full
  <2>6. /\ mid \in Seq(Byte) /\ Len(mid) = full /\ tail \in Seq(Byte)
        /\ Len(tail) = Len(rest) - full /\ mid \o tail = rest
    BY <2>3, <2>5, CutFacts, ZenonT(60)
  <2> HIDE DEF mid, tail
  <2>7. r = [key |-> p.key, h |-> (p.h \o (p.buf \o left)) \o mid, buf |-> tail]
    <3>1. head = p.buf \o left
      OBVIOUS
    <3> HIDE DEF head
    <3>2. r = [key |-> p.key, h |-> (p.h \o head) \o mid, buf |-> tail]
      BY <1>1, <2>2 DEF PolyCtx
    <3> QED
      BY <3>1, <3>2
  <2>8. Len(p.buf) + Len(left) \in {0, BlockSize} /\ Len(mid) % BlockSize = 0
    BY <2>1, <2>3, <2>5, <2>6
  <2>9. Len(tail) < BlockSize
    BY <2>5, <2>6
  <2> HIDE DEF head, B
  <2>10. PolyOpen(r) /\ Fed(r) = Fed(p) \o (left \o (mid \o tail)) /\ r.key = p.key
    <3> DEFINE New(l, m, t) == [key |-> p.key, h |-> (p.h \o (p.buf \o l)) \o m, buf |-> t]
    <3>1. \A l, m, t \in Seq(Byte) :
              /\ Len(p.buf) + Len(l) \in {0, BlockSize} /\ Len(m) % BlockSize = 0
              /\ Len(t) < BlockSize
              => /\ PolyOpen(New(l, m, t)) /\ Fed(New(l, m, t)) = Fed(p) \o (l \o (m \o t))
                 /\ New(l, m, t).key = p.key
      BY PolyAbsorb
    <3>2. r = New(left, mid, tail)
      BY <2>7
    <3> HIDE DEF New
    <3> QED
      <4>1. left \in Seq(Byte) /\ mid \in Seq(Byte) /\ tail \in Seq(Byte)
        BY <2>3, <2>6
      <4>2. Len(p.buf) + Len(left) \in {0, BlockSize}
        BY <2>8
      <4>3. Len(mid) % BlockSize = 0
        BY <2>8
      <4>4. Len(tail) < BlockSize
        BY <2>9
      <4> QED
        BY ONLY <4>1, <4>2, <4>3, <4>4, <3>1, <3>2, ZenonT(60)
  <2>11. Fed(r) = Fed(p) \o in
    BY <2>3, <2>6, <2>10
  <2> QED
    BY <2>10, <2>11 DEF r
<1> QED
  BY <1>4, <1>5

(* Whole blocks leave nothing in an empty buffer.                          *)
LEMMA WholeUpdate ==
    ASSUME NEW p, PolyOpen(p), NEW in \in Seq(Byte),
           (Len(p.buf) + Len(in)) % BlockSize = 0
    PROVE  Len(PolyUpdate(p, in).buf) = 0
<1> DEFINE r == PolyUpdate(p, in)
<1>1. PolyOpen(r) /\ Fed(r) = Fed(p) \o in
  BY PolyUpdateFacts
<1> HIDE DEF r
<1>2. Len(r.buf) = Len(Fed(r)) % BlockSize
  BY <1>1, FedLength
<1>3. Fed(p) \in Seq(Byte) /\ Len(Fed(p)) = Len(p.h) + Len(p.buf)
  BY FedLength
<1>4. Len(Fed(r)) = Len(Fed(p)) + Len(in)
  BY <1>1, <1>3, Join
<1>5. Len(p.h) \in Nat /\ Len(p.buf) \in Nat /\ Len(in) \in Nat /\ Len(p.h) % BlockSize = 0
  BY Join DEF PolyOpen, PolyCtx
<1>6. (Len(p.h) + (Len(p.buf) + Len(in))) % BlockSize = 0
  <2>1. BlockSize \in Nat \ {0} /\ Len(p.buf) + Len(in) \in Nat
    BY <1>5, BlockSizeAssumption
  <2> QED
    BY <1>5, <2>1, ModAdd
<1>7. Len(Fed(r)) = Len(p.h) + (Len(p.buf) + Len(in))
  <2>1. \A x, y, z \in Nat : (x + y) + z = x + (y + z)
    OBVIOUS
  <2>2. Len(Fed(r)) = (Len(p.h) + Len(p.buf)) + Len(in)
    BY <1>3, <1>4
  <2> QED
    BY <1>5, <2>1, <2>2
<1> QED
  BY <1>2, <1>6, <1>7 DEF r

(* pad16(): the zeros that fill the last block, when the length given is   *)
(* that of the bytes in it.                                                *)
LEMMA Pad16Facts ==
    ASSUME NEW p, PolyOpen(p), NEW len \in Nat, Len(p.buf) = len % BlockSize
    PROVE  /\ PolyOpen(Pad16(p, len)) /\ Pad16(p, len).key = p.key
           /\ Len(Pad16(p, len).buf) = 0
           /\ Fed(Pad16(p, len)) = Fed(p) \o Zeros(PadLen(len))
<1>1. /\ PadLen(len) = IF len % BlockSize = 0 THEN 0 ELSE BlockSize - (len % BlockSize)
      /\ PadLen(len) \in Nat /\ Fed(p) \in Seq(Byte) /\ Len(p.buf) \in Nat
      /\ BlockSize \in Nat \ {0}
  BY PadLenFacts, FedLength, BlockSizeAssumption, Join DEF PolyOpen, PolyCtx
<1>2. CASE len % BlockSize = 0
  <2>1. Pad16(p, len) = p /\ Zeros(PadLen(len)) = <<>>
    BY <1>1, <1>2 DEF Pad16, Zeros
  <2>2. Fed(p) \o <<>> = Fed(p)
    BY <1>1, Join
  <2> QED
    BY <1>2, <2>1, <2>2
<1>3. CASE len % BlockSize # 0
  <2> DEFINE z == Zeros(PadLen(len))
  <2>1. z \in Seq(Byte) /\ Len(z) = BlockSize - Len(p.buf)
    BY <1>1, <1>3, ZerosFacts
  <2>2. Pad16(p, len) = PolyUpdate(p, z)
    BY <1>1, <1>3 DEF Pad16
  <2>3. (Len(p.buf) + Len(z)) % BlockSize = 0
    <3>1. Len(p.buf) + Len(z) = BlockSize
      BY <1>1, <2>1
    <3> QED
      BY <1>1, <3>1, SmallMod
  <2> HIDE DEF z
  <2>4. PolyOpen(PolyUpdate(p, z)) /\ PolyUpdate(p, z).key = p.key
        /\ Fed(PolyUpdate(p, z)) = Fed(p) \o z
    BY <2>1, PolyUpdateFacts
  <2>5. Len(PolyUpdate(p, z).buf) = 0
    BY <2>1, <2>3, WholeUpdate
  <2> QED
    BY <2>2, <2>4, <2>5 DEF z
<1> QED
  BY <1>2, <1>3

(* final() of a context that ends on a block is what was fed.              *)
LEMMA PolyMacFacts ==
    ASSUME NEW p, PolyOpen(p), Len(p.buf) = 0
    PROVE  PolyMac(p) = [key |-> p.key, mac |-> Fed(p)]
<1>1. p.buf \in Seq(Byte) /\ p.h \in Seq(Byte)
  BY DEF PolyOpen, PolyCtx
<1>2. p.buf = <<>>
  BY <1>1
<1> QED
  BY <1>2 DEF PolyMac, Fed

(* What the tail of encrypt_final and auth_final computes is the tag of    *)
(* AAD and data when the context was fed the padded AAD and the data.      *)
LEMMA MacOfFacts ==
    ASSUME NEW p, PolyOpen(p), NEW a \in Seq(Byte), NEW d \in Seq(Byte),
           Fed(p) = Padded(a) \o d, ctx.aad_len = Len(a), ctx.total_len = Len(d)
    PROVE  MacOf(p) = [key |-> p.key,
                       mac |-> Padded(a) \o Padded(d) \o LenBlock(Len(a), Len(d))]
<1> DEFINE n == Len(d)
           lb == LenBlock(Len(a), Len(d))
           p1 == Pad16(p, n)
           p2 == PolyUpdate(p1, lb)
           z == Zeros(PadLen(n))
<1>1. /\ n \in Nat /\ Len(a) \in Nat /\ Padded(a) \in Seq(Byte) /\ Padded(d) = d \o z
      /\ Len(Padded(a)) % BlockSize = 0 /\ Len(Padded(a)) \in Nat
      /\ BlockSize \in Nat \ {0}
  BY PaddedFacts, Join, BlockSizeAssumption
<1>2. z \in Seq(Byte)
  BY <1>1, PadLenFacts, ZerosFacts
<1>3. lb \in Seq(Byte) /\ Len(lb) = BlockSize
  BY <1>1, LenBlockFacts
<1> HIDE DEF n, lb, z
<1>4. Len(p.buf) = n % BlockSize
  <2>1. Len(Padded(a) \o d) = Len(Padded(a)) + n
    BY <1>1, Join DEF n
  <2>2. Len(p.buf) = (Len(Padded(a)) + n) % BlockSize
    BY <2>1, FedLength
  <2>3. (Len(Padded(a)) + n) % BlockSize = n % BlockSize
    BY <1>1, ModAdd
  <2> QED
    BY <2>2, <2>3
<1>5. /\ PolyOpen(p1) /\ p1.key = p.key /\ Len(p1.buf) = 0 /\ Fed(p1) = Fed(p) \o z
  BY <1>1, <1>4, Pad16Facts DEF z
<1> HIDE DEF p1
<1>6. /\ PolyOpen(p2) /\ p2.key = p1.key /\ Fed(p2) = Fed(p1) \o lb
  BY <1>3, <1>5, PolyUpdateFacts
<1>7. Len(p2.buf) = 0
  <2>1. (Len(p1.buf) + Len(lb)) % BlockSize = 0
    <3>1. Len(p1.buf) + Len(lb) = BlockSize
      BY <1>1, <1>3, <1>5
    <3> QED
      BY <1>1, <3>1, SmallMod
  <2> QED
    BY <1>3, <1>5, <2>1, WholeUpdate
<1> HIDE DEF p2
<1>8. PolyMac(p2) = [key |-> p2.key, mac |-> Fed(p2)]
  BY <1>6, <1>7, PolyMacFacts
<1>9. MacOf(p) = PolyMac(p2)
  BY DEF MacOf, p1, p2, lb, n
<1>10. (Padded(a) \o d) \o z = Padded(a) \o (d \o z)
  BY <1>1, <1>2, Join, ZenonT(60)
<1>11. Fed(p2) = (Padded(a) \o Padded(d)) \o lb
  BY <1>1, <1>5, <1>6, <1>10
<1> QED
  BY <1>5, <1>6, <1>8, <1>9, <1>11 DEF lb

(* Two pairs of AAD and data with one tag are one pair.                    *)
LEMMA TagInjective ==
    ASSUME NEW a \in Seq(Byte), NEW c \in Seq(Byte), NEW b \in Seq(Byte), NEW e \in Seq(Byte),
           TagOf(a, c) = TagOf(b, e)
    PROVE  a = b /\ c = e
<1>1. Encoding(a, c) = Encoding(b, e)
  BY DEF TagOf, Encoding
<1> QED
  BY <1>1, EncodingInjective

-----------------------------------------------------------------------------
(* The keystream of a message.                                             *)

(* Within the limit a byte's block is not reduced by the counter's range,  *)
(* and it is not block 0.                                                  *)
LEMMA KsOfStream ==
    ASSUME NEW j \in Job, NEW i \in 1 .. MsgLimit(j)
    PROVE  /\ StreamByte(j.v, 1, i - 1) = KsOf(i)
           /\ KsOf(i) \in KsByte /\ KsOf(i)[1] # 0
<1> DEFINE R == CounterRange(j.v)
           b == (i - 1) \div StreamBlock
<1>1. j.v \in Variant /\ R \in Nat \ {0} /\ StreamBlock \in Nat \ {0} /\ MaxMsg \in Nat
  BY VariantSizes, AeadAssumption DEF Job, JobRec
<1>2. (R - 1) * StreamBlock \in Nat
  <2>1. \A x, y \in Nat : x * y \in Nat
    OBVIOUS
  <2> QED
    BY <1>1, <2>1
<1>3. MsgLimit(j) \in Nat /\ MsgLimit(j) <= (R - 1) * StreamBlock
  BY <1>1, <1>2 DEF MsgLimit
<1>4. i - 1 \in Nat /\ i - 1 < (R - 1) * StreamBlock
  BY <1>2, <1>3
<1>5. /\ b \in Nat /\ (i - 1) % StreamBlock \in Nat
      /\ i - 1 = b * StreamBlock + ((i - 1) % StreamBlock)
  BY <1>1, <1>4, DivModSplit
<1> HIDE DEF b
<1>6. b < R - 1
  <2>1. b * StreamBlock \in Nat
    BY <1>1, <1>5, MultOrder
  <2>2. b * StreamBlock < (R - 1) * StreamBlock
    BY <1>2, <1>4, <1>5, <2>1
  <2>3. R - 1 \in Nat
    BY <1>1
  <2> QED
    BY <1>1, <1>5, <2>2, <2>3, MultOrder
<1>7. (1 + b) % R = 1 + b /\ 1 + b \in Nat /\ 1 + b # 0
  <2>1. 1 + b < R /\ 1 + b \in Nat
    BY <1>1, <1>5, <1>6
  <2>2. R \in Nat \ {0} /\ 1 + b # 0
    BY <1>1, <1>5
  <2> HIDE DEF R
  <2> QED
    BY <2>1, <2>2, SmallMod
<1> QED
  BY <1>5, <1>7 DEF StreamByte, KsOf, KsByte, b

(* Two bytes of a message meet different bytes of the keystream.           *)
LEMMA KsOfInjective ==
    ASSUME NEW i \in Nat \ {0}, NEW j \in Nat \ {0}, KsOf(i) = KsOf(j)
    PROVE  i = j
<1> DEFINE B == StreamBlock
<1>1. /\ i - 1 = ((i - 1) \div B) * B + ((i - 1) % B) /\ (i - 1) \div B \in Nat
      /\ j - 1 = ((j - 1) \div B) * B + ((j - 1) % B) /\ (j - 1) \div B \in Nat
  BY ChaChaAssumption, DivModSplit
<1>2. /\ 1 + ((i - 1) \div B) = 1 + ((j - 1) \div B)
      /\ (i - 1) % B = (j - 1) % B
  BY DEF KsOf
<1>3. (i - 1) \div B = (j - 1) \div B
  BY <1>1, <1>2
<1>4. i - 1 = j - 1
  BY <1>1, <1>2, <1>3
<1> QED
  BY <1>4

(* XORed twice with one keystream byte, a byte is itself.                  *)
LEMMA XorTwice ==
    ASSUME NEW i \in Nat, NEW k
    PROVE  /\ Xor(Xor(PlainByte(i), k), k) = PlainByte(i)
           /\ Xor(PlainByte(i), k) # BadByte
           /\ Xor(PlainByte(i), k).ks = {k}
BY DEF Xor, PlainByte, BadByte

(* A message's input is a string of bytes.                                 *)
LEMMA InputTypes ==
    ASSUME NEW j \in Job, NEW n \in 0 .. MsgLimit(j)
    PROVE  /\ n \in Nat
           /\ \A i \in 1 .. n : InByte(j, i) \in Byte /\ CipherByte(i) \in Byte
           /\ InOf(j, n) \in Seq(Byte) /\ Len(InOf(j, n)) = n
           /\ SentOf(n) \in Seq(Byte) /\ Len(SentOf(n)) = n
           /\ OutOf(j, n) \in Seq(Byte) /\ Len(OutOf(j, n)) = n
<1>1. MsgLimit(j) \in Nat
  <2>1. j.v \in Variant /\ CounterRange(j.v) \in Nat \ {0} /\ StreamBlock \in Nat /\ MaxMsg \in Nat
    BY VariantSizes, AeadAssumption, ChaChaAssumption DEF Job, JobRec
  <2>2. \A x, y \in Nat : x * y \in Nat
    OBVIOUS
  <2>3. (CounterRange(j.v) - 1) * StreamBlock \in Nat
    BY <2>1, <2>2
  <2> QED
    BY <2>1, <2>3 DEF MsgLimit
<1>2. n \in Nat
  BY <1>1
<1>3. ASSUME NEW i \in 1 .. n
      PROVE  /\ InByte(j, i) \in Byte /\ CipherByte(i) \in Byte
             /\ Xor(InByte(j, i), KsOf(i)) \in Byte
  <2>1. KsOf(i) \in KsByte /\ i \in Nat
    BY <1>1, KsOfStream
  <2>2. PlainByte(i) \in Byte /\ BadByte \in Byte
    BY <2>1, ByteTypes
  <2>3. CipherByte(i) \in Byte
    BY <2>1, <2>2, ByteTypes DEF CipherByte
  <2>4. InByte(j, i) \in Byte
    BY <2>2, <2>3 DEF InByte
  <2> QED
    BY <2>1, <2>3, <2>4, ByteTypes
<1>4. /\ InOf(j, n) \in [1 .. n -> Byte] /\ SentOf(n) \in [1 .. n -> Byte]
      /\ OutOf(j, n) \in [1 .. n -> Byte]
  BY <1>3 DEF InOf, SentOf, OutOf
<1> QED
  BY <1>2, <1>3, <1>4, TableIsSeq

(* The one-time key is the first bytes of block 0.                         *)
LEMMA MacKeyCut ==
    ASSUME NEW v \in Variant
    PROVE  /\ SubSeq(Crypt(ChaChaInit(v, 0), StreamBlock).ks, 1, 2 * BlockSize) = MacKey
           /\ MacKey \in Seq(KsByte)
<1> DEFINE c == ChaChaInit(v, 0)
           ks == Stream(v, 0, 0, StreamBlock)
           K == 2 * BlockSize
<1>1. StreamBlock \in Nat \ {0} /\ K \in Nat /\ K <= StreamBlock
  BY ChaChaAssumption, AeadAssumption, BlockSizeAssumption
<1>2. StreamAt(c, 0, 0) /\ c.v = v
  BY InitStream
<1> HIDE DEF c
<1>3. Crypt(c, StreamBlock).ks = ks
  <2>1. 0 \in Nat /\ StreamBlock \in Nat
    BY <1>1
  <2> QED
    BY <1>2, <2>1, CryptStream
<1>4. ASSUME NEW i \in 1 .. StreamBlock PROVE ks[i] = <<0, i - 1>>
  <2>1. i - 1 \in Nat /\ i - 1 < StreamBlock
    BY <1>1
  <2>2. (i - 1) \div StreamBlock = 0 /\ (i - 1) % StreamBlock = i - 1
    BY <1>1, <2>1, SmallMod
  <2>3. CounterRange(v) \in Nat \ {0}
    BY VariantSizes
  <2>4. 0 % CounterRange(v) = 0
    BY <2>3, SmallMod
  <2>5. 0 + (i - 1) = i - 1 /\ 0 + 0 = 0
    BY <2>1
  <2>6. ks[i] = StreamByte(v, 0, i - 1)
    BY <2>5 DEF Stream
  <2> HIDE DEF ks
  <2> QED
    BY <2>2, <2>4, <2>5, <2>6 DEF StreamByte
<1>5. \A i \in 1 .. K : <<0, i - 1>> \in KsByte
  BY <1>1 DEF KsByte
<1>6. MacKey \in [1 .. K -> KsByte] /\ MacKey = [i \in 1 .. K |-> <<0, i - 1>>]
  BY <1>5 DEF MacKey
<1>7. SubSeq(ks, 1, K) = [i \in 1 .. K |-> ks[i]]
  BY <1>1 DEF Stream
<1> HIDE DEF ks, K
<1>8. [i \in 1 .. K |-> ks[i]] = [i \in 1 .. K |-> <<0, i - 1>>]
  BY <1>1, <1>4
<1>9. MacKey \in Seq(KsByte)
  BY <1>1, <1>6, TableIsSeq
<1> QED
  BY <1>3, <1>6, <1>7, <1>8, <1>9 DEF c, K

-----------------------------------------------------------------------------
(* The inductive invariant, in four parts.                                 *)

(* What the MAC covers besides the AAD: ciphertext, made or presented.     *)
Data == IF job.mode = "enc" THEN SentOf(Len(out)) ELSE InOf(job, seen)

(* The message a receiver had checked is the one that was sent.            *)
Genuine == verdict.rc = "OK" /\ \A i \in 1 .. seen : InByte(job, i) = CipherByte(i)

(* Types, and the output is each input byte under its keystream byte.      *)
ShapeInv ==
    /\ chacha \in ChaChaCtx /\ poly \in PolyCtx /\ ctx \in AeadCtx
    /\ stage \in {"none", "open", "checked", "closed"}
    /\ job \in Job /\ aad \in 0 .. MaxAad
    /\ seen \in 0 .. MsgLimit(job) /\ Len(out) \in 0 .. MsgLimit(job)
    /\ out = OutOf(job, Len(out))
    /\ verdict.rc \in {"none", "tag", "OK", "VERIFY_FAIL"}

(* An open context has fed the MAC the padded AAD and the data so far.     *)
MacInv ==
    stage = "open" =>
        /\ PolyOpen(poly) /\ poly.key = MacKey
        /\ Fed(poly) = Padded(AadOf(aad)) \o Data
        /\ ctx.aad_len = aad /\ ctx.verified = 0 /\ verdict = NoVerdict

(* Until it is wiped, the keystream context stands at the next byte of a   *)
(* stream that begins at block 1.                                          *)
StreamInv ==
    stage \in {"open", "checked"} =>
        /\ StreamAt(chacha, 1, Len(out)) /\ chacha.v = job.v
        /\ ctx.total_len = IF job.mode = "enc" THEN Len(out) ELSE seen

(* The verified flag stands for a genuine message, and only under it was   *)
(* anything given to a receiver.                                           *)
ReleaseInv ==
    /\ ctx.verified = 1 => stage = "checked" /\ Genuine
    /\ stage = "checked" => job.mode = "dec"
    /\ job.mode = "dec" => Len(out) <= seen /\ (out # <<>> => Genuine)

AeadInv == ShapeInv /\ MacInv /\ StreamInv /\ ReleaseInv

(* The limit of a job is a number, and the bound on messages is kept.      *)
LEMMA LimitType ==
    ASSUME NEW j \in Job
    PROVE  MsgLimit(j) \in Nat /\ MsgLimit(j) <= MaxMsg
<1>1. j.v \in Variant /\ CounterRange(j.v) \in Nat \ {0} /\ StreamBlock \in Nat /\ MaxMsg \in Nat
  BY VariantSizes, AeadAssumption, ChaChaAssumption DEF Job, JobRec
<1>2. \A x, y \in Nat : x * y \in Nat
  OBVIOUS
<1>3. (CounterRange(j.v) - 1) * StreamBlock \in Nat
  BY <1>1, <1>2
<1> QED
  BY <1>1, <1>3 DEF MsgLimit

(* A table over no index is the empty sequence.                            *)
LEMMA NoBytes ==
    ASSUME NEW j
    PROVE  OutOf(j, 0) = <<>> /\ InOf(j, 0) = <<>> /\ SentOf(0) = <<>> /\ AadOf(0) = <<>>
BY DEF OutOf, InOf, SentOf, AadOf

(* crypt() on a context that is p bytes into a message.                    *)
LEMMA SpendFromOne ==
    \A c, p, n : StreamAt(c, 1, p) /\ p \in Nat /\ n \in Nat =>
        /\ StreamAt(Crypt(c, n).ctx, 1, p + n) /\ Crypt(c, n).ctx.v = c.v
        /\ Crypt(c, n).ks = Stream(c.v, 1, p, n)
<1>1. ASSUME NEW c, NEW p \in Nat, NEW n \in Nat, StreamAt(c, 1, p)
      PROVE  /\ StreamAt(Crypt(c, n).ctx, 1, p + n) /\ Crypt(c, n).ctx.v = c.v
             /\ Crypt(c, n).ks = Stream(c.v, 1, p, n)
  <2>1. 1 \in Nat
    OBVIOUS
  <2>2. StreamAt(Crypt(c, n).ctx, 1, p + n)
    BY <1>1, <2>1, CryptStream
  <2>3. Crypt(c, n).ctx.v = c.v
    BY <1>1, <2>1, CryptStream
  <2>4. Crypt(c, n).ks = Stream(c.v, 1, p, n)
    BY <1>1, <2>1, CryptStream
  <2> QED
    BY <2>2, <2>3, <2>4
<1> QED
  BY <1>1

(* n bytes more, from either of the two calls that give output.            *)
LEMMA OutputGrows ==
    ASSUME ShapeInv, StreamAt(chacha, 1, Len(out)), chacha.v = job.v,
           NEW n \in Nat, Len(out) + n <= MsgLimit(job)
    PROVE  LET new == XorAll(NextIn(Len(out), n), Crypt(chacha, n).ks) IN
           /\ new \in Seq(Byte) /\ Len(new) = n
           /\ \A i \in 1 .. n : new[i] = Xor(InByte(job, Len(out) + i), KsOf(Len(out) + i))
           /\ out \o new = OutOf(job, Len(out) + n) /\ Len(out \o new) = Len(out) + n
           /\ StreamAt(Crypt(chacha, n).ctx, 1, Len(out) + n)
           /\ Crypt(chacha, n).ctx.v = job.v
<1> DEFINE p == Len(out)
           ks == Stream(job.v, 1, p, n)
           in == NextIn(p, n)
           new == XorAll(in, ks)
<1>1. /\ p \in Nat /\ MsgLimit(job) \in Nat /\ job \in Job /\ p + n \in 0 .. MsgLimit(job)
      /\ p \in 0 .. MsgLimit(job) /\ out = OutOf(job, p)
  BY LimitType DEF ShapeInv
<1>2. /\ StreamAt(Crypt(chacha, n).ctx, 1, p + n) /\ Crypt(chacha, n).ctx.v = job.v
      /\ Crypt(chacha, n).ks = ks
  BY <1>1, SpendFromOne
<1>3. /\ OutOf(job, p + n) \in Seq(Byte) /\ Len(OutOf(job, p + n)) = p + n /\ out \in Seq(Byte)
      /\ \A i \in 1 .. p + n : InByte(job, i) \in Byte
  BY <1>1, InputTypes
<1> HIDE DEF p
<1>4. ASSUME NEW i \in 1 .. n PROVE new[i] = Xor(InByte(job, p + i), KsOf(p + i))
  <2>1. p + i \in 1 .. MsgLimit(job) /\ (p + i) - 1 = p + (i - 1)
    BY <1>1
  <2>2. StreamByte(job.v, 1, (p + i) - 1) = KsOf(p + i)
    BY <1>1, <2>1, KsOfStream
  <2>3. ks[i] = KsOf(p + i)
    BY <2>1, <2>2 DEF Stream
  <2>4. in[i] = InByte(job, p + i) /\ Len(in) = n
    BY DEF NextIn
  <2> HIDE DEF in, ks
  <2> QED
    BY <2>3, <2>4 DEF XorAll
<1>5. DOMAIN new = 1 .. n
  <2>1. Len(in) = n
    BY DEF NextIn
  <2> HIDE DEF in, ks
  <2> QED
    BY <2>1 DEF XorAll
<1>6. \A i \in 1 .. n : p + i \in 1 .. p + n /\ OutOf(job, p + n)[p + i] = new[i]
  <2> SUFFICES ASSUME NEW i \in 1 .. n
               PROVE  p + i \in 1 .. p + n /\ OutOf(job, p + n)[p + i] = new[i]
    OBVIOUS
  <2>1. p + i \in 1 .. p + n
    BY <1>1
  <2> HIDE DEF new
  <2> QED
    BY <1>4, <2>1 DEF OutOf
<1>7. \A i \in 1 .. p : OutOf(job, p + n)[i] = out[i]
  <2> SUFFICES ASSUME NEW i \in 1 .. p PROVE OutOf(job, p + n)[i] = out[i]
    OBVIOUS
  <2>1. i \in 1 .. p + n
    BY <1>1
  <2> QED
    BY <1>1, <2>1 DEF OutOf
<1>8. new \in [1 .. n -> Byte]
  <2>1. new = [i \in 1 .. n |-> new[i]]
    <3>1. Len(in) = n
      BY DEF NextIn
    <3> HIDE DEF in, ks
    <3> QED
      BY <3>1 DEF XorAll
  <2>2. \A i \in 1 .. n : new[i] \in Byte
    <3> SUFFICES ASSUME NEW i \in 1 .. n PROVE new[i] \in Byte
      OBVIOUS
    <3> HIDE DEF new
    <3>1. OutOf(job, p + n)[p + i] \in Byte
      BY <1>1, <1>3, <1>6
    <3> QED
      BY <1>6, <3>1
  <2> HIDE DEF new
  <2> QED
    BY <2>1, <2>2
<1> HIDE DEF new, ks, in
<1>9. new \in Seq(Byte) /\ Len(new) = n
  BY <1>8, TableIsSeq
<1>10. out \o new = OutOf(job, p + n)
  <2>1. Len(out) = p
    BY DEF p
  <2> QED
    BY <1>3, <1>6, <1>7, <1>9, <2>1, ConcatIs, SMTT(60)
<1> QED
  BY <1>2, <1>3, <1>4, <1>9, <1>10 DEF new, in, ks, p

(* The wiped keystream context is well typed.                              *)
LEMMA WipedType ==
    ASSUME NEW v \in Variant, Wiped(v)
    PROVE  /\ chacha' \in ChaChaCtx /\ poly' \in PolyCtx /\ ctx' \in AeadCtx
           /\ ctx'.verified = 0
<1> DEFINE c == ChaChaInit(v, 0)
           lane == [i \in 1 .. v.lanes |-> [lo |-> 0, hi |-> 0]]
<1>1. c \in ChaChaCtx
  BY InitStream DEF StreamAt
<1>2. chacha' = [c EXCEPT !.lane = lane, !.used = 0]
  BY DEF Wiped
<1>3. lane \in Seq(Lane)
  <2>1. WordMod \in Nat \ {0} /\ v.lanes \in Nat
    BY VariantSizes
  <2>2. [lo |-> 0, hi |-> 0] \in Lane
    BY <2>1 DEF Lane, Word
  <2>3. lane \in [1 .. v.lanes -> Lane]
    BY <2>2
  <2> HIDE DEF lane
  <2> QED
    BY <2>1, <2>3, TableIsSeq
<1> HIDE DEF c, lane
<1>4. chacha' \in ChaChaCtx
  BY <1>1, <1>2, <1>3 DEF ChaChaCtx
<1>5. poly' = [key |-> <<>>, h |-> <<>>, buf |-> <<>>]
  BY DEF Wiped, PolyWiped, PolyInit
<1>6. poly' \in PolyCtx
  BY <1>5 DEF PolyCtx
<1>7. ctx' = [aad_len |-> 0, total_len |-> 0, verified |-> 0]
  BY DEF Wiped
<1> QED
  BY <1>4, <1>6, <1>7 DEF AeadCtx

(* Initially nothing is open and nothing was written.                      *)
LEMMA AeadInitial ==
    ASSUME Init
    PROVE  AeadInv
<1>1. /\ stage = "none" /\ aad = 0 /\ seen = 0 /\ out = <<>> /\ verdict = NoVerdict
      /\ job \in Job /\ chacha = ChaChaInit(job.v, 0) /\ poly = PolyWiped
      /\ ctx = [aad_len |-> 0, total_len |-> 0, verified |-> 0]
  BY DEF Init, AbsInit
<1>2. job.v \in Variant
  BY <1>1, AeadAssumption DEF Job, JobRec
<1>3. chacha \in ChaChaCtx
  BY <1>1, <1>2, InitStream DEF StreamAt
<1>4. poly \in PolyCtx
  BY <1>1 DEF PolyCtx, PolyWiped, PolyInit
<1>5. ctx \in AeadCtx
  BY <1>1 DEF AeadCtx
<1>6. MsgLimit(job) \in Nat /\ MaxAad \in Nat /\ Len(out) = 0
  BY <1>1, LimitType, AeadAssumption
<1>7. out = OutOf(job, 0)
  BY <1>1, NoBytes
<1>8. ShapeInv
  BY <1>1, <1>3, <1>4, <1>5, <1>6, <1>7 DEF ShapeInv, NoVerdict
<1> QED
  BY <1>1, <1>6, <1>8 DEF AeadInv, MacInv, StreamInv, ReleaseInv

(* init(): the MAC is keyed from block 0 and fed the padded AAD.           *)
LEMMA KeyedPoly ==
    ASSUME NEW v \in Variant, NEW n \in 0 .. MaxAad,
           NEW keyed, keyed = PolyInit(MacKey),
           NEW fed, fed = (IF n > 0 THEN PolyUpdate(keyed, AadOf(n)) ELSE keyed)
    PROVE  /\ PolyOpen(Pad16(fed, n)) /\ Pad16(fed, n).key = MacKey
           /\ Fed(Pad16(fed, n)) = Padded(AadOf(n))
<1>1. n \in Nat /\ AadOf(n) \in Seq(Byte) /\ Len(AadOf(n)) = n /\ MacKey \in Seq(KsByte)
  <2>1. n \in Nat
    BY AeadAssumption
  <2> QED
    BY <2>1, AadOfFacts, MacKeyCut
<1>2. keyed = [key |-> MacKey, h |-> <<>>, buf |-> <<>>]
  BY DEF PolyInit
<1>3. BlockSize \in Nat \ {0}
  BY BlockSizeAssumption
<1>4. PolyOpen(keyed) /\ Fed(keyed) = <<>> /\ keyed.key = MacKey
  <2>1. keyed \in PolyCtx
    BY <1>1, <1>2 DEF PolyCtx
  <2>2. Len(keyed.buf) = 0 /\ Len(keyed.h) = 0
    BY <1>2
  <2>3. 0 % BlockSize = 0
    BY <1>3, SmallMod
  <2>4. Fed(keyed) = <<>>
    BY <1>2 DEF Fed
  <2> QED
    BY <1>2, <1>3, <2>1, <2>2, <2>3, <2>4 DEF PolyOpen
<1>5. PolyOpen(fed) /\ fed.key = MacKey /\ Fed(fed) = AadOf(n)
  <2>1. CASE n > 0
    <3>1. fed = PolyUpdate(keyed, AadOf(n))
      BY <2>1
    <3>2. <<>> \o AadOf(n) = AadOf(n)
      BY <1>1, Join
    <3>3. PolyOpen(fed)
      BY <1>1, <1>4, <3>1, PolyUpdateFacts
    <3>4. fed.key = keyed.key
      BY <1>1, <1>4, <3>1, PolyUpdateFacts
    <3>5. Fed(fed) = Fed(keyed) \o AadOf(n)
      BY <1>1, <1>4, <3>1, PolyUpdateFacts
    <3> QED
      BY <1>4, <3>2, <3>3, <3>4, <3>5
  <2>2. CASE ~ (n > 0)
    <3>1. n = 0 /\ fed = keyed
      BY <1>1, <2>2
    <3> QED
      BY <1>4, <3>1, NoBytes
  <2> QED
    BY <2>1, <2>2
<1>6. Len(fed.buf) = n % BlockSize
  BY <1>1, <1>5, FedLength
<1>7. Padded(AadOf(n)) = AadOf(n) \o Zeros(PadLen(n))
  BY <1>1, PaddedFacts
<1>8. PolyOpen(Pad16(fed, n))
  BY <1>1, <1>5, <1>6, Pad16Facts
<1>9. Pad16(fed, n).key = fed.key
  BY <1>1, <1>5, <1>6, Pad16Facts
<1>10. Fed(Pad16(fed, n)) = Fed(fed) \o Zeros(PadLen(n))
  BY <1>1, <1>5, <1>6, Pad16Facts
<1> QED
  BY <1>5, <1>7, <1>8, <1>9, <1>10

(* init(): a message starts.                                               *)
LEMMA AeadInitStep ==
    ASSUME NEW j \in Job, NEW n \in 0 .. MaxAad, AeadInit(j, n)
    PROVE  AeadInv' /\ AbsStart(n)
<1> DEFINE keyed == PolyInit(SubSeq(Crypt(ChaChaInit(j.v, 0), StreamBlock).ks, 1,
                                    2 * BlockSize))
           fed == IF n > 0 THEN PolyUpdate(keyed, AadOf(n)) ELSE keyed
<1>1. /\ poly' = Pad16(fed, n) /\ chacha' = ChaChaInit(j.v, 1)
      /\ ctx' = [aad_len |-> n, total_len |-> 0, verified |-> 0]
      /\ stage' = "open" /\ job' = j /\ aad' = n /\ seen' = 0
      /\ out' = <<>> /\ verdict' = NoVerdict
  BY DEF AeadInit
<1>2. j.v \in Variant /\ n \in Nat /\ MsgLimit(j) \in Nat
  BY AeadAssumption, LimitType DEF Job, JobRec
<1>3. keyed = PolyInit(MacKey)
  BY <1>2, MacKeyCut
<1>4. PolyOpen(poly') /\ poly'.key = MacKey /\ Fed(poly') = Padded(AadOf(n))
  <2> DEFINE k == keyed
             f == fed
  <2>1. k = PolyInit(MacKey) /\ f = (IF n > 0 THEN PolyUpdate(k, AadOf(n)) ELSE k)
    BY <1>3
  <2>2. poly' = Pad16(f, n)
    BY <1>1
  <2> HIDE DEF k, f
  <2>3. PolyOpen(Pad16(f, n))
    BY <1>2, <2>1, KeyedPoly
  <2>4. Pad16(f, n).key = MacKey
    BY <1>2, <2>1, KeyedPoly
  <2>5. Fed(Pad16(f, n)) = Padded(AadOf(n))
    BY <1>2, <2>1, KeyedPoly
  <2> QED
    BY <2>2, <2>3, <2>4, <2>5
<1> HIDE DEF keyed, fed
<1>5. StreamAt(chacha', 1, 0) /\ chacha'.v = j.v
  BY <1>1, <1>2, InitStream
<1>6. Len(out') = 0 /\ out' = OutOf(j, 0) /\ Data' = <<>>
  BY <1>1, NoBytes DEF Data
<1>7. Padded(AadOf(n)) \o <<>> = Padded(AadOf(n))
  BY <1>2, AadOfFacts, PaddedFacts, Join
<1>8. ctx' \in AeadCtx /\ chacha' \in ChaChaCtx /\ poly' \in PolyCtx
  BY <1>1, <1>2, <1>4, <1>5 DEF AeadCtx, StreamAt, PolyOpen
<1>9. ShapeInv'
  BY <1>1, <1>2, <1>6, <1>8 DEF ShapeInv, NoVerdict
<1>10. MacInv'
  BY <1>1, <1>4, <1>6, <1>7 DEF MacInv
<1>11. StreamInv'
  BY <1>1, <1>5, <1>6 DEF StreamInv
<1>12. ReleaseInv'
  BY <1>1, <1>6 DEF ReleaseInv
<1> QED
  BY <1>1, <1>9, <1>10, <1>11, <1>12 DEF AeadInv, AbsStart

(* A sender's output is the ciphertext that is sent.                       *)
LEMMA SentIsOut ==
    ASSUME NEW j \in Job, j.mode = "enc", NEW n
    PROVE  OutOf(j, n) = SentOf(n)
<1>1. \A i \in 1 .. n : Xor(InByte(j, i), KsOf(i)) = CipherByte(i)
  BY DEF InByte, CipherByte
<1> QED
  BY <1>1 DEF OutOf, SentOf

(* encrypt_update(): the output and the MAC grow by the same bytes.        *)
LEMMA EncryptUpdateStep ==
    ASSUME AeadInv, NEW n \in 1 .. MsgLimit(job) - Len(out), EncryptUpdate(n)
    PROVE  AeadInv' /\ AbsEncrypt(n)
<1> DEFINE spent == Crypt(chacha, n)
           new == XorAll(NextIn(Len(out), n), spent.ks)
<1>1. /\ stage = "open" /\ job.mode = "enc" /\ n > 0
      /\ chacha' = spent.ctx /\ out' = out \o new /\ poly' = PolyUpdate(poly, new)
      /\ ctx' = [ctx EXCEPT !.total_len = @ + n]
      /\ stage' = stage /\ job' = job /\ aad' = aad /\ seen' = seen /\ verdict' = verdict
  BY DEF EncryptUpdate
<1>2. /\ ShapeInv /\ job \in Job /\ MsgLimit(job) \in Nat /\ Len(out) \in 0 .. MsgLimit(job)
      /\ ctx \in AeadCtx /\ out = OutOf(job, Len(out)) /\ aad \in 0 .. MaxAad
  BY LimitType DEF AeadInv, ShapeInv
<1>3. n \in Nat /\ Len(out) + n <= MsgLimit(job) /\ Len(out) + n \in 0 .. MsgLimit(job)
  BY <1>2
<1>4. /\ StreamAt(chacha, 1, Len(out)) /\ chacha.v = job.v
      /\ ctx.total_len = Len(out)
  BY <1>1 DEF AeadInv, StreamInv
<1>5. /\ new \in Seq(Byte) /\ out \o new = OutOf(job, Len(out) + n)
      /\ Len(out \o new) = Len(out) + n
      /\ StreamAt(spent.ctx, 1, Len(out) + n) /\ spent.ctx.v = job.v
  BY <1>2, <1>3, <1>4, OutputGrows
<1> HIDE DEF new, spent
<1>6. /\ PolyOpen(poly) /\ poly.key = MacKey /\ Fed(poly) = Padded(AadOf(aad)) \o SentOf(Len(out))
      /\ ctx.aad_len = aad /\ ctx.verified = 0 /\ verdict = NoVerdict
  BY <1>1 DEF AeadInv, MacInv, Data
<1>7. out = SentOf(Len(out)) /\ out' = SentOf(Len(out)') /\ Len(out)' = Len(out) + n
  BY <1>1, <1>2, <1>5, SentIsOut
<1>8. /\ PolyOpen(poly') /\ poly'.key = MacKey
      /\ Fed(poly') = Padded(AadOf(aad)) \o SentOf(Len(out)')
  <2>1. PolyOpen(poly')
    BY <1>1, <1>5, <1>6, PolyUpdateFacts
  <2>2. poly'.key = poly.key
    BY <1>1, <1>5, <1>6, PolyUpdateFacts
  <2>3. Fed(poly') = Fed(poly) \o new
    BY <1>1, <1>5, <1>6, PolyUpdateFacts
  <2>4. out \in Seq(Byte) /\ Padded(AadOf(aad)) \in Seq(Byte)
    <3>1. aad \in Nat
      BY <1>2, AeadAssumption
    <3> QED
      BY <1>2, <3>1, InputTypes, AadOfFacts, PaddedFacts
  <2>5. (Padded(AadOf(aad)) \o out) \o new = Padded(AadOf(aad)) \o (out \o new)
    BY <1>5, <2>4, Join
  <2> QED
    BY <1>1, <1>6, <1>7, <2>1, <2>2, <2>3, <2>5
<1>9. ctx' = [aad_len |-> aad, total_len |-> Len(out) + n, verified |-> 0]
  <2>1. ctx = [aad_len |-> aad, total_len |-> Len(out), verified |-> 0]
    BY <1>2, <1>4, <1>6 DEF AeadCtx
  <2> QED
    BY <1>1, <2>1
<1>10. ctx' \in AeadCtx /\ chacha' \in ChaChaCtx /\ poly' \in PolyCtx
  <2>1. aad \in Nat /\ Len(out) + n \in Nat
    BY <1>2, <1>3, AeadAssumption
  <2>2. ctx' \in AeadCtx
    BY <1>9, <2>1 DEF AeadCtx
  <2>3. chacha' \in ChaChaCtx
    BY <1>1, <1>5 DEF StreamAt
  <2>4. poly' \in PolyCtx
    BY <1>8 DEF PolyOpen
  <2> QED
    BY <2>2, <2>3, <2>4
<1>11. ShapeInv'
  BY <1>1, <1>2, <1>3, <1>5, <1>7, <1>10 DEF ShapeInv
<1>12. MacInv'
  BY <1>1, <1>6, <1>8, <1>9 DEF MacInv, Data
<1>13. StreamInv'
  BY <1>1, <1>5, <1>7, <1>9 DEF StreamInv
<1>14. ReleaseInv'
  BY <1>1, <1>9 DEF ReleaseInv
<1> QED
  BY <1>1, <1>5, <1>11, <1>12, <1>13, <1>14 DEF AeadInv, AbsEncrypt

(* encrypt_final(): the tag is that of AAD and ciphertext.                 *)
LEMMA EncryptFinalStep ==
    ASSUME AeadInv, EncryptFinal
    PROVE  AeadInv' /\ AbsSeal
<1>1. /\ stage = "open" /\ job.mode = "enc" /\ verdict' = Sealed(MacOf(poly))
      /\ stage' = "closed" /\ Wiped(job.v)
      /\ job' = job /\ aad' = aad /\ seen' = seen /\ out' = out
  BY DEF EncryptFinal
<1>2. /\ job \in Job /\ Len(out) \in 0 .. MsgLimit(job) /\ aad \in Nat
      /\ job.v \in Variant
  BY AeadAssumption DEF AeadInv, ShapeInv, Job, JobRec
<1>3. /\ AadOf(aad) \in Seq(Byte) /\ Len(AadOf(aad)) = aad
      /\ SentOf(Len(out)) \in Seq(Byte) /\ Len(SentOf(Len(out))) = Len(out)
  BY <1>2, AadOfFacts, InputTypes
<1>4. /\ PolyOpen(poly) /\ poly.key = MacKey
      /\ Fed(poly) = Padded(AadOf(aad)) \o SentOf(Len(out))
      /\ ctx.aad_len = aad /\ ctx.total_len = Len(out)
  BY <1>1 DEF AeadInv, MacInv, StreamInv, Data
<1>5. MacOf(poly) = TagOf(AadOf(aad), SentOf(Len(out)))
  <2>1. MacOf(poly) = [key |-> poly.key,
                       mac |-> Padded(AadOf(aad)) \o Padded(SentOf(Len(out)))
                                 \o LenBlock(Len(AadOf(aad)), Len(SentOf(Len(out))))]
    BY <1>3, <1>4, MacOfFacts
  <2> QED
    BY <1>4, <2>1 DEF TagOf
<1>6. /\ chacha' \in ChaChaCtx /\ poly' \in PolyCtx /\ ctx' \in AeadCtx /\ ctx'.verified = 0
  BY <1>1, <1>2, WipedType
<1>7. ShapeInv'
  BY <1>1, <1>6 DEF AeadInv, ShapeInv, Sealed
<1>8. MacInv' /\ StreamInv' /\ ReleaseInv'
  BY <1>1, <1>6 DEF MacInv, StreamInv, ReleaseInv
<1> QED
  BY <1>1, <1>5, <1>7, <1>8 DEF AeadInv, AbsSeal

(* auth_update(): the MAC grows by the bytes presented.                    *)
LEMMA AuthUpdateStep ==
    ASSUME AeadInv, NEW n \in 1 .. MsgLimit(job) - seen, AuthUpdate(n)
    PROVE  AeadInv' /\ AbsAuth(n)
<1> DEFINE new == NextIn(seen, n)
<1>1. /\ stage = "open" /\ job.mode = "dec" /\ poly' = PolyUpdate(poly, new)
      /\ ctx' = [ctx EXCEPT !.total_len = @ + n] /\ seen' = seen + n
      /\ chacha' = chacha /\ stage' = stage /\ job' = job /\ aad' = aad /\ out' = out
      /\ verdict' = verdict
  BY DEF AuthUpdate
<1>2. /\ job \in Job /\ MsgLimit(job) \in Nat /\ Len(out) \in 0 .. MsgLimit(job)
      /\ seen \in 0 .. MsgLimit(job) /\ ctx \in AeadCtx /\ aad \in 0 .. MaxAad
      /\ poly \in PolyCtx
  BY LimitType DEF AeadInv, ShapeInv
<1>3. n \in Nat /\ seen + n \in 0 .. MsgLimit(job) /\ seen \in Nat
  BY <1>2
<1>4. /\ StreamAt(chacha, 1, Len(out)) /\ chacha.v = job.v /\ ctx.total_len = seen
  BY <1>1 DEF AeadInv, StreamInv
<1>5. /\ PolyOpen(poly) /\ poly.key = MacKey /\ Fed(poly) = Padded(AadOf(aad)) \o InOf(job, seen)
      /\ ctx.aad_len = aad /\ ctx.verified = 0 /\ verdict = NoVerdict
  BY <1>1 DEF AeadInv, MacInv, Data
<1>6. out = <<>> /\ Len(out) <= seen
  BY <1>1, <1>5 DEF AeadInv, ReleaseInv, Genuine, NoVerdict
<1>7. /\ InOf(job, seen + n) \in Seq(Byte) /\ Len(InOf(job, seen + n)) = seen + n
      /\ \A i \in 1 .. seen + n : InByte(job, i) \in Byte
      /\ InOf(job, seen) \in Seq(Byte) /\ Len(InOf(job, seen)) = seen
  BY <1>2, <1>3, InputTypes
<1>8. new \in Seq(Byte) /\ Len(new) = n
  <2>1. \A i \in 1 .. n : seen + i \in 1 .. seen + n
    BY <1>3
  <2>2. new \in [1 .. n -> Byte]
    BY <1>7, <2>1 DEF NextIn
  <2> HIDE DEF new
  <2> QED
    BY <1>3, <2>2, TableIsSeq
<1>9. InOf(job, seen) \o new = InOf(job, seen + n)
  <2>1. \A i \in 1 .. seen : i \in 1 .. seen + n /\ InOf(job, seen + n)[i] = InOf(job, seen)[i]
    BY <1>3 DEF InOf
  <2>2. \A i \in 1 .. n : InOf(job, seen + n)[seen + i] = new[i]
    BY <1>3 DEF InOf, NextIn
  <2> DEFINE a == InOf(job, seen)
             u == InOf(job, seen + n)
  <2>3. /\ a \in Seq(Byte) /\ u \in Seq(Byte) /\ Len(a) = seen /\ Len(u) = Len(a) + Len(new)
        /\ \A i \in 1 .. Len(a) : u[i] = a[i]
        /\ \A i \in 1 .. Len(new) : u[Len(a) + i] = new[i]
    <3> HIDE DEF new
    <3> QED
      BY <1>7, <1>8, <2>1, <2>2
  <2> HIDE DEF new, a, u
  <2>4. a \o new = u
    BY <1>8, <2>3, ConcatIs
  <2> QED
    BY <2>4 DEF a, u
<1> HIDE DEF new
<1>10. /\ PolyOpen(poly') /\ poly'.key = MacKey
       /\ Fed(poly') = Padded(AadOf(aad)) \o InOf(job, seen + n)
  <2>1. PolyOpen(poly')
    BY <1>1, <1>5, <1>8, PolyUpdateFacts
  <2>2. poly'.key = poly.key
    BY <1>1, <1>5, <1>8, PolyUpdateFacts
  <2>3. Fed(poly') = Fed(poly) \o new
    BY <1>1, <1>5, <1>8, PolyUpdateFacts
  <2>4. Padded(AadOf(aad)) \in Seq(Byte)
    <3>1. aad \in Nat
      BY <1>2, AeadAssumption
    <3> QED
      BY <3>1, AadOfFacts, PaddedFacts
  <2>5. (Padded(AadOf(aad)) \o InOf(job, seen)) \o new =
            Padded(AadOf(aad)) \o (InOf(job, seen) \o new)
    BY <1>7, <1>8, <2>4, Join, ZenonT(60)
  <2> QED
    BY <1>5, <1>9, <2>1, <2>2, <2>3, <2>5
<1>11. ctx' = [aad_len |-> aad, total_len |-> seen + n, verified |-> 0]
  <2>1. ctx = [aad_len |-> aad, total_len |-> seen, verified |-> 0]
    BY <1>2, <1>4, <1>5 DEF AeadCtx
  <2> QED
    BY <1>1, <2>1
<1>12. ctx' \in AeadCtx /\ poly' \in PolyCtx
  <2>1. aad \in Nat /\ seen + n \in Nat
    BY <1>2, <1>3, AeadAssumption
  <2> QED
    BY <1>10, <1>11, <2>1 DEF AeadCtx, PolyOpen
<1>13. ShapeInv'
  BY <1>1, <1>3, <1>12 DEF AeadInv, ShapeInv
<1>14. MacInv'
  BY <1>1, <1>5, <1>10, <1>11 DEF MacInv, Data
<1>15. StreamInv'
  BY <1>1, <1>4, <1>11 DEF StreamInv
<1>16. ReleaseInv'
  <2>1. Len(out) <= seen + n
    BY <1>2, <1>3, <1>6
  <2> QED
    BY <1>1, <1>6, <1>11, <2>1 DEF ReleaseInv
<1> QED
  BY <1>1, <1>13, <1>14, <1>15, <1>16 DEF AeadInv, AbsAuth

(* auth_final(): the tag offered is the one computed exactly when it was   *)
(* made for the AAD and the ciphertext that were presented.                *)
LEMMA AuthFinalStep ==
    ASSUME AeadInv, NEW a \in 0 .. MaxAad, NEW m \in 0 .. MaxMsg, AuthFinal(a, m)
    PROVE  AeadInv' /\ AbsCheck(a, m)
<1> DEFINE good == MacOf(poly) = SentTag(a, m)
<1>1. /\ stage = "open" /\ job.mode = "dec"
      /\ ctx' = [ctx EXCEPT !.verified = IF good THEN 1 ELSE 0]
      /\ verdict' = Checked(good, a, m)
      /\ poly' = PolyWiped /\ stage' = "checked"
      /\ chacha' = chacha /\ job' = job /\ aad' = aad /\ seen' = seen /\ out' = out
  BY DEF AuthFinal
<1>2. /\ job \in Job /\ seen \in 0 .. MsgLimit(job) /\ seen \in Nat /\ aad \in Nat
      /\ a \in Nat /\ m \in Nat /\ ctx \in AeadCtx
  BY AeadAssumption, LimitType DEF AeadInv, ShapeInv
<1>3. /\ PolyOpen(poly) /\ poly.key = MacKey /\ Fed(poly) = Padded(AadOf(aad)) \o InOf(job, seen)
      /\ ctx.aad_len = aad /\ ctx.verified = 0 /\ verdict = NoVerdict
      /\ ctx.total_len = seen /\ StreamAt(chacha, 1, Len(out)) /\ chacha.v = job.v
  BY <1>1 DEF AeadInv, MacInv, StreamInv, Data
<1>4. out = <<>> /\ Len(out) <= seen
  BY <1>1, <1>3 DEF AeadInv, ReleaseInv, Genuine, NoVerdict
<1>5. /\ AadOf(aad) \in Seq(Byte) /\ Len(AadOf(aad)) = aad
      /\ AadOf(a) \in Seq(Byte) /\ Len(AadOf(a)) = a
      /\ InOf(job, seen) \in Seq(Byte) /\ Len(InOf(job, seen)) = seen
  BY <1>2, AadOfFacts, InputTypes
<1>6. SentOf(m) \in Seq(Byte) /\ Len(SentOf(m)) = m
  <2>1. ASSUME NEW i \in 1 .. m PROVE CipherByte(i) \in Byte
    <3>1. i \in Nat /\ i - 1 \in Nat /\ StreamBlock \in Nat \ {0}
      BY <1>2, ChaChaAssumption
    <3>2. (i - 1) \div StreamBlock \in Nat /\ (i - 1) % StreamBlock \in Nat
      BY <3>1, DivModSplit
    <3>3. KsOf(i) \in KsByte
      BY <3>2 DEF KsOf, KsByte
    <3> QED
      BY <3>1, <3>3, ByteTypes DEF CipherByte
  <2>2. SentOf(m) \in [1 .. m -> Byte]
    BY <2>1 DEF SentOf
  <2> QED
    BY <1>2, <2>2, TableIsSeq
<1>7. MacOf(poly) = TagOf(AadOf(aad), InOf(job, seen))
  <2>1. MacOf(poly) = [key |-> poly.key,
                       mac |-> Padded(AadOf(aad)) \o Padded(InOf(job, seen))
                                 \o LenBlock(Len(AadOf(aad)), Len(InOf(job, seen)))]
    BY <1>3, <1>5, MacOfFacts
  <2> QED
    BY <1>3, <2>1 DEF TagOf
<1>8. good <=> aad = a /\ InOf(job, seen) = SentOf(m)
  <2>1. ASSUME good PROVE aad = a /\ InOf(job, seen) = SentOf(m)
    <3>1. TagOf(AadOf(aad), InOf(job, seen)) = TagOf(AadOf(a), SentOf(m))
      BY <1>7, <2>1 DEF SentTag
    <3>2. AadOf(aad) = AadOf(a) /\ InOf(job, seen) = SentOf(m)
      BY <1>5, <1>6, <3>1, TagInjective
    <3> QED
      BY <1>5, <3>2
  <2>2. ASSUME aad = a, InOf(job, seen) = SentOf(m) PROVE good
    BY <1>7, <2>2 DEF SentTag
  <2> QED
    BY <2>1, <2>2
<1> HIDE DEF good
<1>9. good \in BOOLEAN /\ (good => \A i \in 1 .. seen : InByte(job, i) = CipherByte(i))
  <2>1. good \in BOOLEAN
    BY DEF good
  <2>2. ASSUME good, NEW i \in 1 .. seen PROVE InByte(job, i) = CipherByte(i)
    <3>1. InOf(job, seen) = SentOf(m) /\ seen = m
      BY <1>5, <1>6, <1>8, <2>2
    <3>2. InOf(job, seen)[i] = InByte(job, i) /\ SentOf(m)[i] = CipherByte(i)
      BY <1>2, <3>1 DEF InOf, SentOf
    <3> QED
      BY <3>1, <3>2
  <2> QED
    BY <2>1, <2>2
<1>10. verdict'.rc = IF good THEN "OK" ELSE "VERIFY_FAIL"
  BY <1>1 DEF Checked
<1>11. /\ ctx' = [aad_len |-> aad, total_len |-> seen, verified |-> IF good THEN 1 ELSE 0]
       /\ ctx' \in AeadCtx
  <2>1. ctx = [aad_len |-> aad, total_len |-> seen, verified |-> 0]
    BY <1>2, <1>3 DEF AeadCtx
  <2>2. ctx' = [aad_len |-> aad, total_len |-> seen, verified |-> IF good THEN 1 ELSE 0]
    BY <1>1, <2>1
  <2> QED
    BY <1>2, <2>2 DEF AeadCtx
<1>12. poly' \in PolyCtx
  <2>1. poly' = [key |-> <<>>, h |-> <<>>, buf |-> <<>>]
    BY <1>1 DEF PolyWiped, PolyInit
  <2> QED
    BY <2>1 DEF PolyCtx
<1>13. ShapeInv'
  BY <1>1, <1>10, <1>11, <1>12 DEF AeadInv, ShapeInv
<1>14. MacInv'
  BY <1>1 DEF MacInv
<1>15. StreamInv'
  BY <1>1, <1>3, <1>11 DEF StreamInv
<1>16. ReleaseInv'
  <2>1. ctx'.verified = 1 => good
    BY <1>11
  <2>2. good => Genuine'
    BY <1>1, <1>9, <1>10 DEF Genuine
  <2> QED
    BY <1>1, <1>4, <2>1, <2>2 DEF ReleaseInv
<1>17. AbsCheck(a, m)
  <2>1. verdict' = Checked(aad = a /\ InOf(job, seen) = SentOf(m), a, m)
    <3>1. good = (aad = a /\ InOf(job, seen) = SentOf(m))
      BY <1>8, <1>9
    <3> QED
      BY <1>1, <3>1
  <2> QED
    BY <1>1, <2>1 DEF AbsCheck
<1> QED
  BY <1>13, <1>14, <1>15, <1>16, <1>17 DEF AeadInv

(* decrypt_update(): nothing, or the next bytes of a genuine message.      *)
LEMMA DecryptUpdateStep ==
    ASSUME AeadInv, NEW n \in 0 .. seen - Len(out), DecryptUpdate(n)
    PROVE  /\ AeadInv'
           /\ UNCHANGED absVars \/ (n \in 1 .. MaxMsg - Len(out) /\ AbsRelease(n))
<1>1. /\ job.mode = "dec" /\ poly' = poly /\ ctx' = ctx /\ stage' = stage /\ job' = job
      /\ aad' = aad /\ seen' = seen /\ verdict' = verdict
  BY DEF DecryptUpdate
<1>2. CASE ctx.verified = 0 \/ n = 0
  <2>1. chacha' = chacha /\ out' = out
    BY <1>2 DEF DecryptUpdate
  <2>2. AeadInv'
    BY <1>1, <2>1 DEF AeadInv, ShapeInv, MacInv, StreamInv, ReleaseInv, Data, Genuine
  <2> QED
    BY <1>1, <2>1, <2>2 DEF absVars
<1>3. CASE ~ (ctx.verified = 0 \/ n = 0)
  <2> DEFINE spent == Crypt(chacha, n)
             new == XorAll(NextIn(Len(out), n), spent.ks)
  <2>1. chacha' = spent.ctx /\ out' = out \o new
    BY <1>3 DEF DecryptUpdate
  <2>2. /\ ShapeInv /\ job \in Job /\ MsgLimit(job) \in Nat /\ MsgLimit(job) <= MaxMsg
        /\ seen \in 0 .. MsgLimit(job) /\ Len(out) \in 0 .. MsgLimit(job) /\ ctx \in AeadCtx
        /\ MaxMsg \in Nat
    BY LimitType, AeadAssumption DEF AeadInv, ShapeInv
  <2>3. ctx.verified = 1
    BY <1>3, <2>2 DEF AeadCtx
  <2>4. stage = "checked" /\ Genuine
    BY <2>3 DEF AeadInv, ReleaseInv
  <2>5. /\ n \in Nat /\ n # 0 /\ Len(out) + n <= seen /\ Len(out) + n <= MsgLimit(job)
        /\ n \in 1 .. MaxMsg - Len(out)
    BY <1>3, <2>2
  <2>6. StreamAt(chacha, 1, Len(out)) /\ chacha.v = job.v /\ ctx.total_len = seen
    BY <1>1, <2>4 DEF AeadInv, StreamInv
  <2>7. /\ out \o new = OutOf(job, Len(out) + n) /\ Len(out \o new) = Len(out) + n
        /\ StreamAt(spent.ctx, 1, Len(out) + n) /\ spent.ctx.v = job.v
    BY <2>2, <2>5, <2>6, OutputGrows
  <2> HIDE DEF new, spent
  <2>8. /\ out' = OutOf(job, Len(out) + n) /\ Len(out)' = Len(out) + n
        /\ StreamAt(chacha', 1, Len(out)') /\ chacha'.v = job.v
    BY <2>1, <2>7
  <2>9. chacha' \in ChaChaCtx
    BY <2>8 DEF StreamAt
  <2>10. Len(out)' \in 0 .. MsgLimit(job)
    BY <2>2, <2>5, <2>8
  <2>11. ShapeInv'
    BY <1>1, <2>2, <2>8, <2>9, <2>10 DEF ShapeInv
  <2>12. MacInv' /\ StreamInv'
    BY <1>1, <2>4, <2>6, <2>8 DEF MacInv, StreamInv
  <2>13. ReleaseInv'
    BY <1>1, <2>4, <2>5, <2>8 DEF ReleaseInv, Genuine
  <2>14. AbsRelease(n)
    BY <1>1, <2>4, <2>8 DEF AbsRelease, Genuine
  <2> QED
    BY <2>5, <2>11, <2>12, <2>13, <2>14 DEF AeadInv
<1> QED
  BY <1>2, <1>3

(* decrypt_final(): the context is wiped.                                  *)
LEMMA DecryptFinalStep ==
    ASSUME AeadInv, DecryptFinal
    PROVE  AeadInv' /\ AbsEnd
<1>1. /\ job.mode = "dec" /\ stage \in {"open", "checked"} /\ stage' = "closed" /\ Wiped(job.v)
      /\ job' = job /\ aad' = aad /\ seen' = seen /\ out' = out /\ verdict' = verdict
  BY DEF DecryptFinal
<1>2. job.v \in Variant
  BY AeadAssumption DEF AeadInv, ShapeInv, Job, JobRec
<1>3. /\ chacha' \in ChaChaCtx /\ poly' \in PolyCtx /\ ctx' \in AeadCtx /\ ctx'.verified = 0
  BY <1>1, <1>2, WipedType
<1>4. ShapeInv'
  BY <1>1, <1>3 DEF AeadInv, ShapeInv
<1>5. MacInv' /\ StreamInv' /\ ReleaseInv'
  BY <1>1, <1>3 DEF AeadInv, MacInv, StreamInv, ReleaseInv, Genuine
<1> QED
  BY <1>1, <1>4, <1>5 DEF AeadInv, AbsEnd

-----------------------------------------------------------------------------
(* Every step keeps the invariant and is a step of the promise.            *)
LEMMA AeadStep ==
    ASSUME AeadInv, [Next]_vars
    PROVE  AeadInv' /\ [AbsNext]_absVars
<1>1. ASSUME NEW j \in Job, NEW n \in 0 .. MaxAad, AeadInit(j, n)
      PROVE  AeadInv' /\ AbsNext
  BY <1>1, AeadInitStep DEF AbsNext
<1>2. ASSUME NEW n \in 1 .. MsgLimit(job) - Len(out), EncryptUpdate(n)
      PROVE  AeadInv' /\ AbsNext
  <2>1. n \in 1 .. MaxMsg - Len(out)
    BY LimitType, AeadAssumption DEF AeadInv, ShapeInv
  <2> QED
    BY <1>2, <2>1, EncryptUpdateStep DEF AbsNext
<1>3. ASSUME EncryptFinal PROVE AeadInv' /\ AbsNext
  BY <1>3, EncryptFinalStep DEF AbsNext
<1>4. ASSUME NEW n \in 1 .. MsgLimit(job) - seen, AuthUpdate(n)
      PROVE  AeadInv' /\ AbsNext
  <2>1. n \in 1 .. MaxMsg - seen
    BY LimitType, AeadAssumption DEF AeadInv, ShapeInv
  <2> QED
    BY <1>4, <2>1, AuthUpdateStep DEF AbsNext
<1>5. ASSUME NEW a \in Near(aad, MaxAad), NEW m \in Near(seen, MaxMsg), AuthFinal(a, m)
      PROVE  AeadInv' /\ AbsNext
  <2>1. a \in 0 .. MaxAad /\ m \in 0 .. MaxMsg
    BY DEF Near
  <2> QED
    BY <1>5, <2>1, AuthFinalStep DEF AbsNext
<1>6. ASSUME NEW n \in 0 .. seen - Len(out), DecryptUpdate(n)
      PROVE  AeadInv' /\ [AbsNext]_absVars
  BY <1>6, DecryptUpdateStep DEF AbsNext
<1>7. ASSUME DecryptFinal PROVE AeadInv' /\ AbsNext
  BY <1>7, DecryptFinalStep DEF AbsNext
<1>8. CASE UNCHANGED vars
  BY <1>8 DEF vars, absVars, AeadInv, ShapeInv, MacInv, StreamInv, ReleaseInv, Data, Genuine
<1> QED
  BY <1>1, <1>2, <1>3, <1>4, <1>5, <1>6, <1>7, <1>8 DEF Next

(* The invariant holds throughout.                                         *)
LEMMA AeadInvariant == Spec => []AeadInv
<1>1. Init => AeadInv
  BY AeadInitial
<1>2. AeadInv /\ [Next]_vars => AeadInv'
  BY AeadStep
<1> QED
  BY <1>1, <1>2, PTL DEF Spec

(* aead.c: every context, verdict and output is well typed.                *)
THEOREM AeadTypeOK == Spec => []TypeOK
<1>1. AeadInv => TypeOK
  <2> SUFFICES ASSUME AeadInv PROVE TypeOK
    OBVIOUS
  <2>1. job \in Job /\ Len(out) \in 0 .. MsgLimit(job) /\ out = OutOf(job, Len(out))
    BY DEF AeadInv, ShapeInv
  <2>2. out \in Seq(Byte)
    BY <2>1, InputTypes
  <2>3. seen \in 0 .. MaxMsg
    BY <2>1, LimitType, AeadAssumption DEF AeadInv, ShapeInv
  <2> QED
    BY <2>2, <2>3 DEF AeadInv, ShapeInv, TypeOK
<1> QED
  BY <1>1, AeadInvariant, PTL

(* aead.c, for every word size, block size, number of lanes and split into *)
(* calls: the lanes count the blocks of the message and the MAC buffer     *)
(* holds what exceeds its whole blocks.                                    *)
THEOREM AeadPositions == Spec => []Positions
<1>1. AeadInv => Positions
  <2> SUFFICES ASSUME AeadInv, stage \in {"open", "checked"} PROVE Positions
    BY DEF Positions
  <2> DEFINE p == Len(out)
             L == chacha.v.lanes
             R == L * StreamBlock
             made == p + (R - chacha.used)
  <2>1. /\ StreamAt(chacha, 1, p) /\ chacha \in ChaChaCtx /\ p \in Nat
        /\ ctx.total_len = IF job.mode = "enc" THEN p ELSE seen
    BY LimitType DEF AeadInv, ShapeInv, StreamInv
  <2>2. L \in Nat /\ R \in Nat \ {0} /\ chacha.used \in Nat /\ R = PerRefill(chacha.v)
    BY <2>1, VariantSizes DEF ChaChaCtx, PerRefill
  <2>3. PICK q \in Nat : Spent(chacha, 1, p, q) \/ Filled(chacha, 1, p, q)
    BY <2>1 DEF StreamAt
  <2>4. \E b \in Nat : /\ chacha.used <= R /\ made = b * R
                       /\ LanesAt(chacha, 1 + L * b)
    <3> HIDE DEF p, L, R
    <3>1. CASE Spent(chacha, 1, p, q)
      <4>1. chacha.used = R /\ p = q * R /\ LanesAt(chacha, 1 + L * q)
        BY <2>2, <3>1 DEF Spent, L
      <4>2. made = q * R
        BY <2>2, <4>1
      <4> QED
        BY <2>2, <4>1, <4>2
    <3>2. CASE Filled(chacha, 1, p, q)
      <4>1. chacha.used < R /\ p = q * R + chacha.used /\ LanesAt(chacha, 1 + L * (q + 1))
        BY <2>2, <3>2 DEF Filled, L
      <4>2. (q + 1) * R = q * R + R /\ q * R \in Nat /\ q + 1 \in Nat
        BY <2>2
      <4>3. made = (q + 1) * R
        BY <2>2, <4>1, <4>2
      <4> QED
        BY <2>2, <4>1, <4>2, <4>3
    <3> QED
      BY <2>3, <3>1, <3>2
  <2>5. PICK b \in Nat : chacha.used <= R /\ made = b * R /\ LanesAt(chacha, 1 + L * b)
    BY <2>4
  <2>6. made % R = 0 /\ made \div R = b
    <3> HIDE DEF made, R
    <3> QED
      BY <2>2, <2>5, SmallMod
  <2>7. \A i \in 1 .. L : chacha.lane[i] = LaneAt(chacha.v, 1 + (i - 1) + L * (made \div R))
    <3> HIDE DEF made, R
    <3> SUFFICES ASSUME NEW i \in 1 .. L
                 PROVE  chacha.lane[i] = LaneAt(chacha.v, 1 + (i - 1) + L * b)
      BY <2>6
    <3>1. chacha.lane[i] = LaneAt(chacha.v, (1 + L * b) + (i - 1))
      BY <2>5 DEF LanesAt
    <3>2. (1 + L * b) + (i - 1) = 1 + (i - 1) + L * b
      <4>1. L * b \in Nat /\ i \in Nat
        BY <2>2
      <4> HIDE DEF L
      <4> QED
        BY <4>1
    <3> QED
      BY <3>1, <3>2
  <2>8. stage = "open" => Len(poly.buf) = ctx.total_len % BlockSize
    <3> SUFFICES ASSUME stage = "open" PROVE Len(poly.buf) = ctx.total_len % BlockSize
      OBVIOUS
    <3>1. /\ PolyOpen(poly) /\ Fed(poly) = Padded(AadOf(aad)) \o Data
          /\ job \in Job /\ p \in 0 .. MsgLimit(job) /\ seen \in 0 .. MsgLimit(job)
          /\ aad \in Nat
      BY AeadAssumption DEF AeadInv, MacInv, ShapeInv
    <3>2. Data \in Seq(Byte) /\ Len(Data) = ctx.total_len
      BY <2>1, <3>1, InputTypes DEF Data
    <3>3. /\ Padded(AadOf(aad)) \in Seq(Byte) /\ Len(Padded(AadOf(aad))) % BlockSize = 0
          /\ Len(Padded(AadOf(aad))) \in Nat
      BY <3>1, AadOfFacts, PaddedFacts, Join
    <3>4. Len(Fed(poly)) = Len(Padded(AadOf(aad))) + Len(Data) /\ Len(Data) \in Nat
      BY <3>1, <3>2, <3>3, Join
    <3>5. Len(Fed(poly)) % BlockSize = Len(Data) % BlockSize
      <4> DEFINE x == Len(Padded(AadOf(aad)))
                 y == Len(Data)
      <4>1. BlockSize \in Nat \ {0} /\ x \in Nat /\ x % BlockSize = 0 /\ y \in Nat
        BY <3>3, <3>4, BlockSizeAssumption
      <4>2. Len(Fed(poly)) = x + y
        BY <3>4
      <4>3. (x + y) % BlockSize = y % BlockSize
        <5> HIDE DEF x, y
        <5> QED
          BY <4>1, ModAdd
      <4> QED
        BY <4>2, <4>3
    <3> QED
      BY <3>1, <3>2, <3>5, FedLength
  <2> QED
    BY <2>1, <2>5, <2>6, <2>7, <2>8 DEF Positions
<1> QED
  BY <1>1, AeadInvariant, PTL

(* aead.c: no keystream byte is used for two bytes of a message, none of   *)
(* the block that keys the MAC for any, however long the message is.       *)
THEOREM AeadKeystreamFresh == Spec => []KeystreamFresh
<1>1. AeadInv => KeystreamFresh
  <2> SUFFICES ASSUME AeadInv, job.mode = "enc" PROVE KeystreamFresh
    BY DEF KeystreamFresh
  <2>1. /\ job \in Job /\ Len(out) \in 0 .. MsgLimit(job) /\ out = OutOf(job, Len(out))
        /\ MsgLimit(job) \in Nat
    BY LimitType DEF AeadInv, ShapeInv
  <2>2. ASSUME NEW i \in 1 .. Len(out)
        PROVE  out[i].ks = {KsOf(i)} /\ KsOf(i)[1] # 0 /\ i \in Nat \ {0}
    <3>1. i \in 1 .. MsgLimit(job) /\ i \in Nat \ {0}
      BY <2>1
    <3>2. out[i] = Xor(PlainByte(i), KsOf(i))
      BY <2>1, <2>2 DEF OutOf, InByte
    <3> QED
      BY <2>1, <3>1, <3>2, KsOfStream, XorTwice
  <2>3. ASSUME NEW j \in 1 .. Len(out), NEW i \in 1 .. j - 1
        PROVE  out[i].ks \cap out[j].ks = {}
    <3>1. i \in 1 .. Len(out) /\ i # j
      BY <2>1
    <3>2. KsOf(i) # KsOf(j)
      BY <2>2, <3>1, KsOfInjective
    <3> QED
      BY <2>2, <3>1, <3>2
  <2>4. ASSUME NEW i \in 1 .. Len(out), NEW k \in out[i].ks PROVE k[1] # 0
    BY <2>2
  <2> QED
    BY <2>3, <2>4 DEF KeystreamFresh
<1> QED
  BY <1>1, AeadInvariant, PTL

(* aead.c: what is released is what was sent, and nothing is before the    *)
(* tag was found good, for any message, alteration and order of calls.     *)
THEOREM AeadDecryptedIsSent == Spec => []DecryptedIsSent
<1>1. AeadInv => DecryptedIsSent
  <2> SUFFICES ASSUME AeadInv, job.mode = "dec", out # <<>> PROVE DecryptedIsSent
    BY DEF DecryptedIsSent
  <2>1. /\ Genuine /\ Len(out) <= seen /\ out = OutOf(job, Len(out)) /\ job \in Job
        /\ Len(out) \in Nat /\ seen \in Nat
    BY LimitType DEF AeadInv, ReleaseInv, ShapeInv
  <2>2. ASSUME NEW i \in 1 .. Len(out) PROVE Xor(InByte(job, i), KsOf(i)) = PlainByte(i)
    <3>1. i \in 1 .. seen /\ i \in Nat
      BY <2>1
    <3>2. InByte(job, i) = Xor(PlainByte(i), KsOf(i))
      BY <2>1, <3>1 DEF Genuine, CipherByte
    <3> QED
      BY <3>1, <3>2, XorTwice
  <2>3. OutOf(job, Len(out)) = [i \in 1 .. Len(out) |-> PlainByte(i)]
    BY <2>2 DEF OutOf
  <2> QED
    BY <2>1, <2>3 DEF DecryptedIsSent, Genuine
<1> QED
  BY <1>1, AeadInvariant, PTL

(* aead.c implements the message-level promise of RFC 8439: whatever the   *)
(* sizes of the calls, every step is one of AeadMsg or leaves it alone.    *)
THEOREM AeadImplementsMsg == Spec => ImplementsMsg
<1>1. Init => AbsInit
  BY DEF Init
<1>2. AeadInv /\ [Next]_vars => [AbsNext]_absVars
  BY AeadStep
<1> QED
  BY <1>1, <1>2, AeadInvariant, PTL DEF Spec, ImplementsMsg, AbsSpec
=============================================================================
