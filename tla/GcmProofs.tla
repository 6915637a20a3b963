----------------------------- MODULE GcmProofs ------------------------------
(***************************************************************************)
(* The theorems of Gcm, for every block size, bulk width, counter range,   *)
(* message length and set of backends. For callers that keep the AAD block *)
(* rule of ghash.c's aad entry: the lockstep of the two halves of a        *)
(* context, that no copy of held-back bytes leaves its array, and that the *)
(* calls implement GcmMsg. For every caller, as far as a behaviour goes:   *)
(* types and the bounds of the buffer, and that the counter never gives a  *)
(* keystream byte twice.                                                   *)
(***************************************************************************)
EXTENDS Gcm, Integers, DataLemmas

(* Facts about the GHASH buffer operators, for every block size: what they *)
(* return and how many bytes they leave in the buffer.                     *)

(* Whole blocks: the largest multiple of the block size that fits.         *)
LEMMA WholeBlocksBounds ==
    ASSUME NEW n \in Nat
    PROVE  /\ WholeBlocks(n) \in Nat
           /\ WholeBlocks(n) <= n
           /\ n < WholeBlocks(n) + BlockSize
BY BlockSizeAssumption DEF WholeBlocks

(* Less than a block holds no whole block.                                 *)
LEMMA WholeBlocksSmall ==
    ASSUME NEW n \in Nat, n < BlockSize
    PROVE  WholeBlocks(n) = 0
BY BlockSizeAssumption DEF WholeBlocks

(* A multiple of the block size is all whole blocks.                       *)
LEMMA WholeBlocksExact ==
    ASSUME NEW k \in Nat
    PROVE  WholeBlocks(k * BlockSize) = k * BlockSize
BY BlockSizeAssumption DEF WholeBlocks

(* The bytes the model is built from are bytes.                            *)
LEMMA XorType ==
    ASSUME NEW b \in Byte, NEW k \in KsByte
    PROVE  Xor(b, k) \in Byte
BY DEF Xor, Byte, KsByte

(* The padding byte is a byte.                                             *)
LEMMA ZeroByteType == ZeroByte \in Byte
<1>1. <<>> \in Seq(Nat)
  OBVIOUS
<1> QED
  BY <1>1 DEF ZeroByte, Byte

(* A run of padding is a string of bytes of the length asked for.          *)
LEMMA ZerosType ==
    ASSUME NEW n \in Int
    PROVE  Zeros(n) \in Seq(Byte)
<1>1. CASE n \in Nat
  BY <1>1, ZeroByteType DEF Zeros
<1>2. CASE n \notin Nat
  <2>1. Zeros(n) = <<>>
    BY <1>2 DEF Zeros
  <2> QED
    BY <2>1
<1> QED
  BY <1>1, <1>2

(* The closing length block is one block of bytes.                         *)
LEMMA LenBlockType ==
    ASSUME NEW a \in Nat, NEW d \in Nat
    PROVE  LenBlock(a, d) \in Seq(Byte)
<1>1. ASSUME NEW i \in 1 .. BlockSize
      PROVE  [src |-> "len", at |-> <<a, d, i>>, ks |-> {}] \in Byte
  <2>1. <<a, d, i>> \in Seq(Nat)
    BY <1>1
  <2> QED
    BY <2>1 DEF Byte
<1> QED
  BY <1>1, BlockSizeAssumption DEF LenBlock

(* A cut block, padded, is one block of bytes.                             *)
LEMMA PadBlockType ==
    ASSUME NEW b \in Seq(Byte)
    PROVE  PadBlock(b) \in Seq(Byte)
<1>1. BlockSize - Len(b) \in Int
  BY BlockSizeAssumption
<1> QED
  BY <1>1, ZerosType DEF PadBlock

-----------------------------------------------------------------------------
(* Cutting a sequence in two.                                              *)
LEMMA CutType ==
    ASSUME NEW s \in Seq(Byte), NEW m \in Nat, m <= Len(s)
    PROVE  /\ SubSeq(s, 1, m) \in Seq(Byte)
           /\ Len(SubSeq(s, 1, m)) = m
           /\ SubSeq(s, m + 1, Len(s)) \in Seq(Byte)
           /\ Len(SubSeq(s, m + 1, Len(s))) = Len(s) - m
OBVIOUS

(* process(): the buffer grows by less than a block, by nothing when the   *)
(* data is whole blocks, and by all of the data when that is less.         *)
LEMMA ProcessFacts ==
    ASSUME NEW g \in GhashCtx, NEW d \in Seq(Byte)
    PROVE  /\ Process(g, d) \in GhashCtx
           /\ Len(Process(g, d).buf) = Len(g.buf) + (Len(d) - WholeBlocks(Len(d)))
           /\ Process(g, d).phase = g.phase
           /\ Process(g, d).aad_len = g.aad_len
           /\ Process(g, d).data_len = g.data_len
<1> DEFINE full == WholeBlocks(Len(d))
<1>1. full \in Nat /\ full <= Len(d)
  BY WholeBlocksBounds
<1>2. /\ SubSeq(d, 1, full) \in Seq(Byte)
      /\ SubSeq(d, full + 1, Len(d)) \in Seq(Byte)
      /\ Len(SubSeq(d, full + 1, Len(d))) = Len(d) - full
  BY <1>1, CutType
<1> HIDE DEF full
<1>3. /\ g.state \o SubSeq(d, 1, full) \in Seq(Byte)
      /\ g.buf \o SubSeq(d, full + 1, Len(d)) \in Seq(Byte)
      /\ Len(g.buf \o SubSeq(d, full + 1, Len(d))) = Len(g.buf) + (Len(d) - full)
  BY <1>2 DEF GhashCtx
<1>4. Process(g, d) = [g EXCEPT !.state = g.state \o SubSeq(d, 1, full),
                                !.buf   = g.buf \o SubSeq(d, full + 1, Len(d))]
  BY DEF Process, full
<1> QED
  BY <1>3, <1>4 DEF GhashCtx, full

(* init() gives a well-typed context.                                      *)
LEMMA GhInitType == GhInit \in GhashCtx
<1>1. <<>> \in Seq(Byte)
  OBVIOUS
<1> QED
  BY <1>1 DEF GhInit, GhashCtx

(* aad(): in the AAD phase the length grows with the bytes, and from an    *)
(* empty buffer less than a block stays behind.                            *)
LEMMA GhAadFacts ==
    ASSUME NEW g \in GhashCtx, NEW d \in Seq(Byte)
    PROVE  /\ GhAad(g, d) \in GhashCtx
           /\ GhAad(g, d).phase = g.phase
           /\ GhAad(g, d).data_len = g.data_len
           /\ g.phase = 0 => GhAad(g, d).aad_len = g.aad_len + Len(d)
           /\ g.buf = <<>> => Len(GhAad(g, d).buf) < BlockSize
           /\ \/ GhAad(g, d).buf = g.buf
              \/ /\ g.phase = 0
                 /\ Len(GhAad(g, d).buf) = Len(g.buf) + (Len(d) - WholeBlocks(Len(d)))
<1> DEFINE h == [g EXCEPT !.aad_len = @ + Len(d)]
<1>1. CASE g.phase # 0 \/ d = <<>>
  BY <1>1, BlockSizeAssumption DEF GhAad, GhashCtx
<1>2. CASE ~(g.phase # 0 \/ d = <<>>)
  <2>1. g.aad_len + Len(d) \in Nat
    BY DEF GhashCtx
  <2>2. h = [state |-> g.state, buf |-> g.buf, aad_len |-> g.aad_len + Len(d),
             data_len |-> g.data_len, phase |-> g.phase]
    BY DEF GhashCtx
  <2>3. /\ h \in GhashCtx /\ h.buf = g.buf /\ h.phase = g.phase
        /\ h.aad_len = g.aad_len + Len(d) /\ h.data_len = g.data_len
    BY <2>1, <2>2 DEF GhashCtx
  <2>4. GhAad(g, d) = Process(h, d)
    BY <1>2 DEF GhAad
  <2> HIDE DEF h
  <2>5. /\ Process(h, d) \in GhashCtx
        /\ Len(Process(h, d).buf) = Len(h.buf) + (Len(d) - WholeBlocks(Len(d)))
        /\ Process(h, d).phase = h.phase
        /\ Process(h, d).aad_len = h.aad_len
        /\ Process(h, d).data_len = h.data_len
    BY <2>3, ProcessFacts
  <2>6. /\ WholeBlocks(Len(d)) \in Nat
        /\ Len(d) < WholeBlocks(Len(d)) + BlockSize
    BY WholeBlocksBounds
  <2>7. g.buf = <<>> => Len(h.buf) = 0
    BY <2>3
  <2>8. g.buf = <<>> => Len(Process(h, d).buf) < BlockSize
    BY <2>5, <2>6, <2>7, BlockSizeAssumption
  <2>9. g.phase = 0 /\ Len(h.buf) = Len(g.buf)
    BY <1>2, <2>3 DEF GhashCtx
  <2> QED
    BY <2>3, <2>4, <2>5, <2>8, <2>9
<1> QED
  BY <1>1, <1>2

(* The first data call leaves the buffer empty and the phase 1.            *)
LEMMA EnterDataFacts ==
    ASSUME NEW be \in Backend, NEW g \in GhashCtx
    PROVE  /\ EnterData(be, g) \in GhashCtx
           /\ EnterData(be, g).phase = 1
           /\ EnterData(be, g).aad_len = g.aad_len
           /\ EnterData(be, g).data_len = g.data_len
           /\ EnterData(be, g).buf = IF g.phase = 0 THEN <<>> ELSE g.buf
<1>1. CASE g.phase = 0
  <2> DEFINE full == IF be = "pclmul" THEN WholeBlocks(Len(g.buf)) ELSE 0
             head == SubSeq(g.buf, 1, full)
             rem  == SubSeq(g.buf, full + 1, Len(g.buf))
             st   == IF rem = <<>> THEN g.state \o head ELSE g.state \o head \o PadBlock(rem)
  <2>1. g.buf \in Seq(Byte) /\ g.state \in Seq(Byte)
    BY DEF GhashCtx
  <2>2. full \in Nat /\ full <= Len(g.buf)
    BY <2>1, WholeBlocksBounds
  <2>3. head \in Seq(Byte) /\ rem \in Seq(Byte)
    BY <2>1, <2>2, CutType
  <2> HIDE DEF full, head, rem
  <2>4. PadBlock(rem) \in Seq(Byte)
    BY <2>3, PadBlockType
  <2>5. st \in Seq(Byte)
    BY <2>1, <2>3, <2>4
  <2> HIDE DEF st
  <2>6. FlushAad(be, g) = [g EXCEPT !.state = st, !.buf = <<>>]
    BY DEF FlushAad, st, head, rem, full
  <2>7. EnterData(be, g) = [state |-> st, buf |-> <<>>, aad_len |-> g.aad_len,
                            data_len |-> g.data_len, phase |-> 1]
    BY <1>1, <2>6 DEF EnterData, GhashCtx
  <2>8. <<>> \in Seq(Byte)
    OBVIOUS
  <2> QED
    BY <1>1, <2>5, <2>7, <2>8 DEF GhashCtx
<1>2. CASE g.phase # 0
  BY <1>2 DEF EnterData, GhashCtx
<1> QED
  BY <1>1, <1>2

(* Topping up a started block: a block's worth or less leaves no rest.     *)
LEMMA TopUpFacts ==
    ASSUME NEW g \in GhashCtx, NEW d \in Seq(Byte), Len(g.buf) < BlockSize
    PROVE  /\ TopUp(g, d).ctx \in GhashCtx
           /\ TopUp(g, d).rest \in Seq(Byte)
           /\ TopUp(g, d).ctx.phase = g.phase
           /\ TopUp(g, d).ctx.aad_len = g.aad_len
           /\ TopUp(g, d).ctx.data_len = g.data_len
           /\ g.buf = <<>> => /\ Len(TopUp(g, d).ctx.buf) = 0
                              /\ Len(TopUp(g, d).rest) = Len(d)
           /\ g.buf # <<>> /\ Len(g.buf) + Len(d) < BlockSize =>
                 /\ Len(TopUp(g, d).ctx.buf) = Len(g.buf) + Len(d)
                 /\ Len(TopUp(g, d).rest) = 0
           /\ g.buf # <<>> /\ Len(g.buf) + Len(d) = BlockSize =>
                 /\ Len(TopUp(g, d).ctx.buf) = 0
                 /\ Len(TopUp(g, d).rest) = 0
           /\ \/ Len(TopUp(g, d).ctx.buf) = 0
              \/ (Len(TopUp(g, d).ctx.buf) < BlockSize /\ Len(TopUp(g, d).rest) = 0)
<1> DEFINE want == IF g.buf = <<>> THEN 0
                   ELSE IF BlockSize - Len(g.buf) < Len(d)
                        THEN BlockSize - Len(g.buf) ELSE Len(d)
           b    == g.buf \o SubSeq(d, 1, want)
           rest == SubSeq(d, want + 1, Len(d))
           c    == IF Len(b) = BlockSize
                   THEN [g EXCEPT !.state = @ \o b, !.buf = <<>>]
                   ELSE [g EXCEPT !.buf = b]
<1>1. g.buf \in Seq(Byte) /\ g.state \in Seq(Byte)
  BY DEF GhashCtx
<1>2. want \in Nat /\ want <= Len(d) /\ Len(g.buf) + want <= BlockSize
  <2>1. want = IF g.buf = <<>> THEN 0
               ELSE IF BlockSize - Len(g.buf) < Len(d) THEN BlockSize - Len(g.buf) ELSE Len(d)
    OBVIOUS
  <2>2. Len(g.buf) \in Nat /\ Len(d) \in Nat /\ BlockSize \in Nat
    BY <1>1, BlockSizeAssumption
  <2>3. BlockSize - Len(g.buf) \in Nat
    BY <2>2
  <2> HIDE DEF want
  <2>4. CASE g.buf = <<>>
    <3>1. want = 0 /\ Len(g.buf) = 0
      BY <2>1, <2>4
    <3> QED
      BY <2>2, <3>1
  <2>5. CASE g.buf # <<>> /\ BlockSize - Len(g.buf) < Len(d)
    <3>1. want = BlockSize - Len(g.buf)
      BY <2>1, <2>5
    <3> QED
      BY <2>2, <2>3, <2>5, <3>1
  <2>6. CASE g.buf # <<>> /\ ~(BlockSize - Len(g.buf) < Len(d))
    <3>1. want = Len(d)
      BY <2>1, <2>6
    <3> QED
      BY <2>2, <2>3, <2>6, <3>1
  <2> QED
    BY <2>4, <2>5, <2>6
<1>3. /\ SubSeq(d, 1, want) \in Seq(Byte) /\ Len(SubSeq(d, 1, want)) = want
      /\ rest \in Seq(Byte) /\ Len(rest) = Len(d) - want
  BY <1>2, CutType
<1>4. /\ g.buf = <<>> => want = 0 /\ Len(g.buf) = 0
      /\ g.buf # <<>> /\ Len(g.buf) + Len(d) <= BlockSize => want = Len(d)
  BY <1>1, BlockSizeAssumption
<1>13. want = 0 \/ Len(g.buf) + want = BlockSize \/ want = Len(d)
  <2>1. want = 0 \/ want = BlockSize - Len(g.buf) \/ want = Len(d)
    OBVIOUS
  <2> HIDE DEF want
  <2> QED
    BY <1>1, <2>1, BlockSizeAssumption
<1> HIDE DEF want, rest
<1>5. b \in Seq(Byte) /\ Len(b) = Len(g.buf) + want
  BY <1>1, <1>3
<1> HIDE DEF b
<1>6. /\ c \in GhashCtx /\ c.phase = g.phase
      /\ c.aad_len = g.aad_len /\ c.data_len = g.data_len
      /\ Len(b) = BlockSize => Len(c.buf) = 0
      /\ Len(b) # BlockSize => Len(c.buf) = Len(b)
  <2>1. CASE Len(b) = BlockSize
    <3>1. c = [state |-> g.state \o b, buf |-> <<>>, aad_len |-> g.aad_len,
               data_len |-> g.data_len, phase |-> g.phase]
      BY <2>1 DEF GhashCtx
    <3>2. g.state \o b \in Seq(Byte) /\ <<>> \in Seq(Byte) /\ Len(<<>>) = 0
      BY <1>1, <1>5
    <3> QED
      BY <3>1, <3>2, <2>1 DEF GhashCtx
  <2>2. CASE Len(b) # BlockSize
    <3>1. c = [state |-> g.state, buf |-> b, aad_len |-> g.aad_len,
               data_len |-> g.data_len, phase |-> g.phase]
      BY <2>2 DEF GhashCtx
    <3> QED
      BY <3>1, <1>1, <1>5, <2>2 DEF GhashCtx
  <2> QED
    BY <2>1, <2>2
<1>7. TopUp(g, d) = [ctx |-> c, rest |-> rest]
  BY DEF TopUp, want, b, rest
<1> HIDE DEF c
<1>8. TopUp(g, d).ctx = c /\ TopUp(g, d).rest = rest
  BY <1>7
<1>9. Len(b) \in Nat /\ Len(g.buf) \in Nat /\ Len(d) \in Nat
  BY <1>1, <1>5
<1>10. g.buf = <<>> => Len(c.buf) = 0 /\ Len(rest) = Len(d)
  BY <1>3, <1>4, <1>5, <1>6, <1>9
<1>11. g.buf # <<>> /\ Len(g.buf) + Len(d) < BlockSize =>
         Len(c.buf) = Len(g.buf) + Len(d) /\ Len(rest) = 0
  BY <1>3, <1>4, <1>5, <1>6, <1>9, BlockSizeAssumption, SMTT(60)
<1>12. g.buf # <<>> /\ Len(g.buf) + Len(d) = BlockSize =>
         Len(c.buf) = 0 /\ Len(rest) = 0
  BY <1>3, <1>4, <1>5, <1>6, <1>9, BlockSizeAssumption, SMTT(60)
<1>14. Len(c.buf) = 0 \/ (Len(c.buf) < BlockSize /\ Len(rest) = 0)
  <2>1. CASE Len(b) = BlockSize
    BY <1>6, <2>1
  <2>2. CASE Len(b) # BlockSize /\ g.buf = <<>>
    BY <1>4, <1>5, <1>6, <2>2
  <2>3. CASE Len(b) # BlockSize /\ g.buf # <<>>
    <3>1. Len(c.buf) = Len(b) /\ Len(b) = Len(g.buf) + want
      BY <1>5, <1>6, <2>3
    <3>2. Len(b) < BlockSize
      BY <1>2, <1>9, <2>3, <3>1, BlockSizeAssumption
    <3>3. want = 0 => Len(d) = 0 \/ BlockSize - Len(g.buf) = 0
      BY <2>3, <1>9, BlockSizeAssumption DEF want
    <3>4. want = Len(d)
      BY <1>9, <1>13, <2>3, <3>1, <3>3, BlockSizeAssumption
    <3> QED
      BY <1>3, <1>9, <3>1, <3>2, <3>4
  <2> QED
    BY <2>1, <2>2, <2>3
<1> QED
  BY <1>6, <1>8, <1>3, <1>10, <1>11, <1>12, <1>14

(* Counting data changes the count alone.                                  *)
LEMMA AddDataLen ==
    ASSUME NEW g \in GhashCtx, NEW n \in Nat
    PROVE  /\ [g EXCEPT !.data_len = @ + n] \in GhashCtx
           /\ [g EXCEPT !.data_len = @ + n].phase = g.phase
           /\ [g EXCEPT !.data_len = @ + n].aad_len = g.aad_len
           /\ [g EXCEPT !.data_len = @ + n].data_len = g.data_len + n
           /\ [g EXCEPT !.data_len = @ + n].buf = g.buf
           /\ [g EXCEPT !.data_len = @ + n].state = g.state
BY SMTT(60) DEF GhashCtx

(* update(): data that does not run past the end of the started block only *)
(* tops it up; whole blocks from an empty buffer leave it empty.           *)
LEMMA GhUpdateFacts ==
    ASSUME NEW be \in Backend, NEW g \in GhashCtx, NEW d \in Seq(Byte),
           NEW held \in Nat, held < BlockSize,
           held = IF g.phase = 0 THEN 0 ELSE Len(g.buf),
           Len(d) > 0
    PROVE  /\ GhUpdate(be, g, d) \in GhashCtx
           /\ GhUpdate(be, g, d).phase = 1
           /\ GhUpdate(be, g, d).aad_len = g.aad_len
           /\ GhUpdate(be, g, d).data_len = g.data_len + Len(d)
           /\ held + Len(d) < BlockSize => Len(GhUpdate(be, g, d).buf) = held + Len(d)
           /\ held + Len(d) = BlockSize => Len(GhUpdate(be, g, d).buf) = 0
           /\ \A k \in Nat : held = 0 /\ Len(d) = k * BlockSize
                  => Len(GhUpdate(be, g, d).buf) = 0
           /\ Len(GhUpdate(be, g, d).buf) < BlockSize
<1> DEFINE e == EnterData(be, g)
           h == [e EXCEPT !.data_len = @ + Len(d)]
           t == TopUp(h, d)
           u == Process(t.ctx, t.rest)
<1>1. /\ e \in GhashCtx /\ e.phase = 1 /\ e.aad_len = g.aad_len
      /\ e.data_len = g.data_len
      /\ e.buf = IF g.phase = 0 THEN <<>> ELSE g.buf
  BY EnterDataFacts
<1> HIDE DEF e
<1>4. /\ h \in GhashCtx /\ h.phase = 1 /\ h.aad_len = g.aad_len
      /\ h.data_len = g.data_len + Len(d) /\ h.buf = e.buf
  <2>1. Len(d) \in Nat
    OBVIOUS
  <2> QED
    BY <1>1, <2>1, AddDataLen, ZenonT(60)
<1> HIDE DEF h
<1>5. /\ h.buf \in Seq(Byte) /\ Len(h.buf) = held
      /\ h.buf = <<>> <=> held = 0
  BY <1>1, <1>4 DEF GhashCtx
<1>6. /\ t.ctx \in GhashCtx /\ t.rest \in Seq(Byte)
      /\ t.ctx.phase = 1 /\ t.ctx.aad_len = g.aad_len
      /\ t.ctx.data_len = g.data_len + Len(d)
      /\ held = 0 => Len(t.ctx.buf) = 0 /\ Len(t.rest) = Len(d)
      /\ held # 0 /\ held + Len(d) < BlockSize
           => Len(t.ctx.buf) = held + Len(d) /\ Len(t.rest) = 0
      /\ held # 0 /\ held + Len(d) = BlockSize
           => Len(t.ctx.buf) = 0 /\ Len(t.rest) = 0
      /\ Len(t.ctx.buf) = 0 \/ (Len(t.ctx.buf) < BlockSize /\ Len(t.rest) = 0)
  <2>1. /\ t.ctx \in GhashCtx /\ t.rest \in Seq(Byte)
        /\ t.ctx.phase = h.phase /\ t.ctx.aad_len = h.aad_len
        /\ t.ctx.data_len = h.data_len
        /\ h.buf = <<>> => Len(t.ctx.buf) = 0 /\ Len(t.rest) = Len(d)
        /\ h.buf # <<>> /\ Len(h.buf) + Len(d) < BlockSize
             => Len(t.ctx.buf) = Len(h.buf) + Len(d) /\ Len(t.rest) = 0
        /\ h.buf # <<>> /\ Len(h.buf) + Len(d) = BlockSize
             => Len(t.ctx.buf) = 0 /\ Len(t.rest) = 0
        /\ Len(t.ctx.buf) = 0 \/ (Len(t.ctx.buf) < BlockSize /\ Len(t.rest) = 0)
    BY <1>4, <1>5, TopUpFacts
  <2> HIDE DEF t
  <2> QED
    BY <2>1, <1>4, <1>5
<1> HIDE DEF t
<1>7. /\ u \in GhashCtx /\ u.phase = 1 /\ u.aad_len = g.aad_len
      /\ u.data_len = g.data_len + Len(d)
      /\ Len(u.buf) = Len(t.ctx.buf) + (Len(t.rest) - WholeBlocks(Len(t.rest)))
  BY <1>6, ProcessFacts
<1> HIDE DEF u
<1>8. /\ WholeBlocks(0) = 0
      /\ Len(d) < BlockSize => WholeBlocks(Len(d)) = 0
      /\ Len(d) = BlockSize => WholeBlocks(Len(d)) = Len(d)
      /\ \A k \in Nat : Len(d) = k * BlockSize => WholeBlocks(Len(d)) = Len(d)
  <2>1. WholeBlocks(0) = 0 /\ (Len(d) < BlockSize => WholeBlocks(Len(d)) = 0)
    BY WholeBlocksSmall, BlockSizeAssumption
  <2>2. Len(d) = BlockSize => WholeBlocks(Len(d)) = Len(d)
    <3>1. WholeBlocks(1 * BlockSize) = 1 * BlockSize
      BY WholeBlocksExact
    <3> QED
      BY <3>1, BlockSizeAssumption
  <2> QED
    BY <2>1, <2>2, WholeBlocksExact
<1>9. GhUpdate(be, g, d) = u
  <2>1. d # <<>>
    OBVIOUS
  <2> QED
    BY <2>1 DEF GhUpdate, u, t, h, e
<1>10. held + Len(d) < BlockSize => Len(u.buf) = held + Len(d)
  BY <1>6, <1>7, <1>8, BlockSizeAssumption
<1>11. held + Len(d) = BlockSize => Len(u.buf) = 0
  BY <1>6, <1>7, <1>8, BlockSizeAssumption
<1>12. ASSUME NEW k \in Nat, held = 0, Len(d) = k * BlockSize
       PROVE  Len(u.buf) = 0
  <2>1. WholeBlocks(Len(d)) = Len(d)
    BY <1>8, <1>12
  <2> QED
    BY <1>6, <1>7, <1>12, <2>1
<1>13. Len(u.buf) < BlockSize
  <2>1. /\ WholeBlocks(Len(t.rest)) \in Nat
        /\ Len(t.rest) < WholeBlocks(Len(t.rest)) + BlockSize
    <3>1. Len(t.rest) \in Nat
      BY <1>6
    <3> QED
      BY ONLY <3>1, WholeBlocksBounds
  <2>2. Len(t.rest) \in Nat /\ Len(t.ctx.buf) \in Nat /\ BlockSize \in Nat \ {0}
    <3>1. Len(t.rest) \in Nat
      BY <1>6
    <3>2. Len(t.ctx.buf) \in Nat
      BY <1>6, SMTT(60) DEF GhashCtx
    <3> QED
      BY ONLY <3>1, <3>2, BlockSizeAssumption
  <2>3. CASE Len(t.ctx.buf) = 0
    BY <1>7, <2>1, <2>2, <2>3
  <2>4. CASE Len(t.ctx.buf) < BlockSize /\ Len(t.rest) = 0
    BY <1>7, <1>8, <2>2, <2>4
  <2> QED
    BY <1>6, <2>3, <2>4
<1> QED
  BY <1>7, <1>9, <1>10, <1>11, <1>12, <1>13

(* final(): the context stays a context.                                   *)
LEMMA GhFinalType ==
    ASSUME NEW g \in GhashCtx
    PROVE  GhFinal(g) \in GhashCtx
<1> DEFINE tail == IF g.buf = <<>> THEN <<>> ELSE PadBlock(g.buf)
           st   == g.state \o tail \o LenBlock(g.aad_len, g.data_len)
<1>1. g.buf \in Seq(Byte) /\ g.state \in Seq(Byte) /\ g.aad_len \in Nat /\ g.data_len \in Nat
  BY DEF GhashCtx
<1>2. tail \in Seq(Byte) /\ <<>> \in Seq(Byte)
  BY <1>1, PadBlockType
<1> HIDE DEF tail
<1>3. st \in Seq(Byte)
  <2>1. LenBlock(g.aad_len, g.data_len) \in Seq(Byte)
    BY <1>1, LenBlockType
  <2> QED
    BY <1>1, <1>2, <2>1
<1> HIDE DEF st
<1>4. GhFinal(g) = [state |-> st, buf |-> <<>>, aad_len |-> g.aad_len,
                    data_len |-> g.data_len, phase |-> 1]
  <2>1. GhFinal(g) = [g EXCEPT !.state = st, !.buf = <<>>, !.phase = 1]
    BY DEF GhFinal, st, tail
  <2> QED
    BY <2>1 DEF GhashCtx
<1> QED
  BY <1>1, <1>2, <1>3, <1>4 DEF GhashCtx

-----------------------------------------------------------------------------
(* What a GHASH context holds, whole blocks and rest together.  Between    *)
(* two calls the absorbed part is whole blocks and the rest less than one. *)
GhFed(g) == g.state \o g.buf

GhOpen(g) ==
    /\ g \in GhashCtx
    /\ Len(g.buf) < BlockSize
    /\ Len(g.state) % BlockSize = 0

(* The context after AAD a and data c: the first data call pads the AAD.   *)
GhHolds(g, a, c) ==
    /\ GhOpen(g)
    /\ g.aad_len = Len(a) /\ g.data_len = Len(c)
    /\ GhFed(g) = IF g.phase = 0 THEN a ELSE Padded(a) \o c
    /\ g.phase = 0 => c = <<>>

(* The parts of an open context.                                           *)
LEMMA GhOpenFacts ==
    ASSUME NEW g, GhOpen(g)
    PROVE  /\ g.state \in Seq(Byte) /\ g.buf \in Seq(Byte) /\ GhFed(g) \in Seq(Byte)
           /\ Len(g.state) \in Nat /\ Len(g.buf) \in Nat
           /\ g.phase \in {0, 1} /\ g.aad_len \in Nat /\ g.data_len \in Nat
           /\ BlockSize \in Nat \ {0}
<1>1. /\ g.state \in Seq(Byte) /\ g.buf \in Seq(Byte)
      /\ g.phase \in {0, 1} /\ g.aad_len \in Nat /\ g.data_len \in Nat
  BY DEF GhOpen, GhashCtx
<1> QED
  BY <1>1, Join, BlockSizeAssumption DEF GhFed

(* Whole blocks in front of a string stay out of its padding.              *)
LEMMA PaddedJoin ==
    ASSUME NEW s \in Seq(Byte), NEW t \in Seq(Byte), Len(s) % BlockSize = 0
    PROVE  Padded(s \o t) = s \o Padded(t)
<1>1. /\ Len(s) \in Nat /\ Len(t) \in Nat /\ BlockSize \in Nat \ {0}
      /\ s \o t \in Seq(Byte) /\ Len(s \o t) = Len(s) + Len(t)
  BY Join, BlockSizeAssumption
<1>2. (Len(s) + Len(t)) % BlockSize = Len(t) % BlockSize
  BY <1>1, ModAdd
<1>3. PadLen(Len(s \o t)) = PadLen(Len(t))
  BY <1>1, <1>2 DEF PadLen
<1> DEFINE z == Zeros(PadLen(Len(t)))
<1>4. z \in Seq(Byte)
  BY <1>1, PadLenFacts, ZerosFacts
<1>5. Padded(s \o t) = (s \o t) \o z
  BY <1>1, <1>3, PaddedFacts
<1>6. Padded(t) = t \o z
  BY PaddedFacts
<1> HIDE DEF z
<1>7. (s \o t) \o z = s \o (t \o z)
  BY <1>4, Join
<1> QED
  BY <1>5, <1>6, <1>7

(* Nothing needs no padding.                                               *)
LEMMA PaddedNothing == Padded(<<>>) = <<>> /\ <<>> \in Seq(Byte) /\ Len(<<>>) = 0
<1>1. <<>> \in Seq(Byte) /\ Len(<<>>) = 0
  OBVIOUS
<1>2. Len(Padded(<<>>)) = 0 /\ Padded(<<>>) \in Seq(Byte)
  <2>1. PadLen(0) = 0
    <3>1. 0 % BlockSize = 0
      BY SmallMod, BlockSizeAssumption
    <3> QED
      BY <3>1, PadLenFacts
  <2>2. /\ Padded(<<>>) \in Seq(Byte)
        /\ Len(Padded(<<>>)) = Len(<<>>) + PadLen(Len(<<>>))
    BY ONLY <1>1, PaddedFacts
  <2> QED
    BY <1>1, <2>1, <2>2
<1> QED
  BY <1>1, <1>2

(* The padding of a rest that is less than a block.                        *)
LEMMA PaddedRest ==
    ASSUME NEW b \in Seq(Byte), Len(b) < BlockSize
    PROVE  Padded(b) = IF b = <<>> THEN <<>> ELSE PadBlock(b)
<1>1. CASE b = <<>>
  BY <1>1, PaddedNothing
<1>2. CASE b # <<>>
  <2>1. Len(b) \in Nat /\ Len(b) # 0
    BY <1>2
  <2>2. Len(b) % BlockSize = Len(b)
    BY <2>1, SmallMod, BlockSizeAssumption
  <2>3. PadLen(Len(b)) = BlockSize - Len(b)
    BY <2>1, <2>2, PadLenFacts
  <2> QED
    BY <1>2, <2>3, PaddedFacts DEF PadBlock
<1> QED
  BY <1>1, <1>2

(* process() appends its data, if the buffer is empty or the data is.      *)
LEMMA ProcessBytes ==
    ASSUME NEW g, GhOpen(g), NEW d \in Seq(Byte), g.buf = <<>> \/ d = <<>>
    PROVE  GhOpen(Process(g, d)) /\ GhFed(Process(g, d)) = GhFed(g) \o d
<1> DEFINE full == WholeBlocks(Len(d))
           head == SubSeq(d, 1, full)
           tail == SubSeq(d, full + 1, Len(d))
           p    == Process(g, d)
<1>1. /\ g.state \in Seq(Byte) /\ g.buf \in Seq(Byte) /\ GhFed(g) \in Seq(Byte)
      /\ Len(g.state) \in Nat /\ Len(g.buf) \in Nat /\ BlockSize \in Nat \ {0}
      /\ Len(g.state) % BlockSize = 0 /\ g \in GhashCtx /\ Len(g.buf) < BlockSize
  BY GhOpenFacts DEF GhOpen
<1>2. full \in 0 .. Len(d) /\ Len(d) < full + BlockSize /\ Len(d) \in Nat
  BY WholeBlocksBounds
<1>3. full % BlockSize = 0
  <2>1. Len(d) \div BlockSize \in Nat
    BY <1>1, <1>2, DivModSplit
  <2> QED
    BY <1>1, <2>1, SmallMod DEF WholeBlocks
<1> HIDE DEF full
<1>4. /\ head \in Seq(Byte) /\ Len(head) = full /\ tail \in Seq(Byte)
      /\ Len(tail) = Len(d) - full /\ head \o tail = d
  <2>1. full \in 0 .. Len(d)
    BY <1>2
  <2> QED
    BY ONLY <2>1, d \in Seq(Byte), CutFacts
<1>5. /\ p \in GhashCtx /\ p.state = g.state \o head /\ p.buf = g.buf \o tail
  <2>1. p = [g EXCEPT !.state = g.state \o head, !.buf = g.buf \o tail]
    BY DEF Process, full
  <2>2. p \in GhashCtx
    BY <1>1, ProcessFacts
  <2> HIDE DEF p, head, tail
  <2> QED
    BY <1>1, <2>1, <2>2 DEF GhashCtx
<1> HIDE DEF head, tail, p
<1>6. Len(p.state) % BlockSize = 0
  <2>1. Len(p.state) = Len(g.state) + full
    BY <1>1, <1>4, <1>5, Join, ZenonT(150)
  <2>2. full \in Nat
    BY <1>2
  <2>3. (Len(g.state) + full) % BlockSize = full % BlockSize
    <3>1. Len(g.state) \in Nat /\ BlockSize \in Nat \ {0} /\ Len(g.state) % BlockSize = 0
      BY <1>1
    <3> QED
      BY ONLY <2>2, <3>1, ModAdd
  <2> QED
    BY <1>3, <2>1, <2>3
<1>7. CASE g.buf = <<>>
  <2>1. p.buf = tail /\ GhFed(g) = g.state
    BY <1>1, <1>4, <1>5, <1>7, Join DEF GhFed
  <2>2. (g.state \o head) \o tail = g.state \o (head \o tail)
    BY <1>1, <1>4, Join, ZenonT(150)
  <2>3. GhFed(p) = GhFed(g) \o d
    BY <1>4, <1>5, <2>1, <2>2 DEF GhFed
  <2>4. Len(p.buf) < BlockSize
    BY <1>1, <1>2, <1>4, <2>1
  <2> QED
    BY <1>5, <1>6, <2>3, <2>4 DEF GhOpen, p
<1>8. CASE d = <<>>
  <2>1. full = 0 /\ Len(head) = 0 /\ Len(tail) = 0
    BY <1>2, <1>4, <1>8
  <2>2. head = <<>> /\ tail = <<>>
    BY <1>4, <2>1
  <2>3. p.state = g.state /\ p.buf = g.buf /\ GhFed(g) \o d = GhFed(g)
    BY <1>1, <1>5, <1>8, <2>2, Join
  <2> QED
    BY <1>1, <1>5, <2>3 DEF GhOpen, GhFed, p
<1> QED
  BY <1>7, <1>8

(* aad(), from a block boundary: the AAD grows by the bytes given.         *)
LEMMA GhAadBytes ==
    ASSUME NEW g, NEW a \in Seq(Byte), GhHolds(g, a, <<>>), g.phase = 0, g.buf = <<>>,
           NEW d \in Seq(Byte)
    PROVE  GhHolds(GhAad(g, d), a \o d, <<>>) /\ GhAad(g, d).phase = 0
<1>1. GhOpen(g) /\ g.aad_len = Len(a) /\ g.data_len = 0 /\ GhFed(g) = a
  BY DEF GhHolds
<1>2. g \in GhashCtx /\ Len(a \o d) = Len(a) + Len(d) /\ Len(d) \in Nat /\ Len(a) \in Nat
  BY <1>1, Join DEF GhOpen
<1>3. CASE d = <<>>
  <2>1. a \o d = a /\ GhAad(g, d) = g
    BY <1>3, Join DEF GhAad
  <2> QED
    BY <2>1
<1>4. CASE d # <<>>
  <2> DEFINE h == [g EXCEPT !.aad_len = @ + Len(d)]
  <2>1. h = [state |-> g.state, buf |-> g.buf, aad_len |-> g.aad_len + Len(d),
             data_len |-> g.data_len, phase |-> g.phase]
    <3>1. g \in GhashCtx
      BY <1>2
    <3> QED
      BY ONLY <3>1, SMTT(60) DEF GhashCtx
  <2>2. /\ h \in GhashCtx /\ h.state = g.state /\ h.buf = g.buf /\ h.phase = 0
        /\ h.aad_len = Len(a \o d) /\ h.data_len = 0
    BY <1>1, <1>2, <2>1 DEF GhashCtx
  <2>3. GhAad(g, d) = Process(h, d)
    BY <1>4 DEF GhAad
  <2> HIDE DEF h
  <2>4. GhOpen(h) /\ GhFed(h) = a
    BY <1>1, <2>2 DEF GhOpen, GhFed
  <2>5. GhOpen(Process(h, d)) /\ GhFed(Process(h, d)) = a \o d
    BY <2>2, <2>4, ProcessBytes
  <2>6. /\ Process(h, d).phase = 0 /\ Process(h, d).aad_len = Len(a \o d)
        /\ Process(h, d).data_len = 0
    BY <2>2, ProcessFacts
  <2> QED
    BY <2>3, <2>5, <2>6 DEF GhHolds
<1> QED
  BY <1>3, <1>4

(* What the data phase starts from: the AAD, padded once.                  *)
GhStart(g) == IF g.phase = 0 THEN Padded(GhFed(g)) ELSE GhFed(g)

(* The first data call pads the AAD, whichever backend does it.            *)
LEMMA EnterDataBytes ==
    ASSUME NEW be \in Backend, NEW g, GhOpen(g)
    PROVE  GhOpen(EnterData(be, g)) /\ GhFed(EnterData(be, g)) = GhStart(g)
<1> DEFINE e == EnterData(be, g)
<1>1. /\ g.state \in Seq(Byte) /\ g.buf \in Seq(Byte) /\ GhFed(g) \in Seq(Byte)
      /\ Len(g.state) \in Nat /\ Len(g.buf) \in Nat /\ BlockSize \in Nat \ {0}
      /\ Len(g.state) % BlockSize = 0 /\ g \in GhashCtx /\ Len(g.buf) < BlockSize
  BY GhOpenFacts DEF GhOpen
<1>2. CASE g.phase # 0
  BY <1>2 DEF EnterData, GhStart
<1>3. CASE g.phase = 0
  <2> DEFINE full == IF be = "pclmul" THEN WholeBlocks(Len(g.buf)) ELSE 0
             head == SubSeq(g.buf, 1, full)
             rem  == SubSeq(g.buf, full + 1, Len(g.buf))
             st   == IF rem = <<>> THEN g.state \o head ELSE g.state \o head \o PadBlock(rem)
  <2>1. full = 0
    BY <1>1, WholeBlocksSmall
  <2>2. head = <<>> /\ rem = g.buf
    <3> HIDE DEF full
    <3>1. 0 \in 0 .. Len(g.buf)
      BY <1>1
    <3>2. /\ SubSeq(g.buf, 1, 0) = <<>>
          /\ SubSeq(g.buf, 1, 0) \o SubSeq(g.buf, 0 + 1, Len(g.buf)) = g.buf
          /\ SubSeq(g.buf, 0 + 1, Len(g.buf)) \in Seq(Byte)
      BY ONLY <1>1, <3>1, CutFacts
    <3>3. <<>> \o SubSeq(g.buf, 0 + 1, Len(g.buf)) = SubSeq(g.buf, 0 + 1, Len(g.buf))
      BY ONLY <3>2, Join
    <3> QED
      BY <2>1, <3>2, <3>3
  <2> HIDE DEF full, head, rem
  <2>3. FlushAad(be, g) = [g EXCEPT !.state = st, !.buf = <<>>]
    BY DEF FlushAad, st, head, rem, full
  <2>4. st = g.state \o Padded(g.buf)
    <3>1. Padded(g.buf) = IF g.buf = <<>> THEN <<>> ELSE PadBlock(g.buf)
      BY <1>1, PaddedRest
    <3>2. g.state \o <<>> = g.state
      BY <1>1, Join
    <3> QED
      BY <2>2, <3>1, <3>2
  <2> HIDE DEF st
  <2>5. e = [state |-> st, buf |-> <<>>, aad_len |-> g.aad_len,
             data_len |-> g.data_len, phase |-> 1]
    BY <1>1, <1>3, <2>3 DEF EnterData, GhashCtx
  <2>6. e \in GhashCtx
    BY <1>1, EnterDataFacts
  <2> HIDE DEF e
  <2>7. e.state = st /\ e.buf = <<>> /\ Len(e.buf) = 0
    BY <2>5
  <2>8. st = Padded(GhFed(g))
    BY <1>1, <2>4, PaddedJoin DEF GhFed
  <2>9. st \in Seq(Byte) /\ Len(st) % BlockSize = 0
    BY <1>1, <2>8, PaddedFacts
  <2>10. GhFed(e) = st
    BY <2>7, <2>9, Join DEF GhFed
  <2> QED
    BY <1>1, <1>3, <2>6, <2>7, <2>8, <2>9, <2>10 DEF GhOpen, GhStart, e
<1> QED
  BY <1>2, <1>3

(* Topping up loses nothing, and stops at the end of the block or of the   *)
(* data.                                                                   *)
LEMMA TopUpBytes ==
    ASSUME NEW g, GhOpen(g), NEW d \in Seq(Byte)
    PROVE  /\ GhOpen(TopUp(g, d).ctx) /\ TopUp(g, d).rest \in Seq(Byte)
           /\ GhFed(TopUp(g, d).ctx) \o TopUp(g, d).rest = GhFed(g) \o d
           /\ TopUp(g, d).ctx.buf = <<>> \/ TopUp(g, d).rest = <<>>
<1> DEFINE want == IF g.buf = <<>> THEN 0
                   ELSE IF BlockSize - Len(g.buf) < Len(d)
                        THEN BlockSize - Len(g.buf) ELSE Len(d)
           left == SubSeq(d, 1, want)
           b    == g.buf \o left
           rest == SubSeq(d, want + 1, Len(d))
           c    == IF Len(b) = BlockSize
                   THEN [g EXCEPT !.state = @ \o b, !.buf = <<>>]
                   ELSE [g EXCEPT !.buf = b]
<1>1. /\ g.state \in Seq(Byte) /\ g.buf \in Seq(Byte) /\ GhFed(g) \in Seq(Byte)
      /\ Len(g.state) \in Nat /\ Len(g.buf) \in Nat /\ BlockSize \in Nat \ {0}
      /\ Len(g.state) % BlockSize = 0 /\ g \in GhashCtx /\ Len(g.buf) < BlockSize
      /\ Len(d) \in Nat
  BY GhOpenFacts DEF GhOpen
<1>2. want \in 0 .. Len(d)
  <2>1. want = 0 \/ (want = BlockSize - Len(g.buf) /\ want < Len(d)) \/ want = Len(d)
    OBVIOUS
  <2> HIDE DEF want
  <2> QED
    BY <1>1, <2>1
<1> HIDE DEF want
<1>3. /\ left \in Seq(Byte) /\ rest \in Seq(Byte) /\ left \o rest = d
  BY ONLY <1>2, d \in Seq(Byte), CutFacts
<1>4. TopUp(g, d) = [ctx |-> c, rest |-> rest]
  BY DEF TopUp, want, left, b, rest, c
<1> HIDE DEF left, rest
<1>5. b \in Seq(Byte)
  BY <1>1, <1>3, Join
<1>6. g.state \o b = GhFed(g) \o left
  <2>1. g.state \in Seq(Byte) /\ g.buf \in Seq(Byte) /\ left \in Seq(Byte)
    BY <1>1, <1>3
  <2>2. (g.state \o g.buf) \o left = g.state \o (g.buf \o left)
    BY ONLY <2>1, Join
  <2> QED
    BY ONLY <2>2 DEF GhFed
<1>7. (GhFed(g) \o left) \o rest = GhFed(g) \o d
  <2>1. GhFed(g) \in Seq(Byte) /\ left \in Seq(Byte) /\ rest \in Seq(Byte)
    BY <1>1, <1>3
  <2>2. (GhFed(g) \o left) \o rest = GhFed(g) \o (left \o rest)
    BY ONLY <2>1, Join
  <2> QED
    BY ONLY <1>3, <2>2
<1> HIDE DEF b
<1>8. c \in GhashCtx /\ Len(c.state) % BlockSize = 0 /\ GhFed(c) = g.state \o b
  <2>1. CASE Len(b) = BlockSize
    <3>1. c = [state |-> g.state \o b, buf |-> <<>>, aad_len |-> g.aad_len,
               data_len |-> g.data_len, phase |-> g.phase]
      <4>1. c = [g EXCEPT !.state = @ \o b, !.buf = <<>>] /\ g \in GhashCtx
        BY <1>1, <2>1
      <4> QED
        BY ONLY <4>1 DEF GhashCtx
    <3>2. /\ g.state \o b \in Seq(Byte) /\ Len(g.state \o b) = Len(g.state) + BlockSize
          /\ (g.state \o b) \o <<>> = g.state \o b /\ <<>> \in Seq(Byte)
      <4>1. g.state \in Seq(Byte) /\ b \in Seq(Byte) /\ <<>> \in Seq(Byte)
        BY <1>1, <1>5
      <4>2. g.state \o b \in Seq(Byte) /\ Len(g.state \o b) = Len(g.state) + Len(b)
        BY ONLY <4>1, Join
      <4>3. (g.state \o b) \o <<>> = g.state \o b
        BY ONLY <4>2, Join
      <4> QED
        BY <2>1, <4>1, <4>2, <4>3
    <3>3. (Len(g.state) + BlockSize) % BlockSize = 0
      <4>1. BlockSize % BlockSize = 0 /\ BlockSize \in Nat
        BY ONLY BlockSizeAssumption, SmallMod
      <4> QED
        BY ONLY <1>1, <4>1, ModAdd
    <3> HIDE DEF c
    <3>4. c \in GhashCtx
      BY <1>1, <3>1, <3>2 DEF GhashCtx
    <3>5. c.state = g.state \o b /\ c.buf = <<>>
      BY <3>1
    <3> QED
      BY <3>2, <3>3, <3>4, <3>5 DEF GhFed
  <2>2. CASE Len(b) # BlockSize
    <3>1. c = [state |-> g.state, buf |-> b, aad_len |-> g.aad_len,
               data_len |-> g.data_len, phase |-> g.phase]
      <4>1. c = [g EXCEPT !.buf = b] /\ g \in GhashCtx
        BY <1>1, <2>2
      <4> QED
        BY ONLY <4>1 DEF GhashCtx
    <3> HIDE DEF c
    <3>2. c \in GhashCtx /\ c.state = g.state /\ c.buf = b
      BY <1>1, <1>5, <3>1 DEF GhashCtx
    <3> QED
      BY <1>1, <3>2 DEF GhFed
  <2> QED
    BY <2>1, <2>2
<1> HIDE DEF c
<1>9. Len(c.buf) = 0 \/ (Len(c.buf) < BlockSize /\ Len(rest) = 0)
  <2>1. \/ Len(TopUp(g, d).ctx.buf) = 0
        \/ (Len(TopUp(g, d).ctx.buf) < BlockSize /\ Len(TopUp(g, d).rest) = 0)
    BY <1>1, TopUpFacts
  <2> QED
    BY <1>4, <2>1
<1>10. c.buf \in Seq(Byte)
  BY <1>8 DEF GhashCtx
<1>11. (Len(c.buf) = 0 => c.buf = <<>>) /\ (Len(rest) = 0 => rest = <<>>)
  BY <1>3, <1>10
<1>12. GhOpen(c) /\ (c.buf = <<>> \/ rest = <<>>)
  <2>1. Len(c.buf) < BlockSize
    BY <1>1, <1>9
  <2>2. GhOpen(c)
    BY ONLY <1>8, <2>1 DEF GhOpen
  <2> QED
    BY <1>9, <1>11, <2>2
<1>13. GhFed(c) \o rest = GhFed(g) \o d
  BY <1>6, <1>7, <1>8
<1>14. TopUp(g, d).ctx = c /\ TopUp(g, d).rest = rest
  BY <1>4
<1> QED
  BY <1>3, <1>12, <1>13, <1>14

(* update(): the data grows by the bytes given, however they are cut, and  *)
(* the first of them closes the AAD.                                       *)
LEMMA GhUpdateBytes ==
    ASSUME NEW be \in Backend, NEW g, NEW a \in Seq(Byte), NEW c \in Seq(Byte),
           GhHolds(g, a, c), NEW d \in Seq(Byte), Len(d) > 0
    PROVE  GhHolds(GhUpdate(be, g, d), a, c \o d)
<1> DEFINE e == EnterData(be, g)
           h == [e EXCEPT !.data_len = @ + Len(d)]
           t == TopUp(h, d)
           u == Process(t.ctx, t.rest)
<1>1. GhOpen(g) /\ g \in GhashCtx /\ g.aad_len = Len(a) /\ g.data_len = Len(c)
  BY DEF GhHolds, GhOpen
<1>2. GhStart(g) = Padded(a) \o c
  <2>1. CASE g.phase = 0
    <3>1. GhFed(g) = a /\ c = <<>>
      BY <2>1 DEF GhHolds
    <3>2. Padded(a) \in Seq(Byte)
      BY PaddedFacts
    <3>3. Padded(a) \o <<>> = Padded(a)
      BY ONLY <3>2, Join
    <3> QED
      BY <2>1, <3>1, <3>3 DEF GhStart
  <2>2. CASE g.phase # 0
    BY <2>2 DEF GhHolds, GhStart
  <2> QED
    BY <2>1, <2>2
<1>3. /\ GhOpen(e) /\ GhFed(e) = GhStart(g) /\ e.phase = 1
      /\ e.aad_len = g.aad_len /\ e.data_len = g.data_len
  BY <1>1, EnterDataBytes, EnterDataFacts
<1> HIDE DEF e
<1>4. Len(d) \in Nat /\ e \in GhashCtx
  BY <1>3 DEF GhOpen
<1>5. /\ h \in GhashCtx /\ h.phase = 1 /\ h.aad_len = Len(a)
      /\ h.data_len = Len(c) + Len(d) /\ h.buf = e.buf /\ h.state = e.state
  <2>1. /\ h \in GhashCtx /\ h.phase = e.phase /\ h.aad_len = e.aad_len
        /\ h.data_len = e.data_len + Len(d) /\ h.buf = e.buf /\ h.state = e.state
    BY ONLY <1>4, AddDataLen
  <2> HIDE DEF h
  <2> QED
    BY <1>1, <1>3, <2>1
<1> HIDE DEF h
<1>6. GhOpen(h) /\ GhFed(h) = GhStart(g)
  BY <1>3, <1>5 DEF GhOpen, GhFed
<1>7. /\ GhOpen(t.ctx) /\ t.rest \in Seq(Byte) /\ GhFed(t.ctx) \o t.rest = GhStart(g) \o d
      /\ t.ctx.buf = <<>> \/ t.rest = <<>>
  <2>1. /\ GhOpen(t.ctx) /\ t.rest \in Seq(Byte) /\ GhFed(t.ctx) \o t.rest = GhFed(h) \o d
        /\ t.ctx.buf = <<>> \/ t.rest = <<>>
    BY ONLY <1>6, d \in Seq(Byte), TopUpBytes
  <2> HIDE DEF t
  <2> QED
    BY <1>6, <2>1
<1>8. t.ctx.phase = 1 /\ t.ctx.aad_len = Len(a) /\ t.ctx.data_len = Len(c) + Len(d)
  <2>1. Len(h.buf) < BlockSize
    BY <1>6 DEF GhOpen
  <2>2. /\ t.ctx.phase = h.phase /\ t.ctx.aad_len = h.aad_len
        /\ t.ctx.data_len = h.data_len
    BY <1>5, <2>1, TopUpFacts
  <2> QED
    BY <1>5, <2>2
<1> HIDE DEF t
<1>9. GhOpen(u) /\ GhFed(u) = GhFed(t.ctx) \o t.rest
  BY ONLY <1>7, ProcessBytes
<1>10. u.phase = 1 /\ u.aad_len = Len(a) /\ u.data_len = Len(c) + Len(d)
  <2>1. t.ctx \in GhashCtx
    BY <1>7 DEF GhOpen
  <2>2. /\ u.phase = t.ctx.phase /\ u.aad_len = t.ctx.aad_len
        /\ u.data_len = t.ctx.data_len
    BY ONLY <1>7, <2>1, ProcessFacts
  <2> QED
    BY <1>8, <2>2
<1> HIDE DEF u
<1>11. GhUpdate(be, g, d) = u
  <2>1. d # <<>>
    OBVIOUS
  <2> QED
    BY <2>1 DEF GhUpdate, u, t, h, e
<1>12. GhFed(u) = Padded(a) \o (c \o d) /\ Len(c \o d) = Len(c) + Len(d)
  <2>1. Padded(a) \in Seq(Byte)
    BY PaddedFacts
  <2>2. (Padded(a) \o c) \o d = Padded(a) \o (c \o d)
    BY ONLY <2>1, c \in Seq(Byte), d \in Seq(Byte), Join, SMTT(60)
  <2>3. Len(c \o d) = Len(c) + Len(d)
    BY ONLY c \in Seq(Byte), d \in Seq(Byte), Join
  <2> QED
    BY ONLY <1>2, <1>7, <1>9, <2>2, <2>3
<1>13. GhHolds(u, a, c \o d)
  BY ONLY <1>9, <1>10, <1>12 DEF GhHolds
<1> QED
  BY ONLY <1>11, <1>13

(* final(): what is absorbed then is AAD and data, each padded, and their  *)
(* lengths.                                                                *)
LEMMA GhFinalBytes ==
    ASSUME NEW g, NEW a \in Seq(Byte), NEW c \in Seq(Byte), GhHolds(g, a, c)
    PROVE  GhFinal(g).state = GhashOf(a, c)
<1> DEFINE l    == LenBlock(g.aad_len, g.data_len)
           tail == IF g.buf = <<>> THEN <<>> ELSE PadBlock(g.buf)
<1>1. /\ GhOpen(g) /\ g \in GhashCtx /\ g.aad_len = Len(a) /\ g.data_len = Len(c)
      /\ Len(g.buf) < BlockSize /\ Len(g.state) % BlockSize = 0
  BY DEF GhHolds, GhOpen
<1>2. /\ g.state \in Seq(Byte) /\ g.buf \in Seq(Byte)
  BY <1>1, GhOpenFacts
<1>3. tail = Padded(g.buf)
  BY ONLY <1>1, <1>2, PaddedRest
<1>4. g.state \o Padded(g.buf) = Padded(GhFed(g))
  <2>1. Padded(g.state \o g.buf) = g.state \o Padded(g.buf)
    BY ONLY <1>1, <1>2, PaddedJoin
  <2> QED
    BY ONLY <2>1 DEF GhFed
<1>5. Padded(a) \in Seq(Byte) /\ Len(Padded(a)) % BlockSize = 0
  BY PaddedFacts
<1>6. Padded(GhFed(g)) = Padded(a) \o Padded(c)
  <2>1. CASE g.phase = 0
    <3>1. GhFed(g) = a /\ c = <<>>
      BY <2>1 DEF GhHolds
    <3>2. Padded(a) \o <<>> = Padded(a)
      BY ONLY <1>5, Join
    <3> QED
      BY ONLY <3>1, <3>2, PaddedNothing
  <2>2. CASE g.phase # 0
    <3>1. GhFed(g) = Padded(a) \o c
      BY <2>2 DEF GhHolds
    <3>2. Padded(Padded(a) \o c) = Padded(a) \o Padded(c)
      BY ONLY <1>5, c \in Seq(Byte), PaddedJoin
    <3> QED
      BY ONLY <3>1, <3>2
  <2> QED
    BY ONLY <2>1, <2>2
<1> HIDE DEF tail, l
<1>7. GhFinal(g).state = g.state \o tail \o l
  <2>1. GhFinal(g) = [g EXCEPT !.state = g.state \o tail \o l, !.buf = <<>>, !.phase = 1]
    BY DEF GhFinal, tail, l
  <2> QED
    BY <1>1, <2>1 DEF GhashCtx
<1>8. l = LenBlock(Len(a), Len(c))
  BY <1>1 DEF l
<1> QED
  BY ONLY <1>3, <1>4, <1>6, <1>7, <1>8 DEF GhashOf

-----------------------------------------------------------------------------
(* The inductive invariant of the lockstep.                                *)
IInv == TypeOK /\ Lockstep /\ AadStaysInside

(* Both sizes of the buffer hold a block.                                  *)
LEMMA RoomFacts ==
    ASSUME NEW be \in Backend
    PROVE  Room(be) \in Nat /\ BlockSize <= Room(be)
BY BlockSizeAssumption DEF Room

(* Between calls in lockstep everything fits.                              *)
LEMMA Fits ==
    ASSUME IInv, stage = "open"
    PROVE  DataFits(backend, gh) /\ FinalFits(gh)
<1>1. Len(gh.buf) \in Nat /\ Len(gh.buf) < BlockSize /\ BlockSize \in Nat
  BY BlockSizeAssumption DEF IInv, TypeOK, Lockstep, GhashCtx
<1> QED
  BY <1>1 DEF DataFits, FinalFits

(* What AAD leaves behind in an empty buffer fits.                         *)
LEMMA AadFitsEmpty ==
    ASSUME IInv, gh.buf = <<>>, NEW n \in Nat
    PROVE  AadFits(backend, gh, n)
<1>1. backend \in Backend
  BY CallerAssumption DEF IInv, TypeOK
<1>2. Room(backend) \in Nat /\ BlockSize <= Room(backend) /\ BlockSize \in Nat
  BY <1>1, RoomFacts, BlockSizeAssumption
<1>3. WholeBlocks(n) \in Nat /\ n < WholeBlocks(n) + BlockSize
  BY WholeBlocksBounds
<1>4. Len(gh.buf) = 0
  OBVIOUS
<1> QED
  BY <1>2, <1>3, <1>4 DEF AadFits

(* An iteration runs if the buffer fits, and ends the behaviour if not.    *)
LEMMA LoopRuns ==
    ASSUME Loop
    PROVE  /\ todo > 0
           /\ DataFits(backend, gh) =>
                 \/ BulkReady /\ job.mode = "enc" /\ EncryptWith(BulkCtx, BulkKs)
                 \/ BulkReady /\ job.mode = "dec" /\ DecryptWith(BulkCtx, BulkKs)
                 \/ job.mode = "enc" /\ EncryptWith(BlockCtx, BlockKs)
                 \/ job.mode = "dec" /\ DecryptWith(BlockCtx, BlockKs)
           /\ ~DataFits(backend, gh) => Overrun
BY DEF Loop, EncryptBulk, EncryptBlock, DecryptBulk, DecryptBlock, EncryptStep, DecryptStep

-----------------------------------------------------------------------------
(* Where a message byte meets the keystream is a keystream byte.           *)
LEMMA KsOfType ==
    ASSUME NEW i \in Nat \ {0}
    PROVE  KsOf(i) \in KsByte
<1>1. (J0 + 1 + ((i - 1) \div BlockSize)) % CtrMod \in Nat
  <2>1. (i - 1) \div BlockSize \in Nat
    BY BlockSizeAssumption
  <2> QED
    BY <2>1, GcmAssumption DEF J0
<1>2. (i - 1) % BlockSize \in Nat
  BY BlockSizeAssumption
<1> QED
  BY <1>1, <1>2 DEF KsOf, KsByte

(* The bytes a caller presents are bytes.                                  *)
LEMMA SourceByteTypes ==
    ASSUME NEW i \in Nat
    PROVE  AadByte(i) \in Byte /\ PlainByte(i) \in Byte /\ BadByte \in Byte
<1>1. <<i>> \in Seq(Nat) /\ <<>> \in Seq(Nat)
  OBVIOUS
<1> QED
  BY <1>1 DEF AadByte, PlainByte, BadByte, Byte

(* What a caller presents, altered or not, is a byte.                      *)
LEMMA InByteType ==
    ASSUME NEW j \in Job, NEW i \in Nat \ {0}
    PROVE  InByte(j, i) \in Byte
<1>1. j.with \in Byte
  BY SourceByteTypes, ZeroByteType DEF Job, JobRec
<1>2. PlainByte(i) \in Byte /\ CipherByte(i) \in Byte
  BY SourceByteTypes, KsOfType, XorType DEF CipherByte
<1> QED
  BY <1>1, <1>2 DEF InByte

-----------------------------------------------------------------------------
(* The reads and writes of one iteration are byte strings as long as the   *)
(* keystream spent.                                                        *)
LEMMA ReadInType ==
    ASSUME TypeOK, NEW i \in Nat \ {0}
    PROVE  ReadIn(out, i) \in Byte
BY InByteType DEF TypeOK, ReadIn

(* The next input bytes, read through out when in place, are bytes.        *)
LEMMA ReadNextType ==
    ASSUME TypeOK, NEW n \in Nat
    PROVE  /\ ReadNext(out, Len(out), n) \in Seq(Byte)
           /\ Len(ReadNext(out, Len(out), n)) = n
<1>1. ASSUME NEW j \in 1 .. n PROVE ReadIn(out, Len(out) + j) \in Byte
  <2>1. Len(out) \in Nat
    BY DEF TypeOK
  <2> QED
    BY <1>1, <2>1, ReadInType
<1> QED
  BY <1>1 DEF ReadNext

(* What an iteration writes: a byte for each keystream byte.               *)
LEMMA WrittenType ==
    ASSUME TypeOK, NEW k \in Seq(KsByte)
    PROVE  /\ Written(k) \in Seq(Byte)
           /\ Len(Written(k)) = Len(k)
<1>1. ASSUME NEW j \in 1 .. Len(k)
      PROVE  Xor(ReadIn(out, Len(out) + j), k[j]) \in Byte
  <2>1. Len(out) \in Nat
    BY DEF TypeOK
  <2>2. ReadIn(out, Len(out) + j) \in Byte
    BY <1>1, <2>1, ReadInType
  <2> QED
    BY <1>1, <2>2, XorType
<1> QED
  BY <1>1 DEF Written

-----------------------------------------------------------------------------
(* The bytes GHASH holds back once its data phase is entered.              *)
Held == IF gh.phase = 0 THEN 0 ELSE Len(gh.buf)

(* What Lockstep says of the two buffers, in terms of the bytes held back. *)
LEMMA HeldFacts ==
    ASSUME IInv, stage = "open"
    PROVE  /\ Held \in Nat /\ Held < BlockSize
           /\ ctx.ks_pos \in Nat
           /\ ctx.ks_pos = 0 => Held = 0
           /\ ctx.ks_pos # 0 => ctx.ks_pos = BlockSize - Held
<1>1. /\ ctx.ks_pos \in Nat /\ Len(gh.buf) \in Nat /\ gh.phase \in {0, 1}
  BY DEF IInv, TypeOK, GcmCtx, GhashCtx
<1>2. /\ Len(gh.buf) < BlockSize
      /\ gh.phase = 1 => Len(gh.buf) + ctx.ks_pos \in {0, BlockSize}
      /\ gh.phase = 0 => ctx.ks_pos = 0
  BY DEF IInv, Lockstep
<1> QED
  BY <1>1, <1>2, BlockSizeAssumption DEF Held

(* One iteration that hashes the bytes d and spends as many keystream      *)
(* bytes keeps the two halves together: it stops short of the end of the   *)
(* started block, ends it, or covers whole blocks from a block boundary.   *)
LEMMA IterationKeeps ==
    ASSUME IInv, todo > 0,
           NEW c \in GcmCtx, NEW k \in Seq(KsByte), NEW d \in Seq(Byte),
           Len(d) = Len(k), Len(k) > 0, Len(k) <= todo,
           c.aad_len = ctx.aad_len, c.msg_len = ctx.msg_len, c.phase = ctx.phase,
           \/ Held + Len(k) <= BlockSize /\ c.ks_pos = BlockSize - (Held + Len(k))
           \/ Held = 0 /\ c.ks_pos = 0 /\ \E m \in Nat : Len(k) = m * BlockSize,
           gh' = GhUpdate(backend, gh, d),
           out' = out \o Written(k),
           ctx' = [c EXCEPT !.msg_len = @ + Len(k)],
           todo' = todo - Len(k),
           UNCHANGED <<backend, stage, job, verdict>>
    PROVE  IInv'
<1>1. stage = "open" /\ ctx.phase = 1
  <2>1. todo \in Nat /\ ctx.phase \in {0, 1}
    BY DEF IInv, TypeOK, GcmCtx
  <2> QED
    BY <2>1 DEF IInv, Lockstep
<1>2. Held \in Nat /\ Held < BlockSize
  BY <1>1, HeldFacts
<1>3. gh \in GhashCtx /\ backend \in Backend
  BY CallerAssumption DEF IInv, TypeOK
<1> DEFINE g == GhUpdate(backend, gh, d)
<1>4. /\ g \in GhashCtx /\ g.phase = 1 /\ g.aad_len = gh.aad_len
      /\ g.data_len = gh.data_len + Len(d)
      /\ Held + Len(d) < BlockSize => Len(g.buf) = Held + Len(d)
      /\ Held + Len(d) = BlockSize => Len(g.buf) = 0
      /\ \A m \in Nat : Held = 0 /\ Len(d) = m * BlockSize => Len(g.buf) = 0
  <2>1. Held = IF gh.phase = 0 THEN 0 ELSE Len(gh.buf)
    BY DEF Held
  <2>2. Len(d) > 0
    OBVIOUS
  <2> HIDE DEF g
  <2> QED
    BY <1>2, <1>3, <2>1, <2>2, GhUpdateFacts, ZenonT(150) DEF g
<1> HIDE DEF g
<1>5. gh' = g
  BY DEF g
<1>6. /\ ctx' \in GcmCtx /\ ctx'.ks_pos = c.ks_pos /\ ctx'.phase = 1
      /\ ctx'.aad_len = ctx.aad_len /\ ctx'.msg_len = ctx.msg_len + Len(k)
  <2>1. ctx' = [ctr |-> c.ctr, ks |-> c.ks, ks_pos |-> c.ks_pos, aad_len |-> c.aad_len,
                msg_len |-> c.msg_len + Len(k), phase |-> c.phase]
    BY DEF GcmCtx
  <2>2. c.msg_len + Len(k) \in Nat
    BY DEF GcmCtx
  <2> QED
    BY <1>1, <2>1, <2>2 DEF GcmCtx
<1>7. Written(k) \in Seq(Byte) /\ Len(Written(k)) = Len(k)
  BY WrittenType DEF IInv
<1>8. out' \in Seq(Byte) /\ Len(out') = Len(out) + Len(k)
  <2>1. out \in Seq(Byte)
    BY DEF IInv, TypeOK
  <2>2. /\ out \o Written(k) \in Seq(Byte)
        /\ Len(out \o Written(k)) = Len(out) + Len(Written(k))
    BY <1>7, <2>1, Join
  <2> QED
    BY <1>7, <2>2
<1>9. todo' \in 0 .. MaxMsg
  BY GcmAssumption DEF IInv, TypeOK
<1>10. Len(g.buf) \in Nat /\ Len(g.buf) < BlockSize
       /\ Len(g.buf) + c.ks_pos \in {0, BlockSize}
  <2>1. Len(g.buf) \in Nat
    BY <1>4 DEF GhashCtx
  <2>2. CASE Held + Len(k) <= BlockSize /\ c.ks_pos = BlockSize - (Held + Len(k))
    <3>1. Held + Len(k) \in Nat
      BY <1>2
    <3>2. \/ Held + Len(k) < BlockSize /\ Len(g.buf) = Held + Len(k)
          \/ Held + Len(k) = BlockSize /\ Len(g.buf) = 0
      BY <1>2, <1>4, <2>2, <3>1, BlockSizeAssumption
    <3>3. \A h \in Nat, n \in Nat :
              h + n <= BlockSize => (h + n) + (BlockSize - (h + n)) = BlockSize
      BY BlockSizeAssumption
    <3>4. Len(k) \in Nat
      OBVIOUS
    <3>5. CASE Held + Len(k) < BlockSize /\ Len(g.buf) = Held + Len(k)
      BY <1>2, <2>2, <3>3, <3>4, <3>5
    <3>6. CASE Held + Len(k) = BlockSize /\ Len(g.buf) = 0
      BY <2>2, <3>1, <3>6, BlockSizeAssumption
    <3> QED
      BY <3>2, <3>5, <3>6
  <2>3. CASE Held = 0 /\ c.ks_pos = 0 /\ \E m \in Nat : Len(k) = m * BlockSize
    <3>1. Len(g.buf) = 0
      BY <1>4, <2>3
    <3> QED
      BY <2>3, <3>1, BlockSizeAssumption
  <2> QED
    BY <2>1, <2>2, <2>3
<1>11. /\ gh.aad_len = ctx.aad_len /\ gh.data_len = ctx.msg_len
       /\ ctx.msg_len = Len(out)
  BY <1>1 DEF IInv, Lockstep
<1>14. Len(g.buf) <= Room(backend)
  BY <1>3, <1>10, RoomFacts, BlockSizeAssumption
<1>12. TypeOK'
  BY <1>4, <1>5, <1>6, <1>8, <1>9, <1>14 DEF IInv, TypeOK
<1>13. Lockstep'
  BY <1>1, <1>4, <1>5, <1>6, <1>8, <1>10, <1>11 DEF Lockstep
<1> QED
  BY <1>1, <1>12, <1>13 DEF IInv, AadStaysInside

-----------------------------------------------------------------------------
(* One block iteration stays inside the started block or ends it.          *)
LEMMA BlockStepFacts ==
    ASSUME IInv, todo > 0
    PROVE  /\ BlockCtx \in GcmCtx /\ BlockKs \in Seq(KsByte)
           /\ Len(BlockKs) > 0 /\ Len(BlockKs) <= todo
           /\ BlockCtx.aad_len = ctx.aad_len /\ BlockCtx.msg_len = ctx.msg_len
           /\ BlockCtx.phase = ctx.phase
           /\ Held + Len(BlockKs) <= BlockSize
           /\ BlockCtx.ks_pos = BlockSize - (Held + Len(BlockKs))
<1> DEFINE r == Refilled
<1>1. stage = "open" /\ todo \in Nat /\ ctx \in GcmCtx
  BY DEF IInv, TypeOK, Lockstep
<1>2. /\ Held \in Nat /\ Held < BlockSize
      /\ ctx.ks_pos = 0 => Held = 0
      /\ ctx.ks_pos # 0 => ctx.ks_pos = BlockSize - Held
  BY <1>1, HeldFacts
<1>3. /\ r \in GcmCtx /\ r.ks_pos = BlockSize - Held
      /\ r.aad_len = ctx.aad_len /\ r.msg_len = ctx.msg_len /\ r.phase = ctx.phase
  <2>1. CASE ctx.ks_pos = 0
    <3>1. r = [ctr |-> Inc32(ctx.ctr), ks |-> Inc32(ctx.ctr), ks_pos |-> BlockSize,
               aad_len |-> ctx.aad_len, msg_len |-> ctx.msg_len, phase |-> ctx.phase]
      BY <1>1, <2>1 DEF Refilled, GcmCtx
    <3>2. Inc32(ctx.ctr) \in Nat
      BY <1>1, GcmAssumption DEF Inc32, GcmCtx
    <3> QED
      BY <1>1, <1>2, <2>1, <3>1, <3>2, BlockSizeAssumption DEF GcmCtx
  <2>2. CASE ctx.ks_pos # 0
    BY <1>1, <1>2, <2>2 DEF Refilled
  <2> QED
    BY <2>1, <2>2
<1>4. r = Refilled
  OBVIOUS
<1> HIDE DEF r
<1>5. /\ BlockLen \in Nat /\ BlockLen > 0 /\ BlockLen <= todo
      /\ Held + BlockLen <= BlockSize
      /\ r.ks_pos - BlockLen = BlockSize - (Held + BlockLen)
      /\ r.ks_pos - BlockLen \in Nat
  BY <1>1, <1>2, <1>3, <1>4, BlockSizeAssumption DEF BlockLen
<1>6. /\ BlockCtx \in GcmCtx /\ BlockCtx.ks_pos = r.ks_pos - BlockLen
      /\ BlockCtx.aad_len = r.aad_len /\ BlockCtx.msg_len = r.msg_len
      /\ BlockCtx.phase = r.phase
  <2>1. BlockCtx = [ctr |-> r.ctr, ks |-> r.ks, ks_pos |-> r.ks_pos - BlockLen,
                    aad_len |-> r.aad_len, msg_len |-> r.msg_len, phase |-> r.phase]
    BY <1>3, <1>4 DEF BlockCtx, GcmCtx
  <2> QED
    BY <1>3, <1>5, <2>1 DEF GcmCtx
<1>7. BlockKs \in Seq(KsByte) /\ Len(BlockKs) = BlockLen
  <2>1. ASSUME NEW j \in 1 .. BlockLen
        PROVE  <<r.ks, (BlockSize - r.ks_pos) + (j - 1)>> \in KsByte
    <3>1. BlockSize - r.ks_pos = Held /\ r.ks \in Nat
      BY <1>2, <1>3, BlockSizeAssumption DEF GcmCtx
    <3>2. Held + (j - 1) \in Nat
      BY <1>2, <1>5
    <3> QED
      BY <3>1, <3>2 DEF KsByte
  <2>2. BlockKs \in [1 .. BlockLen -> KsByte]
    BY <1>4, <2>1 DEF BlockKs
  <2> QED
    BY <1>5, <2>2, TableIsSeq
<1> QED
  BY <1>3, <1>5, <1>6, <1>7

(* A bulk iteration spends whole blocks from a block boundary.             *)
LEMMA BulkStepFacts ==
    ASSUME IInv, BulkReady
    PROVE  /\ BulkCtx \in GcmCtx /\ BulkKs \in Seq(KsByte)
           /\ Len(BulkKs) > 0 /\ Len(BulkKs) <= todo
           /\ BulkCtx.aad_len = ctx.aad_len /\ BulkCtx.msg_len = ctx.msg_len
           /\ BulkCtx.phase = ctx.phase
           /\ Held = 0 /\ BulkCtx.ks_pos = 0
           /\ \E m \in Nat : Len(BulkKs) = m * BlockSize
<1>1. BulkBlocks \in Nat /\ BulkBlocks * BlockSize \in Nat /\ BulkBlocks * BlockSize > 0
  BY BlockSizeAssumption, CallerAssumption
<1>2. ctx \in GcmCtx /\ ctx.ks_pos = 0 /\ todo >= BulkBlocks * BlockSize /\ todo \in Nat
  BY DEF IInv, TypeOK, BulkReady
<1>3. Held = 0
  <2>1. stage = "open"
    BY <1>1, <1>2 DEF IInv, Lockstep
  <2> QED
    BY <1>2, <2>1, HeldFacts
<1>4. /\ BulkCtx \in GcmCtx /\ BulkCtx.ks_pos = ctx.ks_pos /\ BulkCtx.phase = ctx.phase
      /\ BulkCtx.aad_len = ctx.aad_len /\ BulkCtx.msg_len = ctx.msg_len
  <2>1. (ctx.ctr + BulkBlocks) % CtrMod \in Nat
    BY <1>1, <1>2, GcmAssumption DEF GcmCtx
  <2>2. BulkCtx = [ctr |-> (ctx.ctr + BulkBlocks) % CtrMod, ks |-> ctx.ks,
                   ks_pos |-> ctx.ks_pos, aad_len |-> ctx.aad_len,
                   msg_len |-> ctx.msg_len, phase |-> ctx.phase]
    BY <1>2 DEF BulkCtx, GcmCtx
  <2> QED
    BY <1>2, <2>1, <2>2 DEF GcmCtx
<1>5. BulkKs \in Seq(KsByte) /\ Len(BulkKs) = BulkBlocks * BlockSize
  <2>1. ASSUME NEW j \in 1 .. BulkBlocks * BlockSize
        PROVE  <<(ctx.ctr + 1 + ((j - 1) \div BlockSize)) % CtrMod, (j - 1) % BlockSize>>
                   \in KsByte
    <3>1. (j - 1) \div BlockSize \in Nat /\ (j - 1) % BlockSize \in Nat
      BY <1>1, BlockSizeAssumption
    <3>2. (ctx.ctr + 1 + ((j - 1) \div BlockSize)) % CtrMod \in Nat
      BY <1>2, <3>1, GcmAssumption DEF GcmCtx
    <3> QED
      BY <3>1, <3>2 DEF KsByte
  <2>2. BulkKs \in [1 .. BulkBlocks * BlockSize -> KsByte]
    BY <2>1 DEF BulkKs
  <2> QED
    BY <1>1, <2>2, TableIsSeq
<1> QED
  BY <1>1, <1>2, <1>3, <1>4, <1>5

-----------------------------------------------------------------------------
(* The initial states.                                                     *)
LEMMA InitKeeps == Init => IInv
<1>1. SUFFICES ASSUME Init PROVE IInv
  OBVIOUS
<1>2. GhInit \in GhashCtx /\ GhInit.buf = <<>>
  BY GhInitType DEF GhInit
<1>3. FreshCtx \in GcmCtx
  BY DEF FreshCtx, GcmCtx, J0
<1>4. <<>> \in Seq(Byte)
  OBVIOUS
<1> QED
  <2>1. Len(<<>>) = 0 /\ backend \in Backend
    BY <1>1, CallerAssumption DEF Init
  <2>2. Len(GhInit.buf) <= Room(backend)
    BY <1>2, <2>1, RoomFacts
  <2> QED
    BY <1>1, <1>2, <1>3, <1>4, <2>2, GcmAssumption
       DEF Init, IInv, TypeOK, Lockstep, AadStaysInside, NoVerdict

(* sdc_gcm_init_ex starts over whatever the context held.                  *)
LEMMA InitExKeeps ==
    ASSUME IInv, NEW j \in Job, InitEx(j)
    PROVE  IInv'
<1>1. GhInit \in GhashCtx /\ Len(GhInit.buf) = 0 /\ GhInit.phase = 0
      /\ GhInit.aad_len = 0 /\ GhInit.data_len = 0
  BY GhInitType DEF GhInit
<1>2. FreshCtx \in GcmCtx /\ FreshCtx.ks_pos = 0
      /\ FreshCtx.aad_len = 0 /\ FreshCtx.msg_len = 0
  BY DEF FreshCtx, GcmCtx, J0
<1>3. <<>> \in Seq(Byte) /\ Len(<<>>) = 0
  OBVIOUS
<1>6. backend \in Backend /\ 0 <= Room(backend)
  BY RoomFacts, CallerAssumption, BlockSizeAssumption DEF IInv, TypeOK
<1>4. TypeOK'
  BY <1>1, <1>2, <1>3, <1>6 DEF InitEx, IInv, TypeOK, NoVerdict
<1>5. Lockstep'
  BY <1>1, <1>2, <1>3, BlockSizeAssumption DEF InitEx, Lockstep
<1> QED
  BY <1>4, <1>5 DEF InitEx, IInv, AadStaysInside

(* AAD fed to an empty buffer leaves less than a block behind.             *)
LEMMA AadUpdateKeeps ==
    ASSUME IInv, AnyAadSplit = FALSE, NEW n \in Nat, AadUpdate(n)
    PROVE  IInv'
<1>1. CASE ctx.phase # 0 \/ n = 0
  BY <1>1 DEF AadUpdate, vars, IInv, TypeOK, Lockstep, AadStaysInside
<1>2. CASE ~(ctx.phase # 0 \/ n = 0)
  <2> DEFINE a == [i \in 1 .. n |-> AadByte(ctx.aad_len + i)]
  <2>1. ctx \in GcmCtx /\ gh \in GhashCtx /\ gh.buf = <<>> /\ stage = "open" /\ todo = 0
    BY DEF IInv, TypeOK, AadUpdate, Idle
  <2>2. gh.phase = 0 /\ ctx.ks_pos = 0 /\ out = <<>>
        /\ gh.aad_len = ctx.aad_len /\ gh.data_len = ctx.msg_len /\ ctx.msg_len = Len(out)
    BY <1>2, <2>1 DEF IInv, Lockstep, GcmCtx
  <2>3. a \in Seq(Byte) /\ Len(a) = n
    <3>1. a \in [1 .. n -> Byte]
      BY <2>1, SourceByteTypes DEF GcmCtx
    <3> QED
      BY <3>1, TableIsSeq
  <2>4. ctx' = [ctx EXCEPT !.aad_len = @ + n] /\ gh' = GhAad(gh, a)
        /\ UNCHANGED <<backend, stage, job, out, verdict, todo>>
    BY <1>2, <2>1, AadFitsEmpty DEF AadUpdate
  <2> HIDE DEF a
  <2>5. /\ gh' \in GhashCtx /\ gh'.phase = 0 /\ gh'.data_len = gh.data_len
        /\ gh'.aad_len = gh.aad_len + n /\ Len(gh'.buf) < BlockSize
    BY <2>1, <2>2, <2>3, <2>4, GhAadFacts
  <2>6. /\ ctx' \in GcmCtx /\ ctx'.aad_len = ctx.aad_len + n
        /\ ctx'.ks_pos = 0 /\ ctx'.msg_len = ctx.msg_len
    BY <2>1, <2>2, <2>4 DEF GcmCtx
  <2>9. Len(gh'.buf) <= Room(backend)
    <3>1. backend \in Backend /\ Len(gh'.buf) \in Nat
      BY <2>5, CallerAssumption DEF IInv, TypeOK, GhashCtx
    <3> QED
      BY <2>5, <3>1, RoomFacts, BlockSizeAssumption
  <2>7. TypeOK'
    BY <2>4, <2>5, <2>6, <2>9 DEF IInv, TypeOK
  <2>8. Lockstep'
    BY <2>1, <2>2, <2>4, <2>5, <2>6 DEF Lockstep
  <2> QED
    BY <2>4, <2>7, <2>8 DEF IInv, AadStaysInside
<1> QED
  BY <1>1, <1>2

(* Entering an update call changes the phase of GCM alone.                 *)
LEMMA BeginUpdateKeeps ==
    ASSUME IInv, NEW n \in 0 .. MaxMsg, BeginUpdate(n)
    PROVE  IInv'
<1>1. ctx \in GcmCtx
  BY DEF IInv, TypeOK
<1>2. /\ ctx' \in GcmCtx /\ ctx'.phase = 1 /\ ctx'.ks_pos = ctx.ks_pos
      /\ ctx'.aad_len = ctx.aad_len /\ ctx'.msg_len = ctx.msg_len
  BY <1>1 DEF BeginUpdate, GcmCtx
<1>3. TypeOK'
  BY <1>2 DEF BeginUpdate, IInv, TypeOK
<1>4. Lockstep'
  BY <1>2 DEF BeginUpdate, Idle, IInv, Lockstep
<1> QED
  BY <1>3, <1>4 DEF BeginUpdate, IInv, AadStaysInside

(* An iteration of either update loop, given what its step spends.         *)
LEMMA EncryptWithKeeps ==
    ASSUME IInv, todo > 0, NEW c \in GcmCtx, NEW k \in Seq(KsByte),
           Len(k) > 0, Len(k) <= todo,
           c.aad_len = ctx.aad_len, c.msg_len = ctx.msg_len, c.phase = ctx.phase,
           \/ Held + Len(k) <= BlockSize /\ c.ks_pos = BlockSize - (Held + Len(k))
           \/ Held = 0 /\ c.ks_pos = 0 /\ \E m \in Nat : Len(k) = m * BlockSize,
           EncryptWith(c, k) \/ DecryptWith(c, k)
    PROVE  IInv'
<1>1. TypeOK /\ Len(out) \in Nat /\ Len(k) \in Nat
  BY DEF IInv, TypeOK
<1>2. Written(k) \in Seq(Byte) /\ Len(Written(k)) = Len(k)
  BY <1>1, WrittenType
<1>3. /\ ReadNext(out, Len(out), Len(k)) \in Seq(Byte)
      /\ Len(ReadNext(out, Len(out), Len(k))) = Len(k)
  BY <1>1, ReadNextType
<1>4. CASE EncryptWith(c, k)
  BY <1>2, <1>4, IterationKeeps DEF EncryptWith
<1>5. CASE DecryptWith(c, k)
  BY <1>3, <1>5, IterationKeeps DEF DecryptWith
<1> QED
  BY <1>4, <1>5

(* The four kinds of iteration, from the facts on their steps.             *)
LEMMA LoopKeeps ==
    ASSUME IInv, Loop
    PROVE  IInv'
<1>1. todo > 0 /\ stage = "open"
  BY LoopRuns DEF IInv, Lockstep
<1>2. CASE BulkReady /\ (EncryptWith(BulkCtx, BulkKs) \/ DecryptWith(BulkCtx, BulkKs))
  BY <1>1, <1>2, BulkStepFacts, EncryptWithKeeps
<1>3. CASE EncryptWith(BlockCtx, BlockKs) \/ DecryptWith(BlockCtx, BlockKs)
  BY <1>1, <1>3, BlockStepFacts, EncryptWithKeeps
<1> QED
  BY <1>1, <1>2, <1>3, LoopRuns, Fits

(* A final call closes the context.                                        *)
LEMMA CloseKeeps ==
    ASSUME IInv, NEW v, v.rc \in {"tag", "OK", "VERIFY_FAIL"}, CloseWith(v)
    PROVE  IInv'
<1>1. ctx \in GcmCtx /\ gh \in GhashCtx
  BY DEF IInv, TypeOK
<1>6. Close(v)
  BY Fits DEF CloseWith, Idle
<1>2. ctx' \in GcmCtx
  BY <1>1, <1>6 DEF Close, GcmCtx
<1>3. gh' \in GhashCtx /\ Len(gh'.buf) = 0
  <2>1. GhFinal(gh).buf = <<>> /\ gh' = GhFinal(gh)
    BY <1>1, <1>6 DEF Close, GhFinal, GhashCtx
  <2> QED
    BY <1>1, <2>1, GhFinalType
<1>7. backend \in Backend /\ 0 <= Room(backend)
  BY RoomFacts, CallerAssumption, BlockSizeAssumption DEF IInv, TypeOK
<1>4. TypeOK'
  BY <1>2, <1>3, <1>6, <1>7 DEF Close, IInv, TypeOK
<1>5. Lockstep'
  BY <1>6 DEF CloseWith, Close, Idle, Lockstep
<1> QED
  BY <1>4, <1>5, <1>6 DEF Close, IInv, AadStaysInside

(* Every step keeps the inductive invariant, one lemma per action.         *)
LEMMA StepKeeps ==
    ASSUME AnyAadSplit = FALSE, IInv, [Next]_vars
    PROVE  IInv'
<1>1. ASSUME NEW j \in Job, InitEx(j) PROVE IInv'
  BY <1>1, InitExKeeps
<1>2. ASSUME NEW n \in 0 .. MaxAad - ctx.aad_len, AadUpdate(n) PROVE IInv'
  <2>1. n \in Nat
    BY GcmAssumption DEF IInv, TypeOK, GcmCtx
  <2> QED
    BY <1>2, <2>1, AadUpdateKeeps
<1>3. ASSUME NEW n \in 0 .. MaxMsg - Len(out), EncryptUpdate(n) \/ DecryptUpdate(n)
      PROVE  IInv'
  <2>1. n \in 0 .. MaxMsg
    BY GcmAssumption DEF IInv, TypeOK
  <2> QED
    BY <1>3, <2>1, BeginUpdateKeeps DEF EncryptUpdate, DecryptUpdate
<1>4. CASE Loop
  BY <1>4, LoopKeeps
<1>5. CASE EncryptFinal
  BY <1>5, CloseKeeps DEF EncryptFinal, Sealed
<1>6. ASSUME NEW a \in Near(ctx.aad_len, MaxAad), NEW m \in Near(Len(out), MaxMsg),
             DecryptFinal(a, m)
      PROVE  IInv'
  BY <1>6, CloseKeeps DEF DecryptFinal, Checked
<1>7. CASE UNCHANGED vars
  BY <1>7 DEF vars, IInv, TypeOK, Lockstep, AadStaysInside
<1> QED
  BY <1>1, <1>2, <1>3, <1>4, <1>5, <1>6, <1>7 DEF Next

(* sdc_gcm_*: for every block size, bulk width and message length, in      *)
(* every reachable state the fields have their types, and the GHASH buffer *)
(* and the keystream buffer together make one block.                       *)
THEOREM GcmLockstep ==
    ASSUME AnyAadSplit = FALSE
    PROVE  Spec => []TypeOK /\ []Lockstep
<1>1. Init => IInv
  BY InitKeeps
<1>2. IInv /\ [Next]_vars => IInv'
  BY StepKeeps
<1>3. IInv => TypeOK /\ Lockstep
  BY DEF IInv
<1> QED
  BY <1>1, <1>2, <1>3, PTL DEF Spec

(* ghash_scalar.c, ghash_x86.c, ghash_pmull.c: for a caller that feeds AAD *)
(* in whole blocks until the last call, no part of a block is copied past  *)
(* the end of the buffer, nor the buffer past the end of a block, in any   *)
(* backend and however the message is split.                               *)
THEOREM GcmStaysInside ==
    ASSUME AnyAadSplit = FALSE
    PROVE  Spec => []AadStaysInside
<1>1. Init => IInv
  BY InitKeeps
<1>2. IInv /\ [Next]_vars => IInv'
  BY StepKeeps
<1>3. IInv => AadStaysInside
  BY DEF IInv
<1> QED
  BY <1>1, <1>2, <1>3, PTL DEF Spec

-----------------------------------------------------------------------------
(* The counter.  Whatever GHASH does, and however the AAD is split: the    *)
(* message so far and what is left of the current block make whole blocks, *)
(* as many as the counter has advanced, and an encrypted byte met the      *)
(* keystream byte SP 800-38D gives for its place.                          *)
CounterAt(n, b) ==
    /\ n + ctx.ks_pos = b * BlockSize
    /\ ctx.ctr = J0 + b
    /\ ctx.ks_pos > 0 => ctx.ks = ctx.ctr

CounterInv ==
    /\ ctx \in GcmCtx /\ job \in Job /\ out \in Seq(Byte) /\ todo \in Nat
    /\ Len(out) + todo <= MaxMsg
    /\ todo > 0 => stage = "open"
    /\ stage = "open" => ctx.ks_pos < BlockSize /\ \E b \in Nat : CounterAt(Len(out), b)
    /\ job.mode = "enc" => \A i \in 1 .. Len(out) : out[i].ks = {KsOf(i)}

(* Whole blocks that start before the end of the longest message allowed   *)
(* stop short of the counter's range.                                      *)
LEMMA NoWrap ==
    ASSUME NEW b \in Nat, NEW n \in Nat, b * BlockSize < n + BlockSize, n <= MaxMsg
    PROVE  b + 1 < CtrMod
<1>1. b * BlockSize < (CtrMod - 2) * BlockSize + BlockSize
  BY BlockSizeAssumption, GcmAssumption
<1>2. b * BlockSize < (CtrMod - 1) * BlockSize
  BY <1>1, BlockSizeAssumption, GcmAssumption
<1>3. ASSUME b >= CtrMod - 1
      PROVE  b * BlockSize >= (CtrMod - 1) * BlockSize
  BY <1>3, BlockSizeAssumption, GcmAssumption
<1>4. b \in Int /\ CtrMod \in Int /\ b * BlockSize \in Int /\ (CtrMod - 1) * BlockSize \in Int
  BY BlockSizeAssumption, GcmAssumption
<1> QED
  BY <1>2, <1>3, <1>4

(* Division by the block size, from quotient and remainder.                *)
LEMMA Quotient ==
    ASSUME NEW q \in Nat, NEW r \in Nat, r < BlockSize
    PROVE  (q * BlockSize + r) \div BlockSize = q /\ (q * BlockSize + r) % BlockSize = r
BY BlockSizeAssumption

(* The keystream byte at place r of block q, blocks counted from 0.        *)
LEMMA KsOfAt ==
    ASSUME NEW q \in Nat, NEW r \in Nat, r < BlockSize, q + 2 < CtrMod
    PROVE  KsOf(q * BlockSize + r + 1) = <<q + 2, r>>
<1>1. q * BlockSize \in Nat
  BY BlockSizeAssumption
<1>2. (q * BlockSize + r + 1) - 1 = q * BlockSize + r
  BY <1>1
<1>3. (J0 + 1 + q) % CtrMod = q + 2
  BY GcmAssumption DEF J0
<1> QED
  BY <1>2, <1>3, Quotient DEF KsOf

(* Two places of a message never meet the same keystream byte, and none    *)
(* meets the block that masks the tag.                                     *)
LEMMA KsOfDistinct ==
    ASSUME NEW i \in 1 .. MaxMsg, NEW j \in 1 .. MaxMsg
    PROVE  /\ KsOf(i)[1] # J0
           /\ i # j => KsOf(i) # KsOf(j)
<1>1. ASSUME NEW k \in 1 .. MaxMsg
      PROVE  \E q, r \in Nat : k = q * BlockSize + r + 1 /\ KsOf(k) = <<q + 2, r>>
  <2> DEFINE q == (k - 1) \div BlockSize
             r == (k - 1) % BlockSize
  <2>1. q \in Nat /\ r \in Nat /\ r < BlockSize /\ k - 1 = q * BlockSize + r /\ k \in Nat
    BY BlockSizeAssumption, GcmAssumption
  <2> HIDE DEF q, r
  <2>2. q * BlockSize \in Nat
    BY <2>1, BlockSizeAssumption
  <2>3. k = q * BlockSize + r + 1
    BY <2>1, <2>2
  <2>4. (q + 1) * BlockSize < k + BlockSize
    BY <2>1, <2>2, <2>3, BlockSizeAssumption
  <2>5. q + 2 < CtrMod
    <3>1. q + 1 \in Nat /\ k <= MaxMsg
      BY <2>1, GcmAssumption
    <3> QED
      BY <2>1, <2>4, <3>1, NoWrap, GcmAssumption
  <2>6. KsOf(k) = <<q + 2, r>>
    BY <2>1, <2>3, <2>5, KsOfAt
  <2> QED
    BY <2>1, <2>3, <2>6
<1>2. PICK q \in Nat, r \in Nat : i = q * BlockSize + r + 1 /\ KsOf(i) = <<q + 2, r>>
  BY <1>1
<1>3. PICK u \in Nat, v \in Nat : j = u * BlockSize + v + 1 /\ KsOf(j) = <<u + 2, v>>
  BY <1>1
<1>4. KsOf(i)[1] # J0
  BY <1>2 DEF J0
<1>5. ASSUME KsOf(i) = KsOf(j)
      PROVE  i = j
  <2>1. q + 2 = u + 2 /\ r = v
    BY <1>2, <1>3, <1>5
  <2>2. q = u
    BY <2>1
  <2> QED
    BY <1>2, <1>3, <2>1, <2>2
<1> QED
  BY <1>4, <1>5

(* The invariant says more than KeystreamFresh.                            *)
LEMMA CounterGivesFresh == CounterInv => KeystreamFresh
<1> SUFFICES ASSUME CounterInv, job.mode = "enc"
             PROVE  /\ \A j \in 1 .. Len(out) : \A i \in 1 .. j - 1 : out[i].ks \cap out[j].ks = {}
                    /\ \A i \in 1 .. Len(out) : \A k \in out[i].ks : k[1] # J0
  BY DEF KeystreamFresh
<1>1. /\ Len(out) \in Nat /\ Len(out) <= MaxMsg /\ MaxMsg \in Nat
      /\ \A i \in 1 .. Len(out) : out[i].ks = {KsOf(i)}
  BY GcmAssumption DEF CounterInv
<1>2. ASSUME NEW j \in 1 .. Len(out), NEW i \in 1 .. j - 1
      PROVE  out[i].ks \cap out[j].ks = {}
  <2>1. i \in 1 .. MaxMsg /\ j \in 1 .. MaxMsg /\ i # j /\ i \in 1 .. Len(out)
    BY <1>1, <1>2
  <2>2. KsOf(i) # KsOf(j)
    BY <2>1, KsOfDistinct
  <2>3. out[i].ks = {KsOf(i)} /\ out[j].ks = {KsOf(j)}
    BY <1>1, <2>1
  <2> QED
    BY <2>2, <2>3
<1>3. ASSUME NEW i \in 1 .. Len(out), NEW k \in out[i].ks
      PROVE  k[1] # J0
  <2>1. i \in 1 .. MaxMsg /\ k = KsOf(i)
    BY <1>1
  <2> QED
    BY <2>1, KsOfDistinct
<1> QED
  BY <1>2, <1>3

(* The initial states, and a context opened anew, are at the first block.  *)
LEMMA FreshCounter ==
    /\ FreshCtx \in GcmCtx /\ FreshCtx.ks_pos = 0
    /\ \E b \in Nat : 0 + FreshCtx.ks_pos = b * BlockSize /\ FreshCtx.ctr = J0 + b
<1>1. FreshCtx \in GcmCtx /\ FreshCtx.ks_pos = 0 /\ FreshCtx.ctr = J0
  BY DEF FreshCtx, GcmCtx, J0
<1>2. 0 + FreshCtx.ks_pos = 0 * BlockSize /\ FreshCtx.ctr = J0 + 0
  BY <1>1, BlockSizeAssumption DEF J0
<1> QED
  BY <1>1, <1>2

(* The initial states.                                                     *)
LEMMA InitCounter == Init => CounterInv
<1>1. SUFFICES ASSUME Init PROVE CounterInv
  OBVIOUS
<1>2. <<>> \in Seq(Byte) /\ Len(<<>>) = 0
  OBVIOUS
<1> QED
  BY <1>1, <1>2, FreshCounter, GcmAssumption DEF Init, CounterInv

(* sdc_gcm_init_ex starts the counter over, with a message of its own.     *)
LEMMA InitExCounter ==
    ASSUME CounterInv, NEW j \in Job, InitEx(j)
    PROVE  CounterInv'
<1>1. <<>> \in Seq(Byte) /\ Len(<<>>) = 0
  OBVIOUS
<1>2. ctx' = FreshCtx /\ out' = <<>> /\ todo' = 0 /\ job' = j
  BY DEF InitEx
<1>3. ctx' \in GcmCtx /\ ctx'.ks_pos < BlockSize
  BY <1>2, FreshCounter, BlockSizeAssumption
<1>4. (\E b \in Nat : CounterAt(Len(out), b))'
  BY <1>1, <1>2, FreshCounter DEF CounterAt
<1> QED
  BY <1>1, <1>2, <1>3, <1>4, GcmAssumption DEF CounterInv

(* A call that leaves the counter, the keystream and the output alone.     *)
LEMMA SameCounter ==
    ASSUME CounterInv, ctx' \in GcmCtx, ctx'.ctr = ctx.ctr, ctx'.ks = ctx.ks,
           ctx'.ks_pos = ctx.ks_pos, UNCHANGED <<job, out>>, todo' \in Nat,
           Len(out) + todo' <= MaxMsg, todo' > 0 => stage' = "open",
           stage' = "open" => stage = "open"
    PROVE  CounterInv'
<1>1. ASSUME stage' = "open"
      PROVE  ctx'.ks_pos < BlockSize /\ (\E b \in Nat : CounterAt(Len(out), b))'
  BY <1>1 DEF CounterInv, CounterAt
<1> QED
  BY <1>1 DEF CounterInv

-----------------------------------------------------------------------------
(* A behaviour that ends leaves the counter alone.                         *)
LEMMA OverrunCounter ==
    ASSUME CounterInv, Overrun
    PROVE  CounterInv'
<1>1. /\ ctx \in GcmCtx /\ Len(out) \in Nat /\ todo \in Nat /\ MaxMsg \in Nat
      /\ Len(out) + todo <= MaxMsg
  BY GcmAssumption DEF CounterInv
<1>2. UNCHANGED <<ctx, job, out>> /\ todo' = 0 /\ stage' = "undefined"
  BY DEF Overrun
<1> QED
  BY <1>1, <1>2, SameCounter

(* A byte encrypted in place or not is the plaintext byte of its place.    *)
LEMMA WrittenKs ==
    ASSUME CounterInv, job.mode = "enc", NEW k \in Seq(KsByte), NEW j \in 1 .. Len(k)
    PROVE  Written(k)[j].ks = {k[j]}
<1>1. Len(out) \in Nat
  BY DEF CounterInv
<1>2. ReadIn(out, Len(out) + j) = PlainByte(Len(out) + j)
  BY <1>1 DEF ReadIn, InByte
<1>3. Written(k)[j] = Xor(PlainByte(Len(out) + j), k[j])
  BY <1>2 DEF Written
<1> QED
  BY <1>3 DEF Xor, PlainByte

(* What an iteration writes is a string of bytes.                          *)
LEMMA WrittenBytes ==
    ASSUME CounterInv, NEW k \in Seq(KsByte)
    PROVE  Written(k) \in Seq(Byte) /\ Len(Written(k)) = Len(k)
<1>1. out \in Seq(Byte) /\ job \in Job /\ Len(out) \in Nat
  BY DEF CounterInv
<1>2. ASSUME NEW j \in 1 .. Len(k)
      PROVE  Xor(ReadIn(out, Len(out) + j), k[j]) \in Byte
  <2>1. ReadIn(out, Len(out) + j) \in Byte
    BY <1>1, InByteType DEF ReadIn
  <2> QED
    BY <2>1, XorType
<1> QED
  BY <1>2 DEF Written

(* What an iteration spends: the keystream bytes of the next places, not   *)
(* more than the call has left, and neither the phase nor the AAD changes. *)
Spends(c, k) ==
    /\ c \in GcmCtx /\ c.phase = ctx.phase /\ c.aad_len = ctx.aad_len
    /\ k \in Seq(KsByte) /\ Len(k) > 0 /\ Len(k) <= todo
    /\ \A j \in 1 .. Len(k) : k[j] = KsOf(Len(out) + j)

(* Where it leaves the counter once n bytes are out: CounterAt of c.       *)
LeavesCounter(c, n, b) ==
    /\ c.ks_pos < BlockSize
    /\ n + c.ks_pos = b * BlockSize
    /\ c.ctr = J0 + b
    /\ c.ks_pos > 0 => c.ks = c.ctr

(* One iteration that spends the keystream bytes of its places and leaves  *)
(* the counter where the bytes spent and the bytes left make whole blocks. *)
LEMMA IterationCounter ==
    ASSUME CounterInv, todo > 0, NEW c, NEW k, Spends(c, k),
           NEW b \in Nat, LeavesCounter(c, Len(out) + Len(k), b),
           EncryptWith(c, k) \/ DecryptWith(c, k)
    PROVE  CounterInv'
<1>1. /\ c \in GcmCtx /\ k \in Seq(KsByte) /\ Len(k) <= todo
      /\ \A j \in 1 .. Len(k) : k[j] = KsOf(Len(out) + j)
  BY DEF Spends
<1>2. /\ c.ks_pos < BlockSize /\ Len(out) + Len(k) + c.ks_pos = b * BlockSize
      /\ c.ctr = J0 + b
      /\ c.ks_pos > 0 => c.ks = c.ctr
  BY DEF LeavesCounter
<1>3. /\ out' = out \o Written(k) /\ todo' = todo - Len(k) /\ job' = job /\ stage' = stage
      /\ ctx' = [c EXCEPT !.msg_len = @ + Len(k)]
  BY DEF EncryptWith, DecryptWith
<1>4. /\ out \in Seq(Byte) /\ Len(out) \in Nat /\ Len(k) \in Nat /\ todo \in Nat
      /\ stage = "open" /\ job \in Job /\ Len(out) + todo <= MaxMsg
  BY DEF CounterInv
<1>5. Written(k) \in Seq(Byte) /\ Len(Written(k)) = Len(k)
  BY <1>1, WrittenBytes
<1>6. out' \in Seq(Byte) /\ Len(out') = Len(out) + Len(k)
  <2>1. /\ out \o Written(k) \in Seq(Byte)
        /\ Len(out \o Written(k)) = Len(out) + Len(Written(k))
    BY <1>4, <1>5, Join
  <2> QED
    BY <1>3, <1>5, <2>1
<1>7. /\ ctx' \in GcmCtx /\ ctx'.ks_pos = c.ks_pos /\ ctx'.ctr = c.ctr /\ ctx'.ks = c.ks
  <2>1. ctx' = [ctr |-> c.ctr, ks |-> c.ks, ks_pos |-> c.ks_pos, aad_len |-> c.aad_len,
                msg_len |-> c.msg_len + Len(k), phase |-> c.phase]
    BY <1>3, <1>1 DEF GcmCtx
  <2> QED
    BY <1>4, <1>1, <2>1 DEF GcmCtx
<1>8. todo' \in Nat /\ Len(out') + todo' <= MaxMsg
  BY <1>3, <1>4, <1>6, <1>1, GcmAssumption, SMTT(60)
<1>9. (\E n \in Nat : CounterAt(Len(out), n))'
  <2>1. Len(out') + ctx'.ks_pos = b * BlockSize
    BY <1>2, <1>6, <1>7
  <2>2. /\ ctx'.ctr = J0 + b
        /\ ctx'.ks_pos > 0 => ctx'.ks = ctx'.ctr
    BY <1>2, <1>7
  <2>3. CounterAt(Len(out), b)'
    BY ONLY <2>1, <2>2 DEF CounterAt
  <2> QED
    BY <2>3
<1>10. ASSUME job.mode = "enc", NEW i \in 1 .. Len(out')
      PROVE  out'[i].ks = {KsOf(i)}
  <2>1. CASE i <= Len(out)
    <3>1. out'[i] = out[i] /\ i \in 1 .. Len(out)
      BY <1>3, <1>4, <1>5, <1>6, <2>1
    <3> QED
      BY <1>10, <3>1 DEF CounterInv
  <2>2. CASE i > Len(out)
    <3>1. PICK j \in 1 .. Len(k) : i = Len(out) + j
      <4>1. i - Len(out) \in 1 .. Len(k) /\ i = Len(out) + (i - Len(out))
        BY <1>4, <1>6, <2>2
      <4> QED
        BY <4>1
    <3>2. out'[i] = Written(k)[j]
      BY <1>3, <1>4, <1>5, <3>1
    <3> QED
      BY <1>10, <1>1, <3>1, <3>2, WrittenKs
  <2> QED
    BY <1>4, <1>6, <2>1, <2>2
<1> QED
  <2>1. /\ ctx' \in GcmCtx /\ job' \in Job /\ out' \in Seq(Byte) /\ todo' \in Nat
        /\ Len(out') + todo' <= MaxMsg /\ stage' = "open" /\ ctx'.ks_pos < BlockSize
    BY <1>2, <1>3, <1>4, <1>6, <1>7, <1>8
  <2>2. job'.mode = "enc" => \A i \in 1 .. Len(out') : out'[i].ks = {KsOf(i)}
    BY <1>3, <1>10
  <2> QED
    BY ONLY <1>9, <2>1, <2>2 DEF CounterInv

(* A refill, where one is due, makes the block after the last; a block in  *)
(* use is the one the counter names.                                       *)
LEMMA RefilledCounter ==
    ASSUME CounterInv, todo > 0
    PROVE  /\ Refilled \in GcmCtx /\ Refilled.ks_pos > 0 /\ Refilled.ks_pos <= BlockSize
           /\ Refilled.ks = Refilled.ctr
           /\ \E b \in Nat : /\ Len(out) + Refilled.ks_pos = (b + 1) * BlockSize
                             /\ Refilled.ctr = J0 + (b + 1) /\ b + 2 < CtrMod
<1>1. /\ ctx \in GcmCtx /\ Len(out) \in Nat /\ todo \in Nat /\ Len(out) + todo <= MaxMsg
      /\ ctx.ks_pos < BlockSize /\ \E b \in Nat : CounterAt(Len(out), b)
  BY DEF CounterInv
<1>2. PICK b \in Nat : CounterAt(Len(out), b)
  BY <1>1
<1>3. /\ Len(out) + ctx.ks_pos = b * BlockSize /\ ctx.ctr = J0 + b
      /\ ctx.ks_pos > 0 => ctx.ks = ctx.ctr
  BY <1>2 DEF CounterAt
<1>4. ctx.ks_pos \in Nat /\ MaxMsg \in Nat /\ BlockSize \in Nat \ {0} /\ CtrMod \in Nat
  BY <1>1, GcmAssumption, BlockSizeAssumption DEF GcmCtx
<1>5. CASE ctx.ks_pos = 0
  <2>1. (b + 1) * BlockSize = Len(out) + BlockSize
    BY <1>1, <1>3, <1>4, <1>5
  <2>2. b + 2 < CtrMod
    <3>1. (b + 1) * BlockSize < (Len(out) + 1) + BlockSize /\ Len(out) + 1 <= MaxMsg
      BY <1>1, <1>4, <2>1
    <3>2. b + 1 \in Nat /\ Len(out) + 1 \in Nat
      BY <1>1
    <3>3. (b + 1) + 1 < CtrMod
      BY <3>1, <3>2, NoWrap
    <3> QED
      BY <1>4, <3>3
  <2>3. Inc32(ctx.ctr) = J0 + (b + 1)
    BY <1>3, <1>4, <2>2 DEF Inc32, J0
  <2>4. Refilled = [ctr |-> J0 + (b + 1), ks |-> J0 + (b + 1), ks_pos |-> BlockSize,
                    aad_len |-> ctx.aad_len, msg_len |-> ctx.msg_len, phase |-> ctx.phase]
    BY <1>1, <1>5, <2>3 DEF Refilled, GcmCtx
  <2>5. Refilled \in GcmCtx
    BY <1>1, <1>4, <2>4 DEF GcmCtx, J0
  <2> QED
    BY <1>4, <2>1, <2>2, <2>4, <2>5
<1>6. CASE ctx.ks_pos # 0
  <2>1. Refilled = ctx
    BY <1>6 DEF Refilled
  <2>2. b + 1 < CtrMod
    <3>1. b * BlockSize < Len(out) + BlockSize /\ Len(out) <= MaxMsg
      BY <1>1, <1>3, <1>4
    <3> QED
      BY <1>1, <3>1, NoWrap
  <2>3. b # 0
    BY <1>1, <1>3, <1>4, <1>6
  <2>4. b - 1 \in Nat /\ (b - 1) + 1 = b /\ (b - 1) + 2 < CtrMod
    BY <1>4, <2>2, <2>3
  <2>5. /\ Len(out) + ctx.ks_pos = ((b - 1) + 1) * BlockSize
        /\ ctx.ctr = J0 + ((b - 1) + 1) /\ (b - 1) + 2 < CtrMod
    BY <1>3, <2>4
  <2>6. ctx.ks_pos > 0 /\ ctx.ks_pos <= BlockSize /\ ctx.ks = ctx.ctr
    BY <1>1, <1>3, <1>4, <1>6
  <2> QED
    BY <1>1, <2>1, <2>4, <2>5, <2>6
<1> QED
  BY <1>5, <1>6

(* A block iteration.                                                      *)
LEMMA BlockSpends ==
    ASSUME CounterInv, todo > 0
    PROVE  /\ Spends(BlockCtx, BlockKs)
           /\ \E b \in Nat : LeavesCounter(BlockCtx, Len(out) + Len(BlockKs), b)
<1> DEFINE r == Refilled
           n == Len(out)
<1>1. /\ r \in GcmCtx /\ r.ks_pos \in Nat /\ r.ks_pos > 0 /\ r.ks_pos <= BlockSize
      /\ r.ks = r.ctr
  BY RefilledCounter DEF GcmCtx
<1>12. r.phase = ctx.phase /\ r.aad_len = ctx.aad_len
  BY DEF CounterInv, Refilled, GcmCtx
<1>2. PICK b \in Nat : /\ n + r.ks_pos = (b + 1) * BlockSize
                       /\ r.ctr = J0 + (b + 1) /\ b + 2 < CtrMod
  BY RefilledCounter
<1>3. n \in Nat /\ todo \in Nat
  BY DEF CounterInv
<1>4. r = Refilled /\ n = Len(out)
  OBVIOUS
<1> HIDE DEF r, n
<1>5. BlockLen \in Nat /\ BlockLen > 0 /\ BlockLen <= todo /\ BlockLen <= r.ks_pos
  BY <1>1, <1>3, <1>4 DEF BlockLen
<1>6. /\ BlockCtx \in GcmCtx /\ BlockCtx.ks_pos = r.ks_pos - BlockLen
      /\ BlockCtx.ctr = r.ctr /\ BlockCtx.ks = r.ks
      /\ BlockCtx.phase = r.phase /\ BlockCtx.aad_len = r.aad_len
  <2>1. BlockCtx = [ctr |-> r.ctr, ks |-> r.ks, ks_pos |-> r.ks_pos - BlockLen,
                    aad_len |-> r.aad_len, msg_len |-> r.msg_len, phase |-> r.phase]
    BY <1>1, <1>4 DEF BlockCtx, GcmCtx
  <2>2. r.ks_pos - BlockLen \in Nat
    BY <1>1, <1>5
  <2> QED
    BY <1>1, <2>1, <2>2 DEF GcmCtx
<1>7. ASSUME NEW j \in 1 .. BlockLen
      PROVE  /\ <<r.ks, (BlockSize - r.ks_pos) + (j - 1)>> = KsOf(n + j)
             /\ KsOf(n + j) \in KsByte
  <2> DEFINE v == (BlockSize - r.ks_pos) + (j - 1)
  <2>1. j \in Nat /\ j > 0 /\ v \in Nat /\ v < BlockSize
    BY <1>1, <1>5, BlockSizeAssumption
  <2>2. n + j = b * BlockSize + v + 1
    <3>1. (b + 1) * BlockSize = b * BlockSize + BlockSize
      BY BlockSizeAssumption
    <3>2. b * BlockSize \in Nat /\ BlockSize \in Nat
      BY BlockSizeAssumption
    <3>3. n + r.ks_pos = b * BlockSize + BlockSize
      BY <1>2, <3>1
    <3>4. ASSUME NEW x \in Nat, NEW p \in Nat, n + p = x + BlockSize, p <= BlockSize
          PROVE  n + j = x + ((BlockSize - p) + (j - 1)) + 1
      BY <1>3, <2>1, <3>2, <3>4
    <3> QED
      BY <1>1, <3>2, <3>3, <3>4
  <2>3. r.ks = b + 2
    BY <1>1, <1>2 DEF J0
  <2> HIDE DEF v
  <2>4. KsOf(n + j) = <<r.ks, v>>
    BY <1>2, <2>1, <2>2, <2>3, KsOfAt
  <2>5. KsOf(n + j) \in KsByte
    BY <1>3, <2>1, KsOfType
  <2> QED
    BY <2>4, <2>5 DEF v
<1>8. BlockKs \in Seq(KsByte) /\ Len(BlockKs) = BlockLen
  <2>1. BlockKs \in [1 .. BlockLen -> KsByte]
    BY <1>4, <1>7 DEF BlockKs
  <2> QED
    BY <1>5, <2>1, TableIsSeq
<1>9. \A j \in 1 .. Len(BlockKs) : BlockKs[j] = KsOf(Len(out) + j)
  BY <1>4, <1>7, <1>8 DEF BlockKs
<1>10. /\ BlockCtx.ks_pos < BlockSize
       /\ Len(out) + Len(BlockKs) + BlockCtx.ks_pos = (b + 1) * BlockSize
  <2>1. r.ks_pos - BlockLen < BlockSize /\ n + BlockLen + (r.ks_pos - BlockLen) = n + r.ks_pos
    BY <1>1, <1>3, <1>5, BlockSizeAssumption
  <2> QED
    BY <1>2, <1>4, <1>6, <1>8, <2>1
<1>11. b + 1 \in Nat
  OBVIOUS
<1>13. Spends(BlockCtx, BlockKs)
  BY <1>5, <1>6, <1>8, <1>9, <1>12 DEF Spends
<1>14. LeavesCounter(BlockCtx, Len(out) + Len(BlockKs), b + 1)
  BY <1>1, <1>2, <1>6, <1>10 DEF LeavesCounter
<1> QED
  BY <1>11, <1>13, <1>14

(* A bulk iteration.                                                       *)
LEMMA BulkSpends ==
    ASSUME CounterInv, todo > 0, BulkReady
    PROVE  /\ Spends(BulkCtx, BulkKs)
           /\ \E b \in Nat : LeavesCounter(BulkCtx, Len(out) + Len(BulkKs), b)
<1> DEFINE n == Len(out)
           size == BulkBlocks * BlockSize
<1>1. /\ ctx \in GcmCtx /\ n \in Nat /\ todo \in Nat /\ n + todo <= MaxMsg
      /\ ctx.ks_pos = 0 /\ todo >= size /\ \E b \in Nat : CounterAt(n, b)
  BY DEF CounterInv, BulkReady
<1>2. PICK b \in Nat : n = b * BlockSize /\ ctx.ctr = b + 1
  BY <1>1 DEF CounterAt, J0
<1>3. BulkBlocks \in Nat /\ BlockSize \in Nat \ {0} /\ size \in Nat /\ MaxMsg \in Nat
      /\ CtrMod \in Nat
  BY BlockSizeAssumption, CallerAssumption, GcmAssumption
<1>4. n + size = (b + BulkBlocks) * BlockSize
  BY <1>2, <1>3
<1>5. n = Len(out) /\ size = BulkBlocks * BlockSize
  OBVIOUS
<1> HIDE DEF n, size
<1>6. b + BulkBlocks + 1 < CtrMod
  <2>1. (b + BulkBlocks) * BlockSize < MaxMsg + BlockSize
    BY <1>1, <1>3, <1>4
  <2>2. b + BulkBlocks \in Nat /\ MaxMsg <= MaxMsg
    BY <1>3
  <2> QED
    BY <1>3, <2>1, <2>2, NoWrap
<1>7. /\ BulkCtx \in GcmCtx /\ BulkCtx.ks_pos = 0 /\ BulkCtx.ctr = J0 + (b + BulkBlocks)
      /\ BulkCtx.phase = ctx.phase /\ BulkCtx.aad_len = ctx.aad_len
  <2>1. (ctx.ctr + BulkBlocks) % CtrMod = J0 + (b + BulkBlocks)
    BY <1>2, <1>3, <1>6 DEF J0
  <2>2. BulkCtx = [ctr |-> J0 + (b + BulkBlocks), ks |-> ctx.ks,
                   ks_pos |-> ctx.ks_pos, aad_len |-> ctx.aad_len,
                   msg_len |-> ctx.msg_len, phase |-> ctx.phase]
    BY <1>1, <2>1 DEF BulkCtx, GcmCtx
  <2> QED
    BY <1>1, <1>3, <2>2 DEF GcmCtx, J0
<1>8. ASSUME NEW j \in 1 .. size
      PROVE  /\ <<(ctx.ctr + 1 + ((j - 1) \div BlockSize)) % CtrMod, (j - 1) % BlockSize>>
                    = KsOf(n + j)
             /\ KsOf(n + j) \in KsByte
  <2> DEFINE d == (j - 1) \div BlockSize
             e == (j - 1) % BlockSize
  <2>1. /\ d \in Nat /\ e \in Nat /\ e < BlockSize /\ j - 1 = d * BlockSize + e
        /\ j \in Nat /\ j > 0 /\ j - 1 < size
    BY <1>3
  <2> HIDE DEF d, e
  <2>2. d < BulkBlocks
    <3>1. d * BlockSize < BulkBlocks * BlockSize
      BY <1>3, <1>5, <2>1
    <3>2. d >= BulkBlocks => d * BlockSize >= BulkBlocks * BlockSize
      BY <1>3, <2>1
    <3>3. d * BlockSize \in Nat /\ BulkBlocks * BlockSize \in Nat
      BY <1>3, <1>5, <2>1
    <3> QED
      BY <1>3, <2>1, <3>1, <3>2, <3>3
  <2>3. b + d \in Nat /\ (b + d) + 2 < CtrMod
    BY <1>3, <1>6, <2>1, <2>2
  <2>4. n + j = (b + d) * BlockSize + e + 1
    <3>1. (b + d) * BlockSize = b * BlockSize + d * BlockSize
      BY <1>3, <2>1
    <3>2. b * BlockSize \in Nat /\ d * BlockSize \in Nat
      BY <1>3, <2>1
    <3> QED
      BY <1>2, <2>1, <3>1, <3>2
  <2>5. KsOf(n + j) = <<(b + d) + 2, e>>
    BY <2>1, <2>3, <2>4, KsOfAt
  <2>6. (ctx.ctr + 1 + d) % CtrMod = (b + d) + 2
    BY <1>2, <1>3, <2>1, <2>3
  <2>7. KsOf(n + j) \in KsByte
    BY <1>1, <2>1, KsOfType
  <2> QED
    BY <2>5, <2>6, <2>7 DEF d, e
<1>9. BulkKs \in Seq(KsByte) /\ Len(BulkKs) = size
  <2>1. BulkKs \in [1 .. size -> KsByte]
    BY <1>5, <1>8 DEF BulkKs
  <2> QED
    BY <1>3, <2>1, TableIsSeq
<1>10. \A j \in 1 .. Len(BulkKs) : BulkKs[j] = KsOf(Len(out) + j)
  BY <1>5, <1>8, <1>9 DEF BulkKs
<1>11. /\ BulkCtx.ks_pos < BlockSize /\ ~(BulkCtx.ks_pos > 0) /\ Len(BulkKs) <= todo
       /\ Len(out) + Len(BulkKs) + BulkCtx.ks_pos = (b + BulkBlocks) * BlockSize
  BY <1>1, <1>3, <1>4, <1>5, <1>7, <1>9
<1>12. b + BulkBlocks \in Nat
  BY <1>3
<1>13. Len(BulkKs) > 0
  <2>1. BulkBlocks > 0
    BY CallerAssumption
  <2>2. size > 0
    BY <1>3, <1>5, <2>1
  <2> QED
    BY <1>9, <2>2
<1>14. Spends(BulkCtx, BulkKs)
  BY <1>7, <1>9, <1>10, <1>11, <1>13 DEF Spends
<1>15. LeavesCounter(BulkCtx, Len(out) + Len(BulkKs), b + BulkBlocks)
  BY <1>7, <1>11 DEF LeavesCounter
<1> QED
  BY <1>12, <1>14, <1>15

(* Any of the four iterations.                                             *)
LEMMA LoopSpends ==
    ASSUME CounterInv, Loop, DataFits(backend, gh)
    PROVE  \E c, k : /\ Spends(c, k)
                     /\ \E b \in Nat : LeavesCounter(c, Len(out) + Len(k), b)
                     /\ \/ job.mode = "enc" /\ EncryptWith(c, k)
                        \/ job.mode = "dec" /\ DecryptWith(c, k)
<1>1. todo > 0
  BY LoopRuns
<1>2. CASE \/ BulkReady /\ job.mode = "enc" /\ EncryptWith(BulkCtx, BulkKs)
           \/ BulkReady /\ job.mode = "dec" /\ DecryptWith(BulkCtx, BulkKs)
  <2>1. /\ Spends(BulkCtx, BulkKs)
        /\ \E b \in Nat : LeavesCounter(BulkCtx, Len(out) + Len(BulkKs), b)
    BY <1>1, <1>2, BulkSpends
  <2> QED
    BY <1>2, <2>1
<1>3. CASE \/ job.mode = "enc" /\ EncryptWith(BlockCtx, BlockKs)
           \/ job.mode = "dec" /\ DecryptWith(BlockCtx, BlockKs)
  <2>1. /\ Spends(BlockCtx, BlockKs)
        /\ \E b \in Nat : LeavesCounter(BlockCtx, Len(out) + Len(BlockKs), b)
    BY <1>1, BlockSpends
  <2> QED
    BY <1>3, <2>1
<1> QED
  BY <1>2, <1>3, LoopRuns

(* It keeps the counter in place.                                          *)
LEMMA LoopCounter ==
    ASSUME CounterInv, Loop
    PROVE  CounterInv'
<1>1. todo > 0
  BY LoopRuns
<1>2. CASE DataFits(backend, gh)
  <2>1. PICK c, k : /\ Spends(c, k)
                    /\ \E b \in Nat : LeavesCounter(c, Len(out) + Len(k), b)
                    /\ EncryptWith(c, k) \/ DecryptWith(c, k)
    BY <1>2, LoopSpends
  <2>2. PICK b \in Nat : LeavesCounter(c, Len(out) + Len(k), b)
    BY <2>1
  <2> QED
    BY <1>1, <2>1, <2>2, IterationCounter
<1>3. CASE ~DataFits(backend, gh)
  BY <1>3, LoopRuns, OverrunCounter
<1> QED
  BY <1>2, <1>3

-----------------------------------------------------------------------------
(* Every step keeps the counter in place; no step reads GHASH for it.      *)
LEMMA StepCounter ==
    ASSUME CounterInv, [Next]_vars
    PROVE  CounterInv'
<1>1. /\ ctx \in GcmCtx /\ Len(out) \in Nat /\ todo \in Nat /\ MaxMsg \in Nat /\ MaxAad \in Nat
      /\ Len(out) + todo <= MaxMsg
  BY GcmAssumption DEF CounterInv
<1>2. ASSUME NEW j \in Job, InitEx(j) PROVE CounterInv'
  BY <1>2, InitExCounter
<1>3. ASSUME NEW n \in 0 .. MaxAad - ctx.aad_len, AadUpdate(n) PROVE CounterInv'
  <2>1. n \in Nat /\ ctx.aad_len \in Nat
    BY <1>1 DEF GcmCtx
  <2>4. SUFFICES ASSUME ~Overrun PROVE CounterInv'
    BY OverrunCounter
  <2>2. /\ ctx' \in GcmCtx /\ ctx'.ctr = ctx.ctr /\ ctx'.ks = ctx.ks
        /\ ctx'.ks_pos = ctx.ks_pos
    BY <1>1, <1>3, <2>1, <2>4, SMTT(60) DEF AadUpdate, vars, GcmCtx
  <2>3. UNCHANGED <<stage, job, out, todo>> /\ stage = "open"
    BY <1>3, <2>4 DEF AadUpdate, vars, Idle
  <2> QED
    BY <1>1, <2>2, <2>3, SameCounter
<1>4. ASSUME NEW n \in 0 .. MaxMsg - Len(out), EncryptUpdate(n) \/ DecryptUpdate(n)
      PROVE  CounterInv'
  <2>1. BeginUpdate(n)
    BY <1>4 DEF EncryptUpdate, DecryptUpdate
  <2>2. /\ ctx' \in GcmCtx /\ ctx'.ctr = ctx.ctr /\ ctx'.ks = ctx.ks
        /\ ctx'.ks_pos = ctx.ks_pos
    BY <1>1, <2>1 DEF BeginUpdate, GcmCtx
  <2>3. UNCHANGED <<stage, job, out>> /\ stage = "open" /\ todo' = n
    BY <2>1 DEF BeginUpdate, Idle
  <2>4. n \in Nat /\ Len(out) + n <= MaxMsg
    BY <1>1, <1>4
  <2> QED
    BY <2>2, <2>3, <2>4, SameCounter
<1>5. CASE Loop
  BY <1>5, LoopCounter
<1>7. ASSUME NEW v, CloseWith(v) PROVE CounterInv'
  <2>3. SUFFICES ASSUME Close(v) PROVE CounterInv'
    BY <1>7, OverrunCounter DEF CloseWith
  <2>1. /\ ctx' \in GcmCtx /\ ctx'.ctr = ctx.ctr /\ ctx'.ks = ctx.ks
        /\ ctx'.ks_pos = ctx.ks_pos
    BY <1>1, <2>3 DEF Close, GcmCtx
  <2>2. UNCHANGED <<job, out, todo>> /\ todo = 0 /\ stage' = "closed"
    BY <1>7, <2>3 DEF CloseWith, Close, Idle
  <2> QED
    BY <1>1, <2>1, <2>2, SameCounter
<1>8. CASE EncryptFinal
  BY <1>7, <1>8 DEF EncryptFinal
<1>9. ASSUME NEW a, NEW m, DecryptFinal(a, m) PROVE CounterInv'
  BY <1>7, <1>9 DEF DecryptFinal
<1>10. CASE UNCHANGED vars
  BY <1>1, <1>10, SameCounter DEF vars, CounterInv
<1> QED
  BY <1>2, <1>3, <1>4, <1>5, <1>8, <1>9, <1>10 DEF Next

(* sdc_gcm_*: for every block size, bulk width, split of the message and   *)
(* of the AAD, an encryption within the counter's range never uses a       *)
(* keystream byte twice, nor one of the block that masks the tag.          *)
THEOREM GcmKeystreamFresh == Spec => []KeystreamFresh
<1>1. Init => CounterInv
  BY InitCounter
<1>2. CounterInv /\ [Next]_vars => CounterInv'
  BY StepCounter
<1>3. CounterInv => KeystreamFresh
  BY CounterGivesFresh
<1> QED
  BY <1>1, <1>2, <1>3, PTL DEF Spec

-----------------------------------------------------------------------------
(* Types, for every caller.  Split AAD may fill a buffer of eight blocks   *)
(* past one block, never past its end; the first data call empties it, and *)
(* from there on it holds less than a block.                               *)
TypeInv ==
    /\ CounterInv
    /\ backend \in Backends
    /\ gh \in GhashCtx
    /\ gh.phase = 1 => Len(gh.buf) < BlockSize
    /\ Len(gh.buf) <= Room(backend)
    /\ stage \in {"none", "open", "closed", "undefined"}
    /\ verdict.rc \in {"none", "tag", "OK", "VERIFY_FAIL"}

(* It says more than TypeOK.                                               *)
LEMMA TypeInvGives == TypeInv => TypeOK
<1> SUFFICES ASSUME TypeInv PROVE TypeOK
  OBVIOUS
<1>1. /\ ctx \in GcmCtx /\ job \in Job /\ out \in Seq(Byte) /\ todo \in Nat
      /\ Len(out) \in Nat /\ Len(out) + todo <= MaxMsg /\ MaxMsg \in Nat
  BY GcmAssumption DEF TypeInv, CounterInv
<1>2. todo \in 0 .. MaxMsg
  BY <1>1
<1> QED
  BY <1>1, <1>2 DEF TypeInv, TypeOK

(* What a loop iteration hashes is a string of as many bytes as it spends. *)
LEMMA LoopHashes ==
    ASSUME TypeOK, CounterInv, Loop, DataFits(backend, gh)
    PROVE  \E c, k, d : /\ Spends(c, k) /\ d \in Seq(Byte) /\ Len(d) = Len(k)
                        /\ d = IF job.mode = "enc" THEN Written(k)
                               ELSE ReadNext(out, Len(out), Len(k))
                        /\ gh' = GhUpdate(backend, gh, d)
                        /\ out' = out \o Written(k)
                        /\ ctx' = [c EXCEPT !.msg_len = @ + Len(k)]
                        /\ UNCHANGED <<backend, stage, job, verdict>>
<1>1. PICK c, k : /\ Spends(c, k)
                  /\ \/ job.mode = "enc" /\ EncryptWith(c, k)
                     \/ job.mode = "dec" /\ DecryptWith(c, k)
  BY LoopSpends
<1>2. k \in Seq(KsByte) /\ Len(k) \in Nat
  BY <1>1 DEF Spends
<1>3. CASE job.mode = "enc" /\ EncryptWith(c, k)
  <2>1. Written(k) \in Seq(Byte) /\ Len(Written(k)) = Len(k)
    BY <1>2, WrittenBytes
  <2> QED
    BY <1>1, <1>3, <2>1 DEF EncryptWith
<1>4. CASE job.mode = "dec" /\ DecryptWith(c, k)
  <2>1. /\ ReadNext(out, Len(out), Len(k)) \in Seq(Byte)
        /\ Len(ReadNext(out, Len(out), Len(k))) = Len(k)
    BY <1>2, ReadNextType
  <2> QED
    BY <1>1, <1>4, <2>1 DEF DecryptWith
<1> QED
  BY <1>1, <1>3, <1>4

(* An iteration keeps the types of what it hashes into.                    *)
LEMMA LoopTypes ==
    ASSUME TypeInv, Loop, DataFits(backend, gh)
    PROVE  /\ gh' \in GhashCtx /\ Len(gh'.buf) < BlockSize /\ Len(gh'.buf) <= Room(backend)
           /\ UNCHANGED <<backend, stage, verdict>>
<1>1. /\ CounterInv /\ TypeOK /\ gh \in GhashCtx /\ backend \in Backend
      /\ gh.phase = 1 => Len(gh.buf) < BlockSize
  BY TypeInvGives, CallerAssumption DEF TypeInv
<1>2. PICK c, k, d : /\ Spends(c, k) /\ d \in Seq(Byte) /\ Len(d) = Len(k)
                     /\ gh' = GhUpdate(backend, gh, d)
                     /\ UNCHANGED <<backend, stage, verdict>>
  BY <1>1, LoopHashes
<1>3. d \in Seq(Byte) /\ Len(d) > 0
  BY <1>2 DEF Spends
<1> DEFINE held == IF gh.phase = 0 THEN 0 ELSE Len(gh.buf)
<1>4. held \in Nat /\ held < BlockSize
  BY <1>1, BlockSizeAssumption DEF GhashCtx
<1>5. held = IF gh.phase = 0 THEN 0 ELSE Len(gh.buf)
  OBVIOUS
<1> HIDE DEF held
<1>6. /\ GhUpdate(backend, gh, d) \in GhashCtx
      /\ Len(GhUpdate(backend, gh, d).buf) < BlockSize
  BY ONLY <1>1, <1>3, <1>4, <1>5, GhUpdateFacts
<1>7. Len(gh'.buf) \in Nat /\ Room(backend) \in Nat /\ BlockSize <= Room(backend)
  BY <1>1, <1>2, <1>6, RoomFacts DEF GhashCtx
<1> QED
  BY <1>2, <1>6, <1>7, BlockSizeAssumption

(* Every step keeps the types.                                             *)
LEMMA StepTypes ==
    ASSUME TypeInv, [Next]_vars
    PROVE  TypeInv'
<1>1. CounterInv'
  BY StepCounter DEF TypeInv
<1>2. /\ ctx \in GcmCtx /\ gh \in GhashCtx /\ backend \in Backends
      /\ gh.phase = 1 => Len(gh.buf) < BlockSize
      /\ Len(gh.buf) <= Room(backend)
  BY DEF TypeInv, CounterInv
<1>11. backend \in Backend /\ 0 <= Room(backend) /\ 0 < BlockSize
  BY <1>2, RoomFacts, CallerAssumption, BlockSizeAssumption
<1>12. CASE Overrun
  BY <1>1, <1>12 DEF Overrun, TypeInv
<1>3. ASSUME NEW j \in Job, InitEx(j) PROVE TypeInv'
  <2>1. GhInit \in GhashCtx /\ GhInit.phase = 0 /\ Len(GhInit.buf) = 0
    BY GhInitType DEF GhInit
  <2> QED
    BY <1>1, <1>2, <1>3, <1>11, <2>1 DEF InitEx, TypeInv, NoVerdict
<1>4. ASSUME NEW n \in 0 .. MaxAad - ctx.aad_len, AadUpdate(n) PROVE TypeInv'
  <2> DEFINE a == [i \in 1 .. n |-> AadByte(ctx.aad_len + i)]
  <2>1. n \in Nat /\ ctx.aad_len \in Nat
    BY <1>2, GcmAssumption DEF GcmCtx
  <2>2. a \in Seq(Byte) /\ Len(a) = n
    <3>1. a \in [1 .. n -> Byte]
      BY <2>1, SourceByteTypes
    <3> QED
      BY <2>1, <3>1, TableIsSeq
  <2>7. SUFFICES ASSUME ~Overrun PROVE TypeInv'
    BY <1>12
  <2>3. /\ gh' = gh \/ (gh' = GhAad(gh, a) /\ AadFits(backend, gh, n))
        /\ UNCHANGED <<backend, stage, verdict>>
    BY <1>4, <2>7 DEF AadUpdate, vars
  <2> HIDE DEF a
  <2>4. GhAad(gh, a) \in GhashCtx /\ GhAad(gh, a).phase = gh.phase
    BY <1>2, <2>2, GhAadFacts
  <2>5. gh.phase # 0 => GhAad(gh, a) = gh
    BY DEF GhAad
  <2>6. gh' \in GhashCtx /\ (gh'.phase = 1 => Len(gh'.buf) < BlockSize)
    BY <1>2, <2>3, <2>4, <2>5
  <2>8. Len(gh'.buf) <= Room(backend)
    <3>1. CASE gh' = gh \/ gh'.buf = gh.buf
      BY <1>2, <3>1
    <3>2. CASE /\ gh.phase = 0 /\ AadFits(backend, gh, n)
               /\ Len(gh'.buf) = Len(gh.buf) + (Len(a) - WholeBlocks(Len(a)))
      BY <2>2, <3>2 DEF AadFits
    <3>3. \/ GhAad(gh, a).buf = gh.buf
          \/ /\ gh.phase = 0
             /\ Len(GhAad(gh, a).buf) = Len(gh.buf) + (Len(a) - WholeBlocks(Len(a)))
      BY <1>2, <2>2, GhAadFacts
    <3> QED
      BY <2>3, <3>1, <3>2, <3>3
  <2> QED
    BY <1>1, <2>3, <2>6, <2>8 DEF TypeInv
<1>5. ASSUME NEW n, EncryptUpdate(n) \/ DecryptUpdate(n) PROVE TypeInv'
  BY <1>1, <1>5 DEF EncryptUpdate, DecryptUpdate, BeginUpdate, TypeInv
<1>6. CASE Loop
  BY <1>1, <1>6, <1>12, LoopTypes, LoopRuns DEF TypeInv
<1>7. ASSUME NEW v, v.rc \in {"tag", "OK", "VERIFY_FAIL"}, CloseWith(v) PROVE TypeInv'
  <2>1. GhFinal(gh) \in GhashCtx
    BY <1>2, GhFinalType
  <2>2. GhFinal(gh).buf = <<>>
    BY <1>2 DEF GhFinal, GhashCtx
  <2>3. Len(GhFinal(gh).buf) < BlockSize /\ Len(GhFinal(gh).buf) <= Room(backend)
    BY <1>11, <2>2, BlockSizeAssumption
  <2>4. CASE Close(v)
    BY <1>1, <1>7, <2>1, <2>3, <2>4 DEF Close, TypeInv
  <2> QED
    BY <1>7, <1>12, <2>4 DEF CloseWith
<1>8. CASE EncryptFinal
  BY <1>7, <1>8 DEF EncryptFinal, Sealed
<1>9. ASSUME NEW a, NEW m, DecryptFinal(a, m) PROVE TypeInv'
  BY <1>7, <1>9 DEF DecryptFinal, Checked
<1>10. CASE UNCHANGED vars
  BY <1>1, <1>10 DEF vars, TypeInv
<1> QED
  BY <1>3, <1>4, <1>5, <1>6, <1>8, <1>9, <1>10 DEF Next

(* sdc_gcm_*: for every caller, backend, block size, bulk width and        *)
(* message within the counter's range, and any split of AAD and message,   *)
(* contexts, output and verdict keep their types, and GHASH holds back no  *)
(* more than its array takes, as long as no copy has left an array; where  *)
(* one would (Overrun), the behaviour ends.                                *)
THEOREM GcmTypeOK == Spec => []TypeOK
<1>1. Init => TypeInv
  <2> SUFFICES ASSUME Init PROVE TypeInv
    OBVIOUS
  <2>1. CounterInv
    BY InitCounter
  <2>2. GhInit \in GhashCtx /\ GhInit.phase = 0 /\ Len(GhInit.buf) = 0
    BY GhInitType DEF GhInit
  <2>3. backend \in Backend /\ 0 <= Room(backend)
    BY RoomFacts, CallerAssumption, BlockSizeAssumption DEF Init
  <2> QED
    BY <2>1, <2>2, <2>3 DEF Init, TypeInv, NoVerdict
<1>2. TypeInv /\ [Next]_vars => TypeInv'
  BY StepTypes
<1>3. TypeInv => TypeOK
  BY TypeInvGives
<1> QED
  BY <1>1, <1>2, <1>3, PTL DEF Spec

-----------------------------------------------------------------------------
(* The refinement of GcmMsg.  Msg!X is GcmMsg's copy of GcmData's X; the   *)
(* two are the same.                                                       *)
LEMMA MsgBytes ==
    /\ Msg!ZeroByte = ZeroByte /\ Msg!BadByte = BadByte /\ Msg!J0 = J0
    /\ \A i : Msg!PlainByte(i) = PlainByte(i) /\ Msg!KsOf(i) = KsOf(i)
    /\ \A b, k : Msg!Xor(b, k) = Xor(b, k)
    /\ \A n : Msg!AadOf(n) = AadOf(n) /\ Msg!Zeros(n) = Zeros(n)
    /\ \A s : Msg!TagOf(s) = TagOf(s)
    /\ \A x, y : Msg!LenBlock(x, y) = LenBlock(x, y)
BY DEF Msg!ZeroByte, ZeroByte, Msg!BadByte, BadByte, Msg!J0, J0, Msg!PlainByte, PlainByte,
       Msg!KsOf, KsOf, Msg!Xor, Xor, Msg!AadOf, AadOf, Msg!AadByte, AadByte, Msg!Zeros, Zeros,
       Msg!TagOf, TagOf, Msg!LenBlock, LenBlock

(* So are those made of them.                                              *)
LEMMA MsgInputs ==
    /\ \A i : Msg!CipherByte(i) = CipherByte(i)
    /\ \A j, i : Msg!InByte(j, i) = InByte(j, i)
    /\ \A s : Msg!Padded(s) = Padded(s)
BY MsgBytes DEF Msg!CipherByte, CipherByte, Msg!InByte, InByte, Msg!Padded, Padded

(* And those the actions of GcmMsg speak of.                               *)
LEMMA MsgSame ==
    /\ Msg!Job = Job /\ Msg!NoVerdict = NoVerdict
    /\ \A j, n : Msg!OutOf(j, n) = OutOf(j, n) /\ Msg!AuthOf(j, n) = AuthOf(j, n)
    /\ \A n : Msg!SentOf(n) = SentOf(n) /\ Msg!AadOf(n) = AadOf(n)
    /\ \A s : Msg!Sealed(s) = Sealed(s)
    /\ \A g, x, y : Msg!Checked(g, x, y) = Checked(g, x, y)
    /\ \A x, y : Msg!GhashOf(x, y) = GhashOf(x, y)
<1>1. Msg!Job = Job /\ Msg!NoVerdict = NoVerdict
  BY MsgBytes DEF Msg!Job, Msg!JobRec, Job, JobRec, Msg!NoVerdict, NoVerdict
<1>2. \A j, n : Msg!OutOf(j, n) = OutOf(j, n)
  BY MsgBytes, MsgInputs DEF Msg!OutOf, OutOf
<1>3. \A j, n : Msg!AuthOf(j, n) = AuthOf(j, n)
  BY MsgInputs DEF Msg!AuthOf, AuthOf
<1>4. \A n : Msg!SentOf(n) = SentOf(n) /\ Msg!AadOf(n) = AadOf(n)
  BY MsgBytes, MsgInputs DEF Msg!SentOf, SentOf
<1>5. \A s : Msg!Sealed(s) = Sealed(s)
  BY MsgBytes DEF Msg!Sealed, Sealed
<1>6. \A g, x, y : Msg!Checked(g, x, y) = Checked(g, x, y)
  BY MsgBytes DEF Msg!Checked, Checked
<1>7. \A x, y : Msg!GhashOf(x, y) = GhashOf(x, y)
  BY MsgBytes, MsgInputs DEF Msg!GhashOf, GhashOf
<1> QED
  BY <1>1, <1>2, <1>3, <1>4, <1>5, <1>6, <1>7

-----------------------------------------------------------------------------
(* The message's strings.                                                  *)
AuthByte(j, i) == IF j.mode = "enc" THEN CipherByte(i) ELSE InByte(j, i)

(* Output, authenticated text and sent text are byte strings of the length *)
(* asked for, in either direction.                                         *)
LEMMA MessageTypes ==
    ASSUME NEW j \in Job, NEW n \in Nat
    PROVE  /\ OutOf(j, n) \in Seq(Byte) /\ Len(OutOf(j, n)) = n
           /\ AuthOf(j, n) \in Seq(Byte) /\ Len(AuthOf(j, n)) = n
           /\ SentOf(n) \in Seq(Byte) /\ Len(SentOf(n)) = n
<1>1. ASSUME NEW i \in 1 .. n
      PROVE  /\ Xor(InByte(j, i), KsOf(i)) \in Byte
             /\ CipherByte(i) \in Byte /\ InByte(j, i) \in Byte
  <2>1. i \in Nat \ {0}
    BY <1>1
  <2>2. InByte(j, i) \in Byte /\ KsOf(i) \in KsByte /\ PlainByte(i) \in Byte
    BY <2>1, InByteType, KsOfType, SourceByteTypes
  <2> QED
    BY <2>2, XorType DEF CipherByte
<1>2. /\ OutOf(j, n) \in [1 .. n -> Byte] /\ AuthOf(j, n) \in [1 .. n -> Byte]
      /\ SentOf(n) \in [1 .. n -> Byte]
  BY <1>1 DEF OutOf, AuthOf, SentOf
<1> QED
  BY <1>2, TableIsSeq

(* More of the message is the message so far and what follows.             *)
LEMMA MessageGrows ==
    ASSUME NEW j \in Job, NEW n \in Nat, NEW d \in Seq(Byte)
    PROVE  /\ (\A i \in 1 .. Len(d) : d[i] = Xor(InByte(j, n + i), KsOf(n + i)))
                 => OutOf(j, n) \o d = OutOf(j, n + Len(d))
           /\ (\A i \in 1 .. Len(d) : d[i] = AuthByte(j, n + i))
                 => AuthOf(j, n) \o d = AuthOf(j, n + Len(d))
<1>1. Len(d) \in Nat /\ n + Len(d) \in Nat
  BY Join
<1>2. /\ OutOf(j, n) \in Seq(Byte) /\ Len(OutOf(j, n)) = n
      /\ AuthOf(j, n) \in Seq(Byte) /\ Len(AuthOf(j, n)) = n
  BY MessageTypes
<1>3. /\ OutOf(j, n + Len(d)) \in Seq(Byte) /\ Len(OutOf(j, n + Len(d))) = n + Len(d)
      /\ AuthOf(j, n + Len(d)) \in Seq(Byte) /\ Len(AuthOf(j, n + Len(d))) = n + Len(d)
  BY <1>1, MessageTypes
<1>4. /\ \A i \in 1 .. n : i \in 1 .. n + Len(d)
      /\ \A i \in 1 .. Len(d) : n + i \in 1 .. n + Len(d)
  BY <1>1
<1>5. /\ \A i \in 1 .. n : OutOf(j, n + Len(d))[i] = OutOf(j, n)[i]
      /\ \A i \in 1 .. Len(d) : OutOf(j, n + Len(d))[n + i] = Xor(InByte(j, n + i), KsOf(n + i))
  BY <1>4 DEF OutOf
<1>6. /\ \A i \in 1 .. n : AuthOf(j, n + Len(d))[i] = AuthOf(j, n)[i]
      /\ \A i \in 1 .. Len(d) : AuthOf(j, n + Len(d))[n + i] = AuthByte(j, n + i)
  BY <1>4 DEF AuthOf, AuthByte
<1>7. ASSUME \A i \in 1 .. Len(d) : d[i] = Xor(InByte(j, n + i), KsOf(n + i))
      PROVE  OutOf(j, n) \o d = OutOf(j, n + Len(d))
  <2> DEFINE s == OutOf(j, n)
             u == OutOf(j, n + Len(d))
  <2>1. s \in Seq(Byte) /\ u \in Seq(Byte) /\ Len(s) = n /\ Len(u) = n + Len(d)
    BY <1>2, <1>3
  <2>2. \A i \in 1 .. n : u[i] = s[i]
    BY <1>5
  <2>3. \A i \in 1 .. Len(d) : u[n + i] = d[i]
    BY <1>5, <1>7
  <2> HIDE DEF s, u
  <2>4. s \o d = u
    BY ONLY <2>1, <2>2, <2>3, d \in Seq(Byte), ConcatIs
  <2> QED
    BY <2>4 DEF s, u
<1>8. ASSUME \A i \in 1 .. Len(d) : d[i] = AuthByte(j, n + i)
      PROVE  AuthOf(j, n) \o d = AuthOf(j, n + Len(d))
  <2> DEFINE s == AuthOf(j, n)
             u == AuthOf(j, n + Len(d))
  <2>1. s \in Seq(Byte) /\ u \in Seq(Byte) /\ Len(s) = n /\ Len(u) = n + Len(d)
    BY <1>2, <1>3
  <2>2. \A i \in 1 .. n : u[i] = s[i]
    BY <1>6
  <2>3. \A i \in 1 .. Len(d) : u[n + i] = d[i]
    BY <1>6, <1>8
  <2> HIDE DEF s, u
  <2>4. s \o d = u
    BY ONLY <2>1, <2>2, <2>3, d \in Seq(Byte), ConcatIs
  <2> QED
    BY <2>4 DEF s, u
<1> QED
  BY <1>7, <1>8

(* More AAD is the AAD so far and what follows.                            *)
LEMMA AadGrows ==
    ASSUME NEW n \in Nat, NEW m \in Nat
    PROVE  LET d == [i \in 1 .. m |-> AadByte(n + i)]
           IN  d \in Seq(Byte) /\ Len(d) = m /\ AadOf(n) \o d = AadOf(n + m)
<1> DEFINE d == [i \in 1 .. m |-> AadByte(n + i)]
<1>1. d \in Seq(Byte) /\ Len(d) = m /\ \A i \in 1 .. m : d[i] = AadByte(n + i)
  <2>1. d \in [1 .. m -> Byte]
    BY SourceByteTypes
  <2>2. \A i \in 1 .. m : d[i] = AadByte(n + i)
    OBVIOUS
  <2> HIDE DEF d
  <2> QED
    BY <2>1, <2>2, TableIsSeq
<1> SUFFICES AadOf(n) \o d = AadOf(n + m)
  BY <1>1
<1> HIDE DEF d
<1>2. n + m \in Nat
  OBVIOUS
<1>3. /\ AadOf(n) \in Seq(Byte) /\ Len(AadOf(n)) = n
      /\ AadOf(n + m) \in Seq(Byte) /\ Len(AadOf(n + m)) = n + m
  BY <1>2, AadOfFacts
<1>4. /\ \A i \in 1 .. n : i \in 1 .. n + m
      /\ \A i \in 1 .. m : n + i \in 1 .. n + m
  OBVIOUS
<1>5. /\ \A i \in 1 .. n : AadOf(n + m)[i] = AadOf(n)[i]
      /\ \A i \in 1 .. m : AadOf(n + m)[n + i] = d[i]
  BY <1>1, <1>4 DEF AadOf
<1> QED
  <2> DEFINE s == AadOf(n)
             u == AadOf(n + m)
  <2>1. s \in Seq(Byte) /\ u \in Seq(Byte) /\ Len(s) = n /\ Len(u) = n + Len(d)
    BY <1>1, <1>3
  <2>2. \A i \in 1 .. n : u[i] = s[i]
    BY <1>5
  <2>3. \A i \in 1 .. Len(d) : u[n + i] = d[i]
    BY <1>1, <1>5
  <2>4. d \in Seq(Byte)
    BY <1>1
  <2> HIDE DEF s, u
  <2>5. s \o d = u
    BY ONLY <2>1, <2>2, <2>3, <2>4, ConcatIs
  <2> QED
    BY <2>5 DEF s, u

-----------------------------------------------------------------------------
(* Between calls GHASH holds the AAD and the message bytes authenticated   *)
(* so far, and the output is the message's.                                *)
MsgInv ==
    stage = "open" =>
        /\ GhHolds(gh, AadOf(ctx.aad_len), AuthOf(job, Len(out)))
        /\ out = OutOf(job, Len(out))

GcmInv == IInv /\ CounterInv /\ MsgInv

(* What an iteration writes and hashes are the message's next bytes.       *)
LEMMA LoopBytes ==
    ASSUME CounterInv, NEW c, NEW k, Spends(c, k), NEW i \in 1 .. Len(k)
    PROVE  /\ Written(k)[i] = Xor(InByte(job, Len(out) + i), KsOf(Len(out) + i))
           /\ job.mode = "enc" => Written(k)[i] = AuthByte(job, Len(out) + i)
           /\ job.mode # "enc" =>
                  ReadNext(out, Len(out), Len(k))[i] = AuthByte(job, Len(out) + i)
<1>1. Len(out) \in Nat /\ Len(k) \in Nat /\ k[i] = KsOf(Len(out) + i)
  BY DEF CounterInv, Spends
<1>2. ReadIn(out, Len(out) + i) = InByte(job, Len(out) + i)
  BY <1>1 DEF ReadIn
<1>3. Written(k)[i] = Xor(InByte(job, Len(out) + i), KsOf(Len(out) + i))
  BY <1>1, <1>2 DEF Written
<1>4. CASE job.mode = "enc"
  <2>1. InByte(job, Len(out) + i) = PlainByte(Len(out) + i)
    BY <1>4 DEF InByte
  <2> QED
    BY <1>3, <1>4, <2>1 DEF AuthByte, CipherByte
<1>5. CASE job.mode # "enc"
  <2>1. ReadNext(out, Len(out), Len(k))[i] = ReadIn(out, Len(out) + i)
    BY DEF ReadNext
  <2> QED
    BY <1>2, <1>3, <1>5, <2>1 DEF AuthByte
<1> QED
  BY <1>4, <1>5

(* An iteration of any update loop is a step of AbsCrypt.                  *)
LEMMA LoopMsg ==
    ASSUME GcmInv, Loop
    PROVE  MsgInv' /\ Msg!AbsNext
<1>1. /\ TypeOK /\ CounterInv /\ MsgInv /\ gh \in GhashCtx /\ backend \in Backend
      /\ job \in Job /\ out \in Seq(Byte) /\ Len(out) \in Nat /\ ctx \in GcmCtx
      /\ ctx.aad_len \in Nat
  BY CallerAssumption DEF GcmInv, IInv, TypeOK, GcmCtx
<1>2. stage = "open" /\ ctx.phase = 1
  <2>1. todo > 0 /\ todo \in Nat
    BY <1>1, LoopRuns DEF CounterInv
  <2> QED
    BY <1>1, <2>1 DEF GcmInv, IInv, Lockstep, GcmCtx
<1>3. /\ GhHolds(gh, AadOf(ctx.aad_len), AuthOf(job, Len(out)))
      /\ out = OutOf(job, Len(out))
  BY <1>1, <1>2 DEF MsgInv
<1>4. PICK c, k, d : /\ Spends(c, k) /\ d \in Seq(Byte) /\ Len(d) = Len(k)
                     /\ d = IF job.mode = "enc" THEN Written(k)
                            ELSE ReadNext(out, Len(out), Len(k))
                     /\ gh' = GhUpdate(backend, gh, d)
                     /\ out' = out \o Written(k)
                     /\ ctx' = [c EXCEPT !.msg_len = @ + Len(k)]
                     /\ UNCHANGED <<backend, stage, job, verdict>>
  BY <1>1, <1>2, Fits, LoopHashes DEF GcmInv
<1>5. /\ c \in GcmCtx /\ c.phase = ctx.phase /\ c.aad_len = ctx.aad_len
      /\ k \in Seq(KsByte) /\ Len(k) \in Nat /\ Len(k) > 0 /\ Len(k) <= todo
  BY <1>4 DEF Spends
<1>6. Written(k) \in Seq(Byte) /\ Len(Written(k)) = Len(k)
  BY <1>1, <1>5, WrittenBytes
<1>7. \A i \in 1 .. Len(k) :
          /\ Written(k)[i] = Xor(InByte(job, Len(out) + i), KsOf(Len(out) + i))
          /\ d[i] = AuthByte(job, Len(out) + i)
  <2> TAKE i \in 1 .. Len(k)
  <2>1. /\ Written(k)[i] = Xor(InByte(job, Len(out) + i), KsOf(Len(out) + i))
        /\ job.mode = "enc" => Written(k)[i] = AuthByte(job, Len(out) + i)
        /\ job.mode # "enc" =>
              ReadNext(out, Len(out), Len(k))[i] = AuthByte(job, Len(out) + i)
    BY <1>1, <1>4, LoopBytes
  <2> QED
    BY <1>4, <2>1
<1>8. OutOf(job, Len(out)) \o Written(k) = OutOf(job, Len(out) + Len(k))
  <2>1. \A i \in 1 .. Len(Written(k)) :
            Written(k)[i] = Xor(InByte(job, Len(out) + i), KsOf(Len(out) + i))
    BY <1>6, <1>7
  <2>2. OutOf(job, Len(out)) \o Written(k) = OutOf(job, Len(out) + Len(Written(k)))
    BY ONLY <1>1, <1>6, <2>1, MessageGrows
  <2> QED
    BY ONLY <1>6, <2>2
<1>9. AuthOf(job, Len(out)) \o d = AuthOf(job, Len(out) + Len(k))
  <2>1. \A i \in 1 .. Len(d) : d[i] = AuthByte(job, Len(out) + i)
    BY <1>4, <1>7
  <2>2. AuthOf(job, Len(out)) \o d = AuthOf(job, Len(out) + Len(d))
    BY ONLY <1>1, <1>4, <2>1, MessageGrows
  <2> QED
    BY ONLY <1>4, <2>2
<1>10. out' = OutOf(job, Len(out) + Len(k)) /\ Len(out') = Len(out) + Len(k)
  <2>1. out' = OutOf(job, Len(out) + Len(k))
    BY <1>3, <1>4, <1>8
  <2>2. Len(out) + Len(k) \in Nat
    BY <1>1, <1>5
  <2>3. Len(OutOf(job, Len(out) + Len(k))) = Len(out) + Len(k)
    BY ONLY <1>1, <2>2, MessageTypes
  <2> QED
    BY <2>1, <2>3
<1>11. ctx'.aad_len = ctx.aad_len /\ ctx'.phase = 1
  <2>1. ctx' = [ctr |-> c.ctr, ks |-> c.ks, ks_pos |-> c.ks_pos, aad_len |-> c.aad_len,
                msg_len |-> c.msg_len + Len(k), phase |-> c.phase]
    BY <1>4, <1>5 DEF GcmCtx
  <2> QED
    BY <1>2, <1>5, <2>1
<1>12. GhHolds(gh', AadOf(ctx.aad_len), AuthOf(job, Len(out) + Len(k)))
  <2>1. AadOf(ctx.aad_len) \in Seq(Byte) /\ AuthOf(job, Len(out)) \in Seq(Byte)
    BY <1>1, AadOfFacts, MessageTypes
  <2>2. d \in Seq(Byte) /\ Len(d) > 0
    BY <1>4, <1>5
  <2>3. GhHolds(GhUpdate(backend, gh, d), AadOf(ctx.aad_len), AuthOf(job, Len(out)) \o d)
    BY ONLY <1>1, <1>3, <2>1, <2>2, GhUpdateBytes
  <2> QED
    BY <1>4, <1>9, <2>3
<1>13. MsgInv'
  BY <1>4, <1>10, <1>11, <1>12 DEF MsgInv
<1>14. Msg!AbsCrypt(Len(k))
  BY <1>2, <1>4, <1>10, <1>11, MsgSame DEF Msg!AbsCrypt
<1>15. Len(k) \in 0 .. MaxMsg
  BY <1>1, <1>5, GcmAssumption DEF CounterInv
<1> QED
  BY <1>13, <1>14, <1>15 DEF Msg!AbsNext

(* Before the first byte.                                                  *)
LEMMA NothingYet ==
    ASSUME NEW j \in Job
    PROVE  /\ AadOf(0) = <<>> /\ AuthOf(j, 0) = <<>> /\ OutOf(j, 0) = <<>>
           /\ GhHolds(GhInit, <<>>, <<>>)
<1>1. AadOf(0) = <<>> /\ AuthOf(j, 0) = <<>> /\ OutOf(j, 0) = <<>>
  BY DEF AadOf, AuthOf, OutOf
<1>2. <<>> \in Seq(Byte) /\ Len(<<>>) = 0 /\ <<>> \o <<>> = <<>>
  OBVIOUS
<1>3. 0 % BlockSize = 0 /\ 0 < BlockSize
  BY SmallMod, BlockSizeAssumption
<1>4. GhInit \in GhashCtx
  BY GhInitType
<1>5. GhHolds(GhInit, <<>>, <<>>)
  BY <1>2, <1>3, <1>4 DEF GhHolds, GhOpen, GhFed, GhInit
<1> QED
  BY <1>1, <1>5

(* sdc_gcm_init_ex starts a message.                                       *)
LEMMA InitExMsg ==
    ASSUME NEW j \in Job, InitEx(j)
    PROVE  MsgInv' /\ Msg!AbsNext
<1>1. /\ gh' = GhInit /\ out' = <<>> /\ job' = j /\ stage' = "open" /\ verdict' = NoVerdict
      /\ ctx'.aad_len = 0 /\ ctx'.phase = 0
  BY DEF InitEx, FreshCtx
<1>2. Len(<<>>) = 0
  OBVIOUS
<1>3. MsgInv'
  BY <1>1, <1>2, NothingYet DEF MsgInv
<1>4. Msg!AbsStart
  BY <1>1, MsgSame DEF Msg!AbsStart
<1> QED
  BY <1>3, <1>4 DEF Msg!AbsNext

(* An aad call takes its bytes, or does nothing once data has come.        *)
LEMMA AadUpdateMsg ==
    ASSUME GcmInv, AnyAadSplit = FALSE, NEW n \in 0 .. MaxAad - ctx.aad_len, AadUpdate(n)
    PROVE  MsgInv' /\ [Msg!AbsNext]_(Msg!absVars)
<1>1. /\ ctx \in GcmCtx /\ ctx.aad_len \in Nat /\ ctx.phase \in {0, 1} /\ job \in Job
      /\ n \in Nat /\ stage = "open" /\ gh.buf = <<>> /\ out \in Seq(Byte) /\ MsgInv
  BY GcmAssumption DEF GcmInv, IInv, TypeOK, GcmCtx, AadUpdate, Idle
<1>4. AadFits(backend, gh, n) /\ UNCHANGED <<stage, job, out, verdict>>
  BY <1>1, AadFitsEmpty DEF GcmInv, AadUpdate, vars
<1>2. CASE ctx.phase # 0 \/ n = 0
  <2>1. UNCHANGED <<ctx, gh>>
    BY <1>2 DEF AadUpdate, vars
  <2> QED
    BY <1>1, <1>4, <2>1 DEF MsgInv, Msg!absVars
<1>3. CASE ~(ctx.phase # 0 \/ n = 0)
  <2> DEFINE d == [i \in 1 .. n |-> AadByte(ctx.aad_len + i)]
  <2>1. gh.phase = 0 /\ out = <<>> /\ Len(out) = 0
    BY <1>1, <1>3 DEF GcmInv, IInv, Lockstep
  <2>2. /\ ctx' = [ctx EXCEPT !.aad_len = @ + n] /\ gh' = GhAad(gh, d)
    BY <1>3, <1>4 DEF AadUpdate
  <2>3. ctx'.aad_len = ctx.aad_len + n /\ ctx'.phase = ctx.phase /\ ctx.phase = 0
    BY <1>1, <1>3, <2>2 DEF GcmCtx
  <2>4. d \in Seq(Byte) /\ AadOf(ctx.aad_len) \o d = AadOf(ctx.aad_len + n)
    BY ONLY <1>1, AadGrows
  <2> HIDE DEF d
  <2>5. AuthOf(job, Len(out)) = <<>>
    BY <1>1, <2>1, NothingYet
  <2>6. GhHolds(gh, AadOf(ctx.aad_len), <<>>) /\ AadOf(ctx.aad_len) \in Seq(Byte)
    BY <1>1, <2>5, AadOfFacts DEF MsgInv
  <2>7. GhHolds(GhAad(gh, d), AadOf(ctx.aad_len) \o d, <<>>)
    BY ONLY <1>1, <2>1, <2>4, <2>6, GhAadBytes
  <2>8. MsgInv'
    BY <1>1, <1>4, <2>2, <2>3, <2>4, <2>5, <2>7 DEF MsgInv
  <2>9. Msg!AbsAad(n)
    BY <1>1, <1>4, <2>3 DEF Msg!AbsAad
  <2>10. n \in 1 .. MaxAad
    BY <1>1, <1>3, GcmAssumption
  <2> QED
    BY <2>8, <2>9, <2>10 DEF Msg!AbsNext
<1> QED
  BY <1>2, <1>3

(* Entering an update call closes the AAD and writes nothing.              *)
LEMMA BeginUpdateMsg ==
    ASSUME GcmInv, NEW n, BeginUpdate(n)
    PROVE  MsgInv' /\ Msg!AbsNext
<1>1. /\ ctx \in GcmCtx /\ MsgInv /\ stage = "open" /\ out \in Seq(Byte) /\ Len(out) \in Nat
      /\ UNCHANGED <<gh, stage, job, out, verdict>>
  BY DEF GcmInv, IInv, TypeOK, BeginUpdate, Idle
<1>2. ctx'.aad_len = ctx.aad_len /\ ctx'.phase = 1
  BY <1>1 DEF BeginUpdate, GcmCtx
<1>3. MsgInv'
  BY <1>1, <1>2 DEF MsgInv
<1>4. out = OutOf(job, Len(out)) /\ Len(out) + 0 = Len(out)
  BY <1>1 DEF MsgInv
<1>5. Msg!AbsCrypt(0)
  BY <1>1, <1>2, <1>4, MsgSame DEF Msg!AbsCrypt
<1>6. 0 \in 0 .. MaxMsg
  BY GcmAssumption
<1> QED
  BY <1>3, <1>5, <1>6 DEF Msg!AbsNext

(* What a final call computes.                                             *)
LEMMA CloseFacts ==
    ASSUME GcmInv, Idle
    PROVE  /\ GhFinal(gh).state = GhashOf(AadOf(ctx.aad_len), AuthOf(job, Len(out)))
           /\ AadOf(ctx.aad_len) \in Seq(Byte) /\ Len(AadOf(ctx.aad_len)) = ctx.aad_len
           /\ AuthOf(job, Len(out)) \in Seq(Byte)
           /\ ctx \in GcmCtx /\ ctx.aad_len \in Nat /\ Len(out) \in Nat
           /\ job \in Job /\ stage = "open"
<1>1. /\ ctx \in GcmCtx /\ ctx.aad_len \in Nat /\ Len(out) \in Nat /\ job \in Job
      /\ stage = "open" /\ MsgInv
  BY DEF GcmInv, IInv, TypeOK, Idle, GcmCtx
<1>2. /\ AadOf(ctx.aad_len) \in Seq(Byte) /\ Len(AadOf(ctx.aad_len)) = ctx.aad_len
      /\ AuthOf(job, Len(out)) \in Seq(Byte)
  BY <1>1, AadOfFacts, MessageTypes
<1>3. GhHolds(gh, AadOf(ctx.aad_len), AuthOf(job, Len(out)))
  BY <1>1 DEF MsgInv
<1>4. GhFinal(gh).state = GhashOf(AadOf(ctx.aad_len), AuthOf(job, Len(out)))
  BY ONLY <1>2, <1>3, GhFinalBytes
<1> QED
  BY <1>1, <1>2, <1>4

(* sdc_gcm_encrypt_final makes the tag of the whole message.               *)
LEMMA EncryptFinalMsg ==
    ASSUME GcmInv, EncryptFinal
    PROVE  MsgInv' /\ Msg!AbsNext
<1>1. /\ job.mode = "enc" /\ Idle /\ stage' = "closed"
      /\ verdict' = Sealed(GhFinal(gh).state)
      /\ ctx' = [ctx EXCEPT !.phase = 1] /\ UNCHANGED <<job, out>>
  BY Fits DEF GcmInv, EncryptFinal, CloseWith, Close, Idle
<1>2. /\ GhFinal(gh).state = GhashOf(AadOf(ctx.aad_len), AuthOf(job, Len(out)))
      /\ ctx \in GcmCtx /\ stage = "open"
  BY <1>1, CloseFacts
<1>3. AuthOf(job, Len(out)) = SentOf(Len(out))
  BY <1>1 DEF AuthOf, SentOf
<1>4. ctx'.aad_len = ctx.aad_len /\ ctx'.phase = 1
  BY <1>1, <1>2 DEF GcmCtx
<1>5. Msg!AbsEncryptFinal
  BY <1>1, <1>2, <1>3, <1>4, MsgSame DEF Msg!AbsEncryptFinal
<1>6. MsgInv'
  BY <1>1 DEF MsgInv
<1> QED
  BY <1>5, <1>6 DEF Msg!AbsNext

(* Two GHASH values are equal exactly when AAD and data are.               *)
LEMMA GhashOfInjective ==
    ASSUME NEW a \in Seq(Byte), NEW c \in Seq(Byte), NEW b \in Seq(Byte), NEW e \in Seq(Byte)
    PROVE  TagOf(GhashOf(a, c)) = TagOf(GhashOf(b, e)) <=> a = b /\ c = e
<1>1. ASSUME TagOf(GhashOf(a, c)) = TagOf(GhashOf(b, e)) PROVE a = b /\ c = e
  <2>1. GhashOf(a, c) = GhashOf(b, e)
    BY <1>1 DEF TagOf
  <2>2. Encoding(a, c) = Encoding(b, e)
    BY <2>1 DEF GhashOf, Encoding
  <2> QED
    BY <2>2, EncodingInjective
<1> QED
  BY <1>1

(* sdc_gcm_decrypt_final accepts the tag of the message that was sent.     *)
LEMMA DecryptFinalMsg ==
    ASSUME GcmInv, NEW a \in 0 .. MaxAad, NEW m \in 0 .. MaxMsg, DecryptFinal(a, m)
    PROVE  MsgInv' /\ Msg!AbsNext
<1> DEFINE good == TagOf(GhFinal(gh).state) = SentTag(a, m)
<1>1. /\ job.mode = "dec" /\ Idle /\ stage' = "closed"
      /\ verdict' = Checked(good, a, m)
      /\ ctx' = [ctx EXCEPT !.phase = 1] /\ UNCHANGED <<job, out>>
  BY Fits DEF GcmInv, DecryptFinal, CloseWith, Close, Idle
<1>2. /\ GhFinal(gh).state = GhashOf(AadOf(ctx.aad_len), AuthOf(job, Len(out)))
      /\ AadOf(ctx.aad_len) \in Seq(Byte) /\ Len(AadOf(ctx.aad_len)) = ctx.aad_len
      /\ AuthOf(job, Len(out)) \in Seq(Byte)
      /\ ctx \in GcmCtx /\ job \in Job /\ stage = "open"
  BY <1>1, CloseFacts
<1>3. /\ AadOf(a) \in Seq(Byte) /\ Len(AadOf(a)) = a /\ SentOf(m) \in Seq(Byte)
  <2>1. a \in Nat /\ m \in Nat
    BY GcmAssumption
  <2> QED
    BY <1>2, <2>1, AadOfFacts, MessageTypes
<1>4. good <=> AadOf(ctx.aad_len) = AadOf(a) /\ AuthOf(job, Len(out)) = SentOf(m)
  BY ONLY <1>2, <1>3, GhashOfInjective DEF SentTag
<1>5. AadOf(ctx.aad_len) = AadOf(a) <=> ctx.aad_len = a
  BY <1>2, <1>3
<1>6. good = (ctx.aad_len = a /\ AuthOf(job, Len(out)) = SentOf(m))
  BY <1>4, <1>5
<1> HIDE DEF good
<1>7. ctx'.aad_len = ctx.aad_len /\ ctx'.phase = 1
  BY <1>1, <1>2 DEF GcmCtx
<1>8. Msg!AbsDecryptFinal(a, m)
  BY <1>1, <1>2, <1>6, <1>7, MsgSame DEF Msg!AbsDecryptFinal
<1>9. MsgInv'
  BY <1>1 DEF MsgInv
<1> QED
  BY <1>8, <1>9 DEF Msg!AbsNext

(* Every step is a step of GcmMsg or leaves it alone.                      *)
LEMMA StepMsg ==
    ASSUME AnyAadSplit = FALSE, GcmInv, [Next]_vars
    PROVE  MsgInv' /\ [Msg!AbsNext]_(Msg!absVars)
<1>1. ASSUME NEW j \in Job, InitEx(j) PROVE MsgInv' /\ Msg!AbsNext
  BY <1>1, InitExMsg
<1>2. ASSUME NEW n \in 0 .. MaxAad - ctx.aad_len, AadUpdate(n)
      PROVE  MsgInv' /\ [Msg!AbsNext]_(Msg!absVars)
  BY <1>2, AadUpdateMsg
<1>3. ASSUME NEW n, EncryptUpdate(n) \/ DecryptUpdate(n) PROVE MsgInv' /\ Msg!AbsNext
  BY <1>3, BeginUpdateMsg DEF EncryptUpdate, DecryptUpdate
<1>4. CASE Loop
  BY <1>4, LoopMsg
<1>5. CASE EncryptFinal
  BY <1>5, EncryptFinalMsg
<1>6. ASSUME NEW a \in Near(ctx.aad_len, MaxAad), NEW m \in Near(Len(out), MaxMsg),
             DecryptFinal(a, m)
      PROVE  MsgInv' /\ Msg!AbsNext
  <2>1. a \in 0 .. MaxAad /\ m \in 0 .. MaxMsg
    BY DEF Near
  <2> QED
    BY <1>6, <2>1, DecryptFinalMsg
<1>7. CASE UNCHANGED vars
  BY <1>7 DEF vars, Msg!absVars, GcmInv, MsgInv
<1> QED
  BY <1>1, <1>2, <1>3, <1>4, <1>5, <1>6, <1>7 DEF Next

(* sdc_gcm_* implements the message-level promise of SP 800-38D, for every *)
(* backend, block size, bulk width and split of the message, and callers   *)
(* that feed AAD in whole blocks until the last call.                      *)
THEOREM GcmImplementsMsg ==
    ASSUME AnyAadSplit = FALSE
    PROVE  Spec => ImplementsMsg
<1>1. Init => GcmInv /\ Msg!AbsInit
  <2> SUFFICES ASSUME Init PROVE GcmInv /\ Msg!AbsInit
    OBVIOUS
  <2>1. IInv /\ CounterInv
    BY InitKeeps, InitCounter
  <2>2. MsgInv
    BY DEF Init, MsgInv
  <2>3. Msg!AbsInit
    BY MsgSame DEF Init, FreshCtx, Msg!AbsInit
  <2> QED
    BY <2>1, <2>2, <2>3 DEF GcmInv
<1>2. GcmInv /\ [Next]_vars => GcmInv' /\ [Msg!AbsNext]_(Msg!absVars)
  <2> SUFFICES ASSUME GcmInv, [Next]_vars
               PROVE  GcmInv' /\ [Msg!AbsNext]_(Msg!absVars)
    OBVIOUS
  <2>1. IInv' /\ CounterInv'
    BY StepKeeps, StepCounter DEF GcmInv
  <2>2. MsgInv' /\ [Msg!AbsNext]_(Msg!absVars)
    BY StepMsg
  <2> QED
    BY <2>1, <2>2 DEF GcmInv
<1> QED
  BY <1>1, <1>2, PTL DEF Spec, ImplementsMsg, Msg!AbsSpec
=============================================================================
