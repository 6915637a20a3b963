---------------------------- MODULE ChaChaProofs ----------------------------
(***************************************************************************)
(* The keystream contexts for every word size, block size, counter width   *)
(* and number of lanes: crypt() gives the bytes of the stream one after    *)
(* the other, whatever refills and carries fall into the call.             *)
(***************************************************************************)
EXTENDS ChaCha, DataLemmas

(* Byte j of the stream (from 0) whose first block is numbered first.      *)
StreamByte(v, first, j) ==
    <<(first + (j \div StreamBlock)) % CounterRange(v), j % StreamBlock>>

(* The n bytes of the stream from byte p on.                               *)
Stream(v, first, p, n) == [i \in 1 .. n |-> StreamByte(v, first, p + (i - 1))]

PerRefill(v) == v.lanes * StreamBlock

LanesAt(c, from) ==
    /\ c.lane \in [1 .. c.v.lanes -> Lane]
    /\ \A i \in 1 .. c.v.lanes : c.lane[i] = LaneAt(c.v, from + (i - 1))

BlocksAt(c, from) ==
    /\ c.buf \in [1 .. c.v.lanes -> Nat]
    /\ \A i \in 1 .. c.v.lanes : c.buf[i] = (from + (i - 1)) % CounterRange(c.v)

(* After p bytes of the stream the buffer is spent and q refills are made, *)
(* or it holds refill number q (from 0) with used of its bytes given.      *)
Spent(c, first, p, q) ==
    /\ c.used = PerRefill(c.v) /\ p = q * PerRefill(c.v)
    /\ LanesAt(c, first + c.v.lanes * q)

Filled(c, first, p, q) ==
    /\ c.used < PerRefill(c.v) /\ p = q * PerRefill(c.v) + c.used
    /\ LanesAt(c, first + c.v.lanes * (q + 1))
    /\ BlocksAt(c, first + c.v.lanes * q)

StreamAt(c, first, p) ==
    /\ c \in ChaChaCtx
    /\ c.buf \in [1 .. c.v.lanes -> Nat]
    /\ \E q \in Nat : Spent(c, first, p, q) \/ Filled(c, first, p, q)

-----------------------------------------------------------------------------
(* The sizes a variant gives.                                              *)
LEMMA VariantSizes ==
    ASSUME NEW v \in Variant
    PROVE  /\ v.lanes \in Nat \ {0} /\ v.lanes < WordMod
           /\ PerRefill(v) \in Nat \ {0}
           /\ CounterRange(v) \in Nat \ {0}
           /\ WordMod \in Nat \ {0} /\ StreamBlock \in Nat \ {0}
<1>1. /\ v.lanes \in Nat \ {0} /\ v.lanes < WordMod
      /\ WordMod \in Nat \ {0} /\ StreamBlock \in Nat \ {0}
  BY ChaChaAssumption DEF Variant
<1>2. v.lanes * StreamBlock \in Nat \ {0}
  <2>1. \A a, b \in Nat \ {0} : a * b \in Nat \ {0}
    OBVIOUS
  <2> QED
    BY <1>1, <2>1
<1>3. CounterRange(v) \in Nat \ {0}
  <2>1. \A a, b \in Nat \ {0} : a * b \in Nat \ {0}
    OBVIOUS
  <2> QED
    BY <1>1, <2>1 DEF CounterRange
<1> QED
  BY <1>1, <1>2, <1>3 DEF PerRefill

(* A counter is kept in words.                                             *)
LEMMA LaneAtType ==
    ASSUME NEW v \in Variant, NEW c \in Nat
    PROVE  LaneAt(v, c) \in Lane
<1>1. WordMod \in Nat \ {0}
  BY VariantSizes
<1>2. c \div WordMod \in Nat
  BY <1>1, DivModSplit
<1>3. c % WordMod \in Word /\ (c \div WordMod) % WordMod \in Word /\ 0 \in Word
  BY <1>1, <1>2, DivModSplit DEF Word
<1> QED
  BY <1>3 DEF LaneAt, Lane

(* The words of a counter give it back, as far as they reach.              *)
LEMMA LaneAtValue ==
    ASSUME NEW v \in Variant, NEW c \in Nat
    PROVE  LaneAt(v, c).hi * WordMod + LaneAt(v, c).lo = c % CounterRange(v)
<1> DEFINE W == WordMod
           lo == c % W
           a == c \div W
           hi == a % W
           b == a \div W
<1>1. W \in Nat \ {0}
  BY VariantSizes
<1>2. a \in Nat /\ lo \in Nat /\ lo < W /\ c = a * W + lo
  BY <1>1, DivModSplit
<1>3. b \in Nat /\ hi \in Nat /\ hi < W /\ a = b * W + hi
  BY <1>1, <1>2, DivModSplit
<1>4. CASE v.wide
  <2> HIDE DEF W, lo, a, hi, b
  <2>1. hi * W + lo \in Nat /\ hi * W + lo < W * W /\ W * W \in Nat \ {0}
    <3>1. hi + 1 <= W /\ hi + 1 \in Nat
      BY <1>1, <1>3
    <3>2. (hi + 1) * W <= W * W
      BY <1>1, <3>1, MultOrder
    <3>3. (hi + 1) * W = hi * W + W
      BY <1>1, <1>3
    <3>4. hi * W \in Nat /\ W * W \in Nat
      BY <1>1, <1>3
    <3> QED
      BY <1>1, <1>2, <3>2, <3>3, <3>4
  <2>2. c = b * (W * W) + (hi * W + lo)
    BY <1>1, <1>2, <1>3
  <2>3. (b * (W * W) + (hi * W + lo)) % (W * W) = hi * W + lo
    BY <1>3, <2>1, DivMod
  <2>4. CounterRange(v) = W * W
    BY <1>4 DEF CounterRange, W
  <2>5. LaneAt(v, c).hi = hi /\ LaneAt(v, c).lo = lo
    BY <1>4 DEF LaneAt, W, lo, hi, a
  <2> QED
    BY <2>2, <2>3, <2>4, <2>5 DEF W
<1>5. CASE ~v.wide
  BY <1>1, <1>2, <1>5 DEF LaneAt, CounterRange
<1> QED
  BY <1>4, <1>5

(* Advancing a lane adds the number of lanes, with the carry.              *)
LEMMA AdvanceCounts ==
    ASSUME NEW v \in Variant, NEW c \in Nat
    PROVE  Advance(v, LaneAt(v, c)) = LaneAt(v, c + v.lanes)
<1> DEFINE W == WordMod
           L == v.lanes
           lo == c % W
           a == c \div W
           hi == a % W
           b == a \div W
           low == (lo + L) % W
<1>1. W \in Nat \ {0} /\ L \in Nat \ {0} /\ L < W
  BY VariantSizes
<1>2. a \in Nat /\ lo \in Nat /\ lo < W /\ c = a * W + lo
  BY <1>1, DivModSplit
<1>3. b \in Nat /\ hi \in Nat /\ hi < W /\ a = b * W + hi
  BY <1>1, <1>2, DivModSplit
<1>4. LaneAt(v, c) = [lo |-> lo, hi |-> IF v.wide THEN hi ELSE 0]
  BY DEF LaneAt
<1>5. LaneAt(v, c + L) = [lo |-> (c + L) % W,
                          hi |-> IF v.wide THEN ((c + L) \div W) % W ELSE 0]
  BY DEF LaneAt
<1>6. Advance(v, LaneAt(v, c)) =
          [lo |-> low, hi |-> IF v.wide /\ low < lo THEN (hi + 1) % W
                              ELSE IF v.wide THEN hi ELSE 0]
  BY <1>4 DEF Advance
<1> HIDE DEF W, L, lo, a, hi, b, low
<1>7. CASE lo + L < W
  <2>1. low = lo + L
    <3>1. lo + L \in Nat
      BY <1>1, <1>2
    <3> QED
      BY <1>1, <1>7, <3>1 DEF low
  <2>2. c + L = a * W + (lo + L)
    BY <1>1, <1>2
  <2>3. (c + L) % W = lo + L /\ (c + L) \div W = a
    <3>1. lo + L \in Nat
      BY <1>1, <1>2
    <3> QED
      BY <1>1, <1>2, <1>7, <2>2, <3>1, DivMod
  <2>4. ~ (low < lo)
    BY <1>1, <1>2, <2>1
  <2>5. ((c + L) \div W) % W = hi
    BY <2>3 DEF hi
  <2> QED
    BY <1>5, <1>6, <2>1, <2>3, <2>4, <2>5 DEF L
<1>8. CASE ~ (lo + L < W)
  <2> DEFINE r == lo + L - W
  <2>1. r \in Nat /\ r < W /\ r < lo
    BY <1>1, <1>2, <1>8
  <2>2. lo + L = 1 * W + r
    BY <1>1, <1>2
  <2> HIDE DEF r
  <2>3. low = r
    <3>1. (1 * W + r) % W = r
      BY <1>1, <2>1, DivMod
    <3> QED
      BY <2>2, <3>1 DEF low
  <2>4. c + L = (a + 1) * W + r /\ a + 1 \in Nat
    <3>1. (a + 1) * W = a * W + W /\ a * W \in Nat /\ a + 1 \in Nat
      BY <1>1, <1>2
    <3> QED
      BY <1>1, <1>2, <2>1, <2>2, <3>1
  <2>5. (c + L) % W = r /\ (c + L) \div W = a + 1
    BY <1>1, <2>1, <2>4, DivMod
  <2>6. (a + 1) % W = (hi + 1) % W
    <3>1. b * W \in Nat /\ (b * W) % W = 0
      <4>1. (b * W + 0) % W = 0 /\ b * W \in Nat
        BY <1>1, <1>3, DivMod
      <4> QED
        BY <4>1
    <3>2. a + 1 = b * W + (hi + 1) /\ hi + 1 \in Nat
      BY <1>1, <1>3
    <3> QED
      BY <1>1, <3>1, <3>2, ModAdd
  <2> QED
    BY <1>5, <1>6, <2>1, <2>3, <2>5, <2>6 DEF L
<1> QED
  BY <1>7, <1>8

(* init() starts the stream at its first block.                            *)
LEMMA InitStream ==
    ASSUME NEW v \in Variant, NEW first \in Nat
    PROVE  StreamAt(ChaChaInit(v, first), first, 0) /\ ChaChaInit(v, first).v = v
<1> DEFINE c == ChaChaInit(v, first)
           L == v.lanes
<1>1. L \in Nat \ {0} /\ PerRefill(v) \in Nat \ {0}
  BY VariantSizes
<1>2. c = [v |-> v, lane |-> [i \in 1 .. L |-> LaneAt(v, first + (i - 1))],
           buf |-> [i \in 1 .. L |-> 0], used |-> PerRefill(v)]
  BY DEF ChaChaInit, PerRefill
<1>3. \A i \in 1 .. L : LaneAt(v, first + (i - 1)) \in Lane
  <2>1. \A i \in 1 .. L : first + (i - 1) \in Nat
    BY <1>1
  <2> QED
    BY <2>1, LaneAtType
<1>4. c.lane \in [1 .. L -> Lane] /\ c.buf \in [1 .. L -> Nat]
  BY <1>2, <1>3
<1>5. c.lane \in Seq(Lane) /\ c.buf \in Seq(Nat)
  BY <1>1, <1>4, TableIsSeq
<1>6. c \in ChaChaCtx
  BY <1>1, <1>2, <1>5 DEF ChaChaCtx
<1>7. first + L * 0 = first /\ 0 = 0 * PerRefill(v) /\ 0 \in Nat
  BY <1>1
<1>8. LanesAt(c, first) /\ c.v = v
  BY <1>2, <1>4 DEF LanesAt
<1>9. Spent(c, first, 0, 0)
  BY <1>2, <1>7, <1>8 DEF Spent
<1> HIDE DEF c
<1> QED
  BY <1>4, <1>6, <1>7, <1>8, <1>9 DEF StreamAt, c

(* A refill takes its blocks from the lanes and moves them on.             *)
LEMMA RefillBlocks ==
    ASSUME NEW c \in ChaChaCtx, NEW m \in Nat, LanesAt(c, m)
    PROVE  /\ NextBlock(c) \in ChaChaCtx
           /\ NextBlock(c).v = c.v /\ NextBlock(c).used = 0
           /\ BlocksAt(NextBlock(c), m)
           /\ LanesAt(NextBlock(c), m + c.v.lanes)
<1> DEFINE r == NextBlock(c)
           L == c.v.lanes
           buf == [i \in DOMAIN c.lane |-> c.lane[i].hi * WordMod + c.lane[i].lo]
           lane == [i \in DOMAIN c.lane |-> Advance(c.v, c.lane[i])]
<1>1. c.v \in Variant /\ L \in Nat \ {0}
  BY VariantSizes DEF ChaChaCtx
<1>2. DOMAIN c.lane = 1 .. L
  BY DEF LanesAt
<1>3. r = [v |-> c.v, lane |-> lane, buf |-> buf, used |-> 0]
  <2>1. r = [c EXCEPT !.buf = buf, !.lane = lane, !.used = 0]
    BY DEF NextBlock
  <2> HIDE DEF r, buf, lane
  <2> QED
    BY <2>1 DEF ChaChaCtx
<1>4. \A i \in 1 .. L : m + (i - 1) \in Nat
  BY <1>1
<1>5. \A i \in 1 .. L : buf[i] = (m + (i - 1)) % CounterRange(c.v)
  <2> SUFFICES ASSUME NEW i \in 1 .. L PROVE buf[i] = (m + (i - 1)) % CounterRange(c.v)
    OBVIOUS
  <2>1. c.lane[i] = LaneAt(c.v, m + (i - 1))
    BY DEF LanesAt
  <2> QED
    BY <1>1, <1>2, <1>4, <2>1, LaneAtValue
<1>6. \A i \in 1 .. L : lane[i] = LaneAt(c.v, (m + L) + (i - 1))
  <2> SUFFICES ASSUME NEW i \in 1 .. L PROVE lane[i] = LaneAt(c.v, (m + L) + (i - 1))
    OBVIOUS
  <2>1. c.lane[i] = LaneAt(c.v, m + (i - 1))
    BY DEF LanesAt
  <2>2. lane[i] = LaneAt(c.v, (m + (i - 1)) + L)
    BY <1>1, <1>2, <1>4, <2>1, AdvanceCounts
  <2>3. (m + (i - 1)) + L = (m + L) + (i - 1)
    BY <1>1
  <2> QED
    BY <2>2, <2>3
<1>7. buf \in [1 .. L -> Nat]
  <2>1. \A i \in 1 .. L : (m + (i - 1)) % CounterRange(c.v) \in Nat
    BY <1>1, <1>4, VariantSizes, DivModSplit
  <2> QED
    BY <1>2, <1>5, <2>1
<1>8. lane \in [1 .. L -> Lane]
  <2>1. \A i \in 1 .. L : (m + L) + (i - 1) \in Nat
    BY <1>1
  <2> QED
    BY <1>1, <1>2, <1>6, <2>1, LaneAtType
<1> HIDE DEF lane, buf
<1>9. lane \in Seq(Lane) /\ buf \in Seq(Nat)
  BY <1>1, <1>7, <1>8, TableIsSeq
<1>10. r \in ChaChaCtx
  BY <1>1, <1>3, <1>9 DEF ChaChaCtx
<1> QED
  BY <1>3, <1>5, <1>6, <1>7, <1>8, <1>10 DEF BlocksAt, LanesAt

(* A byte is used from a buffer that is not spent.                         *)
LEMMA ReadyStream ==
    ASSUME NEW first \in Nat, NEW p \in Nat, NEW c, StreamAt(c, first, p)
    PROVE  /\ Ready(c) \in ChaChaCtx
           /\ Ready(c).v = c.v
           /\ \E q \in Nat : Filled(Ready(c), first, p, q)
<1> DEFINE R == PerRefill(c.v)
           L == c.v.lanes
<1>1. c \in ChaChaCtx /\ c.v \in Variant /\ c.used \in Nat
  BY DEF StreamAt, ChaChaCtx
<1>2. L \in Nat \ {0} /\ R \in Nat \ {0}
  BY <1>1, VariantSizes
<1>3. PICK q \in Nat : Spent(c, first, p, q) \/ Filled(c, first, p, q)
  BY DEF StreamAt
<1>4. Ready(c) = IF c.used >= R THEN NextBlock(c) ELSE c
  BY DEF Ready, PerRefill
<1>5. CASE Filled(c, first, p, q)
  <2>1. c.used < R
    BY <1>5 DEF Filled
  <2>2. Ready(c) = c
    BY <1>1, <1>2, <1>4, <2>1
  <2> QED
    BY <1>1, <1>5, <2>2
<1>6. CASE Spent(c, first, p, q)
  <2> DEFINE m == first + L * q
  <2>1. c.used = R /\ p = q * R /\ LanesAt(c, m)
    BY <1>6 DEF Spent
  <2>2. Ready(c) = NextBlock(c)
    BY <1>1, <1>2, <1>4, <2>1
  <2>3. m \in Nat /\ m + L = first + L * (q + 1)
    BY <1>2
  <2>4. /\ NextBlock(c) \in ChaChaCtx /\ NextBlock(c).v = c.v /\ NextBlock(c).used = 0
        /\ BlocksAt(NextBlock(c), m) /\ LanesAt(NextBlock(c), m + L)
    BY <1>1, <2>1, <2>3, RefillBlocks
  <2>5. 0 < R /\ q * R + 0 = q * R
    BY <1>2
  <2>6. Filled(NextBlock(c), first, p, q)
    BY <2>1, <2>3, <2>4, <2>5 DEF Filled
  <2> QED
    BY <2>2, <2>4, <2>6
<1> QED
  BY <1>3, <1>5, <1>6

(* One byte of crypt(): the next of the stream.                            *)
LEMMA ByteStream ==
    ASSUME NEW first \in Nat, NEW p \in Nat, NEW done, StreamAt(done.ctx, first, p)
    PROVE  /\ StreamAt(CryptByte(done).ctx, first, p + 1)
           /\ CryptByte(done).ctx.v = done.ctx.v
           /\ CryptByte(done).ks = Append(done.ks, StreamByte(done.ctx.v, first, p))
<1> DEFINE r == Ready(done.ctx)
           v == done.ctx.v
           L == v.lanes
           R == PerRefill(v)
           c == CryptByte(done).ctx
<1>1. r \in ChaChaCtx /\ r.v = v
  BY ReadyStream
<1>2. PICK q \in Nat : Filled(r, first, p, q)
  BY ReadyStream
<1>3. v \in Variant /\ r.used \in Nat
  BY <1>1 DEF ChaChaCtx
<1>4. /\ L \in Nat \ {0} /\ R \in Nat \ {0} /\ StreamBlock \in Nat \ {0} /\ R = L * StreamBlock
      /\ CounterRange(v) \in Nat \ {0}
  BY <1>3, VariantSizes DEF PerRefill
<1>5. c = [r EXCEPT !.used = @ + 1] /\ CryptByte(done).ks = Append(done.ks, KsHead(r))
  BY DEF CryptByte
<1>6. c = [v |-> r.v, lane |-> r.lane, buf |-> r.buf, used |-> r.used + 1]
  BY <1>1, <1>5 DEF ChaChaCtx
<1>7. c \in ChaChaCtx
  <2>1. r.used + 1 \in Nat
    BY <1>3
  <2> QED
    BY <1>1, <1>6, <2>1 DEF ChaChaCtx
<1>8. /\ r.used < R /\ p = q * R + r.used
      /\ LanesAt(r, first + L * (q + 1)) /\ BlocksAt(r, first + L * q)
  BY <1>1, <1>2 DEF Filled
<1>9. /\ c.v = v /\ c.used = r.used + 1 /\ c.buf \in [1 .. L -> Nat]
      /\ LanesAt(c, first + L * (q + 1)) /\ BlocksAt(c, first + L * q)
  BY <1>1, <1>6, <1>8 DEF LanesAt, BlocksAt
<1> HIDE DEF c, r, R, L, v
<1>10. StreamAt(c, first, p + 1)
  <2>1. CASE r.used + 1 < R
    <3>1. p + 1 = q * R + (r.used + 1)
      BY <1>3, <1>4, <1>8
    <3>2. Filled(c, first, p + 1, q)
      BY <1>9, <2>1, <3>1 DEF Filled, L, R
    <3> QED
      BY <1>7, <1>9, <3>2 DEF StreamAt, L
  <2>2. CASE ~ (r.used + 1 < R)
    <3>1. r.used + 1 = R /\ q + 1 \in Nat
      BY <1>3, <1>4, <1>8, <2>2
    <3>2. p + 1 = (q + 1) * R
      <4>1. (q + 1) * R = q * R + R /\ q * R \in Nat
        BY <1>4
      <4> QED
        BY <1>3, <1>4, <1>8, <3>1, <4>1
    <3>3. Spent(c, first, p + 1, q + 1)
      BY <1>9, <3>1, <3>2 DEF Spent, L, R
    <3> QED
      BY <1>7, <1>9, <3>1, <3>3 DEF StreamAt, L
  <2> QED
    BY <2>1, <2>2
<1>11. KsHead(r) = StreamByte(v, first, p)
  <2> DEFINE b == r.used \div StreamBlock
             o == r.used % StreamBlock
  <2>1. /\ b \in Nat /\ o \in Nat /\ o < StreamBlock /\ r.used = b * StreamBlock + o
    BY <1>3, <1>4, DivModSplit
  <2> HIDE DEF b, o
  <2>2. b < L
    <3>1. b * StreamBlock < L * StreamBlock
      <4>1. b * StreamBlock \in Nat /\ L * StreamBlock \in Nat
        BY <1>4, <2>1
      <4> QED
        BY <1>3, <1>4, <1>8, <2>1, <4>1
    <3> QED
      BY <1>4, <2>1, <3>1, MultOrder
  <2>3. p = (q * L + b) * StreamBlock + o /\ q * L + b \in Nat
    <3>1. q * R = (q * L) * StreamBlock /\ q * L \in Nat
      BY <1>4
    <3>2. (q * L + b) * StreamBlock = (q * L) * StreamBlock + b * StreamBlock
      BY <1>4, <2>1, <3>1
    <3>3. (q * L) * StreamBlock \in Nat /\ b * StreamBlock \in Nat
      BY <1>4, <2>1, <3>1
    <3> QED
      BY <1>8, <2>1, <3>1, <3>2, <3>3
  <2>4. p \div StreamBlock = q * L + b /\ p % StreamBlock = o
    BY <1>4, <2>1, <2>3, DivMod
  <2>5. r.buf[1 + b] = (first + L * q + ((1 + b) - 1)) % CounterRange(v)
    <3>1. 1 + b \in 1 .. L
      BY <1>4, <2>1, <2>2
    <3> QED
      BY <1>1, <1>8, <3>1 DEF BlocksAt, L
  <2>6. first + L * q + ((1 + b) - 1) = first + (q * L + b)
    <3>1. L * q = q * L /\ q * L \in Nat
      BY <1>4
    <3> QED
      BY <2>1, <3>1
  <2>7. KsHead(r) = <<r.buf[1 + b], o>>
    BY DEF KsHead, b, o
  <2> QED
    BY <2>4, <2>5, <2>6, <2>7 DEF StreamByte
<1> QED
  BY <1>5, <1>9, <1>10, <1>11 DEF c, r, v

-----------------------------------------------------------------------------
(* The states crypt() goes through in n bytes.                             *)
Run(c, n, f) ==
    f = [k \in 0 .. n |-> IF k = 0 THEN [ctx |-> c, ks |-> <<>>] ELSE CryptByte(f[k - 1])]

(* There is such a run of every length.                                    *)
LEMMA RunExists ==
    ASSUME NEW c
    PROVE  \A n \in Nat : \E f : Run(c, n, f)
<1> DEFINE S == {n \in Nat : \E f : Run(c, n, f)}
           start == [ctx |-> c, ks |-> <<>>]
<1>1. 0 \in S
  <2> DEFINE f == [k \in 0 .. 0 |-> start]
  <2>1. f = [k \in 0 .. 0 |-> IF k = 0 THEN start ELSE CryptByte(f[k - 1])]
    <3>1. \A k \in 0 .. 0 : k = 0
      OBVIOUS
    <3> QED
      BY <3>1
  <2> QED
    BY <2>1 DEF Run
<1>2. ASSUME NEW n \in Nat, n \in S PROVE n + 1 \in S
  <2>1. PICK f : Run(c, n, f)
    BY <1>2
  <2> DEFINE g == [k \in 0 .. n + 1 |-> IF k <= n THEN f[k] ELSE CryptByte(f[n])]
  <2>2. \A k \in 0 .. n : f[k] = IF k = 0 THEN start ELSE CryptByte(f[k - 1])
    BY <2>1 DEF Run
  <2>3. ASSUME NEW k \in 0 .. n + 1
        PROVE  g[k] = IF k = 0 THEN start ELSE CryptByte(g[k - 1])
    <3>1. CASE k = 0
      BY <2>2, <3>1
    <3>2. CASE k \in 1 .. n
      <4>1. g[k] = f[k] /\ g[k - 1] = f[k - 1] /\ k # 0 /\ k \in 0 .. n
        BY <3>2
      <4> QED
        BY <2>2, <4>1
    <3>3. CASE k = n + 1
      <4>1. g[k] = CryptByte(f[n]) /\ g[k - 1] = f[n] /\ k # 0
        BY <3>3
      <4> QED
        BY <4>1
    <3> QED
      BY <3>1, <3>2, <3>3
  <2>4. g = [k \in 0 .. n + 1 |-> IF k = 0 THEN start ELSE CryptByte(g[k - 1])]
    <3>1. g = [k \in 0 .. n + 1 |-> g[k]]
      OBVIOUS
    <3> HIDE DEF g
    <3> QED
      BY <2>3, <3>1
  <2>5. Run(c, n + 1, g)
    BY <2>4 DEF Run
  <2> QED
    BY <2>5
<1> HIDE DEF S
<1>3. \A n \in Nat : n \in S
  BY <1>1, <1>2, SetInduction
<1> QED
  BY <1>3 DEF S

(* crypt() ends a run.                                                     *)
LEMMA CryptRun ==
    ASSUME NEW c, NEW n \in Nat
    PROVE  \E f : Run(c, n, f) /\ Crypt(c, n) = f[n]
<1> DEFINE f == CHOOSE g : g = [k \in 0 .. n |-> IF k = 0 THEN [ctx |-> c, ks |-> <<>>]
                                                 ELSE CryptByte(g[k - 1])]
<1>1. Run(c, n, f)
  BY RunExists DEF Run
<1>2. Crypt(c, n) = f[n]
  BY DEF Crypt
<1> QED
  BY <1>1, <1>2

(* crypt() on n bytes, p bytes into a stream, gives the next n bytes of it *)
(* and leaves the context p + n bytes into it.                             *)
THEOREM CryptStream ==
    ASSUME NEW first \in Nat, NEW p \in Nat, NEW c, StreamAt(c, first, p), NEW n \in Nat
    PROVE  /\ StreamAt(Crypt(c, n).ctx, first, p + n)
           /\ Crypt(c, n).ctx.v = c.v
           /\ Crypt(c, n).ks = Stream(c.v, first, p, n)
<1> DEFINE Upto(k) == [i \in 1 .. k |-> StreamByte(c.v, first, p + (i - 1))]
           Good(k, d) == StreamAt(d.ctx, first, p + k) /\ d.ctx.v = c.v /\ d.ks = Upto(k)
<1>1. PICK f : Run(c, n, f) /\ Crypt(c, n) = f[n]
  BY CryptRun
<1> DEFINE S == {k \in Nat : k <= n => Good(k, f[k])}
<1>2. 0 \in S
  <2>1. f[0] = [ctx |-> c, ks |-> <<>>]
    BY <1>1 DEF Run
  <2>2. p + 0 = p /\ Upto(0) = <<>>
    OBVIOUS
  <2> QED
    BY <2>1, <2>2
<1>3. ASSUME NEW k \in Nat, k \in S PROVE k + 1 \in S
  <2> SUFFICES ASSUME k + 1 <= n PROVE Good(k + 1, f[k + 1])
    OBVIOUS
  <2>1. f[k + 1] = CryptByte(f[k])
    BY <1>1 DEF Run
  <2>2. Good(k, f[k])
    BY <1>3
  <2>3. /\ StreamAt(f[k + 1].ctx, first, (p + k) + 1)
        /\ f[k + 1].ctx.v = c.v
        /\ f[k + 1].ks = Append(Upto(k), StreamByte(c.v, first, p + k))
    <3> DEFINE d == f[k]
    <3>1. p + k \in Nat /\ StreamAt(d.ctx, first, p + k)
      BY <2>2
    <3>2. /\ StreamAt(CryptByte(d).ctx, first, (p + k) + 1)
          /\ CryptByte(d).ctx.v = d.ctx.v
          /\ CryptByte(d).ks = Append(d.ks, StreamByte(d.ctx.v, first, p + k))
      <4> HIDE DEF d
      <4> QED
        BY <3>1, ByteStream
    <3> QED
      BY <2>1, <2>2, <3>2
  <2>4. (p + k) + 1 = p + (k + 1)
    OBVIOUS
  <2>5. Append(Upto(k), StreamByte(c.v, first, p + k)) = Upto(k + 1)
    OBVIOUS
  <2> QED
    BY <2>3, <2>4, <2>5
<1> HIDE DEF S
<1>4. n \in S
  BY <1>2, <1>3, SetInduction
<1> QED
  BY <1>1, <1>4 DEF S, Stream
=============================================================================
