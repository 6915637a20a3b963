------------------------------- MODULE ChaCha -------------------------------
(***************************************************************************)
(* src/src/aead/chacha20.c, xchacha20.c and chacha20raw.c: the keystream   *)
(* contexts.  A NEON build makes five blocks per refill (four vector lanes *)
(* and a scalar one, each with its own counter), a plain build makes one.  *)
(* XChaCha20 and the raw variant keep a 64-bit counter in two words, the   *)
(* IETF variant a 32-bit one whose neighbour word belongs to the nonce.    *)
(***************************************************************************)
EXTENDS Bytes

CONSTANTS WordMod,      \* 2^32 in the code
          StreamBlock   \* 64 in the code: bytes of a keystream block

ASSUME ChaChaAssumption ==
    /\ WordMod \in Nat /\ WordMod > 5
    /\ StreamBlock \in Nat \ {0}

(* wide: a 64-bit counter; lanes: blocks per refill.                       *)
Variant == [wide : BOOLEAN, lanes : {1, 5}]

(* chacha20raw.c, which the generator draws from: 64 bits of counter.      *)
WideVariants == {v \in Variant : v.wide}

CounterRange(v) == IF v.wide THEN WordMod * WordMod ELSE WordMod

Word == 0 .. WordMod - 1
Lane == [lo : Word, hi : Word]              \* state[12] and, when wide, state[13]

ChaChaCtx == [v    : Variant,
              lane : Seq(Lane),             \* the next refill's counters
              buf  : Seq(Nat),              \* counters of the blocks in buf
              used : Nat]                   \* buf_used

-----------------------------------------------------------------------------
LaneAt(v, c) == [lo |-> c % WordMod,
                 hi |-> IF v.wide THEN (c \div WordMod) % WordMod ELSE 0]

(* Mutant of ChaChaInit: every lane starts at the same counter.            *)
ChaChaInitSame(v, counter) ==
    [v    |-> v,
     lane |-> [i \in 1 .. v.lanes |-> LaneAt(v, counter)],
     buf  |-> [i \in 1 .. v.lanes |-> 0],
     used |-> v.lanes * StreamBlock]

(* buf_used is set so that the first byte forces a refill.                 *)
ChaChaInit(v, counter) ==
    [v    |-> v,
     lane |-> [i \in 1 .. v.lanes |-> LaneAt(v, counter + (i - 1))],
     buf  |-> [i \in 1 .. v.lanes |-> 0],
     used |-> v.lanes * StreamBlock]

(* Mutants of Advance: no wrap of the low word; the scalar build's carry   *)
(* test (the low word became 0) on lanes that step by five.                *)
AdvanceNoWrap(v, l) == [lo |-> l.lo + v.lanes, hi |-> l.hi]

AdvanceZeroTest(v, l) ==
    LET low == (l.lo + v.lanes) % WordMod IN
    [lo |-> low, hi |-> IF v.wide /\ low = 0 THEN (l.hi + 1) % WordMod ELSE l.hi]

(* Advance one lane; the carry is seen by the low word getting smaller.    *)
Advance(v, l) ==
    LET low == (l.lo + v.lanes) % WordMod IN
    [lo |-> low,
     hi |-> IF v.wide /\ low < l.lo THEN (l.hi + 1) % WordMod ELSE l.hi]

NextBlock(c) ==
    [c EXCEPT !.buf  = [i \in DOMAIN c.lane |-> c.lane[i].hi * WordMod + c.lane[i].lo],
              !.lane = [i \in DOMAIN c.lane |-> Advance(c.v, c.lane[i])],
              !.used = 0]

(* Refill when the buffer is spent, then use one byte of it.               *)
Ready(c) == IF c.used >= c.v.lanes * StreamBlock THEN NextBlock(c) ELSE c

KsHead(c) == <<c.buf[1 + (c.used \div StreamBlock)], c.used % StreamBlock>>

(* One byte of crypt(): the context it leaves and the keystream byte spent. *)
CryptByte(done) ==
    LET r == Ready(done.ctx) IN
    [ctx |-> [r EXCEPT !.used = @ + 1], ks |-> Append(done.ks, KsHead(r))]

(* crypt() on n bytes: the context it leaves and the keystream bytes spent. *)
Crypt(ctx, n) ==
    LET after[k \in 0 .. n] ==
            IF k = 0 THEN [ctx |-> ctx, ks |-> <<>>] ELSE CryptByte(after[k - 1])
    IN  after[n]
=============================================================================
