------------------------------ MODULE MdStream ------------------------------
(***************************************************************************)
(* The Merkle-Damgard contexts: src/src/sha/sha256.c (SHA-224, SHA-256),   *)
(* sha512.c (SHA-384, SHA-512) and sm3/sm3.c, which differ in the block,   *)
(* the width of the bit count and the spelling of the padding test.        *)
(***************************************************************************)
EXTENDS HashData

MdCtx(alg) == [state  : Seq(Byte),      \* bytes compressed so far
               buffer : [1 .. alg.block -> Byte],
               len    : 0 .. alg.block - 1,     \* buffered bytes
               count  : Nat \X Nat]     \* bits so far, low word first

(* The buffer keeps what was in the caller's memory.                       *)
MdInit(alg) == [state  |-> <<>>,
                buffer |-> [i \in 1 .. alg.block |-> Stale],
                len    |-> 0,
                count  |-> <<0, 0>>]

(* memcpy(buf + at, data, Len(data))                                       *)
CopyInto(buf, at, data) ==
    [i \in DOMAIN buf |-> IF i > at /\ i <= at + Len(data) THEN data[i - at] ELSE buf[i]]

(* memset(buf + from, 0, to - from)                                        *)
ZeroFill(buf, from, to) ==
    [i \in DOMAIN buf |-> IF i > from /\ i <= to THEN Zero ELSE buf[i]]

Transform(ctx, block) == [ctx EXCEPT !.state = @ \o block]

-----------------------------------------------------------------------------
(* Mutant of CountAfter: an unchanged low word is taken for a carry.       *)
CountAfterEqual(alg, count, n) ==
    LET bits == (8 * n) % WordMod
        low  == (count[1] + bits) % WordMod
    IN  <<low, IF alg.words = 2 /\ low <= bits THEN (count[2] + 1) % WordMod ELSE count[2]>>

CountAfter(alg, count, n) ==
    LET bits == (8 * n) % WordMod
        low  == (count[1] + bits) % WordMod
    IN  <<low, IF alg.words = 2 /\ low < bits THEN (count[2] + 1) % WordMod ELSE count[2]>>

(* Mutant of MdTopUp: the completed block stays in the buffer.             *)
MdTopUpNoReset(alg, ctx, data) ==
    LET room   == alg.block - ctx.len
        want   == IF ctx.len = 0 THEN 0 ELSE IF room > Len(data) THEN Len(data) ELSE room
        filled == [ctx EXCEPT !.buffer = CopyInto(@, ctx.len, SubSeq(data, 1, want)),
                              !.len    = @ + want]
    IN  [ctx  |-> IF filled.len = alg.block THEN Transform(filled, filled.buffer) ELSE filled,
         rest |-> SubSeq(data, want + 1, Len(data))]

(* Fill up a started block before anything else.                           *)
MdTopUp(alg, ctx, data) ==
    LET room   == alg.block - ctx.len
        want   == IF ctx.len = 0 THEN 0 ELSE IF room > Len(data) THEN Len(data) ELSE room
        filled == [ctx EXCEPT !.buffer = CopyInto(@, ctx.len, SubSeq(data, 1, want)),
                              !.len    = @ + want]
    IN  [ctx  |-> IF filled.len = alg.block
                  THEN [Transform(filled, filled.buffer) EXCEPT !.len = 0]
                  ELSE filled,
         rest |-> SubSeq(data, want + 1, Len(data))]

(* The whole blocks come from the caller's buffer; the rest is kept.       *)
MdBlocks(alg, ctx, data) ==
    LET full == (Len(data) \div alg.block) * alg.block
        rest == SubSeq(data, full + 1, Len(data))
        done == Transform(ctx, SubSeq(data, 1, full))
    IN  IF rest = <<>> THEN done
        ELSE [done EXCEPT !.buffer = CopyInto(@, 0, rest), !.len = Len(rest)]

MdUpdate(alg, ctx, data) ==
    LET topped == MdTopUp(alg, [ctx EXCEPT !.count = CountAfter(alg, @, Len(data))], data)
    IN  MdBlocks(alg, topped.ctx, topped.rest)

-----------------------------------------------------------------------------
(* Mutant of Spills: a length field that just does not fit is not seen.    *)
SpillsLate(alg, len) == len > alg.block - alg.lenField

(* No room for the length field: 55 of 64 and 111 of 128; SM3 tests the    *)
(* index after the marker against 56.                                      *)
Spills(alg, len) ==
    IF alg.name = "sm3" THEN len + 1 > alg.block - alg.lenField
    ELSE len > alg.block - alg.lenField - 1

MdFinal(alg, ctx) ==
    LET marked == CopyInto(ctx.buffer, ctx.len, <<XorMark(Zero, 128)>>)
        spill  == Spills(alg, ctx.len)
        first  == IF spill THEN Transform(ctx, ZeroFill(marked, ctx.len + 1, alg.block)) ELSE ctx
        i      == IF spill THEN 0 ELSE ctx.len + 1
        last   == CopyInto(ZeroFill(marked, i, alg.block - alg.lenField),
                           alg.block - alg.lenField, LenField(alg, ctx.count))
    IN  [Transform(first, last) EXCEPT !.buffer = last]

MdOut(alg, ctx) == Digest(ctx.state, OutputOf(alg, alg.hashLen))
=============================================================================
