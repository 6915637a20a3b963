------------------------------- MODULE Sponge -------------------------------
(***************************************************************************)
(* The Keccak context of src/src/sha/sha3.c: one buffer holds the bytes to *)
(* be absorbed and, after the padding, the bytes to be given out.          *)
(***************************************************************************)
EXTENDS HashData

SpongeCtx(alg) == [state   : [in : Seq(Byte), perms : Nat],
                   buffer  : [1 .. alg.block -> Byte],
                   buf_len : 0 .. alg.block]

(* memset(ctx, 0, ...): unlike the md contexts, the buffer is cleared.     *)
SpongeInit(alg) == [state   |-> [in |-> <<>>, perms |-> 0],
                    buffer  |-> Zeros(alg.block),
                    buf_len |-> 0]

(* The permuted state written out over the buffer.                         *)
Squeezed(alg, perms) ==
    [i \in 1 .. alg.block |-> [src |-> "squeezed", at |-> <<perms, i>>]]

(* One iteration of keccak_absorb on what is left of data.                 *)
AbsorbChunk(alg, ctx, data) ==
    LET room  == alg.block - ctx.buf_len
        chunk == IF room > Len(data) THEN Len(data) ELSE room
        buf   == [i \in 1 .. alg.block |->
                     IF i > ctx.buf_len /\ i <= ctx.buf_len + chunk
                     THEN data[i - ctx.buf_len] ELSE ctx.buffer[i]]
        full  == ctx.buf_len + chunk = alg.block
    IN  [ctx  |-> [ctx EXCEPT !.buffer   = buf,
                              !.state.in = IF full THEN @ \o buf ELSE @,
                              !.buf_len  = IF full THEN 0 ELSE @ + chunk],
         rest |-> SubSeq(data, chunk + 1, Len(data))]

(* keccak_absorb: an iteration takes a byte at least.                      *)
Absorb(alg, ctx, data) ==
    LET after[k \in 0 .. Len(data)] ==      \* after k iterations
            IF k = 0 THEN [ctx |-> ctx, rest |-> data]
            ELSE LET before == after[k - 1] IN
                 IF before.rest = <<>> THEN before
                 ELSE AbsorbChunk(alg, before.ctx, before.rest)
    IN  after[Len(data)].ctx

(* keccak_finalize                                                         *)
Finalize(alg, ctx) ==
    LET cleared == [i \in 1 .. alg.block |-> IF i > ctx.buf_len THEN Zero ELSE ctx.buffer[i]]
        padded  == [[cleared EXCEPT ![ctx.buf_len + 1] = XorMark(@, alg.pad)]
                       EXCEPT ![alg.block] = XorMark(@, 128)]
    IN  [state   |-> [in |-> ctx.state.in \o padded, perms |-> 0],
         buffer  |-> Squeezed(alg, 0),
         buf_len |-> 0]

-----------------------------------------------------------------------------
Refill(alg, ctx) ==
    IF ctx.buf_len = alg.block
    THEN [ctx EXCEPT !.state.perms = @ + 1, !.buffer = Squeezed(alg, ctx.state.perms + 1),
                     !.buf_len = 0]
    ELSE ctx

(* One iteration of keccak_squeeze for n more bytes.                       *)
SqueezeChunk(alg, ctx, n) ==
    LET c     == Refill(alg, ctx)
        room  == alg.block - c.buf_len
        chunk == IF room > n THEN n ELSE room
    IN  [ctx |-> [c EXCEPT !.buf_len = @ + chunk],
         out |-> [j \in 1 .. chunk |-> c.buffer[c.buf_len + j].at]]

(* keccak_squeeze                                                          *)
Squeeze(alg, ctx, n) ==
    LET after[k \in 0 .. n] ==
            IF k = 0 THEN [ctx |-> ctx, out |-> <<>>]
            ELSE LET before == after[k - 1]
                     step   == SqueezeChunk(alg, before.ctx, n - Len(before.out))
                 IN  IF Len(before.out) = n THEN before
                     ELSE [ctx |-> step.ctx, out |-> before.out \o step.out]
    IN  after[n]

(* memcpy(out, ctx->buffer, hash_len) after the padding                    *)
SpongeOut(alg, ctx) ==
    Digest(ctx.state.in, [j \in 1 .. alg.hashLen |-> ctx.buffer[j].at])
=============================================================================
