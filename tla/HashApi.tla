------------------------------ MODULE HashApi -------------------------------
(***************************************************************************)
(* src/src/hash.c: one hash context, used through the generic layer (or,   *)
(* for SHAKE, through sha.h), over the contexts of MdStream and Sponge.    *)
(***************************************************************************)
EXTENDS MdStream, Sponge

CONSTANTS Algs,     \* the algorithms compiled in
          MaxMsg,   \* bound: bytes fed to one context
          MaxOut    \* bound: bytes squeezed from one context

ASSUME AlgsAssumption ==
    /\ Algs \subseteq Alg
    /\ \A a \in Algs : /\ a.kind = "md" => a.lenField < a.block
                       /\ a.kind # "md" => a.hashLen <= a.block
ASSUME BoundsAssumption == MaxMsg \in Nat /\ MaxOut \in Nat

VARIABLES alg,      \* ctx->ops
          ctx,      \* ctx->inner_state, as the algorithm's own structure
          stage, fed, out, result   \* the caller's side, as in HashMsg

vars == <<alg, ctx, stage, fed, out, result>>

(* The promise, over this module's variables.                              *)
Msg == INSTANCE HashMsg WITH
    source <- IF stage = "squeezing" THEN ctx.state.in ELSE <<>>

IsMd(a) == a.kind = "md"

InitCtx(a)           == IF IsMd(a) THEN MdInit(a) ELSE SpongeInit(a)
UpdateCtx(a, c, d)   == IF IsMd(a) THEN MdUpdate(a, c, d) ELSE Absorb(a, c, d)
FinalCtx(a, c)       == IF IsMd(a) THEN MdFinal(a, c) ELSE Finalize(a, c)
OutOf(a, c)          == IF IsMd(a) THEN MdOut(a, c) ELSE SpongeOut(a, c)

(* A call has fewer than 2^61 bytes (sha512.c drops the bits above), and   *)
(* a message no more than its algorithm's length field can say.            *)
CallFits(a, total, n) ==
    /\ 8 * n < WordMod
    /\ IsMd(a) => 8 * total < (IF a.words = 1 THEN WordMod ELSE WordMod * WordMod)

-----------------------------------------------------------------------------
Init ==
    /\ alg \in Algs /\ ctx = InitCtx(alg)
    /\ stage = "none" /\ fed = 0 /\ out = <<>> /\ result = NoResult

HashInit(a) ==
    /\ alg' = a
    /\ ctx' = InitCtx(a)
    /\ stage' = "open" /\ fed' = 0 /\ out' = <<>> /\ result' = NoResult

HashUpdate(n) ==
    /\ stage = "open"
    /\ CallFits(alg, fed + n, n)
    /\ ctx' = UpdateCtx(alg, ctx, [i \in 1 .. n |-> MsgByte(fed + i)])
    /\ fed' = fed + n
    /\ UNCHANGED <<alg, stage, out, result>>

(* The out_len convention of hash.h: the size is reported, nothing else.   *)
TooSmall(a) == [rc |-> "BUFFER_TOO_SMALL", of |-> <<>>, at |-> <<a.hashLen>>]

HashFinal(room) ==
    /\ stage = "open" /\ alg.kind # "shake"
    /\ IF room < alg.hashLen
       THEN UNCHANGED <<ctx, stage>> /\ result' = TooSmall(alg)
       ELSE /\ ctx' = FinalCtx(alg, ctx)
            /\ stage' = "closed"
            /\ result' = OutOf(alg, ctx')
    /\ UNCHANGED <<alg, fed, out>>

(* sdc_hash_once works on a context of its own.                            *)
HashOnce(a, n, room) ==
    /\ a.kind # "shake" /\ CallFits(a, n, n)
    /\ result' = IF room < a.hashLen THEN TooSmall(a)
                 ELSE OutOf(a, FinalCtx(a, UpdateCtx(a, InitCtx(a), MsgOf(n))))
    /\ UNCHANGED <<alg, ctx, stage, fed, out>>

ShakeFinal ==
    /\ stage = "open" /\ alg.kind = "shake"
    /\ ctx' = Finalize(alg, ctx)
    /\ stage' = "squeezing"
    /\ UNCHANGED <<alg, fed, out, result>>

ShakeSqueeze(n) ==
    /\ stage = "squeezing"
    /\ LET s == Squeeze(alg, ctx, n) IN ctx' = s.ctx /\ out' = out \o s.out
    /\ UNCHANGED <<alg, stage, fed, result>>

Next ==
    \/ \E a \in Algs : HashInit(a)
    \/ \E n \in 0 .. MaxMsg - fed : HashUpdate(n)
    \/ \E room \in {alg.hashLen - 1, alg.hashLen} : HashFinal(room)
    \/ \E a \in Algs, n \in 0 .. MaxMsg : \E room \in {a.hashLen - 1, a.hashLen} :
           HashOnce(a, n, room)
    \/ ShakeFinal
    \/ \E n \in 0 .. MaxOut - Len(out) : ShakeSqueeze(n)

Spec == Init /\ [][Next]_vars

-----------------------------------------------------------------------------
(* Types of every variable.                                                *)
TypeOK ==
    /\ alg \in Algs
    /\ ctx \in (IF IsMd(alg) THEN MdCtx(alg) ELSE SpongeCtx(alg))
    /\ stage \in {"none", "open", "squeezing", "closed"}
    /\ fed \in 0 .. MaxMsg
    /\ out \in Seq(Nat \X Nat)
    /\ result.rc \in {"none", "OK", "BUFFER_TOO_SMALL"}

(* Between two calls on an "md" context the bytes compressed and the bytes *)
(* buffered are, in this order, the bytes fed; the buffer is never full;   *)
(* the compressed ones are whole blocks; and the bit count, carried over   *)
(* two words in sha512.c, is eight times their number.                     *)
Positions ==
    (stage = "open" /\ IsMd(alg)) =>
        /\ ctx.len < alg.block
        /\ Len(ctx.state) % alg.block = 0
        /\ ctx.state \o SubSeq(ctx.buffer, 1, ctx.len) = MsgOf(fed)
        /\ ctx.count = BitCount(alg, fed)

(* However a message is cut into update calls and an output into squeezes, *)
(* the digests, the SHAKE streams and the error returns are those of       *)
(* HashMsg: the hash of the concatenation.                                 *)
ImplementsHash == Msg!AbsSpec
=============================================================================
