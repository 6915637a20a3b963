-------------------------------- MODULE Aead --------------------------------
(***************************************************************************)
(* src/src/aead/aead.c: the context of (X)ChaCha20-Poly1305, composed of   *)
(* a keystream context and a one-time MAC context.  The two families in    *)
(* aead.c differ only in the keystream variant they drive.                 *)
(*                                                                         *)
(* A receiver authenticates the whole ciphertext first and then presents   *)
(* the same bytes for decryption.  It calls auth_final once per message:   *)
(* auth_final wipes the MAC context.                                       *)
(***************************************************************************)
EXTENDS AeadMsg

-----------------------------------------------------------------------------
(* src/src/aead/poly1305_32.c and poly1305_64.c: the one-time MAC context. *)
PolyCtx == [key  : Seq(KsByte),     \* r and pad: the keystream bytes they come from
            h    : Seq(Byte),       \* absorbed so far
            buf  : Seq(Byte)]       \* buffer[0 .. leftover - 1]

PolyInit(key) == [key |-> key, h |-> <<>>, buf |-> <<>>]

OneByte == [src |-> "one", at |-> <<>>, ks |-> {}]

(* Top up a started block; give up if it stays short; then whole blocks,   *)
(* and the rest starts the next block.                                     *)
PolyUpdate(poly, in) ==
    LET want == IF poly.buf = <<>> THEN 0 ELSE BlockSize - Len(poly.buf)
        head == poly.buf \o SubSeq(in, 1, want)
        rest == SubSeq(in, want + 1, Len(in))
        full == WholeBlocks(Len(rest))
    IN  IF Len(in) < want
        THEN [poly EXCEPT !.buf = @ \o in]
        ELSE [poly EXCEPT !.h   = @ \o head \o SubSeq(rest, 1, full),
                          !.buf = SubSeq(rest, full + 1, Len(rest))]

(* A short last block is marked with a 1 byte and zero-filled.             *)
PolyMac(poly) ==
    LET last == IF poly.buf = <<>> THEN <<>>
                ELSE poly.buf \o <<OneByte>> \o Zeros(BlockSize - Len(poly.buf) - 1)
    IN  [key |-> poly.key, mac |-> poly.h \o last]

(* final() wipes the context.                                              *)
PolyWiped == PolyInit(<<>>)

-----------------------------------------------------------------------------
(* The context of aead.h.                                                  *)
VARIABLES chacha, poly,     \* ctx->chacha, ctx->poly
          ctx               \* the other fields of sdc_chacha20poly1305_ctx

vars == <<chacha, poly, ctx, stage, job, aad, seen, out, verdict>>

AeadCtx == [aad_len : Nat, total_len : Nat, verified : {0, 1}]

Wiped(v) ==
    /\ chacha' = [ChaChaInit(v, 0) EXCEPT !.lane = [i \in 1 .. v.lanes |-> [lo |-> 0, hi |-> 0]],
                                          !.used = 0]
    /\ poly' = PolyWiped
    /\ ctx' = [aad_len |-> 0, total_len |-> 0, verified |-> 0]

-----------------------------------------------------------------------------
(* Mutant of Pad16: whole blocks are padded too.                           *)
PadAlways(p, len) == PolyUpdate(p, Zeros(BlockSize - (len % BlockSize)))

(* poly1305_pad16.                                                         *)
Pad16(p, len) ==
    LET rem == len % BlockSize IN
    IF rem # 0 THEN PolyUpdate(p, Zeros(BlockSize - rem)) ELSE p

(* The tail of encrypt_final and auth_final.                               *)
MacOf(p) == PolyMac(PolyUpdate(Pad16(p, ctx.total_len), LenBlock(ctx.aad_len, ctx.total_len)))

XorAll(in, ks) == [i \in 1 .. Len(in) |-> Xor(in[i], ks[i])]

NextIn(from, n) == [i \in 1 .. n |-> InByte(job, from + i)]

-----------------------------------------------------------------------------
Init ==
    /\ AbsInit
    /\ chacha = ChaChaInit(job.v, 0)
    /\ poly = PolyWiped
    /\ ctx = [aad_len |-> 0, total_len |-> 0, verified |-> 0]

(* The one-time key is cut from block 0 with a context that is then        *)
(* started again at counter 1.                                             *)
AeadInit(j, n) ==
    /\ LET block0 == Crypt(ChaChaInit(j.v, 0), StreamBlock).ks
           keyed  == PolyInit(SubSeq(block0, 1, 2 * BlockSize))
           fed    == IF n > 0 THEN PolyUpdate(keyed, AadOf(n)) ELSE keyed
       IN  poly' = Pad16(fed, n)
    /\ chacha' = ChaChaInit(j.v, 1)
    /\ ctx' = [aad_len |-> n, total_len |-> 0, verified |-> 0]
    /\ stage' = "open" /\ job' = j /\ aad' = n /\ seen' = 0
    /\ out' = <<>> /\ verdict' = NoVerdict

EncryptUpdate(n) ==
    /\ stage = "open" /\ job.mode = "enc" /\ n > 0
    /\ LET spent == Crypt(chacha, n)
           new   == XorAll(NextIn(Len(out), n), spent.ks)
       IN  /\ chacha' = spent.ctx
           /\ out' = out \o new
           /\ poly' = PolyUpdate(poly, new)
    /\ ctx' = [ctx EXCEPT !.total_len = @ + n]
    /\ UNCHANGED <<stage, job, aad, seen, verdict>>

EncryptFinal ==
    /\ stage = "open" /\ job.mode = "enc"
    /\ verdict' = Sealed(MacOf(poly))
    /\ stage' = "closed"
    /\ Wiped(job.v)
    /\ UNCHANGED <<job, aad, seen, out>>

AuthUpdate(n) ==
    /\ stage = "open" /\ job.mode = "dec" /\ n > 0
    /\ poly' = PolyUpdate(poly, NextIn(seen, n))
    /\ ctx' = [ctx EXCEPT !.total_len = @ + n]
    /\ seen' = seen + n
    /\ UNCHANGED <<chacha, stage, job, aad, out, verdict>>

SentTag(sentAad, sentMsg) == TagOf(AadOf(sentAad), SentOf(sentMsg))

AuthFinal(sentAad, sentMsg) ==
    /\ stage = "open" /\ job.mode = "dec"
    /\ LET good == MacOf(poly) = SentTag(sentAad, sentMsg) IN
       /\ ctx' = [ctx EXCEPT !.verified = IF good THEN 1 ELSE 0]
       /\ verdict' = Checked(good, sentAad, sentMsg)
    /\ poly' = PolyWiped
    /\ stage' = "checked"
    /\ UNCHANGED <<chacha, job, aad, seen, out>>

(* Mutant of DecryptUpdate: the verified flag is not consulted.            *)
DecryptUnchecked(n) ==
    /\ job.mode = "dec" /\ n > 0
    /\ LET spent == Crypt(chacha, n) IN
       /\ chacha' = spent.ctx
       /\ out' = out \o XorAll(NextIn(Len(out), n), spent.ks)
    /\ UNCHANGED <<poly, ctx, stage, job, aad, seen, verdict>>

(* The caller may try this at any time.                                    *)
DecryptUpdate(n) ==
    /\ job.mode = "dec"
    /\ IF ctx.verified = 0 \/ n = 0
       THEN UNCHANGED <<chacha, out>>
       ELSE LET spent == Crypt(chacha, n) IN
            /\ chacha' = spent.ctx
            /\ out' = out \o XorAll(NextIn(Len(out), n), spent.ks)
    /\ UNCHANGED <<poly, ctx, stage, job, aad, seen, verdict>>

DecryptFinal ==
    /\ job.mode = "dec" /\ stage \in {"open", "checked"}
    /\ stage' = "closed"
    /\ Wiped(job.v)
    /\ UNCHANGED <<job, aad, seen, out, verdict>>

Next ==
    \/ \E j \in Job, n \in 0 .. MaxAad : AeadInit(j, n)
    \/ \E n \in 1 .. MsgLimit(job) - Len(out) : EncryptUpdate(n)
    \/ EncryptFinal
    \/ \E n \in 1 .. MsgLimit(job) - seen : AuthUpdate(n)
    \/ \E a \in Near(aad, MaxAad), m \in Near(seen, MaxMsg) : AuthFinal(a, m)
    \/ \E n \in 0 .. seen - Len(out) : DecryptUpdate(n)
    \/ DecryptFinal

Spec == Init /\ [][Next]_vars

-----------------------------------------------------------------------------
(* Types of every variable.                                                *)
TypeOK ==
    /\ chacha \in ChaChaCtx
    /\ poly \in PolyCtx
    /\ ctx \in AeadCtx
    /\ stage \in {"none", "open", "checked", "closed"}
    /\ job \in Job
    /\ aad \in 0 .. MaxAad
    /\ seen \in 0 .. MaxMsg
    /\ out \in Seq(Byte)
    /\ verdict.rc \in {"none", "tag", "OK", "VERIFY_FAIL"}

(* Until the context is wiped, every lane of the keystream counts the      *)
(* blocks from the message's first (block 1), over the carry into the high *)
(* word, and the bytes made are the bytes spent and those still buffered;  *)
(* the MAC holds back exactly what exceeds whole blocks of the message.    *)
Positions ==
    stage \in {"open", "checked"} =>
        LET perRefill == chacha.v.lanes * StreamBlock
            made      == Len(out) + (perRefill - chacha.used)
        IN  /\ chacha.used <= perRefill /\ made % perRefill = 0
            /\ \A i \in 1 .. chacha.v.lanes :
                  chacha.lane[i] =
                      LaneAt(chacha.v, 1 + (i - 1) + chacha.v.lanes * (made \div perRefill))
            /\ stage = "open" => Len(poly.buf) = ctx.total_len % BlockSize
            /\ ctx.total_len = IF job.mode = "enc" THEN Len(out) ELSE seen

(* No keystream byte masks two bytes of a message, and none comes from     *)
(* block 0, which keys the MAC.                                            *)
KeystreamFresh ==
    job.mode = "enc" =>
        /\ \A j \in 1 .. Len(out) : \A i \in 1 .. j - 1 : out[i].ks \cap out[j].ks = {}
        /\ \A i \in 1 .. Len(out) : \A k \in out[i].ks : k[1] # 0

(* What a receiver is given in clear is what the sender encrypted, and it  *)
(* is given nothing before auth_final said SDC_ERR_OK.                     *)
DecryptedIsSent ==
    job.mode = "dec" /\ out # <<>> =>
        /\ verdict.rc = "OK"
        /\ out = [i \in 1 .. Len(out) |-> PlainByte(i)]

(* However a message is split into calls, aead.c gives what RFC 8439 gives *)
(* in one call.                                                            *)
ImplementsMsg == AbsSpec
=============================================================================
