-------------------------------- MODULE Gcm ---------------------------------
(***************************************************************************)
(* src/src/gcm/gcm.c: the incremental GCM context over a GHASH context.    *)
(*                                                                         *)
(* A caller opens a context, feeds AAD and message in calls of any size    *)
(* and closes it; the loop inside an update call is modelled iteration by  *)
(* iteration, with todo the bytes the call has left, and no other call can *)
(* start before the loop ends.                                             *)
(***************************************************************************)
EXTENDS GcmData

CONSTANTS Backends,     \* the backends the CPU at hand may give
          BulkBlocks,   \* 4 in the code: blocks per enc_blocks call
          AnyAadSplit   \* may a caller split the AAD at any byte?

ASSUME CallerAssumption ==
    /\ BulkBlocks \in Nat \ {0}
    /\ AnyAadSplit \in BOOLEAN
    /\ Backends \subseteq Backend

VARIABLES backend,  \* g_vt of ghash.c
          gh,       \* ctx->gh
          ctx,      \* the other fields of sdc_gcm_ctx that change
          stage, job, out, verdict,   \* the caller's side, as in GcmMsg
          todo      \* bytes left in the running update call

vars == <<backend, gh, ctx, stage, job, out, verdict, todo>>

(* The message-level promise, over this module's variables.                *)
Msg == INSTANCE GcmMsg WITH aad <- ctx.aad_len, sealed <- (ctx.phase = 1)

GcmCtx == [ctr     : Nat,     \* low 32 bits of the counter block
           ks      : Nat,     \* counter of the block in ks[16]
           ks_pos  : Nat,     \* bytes left in ks
           aad_len : Nat,
           msg_len : Nat,
           phase   : {0, 1}]

FreshCtx == [ctr |-> J0, ks |-> 0, ks_pos |-> 0,
             aad_len |-> 0, msg_len |-> 0, phase |-> 0]

-----------------------------------------------------------------------------
Init ==
    /\ backend \in Backends
    /\ gh = GhInit /\ ctx = FreshCtx
    /\ stage = "none" /\ out = <<>> /\ verdict = NoVerdict /\ todo = 0
    /\ job \in Job

(* A memcpy past the end of an array: the C standard says nothing of what  *)
(* follows, and the behaviour ends here.                                   *)
Overrun ==
    /\ stage' = "undefined" /\ todo' = 0
    /\ UNCHANGED <<backend, gh, ctx, job, out, verdict>>

(* sdc_gcm_init_ex: also how a context is reused for the next message.     *)
InitEx(j) ==
    /\ todo = 0 /\ stage # "undefined"
    /\ gh' = GhInit /\ ctx' = FreshCtx
    /\ stage' = "open" /\ out' = <<>> /\ verdict' = NoVerdict
    /\ job' = j
    /\ UNCHANGED <<backend, todo>>

Idle == stage = "open" /\ todo = 0

AadUpdate(n) ==
    /\ Idle
    /\ AnyAadSplit \/ gh.buf = <<>>
    /\ IF ctx.phase # 0 \/ n = 0 THEN UNCHANGED vars
       ELSE IF ~AadFits(backend, gh, n) THEN Overrun
       ELSE /\ ctx' = [ctx EXCEPT !.aad_len = @ + n]
            /\ gh' = GhAad(gh, [i \in 1 .. n |-> AadByte(ctx.aad_len + i)])
            /\ UNCHANGED <<backend, stage, job, out, verdict, todo>>

-----------------------------------------------------------------------------
(* The update loops.                                                       *)

(* Input byte i as the caller's buffer holds it once o has been written:   *)
(* in and out may be the same buffer.                                      *)
ReadIn(o, i) == IF job.inplace /\ i <= Len(o) THEN o[i] ELSE InByte(job, i)

ReadNext(o, from, n) == [j \in 1 .. n |-> ReadIn(o, from + j)]

(* Enter an update call of n bytes.                                        *)
BeginUpdate(n) ==
    /\ Idle
    /\ ctx' = [ctx EXCEPT !.phase = 1]
    /\ todo' = n
    /\ UNCHANGED <<backend, gh, stage, job, out, verdict>>

(* What is written when the keystream bytes k meet the next input bytes.   *)
Written(k) == [j \in 1 .. Len(k) |-> Xor(ReadIn(out, Len(out) + j), k[j])]

(* One iteration that spends the keystream bytes k and leaves ctx at c.    *)
(* Encryption hashes what it wrote.                                        *)
EncryptWith(c, k) ==
    /\ out' = out \o Written(k)
    /\ gh' = GhUpdate(backend, gh, Written(k))
    /\ ctx' = [c EXCEPT !.msg_len = @ + Len(k)]
    /\ todo' = todo - Len(k)
    /\ UNCHANGED <<backend, stage, job, verdict>>

(* Mutant of DecryptWith: the input is hashed after out is written.        *)
DecryptThenHash(c, k) ==
    /\ gh' = GhUpdate(backend, gh, ReadNext(out \o Written(k), Len(out), Len(k)))
    /\ out' = out \o Written(k)
    /\ ctx' = [c EXCEPT !.msg_len = @ + Len(k)]
    /\ todo' = todo - Len(k)
    /\ UNCHANGED <<backend, stage, job, verdict>>

(* Decryption hashes its input, before out is written.                     *)
DecryptWith(c, k) ==
    /\ gh' = GhUpdate(backend, gh, ReadNext(out, Len(out), Len(k)))
    /\ out' = out \o Written(k)
    /\ ctx' = [c EXCEPT !.msg_len = @ + Len(k)]
    /\ todo' = todo - Len(k)
    /\ UNCHANGED <<backend, stage, job, verdict>>

BulkReady == job.bulk /\ ctx.ks_pos = 0 /\ todo >= BulkBlocks * BlockSize

(* Mutant of BulkCtx: the counter is stored before its last increment.     *)
BulkCtxShort == [ctx EXCEPT !.ctr = (@ + BulkBlocks - 1) % CtrMod]

(* Four counter blocks encrypted at once; ks is not touched.               *)
BulkCtx == [ctx EXCEPT !.ctr = (@ + BulkBlocks) % CtrMod]
BulkKs  == [j \in 1 .. BulkBlocks * BlockSize |->
               <<(ctx.ctr + 1 + ((j - 1) \div BlockSize)) % CtrMod, (j - 1) % BlockSize>>]

(* Mutant of Refilled: a new block is made but not marked as available.    *)
RefilledUnmarked ==
    IF ctx.ks_pos = 0 THEN [ctx EXCEPT !.ctr = Inc32(@), !.ks = Inc32(ctx.ctr)] ELSE ctx

Refilled ==
    IF ctx.ks_pos = 0
    THEN [ctx EXCEPT !.ctr = Inc32(@), !.ks = Inc32(ctx.ctr), !.ks_pos = BlockSize]
    ELSE ctx

(* Mutant of BlockLen: the length of the call does not bound the block.    *)
BlockLenUnbounded == Refilled.ks_pos

BlockLen == IF todo < Refilled.ks_pos THEN todo ELSE Refilled.ks_pos
BlockCtx == [Refilled EXCEPT !.ks_pos = @ - BlockLen]
BlockKs  == [j \in 1 .. BlockLen |->
                <<Refilled.ks, (BlockSize - Refilled.ks_pos) + (j - 1)>>]

EncryptUpdate(n) == job.mode = "enc" /\ BeginUpdate(n)
EncryptStep(c, k) == IF DataFits(backend, gh) THEN EncryptWith(c, k) ELSE Overrun
EncryptBulk  == job.mode = "enc" /\ todo > 0 /\ BulkReady /\ EncryptStep(BulkCtx, BulkKs)
EncryptBlock == job.mode = "enc" /\ todo > 0 /\ ~BulkReady /\ EncryptStep(BlockCtx, BlockKs)

DecryptUpdate(n) == job.mode = "dec" /\ BeginUpdate(n)
DecryptStep(c, k) == IF DataFits(backend, gh) THEN DecryptWith(c, k) ELSE Overrun
DecryptBulk  == job.mode = "dec" /\ todo > 0 /\ BulkReady /\ DecryptStep(BulkCtx, BulkKs)
DecryptBlock == job.mode = "dec" /\ todo > 0 /\ ~BulkReady /\ DecryptStep(BlockCtx, BlockKs)

-----------------------------------------------------------------------------
Close(v) ==
    /\ ctx' = [ctx EXCEPT !.phase = 1]
    /\ gh' = GhFinal(gh)
    /\ stage' = "closed"
    /\ verdict' = v
    /\ UNCHANGED <<backend, job, out, todo>>

CloseWith(v) == Idle /\ IF FinalFits(gh) THEN Close(v) ELSE Overrun

EncryptFinal == job.mode = "enc" /\ CloseWith(Sealed(GhFinal(gh).state))

(* The tag offered is what a sender made for sentAad bytes of AAD and the  *)
(* first sentMsg bytes of the message.                                     *)
SentTag(sentAad, sentMsg) ==
    TagOf(GhashOf(AadOf(sentAad), SentOf(sentMsg)))

DecryptFinal(sentAad, sentMsg) ==
    /\ job.mode = "dec"
    /\ CloseWith(Checked(TagOf(GhFinal(gh).state) = SentTag(sentAad, sentMsg),
                         sentAad, sentMsg))

-----------------------------------------------------------------------------
Loop == EncryptBulk \/ EncryptBlock \/ DecryptBulk \/ DecryptBlock

Next ==
    \/ \E j \in Job : InitEx(j)
    \/ \E n \in 0 .. MaxAad - ctx.aad_len : AadUpdate(n)
    \/ \E n \in 0 .. MaxMsg - Len(out) : EncryptUpdate(n) \/ DecryptUpdate(n)
    \/ Loop
    \/ EncryptFinal
    \/ \E a \in Near(ctx.aad_len, MaxAad), m \in Near(Len(out), MaxMsg) : DecryptFinal(a, m)

Spec == Init /\ [][Next]_vars

(* A call that has been entered runs: the loop is the caller's own thread. *)
FairSpec == Spec /\ WF_vars(Loop)

-----------------------------------------------------------------------------
(* Types of every variable; what GHASH holds back stays inside the array   *)
(* of the backend in use.                                                  *)
TypeOK ==
    /\ backend \in Backends
    /\ gh \in GhashCtx
    /\ Len(gh.buf) <= Room(backend)
    /\ ctx \in GcmCtx
    /\ stage \in {"none", "open", "closed", "undefined"}
    /\ job \in Job
    /\ out \in Seq(Byte)
    /\ verdict.rc \in {"none", "tag", "OK", "VERIFY_FAIL"}
    /\ todo \in 0 .. MaxMsg

(* The two halves of the context, kept by different files, move together:  *)
(* the bytes GHASH holds back and the keystream bytes GCM has left always  *)
(* make one block, so that the bulk path (ks_pos == 0) never meets a       *)
(* half-filled GHASH buffer and a refill never meets a half-used block;    *)
(* GHASH never enters its data phase before GCM does; and both count the   *)
(* same lengths.                                                           *)
Lockstep ==
    /\ todo > 0 => stage = "open"
    /\ stage = "open" =>
        /\ Len(gh.buf) < BlockSize
        /\ gh.phase = 1 => Len(gh.buf) + ctx.ks_pos \in {0, BlockSize}
        /\ gh.phase = 0 => ctx.ks_pos = 0 /\ out = <<>>
        /\ ctx.phase = 0 => gh.phase = 0 /\ todo = 0
        /\ gh.aad_len = ctx.aad_len
        /\ gh.data_len = ctx.msg_len
        /\ ctx.msg_len = Len(out)

(* No keystream byte masks two bytes of a message, and none comes from the *)
(* block E_K(J0) that masks the tag: the counter of gcm.c is never reused. *)
KeystreamFresh ==
    job.mode = "enc" =>
        /\ \A j \in 1 .. Len(out) : \A i \in 1 .. j - 1 : out[i].ks \cap out[j].ks = {}
        /\ \A i \in 1 .. Len(out) : \A k \in out[i].ks : k[1] # J0

(* However a message is split into calls, gcm.c gives what one call would: *)
(* the output, the tag and the verdict of GcmMsg.                          *)
ImplementsMsg == Msg!AbsSpec

(* gcm.h:67 "Feed additional authenticated data.", on an "Incremental      *)
(* context": the tag covers the AAD in the order it was fed, whatever the  *)
(* sizes of the calls.  It does not hold when a call leaves a part of a    *)
(* block behind and another aad_update follows.                            *)
TagCoversAad ==
    verdict.rc = "tag" =>
        verdict.tag = TagOf(GhashOf(AadOf(ctx.aad_len), SentOf(Len(out))))

(* gcm.c, ghash_*.c: no part of a block is copied past the end of the      *)
(* array that holds it, nor that array past the end of one block, while a  *)
(* caller feeds whole blocks of AAD until its last call.  AAD calls of any *)
(* size (AnyAadSplit) break it: what each leaves over adds up, unchecked.  *)
AadStaysInside == stage # "undefined"

(* An update call returns: each iteration of its loop uses some bytes.     *)
CallReturns == (todo > 0) ~> (todo = 0)
=============================================================================
