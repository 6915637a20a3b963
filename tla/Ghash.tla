------------------------------- MODULE Ghash --------------------------------
(***************************************************************************)
(* The GHASH contexts of src/src/gcm: buffering, padding and lengths, for  *)
(* the three backends behind the vtable of ghash.c.                        *)
(*                                                                         *)
(* The 8-, 4- and 1-block loops of the x86 and ARM backends absorb the     *)
(* same blocks in the same order as the scalar loop: one operator here.    *)
(***************************************************************************)
EXTENDS Bytes

(* The vtables resolve_vt can pick.                                        *)
Backend == {"scalar", "pclmul", "pmull"}

-----------------------------------------------------------------------------
(* The context and the four entries of a vtable.                           *)

GhashCtx == [state    : Seq(Byte),      \* absorbed so far
             buf      : Seq(Byte),      \* buf[0 .. buf_len - 1]
             aad_len  : Nat,
             data_len : Nat,
             phase    : {0, 1}]         \* 0 = AAD, 1 = data

(* The bytes of buf[]: a block in the scalar context, eight in the others. *)
Room(backend) == IF backend = "scalar" THEN BlockSize ELSE 8 * BlockSize

(* Does what an AAD call of n bytes leaves behind fit into the buffer?     *)
AadFits(backend, gh, n) ==
    gh.phase = 0 => Len(gh.buf) + (n - WholeBlocks(n)) <= Room(backend)

(* The first data call, save that of pclmul, and every final copy the      *)
(* whole buffer into one block, blk[16]: does it fit?                      *)
DataFits(backend, gh) ==
    gh.phase = 0 /\ backend # "pclmul" => Len(gh.buf) <= BlockSize

FinalFits(gh) == Len(gh.buf) <= BlockSize

GhInit == [state |-> <<>>, buf |-> <<>>, aad_len |-> 0, data_len |-> 0, phase |-> 0]

(* A block cut short is zero-filled: uint8_t blk[16] = {0} and a memcpy.    *)
PadBlock(b) == b \o Zeros(BlockSize - Len(b))

(* Absorb the whole blocks of data and APPEND the rest to the buffer, if   *)
(* it fits there (AadFits).                                                *)
Process(gh, data) ==
    LET full == WholeBlocks(Len(data)) IN
    [gh EXCEPT !.state = @ \o SubSeq(data, 1, full),
               !.buf   = @ \o SubSeq(data, full + 1, Len(data))]

GhAad(gh, aad) ==
    IF gh.phase # 0 \/ aad = <<>> THEN gh
    ELSE Process([gh EXCEPT !.aad_len = @ + Len(aad)], aad)

(* Zero-pad what is left in the buffer.  The pclmul backend first absorbs  *)
(* whole blocks its 128-byte buffer may hold; the others copy buf_len      *)
(* bytes into one block, if it fits there (DataFits).                      *)
FlushAad(backend, gh) ==
    LET full == IF backend = "pclmul" THEN WholeBlocks(Len(gh.buf)) ELSE 0
        rem  == SubSeq(gh.buf, full + 1, Len(gh.buf))
    IN  [gh EXCEPT !.state = IF rem = <<>> THEN @ \o SubSeq(gh.buf, 1, full)
                             ELSE @ \o SubSeq(gh.buf, 1, full) \o PadBlock(rem),
                   !.buf   = <<>>]

(* The first data call closes the AAD.                                     *)
EnterData(backend, gh) ==
    IF gh.phase = 0 THEN [FlushAad(backend, gh) EXCEPT !.phase = 1] ELSE gh

(* Mutant of TopUp: the completed block stays in the buffer.               *)
TopUpNoReset(gh, data) ==
    LET want == IF gh.buf = <<>> THEN 0
                ELSE IF BlockSize - Len(gh.buf) < Len(data)
                     THEN BlockSize - Len(gh.buf) ELSE Len(data)
        b    == gh.buf \o SubSeq(data, 1, want)
    IN  [ctx  |-> [gh EXCEPT !.state = IF Len(b) = BlockSize THEN @ \o b ELSE @, !.buf = b],
         rest |-> SubSeq(data, want + 1, Len(data))]

(* Fill up a started block before anything else; absorb it when complete.  *)
TopUp(gh, data) ==
    LET want == IF gh.buf = <<>> THEN 0
                ELSE IF BlockSize - Len(gh.buf) < Len(data)
                     THEN BlockSize - Len(gh.buf) ELSE Len(data)
        b    == gh.buf \o SubSeq(data, 1, want)
        ctx  == IF Len(b) = BlockSize
                THEN [gh EXCEPT !.state = @ \o b, !.buf = <<>>]
                ELSE [gh EXCEPT !.buf = b]
    IN  [ctx |-> ctx, rest |-> SubSeq(data, want + 1, Len(data))]

GhUpdate(backend, gh, data) ==
    LET entered == EnterData(backend, gh)
        topped  == TopUp([entered EXCEPT !.data_len = @ + Len(data)], data)
    IN  IF data = <<>> THEN entered ELSE Process(topped.ctx, topped.rest)

(* As in FlushAad, if it fits (FinalFits).                                 *)
GhFinal(gh) ==
    LET tail == IF gh.buf = <<>> THEN <<>> ELSE PadBlock(gh.buf) IN
    [gh EXCEPT !.state = @ \o tail \o LenBlock(gh.aad_len, gh.data_len),
               !.buf   = <<>>,
               !.phase = 1]
=============================================================================
