------------------------------ MODULE BlockModes ------------------------------
(***************************************************************************)
(* src/src/block_cipher.c: CTR and CBC over an operation table.  The block *)
(* cipher is a free permutation, a byte is the set of atoms whose sum      *)
(* modulo 2 it is, and a call is one step per trip round its loop, so that *)
(* what it reads is what its earlier trips have written.                   *)
(***************************************************************************)
EXTENDS Naturals, Sequences, FiniteSetsExt

CONSTANTS Buffers,      \* the caller's buffers; a call may use one for both
          BlockLen,     \* 16 in the code
          Batch,        \* 8 in the code
          BufLen,       \* bound: bytes of a buffer
          MaxCalls      \* bound: calls made in turn

ASSUME ModesAssumption ==
    /\ BlockLen \in Nat \ {0} /\ Batch \in Nat \ {0}
    /\ BufLen \in Nat /\ MaxCalls \in Nat

VARIABLES mem,      \* what the buffers hold
          call,     \* the call under way, with its locals
          before,   \* mem when that call was made
          calls

modesVars == <<mem, call, before, calls>>

Add(x, y) == [j \in DOMAIN x |-> SymDiff(x[j], y[j])]

(* ops->encrypt_block and its inverse.                                     *)
Enc(x) == [j \in 1 .. BlockLen |-> {[enc |-> x, at |-> j]}]

Image(y) == {x \in UNION {{a.enc : a \in {b \in y[j] : "enc" \in DOMAIN b}} : j \in DOMAIN y} :
                DOMAIN x = 1 .. BlockLen /\ Enc(x) = y}

Dec(y) == IF Image(y) # {} THEN CHOOSE x \in Image(y) : TRUE
          ELSE [j \in 1 .. BlockLen |-> {[dec |-> y, at |-> j]}]

Iv == [j \in 1 .. BlockLen |-> {[iv |-> j]}]

(* The nonce and the 32-bit counter.                                       *)
CounterBlock(c) == [j \in 1 .. BlockLen |-> {[counter |-> c, at |-> j]}]

BlockAt(buf, off) == [j \in 1 .. BlockLen |-> mem[buf][off + j]]

(* memory with data stored at offset off of buf                            *)
Stored(buf, off, data) ==
    [mem EXCEPT ![buf] = [i \in DOMAIN @ |->
        IF i > off /\ i <= off + Len(data) THEN data[i - off] ELSE @[i]]]

Idle == [op |-> "idle", in |-> "", out |-> "", len |-> 0, off |-> 0, ctr |-> 0, prev |-> Iv]

ModesInit ==
    /\ mem = [b \in Buffers |-> [i \in 1 .. BufLen |-> {[of |-> b, at |-> i]}]]
    /\ call = Idle
    /\ before = mem
    /\ calls = 0

Returned == call.off >= call.len

-----------------------------------------------------------------------------
(* CBC takes whole blocks only.                                            *)
CallModes(op, in, out, len) ==
    /\ Returned /\ calls < MaxCalls
    /\ op # "ctr" => len % BlockLen = 0
    /\ call' = [Idle EXCEPT !.op = op, !.in = in, !.out = out, !.len = len]
    /\ before' = mem
    /\ calls' = calls + 1
    /\ UNCHANGED mem

NextBlocks(remain) ==
    LET all == (remain + BlockLen - 1) \div BlockLen IN IF all > Batch THEN Batch ELSE all

(* Mutant of CtrBatch: the counter goes up by one for a whole batch.       *)
CtrBatchByOne ==
    LET remain == call.len - call.off
        nb     == NextBlocks(remain)
        bytes  == IF remain < nb * BlockLen THEN remain ELSE nb * BlockLen
        ks(i)  == Enc(CounterBlock(call.ctr + ((i - 1) \div BlockLen)))[((i - 1) % BlockLen) + 1]
    IN  /\ call.op = "ctr" /\ ~Returned
        /\ mem' = Stored(call.out, call.off,
                         [i \in 1 .. bytes |-> SymDiff(mem[call.in][call.off + i], ks(i))])
        /\ call' = [call EXCEPT !.ctr = @ + 1, !.off = @ + bytes]
        /\ UNCHANGED <<before, calls>>

CtrBatch ==
    LET remain == call.len - call.off
        nb     == NextBlocks(remain)
        bytes  == IF remain < nb * BlockLen THEN remain ELSE nb * BlockLen
        ks(i)  == Enc(CounterBlock(call.ctr + ((i - 1) \div BlockLen)))[((i - 1) % BlockLen) + 1]
    IN  /\ call.op = "ctr" /\ ~Returned
        /\ mem' = Stored(call.out, call.off,
                         [i \in 1 .. bytes |-> SymDiff(mem[call.in][call.off + i], ks(i))])
        /\ call' = [call EXCEPT !.ctr = @ + nb, !.off = @ + bytes]
        /\ UNCHANGED <<before, calls>>

CbcEncryptBlock ==
    LET c == Enc(Add(BlockAt(call.in, call.off), call.prev))
    IN  /\ call.op = "cbc_encrypt" /\ ~Returned
        /\ mem' = Stored(call.out, call.off, c)
        /\ call' = [call EXCEPT !.prev = c, !.off = @ + BlockLen]
        /\ UNCHANGED <<before, calls>>

(* The ciphertext is read again after the plaintext is written: in place,  *)
(* what the next block is added to is no longer the ciphertext.            *)
CbcDecryptBlock ==
    LET after == Stored(call.out, call.off,
                        Add(Dec(BlockAt(call.in, call.off)), call.prev))
    IN  /\ call.op = "cbc_decrypt" /\ ~Returned
        /\ mem' = after
        /\ call' = [call EXCEPT !.prev = [j \in 1 .. BlockLen |-> after[call.in][call.off + j]],
                                !.off = @ + BlockLen]
        /\ UNCHANGED <<before, calls>>

ModesNext ==
    \/ \E op \in {"ctr", "cbc_encrypt", "cbc_decrypt"}, in, out \in Buffers, len \in 0 .. BufLen :
            CallModes(op, in, out, len)
    \/ CtrBatch
    \/ CbcEncryptBlock
    \/ CbcDecryptBlock

ModesSpec == ModesInit /\ [][ModesNext]_modesVars

-----------------------------------------------------------------------------
(* Properties.                                                             *)

Keystream(i) == Enc(CounterBlock((i - 1) \div BlockLen))[((i - 1) % BlockLen) + 1]

BlockOfData(data, k) == SubSeq(data, ((k - 1) * BlockLen) + 1, k * BlockLen)

(* NIST SP 800-38A.                                                        *)
ModeOf(op, data) ==
    LET n == Len(data) \div BlockLen
        P(k) == BlockOfData(data, k)
        C[k \in 0 .. n] == IF k = 0 THEN Iv ELSE Enc(Add(P(k), C[k - 1]))
        k(i) == ((i - 1) \div BlockLen) + 1
        j(i) == ((i - 1) % BlockLen) + 1
    IN  [i \in DOMAIN data |->
            CASE op = "ctr"         -> SymDiff(data[i], Keystream(i))
              [] op = "cbc_encrypt" -> C[k(i)][j(i)]
              [] op = "cbc_decrypt" -> Add(Dec(P(k(i))),
                                           IF k(i) = 1 THEN Iv ELSE P(k(i) - 1))[j(i)]]

(* CBC decryption keeps the ciphertext only when it writes elsewhere.      *)
Supported == call.op = "cbc_decrypt" => call.in # call.out \/ call.len <= BlockLen

(* sdc_block_cipher_ctr, _cbc_encrypt, _cbc_decrypt: what a call leaves in *)
(* its output, in another buffer or in place, is the mode's result on what *)
(* its input held when it was made, for a message that ends at any byte of *)
(* any batch; nothing past len and no other buffer is written.  CBC        *)
(* decryption in place is right only for a single block.                   *)
ModesExact ==
    Returned /\ call.op # "idle" /\ Supported =>
        mem = [before EXCEPT ![call.out] =
                ModeOf(call.op, SubSeq(before[call.in], 1, call.len))
                    \o SubSeq(@, call.len + 1, BufLen)]
=============================================================================
