-------------------------------- MODULE Rng ---------------------------------
(***************************************************************************)
(* src/src/rng and rng.h: generator contexts over two operation tables,    *)
(* the system generator (a read loop on /dev/urandom) and the ChaCha20     *)
(* generator, which draws a nonce through the process-wide seed generator. *)
(*                                                                         *)
(* Every thread owns one context; threads share the seed generator pointer *)
(* and the device.  All contexts have the SAME caller-supplied seed, so    *)
(* that only the drawn nonces keep their streams apart.                    *)
(***************************************************************************)
EXTENDS ChaCha, FiniteSets

CONSTANTS Threads,
          Builds,       \* the keystream variants chacha20_rng.c may be built with
          NonceLen,     \* 8 in the code
          Requests,     \* bound: the sizes asked of generate
          MaxGiven,     \* bound: bytes a thread is given in all
          MaxDraw       \* bound: no draw starts that would make it more bytes

ASSUME RngAssumption ==
    /\ IsFiniteSet(Threads)
    /\ Builds \subseteq WideVariants
    /\ NonceLen \in Nat \ {0, 1}
    /\ Requests \subseteq Nat \ {0}
    /\ MaxGiven \in Nat /\ MaxDraw \in Nat
    /\ MaxGiven <= WordMod * WordMod * StreamBlock      \* as much as a stream has

VARIABLES generator,    \* g_seed_generator of seed.c
          rng,          \* the contexts: ops, nonce and keystream in inner_state
          call,         \* the system_rng_generate a thread is in, and for what
          device,       \* what read() on /dev/urandom gives
          opened,       \* file descriptors open
          drawn,        \* entropy bytes drawn so far: each is new
          given         \* bytes a caller was given with SDC_ERR_OK

vars == <<generator, rng, call, device, opened, drawn, given>>

(* A byte is known by the draw it was (a system byte) or by the nonce of   *)
(* its stream and its place in it.                                         *)
RngByte == [from : Seq(Nat), at : KsByte]

SystemByte(k) == [from |-> <<k>>, at |-> <<0, 0>>]

Context == [ops : {"none", "system", "chacha"}, ready : BOOLEAN,
            nonce : Seq(Nat), stream : ChaChaCtx]

Idle == [for |-> "none", at |-> "idle", want |-> 0, got |-> <<>>]

-----------------------------------------------------------------------------
Init ==
    /\ generator = "default"
    /\ \E v \in Builds :
          rng = [t \in Threads |-> [ops |-> "none", ready |-> FALSE, nonce |-> <<>>,
                                    stream |-> ChaChaInit(v, 0)]]
    /\ call = [t \in Threads |-> Idle]
    /\ device = "ok" /\ opened = 0 /\ drawn = 0
    /\ given = [t \in Threads |-> <<>>]

(* sdc_rng_set_seed_generator (NULL changes nothing) and ..._to_default,   *)
(* from any thread at any time.                                            *)
SetSeedGenerator(g) ==
    /\ generator' = g
    /\ UNCHANGED <<rng, call, device, opened, drawn, given>>

DeviceChanges(d) ==
    /\ d # device /\ device' = d
    /\ UNCHANGED <<generator, rng, call, opened, drawn, given>>

Fresh(n) == [i \in 1 .. n |-> drawn + i]

-----------------------------------------------------------------------------
(* sdc_rng_init: ctx->ops is set before the outcome of init is known.      *)

InitSystem(t) ==
    /\ call[t] = Idle
    /\ rng' = [rng EXCEPT ![t].ops = "system", ![t].ready = TRUE]
    /\ UNCHANGED <<generator, call, device, opened, drawn, given>>

(* Mutant of Seeded: the context keeps the nonce it had.                   *)
SeededSame(ctx, nonce) == [ctx EXCEPT !.ready = TRUE, !.stream = ChaChaInit(ctx.stream.v, 0)]

(* sdc_chacha20raw_init with the drawn nonce and counter 0.                *)
Seeded(ctx, nonce) ==
    [ctx EXCEPT !.ready = TRUE, !.nonce = nonce, !.stream = ChaChaInit(ctx.stream.v, 0)]

(* A custom seed generator answers at once, with new bytes or an error.    *)
InitCustom(t, ok) ==
    /\ call[t] = Idle /\ generator = "custom"
    /\ drawn + NonceLen <= MaxDraw
    /\ LET begun == [rng[t] EXCEPT !.ops = "chacha", !.ready = FALSE] IN
       rng' = [rng EXCEPT ![t] = IF ok THEN Seeded(begun, Fresh(NonceLen)) ELSE begun]
    /\ drawn' = IF ok THEN drawn + NonceLen ELSE drawn
    /\ UNCHANGED <<generator, call, device, opened, given>>

(* The default one reads the device.                                       *)
InitDefault(t) ==
    /\ call[t] = Idle /\ generator = "default"
    /\ drawn + NonceLen <= MaxDraw
    /\ rng' = [rng EXCEPT ![t].ops = "chacha", ![t].ready = FALSE]
    /\ call' = [call EXCEPT ![t] = [for |-> "init", at |-> "open",
                                    want |-> NonceLen, got |-> <<>>]]
    /\ UNCHANGED <<generator, device, opened, drawn, given>>

-----------------------------------------------------------------------------
(* sdc_rng_generate, by a caller whose init succeeded.                     *)

MayAsk(t, n) == call[t] = Idle /\ rng[t].ready /\ Len(given[t]) + n <= MaxGiven

GenerateChaCha(t, n) ==
    /\ MayAsk(t, n) /\ rng[t].ops = "chacha"
    /\ LET spent == Crypt(rng[t].stream, n) IN
       /\ rng' = [rng EXCEPT ![t].stream = spent.ctx]
       /\ given' = [given EXCEPT ![t] =
                       @ \o [i \in 1 .. n |-> [from |-> rng[t].nonce, at |-> spent.ks[i]]]]
    /\ UNCHANGED <<generator, call, device, opened, drawn>>

GenerateSystem(t, n) ==
    /\ MayAsk(t, n) /\ rng[t].ops = "system"
    /\ drawn + n <= MaxDraw
    /\ call' = [call EXCEPT ![t] = [for |-> "caller", at |-> "open", want |-> n, got |-> <<>>]]
    /\ UNCHANGED <<generator, rng, device, opened, drawn, given>>

-----------------------------------------------------------------------------
(* system_rng_generate, which both of these run.                           *)

(* The call returns to whoever made it; buf is what the buffer holds.      *)
Return(t, ok) ==
    LET buf  == call[t].got \o [i \in 1 .. call[t].want - Len(call[t].got) |-> 0]
    IN  /\ call' = [call EXCEPT ![t] = Idle]
        /\ rng' = IF ok /\ call[t].for = "init"
                  THEN [rng EXCEPT ![t] = Seeded(rng[t], buf)] ELSE rng
        /\ given' = IF ok /\ call[t].for = "caller"
                    THEN [given EXCEPT ![t] = @ \o [i \in DOMAIN buf |-> SystemByte(buf[i])]]
                    ELSE given

Opened(t, ok) ==
    /\ call[t].at = "open"
    /\ IF ok
       THEN /\ call' = [call EXCEPT ![t].at = "read"]
            /\ opened' = opened + 1
            /\ UNCHANGED <<rng, given>>
       ELSE Return(t, FALSE) /\ UNCHANGED opened
    /\ UNCHANGED <<generator, device, drawn>>

Remaining(t) == call[t].want - Len(call[t].got)

(* Mutant of Read: each read asks for the whole length again.              *)
ReadWhole(t, n) ==
    /\ call[t].at = "read" /\ device = "ok"
    /\ call' = [call EXCEPT ![t].got = @ \o Fresh(n)]
    /\ drawn' = drawn + n
    /\ UNCHANGED <<generator, rng, device, opened, given>>

(* A read may be short.  One that is interrupted is read again: no step.   *)
Read(t, n) ==
    /\ call[t].at = "read" /\ device = "ok" /\ n <= Remaining(t)
    /\ call' = [call EXCEPT ![t].got = @ \o Fresh(n)]
    /\ drawn' = drawn + n
    /\ UNCHANGED <<generator, rng, device, opened, given>>

Close(t, ok) ==
    /\ opened' = opened - 1
    /\ Return(t, ok)
    /\ UNCHANGED <<generator, device, drawn>>

(* Mutant of ReadFails: the early return leaves the descriptor open.       *)
ReadFailsLeaky(t) ==
    /\ call[t].at = "read" /\ device = "broken" /\ Remaining(t) > 0
    /\ Return(t, FALSE)
    /\ UNCHANGED <<generator, device, drawn, opened>>

ReadFails(t) ==
    call[t].at = "read" /\ device = "broken" /\ Remaining(t) > 0 /\ Close(t, FALSE)

(* Mutant of ReadEnds: the read is tried again.                            *)
ReadEndsNot(t) ==
    call[t].at = "read" /\ device = "eof" /\ Remaining(t) > 0 /\ UNCHANGED vars

ReadEnds(t) == call[t].at = "read" /\ device = "eof" /\ Remaining(t) > 0 /\ Close(t, FALSE)

ReadDone(t) == call[t].at = "read" /\ Remaining(t) = 0 /\ Close(t, TRUE)

(* The steps of a thread inside system_rng_generate.                       *)
InCall(t) ==
    \/ \E ok \in BOOLEAN : Opened(t, ok)
    \/ \E n \in 1 .. call[t].want : Read(t, n)
    \/ ReadFails(t) \/ ReadEnds(t) \/ ReadDone(t)

Next ==
    \/ \E g \in {"default", "custom"} : SetSeedGenerator(g)
    \/ \E d \in {"ok", "eof", "broken"} : DeviceChanges(d)
    \/ \E t \in Threads :
        \/ InitSystem(t) \/ InitDefault(t)
        \/ \E ok \in BOOLEAN : InitCustom(t, ok)
        \/ \E n \in Requests : GenerateChaCha(t, n) \/ GenerateSystem(t, n)
        \/ InCall(t)

Spec == Init /\ [][Next]_vars

(* A thread in the loop keeps running, and read() is not interrupted for   *)
(* ever: sooner or later it gives bytes, an end of file or an error.       *)
FairSpec == Spec /\ \A t \in Threads : WF_vars(InCall(t))

-----------------------------------------------------------------------------
(* Types of every variable.                                                *)
TypeOK ==
    /\ generator \in {"default", "custom"}
    /\ rng \in [Threads -> Context]
    /\ \A t \in Threads :
        /\ call[t].for \in {"none", "init", "caller"} /\ call[t].at \in {"idle", "open", "read"}
        /\ Remaining(t) >= 0
        /\ given[t] \in Seq(RngByte)
    /\ device \in {"ok", "eof", "broken"}
    /\ opened \in Nat
    /\ drawn \in Nat

(* No byte is given out twice, by one context or by two with the same      *)
(* seed, in whatever order they are seeded, fail to be and are seeded      *)
(* again, and whatever the reads of the device do.                         *)
NoRepeat ==
    \A t, u \in Threads : \A i \in DOMAIN given[t], j \in DOMAIN given[u] :
        given[t][i] = given[u][j] => t = u /\ i = j

(* However the requests are cut, the bytes of one stream are handed out in *)
(* its order, none skipped, across refills of one or five blocks and the   *)
(* carry into the high counter word.                                       *)
InStreamOrder ==
    \A t \in Threads : \A i \in DOMAIN given[t] :
        LET from == given[t][i].from
            nth  == Cardinality({j \in 1 .. i - 1 : given[t][j].from = from})
        IN  Len(from) > 1 => given[t][i].at = <<nth \div StreamBlock, nth % StreamBlock>>

(* A descriptor is open for each thread in the read loop and no other: no  *)
(* way out of it leaves one behind.                                        *)
DescriptorsClosed == opened = Cardinality({t \in Threads : call[t].at = "read"})

(* Every call of the system generator returns, at an end of file too.      *)
CallReturns == \A t \in Threads : (call[t].at # "idle") ~> (call[t].at = "idle")
=============================================================================
