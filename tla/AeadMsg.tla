------------------------------ MODULE AeadMsg -------------------------------
(***************************************************************************)
(* What the (X)ChaCha20-Poly1305 interface of aead.h promises of one       *)
(* message, as RFC 8439 gives it in one go: the one-time MAC key is block  *)
(* 0 of the keystream, byte i of the message meets block 1 + (i-1) div 64, *)
(* the tag covers the padded AAD, the padded ciphertext and both lengths,  *)
(* and no plaintext is released before the tag was found good.             *)
(***************************************************************************)
EXTENDS ChaCha

CONSTANTS Variants,     \* the keystream variants the build has
          MaxAad,       \* bound: AAD bytes
          MaxMsg,       \* bound: message bytes
          Alterable     \* bound: positions where a receiver's input may differ

ASSUME AeadAssumption ==
    /\ Variants \subseteq Variant
    /\ StreamBlock >= 2 * BlockSize
    /\ MaxAad \in Nat /\ MaxMsg \in Nat
    /\ Alterable \subseteq 1 .. MaxMsg

VARIABLES stage,    \* "none", "open", "checked" (auth_final called), "closed"
          job,      \* what the caller fixed at init (see Job)
          aad,      \* number of AAD bytes
          seen,     \* ciphertext bytes authenticated by a receiver
          out,      \* output bytes written so far
          verdict   \* what encrypt_final or auth_final returned

absVars == <<stage, job, aad, seen, out, verdict>>

-----------------------------------------------------------------------------
(* A receiver's input may differ from what was sent at one position.       *)
JobRec == [v : Variants, mode : {"enc", "dec"}, alter : {0} \cup Alterable]

Job == {j \in JobRec : j.mode = "enc" => j.alter = 0}

(* The counter must not run over within a message; nothing in aead.c       *)
(* stops it, RFC 8439 forbids it.                                          *)
MsgLimit(j) ==
    LET blocks == (CounterRange(j.v) - 1) * StreamBlock IN
    IF blocks < MaxMsg THEN blocks ELSE MaxMsg

KsOf(i)       == <<1 + ((i - 1) \div StreamBlock), (i - 1) % StreamBlock>>
CipherByte(i) == Xor(PlainByte(i), KsOf(i))
InByte(j, i)  == IF j.mode = "enc" THEN PlainByte(i)
                 ELSE IF i = j.alter THEN BadByte ELSE CipherByte(i)

SentOf(n)    == [i \in 1 .. n |-> CipherByte(i)]
InOf(j, n)   == [i \in 1 .. n |-> InByte(j, i)]
OutOf(j, n)  == [i \in 1 .. n |-> Xor(InByte(j, i), KsOf(i))]

MacKey == [i \in 1 .. 2 * BlockSize |-> <<0, i - 1>>]

TagOf(a, c) == [key |-> MacKey, mac |-> Padded(a) \o Padded(c) \o LenBlock(Len(a), Len(c))]

(* A verdict: the return code, an encryption's tag, and the lengths of AAD *)
(* and message that the tag offered to a receiver was made for.            *)
NoTag      == [key |-> <<>>, mac |-> <<>>]
NoVerdict  == [rc |-> "none", tag |-> NoTag, offer |-> <<>>]
Sealed(t)  == [rc |-> "tag", tag |-> t, offer |-> <<>>]
Checked(good, a, m) ==
    [rc |-> IF good THEN "OK" ELSE "VERIFY_FAIL", tag |-> NoTag, offer |-> <<a, m>>]

(* Bound: a tag is offered that was made for about the right lengths.      *)
Near(n, max) == {m \in 0 .. max : m <= n + 1 /\ n <= m + 1}

-----------------------------------------------------------------------------
AbsInit ==
    /\ stage = "none" /\ aad = 0 /\ seen = 0 /\ out = <<>> /\ verdict = NoVerdict
    /\ job \in Job

AbsStart(n) ==
    /\ stage' = "open" /\ aad' = n /\ seen' = 0 /\ out' = <<>> /\ verdict' = NoVerdict
    /\ job' \in Job

AbsEncrypt(n) ==
    /\ stage = "open" /\ job.mode = "enc"
    /\ out' = OutOf(job, Len(out) + n)
    /\ UNCHANGED <<stage, job, aad, seen, verdict>>

AbsSeal ==
    /\ stage = "open" /\ job.mode = "enc"
    /\ stage' = "closed"
    /\ verdict' = Sealed(TagOf(AadOf(aad), SentOf(Len(out))))
    /\ UNCHANGED <<job, aad, seen, out>>

AbsAuth(n) ==
    /\ stage = "open" /\ job.mode = "dec"
    /\ seen' = seen + n
    /\ UNCHANGED <<stage, job, aad, out, verdict>>

(* The tag presented is the one a sender made for sentAad bytes of AAD and *)
(* the first sentMsg bytes of the message.                                 *)
AbsCheck(sentAad, sentMsg) ==
    /\ stage = "open" /\ job.mode = "dec"
    /\ stage' = "checked"
    /\ verdict' = Checked(aad = sentAad /\ InOf(job, seen) = SentOf(sentMsg), sentAad, sentMsg)
    /\ UNCHANGED <<job, aad, seen, out>>

AbsRelease(n) ==
    /\ stage = "checked" /\ verdict.rc = "OK"
    /\ out' = OutOf(job, Len(out) + n)
    /\ UNCHANGED <<stage, job, aad, seen, verdict>>

AbsEnd ==
    /\ stage \in {"open", "checked"} /\ job.mode = "dec"
    /\ stage' = "closed"
    /\ UNCHANGED <<job, aad, seen, out, verdict>>

AbsNext ==
    \/ \E n \in 0 .. MaxAad : AbsStart(n)
    \/ \E n \in 1 .. MaxMsg - Len(out) : AbsEncrypt(n) \/ AbsRelease(n)
    \/ \E n \in 1 .. MaxMsg - seen : AbsAuth(n)
    \/ AbsSeal \/ AbsEnd
    \/ \E a \in 0 .. MaxAad, m \in 0 .. MaxMsg : AbsCheck(a, m)

AbsSpec == AbsInit /\ [][AbsNext]_absVars
=============================================================================
