------------------------------ MODULE GcmData -------------------------------
(***************************************************************************)
(* One message under GCM, seen from outside: the bytes a caller feeds, the *)
(* CTR keystream, the GHASH value and the tag that SP 800-38D gives for it *)
(* in one go.  GcmMsg states the promise with these, Gcm the code.         *)
(***************************************************************************)
EXTENDS Ghash

CONSTANTS CtrMod,   \* 2^32 in the code: the range of the 32-bit block counter
          MaxAad,   \* bound: AAD bytes a caller feeds
          MaxMsg,   \* bound: message bytes a caller feeds
          Alterable \* bound: positions where a receiver's input may differ

(* Nothing in the code stops a message from wrapping the 32-bit counter;   *)
(* the module speaks of the messages SP 800-38D allows, which never do.    *)
ASSUME GcmAssumption ==
    /\ CtrMod \in Nat /\ CtrMod > 2
    /\ MaxAad \in Nat
    /\ MaxMsg \in Nat
    /\ MaxMsg <= (CtrMod - 2) * BlockSize
    /\ Alterable \subseteq 1 .. MaxMsg

-----------------------------------------------------------------------------
(* The caller's message.                                                   *)

(* A receiver's input may differ from what was sent at one position, where *)
(* it finds a different or a zero byte; alter = 0 is no difference.        *)
JobRec == [mode : {"enc", "dec"}, bulk : BOOLEAN, inplace : BOOLEAN,
           alter : {0} \cup Alterable, with : {ZeroByte, BadByte}]

Job == {j \in JobRec : (j.mode = "enc" => j.alter = 0) /\ (j.alter = 0 => j.with = ZeroByte)}

J0 == 1
Inc32(c) == (c + 1) % CtrMod

(* SP 800-38D: byte i of the message meets block J0 + 1 + (i-1) div 16.    *)
KsOf(i)       == <<(J0 + 1 + ((i - 1) \div BlockSize)) % CtrMod, (i - 1) % BlockSize>>
CipherByte(i) == Xor(PlainByte(i), KsOf(i))

InByte(j, i) ==
    IF j.mode = "enc" THEN PlainByte(i)
    ELSE IF i = j.alter THEN j.with ELSE CipherByte(i)

SentOf(n)   == [i \in 1 .. n |-> CipherByte(i)]
OutOf(j, n) == [i \in 1 .. n |-> Xor(InByte(j, i), KsOf(i))]

(* The ciphertext an update call authenticates: written or read.           *)
AuthOf(j, n) == [i \in 1 .. n |-> IF j.mode = "enc" THEN CipherByte(i) ELSE InByte(j, i)]

-----------------------------------------------------------------------------
(* GHASH of SP 800-38D: A padded, C padded, the two lengths.               *)
GhashOf(a, c) == Padded(a) \o Padded(c) \o LenBlock(Len(a), Len(c))

(* The tag: E_K(J0), known by its counter, XOR the GHASH value.            *)
TagOf(s) == [mask |-> J0, ghash |-> s]

(* A verdict: the return code, an encryption's tag, and the lengths of AAD *)
(* and message that the tag offered to a receiver was made for.            *)
NoVerdict == [rc |-> "none", tag |-> TagOf(<<>>), offer |-> <<>>]
Sealed(s) == [rc |-> "tag", tag |-> TagOf(s), offer |-> <<>>]
Checked(good, a, m) ==
    [rc |-> IF good THEN "OK" ELSE "VERIFY_FAIL", tag |-> TagOf(<<>>), offer |-> <<a, m>>]

(* Bound: a tag is offered that was made for about the right lengths.      *)
Near(n, max) == {m \in 0 .. max : m <= n + 1 /\ n <= m + 1}
=============================================================================
