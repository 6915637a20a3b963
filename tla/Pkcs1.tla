-------------------------------- MODULE Pkcs1 --------------------------------
(***************************************************************************)
(* src/src/rsa/pkcs1v15.c: PKCS#1 v1.5 padding around the RSA operations.  *)
(*                                                                         *)
(* The private and the public operation undo each other below the modulus  *)
(* (module Rsa): a ciphertext or a signature stands here for the padded    *)
(* message em the other side's operation makes of it.                      *)
(***************************************************************************)
EXTENDS DerWriter

CONSTANTS Moduli,       \* moduli, bytes, most significant first
          Plain,        \* messages offered
          Draws,        \* bound: the padding bytes the generator delivers
          Hashes,       \* hash functions: their oid and hash_len
          Digests,      \* digests offered, of any length
          Spare,        \* bytes of the caller's buffer beyond what is needed, or short of it
          Damage,       \* bound: values a byte of em changes to
          MaxDamaged    \* bound: bytes of em that change

(* The 32768: unpad_pkcs1v15 takes bit 15 of the padding's length for a    *)
(* sign.  The half: digestinfo_der_len has one byte for each length.       *)
ASSUME PkcsAssumption ==
    /\ Base = 256
    /\ \A n \in Moduli : n \in Seq(Byte) /\ Len(n) <= 32768
    /\ Plain \subseteq Seq(Byte) /\ Digests \subseteq Seq(Byte)
    /\ Draws \subseteq Byte /\ Damage \subseteq Byte
    /\ \A h \in Hashes : /\ h.oid \in Seq(Byte) /\ h.hash_len \in Nat
                        /\ Len(h.oid) + h.hash_len + 8 < Half
    /\ {"null", "oid", "octets", "sequence"} \subseteq DOMAIN Tag

VARIABLES modulus,      \* n of the key pair at hand
          em,           \* what the message in transit decodes to
          sent,         \* what its sender meant by it
          damaged,      \* bytes of em changed since
          pk            \* the call under way or the last one

pkcsVars == <<modulus, em, sent, damaged, pk>>

Nothing == <<>>
K == Len(modulus)       \* mod_bytes

Below(a, b) == \E i \in 1 .. K : a[i] < b[i] /\ \A j \in 1 .. i - 1 : a[j] = b[j]

(* msg: what the caller passed; room: *out_len then; out, outLen: at return *)
Call(op, msg, room, ret, out, outLen) ==
    [at |-> "idle", op |-> op, msg |-> msg, room |-> room,
     ret |-> ret, out |-> out, outLen |-> outLen]

Fails(op, msg, room, ret) == Call(op, msg, room, ret, Nothing, room)

Unsent == [op |-> "none", msg |-> Nothing]

PkcsInit ==
    /\ modulus \in Moduli
    /\ \/ em = Nothing                              \* nothing in transit yet
       \/ em = [i \in 1 .. Len(modulus) |-> 0]      \* a zero
    /\ sent = Unsent /\ damaged = 0
    /\ pk = Fails("none", Nothing, 0, "OK")

Ready == pk.at = "idle"
Answer(c) == pk' = c /\ UNCHANGED <<modulus, em, sent, damaged>>

-----------------------------------------------------------------------------
(* Padding.                                                                *)

PadTakes(di) == K >= 11 + Len(di)

(* Type 1: of 0xFF.                                                        *)
SignaturePad(di) == <<0, 1>> \o [i \in 1 .. K - 3 - Len(di) |-> Base - 1] \o <<0>> \o di

(* Mutant of PsLenOk: one byte short.                                      *)
PsLenOkShort(psLen) == (psLen - 7 + 65536) % 65536 < 32768

(* (uint16_t)ps_len - 8 in 16 bits is not negative.                        *)
PsLenOk(psLen) == ((psLen % 65536) - 8 + 65536) % 65536 < 32768

(* Type 2: the message, if the padding is right and the message fits.      *)
UnpadCipher(x, room) ==
    LET zeros == {i \in 3 .. K : x[i] = 0}
        end   == IF zeros = {} THEN 3 ELSE CHOOSE i \in zeros : \A j \in zeros : i <= j
        m     == SubSeq(x, end + 1, K)
        ok    == /\ K >= 11
                 /\ x[1] = 0 /\ x[2] = 2 /\ zeros # {}
                 /\ \A i \in 3 .. end - 1 : x[i] # 0
                 /\ PsLenOk(end - 3)
                 /\ Len(m) <= room
    IN  IF ok THEN <<m>> ELSE <<>>

(* Type 1: is it the padding of di?                                        *)
UnpadSignature(x, di) ==
    LET end == K - Len(di)
    IN  /\ K >= 11 + Len(di)
        /\ x[1] = 0 /\ x[2] = 1 /\ x[end] = 0
        /\ \A i \in 3 .. end - 1 : x[i] = Base - 1
        /\ PsLenOk(end - 3)
        /\ SubSeq(x, end + 1, K) = di

-----------------------------------------------------------------------------
(* DigestInfo.                                                             *)

DigestinfoDerLen(h) == Len(h.oid) + h.hash_len + 10

Written(w, kind, bytes) == WriteParts(w, PartsOf([kind |-> kind, bytes |-> bytes])).w

(* sdc_asn1_write_sequence_end of a sequence begun with the buffer empty.  *)
SequenceEnd(w) == WriteParts(w, Header(Tag.sequence, Len(w.out))).w

Algorithm(h) ==
    SequenceEnd(Written(Written([room |-> DigestinfoDerLen(h), out |-> <<>>, error |-> FALSE],
                                "null", <<>>), "oid", h.oid))

OutOf(w) == IF w.error THEN Nothing ELSE w.out

BuildDigestinfo(h, digest) == OutOf(SequenceEnd(Written(Algorithm(h), "octets", digest)))

-----------------------------------------------------------------------------
(* RSAES.                                                                  *)

(* A modulus below 11 bytes: mod_bytes - 11 is a huge size_t.              *)
Encrypt(m, room) ==
    /\ Ready /\ em = Nothing
    /\ Answer(CASE K >= 11 /\ Len(m) > K - 11 -> Fails("encrypt", m, room, "INVALID_PARAM")
                [] room < K -> Call("encrypt", m, room, "BUFFER_TOO_SMALL", Nothing, K)
                [] ~PadTakes(m) -> Fails("encrypt", m, room, "INVALID_PARAM")
                [] OTHER -> [Call("encrypt", m, room, "OK", <<0, 2>>, room) EXCEPT !.at = "pad"])

(* A zero is drawn again.                                                  *)
DrawByte(b) ==
    /\ pk.at = "pad" /\ b # 0
    /\ LET filled == Append(pk.out, b)
           done   == Len(filled) = K - 1 - Len(pk.msg)
       IN  Answer([pk EXCEPT !.out = IF done THEN filled \o <<0>> \o pk.msg ELSE filled,
                             !.at  = IF done THEN "seal" ELSE @])

DrawFails == pk.at = "pad" /\ Answer([pk EXCEPT !.at = "idle", !.ret = "RANDOM_FAIL"])

Seal ==
    /\ pk.at = "seal"
    /\ \/ Answer([pk EXCEPT !.at = "idle", !.ret = "MEM_ALLOCATE_FAIL"])
       \/ /\ ~Below(pk.out, modulus)
          /\ Answer([pk EXCEPT !.at = "idle", !.ret = "KEY_INVALID"])
       \/ /\ Below(pk.out, modulus)
          /\ em' = pk.out
          /\ sent' = [op |-> "encrypt", msg |-> pk.msg]
          /\ pk' = [pk EXCEPT !.at = "idle", !.outLen = K]
          /\ UNCHANGED <<modulus, damaged>>

Decrypt(room, cipherLen) ==
    LET m == UnpadCipher(em, room)
    IN  /\ Ready /\ em # Nothing
        /\ IF cipherLen # K THEN Answer(Fails("decrypt", Nothing, room, "INVALID_PARAM"))
           ELSE \/ \E ret \in {"MEM_ALLOCATE_FAIL", "RANDOM_FAIL"} :
                      Answer(Fails("decrypt", Nothing, room, ret))
                \/ Answer(IF ~Below(em, modulus) \/ m = <<>>
                          THEN Fails("decrypt", Nothing, room, "KEY_INVALID")
                          ELSE Call("decrypt", Nothing, room, "OK", m[1], Len(m[1])))

-----------------------------------------------------------------------------
(* RSASSA.  The _sign and _verify functions hash the message first.        *)

Hashed(h, d) == [oid |-> h.oid, digest |-> d]

SignInfo(di, what, room) ==
    LET F(ret) == Answer(Fails("sign", what, room, ret))
    IN  \/ F("MEM_ALLOCATE_FAIL")
        \/ /\ di = Nothing \/ ~PadTakes(di)
           /\ F("INVALID_PARAM")
        \/ /\ di # Nothing /\ PadTakes(di)
           /\ F(IF Below(SignaturePad(di), modulus) THEN "RANDOM_FAIL" ELSE "KEY_INVALID")
        \/ /\ di # Nothing /\ PadTakes(di) /\ Below(SignaturePad(di), modulus)
           /\ em' = SignaturePad(di)
           /\ sent' = [op |-> "sign", msg |-> what]
           /\ pk' = Call("sign", what, room, "OK", Nothing, K)
           /\ UNCHANGED <<modulus, damaged>>

SignHash(h, d, room) ==
    /\ Ready /\ em = Nothing
    /\ IF Len(d) # h.hash_len THEN Answer(Fails("sign", Hashed(h, d), room, "INVALID_PARAM"))
       ELSE IF room < K
       THEN Answer(Call("sign", Hashed(h, d), room, "BUFFER_TOO_SMALL", Nothing, K))
       ELSE \E di \in {BuildDigestinfo(h, d)} : SignInfo(di, Hashed(h, d), room)

Verdict(di) ==
    CASE di = Nothing -> "INVALID_PARAM"
      [] di # Nothing /\ Below(em, modulus) /\ UnpadSignature(em, di) -> "OK"
      [] OTHER -> "KEY_INVALID"

VerifyHash(h, d, sigLen) ==
    LET F(ret) == Answer(Fails("verify", Hashed(h, d), 0, ret))
    IN  /\ Ready /\ em # Nothing
        /\ IF Len(d) # h.hash_len \/ sigLen # K THEN F("INVALID_PARAM")
           ELSE F("MEM_ALLOCATE_FAIL") \/ F(Verdict(BuildDigestinfo(h, d)))

-----------------------------------------------------------------------------

(* On its way the message changes in one byte of what it decodes to.       *)
Corrupt(i, b) ==
    /\ Ready /\ em # Nothing /\ damaged < MaxDamaged /\ em[i] # b
    /\ em' = [em EXCEPT ![i] = b]
    /\ damaged' = damaged + 1
    /\ pk' = Fails("none", Nothing, 0, "OK")
    /\ UNCHANGED <<modulus, sent>>

PkcsNext ==
    \/ \E m \in Plain, s \in Spare : Encrypt(m, K + s)
    \/ \E b \in Draws : DrawByte(b)
    \/ DrawFails \/ Seal
    \/ \E room \in 0 .. 3, len \in {K, K - 1} : Decrypt(room, len)
    \/ \E h \in Hashes, d \in Digests, s \in Spare : SignHash(h, d, K + s)
    \/ \E h \in Hashes, d \in Digests, len \in {K, K - 1} : VerifyHash(h, d, len)
    \/ \E i \in 1 .. K, b \in Damage : Corrupt(i, b)

PkcsSpec == PkcsInit /\ [][PkcsNext]_pkcsVars

-----------------------------------------------------------------------------
(* Properties.                                                             *)

(* RFC 8017: 00 || type || at least eight bytes of padding || 00 || m.     *)
Encodes(x, type, m) ==
    LET ps == SubSeq(x, 3, K - Len(m) - 1)
    IN  /\ K - Len(m) - 3 >= 8
        /\ x = <<0, type>> \o ps \o <<0>> \o m
        /\ \A i \in DOMAIN ps : IF type = 1 THEN ps[i] = 255 ELSE ps[i] # 0

(* sdc_rsaes_pkcs1v15_decrypt, sdc_rsassa_pkcs1v15_verify_hash: whatever   *)
(* changed on the way, a message is decrypted exactly when it is the       *)
(* encoding of one that fits, and to that one, and a refusal writes none   *)
(* of it; a signature verifies exactly for the encoding of that hash's     *)
(* DigestInfo; and what arrives unchanged is what was sent.                *)
PaddingExact ==
    Ready /\ pk.ret \in {"OK", "KEY_INVALID"} =>
        /\ pk.op = "decrypt" =>
            IF pk.ret = "OK"
            THEN Encodes(em, 2, pk.out) /\ pk.outLen = Len(pk.out) /\ pk.outLen <= pk.room
            ELSE /\ pk.out = Nothing
                 /\ \A j \in 3 .. K + 1 :
                        Encodes(em, 2, SubSeq(em, j, K)) =>
                            K + 1 - j > pk.room \/ ~Below(em, modulus)
        /\ pk.op = "verify" =>
            \E h \in Hashes :
                /\ pk.msg.oid = h.oid
                /\ pk.ret = "OK" <=> Below(em, modulus)
                                       /\ Encodes(em, 1, BuildDigestinfo(h, pk.msg.digest))
        /\ pk.op \in {"decrypt", "verify"} /\ damaged = 0 =>
            \/ pk.op = "decrypt" /\ pk.ret = "OK" /\ sent = [op |-> "encrypt", msg |-> pk.out]
            \/ pk.op = "verify" /\ (pk.ret = "OK" <=> sent = [op |-> "sign", msg |-> pk.msg])
            \/ pk.op = "decrypt" /\ pk.ret = "KEY_INVALID"
                 /\ (sent.op = "encrypt" => Len(sent.msg) > pk.room)

(* rsa.h:38-40, of all functions with an out_len: "If *out_len is too      *)
(* small, the function returns SDC_ERR_BUFFER_TOO_SMALL and sets *out_len  *)
(* to the required size."  So does sdc_rsaes_pkcs1v15_decrypt, of a        *)
(* message longer than the caller's buffer.                                *)
DecryptTellsSize ==
    pk.op = "decrypt" /\ pk.ret \in {"OK", "KEY_INVALID", "BUFFER_TOO_SMALL"}
        /\ damaged = 0 /\ sent.op = "encrypt" /\ Len(sent.msg) > pk.room
        => pk.ret = "BUFFER_TOO_SMALL" /\ pk.outLen = Len(sent.msg)

Tlv(tag, content) == <<tag, Len(content)>> \o content

(* pkcs1v15.c:314, "Build DigestInfo: SEQUENCE { SEQUENCE { OID, NULL },   *)
(* OCTET STRING }": so is what a signature is made of.                     *)
DigestInfoOrder ==
    sent.op = "sign" /\ damaged = 0 =>
        Encodes(em, 1, Tlv(Tag.sequence,
            Tlv(Tag.sequence, Tlv(Tag.oid, sent.msg.oid) \o Tlv(Tag.null, <<>>))
                \o Tlv(Tag.octets, sent.msg.digest)))
=============================================================================
