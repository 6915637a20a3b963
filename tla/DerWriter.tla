----------------------------- MODULE DerWriter ------------------------------
(***************************************************************************)
(* src/src/asn1/asn1write.c: what each writing function puts in front of   *)
(* the output, and what is left of it when the buffer runs out inside.     *)
(*                                                                         *)
(* A byte is a number below Base, so that a small Base has long-form       *)
(* lengths in small buffers; digits are 0 .. 9.                            *)
(***************************************************************************)
EXTENDS Integers, Sequences, SequencesExt

CONSTANTS Base,         \* 256 in the code
          Bits,         \* 8 in the code: the bits of a byte
          SizeBytes,    \* sizeof(size_t)
          WordBytes,    \* SDC_WORD_SIZE
          Tag,          \* the ASN1_TAG_ numbers, by name
          Zed           \* 'Z'

Byte == 0 .. Base - 1
Half == Base \div 2

ASSUME DerWriterAssumption ==
    /\ Base \in Nat /\ Base > 10 /\ Base = 2 ^ Bits /\ Bits \in 1 .. Base - 1
    /\ SizeBytes \in 1 .. Half - 1 /\ WordBytes \in Nat \ {0}
    /\ \A n, m \in DOMAIN Tag : Tag[n] \in Byte /\ (Tag[n] = Tag[m] => n = m)
    /\ Zed \in Byte \ (0 .. 9)

-----------------------------------------------------------------------------
(* Numbers and bytes.                                                      *)

(* Base to the k.                                                          *)
Power(k) ==
    LET power[i \in 0 .. k] == IF i = 0 THEN 1 ELSE Base * power[i - 1]
    IN  power[k]

FromBE(s) ==
    LET number[n \in 0 .. Len(s)] == IF n = 0 THEN 0 ELSE number[n - 1] * Base + s[n]
    IN  number[Len(s)]

ToBE(n, k) == [i \in 1 .. k |-> (n \div Power(k - i)) % Base]

(* How many bytes n takes.                                                 *)
Width(n) == CHOOSE k \in 0 .. n : n < Power(k) /\ (k = 0 \/ n >= Power(k - 1))

(* Leading zeros dropped, the last byte kept.                              *)
Stripped(s) == IF FromBE(s) = 0 THEN <<0>> ELSE ToBE(FromBE(s), Width(FromBE(s)))

Digits2(n) == <<(n \div 10) % 10, n % 10>>

-----------------------------------------------------------------------------
(* The writer.                                                             *)

WriterPos(w) == w.room - Len(w.out)

(* Mutant of WriteBytesRev: one byte more than there is room for.          *)
WriteBytesRevOver(w, bytes) ==
    IF w.error THEN [w |-> w, ret |-> "WRITE_ERROR"]
    ELSE IF Len(bytes) > WriterPos(w) + 1
         THEN [w |-> [w EXCEPT !.error = TRUE], ret |-> "BUFFER_TOO_SMALL"]
         ELSE [w |-> [w EXCEPT !.out = bytes \o @], ret |-> "OK"]

(* Mutant of WriteBytesRev: an overflow is reported but not remembered.    *)
WriteBytesRevUnlatched(w, bytes) ==
    IF w.error THEN [w |-> w, ret |-> "WRITE_ERROR"]
    ELSE IF Len(bytes) > WriterPos(w) THEN [w |-> w, ret |-> "BUFFER_TOO_SMALL"]
    ELSE [w |-> [w EXCEPT !.out = bytes \o @], ret |-> "OK"]

WriteBytesRev(w, bytes) ==
    IF w.error THEN [w |-> w, ret |-> "WRITE_ERROR"]
    ELSE IF Len(bytes) > WriterPos(w)
         THEN [w |-> [w EXCEPT !.error = TRUE], ret |-> "BUFFER_TOO_SMALL"]
         ELSE [w |-> [w EXCEPT !.out = bytes \o @], ret |-> "OK"]

(* One function's writes, last part first, up to the first that fails.     *)
WriteParts(w, parts) ==
    LET done[n \in 0 .. Len(parts)] ==
            IF n = 0 THEN [w |-> w, ret |-> "OK"]
            ELSE IF done[n - 1].ret = "OK" THEN WriteBytesRev(done[n - 1].w, parts[n])
            ELSE done[n - 1]
    IN  done[Len(parts)]

(* write_length_rev.                                                       *)
LengthOctets(len) ==
    IF len < Half THEN <<len>>
    ELSE <<Half + Width(len)>> \o ToBE(len, Width(len))

(* write_tlv_header_rev.                                                   *)
Header(tag, len) == <<LengthOctets(len), <<tag>>>>

(* sdc_asn1_write_integer: the fewest bytes that leave the number positive.*)
IntegerParts(bytes) ==
    LET actual == Stripped(bytes)
    IN  IF actual[1] >= Half
        THEN <<actual, <<0>>>> \o Header(Tag.integer, Len(actual) + 1)
        ELSE <<actual>> \o Header(Tag.integer, Len(actual))

(* sdc_asn1_write_integer_u64 and _from_words: least significant first.    *)
U64Octets(n) == IF n = 0 THEN <<0>> ELSE ToBE(n, Width(n))

WordsOctets(words) ==
    [p \in 1 .. Len(words) * WordBytes |->
        ToBE(words[Len(words) - (p - 1) \div WordBytes], WordBytes)[((p - 1) % WordBytes) + 1]]

(* The unused low bits of the last byte of a BIT STRING are zero.          *)
UnusedClear(bytes, unused) ==
    Len(bytes) > 0 => bytes[Len(bytes)] % 2 ^ unused = 0

BitStringTaken(bytes, unused) ==
    unused < Bits /\ (Len(bytes) = 0 => unused = 0) /\ UnusedClear(bytes, unused)

(* format_utctime.                                                         *)
UtcDigits(d) ==
    Digits2(d.y % 100) \o Digits2(d.m) \o Digits2(d.d)
        \o Digits2(d.h) \o Digits2(d.mi) \o Digits2(d.s) \o <<Zed>>

(* What each writing function puts in front of the output, last part first.*)
PartsOf(v) ==
    CASE v.kind = "null"    -> Header(Tag.null, 0)
      [] v.kind = "boolean" -> <<<<IF v.val = 0 THEN 0 ELSE Base - 1>>>> \o Header(Tag.boolean, 1)
      [] v.kind = "integer" -> IntegerParts(v.bytes)
      [] v.kind = "u64"     -> IntegerParts(U64Octets(v.val))
      [] v.kind = "words"   -> IntegerParts(Stripped(WordsOctets(v.bytes)))
      [] v.kind = "bits"    ->
            <<v.bytes, <<v.val>>>> \o Header(Tag.bits, Len(v.bytes) + 1)
      [] v.kind = "time"    -> <<UtcDigits(v.val)>> \o Header(Tag.utctime, 13)
      [] OTHER              -> <<v.bytes>> \o Header(Tag[v.kind], Len(v.bytes))
=============================================================================
