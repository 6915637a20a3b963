-------------------------------- MODULE Der ---------------------------------
(***************************************************************************)
(* src/src/asn1/asn1write.c and asn1parse.c: the DER writer, which fills   *)
(* the caller's buffer from its end, and the DER reader.                   *)
(*                                                                         *)
(* A caller writes a tree of values in reverse order, containers by        *)
(* begin / end, and reads the bytes again, perhaps after they were cut or  *)
(* changed on the way.  DerWriter has the bytes of each call.              *)
(***************************************************************************)
EXTENDS DerWriter

CONSTANTS U64Bytes,     \* 8 in the code
          Rooms,        \* bound: lengths of the writer's buffer
          ReadRooms,    \* bound: what the reader's caller has room for
          Writes,       \* bound: values a caller writes
          Damage,       \* bound: bytes that turn up instead of others
          MaxWrites,    \* bound: writing calls
          MaxDamaged,   \* bound: writing calls behind an output that is damaged
          MaxReads      \* bound: reading calls

NoBuffer == -1          \* a NULL buffer: the caller asks for the length

(* What a caller may ask to be written: its sizes and one byte more fit    *)
(* size_t.                                                                 *)
Fits(n) == n \in Nat /\ n + 1 < Power(SizeBytes)

(* The date and time of day a caller's timestamp stands for.               *)
Date == [y : Nat, m : Nat, d : Nat, h : Nat, mi : Nat, s : Nat]

Writable(v) ==
    /\ v.kind \in {"null", "boolean", "integer", "u64", "words", "bits", "time",
                   "octets", "oid", "utf8"}
    /\ IF v.kind = "words"
       THEN v.bytes \in Seq(Nat) /\ Fits(Len(v.bytes) * WordBytes)
       ELSE v.bytes \in Seq(Byte) /\ Fits(Len(v.bytes))
    /\ v.kind = "u64" => v.val \in 0 .. Power(U64Bytes) - 1
    /\ v.kind = "bits" => v.val \in Nat
    /\ v.kind = "time" => v.val \in Date

ASSUME DerAssumption ==
    /\ U64Bytes \in Nat \ {0} /\ Fits(U64Bytes) /\ Fits(13)
    /\ \A room \in Rooms : Fits(room)
    /\ ReadRooms \subseteq Nat \cup {NoBuffer}
    /\ \A v \in Writes : Writable(v)
    /\ Damage \subseteq Byte
    /\ {"null", "boolean", "integer", "bits", "octets", "oid", "utf8", "utctime", "gentime",
        "sequence", "set"} \subseteq DOMAIN Tag

VARIABLES writer,   \* sdc_asn1_writer_t: room, the bytes from pos on, error
          frames,   \* the containers begun, with what was written in each
          whole,    \* history: no handle has changed a byte the writer wrote
          der,      \* the bytes handed to the reader
          readers,  \* sdc_asn1_reader_t, one per container being read
          last,     \* what the last call returned
          calls     \* calls made in this phase

vars == <<writer, frames, whole, der, readers, last, calls>>

-----------------------------------------------------------------------------
(* Calls of the writer.                                                    *)

Writer == [room : Rooms, out : Seq(Byte), error : BOOLEAN]

(* The calendar helpers of asn1write.c, which asn1time.c repeats.          *)
IsLeapYear(y) == (y % 4 = 0 /\ y % 100 # 0) \/ y % 400 = 0

DaysInMonth(y, m) ==
    IF m \notin 1 .. 12 THEN 0
    ELSE IF m = 2 /\ IsLeapYear(y) THEN 29
    ELSE <<31, 28, 31, 30, 31, 30, 31, 31, 30, 31, 30, 31>>[m]

(* The value a call of a writing function stands for.                      *)
Item(tag, val, kids) == [tag |-> tag, val |-> val, kids |-> kids]

ItemOf(v) ==
    CASE v.kind = "null"    -> Item("null", <<>>, <<>>)
      [] v.kind = "boolean" -> Item("boolean", <<IF v.val = 0 THEN 0 ELSE 1>>, <<>>)
      [] v.kind = "integer" -> Item("integer", <<FromBE(v.bytes)>>, <<>>)
      [] v.kind = "u64"     -> Item("integer", <<v.val>>, <<>>)
      [] v.kind = "words"   -> Item("integer", <<FromBE(WordsOctets(v.bytes))>>, <<>>)
      [] v.kind = "time"    -> Item("utctime", <<v.val>>, <<>>)
      [] OTHER              -> Item(v.kind, v.bytes, <<>>)

Nothing == [op |-> "none", ret |-> "OK", room |-> 0, value |-> <<>>, at |-> 0, expect |-> <<>>]

(* A container and its handle: length and pos of the second writer.        *)
Frame(tag, start) == [tag |-> tag, start |-> start, at |-> start, items |-> <<>>]

Top == frames[Len(frames)]

Init ==
    /\ \E room \in Rooms : writer = [room |-> room, out |-> <<>>, error |-> FALSE]
    /\ frames = <<Frame("top", writer.room)>>
    /\ whole = TRUE
    /\ der = <<>>
    /\ readers = <<>>
    /\ last = Nothing
    /\ calls = 0

Writing == readers = <<>> /\ calls < MaxWrites

Wrote(res, newFrames) ==
    /\ writer' = res.w
    /\ last' = [Nothing EXCEPT !.op = "write", !.ret = res.ret]
    /\ frames' = IF res.ret = "OK" THEN newFrames ELSE frames
    /\ calls' = calls + 1
    /\ UNCHANGED <<whole, der, readers>>

Write(v) ==
    /\ Writing
    /\ IF v.kind = "bits" /\ ~BitStringTaken(v.bytes, v.val)
       THEN Wrote([w |-> writer, ret |-> "BAD_FORMAT"], frames)
       ELSE Wrote(WriteParts(writer, PartsOf(v)),
                  [frames EXCEPT ![Len(frames)].items = <<ItemOf(v)>> \o @])

(* sdc_malloc fails in write_integer_from_words: nothing is latched.       *)
WriteNoMemory(v) ==
    Writing /\ v.kind = "words" /\ Wrote([w |-> writer, ret |-> "MEM_ALLOCATE_FAIL"], frames)

(* write_sequence_begin, write_set_begin, write_bit_string_begin.          *)
Begin(tag) ==
    /\ Writing
    /\ Wrote([w |-> writer, ret |-> IF writer.error THEN "WRITE_ERROR" ELSE "OK"],
             Append(frames, Frame(tag, WriterPos(writer))))

(* The caller writes a byte through a handle that begin gave it.  The      *)
(* handle has its own place, where the container began: what the writer    *)
(* wrote since then is written over.                                       *)
WriteToHandle(i, b) ==
    LET k == frames[i].at - WriterPos(writer)
    IN  /\ Writing /\ frames[i].at > 0
        /\ writer' = IF k > 0 THEN [writer EXCEPT !.out[k] = b] ELSE writer
        /\ frames' = [frames EXCEPT ![i].at = @ - 1]
        /\ whole' = (whole /\ writer' = writer)
        /\ last' = [Nothing EXCEPT !.op = "write"]
        /\ calls' = calls + 1
        /\ UNCHANGED <<der, readers>>

(* What an end function puts in front of the content.                      *)
EndParts(f) ==
    LET len == f.start - WriterPos(writer)
    IN  IF f.tag = "bits" THEN <<<<0>>>> \o Header(Tag.bits, len + 1)
        ELSE Header(Tag[f.tag], len)

(* The handle is refused when it moved: the content stays, with no header. *)
End ==
    /\ Writing /\ Len(frames) > 1
    /\ LET outer     == Front(frames)
           Into(s)   == [outer EXCEPT ![Len(outer)].items = s \o @]
       IN  IF Top.at # Top.start /\ ~writer.error
           THEN /\ frames' = Into(Top.items)
                /\ last' = [Nothing EXCEPT !.op = "write", !.ret = "INVALID_PARAM"]
                /\ calls' = calls + 1
                /\ UNCHANGED <<writer, whole, der, readers>>
           ELSE Wrote(WriteParts(writer, EndParts(Top)), Into(<<Item(Top.tag, <<>>, Top.items)>>))

-----------------------------------------------------------------------------
(* The reader.  A reader's region is der[lo + 1 .. hi]; pos bytes of der   *)
(* are behind it.  Its items are what the region holds from pos on, while  *)
(* every call on it was answered with data.                                *)

Reader(lo, hi, items, sound) ==
    [lo |-> lo, pos |-> lo, hi |-> hi, items |-> items, sound |-> sound]

(* What sdc_asn1_writer_data and _length gave was taken; the writer starts *)
(* afresh.                                                                 *)
WriterDone ==
    /\ readers = <<>> /\ Len(frames) = 1 /\ ~writer.error
    /\ writer' = [room |-> writer.room, out |-> <<>>, error |-> FALSE]
    /\ frames' = <<Frame("top", writer.room)>>
    /\ whole' = TRUE
    /\ last' = Nothing
    /\ calls' = 0

(* sdc_asn1_reader_init over what the writer gave.                         *)
ReaderInit ==
    /\ WriterDone
    /\ der' = writer.out
    /\ readers' = <<Reader(0, Len(writer.out), Top.items, whole)>>

(* The bytes were changed or cut before they were read.                    *)
ReaderInitDamaged ==
    /\ WriterDone /\ calls <= MaxDamaged
    /\ \/ \E i \in 1 .. Len(writer.out), b \in Damage : der' = [writer.out EXCEPT ![i] = b]
       \/ \E n \in 0 .. Len(writer.out) - 1 : der' = SubSeq(writer.out, 1, n)
    /\ readers' = <<Reader(0, Len(der'), <<>>, FALSE)>>

Got(ret, pos, tag, len) == [ret |-> ret, pos |-> pos, tag |-> tag, len |-> len]

(* Mutant of ReadLength: a long form is taken for a short length too.      *)
ReadLengthLoose(r, n) ==
    LET len == FromBE(SubSeq(der, r.pos + 3, r.pos + 2 + n))
    IN  IF r.pos + 2 + n > r.hi THEN Got("TRUNCATED", r.hi, 0, 0)
        ELSE IF der[r.pos + 3] = 0 THEN Got("BAD_LENGTH", r.pos + 3, 0, 0)
        ELSE Got("OK", r.pos + 2 + n, der[r.pos + 1], len)

(* The n bytes of a long-form length.                                      *)
ReadLength(r, n) ==
    LET len == FromBE(SubSeq(der, r.pos + 3, r.pos + 2 + n))
    IN  IF r.pos + 3 > r.hi THEN Got("TRUNCATED", r.hi, 0, 0)
        ELSE IF der[r.pos + 3] = 0 THEN Got("BAD_LENGTH", r.pos + 3, 0, 0)
        ELSE IF r.pos + 2 + n > r.hi THEN Got("TRUNCATED", r.hi, 0, 0)
        ELSE IF len < Half THEN Got("BAD_LENGTH", r.pos + 2 + n, 0, 0)
        ELSE Got("OK", r.pos + 2 + n, der[r.pos + 1], len)

(* sdc_asn1_read_tag: what it consumed before it failed stays consumed.    *)
ReadTag(r) ==
    IF r.hi - r.pos < 2 THEN Got("TRUNCATED", r.hi, 0, 0)
    ELSE LET b == der[r.pos + 2]
             h == IF b < Half THEN Got("OK", r.pos + 2, der[r.pos + 1], b)
                  ELSE IF b - Half \notin 1 .. SizeBytes THEN Got("BAD_LENGTH", r.pos + 2, 0, 0)
                  ELSE ReadLength(r, b - Half)
         IN  IF h.ret = "OK" /\ h.len > r.hi - h.pos THEN [h EXCEPT !.ret = "TRUNCATED"] ELSE h

Answer(ret, pos, value) == [ret |-> ret, pos |-> pos, value |-> value]

(* A leading zero byte only in front of a set high bit.                    *)
MinimalInt(c) == ~(Len(c) > 1 /\ c[1] = 0 /\ c[2] < Half)

(* sdc_asn1_read_integer_to_bytes: the form is looked at after the copy.   *)
ToBytes(h, c, room) ==
    IF c = <<>> THEN Answer("BAD_FORMAT", h.pos, <<>>)
    ELSE IF room = NoBuffer THEN Answer("OK", h.pos, <<h.len>>)
    ELSE IF h.len > room THEN Answer("BUFFER_TOO_SMALL", h.pos, <<h.len>>)
    ELSE Answer(IF MinimalInt(c) THEN "OK" ELSE "BAD_FORMAT", h.pos + h.len, c)

(* sdc_asn1_read_integer_to_words.                                         *)
ToWords(h, c, room) ==
    LET need   == (h.len + WordBytes - 1) \div WordBytes
        offset == need * WordBytes - h.len
        At(p)  == IF p < offset THEN 0 ELSE c[p - offset + 1]
        words  == [w \in 1 .. need |->
                     FromBE([j \in 1 .. WordBytes |-> At(w * WordBytes - j)])]
    IN  IF c = <<>> THEN Answer("BAD_FORMAT", h.pos, <<>>)
        ELSE IF c[1] >= Half THEN Answer("NOT_IMPLEMENTED", h.pos, <<>>)
        ELSE IF ~MinimalInt(c) THEN Answer("BAD_FORMAT", h.pos, <<>>)
        ELSE IF room = NoBuffer THEN Answer("OK", h.pos, <<need>>)
        ELSE IF room < need THEN Answer("BUFFER_TOO_SMALL", h.pos, <<need>>)
        ELSE Answer("OK", h.pos + h.len, words)

(* sdc_asn1_read_integer_to_u64.                                           *)
ToU64(h, c) ==
    IF c = <<>> \/ ~MinimalInt(c) THEN Answer("BAD_FORMAT", h.pos, <<>>)
    ELSE IF h.len > U64Bytes + 1 THEN Answer("INTEGER_TOO_LARGE", h.pos, <<>>)
    ELSE IF c[1] >= Half THEN Answer("BAD_FORMAT", h.pos + h.len, <<>>)
    ELSE IF h.len = U64Bytes + 1 /\ c[1] # 0 THEN Answer("INTEGER_TOO_LARGE", h.pos + h.len, <<>>)
    ELSE Answer("OK", h.pos + h.len, <<FromBE(c)>>)

ToBoolean(h, c) ==
    IF h.len # 1 THEN Answer("BAD_FORMAT", h.pos, <<>>)
    ELSE Answer("OK", h.pos + 1, <<IF c[1] # 0 THEN 1 ELSE 0>>)

(* sdc_asn1_read_oid copies; the string functions give a pointer.          *)
ToOid(h, c, room) ==
    IF room = NoBuffer THEN Answer("OK", h.pos, <<h.len>>)
    ELSE IF h.len > room THEN Answer("BUFFER_TOO_SMALL", h.pos, <<h.len>>)
    ELSE Answer("OK", h.pos + h.len, c)

ToText(h, c, room) ==
    IF room = NoBuffer THEN Answer("OK", h.pos, <<h.len>>)
    ELSE Answer("OK", h.pos + h.len, c)

(* sdc_asn1_read_bit_string drops the number of unused bits.               *)
ToBits(h, c) ==
    IF c = <<>> \/ ~BitStringTaken(Tail(c), Head(c)) THEN Answer("BAD_FORMAT", h.pos, <<>>)
    ELSE Answer("OK", h.pos + h.len, Tail(c))

ToNull(h) == Answer(IF h.len # 0 THEN "BAD_LENGTH" ELSE "OK", h.pos, <<>>)

Two(c, i) == c[i] * 10 + c[i + 1]

(* The time of day and the calendar as asn1time.c takes them: the epoch    *)
(* itself is 0, which the readers take for "no such date".                 *)
TimeTaken(d) ==
    /\ d.y \in 1970 .. 9999 /\ d.m \in 1 .. 12 /\ d.d \in 1 .. DaysInMonth(d.y, d.m)
    /\ d.h < 24 /\ d.mi < 60 /\ d.s < 60
    /\ d # [y |-> 1970, m |-> 1, d |-> 1, h |-> 0, mi |-> 0, s |-> 0]

TimeOf(y, c) ==
    [y |-> y, m |-> Two(c, 1), d |-> Two(c, 3), h |-> Two(c, 5), mi |-> Two(c, 7), s |-> Two(c, 9)]

(* parse_2_digits, parse_4_digits and the two-digit year.                  *)
UtcTime(c) == TimeOf((IF Two(c, 1) >= 50 THEN 1900 ELSE 2000) + Two(c, 1), SubSeq(c, 3, 12))

GeneralizedTime(c) == TimeOf(100 * Two(c, 1) + Two(c, 3), SubSeq(c, 5, 14))

(* sdc_asn1_read_utctime (13 bytes) and _generalized_time (15).            *)
ToTime(h, c, len, date) ==
    IF h.len # len THEN Answer("BAD_FORMAT", h.pos, <<>>)
    ELSE IF c[len] # Zed \/ (\E i \in 1 .. len - 1 : c[i] > 9) \/ ~TimeTaken(date)
         THEN Answer("BAD_FORMAT", h.pos + len, <<>>)
         ELSE Answer("OK", h.pos + len, <<date>>)

(* The tag each reading function asks for.                                 *)
Asks == [bytes |-> "integer", words |-> "integer", u64 |-> "integer", boolean |-> "boolean",
         oid |-> "oid", utf8 |-> "utf8", octets |-> "octets", bits |-> "bits", null |-> "null",
         utctime |-> "utctime", gentime |-> "gentime", sequence |-> "sequence", set |-> "set"]

Read(op, room) ==
    LET r == readers[Len(readers)]
        h == ReadTag(r)
        c == SubSeq(der, h.pos + 1, h.pos + h.len)
    IN  IF h.ret # "OK" THEN Answer(h.ret, h.pos, <<>>)
        ELSE IF op = "skip" THEN Answer("OK", h.pos + h.len, <<>>)
        ELSE IF h.tag # Tag[Asks[op]] THEN Answer("BAD_TAG", h.pos, <<>>)
        ELSE CASE op = "bytes"   -> ToBytes(h, c, room)
               [] op = "words"   -> ToWords(h, c, room)
               [] op = "u64"     -> ToU64(h, c)
               [] op = "boolean" -> ToBoolean(h, c)
               [] op = "oid"     -> ToOid(h, c, room)
               [] op = "bits"    -> ToBits(h, c)
               [] op = "null"    -> ToNull(h)
               [] op = "utctime" -> ToTime(h, c, 13, UtcTime(c))
               [] op = "gentime" -> ToTime(h, c, 15, GeneralizedTime(c))
               [] op \in {"utf8", "octets"}  -> ToText(h, c, room)
               [] op \in {"sequence", "set"} -> Answer("OK", h.pos + h.len, c)

(* Which calls only ask for a length.                                      *)
Sized == {"bytes", "words", "oid", "utf8", "octets"}
Query(op, room) == room = NoBuffer /\ op \in Sized

(* sdc_asn1_expect_tag, by peek_tag: the reader is not moved.              *)
ExpectTag(r, name) ==
    IF r.pos >= r.hi THEN "TRUNCATED" ELSE IF der[r.pos + 1] # Tag[name] THEN "BAD_TAG" ELSE "OK"

Reading == readers # <<>> /\ calls < MaxReads

ReadStep(op, room) ==
    /\ Reading /\ (op \notin Sized => room = NoBuffer)
    /\ LET r     == readers[Len(readers)]
           a     == Read(op, room)
           sound == r.sound /\ a.ret = "OK" /\ ~Query(op, room)
       IN  /\ readers' = [readers EXCEPT ![Len(readers)] =
                            [r EXCEPT !.pos = a.pos, !.sound = sound,
                                      !.items = IF sound THEN Tail(@) ELSE @]]
           /\ last' = [op |-> op, ret |-> a.ret, room |-> room, value |-> a.value, at |-> r.pos,
                       expect |-> IF r.sound THEN r.items ELSE <<>>]
    /\ calls' = calls + 1
    /\ UNCHANGED <<writer, frames, whole, der>>

Expect(name) ==
    /\ Reading
    /\ LET r == readers[Len(readers)]
       IN  last' = [op |-> name, ret |-> ExpectTag(r, name), room |-> NoBuffer, value |-> <<>>,
                    at |-> r.pos, expect |-> IF r.sound THEN r.items ELSE <<>>]
    /\ calls' = calls + 1
    /\ UNCHANGED <<writer, frames, whole, der, readers>>

(* The content just read, when it is a container's, gets its own reader.   *)
Enter ==
    /\ Reading /\ last.op \in {"sequence", "set", "bits"} /\ last.ret = "OK" /\ last.value # <<>>
    /\ LET r    == readers[Len(readers)]
           kids == IF last.expect = <<>> THEN <<>> ELSE Head(last.expect).kids
       IN  readers' = Append(readers, Reader(r.pos - Len(last.value), r.pos, kids, kids # <<>>))
    /\ last' = Nothing
    /\ UNCHANGED <<writer, frames, whole, der, calls>>

(* The reader of a container is let go.                                    *)
Leave ==
    /\ Len(readers) > 1
    /\ readers' = Front(readers)
    /\ last' = Nothing
    /\ UNCHANGED <<writer, frames, whole, der, calls>>

Next ==
    \/ \E v \in Writes : Write(v) \/ WriteNoMemory(v)
    \/ \E tag \in {"sequence", "set", "bits"} : Begin(tag)
    \/ \E i \in 2 .. Len(frames), b \in Damage : WriteToHandle(i, b)
    \/ End
    \/ ReaderInit
    \/ ReaderInitDamaged
    \/ \E op \in DOMAIN Asks \cup {"skip"}, room \in ReadRooms \cup {NoBuffer} : ReadStep(op, room)
    \/ \E name \in {"null", "sequence"} : Expect(name)
    \/ Enter
    \/ Leave

Spec == Init /\ [][Next]_vars

-----------------------------------------------------------------------------
(* TYPE INVARIANT.  The writer stays in its buffer, and every reader stays *)
(* in its region and its region in the bytes of the reader around it.      *)
TypeOK ==
    /\ writer \in Writer /\ Len(writer.out) <= writer.room
    /\ der \in Seq(Byte)
    /\ \A i \in DOMAIN readers :
         /\ readers[i].pos \in readers[i].lo .. readers[i].hi
         /\ readers[i].hi <= IF i = 1 THEN Len(der) ELSE readers[i - 1].pos

(* What a reading function should return for an item, where it takes it.   *)
(* The writer's two digits of the year stand for 1950 .. 2049 only, and it *)
(* does not look.                                                          *)
Means(op, item) ==
    /\ op \in DOMAIN Asks /\ Asks[op] = item.tag
    /\ item.tag = "utctime" => TimeTaken(item.val[1]) /\ item.val[1].y < 2050

(* A length that is asked for is one the value fits in.                    *)
Enough(op, n, item) ==
    CASE op = "bytes" -> item.val[1] < Power(n)
      [] op = "words" -> item.val[1] < Power(n * WordBytes)
      [] OTHER        -> n = Len(item.val)

(* A value that is given is the item's.  integer_to_words fills the words  *)
(* from the other end than integer_from_words takes them.                  *)
Given(op, value, item) ==
    /\ op = "bytes" => FromBE(value) = item.val[1]
    /\ op = "words" => FromBE(Reverse(WordsOctets(value))) = item.val[1]
    /\ op \in {"u64", "boolean", "utctime", "oid", "utf8", "octets"} => value = item.val
    /\ op = "bits" /\ item.kids = <<>> => value = item.val

(* SAFETY.  Until a call on a reader is answered otherwise than with data, *)
(* each answers with what was written there: a value of the asked type or  *)
(* a length that holds it, BAD_TAG for another type, and TRUNCATED only    *)
(* after the last item.  The writer's partial failures, refused calls and  *)
(* refused end calls leave no trace in an output whose error flag is       *)
(* clear, unless a handle wrote over what was there.                       *)
ReadsBack ==
    LET item == Head(last.expect)
        r    == readers[Len(readers)]
    IN  /\ readers # <<>> /\ r.sound => (r.pos = r.hi <=> r.items = <<>>)
        /\ readers # <<>> /\ last.expect # <<>> =>
             /\ last.op \in DOMAIN Asks /\ Asks[last.op] # item.tag => last.ret = "BAD_TAG"
             /\ Means(last.op, item) =>
                  \/ /\ Query(last.op, last.room) /\ last.ret = "OK"
                     /\ Enough(last.op, last.value[1], item)
                  \/ /\ last.op \in {"bytes", "words", "oid"} /\ last.ret = "BUFFER_TOO_SMALL"
                     /\ last.value[1] > last.room /\ Enough(last.op, last.value[1], item)
                  \/ /\ last.op = "u64" /\ last.ret = "INTEGER_TOO_LARGE"
                     /\ item.val[1] >= Power(U64Bytes)
                  \/ ~Query(last.op, last.room) /\ last.ret = "OK" /\ Given(last.op, last.value, item)

(* SAFETY.  DER has one encoding of a value, and the reader holds the      *)
(* bytes it is given to it: what it accepts, from whatever source, is byte *)
(* for byte what the writer would have written for that value.             *)
Canonical ==
    LET roomy   == [room |-> 10 * Len(der) + 10, out |-> <<>>, error |-> FALSE]
        again   == IF last.op = "u64" THEN IntegerParts(U64Octets(last.value[1]))
                   ELSE <<last.value>> \o Header(Tag[Asks[last.op]], Len(last.value))
        strict  == {"null", "u64", "oid", "utf8", "octets", "sequence", "set"}
    IN  readers # <<>> /\ last.op \in strict /\ last.ret = "OK" /\ ~Query(last.op, last.room)
            /\ readers[Len(readers)].pos > last.at
        => WriteParts(roomy, again).w.out = SubSeq(der, last.at + 1, readers[Len(readers)].pos)
=============================================================================
