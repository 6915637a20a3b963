-------------------------------- MODULE MCAsn1 ------------------------------
(***************************************************************************)
(* Der with bytes below 16: lengths of 8 and more take the long form, a    *)
(* number of two bytes fills a u64, and a word has two bytes.  Beside it   *)
(* AsnTime, with which it shares no state: a behaviour is one of one of    *)
(* them, the other rests.                                                  *)
(***************************************************************************)
EXTENDS Der, MCAsnTime

VARIABLE part

MCTag == [null |-> 5, boolean |-> 1, integer |-> 2, bits |-> 3, octets |-> 4, oid |-> 6,
          utf8 |-> 12, utctime |-> 7, gentime |-> 8, sequence |-> 13, set |-> 14]

Value(kind, bytes, val) == [kind |-> kind, bytes |-> bytes, val |-> val]

MCTime == [y |-> 2049, m |-> 2, d |-> 9, h |-> 0, mi |-> 5, s |-> 59]

MCWrites ==
    { Value("null", <<>>, 0),
      Value("boolean", <<>>, 2),
      Value("integer", <<0, 0, 9>>, 0),        \* a sign byte is needed
      Value("u64", <<>>, 136),                 \* 2^7 and more in two bytes: 0x88
      Value("words", <<1, 0>>, 0),
      Value("octets", <<5, 0, 13, 2, 1, 1, 1, 1>>, 0),
      Value("oid", <<2, 10, 3>>, 0),
      Value("bits", <<8>>, 3),
      Value("bits", <<8, 4>>, 3),              \* a bit set among the unused ones
      Value("time", <<>>, MCTime) }

-----------------------------------------------------------------------------
MCInit ==
    \/ part = "der"  /\ Init /\ TimeInit /\ clock = CHOOSE c \in Clocks : TRUE
    \/ part = "time" /\ TimeInit /\ Init /\ writer.room = CHOOSE r \in Rooms : TRUE

MCNext ==
    \/ part = "der"  /\ Next     /\ UNCHANGED <<part, timeVars>>
    \/ part = "time" /\ TimeNext /\ UNCHANGED <<part, vars>>

MCSpec == MCInit /\ [][MCNext]_<<part, vars, timeVars>>
=============================================================================
