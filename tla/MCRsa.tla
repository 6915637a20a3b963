-------------------------------- MODULE MCRsa --------------------------------
(* Rsa with primes of two words of three bits: 53, 59 and 61.  Pkcs1 with  *)
(* moduli of 8 to 24 bytes.  The two share no state: a behaviour is one of *)
(* Rsa or one of Pkcs1.                                                    *)
EXTENDS Rsa, Pkcs1

MCBases == <<2, 3, 5, 7>>
MCExps == {3, 4, 7}
(* With 61, e = 7 and so dp = 43 the second loses its carry.               *)
MCBlinds == {<<0, 0>>, <<0, 1>>, <<5, 6>>, <<1, 0>>, <<7, 7>>, <<4, 6>>}
MCInputs == {<<0, 0, 0, 0>>, <<1, 0, 0, 0>>, <<3, 7, 0, 0>>, <<5, 2, 1, 4>>, <<7, 7, 7, 7>>,
             <<2, 0, 3, 5>>}

MCTag == [null |-> 5, boolean |-> 1, integer |-> 2, bits |-> 3, octets |-> 4, oid |-> 6,
          utf8 |-> 12, utctime |-> 23, gentime |-> 24, sequence |-> 48, set |-> 49]

Modulus(k, top) == [i \in 1 .. k |-> IF i <= Len(top) THEN top[i] ELSE 7]

(* No message can be padded with 8 bytes; with 12, one of one byte; the    *)
(* second of 12 is below every padded message, the one of 22 too short for *)
(* a DigestInfo of 12.                                                     *)
MCModuli == {Modulus(8, <<128>>), Modulus(12, <<128>>), Modulus(12, <<0, 1>>),
             Modulus(13, <<200>>), Modulus(22, <<0, 1>>), Modulus(23, <<200>>)}
MCPlain == {<<>>, <<0>>, <<5>>, <<5, 0>>, <<1, 2, 3>>}
MCHashes == {[oid |-> <<42>>, hash_len |-> 1], [oid |-> <<43>>, hash_len |-> 1]}
MCDigests == {<<0>>, <<9>>, <<9, 0>>}
MCSpare == {-1, 0}

MCInit == RsaInit /\ PkcsInit

MCNext ==
    \/ /\ modulus = Modulus(8, <<128>>) /\ em = Nothing /\ pk.op = "none"
       /\ RsaNext
       /\ UNCHANGED pkcsVars
    \/ /\ run.op = "none" /\ Between
       /\ PkcsNext
       /\ UNCHANGED rsaVars

MCSpec == MCInit /\ [][MCNext]_<<rsaVars, pkcsVars>>
=============================================================================
