----------------------------- MODULE MCArithmetic -----------------------------
(* Words of three bits, numbers of one to four of them; fields of 14 and    *)
(* 20 bits; curves over 2^15 - 19 with a base point of order 4127.          *)
EXTENDS Arithmetic

(* 2047, 3277 and 4033, strong pseudoprimes to the one base numbers of      *)
(* several words are tested with here; gen_prime takes the last two.        *)
MCPseudoprimes == {<<7, 7, 7, 3>>, <<5, 1, 3, 6>>, <<1, 0, 7, 7>>}
MCBasesLarge == <<2>>

MCNumbers ==
    Words(1) \cup Words(2)
        \cup {<<0, 0, 0>>, <<7, 7, 7>>, <<1, 0, 4>>, <<5, 2, 5>>, <<1, 7, 7>>, <<0, 0, 1>>,
              <<7, 0, 7>>} \cup MCPseudoprimes

MCOddModuli == {<<1>>, <<3>>, <<7>>, <<3, 4>>, <<5, 6>>, <<7, 7>>}
MCExponents == Words(1) \cup {<<0, 1>>, <<5, 3>>, <<7, 7>>, <<2, 4>>}

MCSWidths == <<7, 6, 7, 6>>
MCUWidths == <<4, 4, 4, 4, 4>>

(* Up to three times a product's limbs, as 1.65 * 2^26 allows.             *)
Unit(i) == 2 ^ (MCSWidths[i + 1] - 1) + 4 + (IF i = 1 THEN 60 ELSE 0)
MCSignedLimbs ==
    {[i \in 0 .. 3 |-> s[i] * Unit(i)] : s \in [0 .. 3 -> {-3, 3}] \cup [0 .. 3 -> {1}]}
    \cup {[i \in 0 .. 3 |-> s[i] * (2 ^ (MCSWidths[i + 1] - 1)) + (IF i = 0 THEN t ELSE 0)] :
            s \in [0 .. 3 -> {0, 2}] \cup [0 .. 3 -> {-2}], t \in {-3, -2}}

(* Up to twice a product's limbs.                                          *)
MCUnsignedLimbs ==
    [0 .. 4 -> {0, 33}] \cup {[i \in 0 .. 4 |-> IF i = 0 THEN t ELSE 15] : t \in {12, 13, 14, 16}}

(* Around both moduli and the byte boundaries, with the bit above them.    *)
MCFieldStrings ==
    (0 .. 4) \cup UNION {(2 ^ k - 4) .. (2 ^ k + 1) : k \in {9, 15, 20, 21, 26}}
        \cup {44739242, 89478485, 134217727, 134217724, 134217725}

MCScFold == <<1, -4>>

MCSecrets == {0, 7, 8, 4126, 4127, 4128, 16384, 27306, 32767, 43690, 65535}
MCPoints  == {0, 1, 2, 3, 9, 8513, 32748, 32749, 32750, 32767, 32768, 32777, 45000, 65535}
MCHashValues  == {0, 1, 4127, 65535, 16777216, 178956970, 268435454}
=============================================================================
