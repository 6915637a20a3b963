-------------------------------- MODULE Limbs --------------------------------
(***************************************************************************)
(* Numbers modulo 2^(the sum of Widths) - Fold as unreduced limbs: the     *)
(* field files of src/src/ec/curve25519.  A string of bytes is its         *)
(* little-endian value.                                                    *)
(***************************************************************************)
EXTENDS Integers, Sequences, SequencesExt, Functions

CONSTANTS Widths,   \* bits of each limb: 26, 25, 26, ... or 51, 51, ...
          Fold,     \* 19
          ByteBits  \* 8

N == Len(Widths)

(* Position of limb i in the number, limbs counted from 0.                 *)
Pos(i) == FoldLeft(LAMBDA s, w : s + w, 0, SubSeq(Widths, 1, i))

Modulus == 2 ^ Pos(N) - Fold

Limb == 0 .. N - 1

(* a * b modulo the modulus, a digit of b at a time: numbers stay below    *)
(* 2^31 for moduli below 2^27.                                             *)
TimesMod(a, b) ==
    FoldLeft(LAMBDA r, i : (((16 * r) % Modulus) + a * ((b \div 16 ^ (7 - i)) % 16)) % Modulus,
             0, [i \in 1 .. 7 |-> i])

Value(h) ==
    FoldLeft(LAMBDA s, i : (s + TimesMod(2 ^ Pos(i), h[i] % Modulus)) % Modulus,
             0, [i \in 1 .. N |-> i - 1])

(* What limb i times limb j weighs at limb (i + j) % N: the fold when it   *)
(* wraps, and twice when two half-bit positions meet.                      *)
Weight(i, j) ==
    LET k == i + j
    IN  (IF k >= N THEN Fold ELSE 1)
            * 2 ^ (Pos(i) + Pos(j) - Pos(k % N) - (IF k >= N THEN Pos(N) ELSE 0))

(* fe_mul's sums of products.                                              *)
Products(f, g) ==
    [k \in Limb |->
        FoldLeft(LAMBDA s, i : LET j == (k - i + N) % N
                               IN  s + Weight(i, j) * f[i] * g[j],
                 0, [i \in 1 .. N |-> i - 1])]

(* fe_sq's: each mixed product once, doubled.                              *)
Squares(f) ==
    [k \in Limb |->
        FoldLeft(LAMBDA s, i : LET j == (k - i + N) % N
                               IN  IF i < j THEN s + 2 * Weight(i, j) * f[i] * f[j]
                                   ELSE IF i = j THEN s + Weight(i, i) * f[i] * f[i]
                                   ELSE s,
                 0, [i \in 1 .. N |-> i - 1])]

Scaled(f, k) == [i \in Limb |-> f[i] * k]
Plus(f, g)   == [i \in Limb |-> f[i] + g[i]]
Minus(f, g)  == [i \in Limb |-> f[i] - g[i]]

(* Move what exceeds limb i, rounded by half, to the next limb; from the   *)
(* last one it comes back to the first, folded.                            *)
CarryFrom(h, i, half) ==
    LET carry == (h[i] + half) \div 2 ^ Widths[i + 1]
        cut   == [h EXCEPT ![i] = @ - carry * 2 ^ Widths[i + 1]]
    IN  IF i = N - 1 THEN [cut EXCEPT ![0] = @ + Fold * carry]
        ELSE [cut EXCEPT ![i + 1] = @ + carry]

Rounding(i) == 2 ^ (Widths[i + 1] - 1)

Zero == [i \in Limb |-> 0]
One  == [i \in Limb |-> IF i = 0 THEN 1 ELSE 0]

Swapped(f, g, b) == IF b = 1 THEN <<g, f>> ELSE <<f, g>>

(* Carries of fe_tobytes, the top one dropped, and the bytes' value.       *)
Packed(h) ==
    LET last == N - 1
        up == FoldLeft(LAMBDA s, i : CarryFrom(s, i, 0), h, [i \in 1 .. last |-> i - 1])
        top == [up EXCEPT ![last] = @ % 2 ^ Widths[N]]
    IN  FoldLeft(LAMBDA s, i : s + top[i] * 2 ^ Pos(i), 0, [i \in 1 .. N |-> i - 1])

(* The number of moduli to take away: q ripples through the limbs.         *)
Quotient(h, first) ==
    FoldLeft(LAMBDA q, i : (h[i] + q) \div 2 ^ Widths[i + 1], first, [i \in 1 .. N |-> i - 1])

-----------------------------------------------------------------------------
(* ed25519/fe.c and x25519/fe32.c: ten signed limbs of 26 and 25 bits.     *)

FeAdd(f, g) == Plus(f, g)
FeSub(f, g) == Minus(f, g)
FeNeg(f)    == [i \in Limb |-> -f[i]]
FeCmov(f, g, b) == IF b = 1 THEN g ELSE f

(* The carries of fe_mul: two chains from limb 0 and from the middle, side *)
(* by side, then the last limb, then limb 0 again.                         *)
CarryOrder ==
    FlattenSeq([i \in 1 .. N \div 2 |-> <<i - 1, i - 2 + (N \div 2)>>]) \o <<N - 1, 0>>

Carried(h, order) ==
    FoldLeft(LAMBDA s, i : CarryFrom(s, i, Rounding(i)), h, order)

FeMulCarry(h) == Carried(h, CarryOrder)

(* fe_frombytes, fe_mul121666: odd limbs from the last, then even ones.    *)
OddThenEven ==
    <<N - 1>> \o [i \in 1 .. (N \div 2) - 1 |-> 2 * i - 1] \o [i \in 1 .. N \div 2 |-> 2 * i - 2]

FeMul(f, g) == FeMulCarry(Products(f, g))
FeSq(f)     == FeMulCarry(Squares(f))
FeSq2(f)    == FeMulCarry(Scaled(Squares(f), 2))
FeMulSmall(f, k) == Carried(Scaled(f, k), OddThenEven)

(* fe_frombytes cuts the string at whole bytes: limb i takes the bits from *)
(* the first byte at or above its position.  Bits above the modulus are    *)
(* dropped.                                                                *)
Start(i) ==
    IF i = N THEN Pos(N) ELSE ByteBits * ((Pos(i) + ByteBits - 1) \div ByteBits)

FeFromBytes(s) ==
    Carried([i \in Limb |-> ((s \div 2 ^ Start(i)) % 2 ^ (Start(i + 1) - Start(i)))
                                * 2 ^ (Start(i) - Pos(i))], OddThenEven)

(* Mutant of FeToBytes: the quotient is estimated from the limbs alone.    *)
FeToBytesPlain(h) == Packed([h EXCEPT ![0] = @ + Fold * Quotient(h, 0)])

FeToBytes(h) ==
    LET last == N - 1
        first == (Fold * h[last] + Rounding(last)) \div 2 ^ Widths[N]
    IN  Packed([h EXCEPT ![0] = @ + Fold * Quotient(h, first)])

FeIsNegative(f) == FeToBytes(f) % 2
FeIsNonzero(f)  == IF FeToBytes(f) # 0 THEN 1 ELSE 0

-----------------------------------------------------------------------------
(* x25519/fe64.c: five unsigned limbs of 51 bits.                          *)

Upwards == [i \in 1 .. N |-> i - 1]

CarriedUp(h, order) == FoldLeft(LAMBDA s, i : CarryFrom(s, i, 0), h, order)

(* fe_sub reduces g so far that twice the modulus covers every limb.       *)
TwiceModulus == [i \in Limb |-> 2 * (2 ^ Widths[i + 1] - (IF i = 0 THEN Fold ELSE 1))]

Fe64Sub(f, g) == Minus(Plus(f, TwiceModulus), CarriedUp(g, Upwards \o <<0>>))

Fe64Add(f, g) == Plus(f, g)

Fe64MulCarry(h) == CarriedUp(h, Upwards \o <<0, 1>>)
Fe64Mul(f, g)   == Fe64MulCarry(Products(f, g))
Fe64Sq(f)       == Fe64MulCarry(Squares(f))
Fe64MulSmall(f, k) == CarriedUp(Scaled(f, k), Upwards \o <<0, 1>>)

Fe64FromBytes(s) == [i \in Limb |-> (s \div 2 ^ Pos(i)) % 2 ^ Widths[i + 1]]

Fe64ToBytes(h) ==
    LET first == [h EXCEPT ![0] = @ + Fold]
        q == Quotient(first, 0)
    IN  Packed([h EXCEPT ![0] = @ + Fold * q])
=============================================================================
