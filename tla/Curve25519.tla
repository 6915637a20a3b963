----------------------------- MODULE Curve25519 ------------------------------
(***************************************************************************)
(* src/src/ec/curve25519: the Montgomery ladder of x25519.c, and the group *)
(* and signatures of ed25519, over field elements as the formulas use      *)
(* them.                                                                   *)
(*                                                                         *)
(* An element is a value, and the size of its limbs in units of            *)
(* 1.01 * 2^25 (2^24 for the odd ones), the bound fe_mul promises.  fe_add *)
(* and fe_sub do not carry, so sizes add up; fe_mul takes operands up to   *)
(* 1.65 * 2^26 and fe_tobytes up to 1.1 * 2^26 (ed25519/fe.c).  Too large  *)
(* an operand makes the result Torn.  A string of bytes is its             *)
(* little-endian value, and a hash a free choice of the caller's.          *)
(***************************************************************************)
EXTENDS Integers, Sequences, SequencesExt

CONSTANTS Prime,        \* 2^255 - 19
          StringBits    \* 256: one bit above the field's

ASSUME CurveFieldAssumption ==
    /\ Prime \in Nat /\ Prime % 8 = 5
    /\ StringBits \in Nat /\ 2 ^ (StringBits - 2) < Prime /\ Prime < 2 ^ (StringBits - 1)

Torn == 9

El(v, size) == [v |-> v % Prime, size |-> size]
Const(v) == El(v, 0)
Loaded(s) == El(s % 2 ^ (StringBits - 1), 1)

Larger(x, y) == LET sum == x.size + y.size IN IF sum > Torn THEN Torn ELSE sum

Add(x, y) == El(x.v + y.v, Larger(x, y))
Sub(x, y) == El(x.v - y.v, Larger(x, y))
Neg(x)    == El(-x.v, x.size)
Mul(x, y) == El(x.v * y.v, IF x.size <= 3 /\ y.size <= 3 THEN 1 ELSE Torn)
Sq(x)     == Mul(x, x)
Sq2(x)    == El(2 * ((x.v * x.v) % Prime), Mul(x, x).size)
MulConst(x, k) == El(x.v * k, IF x.size <= 2 THEN 1 ELSE Torn)

(* The bits of an exponent or a scalar, most significant first.            *)
ScalarBits(k, n) == [i \in 1 .. n |-> (k \div 2 ^ (n - i)) % 2]

SquareTimes(r, by) == (((r * r) % Prime) * by) % Prime

PowValue(v, e) ==
    LET r[k \in 0 .. e] ==
            IF k = 0 THEN 1 ELSE SquareTimes(r[k \div 2], IF k % 2 = 1 THEN v ELSE 1)
    IN  r[e]

(* Every product of a power takes x or what a product left.                *)
Pow(x, e) == El(PowValue(x.v, e), Mul(x, x).size)

Invert(x) == Pow(x, Prime - 2)

(* -1 stands for what fe_tobytes makes of limbs beyond its bound.          *)
ToBytes(x) == IF x.size <= 2 THEN x.v ELSE -1

Clamped(s) ==
    LET high == 2 ^ (StringBits - 2)
    IN  (s % high) - (s % 8) + high

-----------------------------------------------------------------------------
(* The addition chains of fe_invert and fe_pow22523: which power of z each *)
(* temporary holds.  A power is known by its residues: for the 18 largest  *)
(* primes below 2^15, which tell all numbers below 2^269 apart.            *)
Residues == {32569, 32573, 32579, 32587, 32603, 32609, 32611, 32621, 32633, 32647, 32653, 32687,
             32693, 32707, 32713, 32717, 32719, 32749}

SqOf(dst, src, times) == [dst |-> dst, src |-> src, times |-> times, by |-> dst]
MulOf(dst, src, by)   == [dst |-> dst, src |-> src, times |-> 0, by |-> by]

InvertChain ==
    << SqOf("t0", "z", 1), SqOf("t1", "t0", 2), MulOf("t1", "z", "t1"), MulOf("t0", "t0", "t1"),
       SqOf("t2", "t0", 1), MulOf("t1", "t1", "t2"), SqOf("t2", "t1", 5), MulOf("t1", "t2", "t1"),
       SqOf("t2", "t1", 10), MulOf("t2", "t2", "t1"), SqOf("t3", "t2", 20),
       MulOf("t2", "t3", "t2"), SqOf("t2", "t2", 10), MulOf("t1", "t2", "t1"),
       SqOf("t2", "t1", 50), MulOf("t2", "t2", "t1"), SqOf("t3", "t2", 100),
       MulOf("t2", "t3", "t2"), SqOf("t2", "t2", 50), MulOf("t1", "t2", "t1"),
       SqOf("t1", "t1", 5), MulOf("out", "t1", "t0") >>

Pow22523Chain ==
    << SqOf("t0", "z", 1), SqOf("t1", "t0", 2), MulOf("t1", "z", "t1"), MulOf("t0", "t0", "t1"),
       SqOf("t0", "t0", 1), MulOf("t0", "t1", "t0"), SqOf("t1", "t0", 5), MulOf("t0", "t1", "t0"),
       SqOf("t1", "t0", 10), MulOf("t1", "t1", "t0"), SqOf("t2", "t1", 20),
       MulOf("t1", "t2", "t1"), SqOf("t1", "t1", 10), MulOf("t0", "t1", "t0"),
       SqOf("t1", "t0", 50), MulOf("t1", "t1", "t0"), SqOf("t2", "t1", 100),
       MulOf("t1", "t2", "t1"), SqOf("t1", "t1", 50), MulOf("t0", "t1", "t0"),
       SqOf("t0", "t0", 2), MulOf("out", "t0", "z") >>

(* A product adds two powers; a squaring doubles one.                      *)
SquareOrTwice(r, bit, m) == (((r * r) % m) * (1 + bit)) % m

Doubling(v, times, m) ==
    LET two[k \in 0 .. times] ==
            IF k = 0 THEN 1 ELSE SquareOrTwice(two[k \div 2], k % 2, m)
    IN  (v * two[times]) % m

ChainStep(t, step) ==
    [t EXCEPT ![step.dst] =
        [m \in Residues |->
            IF step.times = 0 THEN (t[step.src][m] + t[step.by][m]) % m
            ELSE Doubling(t[step.src][m], step.times, m)]]

PowerOf(chain) ==
    LET zero == [m \in Residues |-> 0]
    IN  FoldLeft(ChainStep, [z |-> [m \in Residues |-> 1], t0 |-> zero, t1 |-> zero, t2 |-> zero,
                             t3 |-> zero, out |-> zero], chain).out

(* 2^exp - less.                                                           *)
PowerMinus(exp, less) == [m \in Residues |-> (Doubling(1, exp, m) - less) % m]

-----------------------------------------------------------------------------
(* x25519.c: the Montgomery ladder.                                        *)

CONSTANTS A24,          \* 121666
          BasePoint     \* 9

CSwapped(s, b) ==
    IF b = 1 THEN [s EXCEPT !.x2 = s.x3, !.x3 = s.x2, !.z2 = s.z3, !.z3 = s.z2] ELSE s

(* One round of the ladder, after the conditional swap.                    *)
LadderRound(s, x1) ==
    LET d3 == Sub(s.x3, s.z3)
        d2 == Sub(s.x2, s.z2)
        s2 == Add(s.x2, s.z2)
        s3 == Add(s.x3, s.z3)
        da == Mul(d3, s2)
        cb == Mul(s3, d2)
        bb == Sq(d2)
        aa == Sq(s2)
        e  == Sub(aa, bb)
    IN  [s EXCEPT !.x2 = Mul(aa, bb),
                  !.z2 = Mul(e, Add(bb, MulConst(e, A24))),
                  !.x3 = Sq(Add(da, cb)),
                  !.z3 = Mul(x1, Sq(Sub(da, cb)))]

LadderStart(x1) ==
    [x2 |-> Const(1), z2 |-> Const(0), x3 |-> x1, z3 |-> Const(1), swap |-> 0]

LadderStep(s, bit, x1) ==
    [LadderRound(CSwapped(s, (s.swap + bit) % 2), x1) EXCEPT !.swap = bit]

(* sdc_x25519_scalarmult.                                                  *)
Ladder(bits, x1) ==
    LET s[i \in 0 .. Len(bits)] ==
            IF i = 0 THEN LadderStart(x1) ELSE LadderStep(s[i - 1], bits[i], x1)
    IN  s[Len(bits)]

LadderEnd(s) == ToBytes(Mul(s.x2, Invert(s.z2)))

ScalarMult(scalar, point) ==
    LadderEnd(Ladder(Tail(ScalarBits(Clamped(scalar), StringBits)), Loaded(point)))

(* sdc_x25519_keygen: random is what the generator delivered, if it did.   *)
X25519Keygen(delivered, random) ==
    IF ~delivered THEN [ret |-> "RANDOM_FAIL"]
    ELSE [ret |-> "OK", priv |-> Clamped(random),
          pub |-> ScalarMult(Clamped(random), BasePoint)]

-----------------------------------------------------------------------------
(* ed25519: scalars modulo the order as sc.c has them, the group of        *)
(* -x^2 + y^2 = 1 + D x^2 y^2 in ge.c's coordinates, and ed25519.c.         *)

CONSTANTS D,        \* d of ge.c
          SqrtM1,   \* sqrtm1
          BaseX,    \* the base point
          BaseY,
          ScLimbs,  \* 12
          ScBits,   \* 21
          ScFold    \* 666643, 470296, 654183, -997805, 136657, -683901

-----------------------------------------------------------------------------
(* sc.c: the order is 2^(ScLimbs * ScBits) - (the sum of ScFold[j] *       *)
(* 2^(ScBits * j)), and a scalar has ScLimbs signed limbs.                 *)

ScHalf == Len(ScFold)

Order == 2 ^ (ScLimbs * ScBits)
            - FoldLeft(LAMBDA s, j : s + ScFold[j] * 2 ^ (ScBits * (j - 1)), 0,
                       [j \in 1 .. ScHalf |-> j])

ASSUME ScalarsAssumption ==
    /\ ScLimbs \in Nat /\ ScBits \in Nat \ {0, 1}
    /\ ScLimbs % 2 = 0 /\ ScHalf % 2 = 0 /\ ScHalf \in 1 .. ScLimbs

(* The loads of n limbs; the last one keeps all the bits there are.        *)
Load(s, n) ==
    [i \in 0 .. 2 * ScLimbs - 1 |->
        IF i >= n THEN 0
        ELSE IF i = n - 1 THEN s \div 2 ^ (ScBits * i)
        ELSE (s \div 2 ^ (ScBits * i)) % 2 ^ ScBits]

(* s_i at limb i is worth s_i * ScFold from limb i - ScLimbs on.           *)
FoldLimb(s, i) ==
    [k \in DOMAIN s |->
        IF k = i THEN 0
        ELSE LET j == k - (i - ScLimbs) + 1
             IN  s[k] + (IF j \in 1 .. ScHalf THEN ScFold[j] * s[i] ELSE 0)]

CarryLimb(s, i, half) ==
    LET carry == (s[i] + half) \div 2 ^ ScBits
    IN  [s EXCEPT ![i] = @ - carry * 2 ^ ScBits, ![i + 1] = @ + carry]

(* first, first + 2, ... up to last.                                       *)
EverySecond(first, last) == [k \in 1 .. ((last - first) \div 2) + 1 |-> first + 2 * (k - 1)]
Downwards(last, first) == [k \in 1 .. last - first + 1 |-> last + 1 - k]

FoldLimbs(s, limbs)  == FoldLeft(FoldLimb, s, limbs)
RoundLimbs(s, limbs) == FoldLeft(LAMBDA t, i : CarryLimb(t, i, 2 ^ (ScBits - 1)), s, limbs)
FloorLimbs(s, limbs) == FoldLeft(LAMBDA t, i : CarryLimb(t, i, 0), s, limbs)

(* The upper half of the limbs, folded in two parts with carries after     *)
(* each, even limbs before odd ones.                                       *)
HalfFolded(s) ==
    LET n == ScLimbs
        h == ScHalf
        top  == FoldLimbs(s, Downwards(2 * n - 1, 2 * n - h))
        mid  == RoundLimbs(RoundLimbs(top, EverySecond(n - h, n + h - 2)),
                           EverySecond(n - h + 1, n + h - 3))
    IN  mid

Folded(s) ==
    LET n == ScLimbs
        low == FoldLimbs(HalfFolded(s), Downwards(2 * n - ScHalf - 1, n))
    IN  RoundLimbs(RoundLimbs(low, EverySecond(0, n - 2)), EverySecond(1, n - 1))

(* What is left above the order's size is folded twice, carrying floors.   *)
Settled(s) ==
    LET once == FloorLimbs(FoldLimb(s, ScLimbs), [i \in 1 .. ScLimbs |-> i - 1])
    IN  FloorLimbs(FoldLimb(once, ScLimbs), [i \in 1 .. ScLimbs - 1 |-> i - 1])

Stored(s) ==
    FoldLeft(LAMBDA v, i : v + s[i] * 2 ^ (ScBits * i), 0, [i \in 1 .. ScLimbs |-> i - 1])

ScReduce(x) == Stored(Settled(Folded(Load(x, 2 * ScLimbs))))

(* sc_muladd: products first brought to size, from limb to limb.           *)
ScProducts(a, b, c) ==
    [k \in 0 .. 2 * ScLimbs - 1 |->
        c[k] + FoldLeft(LAMBDA s, i : s + (IF k - i \in 0 .. ScLimbs - 1
                                           THEN a[i] * b[k - i] ELSE 0),
                        0, [i \in 1 .. ScLimbs |-> i - 1])]

ScMulAdd(x, y, z) ==
    LET n == ScLimbs
        s == ScProducts(Load(x, n), Load(y, n), Load(z, n))
        t == RoundLimbs(RoundLimbs(s, EverySecond(0, 2 * n - 2)), EverySecond(1, 2 * n - 3))
    IN  Stored(Settled(Folded(t)))
-----------------------------------------------------------------------------
(* The group law on points <<x, y>>, and the tables made from it.          *)

Reciprocal(v) == PowValue(v % Prime, Prime - 2)

AffineAdd(p, q) ==
    LET m(a, b) == (a * b) % Prime
        t == m(D, m(m(p[1], q[1]), m(p[2], q[2])))
    IN  <<m((m(p[1], q[2]) + m(q[1], p[2])) % Prime, Reciprocal(1 + t)),
          m((m(p[2], q[2]) + m(p[1], q[1])) % Prime, Reciprocal(1 - t))>>

AffineMul(k, p) ==
    LET Coordinates == (0 .. Prime - 1) \X (0 .. Prime - 1)
        twice[q \in Coordinates] == AffineAdd(q, q)
        plus[q \in Coordinates]  == AffineAdd(q, p)
        r[m \in 0 .. k] ==
            IF m = 0 THEN <<0, 1>>
            ELSE IF m % 2 = 1 THEN plus[twice[r[m \div 2]]]
            ELSE twice[r[m \div 2]]
    IN  r[k]

BasePair == <<BaseX, BaseY>>

(* ge_precomp of a point.                                                  *)
Precomp(p) ==
    [yp |-> El(p[2] + p[1], 1), ym |-> El(p[2] - p[1], 1),
     xy2d |-> El(2 * ((((p[1] * p[2]) % Prime) * D) % Prime), 1)]

(* base[pos][j] is (j + 1) * 256^pos * B, Bi[j] is (2 * j + 1) * B.        *)
BaseTable == [pos \in 0 .. (StringBits \div 8) - 1, j \in 0 .. 7 |->
                Precomp(AffineMul((j + 1) * 256 ^ pos, BasePair))]
OddTable == [j \in 0 .. 7 |-> Precomp(AffineMul(2 * j + 1, BasePair))]

-----------------------------------------------------------------------------
(* ge.c.                                                                   *)

P2Zero == [X |-> Const(0), Y |-> Const(1), Z |-> Const(1)]
P3Zero == [X |-> Const(0), Y |-> Const(1), Z |-> Const(1), T |-> Const(0)]

(* ge_p1p1_to_p2 writes the three coordinates of r.                        *)
P1P1ToP2(r, p) == [r EXCEPT !.X = Mul(p.X, p.T), !.Y = Mul(p.Y, p.Z), !.Z = Mul(p.Z, p.T)]
P1P1ToP3(p) ==
    [X |-> Mul(p.X, p.T), Y |-> Mul(p.Y, p.Z), Z |-> Mul(p.Z, p.T), T |-> Mul(p.X, p.Y)]
P3ToP2(p) == [X |-> p.X, Y |-> p.Y, Z |-> p.Z]
P3ToCached(p) ==
    [yp |-> Add(p.Y, p.X), ym |-> Sub(p.Y, p.X), Z |-> p.Z, T2d |-> Mul(p.T, El(2 * D, 1))]

(* Sums: a and b are the products with y + x and y - x, c the one with T,  *)
(* d twice the product of the Zs.                                          *)
Sum(a, b, c, d)  == [X |-> Sub(a, b), Y |-> Add(a, b), Z |-> Add(d, c), T |-> Sub(d, c)]
Diff(a, b, c, d) == [X |-> Sub(a, b), Y |-> Add(a, b), Z |-> Sub(d, c), T |-> Add(d, c)]

Twice(z) == Add(z, z)

GeAdd(p, q) ==
    Sum(Mul(Add(p.Y, p.X), q.yp), Mul(Sub(p.Y, p.X), q.ym), Mul(q.T2d, p.T),
        Twice(Mul(p.Z, q.Z)))
GeSub(p, q) ==
    Diff(Mul(Add(p.Y, p.X), q.ym), Mul(Sub(p.Y, p.X), q.yp), Mul(q.T2d, p.T),
         Twice(Mul(p.Z, q.Z)))
GeMadd(p, q) ==
    Sum(Mul(Add(p.Y, p.X), q.yp), Mul(Sub(p.Y, p.X), q.ym), Mul(q.xy2d, p.T), Twice(p.Z))
GeMsub(p, q) ==
    Diff(Mul(Add(p.Y, p.X), q.ym), Mul(Sub(p.Y, p.X), q.yp), Mul(q.xy2d, p.T), Twice(p.Z))

P2Dbl(p) ==
    LET xx == Sq(p.X)
        yy == Sq(p.Y)
        y  == Add(yy, xx)
        z  == Sub(yy, xx)
    IN  [X |-> Sub(Sq(Add(p.X, p.Y)), y), Y |-> y, Z |-> z, T |-> Sub(Sq2(p.Z), z)]

(* ge_tobytes, ge_p3_tobytes: y, with the parity of x above it.            *)
EncodedBy(p, recip) ==
    ToBytes(Mul(p.Y, recip)) + (ToBytes(Mul(p.X, recip)) % 2) * 2 ^ (StringBits - 1)

Encoded(p) == EncodedBy(p, Invert(p.Z))

IsNonzero(x) == ToBytes(x) # 0

(* ge_frombytes_negate_vartime.                                            *)
RootOf(u, v, v3) ==
    Mul(Mul(Pow(Mul(Mul(Sq(v3), v), u), (Prime - 5) \div 8), v3), u)

PointAt(x, y) == [X |-> x, Y |-> y, Z |-> Const(1), T |-> Mul(x, y)]

NegatedIf(root, parity) == IF ToBytes(root) % 2 = parity THEN Neg(root) ELSE root

(* x is a root of u / v, or of -u / v, or there is none.                   *)
WithRoot(x, vxx, u, y, parity) ==
    LET direct == ~IsNonzero(Sub(vxx, u))
    IN  IF ~direct /\ IsNonzero(Add(vxx, u)) THEN [ok |-> FALSE]
        ELSE [ok |-> TRUE,
              p  |-> PointAt(NegatedIf(IF direct THEN x ELSE Mul(x, El(SqrtM1, 1)), parity), y)]

WithRatio(x, u, v, y, parity) == WithRoot(x, Mul(Sq(x), v), u, y, parity)

FromBytesNegate(s) ==
    LET y  == Loaded(s)
        u  == Sub(Sq(y), Const(1))
        v  == Add(Mul(Sq(y), El(D, 1)), Const(1))
    IN  WithRatio(RootOf(u, v, Mul(Sq(v), v)), u, v, y, s \div 2 ^ (StringBits - 1))

(* ge_scalarmult_base: hex digits from -8 to 8, least significant first.   *)
Digit(e, v, carry) == [e |-> Append(e, v - 16 * carry), carry |-> carry]

SignedDigits(a) ==
    LET n == StringBits \div 4
        hex(i) == (a \div 16 ^ (i - 1)) % 16
        step(s, i) == Digit(s.e, hex(i) + s.carry,
                            IF i < n THEN (hex(i) + s.carry + 8) \div 16 ELSE 0)
    IN  FoldLeft(step, [e |-> <<>>, carry |-> 0], [i \in 1 .. n |-> i]).e

Negated(t) == [yp |-> t.ym, ym |-> t.yp, xy2d |-> Neg(t.xy2d)]

SignedEntry(t, b) == IF b < 0 THEN Negated(t) ELSE t

Selected(pos, b) ==
    SignedEntry(IF b = 0 THEN [yp |-> Const(1), ym |-> Const(1), xy2d |-> Const(0)]
                ELSE BaseTable[pos, (IF b < 0 THEN -b ELSE b) - 1], b)

AddDigits(h, e, first) ==
    FoldLeft(LAMBDA s, i : P1P1ToP3(GeMadd(s, Selected(i \div 2, e[i + 1]))), h,
             [k \in 1 .. StringBits \div 8 |-> 2 * k - 2 + first])

P2Doubled(p, k) == FoldLeft(LAMBDA s, i : P1P1ToP2(s, P2Dbl(s)), p, [i \in 1 .. k |-> i])

(* The odd digits, times 16, and the even ones.                            *)
DigitsMult(e) ==
    AddDigits(P1P1ToP3(P2Dbl(P2Doubled(P3ToP2(AddDigits(P3Zero, e, 1)), 3))), e, 0)

ScalarMultBase(a) == DigitsMult(SignedDigits(a))

(* slide: odd digits from -15 to 15, each of them for a run of bits.  A     *)
(* digit that would grow too large borrows from the first 0 above it.       *)
Absorb(s, i, b) ==
    LET r == s.r
        at == i + b
        plus == r[at] * 2 ^ b
        free == {k \in at .. StringBits - 1 : r[k] = 0}
        stop == IF free = {} THEN StringBits - 1 ELSE CHOOSE k \in free : \A j \in free : k <= j
        Borrowed(t, k) == [t EXCEPT ![k] = IF k \in free THEN 1 ELSE 0]
    IN  IF s.stop \/ at >= StringBits \/ r[at] = 0 THEN s
        ELSE IF r[i] + plus <= 15 THEN [s EXCEPT !.r[i] = @ + plus, !.r[at] = 0]
        ELSE IF r[i] - plus >= -15
             THEN [s EXCEPT !.r = FoldLeft(Borrowed, [r EXCEPT ![i] = @ - plus],
                                           [k \in 1 .. stop - at + 1 |-> at + k - 1])]
        ELSE [s EXCEPT !.stop = TRUE]

AbsorbAll(r, i) ==
    IF r[i] = 0 THEN r
    ELSE FoldLeft(LAMBDA s, b : Absorb(s, i, b), [r |-> r, stop |-> FALSE],
                  <<1, 2, 3, 4, 5, 6>>).r

Slide(a) ==
    LET r[k \in 0 .. StringBits] ==
            IF k = 0 THEN [i \in 0 .. StringBits - 1 |-> (a \div 2 ^ i) % 2]
            ELSE AbsorbAll(r[k - 1], k - 1)
    IN  r[StringBits]

(* ge_double_scalarmult_vartime: a * p + b * B.                            *)
MultiplesFrom(first, twice) ==
    FoldLeft(LAMBDA t, j : Append(t, P3ToCached(P1P1ToP3(GeAdd(twice, t[j])))),
             <<first>>, [j \in 1 .. 7 |-> j])

OddMultiples(p) == MultiplesFrom(P3ToCached(p), P1P1ToP3(P2Dbl(P3ToP2(p))))

WithA(t, digit, table) ==
    IF digit > 0 THEN GeAdd(P1P1ToP3(t), table[(digit \div 2) + 1])
    ELSE IF digit < 0 THEN GeSub(P1P1ToP3(t), table[((-digit) \div 2) + 1])
    ELSE t

WithB(t, digit, table) ==
    IF digit > 0 THEN GeMadd(P1P1ToP3(t), table[digit \div 2])
    ELSE IF digit < 0 THEN GeMsub(P1P1ToP3(t), table[(-digit) \div 2])
    ELSE t

(* Digits above the last that is not zero cost nothing.                    *)
DigitsUsed(a, b) == {k \in 1 .. StringBits : a[k - 1] # 0 \/ b[k - 1] # 0}

Down(used) ==
    LET n == IF used = {} THEN 0 ELSE CHOOSE i \in used : \A j \in used : j <= i
    IN  [k \in 1 .. n |-> n - k]

SlideStep(r, digitA, digitB, odd, table) ==
    P1P1ToP2(r, WithB(WithA(P2Dbl(r), digitA, odd), digitB, table))

SlidesMult(a, b, odd, table) ==
    LET down == Down(DigitsUsed(a, b))
        r[k \in 0 .. Len(down)] ==
            IF k = 0 THEN P2Zero ELSE SlideStep(r[k - 1], a[down[k]], b[down[k]], odd, table)
    IN  r[Len(down)]

DoubleScalarMult(a, p, b) == SlidesMult(Slide(a), Slide(b), OddMultiples(p), OddTable)

-----------------------------------------------------------------------------
(* ed25519.c.                                                              *)

(* sdc_ed25519_keypair: low is the first half of the seed's hash.          *)
EdKeypair(low) ==
    [pub |-> Encoded(ScalarMultBase(Clamped(low))), scalar |-> Clamped(low)]

(* sdc_ed25519_keypair_random: the generator's own error is passed on.     *)
EdKeypairRandom(delivered, low) ==
    IF delivered THEN [ret |-> "OK", key |-> EdKeypair(low)] ELSE [ret |-> "RNG_ERROR"]

(* sdc_ed25519_sign with its two hashes.                                   *)
EdSign(key, rhash, hram) ==
    LET r == ScReduce(rhash)
    IN  [S |-> ScMulAdd(ScReduce(hram), key.scalar, r), R |-> Encoded(ScalarMultBase(r))]

SameR(sig, a, hram) ==
    a.ok /\ Encoded(DoubleScalarMult(ScReduce(hram), a.p, sig.S)) = sig.R

(* Mutant of EdVerify: the top bits of the signature are not looked at.    *)
EdVerifyAnyTop(sig, pub, hram) == SameR(sig, FromBytesNegate(pub), hram)

(* sdc_ed25519_verify.                                                     *)
EdVerify(sig, pub, hram) ==
    sig.S < 2 ^ (StringBits - 3) /\ SameR(sig, FromBytesNegate(pub), hram)
=============================================================================
