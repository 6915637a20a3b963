------------------------------ MODULE Arithmetic ------------------------------
(***************************************************************************)
(* One call of the integer, prime, field, scalar or curve code on operands *)
(* drawn from small sets, and what its result must be: the same            *)
(* computation on plain numbers.                                           *)
(*                                                                         *)
(* The words have WordBits bits, the limbs SWidths and UWidths; the curves *)
(* keep their formulas over a smaller prime field.                         *)
(***************************************************************************)
EXTENDS WordInt, Curve25519, FiniteSets

CONSTANTS Numbers,      \* operands: sequences of words
          OddModuli,    \* odd moduli, sequences of words
          Exponents,    \* sequences of words
          WordOctets,   \* bytes of a word, each below ByteBase
          ByteBase,
          SWidths, SFold, SByteBits,    \* the signed field
          SSlack,       \* what the last carry adds to limb 1: 0.01 * 2^24
          UWidths, UFold,               \* the unsigned field
          SignedLimbs, UnsignedLimbs,   \* operands of the two fields
          FieldStrings,                 \* byte strings read as field elements
          Secrets,      \* scalars and random bytes, below 2^StringBits
          Points,       \* strings offered as public keys
          HashValues    \* values of the hashes, 2 * StringBits wide

VARIABLES arg,  \* the first operand
          call  \* the call made on it: operation, operands, result

vars == <<arg, call>>

Signed   == INSTANCE Limbs WITH Widths <- SWidths, Fold <- SFold, ByteBits <- SByteBits
Unsigned == INSTANCE Limbs WITH Widths <- UWidths, Fold <- UFold, ByteBits <- SByteBits

None == [op |-> "none", in |-> <<>>, out |-> <<>>]

Arg(kind, set) == {[kind |-> kind, v |-> x] : x \in set}

Init ==
    /\ arg \in UNION { Arg("number", Numbers), Arg("signed", SignedLimbs),
                       Arg("unsigned", UnsignedLimbs), Arg("string", FieldStrings),
                       Arg("secret", Secrets), Arg("point", Points), Arg("hash", HashValues),
                       Arg("chain", {"invert", "pow22523"}) }
    /\ call = None

Of(kind) == call = None /\ arg.kind = kind
Answers(op, in, out) == call' = [op |-> op, in |-> in, out |-> out] /\ UNCHANGED arg

SameLen(a) == {b \in Numbers : Len(b) = Len(a)}
Lower(a, n) == Len(a) = Len(n) /\ IntLt(a, n) = 1

-----------------------------------------------------------------------------
(* Integers.                                                               *)

CallAdd == Of("number") /\ \E b \in SameLen(arg.v) : Answers("add", <<arg.v, b>>, IntAdd(arg.v, b))
CallSub == Of("number") /\ \E b \in SameLen(arg.v) : Answers("sub", <<arg.v, b>>, IntSub(arg.v, b))

CallAddCtl ==
    /\ Of("number")
    /\ \E b \in SameLen(arg.v), ctl \in {0, 1} :
        Answers("add_ctl", <<arg.v, b, ctl>>, IntAddCtl(arg.v, b, ctl))
CallSubCtl ==
    /\ Of("number")
    /\ \E b \in SameLen(arg.v), ctl \in {0, 1} :
        Answers("sub_ctl", <<arg.v, b, ctl>>, IntSubCtl(arg.v, b, ctl))
CallCSwap ==
    /\ Of("number")
    /\ \E b \in SameLen(arg.v), ctl \in {0, 1} :
        Answers("cswap", <<arg.v, b, ctl>>, CSwap(arg.v, b, ctl))
CallCompare ==
    /\ Of("number")
    /\ \E b \in SameLen(arg.v) :
        Answers("compare", <<arg.v, b>>,
             [lt |-> IntLt(arg.v, b), gte |-> IntGte(arg.v, b), eq |-> IntEq(arg.v, b)])

(* In place, or into another number of the same length.                    *)
CallAddWord ==
    /\ Of("number")
    /\ \E w \in Word, r \in {arg.v, SetWord(0, Len(arg.v))} :
        Answers("add_word", <<arg.v, w, r>>,
             [full |-> AddWord(arg.v, w), fast |-> AddWordVartime(r, arg.v, w)])
CallSubWord ==
    /\ Of("number")
    /\ \E w \in Word, r \in {arg.v, SetWord(0, Len(arg.v))} :
        Answers("sub_word", <<arg.v, w, r>>,
             [full |-> SubWord(arg.v, w), fast |-> SubWordVartime(r, arg.v, w)])

CallShr ==
    /\ Of("number")
    /\ \E k \in 0 .. Len(arg.v) * WordBits + 1 :
        Answers("shr", <<arg.v, k>>, [r |-> IntShr(arg.v, k), one |-> IntShr1(arg.v)])
CallCtz == Of("number") /\ Answers("ctz", <<arg.v>>, IntCtz(arg.v))

CallMul == Of("number") /\ \E b \in SameLen(arg.v) : Answers("mul", <<arg.v, b>>, IntMul(arg.v, b))
CallMulWord == Of("number") /\ \E w \in Word : Answers("mul_word", <<arg.v, w>>, MulWord(arg.v, w))
CallDiv ==
    /\ Of("number")
    /\ \E b \in Numbers :
        /\ Len(b) <= Len(arg.v) /\ EqWord(b, 0) = 0
        /\ Answers("div", <<arg.v, b>>, IntDiv(arg.v, b))
CallDivWord ==
    /\ Of("number")
    /\ \E w \in Word \ {0} : Answers("div_word", <<arg.v, w>>, IntDivWord(arg.v, w))
CallReduce ==
    Of("number") /\ \E n \in OddModuli : Answers("reduce", <<arg.v, n>>, IntReduce(arg.v, n))

CallMontgomery ==
    /\ Of("number")
    /\ \E n \in OddModuli, b \in SameLen(arg.v) :
        /\ Lower(arg.v, n) /\ Lower(b, n)
        /\ Answers("montgomery", <<arg.v, b, n>>,
                [product |-> FromMont(MontMul(ToMont(arg.v, n), ToMont(b, n), n, Ninv(n)),
                                      n, Ninv(n)),
                 by_R2   |-> MontMul(arg.v, PrecomputeR2(n), n, Ninv(n)),
                 mont    |-> ToMont(arg.v, n)])
CallModexp ==
    /\ Of("number")
    /\ \E n \in OddModuli, e \in Exponents :
        /\ Lower(arg.v, n)
        /\ Answers("modexp", <<arg.v, e, n>>,
                [r |-> ModexpWord(arg.v, e, n, Ninv(n)),
                 fast |-> ModexpWordVartime(arg.v, e, n, Ninv(n)),
                 short |-> ModexpEbits(arg.v, e[1], n, Ninv(n))])

(* phi = (p-1)(q-1) is even, and e an odd public exponent prime to it.     *)
CallModinv ==
    /\ Of("number")
    /\ \E e \in Word :
        /\ e > 1 /\ e % 2 = 1 /\ IsOdd(arg.v) = 0
        /\ Answers("modinv", <<arg.v, e>>, IntModinv(arg.v, e))

CallBytes ==
    /\ Of("number")
    /\ LET be == ToBytesBE(arg.v, WordOctets, ByteBase)
           le == ToBytesLE(arg.v, WordOctets, ByteBase)
       IN  Answers("bytes", <<arg.v>>,
                [be |-> be, le |-> le, frombe |-> FromBytesBE(be, WordOctets, ByteBase),
                 fromle |-> FromBytesLE(le, WordOctets, ByteBase)])

IntegerNext ==
    \/ CallAdd \/ CallSub \/ CallAddCtl \/ CallSubCtl \/ CallCSwap \/ CallCompare
    \/ CallAddWord \/ CallSubWord \/ CallShr \/ CallCtz
    \/ CallMul \/ CallMulWord \/ CallDiv \/ CallDivWord \/ CallReduce
    \/ CallMontgomery \/ CallModexp \/ CallModinv \/ CallBytes

-----------------------------------------------------------------------------
(* Primes.                                                                 *)

CallIsPrime == Of("number") /\ Answers("is_prime", <<arg.v>>, IsPrime(arg.v))
CallGenPrime ==
    Of("number") /\ Answers("gen_prime", <<RandomOdd(arg.v)>>, Acceptable(RandomOdd(arg.v)))

-----------------------------------------------------------------------------
(* Field elements as limbs.                                                *)

CallSigned ==
    /\ Of("signed")
    /\ \E g \in SignedLimbs :
        Answers("signed", <<arg.v, g>>,
             [mul |-> Signed!FeMul(arg.v, g), sub |-> Signed!FeSub(arg.v, g),
              add |-> Signed!FeAdd(arg.v, g), neg |-> Signed!FeNeg(g),
              cmov |-> Signed!FeCmov(arg.v, g, 1), swap |-> Signed!Swapped(arg.v, g, 1),
              same |-> Signed!FeMul(arg.v, Signed!One),
              minus |-> Signed!FeSub(Signed!Zero, g)])
CallSignedSq ==
    /\ Of("signed")
    /\ Answers("signed_sq", <<arg.v>>,
            [sq |-> Signed!FeSq(arg.v), sq2 |-> Signed!FeSq2(arg.v),
             small |-> Signed!FeMulSmall(arg.v, 2), bytes |-> Signed!FeToBytes(arg.v),
             negative |-> Signed!FeIsNegative(arg.v), nonzero |-> Signed!FeIsNonzero(arg.v)])
CallUnsigned ==
    /\ Of("unsigned")
    /\ \E g \in UnsignedLimbs :
        Answers("unsigned", <<arg.v, g>>,
             [mul |-> Unsigned!Fe64Mul(arg.v, g), sub |-> Unsigned!Fe64Sub(arg.v, g),
              add |-> Unsigned!Fe64Add(arg.v, g), sq |-> Unsigned!Fe64Sq(arg.v),
              small |-> Unsigned!Fe64MulSmall(arg.v, 5), bytes |-> Unsigned!Fe64ToBytes(arg.v)])

(* A string is read, and what was read is written.                         *)
CallString ==
    /\ Of("string")
    /\ Answers("string", <<arg.v>>,
            [signed   |-> Signed!FeFromBytes(arg.v),
             unsigned |-> Unsigned!Fe64FromBytes(arg.v),
             again    |-> Signed!FeToBytes(Signed!FeFromBytes(arg.v)),
             uagain   |-> Unsigned!Fe64ToBytes(Unsigned!Fe64FromBytes(arg.v))])

CallChain ==
    /\ Of("chain")
    /\ Answers("chain", <<arg.v>>,
            IF arg.v = "invert" THEN PowerOf(InvertChain)
            ELSE PowerOf(Pow22523Chain))

-----------------------------------------------------------------------------
(* Curves.                                                                 *)

Exchanged(a, b) ==
    [here |-> ScalarMult(a.priv, b.pub), there |-> ScalarMult(b.priv, a.pub),
     pub |-> a.pub, priv |-> a.priv]

CallExchange ==
    /\ Of("secret")
    /\ \E other \in Secrets :
        Answers("exchange", <<arg.v, other>>,
             Exchanged(X25519Keygen(TRUE, arg.v), X25519Keygen(TRUE, other)))
CallKeygen ==
    /\ Of("secret")
    /\ \E delivered \in BOOLEAN :
        \E pairs \in {[x |-> X25519Keygen(delivered, arg.v),
                       ed |-> EdKeypairRandom(delivered, arg.v)]} :
            Answers("keygen", <<delivered, arg.v>>, pairs)
CallAnyPoint ==
    /\ Of("point")
    /\ \E k \in Secrets : Answers("any_point", <<arg.v, k>>, ScalarMult(k, arg.v))

CallScReduce == Of("hash") /\ Answers("sc_reduce", <<arg.v>>, ScReduce(arg.v))
CallScMulAdd ==
    /\ Of("secret")
    /\ \E b, c \in Secrets : Answers("sc_muladd", <<arg.v, b, c>>, ScMulAdd(arg.v, b, c))
CallDecode ==
    Of("point") /\ Answers("decode", <<arg.v>>, FromBytesNegate(arg.v))

(* A key pair, a signature with it, and the signature as it comes back:    *)
(* untouched, or with another R, another S or another hash.                *)
OtherR == Encoded(ScalarMultBase(1))

CallVerify(key, sig, hram) ==
    \E got \in {sig, [sig EXCEPT !.R = OtherR]}
                  \cup {[sig EXCEPT !.S = s] : s \in {sig.S + Order, sig.S + 2 * Order, 0}},
       h \in {hram, hram + 1} :
        \E verdict \in {EdVerify(got, key.pub, h)} :
            Answers("signature", <<key, sig, hram, got, h>>, verdict)

CallSignature ==
    /\ Of("secret")
    /\ \E key \in {EdKeypair(arg.v)}, rhash, hram \in HashValues :
        \E sig \in {EdSign(key, rhash, hram)} : CallVerify(key, sig, hram)

Next ==
    \/ IntegerNext
    \/ CallIsPrime \/ CallGenPrime
    \/ CallSigned \/ CallSignedSq \/ CallUnsigned \/ CallString \/ CallChain
    \/ CallExchange \/ CallKeygen \/ CallAnyPoint \/ CallScReduce \/ CallScMulAdd \/ CallDecode
    \/ CallSignature

Spec == Init /\ [][Next]_vars

-----------------------------------------------------------------------------
(* References and properties.                                              *)

Val(a) == FoldRight(LAMBDA w, v : v * W + w, a, 0)
Room(a) == W ^ Len(a)

PowMod(a, e, n) ==
    LET p[k \in 0 .. e] ==
            IF k = 0 THEN 1 % n
            ELSE LET half == p[k \div 2]
                 IN  (((half * half) % n) * (IF k % 2 = 1 THEN a % n ELSE 1)) % n
    IN  p[e]
Prime2(x) == x > 1 /\ \A d \in 2 .. x - 1 : x % d # 0

Result(op, Holds(_, _)) == call.op = op => Holds(call.in, call.out)

SumsExact ==
    /\ Result("add", LAMBDA in, out : Val(out.r) + out.c * Room(in[1]) = Val(in[1]) + Val(in[2]))
    /\ Result("sub", LAMBDA in, out : Val(out.r) - out.c * Room(in[1]) = Val(in[1]) - Val(in[2]))
    /\ Result("add_ctl", LAMBDA in, out :
            Val(out.r) + out.c * Room(in[1]) = Val(in[1]) + in[3] * Val(in[2]))
    /\ Result("sub_ctl", LAMBDA in, out :
            Val(out.r) - out.c * Room(in[1]) = Val(in[1]) - in[3] * Val(in[2]))
    /\ Result("cswap", LAMBDA in, out :
            <<out.a, out.b>> = IF in[3] = 1 THEN <<in[2], in[1]>> ELSE <<in[1], in[2]>>)
    /\ Result("compare", LAMBDA in, out :
            /\ out.lt = Bit(Val(in[1]) < Val(in[2]))
            /\ out.gte = Bit(Val(in[1]) >= Val(in[2]))
            /\ out.eq = Bit(in[1] = in[2]))
    /\ Result("add_word", LAMBDA in, out :
            /\ Val(out.full.r) + out.full.c * Room(in[1]) = Val(in[1]) + in[2]
            /\ in[3] = in[1] => out.fast = out.full)
    /\ Result("sub_word", LAMBDA in, out :
            /\ Val(out.full.r) - out.full.c * Room(in[1]) = Val(in[1]) - in[2]
            /\ in[3] = in[1] => out.fast = out.full)

ProductsExact ==
    /\ Result("shr", LAMBDA in, out :
            /\ Val(out.r) = Val(in[1]) \div 2 ^ in[2]
            /\ Val(out.one) = Val(in[1]) \div 2)
    /\ Result("ctz", LAMBDA in, out :
            Val(in[1]) # 0 => Val(in[1]) % 2 ^ out = 0 /\ Val(in[1]) % 2 ^ (out + 1) # 0)
    /\ Result("mul", LAMBDA in, out : Val(out) = Val(in[1]) * Val(in[2]))
    /\ Result("mul_word", LAMBDA in, out : Val(out) = Val(in[1]) * in[2])
    /\ Result("div", LAMBDA in, out :
            /\ Val(out.r) < Val(in[2])
            /\ Val(in[1]) = Val(out.q) * Val(in[2]) + Val(out.r))
    /\ Result("div_word", LAMBDA in, out :
            out.r < in[2] /\ Val(in[1]) = Val(out.q) * in[2] + out.r)
    /\ Result("reduce", LAMBDA in, out : Val(out) = Val(in[1]) % Val(in[2]))

ModularExact ==
    /\ Result("montgomery", LAMBDA in, out :
            /\ Val(out.product) = (Val(in[1]) * Val(in[2])) % Val(in[3])
            /\ out.mont = out.by_R2
            /\ Val(out.mont) = (Val(in[1]) * Room(in[3])) % Val(in[3]))
    /\ Result("modexp", LAMBDA in, out :
            /\ Val(out.r) = PowMod(Val(in[1]), Val(in[2]), Val(in[3]))
            /\ out.fast = out.r
            /\ Val(out.short) = PowMod(Val(in[1]), in[2][1], Val(in[3])))
    /\ Result("modinv", LAMBDA in, out :
            Val(in[1]) > 0 /\ Coprime(Val(in[1]), in[2])
                => (Val(out) * in[2]) % Val(in[1]) = 1 % Val(in[1]))
    /\ Result("bytes", LAMBDA in, out :
            /\ out.frombe = in[1] /\ out.fromle = in[1]
            /\ out.be = Reverse(out.le)
            /\ LoadBE(out.be, ByteBase) = Val(in[1]))

(* sdc_int_*: every result is the one of plain integers.  Carries, borrows *)
(* and bits shifted out of the top word are never lost, and the loops that *)
(* stop early stop where they may.                                         *)
IntegersExact == SumsExact /\ ProductsExact /\ ModularExact

LargestBase == CHOOSE b \in {BasesLarge[i] : i \in DOMAIN BasesLarge} :
                   \A i \in DOMAIN BasesLarge : BasesLarge[i] <= b

OddPart(x) == LET f[n \in 1 .. x] == IF n % 2 = 1 THEN n ELSE f[n \div 2] IN f[x]

(* x, odd, is a strong probable prime to a base: with x - 1 = d * 2^s and  *)
(* d odd, base^d is 1, or base^e is -1 for some e = d * 2^r before x - 1.  *)
Strong(x, base) ==
    LET d == OddPart(x - 1)
    IN  \/ PowMod(base, d, x) = 1
        \/ \E e \in d .. x - 2 :
            e % d = 0 /\ (x - 1) % e = 0 /\ PowMod(base, e, x) = x - 1

(* To every base; a multiple of x says nothing of it.                      *)
ProbablePrime(x, bases) ==
    \/ x = 2
    \/ /\ x > 2 /\ x % 2 = 1
       /\ \A i \in DOMAIN bases : bases[i] % x = 0 \/ Strong(x, bases[i] % x)

(* is_prime, sdc_int_gen_prime: wherever the code calls the test, on one   *)
(* word or above every base, a number passes exactly when it is a strong   *)
(* probable prime to every base, so no prime is refused; and gen_prime     *)
(* takes such numbers when they are odd, fill their top two bits and are   *)
(* no multiple of a small prime.                                           *)
PrimesExact ==
    /\ Result("is_prime", LAMBDA in, out :
            Len(in[1]) = 1 \/ Val(in[1]) > LargestBase =>
                /\ out = ProbablePrime(Val(in[1]), IF Len(in[1]) = 1 THEN BasesSmall ELSE BasesLarge)
                /\ Prime2(Val(in[1])) => out)
    /\ Result("gen_prime", LAMBDA in, out :
            /\ Val(in[1]) % 2 = 1 /\ 4 * Val(in[1]) >= 3 * Room(in[1])
            /\ Len(in[1]) > 1 =>
                /\ out = (/\ ProbablePrime(Val(in[1]), BasesLarge)
                          /\ \A p \in SmallPrimes : Val(in[1]) % p # 0)
                /\ Prime2(Val(in[1])) => out)

SignedBound(i) == Signed!Rounding(i) + 4 + (IF i = 1 THEN SSlack ELSE 0)
SignedSmall(h, k) == \A i \in DOMAIN h : h[i] \in -(k * SignedBound(i)) .. k * SignedBound(i)
UnsignedSmall(h)  == \A i \in DOMAIN h : h[i] \in 0 .. 2 ^ UWidths[i + 1] + 2

SVal(h) == Signed!Value(h)
UVal(h) == Unsigned!Value(h)

(* fe_*: limbs that are not reduced still stand for the right number, a    *)
(* product's limbs are small enough to be added three times before the     *)
(* next one, no unsigned limb goes below zero, and bytes are canonical.    *)
FieldsExact ==
    /\ Result("signed", LAMBDA in, out :
            /\ SVal(out.mul) = Signed!TimesMod(SVal(in[1]), SVal(in[2]))
            /\ SignedSmall(out.mul, 1)
            /\ SVal(out.sub) = (SVal(in[1]) - SVal(in[2])) % Signed!Modulus
            /\ SVal(out.add) = (SVal(in[1]) + SVal(in[2])) % Signed!Modulus
            /\ SVal(out.neg) = (-SVal(in[2])) % Signed!Modulus
            /\ out.cmov = in[2] /\ out.swap = <<in[2], in[1]>>
            /\ out.minus = out.neg /\ SVal(out.same) = SVal(in[1]))
    /\ Result("signed_sq", LAMBDA in, out :
            /\ SVal(out.sq) = Signed!TimesMod(SVal(in[1]), SVal(in[1]))
            /\ SVal(out.sq2) = (2 * SVal(out.sq)) % Signed!Modulus
            /\ SVal(out.small) = (2 * SVal(in[1])) % Signed!Modulus
            /\ SignedSmall(out.sq, 1) /\ SignedSmall(out.small, 1)
            /\ SignedSmall(in[1], 1) => SignedSmall(out.sq2, 1)
            /\ SignedSmall(in[1], 2) =>
                /\ out.bytes = SVal(in[1])
                /\ out.negative = SVal(in[1]) % 2
                /\ out.nonzero = Bit(SVal(in[1]) # 0))
    /\ Result("unsigned", LAMBDA in, out :
            /\ UVal(out.mul) = Unsigned!TimesMod(UVal(in[1]), UVal(in[2]))
            /\ UVal(out.sq) = Unsigned!TimesMod(UVal(in[1]), UVal(in[1]))
            /\ UVal(out.small) = (5 * UVal(in[1])) % Unsigned!Modulus
            /\ UnsignedSmall(out.mul) /\ UnsignedSmall(out.sq) /\ UnsignedSmall(out.small)
            /\ UVal(out.sub) = (UVal(in[1]) - UVal(in[2])) % Unsigned!Modulus
            /\ \A i \in DOMAIN out.sub : out.sub[i] >= 0
            /\ UVal(out.add) = (UVal(in[1]) + UVal(in[2])) % Unsigned!Modulus
            /\ UnsignedSmall(in[1]) => out.bytes = UVal(in[1]))
    /\ Result("string", LAMBDA in, out :
            /\ SignedSmall(out.signed, 1)
            /\ out.again = (in[1] % 2 ^ Signed!Pos(Len(SWidths))) % Signed!Modulus
            /\ out.uagain = (in[1] % 2 ^ Unsigned!Pos(Len(UWidths))) % Unsigned!Modulus)
    /\ Result("chain", LAMBDA in, out :
            out = IF in[1] = "invert" THEN PowerMinus(255, 21) ELSE PowerMinus(252, 3))

(* On b * y^2 = x^3 + (4 * A24 - 2) * x^2 + x, the affine way; <<>> at      *)
(* infinity.  Any x is on such a curve with y = 1.                          *)
Times(x, y) == (x * y) % Prime
A == 4 * A24 - 2

Slope(p, q, b) ==
    IF p = q THEN Times((3 * Times(p[1], p[1]) + 2 * Times(A, p[1]) + 1) % Prime,
                        Reciprocal(2 * Times(b, p[2])))
    ELSE Times((q[2] - p[2]) % Prime, Reciprocal(q[1] - p[1]))

OnLine(p, slope, x3) == <<x3, (Times(slope, (p[1] - x3) % Prime) - p[2]) % Prime>>

Third(p, q, slope, b) ==
    OnLine(p, slope, (Times(b, Times(slope, slope)) - A - p[1] - q[1]) % Prime)

MontAdd(p, q, b) ==
    IF p = <<>> THEN q
    ELSE IF q = <<>> THEN p
    ELSE IF p[1] = q[1] /\ (p[2] + q[2]) % Prime = 0 THEN <<>>
    ELSE Third(p, q, Slope(p, q, b), b)

MontTwiceAnd(r, q, b) == MontAdd(MontAdd(r, r, b), q, b)

MontMultiple(k, p, b) ==
    LET r[m \in 0 .. k] ==
            IF m = 0 THEN <<>> ELSE MontTwiceAnd(r[m \div 2], IF m % 2 = 1 THEN p ELSE <<>>, b)
    IN  r[k]

FirstOf(p) == IF p = <<>> THEN 0 ELSE p[1]

MontgomeryX(k, x) ==
    LET b == (((x * ((x + A) % Prime) + 1) % Prime) * x) % Prime
    IN  IF b = 0 THEN 0 ELSE FirstOf(MontMultiple(k, <<x, 1>>, b))

RefEncode(p) == p[2] + (p[1] % 2) * 2 ^ (StringBits - 1)
Curve(p) ==
    LET m(a, b) == (a * b) % Prime
        xx == m(p[1], p[1])
        yy == m(p[2], p[2])
    IN  (yy - xx - 1 - m(D, m(xx, yy))) % Prime = 0

(* The curves: both ends of an exchange compute the same key, the one of   *)
(* affine arithmetic; scalars are reduced exactly; a point is read as the  *)
(* negative of what was encoded, and only if it is on the curve; and a     *)
(* signature is accepted exactly when its equation holds and its S has no  *)
(* bit above the order's.  No operand is ever too large for fe_mul.        *)
CurvesExact ==
    /\ Result("exchange", LAMBDA in, out :
            /\ out.here = out.there /\ out.here \in 0 .. Prime - 1
            /\ out.priv % 8 = 0 /\ out.pub = MontgomeryX(out.priv, BasePoint))
    /\ Result("keygen", LAMBDA in, out :
            /\ (out.x.ret = "OK") = in[1] /\ (out.ed.ret = "OK") = in[1]
            /\ in[1] => out.ed.key.pub = RefEncode(AffineMul(Clamped(in[2]), BasePair)))
    /\ Result("any_point", LAMBDA in, out :
            out = MontgomeryX(Clamped(in[2]), (in[1] % 2 ^ (StringBits - 1)) % Prime))
    /\ Result("sc_reduce", LAMBDA in, out : out = in[1] % Order)
    /\ Result("sc_muladd", LAMBDA in, out :
            out = ((((in[1] % Order) * (in[2] % Order)) % Order) + in[3]) % Order)
    /\ Result("decode", LAMBDA in, out :
            LET y == in[1] % 2 ^ (StringBits - 1)
                points == {p \in (0 .. Prime - 1) \X {y % Prime} : Curve(p)}
            IN  /\ out.ok = (points # {})
                /\ out.ok =>
                    LET x == out.p.X.v
                    IN  /\ <<x, y % Prime>> \in points
                        /\ out.p.T.v = (x * (y % Prime)) % Prime
                        /\ x # 0 => x % 2 # in[1] \div 2 ^ (StringBits - 1))
    /\ Result("signature", LAMBDA in, out :
            LET key == in[1]  sig == in[2]  got == in[4]  h == in[5]
                s == (got.S - (((h % Order) * (key.scalar % Order)) % Order)) % Order
            IN  /\ got = sig /\ h = in[3] => out
                /\ out <=> /\ got.S < 2 ^ (StringBits - 3)
                           /\ got.R = RefEncode(AffineMul(s, BasePair)))
==============================================================================
