------------------------------- MODULE WordInt -------------------------------
(***************************************************************************)
(* src/src/integer: integer.c, multi-precision numbers as sequences of     *)
(* words, least significant first, and prime.c, the search for primes.     *)
(*                                                                         *)
(* A word is a number below W, a double word one below W^2, and both wrap. *)
(* The code's masks (all ones or all zeros) are the numbers 1 and 0 here,  *)
(* multiplied where the code ANDs.                                         *)
(***************************************************************************)
EXTENDS Integers, Sequences, SequencesExt

CONSTANTS WordBits,     \* SDC_WORD_BITS
          NewtonRounds  \* of calculate_ninv: 4 for 32-bit words, 5 for 64-bit

ASSUME WordIntAssumption ==
    /\ WordBits \in Nat \ {0, 1}
    /\ NewtonRounds \in Nat /\ 2 ^ (NewtonRounds + 1) >= WordBits

W == 2 ^ WordBits
Word == 0 .. W - 1
Words(len) == [1 .. len -> Word]

Wrap(x)  == x % W
DWrap(x) == x % (W * W)

Bit(b) == IF b THEN 1 ELSE 0

(* Bit i of a number of words, 0 the least significant.                    *)
BitAt(a, i) == (a[(i \div WordBits) + 1] \div 2 ^ (i % WordBits)) % 2

(* The bits of a, most significant first, and least significant first.     *)
BitsDown(a) == LET n == Len(a) * WordBits IN [i \in 1 .. n |-> BitAt(a, n - i)]
BitsUp(a)   == [i \in 1 .. Len(a) * WordBits |-> BitAt(a, i - 1)]

-----------------------------------------------------------------------------
(* Sums and differences: column values t, carried or borrowed upwards.     *)

(* sdc_int_set_word, sdc_int_ccopy, sdc_int_cswap.                         *)
SetWord(val, len) == [i \in 1 .. len |-> IF i = 1 THEN val ELSE 0]
CCopy(dst, src, ctl) == [i \in DOMAIN dst |-> dst[i] * (1 - ctl) + src[i] * ctl]
CSwap(a, b, ctl) == [a |-> CCopy(a, b, ctl), b |-> CCopy(b, a, ctl)]

CarryUp(c, x)  == Append(c, DWrap(x + Last(c)) \div W)
BorrowUp(c, x) == Append(c, (2 * DWrap(x - Last(c))) \div (W * W))

WithCarries(t, c) == [r |-> [k \in DOMAIN t |-> Wrap(t[k] + c[k])], c |-> Last(c)]
WithBorrows(t, c) == [r |-> [k \in DOMAIN t |-> Wrap(t[k] - c[k])], c |-> Last(c)]

Carry(t) ==
    LET c[k \in 0 .. Len(t)] == IF k = 0 THEN <<0>> ELSE CarryUp(c[k - 1], t[k])
    IN  WithCarries(t, c[Len(t)])

(* The borrow is the top bit of the double word.                           *)
Borrow(t) ==
    LET c[k \in 0 .. Len(t)] == IF k = 0 THEN <<0>> ELSE BorrowUp(c[k - 1], t[k])
    IN  WithBorrows(t, c[Len(t)])

IntAdd(a, b) == Carry([i \in DOMAIN a |-> a[i] + b[i]])
IntSub(a, b) == Borrow([i \in DOMAIN a |-> a[i] - b[i]])

IntAddCtl(a, b, ctl) == Carry([i \in DOMAIN a |-> a[i] + b[i] * ctl])
IntSubCtl(a, b, ctl) == Borrow([i \in DOMAIN a |-> a[i] - b[i] * ctl])

IntLt(a, b)  == IntSub(a, b).c
IntGte(a, b) == 1 - IntLt(a, b)
IntEq(a, b)  == Bit(\A i \in DOMAIN a : a[i] = b[i])
EqWord(a, word) == Bit(a[1] = word /\ \A i \in 2 .. Len(a) : a[i] = 0)
IsOdd(a) == a[1] % 2

AddWord(a, word) == Carry([i \in DOMAIN a |-> a[i] + (IF i = 1 THEN word ELSE 0)])
SubWord(a, word) == Borrow([i \in DOMAIN a |-> a[i] - (IF i = 1 THEN word ELSE 0)])

(* The vartime forms stop at the first column without a carry: the words   *)
(* behind it are the destination's own, a's when they are the same number. *)
Stops(t, carried) ==
    CHOOSE k \in 1 .. Len(t) :
        /\ k = Len(t) \/ carried[k] = 0
        /\ \A j \in 1 .. k - 1 : carried[j] # 0

VarTime(full, a, r, chain) ==
    LET k == Stops(a, chain)
    IN  [r |-> [i \in DOMAIN a |-> IF i <= k THEN full.r[i] ELSE r[i]], c |-> chain[k]]

AddWordVartime(r, a, word) ==
    VarTime(AddWord(a, word), a, r, [k \in DOMAIN a |-> AddWord(SubSeq(a, 1, k), word).c])
SubWordVartime(r, a, word) ==
    VarTime(SubWord(a, word), a, r, [k \in DOMAIN a |-> SubWord(SubSeq(a, 1, k), word).c])

-----------------------------------------------------------------------------
(* Products, shifts and divisions.                                         *)

MulWord(a, b) ==
    Carry([i \in 1 .. Len(a) + 1 |-> IF i > Len(a) THEN 0 ELSE a[i] * b]).r

(* Row i of the schoolbook product adds a[i] * b at word i.                *)
MulRow(r, ai, b, i) ==
    LET row == Carry([j \in 1 .. Len(b) + 1 |->
                        IF j > Len(b) THEN 0 ELSE r[i + j - 1] + ai * b[j]]).r
    IN  [k \in DOMAIN r |-> IF k \in i .. i + Len(b) THEN row[k - i + 1] ELSE r[k]]

IntMul(a, b) ==
    LET r[i \in 0 .. Len(a)] ==
            IF i = 0 THEN SetWord(0, 2 * Len(a)) ELSE MulRow(r[i - 1], a[i], b, i)
    IN  r[Len(a)]

(* r := 2 r + bit, less n when that does not fit or is not below n.        *)
AtMostOnce(x, n, top) == IF top # 0 THEN 1 ELSE IntGte(x, n)

LessIf(x, n, ge) == [r |-> IntSubCtl(x, n, ge).r, ge |-> ge]

OnceLess(x, n) == LessIf(x, n, IntGte(x, n)).r

ShiftInto(twice, n) == LessIf(twice.r, n, AtMostOnce(twice.r, n, twice.c))

ShiftIn(r, n, bit) == ShiftInto(Carry([i \in DOMAIN r |-> 2 * r[i] + Bit(i = 1) * bit]), n)

(* sdc_int_div: one quotient bit per bit i of a.                           *)
DivStep(t, q, i) ==
    [r |-> t.r, q |-> [q EXCEPT ![(i \div WordBits) + 1] = @ + t.ge * 2 ^ (i % WordBits)]]

IntDiv(a, b) ==
    FoldLeft(LAMBDA s, i : DivStep(ShiftIn(s.r, b, BitAt(a, i)), s.q, i),
             [q |-> SetWord(0, Len(a)), r |-> SetWord(0, Len(b))],
             [k \in 1 .. Len(a) * WordBits |-> Len(a) * WordBits - k])

IntReduce(x, n) ==
    LET bits == BitsDown(x)
        r[i \in 0 .. Len(bits)] ==
            IF i = 0 THEN SetWord(0, Len(n)) ELSE ShiftIn(r[i - 1], n, bits[i]).r
    IN  r[Len(bits)]

(* sdc_int_shr, whole words and bits; shr1 is shr by one.                  *)
IntShr(x, bits) ==
    LET limb == bits \div WordBits
        sh   == bits % WordBits
        At(i) == IF i <= Len(x) THEN x[i] ELSE 0
    IN  [i \in DOMAIN x |->
            At(i + limb) \div 2 ^ sh + Wrap(At(i + limb + 1) * 2 ^ (WordBits - sh))
                * (IF sh = 0 THEN 0 ELSE 1)]

IntShr1(x) ==
    [i \in DOMAIN x |->
        x[i] \div 2 + (IF i < Len(x) THEN (x[i + 1] % 2) * 2 ^ (WordBits - 1) ELSE 0)]

IntCtz(x) ==
    LET set == {i \in 0 .. Len(x) * WordBits - 1 : BitAt(x, i) = 1}
    IN  IF set = {} THEN Len(x) * WordBits ELSE CHOOSE i \in set : \A j \in set : i <= j

(* div_word and rem_word, bit by bit of the double word.                   *)
DivBit(r, q, i, divisor) ==
    IF r >= divisor THEN [r |-> r - divisor, q |-> q + 2 ^ i] ELSE [r |-> r, q |-> q]

DivWord(dividend, divisor) ==
    FoldLeft(LAMBDA s, i : DivBit(DWrap(2 * s.r + ((dividend \div 2 ^ i) % 2)), s.q, i, divisor),
             [r |-> 0, q |-> 0], [i \in 1 .. 2 * WordBits |-> 2 * WordBits - i])

(* sdc_int_div_word, from the top word down; sdc_int_mod_word.             *)
IntDivWordFrom(a, word, top) ==
    LET d[i \in 1 .. Len(a) + 1] ==
            IF i > Len(a) THEN [q |-> 0, r |-> top]
            ELSE DivWord(d[i + 1].r * W + a[i], word)
    IN  [q |-> [i \in DOMAIN a |-> Wrap(d[i].q)], r |-> d[1].r]

IntDivWord(a, word) == IntDivWordFrom(a, word, 0)
ModWord(a, word) == IF word = 0 THEN 0 ELSE IntDivWord(a, word).r

-----------------------------------------------------------------------------
(* Montgomery arithmetic.                                                  *)

Double(x, n) == ShiftIn(x, n, 0).r

Doubled(x, n, k) ==
    LET twice[v \in Words(Len(n))] == Double(v, n)
        r[i \in 0 .. k] == IF i = 0 THEN x ELSE twice[r[i - 1]]
    IN  r[k]

PrecomputeR2(n) == Doubled(SetWord(1, Len(n)), n, 2 * Len(n) * WordBits)
ToMont(x, n)    == Doubled(x, n, Len(n) * WordBits)

(* One round of mont_mul, whose two carries run side by side: add ai * b   *)
(* and the multiple f of n that clears the lowest word, and drop that word.*)
MontDrop(sum, zh) == [r |-> Append(Tail(sum.r), Wrap(zh + sum.c)), dh |-> (zh + sum.c) \div W]

MontClear(z, zh, f, n) == MontDrop(Carry([j \in DOMAIN n |-> z[j] + f * n[j]]), zh)

MontRound(s, ai, b, n, ninv) ==
    LET row == Carry([j \in DOMAIN n |-> s.r[j] + ai * b[j]])
    IN  MontClear(row.r, s.dh + row.c, Wrap(row.r[1] * ninv), n)

MontRounds(a, b, n, ninv) ==
    LET round[s \in [r : Words(Len(n)), dh : Word], ai \in Word] ==
            MontRound(s, ai, b, n, ninv)
        s[i \in 0 .. Len(a)] ==
            IF i = 0 THEN [r |-> SetWord(0, Len(n)), dh |-> 0] ELSE round[s[i - 1], a[i]]
    IN  s[Len(a)]

(* Mutant of MontLess: the word above the result is not looked at.         *)
MontLessNoTop(s, n) == OnceLess(s.r, n)

MontLess(s, n) == LessIf(s.r, n, AtMostOnce(s.r, n, s.dh)).r

MontMul(a, b, n, ninv) == MontLess(MontRounds(a, b, n, ninv), n)

MontOut(v, n, ninv) == MontClear(v, 0, Wrap(v[1] * ninv), n).r

FromMont(x, n, ninv) ==
    LET v[i \in 0 .. Len(n)] == IF i = 0 THEN x ELSE MontOut(v[i - 1], n, ninv)
    IN  OnceLess(v[Len(n)], n)

(* mont_modexp_word and _u8: three buffers under the names res, base and   *)
(* scratch, swapped by pointer.  A bit of 1 makes the scratch the result.  *)
ExpStep(s, bit, n, ninv) ==
    LET res   == IF bit = 1 THEN s.scratch ELSE s.res
        free  == IF bit = 1 THEN s.res ELSE s.scratch
    IN  [buf |-> [s.buf EXCEPT
                    ![s.scratch] = MontMul(s.buf[s.res], s.buf[s.base], n, ninv),
                    ![free]      = MontMul(s.buf[s.base], s.buf[s.base], n, ninv)],
         res |-> res, base |-> free, scratch |-> s.base]

ExpResult(s, n, ninv) == FromMont(s.buf[s.res], n, ninv)

(* Over the bits of an exponent, least significant first.                  *)
Modexp(a, bits, n, ninv) ==
    LET s[i \in 0 .. Len(bits)] ==
            IF i = 0 THEN [buf |-> <<ToMont(SetWord(1, Len(n)), n), ToMont(a, n), a>>,
                           res |-> 1, base |-> 2, scratch |-> 3]
            ELSE ExpStep(s[i - 1], bits[i], n, ninv)
    IN  ExpResult(s[Len(bits)], n, ninv)

ModexpWord(a, e, n, ninv) == Modexp(a, BitsUp(e), n, ninv)

(* mont_modexp_word_vartime and _with_ebits_vartime: most significant      *)
(* first, and a 0 costs no second product.                                 *)
TimesIf(sq, bit, base, n, ninv) == IF bit = 1 THEN MontMul(sq, base, n, ninv) ELSE sq

VartimeFrom(one, base, bits, n, ninv) ==
    LET step[x \in Words(Len(n)), bit \in 0 .. 1] ==
            TimesIf(MontMul(x, x, n, ninv), bit, base, n, ninv)
        r[i \in 0 .. Len(bits)] == IF i = 0 THEN one ELSE step[r[i - 1], bits[i]]
    IN  FromMont(r[Len(bits)], n, ninv)

ModexpVartime(a, bits, n, ninv) ==
    VartimeFrom(ToMont(SetWord(1, Len(n)), n), ToMont(a, n), bits, n, ninv)

ModexpWordVartime(a, e, n, ninv) == ModexpVartime(a, BitsDown(e), n, ninv)

EBits(e) == CHOOSE k \in 0 .. WordBits : e < 2 ^ k /\ (k = 0 \/ e >= 2 ^ (k - 1))

ModexpEbits(a, e, n, ninv) ==
    ModexpVartime(a, [i \in 1 .. EBits(e) |-> (e \div 2 ^ (EBits(e) - i)) % 2], n, ninv)

(* sdc_int_calculate_ninv: Newton's iteration for -1/x modulo W.           *)
CalculateNinv(x) ==
    IF x % 2 = 0 THEN 0
    ELSE Wrap(-FoldLeft(LAMBDA inv, i : Wrap(inv * Wrap(2 - x * inv)),
                        Wrap(2 - x), [i \in 1 .. NewtonRounds |-> i]))

Ninv(n) == CalculateNinv(n[1])

-----------------------------------------------------------------------------
(* Inverses.                                                               *)

Half1(x, m) == IF x % 2 = 0 THEN x \div 2 ELSE (x + m) \div 2

(* One round of modinv_word: halve what is even; when both are odd, take   *)
(* the smaller from the larger.                                            *)
XgcdRound(s, m) ==
    LET both == s.u % 2 = 1 /\ s.v % 2 = 1
        u  == IF s.u % 2 = 0 THEN s.u \div 2 ELSE s.u
        x1 == IF s.u % 2 = 0 THEN Half1(s.x1, m) ELSE s.x1
        v  == IF s.v % 2 = 0 THEN s.v \div 2 ELSE s.v
        x2 == IF s.v % 2 = 0 THEN Half1(s.x2, m) ELSE s.x2
        Less(x, y) == IF x >= y THEN x - y ELSE Wrap(x + m - y)
    IN  IF ~both THEN [u |-> u, v |-> v, x1 |-> x1, x2 |-> x2]
        ELSE IF u >= v THEN [u |-> u - v, v |-> v, x1 |-> Less(x1, x2), x2 |-> x2]
        ELSE [u |-> u, v |-> v - u, x1 |-> x1, x2 |-> Less(x2, x1)]

XgcdResult(s, m) == IF m = 1 THEN 0 ELSE IF s.u = 1 THEN s.x1 % m ELSE s.x2 % m

ModInvWord(a, m) ==
    LET s[i \in 0 .. 4 * WordBits] ==
            IF i = 0 THEN [u |-> a, v |-> m, x1 |-> 1, x2 |-> 0] ELSE XgcdRound(s[i - 1], m)
    IN  XgcdResult(s[4 * WordBits], m)

(* sdc_int_modinv: d = (k * phi + 1) / e with k = -1/phi modulo e.         *)
PlusOneOver(kp, e, len) ==
    IntDivWordFrom([i \in 1 .. len |-> IF i = 1 THEN Wrap(kp[1] + 1) ELSE kp[i]], e, kp[len + 1]).q

IntModinv(phi, e) ==
    PlusOneOver(MulWord(phi, e - ModInvWord(ModWord(phi, e), e)), e, Len(phi))

-----------------------------------------------------------------------------
(* Bytes, k of them to a word, most significant word first or last.        *)

LoadBE(s, base) == FoldLeft(LAMBDA n, b : n * base + b, 0, s)

FromBytesBE(in, k, base) ==
    LET len == Len(in) \div k
    IN  [w \in 1 .. len |-> LoadBE(SubSeq(in, (len - w) * k + 1, (len - w + 1) * k), base)]

FromBytesLE(in, k, base) ==
    [w \in 1 .. Len(in) \div k |-> LoadBE(Reverse(SubSeq(in, (w - 1) * k + 1, w * k)), base)]

ToBytesBE(a, k, base) ==
    FlattenSeq([i \in DOMAIN a |->
        [j \in 1 .. k |-> (a[Len(a) + 1 - i] \div base ^ (k - j)) % base]])

ToBytesLE(a, k, base) ==
    FlattenSeq([i \in DOMAIN a |-> [j \in 1 .. k |-> (a[i] \div base ^ (j - 1)) % base]])

-----------------------------------------------------------------------------
(* prime.c: candidates and the test of gen_prime.                          *)

CONSTANTS SmallPrimes,  \* SMALL_PRIMES, 168 of them in the code
          BasesSmall,   \* bases_small and bases_large of is_prime
          BasesLarge

ASSUME PrimesAssumption ==
    /\ SmallPrimes \subseteq Word \ {0}
    /\ \A i \in DOMAIN BasesSmall : BasesSmall[i] \in Word
    /\ \A i \in DOMAIN BasesLarge : BasesLarge[i] \in Word

(* int_gen_random_odd: x is what the generator delivered.                  *)
RandomOdd(x) ==
    LET quarter == 2 ^ (WordBits - 2)
        odd == [x EXCEPT ![1] = @ + 1 - (@ % 2)]
    IN  [odd EXCEPT ![Len(x)] = (@ % quarter) + 3 * quarter]

DivisibleBySmallPrime(x) == \E p \in SmallPrimes : ModWord(x, p) = 0

(* One base of Miller and Rabin, x - 1 = d * 2^s.                          *)
SquaredUnless(r, minus, x, ninv) == IF r = minus THEN r ELSE ModexpEbits(r, 2, x, ninv)

Squarings(first, minus, x, ninv, rounds) ==
    LET r[j \in 0 .. rounds] == IF j = 0 THEN first ELSE SquaredUnless(r[j - 1], minus, x, ninv)
    IN  r[rounds]

(* Mutant of MinusOneBy: one squaring less.                                *)
MinusOneByShort(first, minus, x, ninv, s) ==
    EqWord(first, 1) = 1 \/ Squarings(first, minus, x, ninv, IF s = 1 THEN 0 ELSE s - 2) = minus

MinusOneBy(first, minus, x, ninv, s) ==
    EqWord(first, 1) = 1 \/ Squarings(first, minus, x, ninv, s - 1) = minus

Witnessed(base, x, d, s) ==
    MinusOneBy(ModexpWordVartime(SetWord(base, Len(x)), d, x, CalculateNinv(x[1])),
               SubWord(x, 1).r, x, CalculateNinv(x[1]), s)

PassesBase(base, x, minus) ==
    base = 0 \/ Witnessed(base, x, IntShr(minus, IntCtz(minus)), IntCtz(minus))

IsPrime(x) ==
    LET bases  == IF Len(x) = 1 THEN BasesSmall ELSE BasesLarge
        Low(b) == IF Len(x) = 1 /\ b >= x[1] THEN b % x[1] ELSE b
    IN  /\ EqWord(x, 0) = 0 /\ EqWord(x, 1) = 0
        /\ IF IsOdd(x) = 0 THEN EqWord(x, 2) = 1
           ELSE \A i \in DOMAIN bases : PassesBase(Low(bases[i]), x, SubWord(x, 1).r)

(* sdc_int_gen_prime takes the first candidate that passes both tests, and *)
(* gives up after GEN_PRIME_MAX_ATTEMPT of them.                           *)
Acceptable(x) == ~DivisibleBySmallPrime(x) /\ IsPrime(x)

GenPrimeOutcomes(len) ==
    {[ret |-> "OK", x |-> x] : x \in {c \in {RandomOdd(r) : r \in Words(len)} : Acceptable(c)}}
        \cup {[ret |-> e, x |-> SetWord(0, len)] : e \in {"RNG_FAIL", "TIMEOUT"}}

(* What QInv and modinv_word need: no common divisor above 1.              *)
Coprime(a, b) == \A n \in 2 .. b : a % n # 0 \/ b % n # 0
=============================================================================
