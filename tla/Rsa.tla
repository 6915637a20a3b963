--------------------------------- MODULE Rsa ---------------------------------
(***************************************************************************)
(* src/src/rsa/keypair.c and rsa_inner.c: keys that are generated or       *)
(* imported, in memory that may run out and with a generator that may      *)
(* fail, and the private operation with them, blinded, by the Chinese      *)
(* remainder theorem.                                                      *)
(***************************************************************************)
EXTENDS WordInt

CONSTANTS Len1,         \* words of a prime; a modulus has twice as many
          Exps,         \* public exponents offered
          BlindWords,   \* SDC_RSA_BLINDING_WORDS, no more than Len1
          Blinds,       \* bound: what the generator delivers for blinding
          Inputs        \* bound: numbers put through the private operation

ASSUME RsaAssumption ==
    /\ Len1 \in Nat \ {0} /\ BlindWords \in 1 .. Len1
    /\ Exps \subseteq Word
    /\ Blinds \subseteq Words(BlindWords) /\ Inputs \subseteq Words(2 * Len1)

VARIABLES pub,      \* sdc_rsa_pubkey_t
          priv,     \* sdc_rsa_privkey_t
          heap,     \* allocations less frees, per block
          origin,   \* what the caller had the private key from
          run       \* the call under way or the last one

rsaVars == <<pub, priv, heap, origin, run>>

Null == <<>>
NoPub == [n |-> Null, e |-> 0]
NoKey == [p |-> Null, q |-> Null, dp |-> Null, dq |-> Null, qinv |-> Null,
          d |-> Null, n |-> Null, block |-> FALSE]
NoOrigin == [e |-> 0, supplied |-> FALSE, swapped |-> FALSE, phi |-> Null]

(* drawn: rp and rq, once drawn *)
Finished(op, ret) ==
    [at |-> "idle", op |-> op, ret |-> ret, in |-> Null, drawn |-> <<>>, out |-> Null]

RsaInit ==
    /\ pub = NoPub /\ priv = NoKey /\ origin = NoOrigin
    /\ heap = [b \in {"block", "tmp", "n"} |-> 0]
    /\ run = Finished("none", "OK")

Between == run.at = "idle"
At(pc) == run.at = pc
Goto(pc) == [run EXCEPT !.at = pc]

Malloc(b) == [heap EXCEPT ![b] = @ + 1]

-----------------------------------------------------------------------------
(* The numbers of a key.                                                   *)

Minus(x, word) == SubWord(x, word).r

Phi(p, q) == IntMul(Minus(p, 1), Minus(q, 1))

(* By Fermat.                                                              *)
QInv(p, q) == ModexpWord(q, Minus(p, 2), p, Ninv(p))

WithCrt(key) ==
    [key EXCEPT !.dp = IntReduce(key.d, Minus(key.p, 1)),
                !.dq = IntReduce(key.d, Minus(key.q, 1)),
                !.qinv = QInv(key.p, key.q)]

(* Mutant of Ordered: the primes stay as they came.                        *)
OrderedNot(key) == key

(* p > q, by an exchange of the pointers.                                  *)
Ordered(key) ==
    IF IntLt(key.p, key.q) = 1 THEN [key EXCEPT !.p = key.q, !.q = key.p] ELSE key

Derived(key, e) ==
    WithCrt([key EXCEPT !.n = IntMul(key.p, key.q), !.d = IntModinv(Phi(key.p, key.q), e)])

-----------------------------------------------------------------------------
(* sdc_rsa_keypair.                                                        *)

PrimeOutcomes == GenPrimeOutcomes(Len1)

(* err_free_privkey.                                                       *)
FreePrivkey(h, ret) ==
    /\ heap' = [h EXCEPT !["block"] = @ - 1]
    /\ priv' = NoKey
    /\ pub' = NoPub
    /\ run' = Finished("keypair", ret)
    /\ UNCHANGED origin

(* Mutant of FreeAll: straight to the second label.                        *)
FreeAllSkipped(ret) == FreePrivkey(heap, ret)

(* err_free_all: pub->n is still NULL on every way here.                   *)
FreeAll(ret) == FreePrivkey([heap EXCEPT !["tmp"] = @ - 1], ret)

Keypair(e) ==
    /\ Between /\ priv = NoKey /\ pub = NoPub
    /\ \/ /\ e % 2 = 0
          /\ run' = Finished("keypair", "INVALID_PARAM")
          /\ UNCHANGED <<pub, priv, heap, origin>>
       \/ /\ e % 2 = 1
          /\ run' = Finished("keypair", "MEM_ALLOCATE_FAIL")
          /\ UNCHANGED <<pub, priv, heap, origin>>
       \/ /\ e % 2 = 1
          /\ heap' = Malloc("block")
          /\ priv' = [NoKey EXCEPT !.block = TRUE]
          /\ origin' = [NoOrigin EXCEPT !.e = e]
          /\ run' = [Finished("keypair", "OK") EXCEPT !.at = "tmp"]
          /\ UNCHANGED pub

KeypairTmp ==
    /\ At("tmp")
    /\ \/ FreePrivkey(heap, "MEM_ALLOCATE_FAIL")
       \/ heap' = Malloc("tmp") /\ run' = Goto("p") /\ UNCHANGED <<pub, priv, origin>>

KeypairP ==
    /\ At("p")
    /\ \E o \in PrimeOutcomes :
        IF o.ret # "OK" THEN FreeAll(o.ret)
        ELSE /\ priv' = [priv EXCEPT !.p = o.x]
             /\ run' = Goto("q")
             /\ UNCHANGED <<pub, heap, origin>>

(* Another q as long as it equals p.                                       *)
KeypairQ ==
    /\ At("q")
    /\ \E o \in PrimeOutcomes :
        IF o.ret # "OK" THEN FreeAll(o.ret)
        ELSE /\ priv' = [priv EXCEPT !.q = o.x]
             /\ run' = IF IntEq(priv.p, o.x) = 1 THEN run ELSE Goto("derive")
             /\ UNCHANGED <<pub, heap, origin>>

Generated(key) ==
    /\ priv' = key
    /\ pub' = [n |-> key.n, e |-> origin.e]
    /\ origin' = [origin EXCEPT !.phi = Phi(key.p, key.q)]
    /\ heap' = [Malloc("n") EXCEPT !["tmp"] = @ - 1]
    /\ run' = Finished("keypair", "OK")

KeypairDerive ==
    /\ At("derive")
    /\ \/ FreeAll("MEM_ALLOCATE_FAIL")
       \/ \E key \in {Derived(Ordered(priv), origin.e)} : Generated(key)

-----------------------------------------------------------------------------
(* sdc_rsa_privkey_init, sdc_rsa_pubkey_init, sdc_rsa_free_keypair.        *)

ImportPrimes == {o.x : o \in {x \in PrimeOutcomes : x.ret = "OK"}}

(* The caller's numbers: those of a key of its own with the primes in this *)
(* order.  crt: all of dp, dq and qinv are given, none, or only some.      *)
PrivkeyFrom(theirs, p, q, e, crt) ==
    LET given  == Ordered([theirs EXCEPT !.block = TRUE])
        none   == [given EXCEPT !.dp = Null, !.dq = Null, !.qinv = Null]
        Fails(ret, h, k) == /\ run' = Finished("privkey_init", ret)
                            /\ heap' = h /\ priv' = k
                            /\ UNCHANGED <<pub, origin>>
    IN  \/ /\ theirs.d[2 * Len1] % 2 = 0             \* d[0] & 1
           /\ Fails("INVALID_PARAM", heap, NoKey)
        \/ /\ theirs.d[2 * Len1] % 2 = 1
           /\ \/ Fails("MEM_ALLOCATE_FAIL", heap, NoKey)
              \/ /\ p = q \/ crt = "some"
                 /\ Fails("KEY_INVALID", heap, [none EXCEPT !.block = FALSE])
              \/ /\ p # q /\ crt = "none"           \* no tmp
                 /\ Fails("MEM_ALLOCATE_FAIL", heap, [none EXCEPT !.block = FALSE])
              \/ /\ p # q /\ crt # "some"
                 /\ heap' = Malloc("block")
                 /\ priv' = IF crt = "all" THEN given ELSE WithCrt(none)
                 /\ origin' = [e |-> e, supplied |-> crt = "all",
                             swapped |-> IntLt(p, q) = 1, phi |-> Phi(p, q)]
                 /\ run' = Finished("privkey_init", "OK")
                 /\ UNCHANGED pub

PrivkeyInit(p, q, e, crt) ==
    /\ Between /\ priv = NoKey /\ pub = NoPub
    /\ \E theirs \in {Derived([NoKey EXCEPT !.p = p, !.q = q], e)} :
            PrivkeyFrom(theirs, p, q, e, crt)

(* n: the key's own modulus, or nothing but zeros.                         *)
PubkeyInit(n, e) ==
    /\ Between /\ pub = NoPub /\ priv.block
    /\ \/ /\ run' = Finished("pubkey_init",
                    IF e % 2 = 0 THEN "INVALID_PARAM"
                    ELSE IF EqWord(n, 0) = 1 THEN "KEY_INVALID" ELSE "MEM_ALLOCATE_FAIL")
          /\ UNCHANGED <<pub, heap>>
       \/ /\ e % 2 = 1 /\ EqWord(n, 0) = 0
          /\ heap' = Malloc("n")
          /\ pub' = [n |-> n, e |-> e]
          /\ run' = Finished("pubkey_init", "OK")
    /\ UNCHANGED <<priv, origin>>

FreeKeypair ==
    /\ Between
    /\ heap' = [heap EXCEPT !["n"] = @ - Bit(pub.n # Null), !["block"] = @ - Bit(priv.block)]
    /\ pub' = NoPub /\ priv' = NoKey /\ origin' = NoOrigin
    /\ run' = Finished("free", "OK")

-----------------------------------------------------------------------------
(* rsa_inner.c.                                                            *)

(* _sdc_rsa_public, for m below n.                                         *)
RsaPublic(m, key) == ModexpEbits(m, key.e, key.n, Ninv(key.n))

(* Mutant of Blinded: the carry is dropped.                                *)
BlindedNoCarry(r, prime, exp) ==
    LET product == IntMul(r, Minus(prime, 1))
    IN  IntAdd(SubSeq(product, 1, Len1), exp).r \o SubSeq(product, Len1 + 1, 2 * Len1)

(* dp_blind = dp + rp * (p - 1), the carry added to the first high word    *)
(* and to no other.                                                        *)
Blinded(r, prime, exp) ==
    LET product == IntMul(r, Minus(prime, 1))
        low  == IntAdd(SubSeq(product, 1, Len1), exp)
        high == SubSeq(product, Len1 + 1, 2 * Len1)
    IN  low.r \o [high EXCEPT ![1] = Wrap(@ + low.c)]

(* Garner: s2 + q * ((s1 - s2) * qinv mod p).                              *)
Recombined(s1, s2, key) ==
    LET diff == IntAddCtl(IntSub(s1, s2).r, key.p, IntLt(s1, s2)).r
        t    == IntReduce(IntMul(diff, key.qinv), key.p)
    IN  IntAdd(s2 \o SetWord(0, Len1), IntMul(key.q, t)).r

(* _sdc_rsa_private: both exponents are blinded before either is used.     *)
PrivateBegin(c) ==
    /\ Between /\ priv.block
    /\ run' = IF IntGte(c, priv.n) = 1 THEN Finished("private", "KEY_INVALID")
               ELSE [Finished("private", "OK") EXCEPT !.at = "rp", !.in = c]
    /\ UNCHANGED <<pub, priv, heap, origin>>

PrivateFails ==
    /\ run.at \in {"rp", "rq"}
    /\ run' = Finished("private", "RANDOM_FAIL")
    /\ UNCHANGED <<pub, priv, heap, origin>>

(* A number divisible by p is drawn again.                                 *)
DrawRp(raw) ==
    LET r == IntReduce(raw, priv.p)
    IN  /\ At("rp") /\ EqWord(r, 0) = 0
        /\ run' = [run EXCEPT !.at = "rq", !.drawn = <<r>>, !.out = Blinded(r, priv.p, priv.dp)]
        /\ UNCHANGED <<pub, priv, heap, origin>>

HalfPrivate(c, exp, prime) == ModexpWord(IntReduce(c, prime), exp, prime, Ninv(prime))

DrawRq(raw) ==
    LET r == IntReduce(raw, priv.q)
    IN  /\ At("rq") /\ EqWord(r, 0) = 0
        /\ run' = [run EXCEPT !.at = "idle", !.drawn = <<@[1], r>>,
                        !.out = Recombined(HalfPrivate(run.in, run.out, priv.p),
                                           HalfPrivate(run.in, Blinded(r, priv.q, priv.dq),
                                                       priv.q), priv)]
        /\ UNCHANGED <<pub, priv, heap, origin>>

RsaNext ==
    \/ \E e \in Exps : Keypair(e)
    \/ KeypairTmp \/ KeypairP \/ KeypairQ \/ KeypairDerive
    \/ \E p, q \in ImportPrimes, e \in Exps, crt \in {"all", "none", "some"} :
            e % 2 = 1 /\ PrivkeyInit(p, q, e, crt)
    \/ \E n \in {priv.n, SetWord(0, 2 * Len1)}, e \in {origin.e, origin.e - 1} : PubkeyInit(n, e)
    \/ FreeKeypair
    \/ \E c \in Inputs : PrivateBegin(c)
    \/ PrivateFails
    \/ \E raw \in Blinds : DrawRp(raw) \/ DrawRq(raw)

RsaSpec == RsaInit /\ [][RsaNext]_rsaVars

-----------------------------------------------------------------------------
(* Properties.                                                             *)

(* sdc_rsa_keypair, _privkey_init, _pubkey_init, _free_keypair: whichever  *)
(* allocation, prime search or check fails, between calls exactly the      *)
(* blocks the two keys name are allocated, none is freed twice, and a      *)
(* failed key generation leaves both keys empty.                           *)
NothingLeft ==
    /\ \A b \in DOMAIN heap : heap[b] \in {0, 1}
    /\ Between => heap = [block |-> Bit(priv.block), tmp |-> 0, n |-> Bit(pub.n # Null)]
    /\ Between /\ run.op = "keypair" /\ run.ret # "OK" => priv = NoKey /\ pub = NoPub


Number(x) == LoadBE(Reverse(x), W)

(* dp + rp * (p - 1), on plain numbers.                                    *)
FullExponent(r, prime, exp) == Number(r) * (Number(prime) - 1) + Number(exp)

(* The sum carries out of the low half, and its next word is all ones.     *)
CarryLost(r, prime, exp) ==
    LET product == Number(r) * (Number(prime) - 1)
    IN  /\ (product % W ^ Len1) + Number(exp) >= W ^ Len1
        /\ (product \div W ^ Len1) % W = W - 1

LostInBlinding ==
    \/ CarryLost(run.drawn[1], priv.p, priv.dp)
    \/ CarryLost(run.drawn[2], priv.q, priv.dq)

(* Both operations done, by keys whose exponents are inverse.              *)
Applied ==
    /\ Between /\ run.op = "private" /\ run.ret = "OK" /\ pub.n # Null
    /\ Coprime(Number(origin.phi), origin.e)

Undone == RsaPublic(run.out, pub) = run.in

(* _sdc_rsa_private, _sdc_rsa_public: the public operation undoes the      *)
(* private one, for every input, multiples of a prime included, with keys  *)
(* generated or imported, whatever was drawn for blinding unless the carry *)
(* of BlindingFull was lost, and whatever the order of the primes unless   *)
(* the caller's own CRT values came with the smaller prime first.          *)
KeysWork ==
    Applied /\ ~LostInBlinding /\ ~(origin.supplied /\ origin.swapped) => Undone

(* rsa_inner.c:168, "dp_blind = dp + rp * (p - 1)   (full 2*len1 words)":  *)
(* so is the exponent sdc_int_mont_modexp_word is given for p.             *)
BlindingFull ==
    At("rq") => Number(run.out) = FullExponent(run.drawn[1], priv.p, priv.dp)

(* rsa.h:129-134: "p Prime p bytes, q Prime q bytes, dp CRT coefficient    *)
(* d mod (p-1), dq CRT coefficient d mod (q-1), qinv CRT coefficient       *)
(* q^{-1} mod p", in no order: the values a caller supplied so work.       *)
SuppliedWork == Applied /\ ~LostInBlinding /\ origin.supplied => Undone
=============================================================================
