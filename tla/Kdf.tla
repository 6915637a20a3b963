--------------------------------- MODULE Kdf ---------------------------------
(***************************************************************************)
(* src/src/kdf/hmac.c and pbkdf2.c over the SHA-256 context of MdStream.   *)
(* Compression is a free function, so a digest byte is the sequence of     *)
(* bytes compressed and its place.                                         *)
(***************************************************************************)
EXTENDS MdStream, FiniteSetsExt, SequencesExt

CONSTANTS Sha,          \* SHA-256: block of 64, digest of 32 in the code
          KeyLens,      \* bound: lengths of keys and passwords
          MaxData,      \* bound: bytes fed to one HMAC
          SaltLens,     \* bound
          Iterations,   \* bound
          OutLens       \* bound: bytes derived

ASSUME KdfAssumption ==
    /\ Sha \in Alg /\ Sha.kind = "md" /\ Sha.words = 1
    /\ Sha.lenField < Sha.block /\ Sha.hashLen \in 1 .. Sha.block
    /\ KeyLens \cup SaltLens \cup OutLens \subseteq Nat
    /\ Iterations \subseteq Nat /\ MaxData \in Nat

(* FIPS 180-4 defines no digest of 2^64 bits or more.                      *)
Fits(n) == 8 * n < WordMod

ASSUME LengthAssumption ==
    /\ \A n \in KeyLens : Fits(n)
    /\ \A n \in SaltLens : Fits(Sha.block + n + 4)
    /\ Fits(Sha.block + MaxData) /\ Fits(Sha.block + Sha.hashLen)

VARIABLES hmac,     \* sdc_hmac_sha256_ctx
          given,    \* the key and the number of bytes fed, from the caller's side
          derived   \* the last result and what it was computed from

kdfVars == <<hmac, given, derived>>

KeyOf(n)  == [i \in 1 .. n |-> [src |-> "key", at |-> <<i>>]]
SaltOf(n) == [i \in 1 .. n |-> [src |-> "salt", at |-> <<i>>]]

(* Of four or five numbers, so as to differ from every byte of HashData.   *)
HashBytes(absorbed) ==
    [i \in 1 .. Sha.hashLen |-> [src |-> "hash", at |-> <<i, absorbed, 0, 0>>]]

(* store32_be                                                              *)
Store32(n) == [i \in 1 .. 4 |-> [src |-> "int", at |-> <<n, i>>]]

XorPad(bytes, pad) == [i \in DOMAIN bytes |-> XorMark(bytes[i], pad)]

Ipad == 54
Opad == 92

Filled(bytes) == bytes \o Zeros(Sha.block - Len(bytes))

Updated(ctx, data) == MdUpdate(Sha, ctx, data)
ShaOf(data) == HashBytes(MdFinal(Sha, Updated(MdInit(Sha), data)).state)

-----------------------------------------------------------------------------
(* HMAC.                                                                   *)

(* Mutant of KeyBlock: a key of exactly one block is hashed too.           *)
KeyBlockEqual(key) == Filled(IF Len(key) >= Sha.block THEN ShaOf(key) ELSE key)

KeyBlock(key) == Filled(IF Len(key) > Sha.block THEN ShaOf(key) ELSE key)

HmacInit(key) ==
    [inner |-> Updated(MdInit(Sha), XorPad(KeyBlock(key), Ipad)),
     opad  |-> XorPad(KeyBlock(key), Opad)]

HmacUpdate(ctx, data) == [ctx EXCEPT !.inner = Updated(@, data)]

HmacFinal(ctx) ==
    LET inner == HashBytes(MdFinal(Sha, ctx.inner).state)
        outer == Updated(Updated(MdInit(Sha), ctx.opad), inner)
    IN  HashBytes(MdFinal(Sha, outer).state)

Hmac(key, data) == HmacFinal(HmacUpdate(HmacInit(key), data))

-----------------------------------------------------------------------------
(* PBKDF2.  A byte of T is the set of bytes whose sum modulo 2 it is.      *)

FirstU(password, salt, block) ==
    HmacFinal(HmacUpdate(HmacUpdate(HmacInit(password), salt), Store32(block)))

Xored(t, u) == [j \in DOMAIN t |-> SymDiff(t[j], {u[j]})]

(* One iteration more: s is the last U and the sum so far.                 *)
Iterated(password, s) ==
    LET u == Hmac(password, s.u) IN [u |-> u, t |-> Xored(s.t, u)]

FirstSum(u1) == [u |-> u1, t |-> [j \in 1 .. Sha.hashLen |-> {u1[j]}]]

(* Mutant of BlockOf: one iteration too many.                              *)
BlockOfOneMore(password, salt, iterations, block) ==
    LET r[i \in 1 .. iterations + 1] ==
            IF i = 1 THEN FirstSum(FirstU(password, salt, block))
            ELSE Iterated(password, r[i - 1])
    IN  r[iterations + 1].t

BlockOf(password, salt, iterations, block) ==
    LET r[i \in 1 .. iterations] ==
            IF i = 1 THEN FirstSum(FirstU(password, salt, block))
            ELSE Iterated(password, r[i - 1])
    IN  r[iterations].t

(* The last block is cut to what is left.                                  *)
Pbkdf2(password, salt, iterations, outlen) ==
    IF outlen = 0 \/ iterations = 0 THEN <<>>
    ELSE LET blocks == (outlen + Sha.hashLen - 1) \div Sha.hashLen
         IN  SubSeq(FlattenSeq([b \in 1 .. blocks |-> BlockOf(password, salt, iterations, b)]),
                    1, outlen)

-----------------------------------------------------------------------------
NoCtx == [inner |-> MdInit(Sha), opad |-> <<>>]
Unused == [key |-> -1, data |-> 0]
NoResultYet == [of |-> "none", key |-> 0, data |-> 0, salt |-> 0, iterations |-> 0, out |-> <<>>]

KdfInit == hmac = NoCtx /\ given = Unused /\ derived = NoResultYet

Open == given.key # -1

StartHmac(n) ==
    /\ hmac' = HmacInit(KeyOf(n))
    /\ given' = [key |-> n, data |-> 0]
    /\ derived' = NoResultYet

FeedHmac(n) ==
    /\ Open
    /\ given.data + n <= MaxData
    /\ hmac' = HmacUpdate(hmac, [i \in 1 .. n |-> MsgByte(given.data + i)])
    /\ given' = [given EXCEPT !.data = @ + n]
    /\ UNCHANGED derived

(* The context is wiped.                                                   *)
EndHmac ==
    /\ Open
    /\ derived' = [NoResultYet EXCEPT !.of = "hmac", !.key = given.key, !.data = given.data,
                                      !.out = HmacFinal(hmac)]
    /\ hmac' = NoCtx /\ given' = Unused

Derive(pwdlen, saltlen, iterations, outlen) ==
    /\ ~Open /\ derived.of = "none"
    /\ derived' = [of |-> "pbkdf2", key |-> pwdlen, data |-> outlen, salt |-> saltlen,
                   iterations |-> iterations,
                   out |-> Pbkdf2(KeyOf(pwdlen), SaltOf(saltlen), iterations, outlen)]
    /\ UNCHANGED <<hmac, given>>

KdfNext ==
    \/ \E n \in KeyLens : StartHmac(n)
    \/ \E n \in 0 .. MaxData : FeedHmac(n)
    \/ EndHmac
    \/ \E p \in KeyLens, s \in SaltLens, c \in Iterations, n \in OutLens : Derive(p, s, c, n)

KdfSpec == KdfInit /\ [][KdfNext]_kdfVars

-----------------------------------------------------------------------------
(* Properties.                                                             *)

H(msg) == HashBytes(MdPadded(Sha, msg))

(* RFC 2104.                                                               *)
HmacOf(key, data) ==
    LET k == Filled(IF Len(key) > Sha.block THEN H(key) ELSE key)
    IN  H(XorPad(k, Opad) \o H(XorPad(k, Ipad) \o data))

(* RFC 8018: U_1 of the salt and the block's number, U_j of U_(j-1).       *)
Us(password, salt, block, c) ==
    LET U[j \in 1 .. c] == HmacOf(password, IF j = 1 THEN salt \o Store32(block) ELSE U[j - 1])
    IN  U

(* sdc_hmac_sha256_init, _update, _final: however the data is cut, for     *)
(* keys shorter than, as long as and longer than a block, and for data     *)
(* that crosses blocks at every offset, the result is RFC 2104's.          *)
HmacExact ==
    derived.of = "hmac" => derived.out = HmacOf(KeyOf(derived.key), MsgOf(derived.data))

(* The sum of byte k of strings: what occurs there an odd number of times. *)
SumAt(u, k) ==
    {x \in {u[i][k] : i \in DOMAIN u} : Cardinality({i \in DOMAIN u : u[i][k] = x}) % 2 = 1}

(* sdc_kdf_pbkdf2_sha256: byte j is the sum of the matching bytes of all   *)
(* the U of its block, blocks being counted from one, whatever the length; *)
(* nothing is derived in no iterations.                                    *)
DerivedExact ==
    derived.of = "pbkdf2" =>
        /\ Len(derived.out) = (IF derived.iterations = 0 THEN 0 ELSE derived.data)
        /\ \A j \in DOMAIN derived.out :
            derived.out[j] = SumAt(Us(KeyOf(derived.key), SaltOf(derived.salt),
                                      ((j - 1) \div Sha.hashLen) + 1, derived.iterations),
                                   ((j - 1) % Sha.hashLen) + 1)
=============================================================================
