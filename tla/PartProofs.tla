----------------------------- MODULE PartProofs -----------------------------
(***************************************************************************)
(* CTR and CBC for every block length, batch and buffer: what a call       *)
(* leaves in its output is the mode's result on what its input held when   *)
(* the call was made, also where the two are one buffer.  The dispatch of  *)
(* GHASH for any number of threads: one backend for each context.  And the *)
(* memory of RSA keys of any length: what is allocated, the keys name.     *)
(* And the padding of PKCS#1 v1.5 for any moduli, messages and damage:     *)
(* what decrypts or verifies is what encodes it.  The time conversion, for *)
(* every clock, injected time and size of cache: its loops and its cache   *)
(* compute the calendar.                                                   *)
(***************************************************************************)
EXTENDS AsnTime, BlockModes, CpuDispatch, Pkcs1, Rsa, FiniteSetTheorems, SequenceTheorems, TLAPS

(* The lemmas on naturals and sequences; no block of theirs is at issue.   *)
Data == INSTANCE DataLemmas WITH BlockSize <- 1

-----------------------------------------------------------------------------
(* Memory is a table of tables of bytes.                                   *)
Tables(m) == m = [b \in Buffers |-> [i \in 1 .. BufLen |-> m[b][i]]]

(* A table is a sequence, and so are its parts.                            *)
LEMMA PartFacts ==
    ASSUME NEW n \in Nat, NEW f, f = [i \in 1 .. n |-> f[i]],
           NEW u \in 1 .. n + 1, NEW v \in u - 1 .. n
    PROVE  /\ Len(f) = n /\ DOMAIN f = 1 .. n
           /\ SubSeq(f, u, v) = [i \in 1 .. v - u + 1 |-> f[u + i - 1]]
           /\ Len(SubSeq(f, u, v)) = v - u + 1
<1> DEFINE S == {f[i] : i \in 1 .. n}
           t == SubSeq(f, u, v)
<1>1. f \in [1 .. n -> S]
  OBVIOUS
<1>2. f \in Seq(S) /\ Len(f) = n /\ DOMAIN f = 1 .. n
  BY <1>1, Data!TableIsSeq
<1>3. \A i \in u .. v : f[i] \in S
  BY <1>1
<1>4. u \in Int /\ v \in Int
  OBVIOUS
<1> HIDE DEF S
<1>5. /\ t \in Seq(S) /\ Len(t) = IF u <= v THEN v - u + 1 ELSE 0
      /\ \A i \in 1 .. v - u + 1 : t[i] = f[u + i - 1]
  BY ONLY <1>3, <1>4, SubSeqProperties DEF t
<1> HIDE DEF t
<1>6. Len(t) = v - u + 1
  BY <1>5
<1>7. t = [i \in 1 .. v - u + 1 |-> t[i]]
  BY <1>5, <1>6
<1>8. t = [i \in 1 .. v - u + 1 |-> f[u + i - 1]]
  BY <1>5, <1>7
<1> QED
  BY <1>2, <1>6, <1>8 DEF t

(* What is behind the first m bytes of a table.                            *)
LEMMA TailFacts ==
    ASSUME NEW n \in Nat, NEW f, f = [i \in 1 .. n |-> f[i]], NEW m \in 0 .. n,
           NEW g, g = [i \in 1 .. m |-> g[i]]
    PROVE  g \o SubSeq(f, m + 1, n) = [i \in 1 .. n |-> IF i <= m THEN g[i] ELSE f[i]]
<1> DEFINE S == {f[i] : i \in 1 .. n} \cup {g[i] : i \in 1 .. m}
           t == SubSeq(f, m + 1, n)
<1>1. f \in [1 .. n -> S] /\ g \in [1 .. m -> S]
  OBVIOUS
<1>2. /\ f \in Seq(S) /\ Len(f) = n
      /\ g \in Seq(S) /\ Len(g) = m
  BY <1>1, Data!TableIsSeq
<1> HIDE DEF S
<1>3. /\ t \in Seq(S) /\ Len(t) = n - m
      /\ \A i \in 1 .. n - m : t[i] = f[m + i]
  <2> DEFINE u == m + 1
  <2>1. /\ u \in 1 .. n + 1 /\ n \in u - 1 .. n /\ n - u + 1 = n - m
        /\ \A i \in 1 .. n - m : u + i - 1 = m + i
        /\ u \in Int /\ n \in Int
    OBVIOUS
  <2> HIDE DEF u
  <2>2. /\ SubSeq(f, u, n) = [i \in 1 .. n - u + 1 |-> f[u + i - 1]]
        /\ Len(SubSeq(f, u, n)) = n - u + 1
    BY <2>1, PartFacts, SMTT(60)
  <2>3. SubSeq(f, u, n) \in Seq(S)
    <3>1. \A i \in u .. n : f[i] \in S
      BY <1>2, <2>1
    <3> QED
      BY <2>1, <3>1, SubSeqProperties
  <2> QED
    BY <2>1, <2>2, <2>3 DEF u
<1> HIDE DEF t
<1>4. g \o t \in Seq(S) /\ Len(g \o t) = n
  BY <1>2, <1>3
<1>5. ASSUME NEW i \in 1 .. n PROVE (g \o t)[i] = IF i <= m THEN g[i] ELSE f[i]
  <2>1. CASE i <= m
    BY <1>2, <1>3, <2>1
  <2>2. CASE ~ (i <= m)
    <3> DEFINE k == i - m
    <3>1. k \in 1 .. Len(t) /\ m + k = i
      BY <1>3, <2>2
    <3> HIDE DEF k
    <3>2. (g \o t)[m + k] = t[k]
      BY <1>2, <1>3, <3>1, Data!ConcatAt
    <3> QED
      BY <1>3, <2>2, <3>1, <3>2
  <2> QED
    BY <2>1, <2>2
<1>6. g \o t = [i \in 1 .. n |-> (g \o t)[i]]
  BY <1>4, SMTT(60)
<1> QED
  BY <1>5, <1>6 DEF t

-----------------------------------------------------------------------------
(* What the modes give.                                                    *)

(* Block k of a string, counted from 0.                                    *)
BlockIn(d, k) == [j \in 1 .. BlockLen |-> d[(k * BlockLen) + j]]

(* The chain of ciphertext blocks, from the initial vector on.             *)
ChainStep(d, k, g) == IF k = 0 THEN Iv ELSE Enc(Add(BlockOfData(d, k), g[k - 1]))
ChainRun(d, n, g)  == g = [k \in 0 .. n |-> ChainStep(d, k, g)]
Chain(d) == CHOOSE g : g = [k \in 0 .. (Len(d) \div BlockLen) |->
                               IF k = 0 THEN Iv ELSE Enc(Add(BlockOfData(d, k), g[k - 1]))]

(* There is a chain of every length.                                       *)
LEMMA ChainRuns ==
    ASSUME NEW d
    PROVE  \A n \in Nat : \E g : ChainRun(d, n, g)
<1> DEFINE S == {n \in Nat : \E g : ChainRun(d, n, g)}
<1>1. 0 \in S
  <2> DEFINE f == [k \in 0 .. 0 |-> Iv]
  <2>1. \A k \in 0 .. 0 : k = 0
    OBVIOUS
  <2>2. f = [k \in 0 .. 0 |-> ChainStep(d, k, f)]
    BY <2>1 DEF ChainStep
  <2> QED
    BY <2>2 DEF ChainRun
<1>2. ASSUME NEW n \in Nat, n \in S PROVE n + 1 \in S
  <2>1. PICK f : ChainRun(d, n, f)
    BY <1>2
  <2> DEFINE g == [k \in 0 .. n + 1 |-> IF k <= n THEN f[k] ELSE ChainStep(d, n + 1, f)]
  <2>2. \A k \in 0 .. n : f[k] = ChainStep(d, k, f)
    BY <2>1 DEF ChainRun
  <2>3. ASSUME NEW k \in 0 .. n + 1 PROVE g[k] = ChainStep(d, k, g)
    <3>1. CASE k = 0
      <4>1. g[k] = f[k] /\ k \in 0 .. n
        BY <3>1
      <4> QED
        BY <2>2, <3>1, <4>1 DEF ChainStep
    <3>2. CASE k \in 1 .. n
      <4>1. g[k] = f[k] /\ g[k - 1] = f[k - 1] /\ k # 0 /\ k \in 0 .. n
        BY <3>2
      <4> HIDE DEF g
      <4> QED
        BY <2>2, <4>1 DEF ChainStep
    <3>3. CASE k = n + 1
      <4>1. g[k] = ChainStep(d, k, f) /\ g[k - 1] = f[k - 1] /\ k # 0
        BY <3>3
      <4> HIDE DEF g
      <4> QED
        BY <4>1 DEF ChainStep
    <3> QED
      BY <3>1, <3>2, <3>3
  <2>4. g = [k \in 0 .. n + 1 |-> g[k]]
    OBVIOUS
  <2> HIDE DEF g
  <2>5. ChainRun(d, n + 1, g)
    BY <2>3, <2>4 DEF ChainRun
  <2> QED
    BY <2>5
<1> HIDE DEF S
<1>3. \A n \in Nat : n \in S
  BY <1>1, <1>2, Data!SetInduction
<1> QED
  BY <1>3 DEF S

(* Each block of the chain is the encryption of a block added to the one   *)
(* before.                                                                 *)
LEMMA ChainFacts ==
    ASSUME NEW d, NEW n \in Nat, n = Len(d) \div BlockLen
    PROVE  /\ Chain(d)[0] = Iv
           /\ \A k \in 1 .. n : Chain(d)[k] = Enc(Add(BlockOfData(d, k), Chain(d)[k - 1]))
<1>1. ChainRun(d, n, Chain(d))
  BY ChainRuns, SMTT(60) DEF ChainRun, ChainStep, Chain
<1> DEFINE g == Chain(d)
<1>2. \A k \in 0 .. n : g[k] = ChainStep(d, k, g)
  <2> HIDE DEF g
  <2>1. ChainRun(d, n, g)
    BY <1>1 DEF g
  <2> QED
    BY <2>1 DEF ChainRun
<1> HIDE DEF g
<1>3. g[0] = Iv
  BY <1>2 DEF ChainStep
<1>4. \A k \in 1 .. n : g[k] = Enc(Add(BlockOfData(d, k), g[k - 1]))
  BY <1>2 DEF ChainStep
<1> QED
  BY <1>3, <1>4 DEF g

(* The byte of a mode at i, from the block i lies in and its place there.  *)
ModeByte(op, d, k, j, i) ==
    CASE op = "ctr"         -> SymDiff(d[i], Keystream(i))
      [] op = "cbc_encrypt" -> Chain(d)[k][j]
      [] op = "cbc_decrypt" -> Add(Dec(BlockOfData(d, k)),
                                   IF k = 1 THEN Iv ELSE BlockOfData(d, k - 1))[j]

(* ModeOf by these.                                                        *)
LEMMA ModeIs ==
    ASSUME NEW op, NEW d
    PROVE  ModeOf(op, d) = [i \in DOMAIN d |->
               ModeByte(op, d, ((i - 1) \div BlockLen) + 1, ((i - 1) % BlockLen) + 1, i)]
BY DEF ModeOf, ModeByte, Chain

(* Place j of block k is byte k * BlockLen + j.                            *)
LEMMA PlaceFacts ==
    ASSUME NEW k \in Nat, NEW j \in 1 .. BlockLen
    PROVE  /\ ((k * BlockLen + j - 1) \div BlockLen) + 1 = k + 1
           /\ ((k * BlockLen + j - 1) % BlockLen) + 1 = j
           /\ k * BlockLen + j \in Nat /\ k * BlockLen \in Nat
<1> DEFINE B == BlockLen
           r == j - 1
           q == k * B
<1>1. B \in Nat \ {0} /\ r \in Nat /\ r < B /\ q \in Nat /\ r + 1 = j
  BY ModesAssumption
<1>2. q + j - 1 = q + r /\ q + j \in Nat
  BY <1>1
<1> HIDE DEF B, r
<1>3. (q + r) \div B = k /\ (q + r) % B = r
  BY <1>1, Data!DivMod
<1> HIDE DEF q
<1> QED
  BY <1>1, <1>2, <1>3 DEF q, B

(* A block of a table is a part of it.                                     *)
LEMMA BlockIs ==
    ASSUME NEW n \in Nat, NEW d, d = [i \in 1 .. n |-> d[i]],
           NEW k \in Nat, (k * BlockLen) + BlockLen <= n
    PROVE  BlockOfData(d, k + 1) = BlockIn(d, k)
<1> DEFINE B == BlockLen
           q == k * B
           u == q + 1
           v == q + B
<1>1. B \in Nat \ {0} /\ q \in Nat /\ ((k + 1) - 1) * B = q /\ (k + 1) * B = v
  BY ModesAssumption
<1>2. B \in Nat \ {0} /\ q \in Nat /\ v <= n /\ n \in Nat
  BY <1>1
<1> HIDE DEF q, B
<1>3. /\ u \in 1 .. n + 1 /\ v \in u - 1 .. n /\ v - u + 1 = B
      /\ \A j \in 1 .. B : u + j - 1 = q + j
  BY ONLY <1>2
<1>4. BlockOfData(d, k + 1) = SubSeq(d, u, v)
  BY <1>1 DEF BlockOfData, B
<1> HIDE DEF u, v
<1>5. SubSeq(d, u, v) = [j \in 1 .. v - u + 1 |-> d[u + j - 1]]
  BY ONLY n \in Nat, d = [i \in 1 .. n |-> d[i]], <1>3, PartFacts, SMTT(60)
<1> QED
  BY <1>3, <1>4, <1>5 DEF BlockIn, q, B

(* CTR.                                                                    *)
LEMMA CtrByte ==
    ASSUME NEW d, NEW i \in DOMAIN d
    PROVE  ModeOf("ctr", d)[i] = SymDiff(d[i], Keystream(i))
BY ModeIs DEF ModeByte

(* CBC encryption: a block is added to the ciphertext before it, which the *)
(* mode has given already, and encrypted.                                  *)
LEMMA EncryptBlock ==
    ASSUME NEW n \in Nat, NEW d, d = [i \in 1 .. n |-> d[i]], n % BlockLen = 0,
           NEW k \in Nat, (k * BlockLen) + BlockLen <= n, NEW x,
           x = IF k = 0 THEN Iv ELSE BlockIn(ModeOf("cbc_encrypt", d), k - 1)
    PROVE  BlockIn(ModeOf("cbc_encrypt", d), k) = Enc(Add(BlockIn(d, k), x))
<1> DEFINE B == BlockLen
           q == n \div B
           C == Chain(d)
           M == ModeOf("cbc_encrypt", d)
<1>1. B \in Nat \ {0}
  BY ModesAssumption
<1>2. q \in Nat /\ n = q * B
  <2> HIDE DEF B
  <2>1. q \in Nat /\ n % B \in Nat /\ n = q * B + (n % B) /\ q * B \in Nat
    BY <1>1, Data!DivModSplit
  <2> QED
    BY <2>1 DEF B
<1>3. Len(d) = n /\ DOMAIN d = 1 .. n
  <2>1. 1 \in 1 .. n + 1 /\ n \in 1 - 1 .. n
    OBVIOUS
  <2> QED
    BY <2>1, PartFacts
<1>4. k + 1 \in 1 .. q /\ (k # 0 => k \in 1 .. q)
  <2>1. (k + 1) * B <= q * B
    BY <1>1, <1>2
  <2> HIDE DEF q, B
  <2>2. k + 1 \in Nat
    OBVIOUS
  <2>3. k + 1 <= q
    BY ONLY <1>1, <1>2, <2>1, <2>2, Data!MultOrder
  <2> QED
    BY <1>2, <2>3
<1>5. /\ C[0] = Iv
      /\ \A m \in 1 .. q : C[m] = Enc(Add(BlockOfData(d, m), C[m - 1]))
  BY <1>2, <1>3, ChainFacts
<1> HIDE DEF C, M
<1>6. ASSUME NEW m \in Nat, m + 1 \in 1 .. q
      PROVE  BlockIn(M, m) = C[m + 1]
  <2>1. ASSUME NEW j \in 1 .. B PROVE M[(m * B) + j] = C[m + 1][j]
    <3> DEFINE i == (m * B) + j
    <3>1. /\ ((i - 1) \div B) + 1 = m + 1 /\ ((i - 1) % B) + 1 = j
      BY PlaceFacts, SMTT(60)
    <3>2. i \in 1 .. n
      <4> DEFINE mB == m * B
                 qB == q * B
      <4>1. mB + B <= qB /\ mB \in Nat /\ qB \in Nat
        <5> DEFINE m1 == m + 1
        <5>1. m1 \in Nat /\ m1 <= q
          BY <1>6
        <5>3. mB + B = m1 * B
          BY <1>1
        <5> HIDE DEF m1, mB, B, q
        <5>2. m1 * B <= q * B
          BY ONLY <1>1, <1>2, <5>1, Data!MultOrder
        <5> QED
          BY <1>1, <1>2, <5>1, <5>2, <5>3 DEF mB
      <4>2. n = qB /\ i = mB + j
        BY <1>2
      <4> HIDE DEF mB, qB, i, B
      <4> QED
        BY <1>1, <4>1, <4>2
    <3> HIDE DEF i, B
    <3>3. M[i] = ModeByte("cbc_encrypt", d, ((i - 1) \div B) + 1, ((i - 1) % B) + 1, i)
      BY <1>3, <3>2, ModeIs DEF M, B
    <3>4. M[i] = ModeByte("cbc_encrypt", d, m + 1, j, i)
      BY <3>1, <3>3
    <3> QED
      BY <3>4 DEF ModeByte, i, C
  <2>2. BlockIn(M, m) = [j \in 1 .. B |-> C[m + 1][j]]
    BY <2>1 DEF BlockIn
  <2>3. C[m + 1] = Enc(Add(BlockOfData(d, m + 1), C[m + 1 - 1]))
    <3> DEFINE p == m + 1
    <3>1. p \in 1 .. q
      BY <1>6
    <3> HIDE DEF p, q
    <3> QED
      BY <1>5, <3>1 DEF p
  <2>4. C[m + 1] = [j \in 1 .. B |-> C[m + 1][j]]
    BY <2>3 DEF Enc
  <2> QED
    BY <2>2, <2>4
<1>7. x = C[k]
  <2>1. CASE k = 0
    BY <1>5, <2>1
  <2>2. CASE k # 0
    <3>1. k - 1 \in Nat /\ k - 1 + 1 = k /\ k - 1 + 1 \in 1 .. q
      BY <1>4, <2>2
    <3>2. BlockIn(M, k - 1) = C[k]
      BY <1>6, <3>1
    <3> QED
      BY <2>2, <3>2 DEF M
  <2> QED
    BY <2>1, <2>2
<1>8. BlockIn(M, k) = C[k + 1]
  BY <1>4, <1>6
<1>9. C[k + 1] = Enc(Add(BlockOfData(d, k + 1), C[k]))
  <2>1. k + 1 - 1 = k
    OBVIOUS
  <2> QED
    BY <1>4, <1>5, <2>1
<1>10. BlockOfData(d, k + 1) = BlockIn(d, k)
  BY BlockIs
<1> QED
  BY <1>7, <1>8, <1>9, <1>10 DEF M

(* CBC decryption: a block is decrypted and the ciphertext before it added. *)
LEMMA DecryptBlock ==
    ASSUME NEW n \in Nat, NEW d, d = [i \in 1 .. n |-> d[i]],
           NEW k \in Nat, (k * BlockLen) + BlockLen <= n, NEW j \in 1 .. BlockLen, NEW x,
           x = IF k = 0 THEN Iv ELSE BlockIn(d, k - 1)
    PROVE  ModeOf("cbc_decrypt", d)[(k * BlockLen) + j] = Add(Dec(BlockIn(d, k)), x)[j]
<1> DEFINE B == BlockLen
           i == (k * B) + j
           M == ModeOf("cbc_decrypt", d)
<1>1. ((i - 1) \div B) + 1 = k + 1 /\ ((i - 1) % B) + 1 = j /\ k * B \in Nat /\ B \in Nat
  <2>1. k \in Nat /\ j \in 1 .. BlockLen
    OBVIOUS
  <2>2. /\ (((k * BlockLen) + j - 1) \div BlockLen) + 1 = k + 1
        /\ (((k * BlockLen) + j - 1) % BlockLen) + 1 = j
        /\ k * BlockLen \in Nat
    BY ONLY <2>1, PlaceFacts
  <2>3. B \in Nat
    BY ModesAssumption
  <2> QED
    BY ONLY <2>2, <2>3
<1>2. DOMAIN d = 1 .. n
  OBVIOUS
<1>3. i \in 1 .. n
  <2> DEFINE kB == k * B
  <2>1. kB \in Nat /\ kB + B <= n /\ B \in Nat /\ j \in 1 .. B
    BY <1>1
  <2> HIDE DEF kB, B
  <2>2. kB + j \in 1 .. n
    BY <2>1
  <2> QED
    BY <2>2 DEF kB
<1> HIDE DEF i, B
<1>4. M[i] = ModeByte("cbc_decrypt", d, ((i - 1) \div B) + 1, ((i - 1) % B) + 1, i)
  BY <1>2, <1>3, ModeIs DEF B
<1> HIDE DEF M
<1>5. M[i] = Add(Dec(BlockOfData(d, k + 1)),
                 IF k + 1 = 1 THEN Iv ELSE BlockOfData(d, k + 1 - 1))[j]
  BY <1>1, <1>4, SMTT(60) DEF ModeByte
<1>6. BlockOfData(d, k + 1) = BlockIn(d, k)
  BY BlockIs
<1>7. x = IF k + 1 = 1 THEN Iv ELSE BlockOfData(d, k + 1 - 1)
  <2>1. CASE k = 0
    BY <2>1
  <2>2. CASE k # 0
    <3> DEFINE m == k - 1
               mB == m * B
    <3>1. m \in Nat /\ m + 1 = k /\ k + 1 - 1 = k /\ ~ (k + 1 = 1)
      BY <2>2
    <3>2. mB + B <= n
      <4>1. mB + B = k * B
        BY <1>1
      <4>2. k * B \in Nat /\ (k * B) + B <= n /\ B \in Nat
        BY <1>1 DEF B
      <4> DEFINE kB == k * B
      <4> HIDE DEF kB, mB
      <4> QED
        BY <4>1, <4>2
    <3> HIDE DEF m
    <3>3. BlockOfData(d, m + 1) = BlockIn(d, m)
      <4>1. (m * BlockLen) + BlockLen <= n
        BY <3>2 DEF B
      <4> QED
        BY ONLY n \in Nat, d = [y \in 1 .. n |-> d[y]], <3>1, <4>1, BlockIs
    <3> QED
      BY <2>2, <3>1, <3>3 DEF m
  <2> QED
    BY <2>1, <2>2
<1> QED
  BY <1>5, <1>6, <1>7 DEF i, B, M

-----------------------------------------------------------------------------
(* A call on its way.                                                      *)

Ops == {"ctr", "cbc_encrypt", "cbc_decrypt"}

(* A call's locals.                                                        *)
Locals(c) == c = [op |-> c.op, in |-> c.in, out |-> c.out, len |-> c.len,
                  off |-> c.off, ctr |-> c.ctr, prev |-> c.prev]

(* What the input held when the call was made.                             *)
InputOf(b4, c) == SubSeq(b4[c.in], 1, c.len)

(* The mode's result is in the output up to off, and all else is as it was. *)
MadeUpTo(m, b4, c, off) ==
    \A b \in Buffers : \A i \in 1 .. BufLen :
        m[b][i] = IF b = c.out /\ i <= off THEN ModeOf(c.op, InputOf(b4, c))[i] ELSE b4[b][i]

(* What block k is added to: the ciphertext block before it.               *)
Chained(b4, c, k) ==
    IF k = 0 THEN Iv
    ELSE IF c.op = "cbc_encrypt" THEN BlockIn(ModeOf("cbc_encrypt", InputOf(b4, c)), k - 1)
    ELSE BlockIn(InputOf(b4, c), k - 1)

SupportedCall(c) == c.op = "cbc_decrypt" => c.in # c.out \/ c.len <= BlockLen

(* A call stands at a block's start while there is more to do, with the    *)
(* counter or the block before it at hand.                                 *)
Standing(b4, c) ==
    /\ c.op = "ctr" => c.ctr \in Nat /\ (c.off < c.len => c.off = c.ctr * BlockLen)
    /\ c.op # "ctr" =>
        /\ c.len % BlockLen = 0
        /\ \E k \in Nat : /\ c.off = k * BlockLen
                          /\ SupportedCall(c) /\ c.off < c.len => c.prev = Chained(b4, c, k)

Under(m, b4, c) ==
    /\ c.in \in Buffers /\ c.out \in Buffers /\ c.len \in 0 .. BufLen /\ c.off \in 0 .. c.len
    /\ Standing(b4, c)
    /\ SupportedCall(c) => MadeUpTo(m, b4, c, c.off)

(* The inductive invariant of the modes.                                   *)
ModesInv ==
    /\ Tables(mem) /\ Tables(before) /\ Locals(call)
    /\ call.op \in Ops \cup {"idle"}
    /\ call.op \in Ops => Under(mem, before, call)

(* What a store does to memory.                                            *)
LEMMA StoredFacts ==
    ASSUME Tables(mem), NEW buf \in Buffers, NEW off \in Nat, NEW m \in Nat,
           NEW g, g = [i \in 1 .. m |-> g[i]], off + m <= BufLen
    PROVE  /\ Tables(Stored(buf, off, g))
           /\ \A b \in Buffers : \A i \in 1 .. BufLen :
                Stored(buf, off, g)[b][i]
                    = IF b = buf /\ i > off /\ i <= off + m THEN g[i - off] ELSE mem[b][i]
<1> DEFINE t == Stored(buf, off, g)
<1>1. Len(g) = m
  <2>1. 1 \in 1 .. m + 1 /\ m \in 1 - 1 .. m
    OBVIOUS
  <2> QED
    BY <2>1, PartFacts
<1>2. mem = [b \in Buffers |-> [i \in 1 .. BufLen |-> mem[b][i]]]
  BY DEF Tables
<1>3. DOMAIN mem = Buffers /\ \A b \in Buffers : DOMAIN mem[b] = 1 .. BufLen
  BY <1>2
<1>4. t = [b \in Buffers |->
             IF b = buf THEN [i \in 1 .. BufLen |->
                                IF i > off /\ i <= off + m THEN g[i - off] ELSE mem[buf][i]]
             ELSE mem[b]]
  <2>1. t = [mem EXCEPT ![buf] = [i \in DOMAIN mem[buf] |->
                IF i > off /\ i <= off + Len(g) THEN g[i - off] ELSE mem[buf][i]]]
    BY DEF Stored
  <2> HIDE DEF t
  <2> QED
    BY <1>1, <1>3, <2>1
<1> HIDE DEF t
<1>5. \A b \in Buffers : \A i \in 1 .. BufLen :
        t[b][i] = IF b = buf /\ i > off /\ i <= off + m THEN g[i - off] ELSE mem[b][i]
  BY <1>4
<1>6. ASSUME NEW b \in Buffers PROVE t[b] = [i \in 1 .. BufLen |-> t[b][i]]
  <2>1. CASE b = buf
    BY <1>4, <2>1
  <2>2. CASE b # buf
    BY <1>2, <1>4, <2>2
  <2> QED
    BY <2>1, <2>2
<1>7. t = [b \in Buffers |-> t[b]]
  BY <1>4
<1>8. Tables(t)
  BY <1>6, <1>7 DEF Tables
<1> QED
  BY <1>5, <1>8 DEF t

(* The input's table, and what the call still finds in it.                 *)
LEMMA InputFacts ==
    ASSUME NEW c, NEW b4, Tables(b4), c.in \in Buffers, c.len \in 0 .. BufLen, NEW d,
           d = InputOf(b4, c)
    PROVE  /\ d = [i \in 1 .. c.len |-> d[i]] /\ DOMAIN d = 1 .. c.len /\ Len(d) = c.len
           /\ \A i \in 1 .. c.len : d[i] = b4[c.in][i]
<1> DEFINE f == b4[c.in]
           n == c.len
           N == BufLen
<1>1. f = [i \in 1 .. N |-> f[i]]
  BY DEF Tables
<1>2. N \in Nat /\ n \in 0 .. N
  BY ModesAssumption
<1> HIDE DEF f, n, N
<1>3. 1 \in 1 .. N + 1 /\ n \in 1 - 1 .. N /\ n - 1 + 1 = n /\ \A i \in 1 .. n : 1 + i - 1 = i
  BY <1>2
<1>4. /\ SubSeq(f, 1, n) = [i \in 1 .. n - 1 + 1 |-> f[1 + i - 1]]
      /\ Len(SubSeq(f, 1, n)) = n - 1 + 1
  BY ONLY <1>1, <1>2, <1>3, PartFacts
<1>5. d = [i \in 1 .. n |-> f[i]] /\ Len(d) = n
  BY <1>3, <1>4 DEF InputOf, f, n
<1> QED
  BY <1>5 DEF f, n

(* Beyond what is made, the input is as it was.                            *)
LEMMA Unread ==
    ASSUME NEW m, NEW b4, NEW c, MadeUpTo(m, b4, c, c.off), c.in \in Buffers,
           c.off \in Nat, NEW i \in 1 .. BufLen, i > c.off
    PROVE  m[c.in][i] = b4[c.in][i]
BY DEF MadeUpTo

(* A store of the next bytes of the result makes more of it.               *)
LEMMA MoreMade ==
    ASSUME Tables(mem), NEW c, NEW b4, c.out \in Buffers, c.off \in Nat,
           NEW m \in Nat, c.off + m <= BufLen,
           NEW g, g = [i \in 1 .. m |-> g[i]], MadeUpTo(mem, b4, c, c.off),
           \A i \in 1 .. m : g[i] = ModeOf(c.op, InputOf(b4, c))[c.off + i]
    PROVE  MadeUpTo(Stored(c.out, c.off, g), b4, c, c.off + m)
<1> DEFINE o == c.out
           off == c.off
           t == Stored(o, off, g)
           M == ModeOf(c.op, InputOf(b4, c))
<1>1. \A b \in Buffers : \A i \in 1 .. BufLen :
        t[b][i] = IF b = o /\ i > off /\ i <= off + m THEN g[i - off] ELSE mem[b][i]
  <2>1. /\ Tables(mem) /\ o \in Buffers /\ off \in Nat /\ m \in Nat
        /\ g = [i \in 1 .. m |-> g[i]] /\ off + m <= BufLen
    OBVIOUS
  <2> HIDE DEF o, off
  <2> QED
    BY ONLY <2>1, StoredFacts DEF t
<1>2. \A b \in Buffers : \A i \in 1 .. BufLen :
        mem[b][i] = IF b = o /\ i <= off THEN M[i] ELSE b4[b][i]
  BY DEF MadeUpTo
<1>3. off \in Nat /\ \A i \in 1 .. m : g[i] = M[off + i]
  OBVIOUS
<1> HIDE DEF t, o, off, M
<1>4. ASSUME NEW b \in Buffers, NEW i \in 1 .. BufLen
      PROVE  t[b][i] = IF b = o /\ i <= off + m THEN M[i] ELSE b4[b][i]
  <2>1. CASE b = o /\ i > off /\ i <= off + m
    <3> DEFINE k == i - off
    <3>1. k \in 1 .. m /\ off + k = i
      BY <1>3, <2>1
    <3> HIDE DEF k
    <3>2. g[k] = M[i]
      BY <1>3, <3>1
    <3> QED
      BY <1>1, <2>1, <3>2 DEF k
  <2>2. CASE ~ (b = o /\ i > off /\ i <= off + m)
    <3>1. t[b][i] = mem[b][i]
      BY <1>1, <2>2
    <3>2. i <= off => i <= off + m
      BY <1>3
    <3> QED
      BY <1>2, <1>3, <2>2, <3>1, <3>2
  <2> QED
    BY <2>1, <2>2
<1> QED
  BY <1>4 DEF MadeUpTo, t, o, off, M

-----------------------------------------------------------------------------
(* The assignments to two of a call's locals.                              *)
Counted(c, x, y) == [c EXCEPT !.ctr = x, !.off = y]
Linked(c, x, y)  == [c EXCEPT !.prev = x, !.off = y]

SameCall(e, c) == e.op = c.op /\ e.in = c.in /\ e.out = c.out /\ e.len = c.len

(* They leave the rest of the call's locals alone.                         *)
LEMMA LocalsFacts ==
    ASSUME NEW c, Locals(c), NEW x, NEW y
    PROVE  /\ LET e == Counted(c, x, y) IN
              Locals(e) /\ SameCall(e, c) /\ e.ctr = x /\ e.off = y /\ e.prev = c.prev
           /\ LET e == Linked(c, x, y) IN
              Locals(e) /\ SameCall(e, c) /\ e.prev = x /\ e.off = y /\ e.ctr = c.ctr
<1>1. DOMAIN c = {"op", "in", "out", "len", "off", "ctr", "prev"}
  BY DEF Locals
<1>2. ASSUME NEW e, DOMAIN e = {"op", "in", "out", "len", "off", "ctr", "prev"},
             e = [k \in DOMAIN e |-> e[k]]
      PROVE  Locals(e)
  BY <1>2 DEF Locals
<1> DEFINE e == [c EXCEPT !.ctr = x, !.off = y]
           f == [c EXCEPT !.prev = x, !.off = y]
<1>3. /\ DOMAIN e = {"op", "in", "out", "len", "off", "ctr", "prev"}
      /\ e = [k \in DOMAIN e |-> e[k]]
      /\ e.ctr = x /\ e.off = y /\ e.prev = c.prev
      /\ e.op = c.op /\ e.in = c.in /\ e.out = c.out /\ e.len = c.len
  BY <1>1
<1>4. /\ DOMAIN f = {"op", "in", "out", "len", "off", "ctr", "prev"}
      /\ f = [k \in DOMAIN f |-> f[k]]
      /\ f.prev = x /\ f.off = y /\ f.ctr = c.ctr
      /\ f.op = c.op /\ f.in = c.in /\ f.out = c.out /\ f.len = c.len
  BY <1>1
<1> HIDE DEF e, f
<1>5. Locals(e) /\ Locals(f)
  BY <1>2, <1>3, <1>4
<1> QED
  BY <1>3, <1>4, <1>5 DEF e, f, Counted, Linked, SameCall

(* The state before any call.                                              *)
LEMMA ModesInvInit == ModesInit => ModesInv
<1> SUFFICES ASSUME ModesInit PROVE ModesInv
  OBVIOUS
<1>1. /\ mem = [b \in Buffers |-> [i \in 1 .. BufLen |-> {[of |-> b, at |-> i]}]]
      /\ before = mem /\ call = Idle
  BY DEF ModesInit
<1>2. Tables(mem)
  BY <1>1 DEF Tables
<1>3. Locals(call) /\ call.op = "idle"
  BY <1>1 DEF Locals, Idle
<1> QED
  BY <1>1, <1>2, <1>3 DEF ModesInv, Ops

(* Nothing is made at the start of a call.                                 *)
LEMMA ModesInvCall ==
    ASSUME ModesInv, NEW op \in Ops, NEW in \in Buffers, NEW out \in Buffers,
           NEW len \in 0 .. BufLen, CallModes(op, in, out, len)
    PROVE  ModesInv'
<1> DEFINE c == call'
<1>1. /\ c = [Idle EXCEPT !.op = op, !.in = in, !.out = out, !.len = len]
      /\ mem' = mem /\ before' = mem /\ (op # "ctr" => len % BlockLen = 0)
  BY DEF CallModes
<1>2. c = [op |-> op, in |-> in, out |-> out, len |-> len, off |-> 0, ctr |-> 0, prev |-> Iv]
  <2> DEFINE v == Iv
  <2>1. Idle = [op |-> "idle", in |-> "", out |-> "", len |-> 0, off |-> 0, ctr |-> 0, prev |-> v]
    BY DEF Idle
  <2> HIDE DEF v, c
  <2>2. c = [op |-> op, in |-> in, out |-> out, len |-> len, off |-> 0, ctr |-> 0, prev |-> v]
    BY <1>1, <2>1
  <2> QED
    BY <2>2 DEF v
<1> HIDE DEF c
<1>3. /\ c.op = op /\ c.in = in /\ c.out = out /\ c.len = len
      /\ c.off = 0 /\ c.ctr = 0 /\ c.prev = Iv /\ Locals(c)
  BY <1>2 DEF Locals
<1>4. Standing(mem, c)
  <2>1. BlockLen \in Nat \ {0} /\ 0 = 0 * BlockLen /\ 0 \in Nat
    BY ModesAssumption
  <2>2. Chained(mem, c, 0) = Iv
    BY DEF Chained
  <2> QED
    BY <1>1, <1>3, <2>1, <2>2 DEF Standing
<1>5. MadeUpTo(mem, mem, c, 0)
  BY DEF MadeUpTo
<1>6. Under(mem, mem, c)
  <2>1. 0 \in 0 .. len
    BY ModesAssumption
  <2> QED
    BY <1>3, <1>4, <1>5, <2>1 DEF Under
<1>7. Tables(mem)
  BY DEF ModesInv
<1> QED
  BY <1>1, <1>3, <1>6, <1>7 DEF ModesInv, c

(* From a block's start, whole blocks are left or none.                    *)
LEMMA BlockFits ==
    ASSUME NEW k \in Nat, NEW n \in Nat, n % BlockLen = 0, k * BlockLen < n
    PROVE  (k * BlockLen) + BlockLen <= n /\ (k + 1) * BlockLen = (k * BlockLen) + BlockLen
<1> DEFINE B == BlockLen
           q == n \div B
           k1 == k + 1
           kB == k * B
<1>1. B \in Nat \ {0}
  BY ModesAssumption
<1>2. k1 * B = kB + B /\ k1 \in Nat
  BY <1>1
<1>3. q \in Nat /\ n = q * B
  <2> HIDE DEF B
  <2>1. q \in Nat /\ n % B \in Nat /\ n = q * B + (n % B) /\ q * B \in Nat
    BY <1>1, Data!DivModSplit
  <2> QED
    BY <2>1 DEF B
<1> HIDE DEF q
<1>4. k < q
  <2>1. k * B < q * B
    BY <1>3
  <2> HIDE DEF B
  <2> QED
    BY ONLY <1>1, <1>3, <2>1, k \in Nat, Data!MultOrder
<1>5. k1 <= q
  BY <1>3, <1>4
<1>6. k1 * B <= q * B
  <2> HIDE DEF B, k1
  <2> QED
    BY ONLY <1>1, <1>2, <1>3, <1>5, Data!MultOrder
<1> QED
  BY <1>2, <1>3, <1>6

(* The keystream of a batch continues the keystream of the message.        *)
LEMMA BatchKey ==
    ASSUME NEW c \in Nat, NEW i \in Nat \ {0}
    PROVE  /\ (((c * BlockLen) + i - 1) \div BlockLen) = c + ((i - 1) \div BlockLen)
           /\ (((c * BlockLen) + i - 1) % BlockLen) = (i - 1) % BlockLen
<1> DEFINE B == BlockLen
           m == i - 1
           q == m \div B
           r == m % B
<1>1. B \in Nat \ {0} /\ m \in Nat
  BY ModesAssumption
<1> HIDE DEF B, m
<1>2. q \in Nat /\ r \in Nat /\ r < B /\ m = (q * B) + r
  BY <1>1, Data!DivModSplit
<1> HIDE DEF q, r
<1>3. (c * B) + m = ((c + q) * B) + r
  BY <1>1, <1>2
<1>4. (((c + q) * B) + r) \div B = c + q /\ (((c + q) * B) + r) % B = r
  <2> DEFINE s == c + q
  <2>1. s \in Nat
    BY <1>2
  <2> HIDE DEF s
  <2>2. ((s * B) + r) \div B = s /\ ((s * B) + r) % B = r
    BY <1>1, <1>2, <2>1, Data!DivMod
  <2> QED
    BY <2>2 DEF s
<1>5. (c * B) + i - 1 = (c * B) + m
  BY <1>1 DEF m
<1> QED
  BY <1>3, <1>4, <1>5 DEF q, r, m, B

(* A trip round the loop of CTR.                                           *)
LEMMA ModesInvCtr ==
    ASSUME ModesInv, CtrBatch
    PROVE  ModesInv'
<1> DEFINE B      == BlockLen
           off    == call.off
           len    == call.len
           in     == call.in
           out    == call.out
           ctr    == call.ctr
           remain == len - off
           nb     == NextBlocks(remain)
           bytes  == IF remain < nb * B THEN remain ELSE nb * B
           ks(i)  == Enc(CounterBlock(ctr + ((i - 1) \div B)))[((i - 1) % B) + 1]
           g      == [i \in 1 .. bytes |-> SymDiff(mem[in][off + i], ks(i))]
           d      == InputOf(before, call)
           e      == [call EXCEPT !.ctr = ctr + nb, !.off = off + bytes]
<1>1. /\ call.op = "ctr" /\ off < len
      /\ mem' = Stored(out, off, g) /\ call' = e /\ before' = before
  <2>1. call.op = "ctr" /\ ~ Returned /\ before' = before
        /\ mem' = Stored(out, off, g)
        /\ call' = [call EXCEPT !.ctr = @ + nb, !.off = @ + bytes]
    BY DEF CtrBatch
  <2>2. off \in Nat /\ len \in Nat
    BY <2>1, ModesAssumption DEF ModesInv, Ops, Under
  <2> QED
    BY <2>1, <2>2 DEF Returned
<1>2. /\ Tables(mem) /\ Tables(before) /\ Locals(call)
      /\ in \in Buffers /\ out \in Buffers /\ len \in 0 .. BufLen /\ off \in Nat
      /\ ctr \in Nat /\ off = ctr * B /\ MadeUpTo(mem, before, call, off)
      /\ BufLen \in Nat /\ B \in Nat \ {0}
  BY <1>1, ModesAssumption DEF ModesInv, Ops, Under, Standing, SupportedCall
<1>3. remain \in Nat /\ nb \in Nat /\ bytes \in 0 .. remain /\ nb * B \in Nat
  <2>1. remain \in Nat
    BY <1>1, <1>2
  <2>2. nb \in Nat
    <3> DEFINE z == remain + B - 1
    <3>1. z \in Nat
      BY <1>2, <2>1
    <3> HIDE DEF z
    <3>2. z \div B \in Nat
      BY <1>2, <3>1, Data!DivModSplit
    <3>3. nb = IF z \div B > Batch THEN Batch ELSE z \div B
      BY DEF NextBlocks, z
    <3> QED
      BY <3>2, <3>3, ModesAssumption
  <2> HIDE DEF remain, nb
  <2>3. nb * B \in Nat
    BY <1>2, <2>2
  <2> QED
    BY <2>1, <2>2, <2>3
<1>4. off + bytes \in 0 .. len /\ off + bytes <= BufLen /\ bytes \in Nat
  <2> HIDE DEF bytes
  <2> QED
    BY <1>1, <1>2, <1>3, SMTT(150)
<1>5. ASSUME NEW i \in 1 .. bytes PROVE g[i] = ModeOf("ctr", d)[off + i]
  <2> HIDE DEF bytes
  <2>1. off + i \in 1 .. len /\ off + i \in 1 .. BufLen /\ off + i > off /\ i \in Nat \ {0}
    BY <1>2, <1>3, <1>4
  <2>2. DOMAIN d = 1 .. len /\ d[off + i] = before[in][off + i]
    BY <1>2, <2>1, InputFacts, SMTT(60)
  <2>3. mem[in][off + i] = before[in][off + i]
    <3> DEFINE p == off + i
    <3>1. MadeUpTo(mem, before, call, off) /\ in \in Buffers /\ off \in Nat
      BY <1>2
    <3>2. p \in 1 .. BufLen /\ p > off
      BY <2>1
    <3> HIDE DEF p
    <3>3. mem[in][p] = before[in][p]
      BY ONLY <3>1, <3>2, Unread, SMTT(60)
    <3> QED
      BY <3>3 DEF p
  <2>4. Keystream(off + i) = ks(i)
    <3>1. (((ctr * BlockLen) + i - 1) \div BlockLen) = ctr + ((i - 1) \div BlockLen)
          /\ (((ctr * BlockLen) + i - 1) % BlockLen) = (i - 1) % BlockLen
      BY <1>2, <2>1, BatchKey
    <3> DEFINE p == off + i
    <3>2. p - 1 = (ctr * BlockLen) + i - 1
      BY <1>2
    <3> HIDE DEF p
    <3>3. (p - 1) \div B = ctr + ((i - 1) \div B) /\ (p - 1) % B = (i - 1) % B
      BY ONLY <3>1, <3>2
    <3>4. Keystream(p) = Enc(CounterBlock((p - 1) \div B))[((p - 1) % B) + 1]
      BY DEF Keystream
    <3> QED
      BY ONLY <3>3, <3>4 DEF p, ks
  <2> HIDE DEF d, ks
  <2>5. ModeOf("ctr", d)[off + i] = SymDiff(d[off + i], Keystream(off + i))
    BY <2>1, <2>2, CtrByte
  <2>6. g[i] = SymDiff(mem[in][off + i], ks(i))
    OBVIOUS
  <2> QED
    BY <2>2, <2>3, <2>4, <2>5, <2>6
<1>6. /\ Locals(e) /\ e.ctr = ctr + nb /\ e.off = off + bytes
      /\ e.op = "ctr" /\ e.in = in /\ e.out = out /\ e.len = len
  <2> DEFINE x == ctr + nb
             y == off + bytes
  <2> HIDE DEF nb, bytes, x, y
  <2>1. LET f == Counted(call, x, y) IN
          Locals(f) /\ SameCall(f, call) /\ f.ctr = x /\ f.off = y /\ f.prev = call.prev
    BY <1>2, LocalsFacts
  <2>2. e = Counted(call, x, y)
    BY DEF Counted, x, y
  <2> HIDE DEF e
  <2> QED
    BY <1>1, <2>1, <2>2 DEF SameCall, x, y
<1>7. ASSUME off + bytes < len PROVE off + bytes = (ctr + nb) * B
  <2>1. bytes = nb * B
    BY <1>1, <1>2, <1>3, <1>7, SMTT(60)
  <2> HIDE DEF bytes, nb
  <2> QED
    BY <1>2, <1>3, <2>1
<1>8. g = [i \in 1 .. bytes |-> g[i]]
  OBVIOUS
<1> HIDE DEF g, e, nb, bytes, d
<1>9. MadeUpTo(mem', before, call, off + bytes) /\ Tables(mem')
  <2>1. Tables(mem')
    BY <1>1, <1>2, <1>4, <1>8, StoredFacts
  <2>2. /\ \A i \in 1 .. bytes : g[i] = ModeOf(call.op, InputOf(before, call))[call.off + i]
        /\ Tables(mem) /\ call.out \in Buffers /\ call.off \in Nat /\ bytes \in Nat
        /\ call.off + bytes <= BufLen /\ g = [i \in 1 .. bytes |-> g[i]]
        /\ MadeUpTo(mem, before, call, call.off)
    BY <1>1, <1>2, <1>4, <1>5, <1>8 DEF d
  <2>3. MadeUpTo(Stored(call.out, call.off, g), before, call, call.off + bytes)
    BY ONLY <2>2, MoreMade
  <2> QED
    BY <1>1, <2>1, <2>3
<1>10. MadeUpTo(mem', before, e, e.off)
  BY <1>1, <1>6, <1>9 DEF MadeUpTo, InputOf
<1>11. Standing(before, e)
  BY <1>2, <1>3, <1>6, <1>7 DEF Standing
<1>12. Under(mem', before, e)
  BY <1>2, <1>4, <1>6, <1>10, <1>11 DEF Under
<1> QED
  BY <1>1, <1>2, <1>6, <1>9, <1>12 DEF ModesInv, Ops

(* The block a call reads is still the input's.                            *)
LEMMA ReadBlock ==
    ASSUME NEW c, NEW b4, NEW k \in Nat, Tables(b4), c.in \in Buffers, c.len \in 0 .. BufLen,
           c.off = k * BlockLen, c.off \in Nat, c.off + BlockLen <= c.len,
           MadeUpTo(mem, b4, c, c.off)
    PROVE  BlockAt(c.in, c.off) = BlockIn(InputOf(b4, c), k)
<1> DEFINE d   == InputOf(b4, c)
           off == c.off
           len == c.len
           B   == BlockLen
<1>1. \A i \in 1 .. len : d[i] = b4[c.in][i]
  <2> DEFINE x == d
  <2>1. x = InputOf(b4, c)
    OBVIOUS
  <2> HIDE DEF x
  <2>2. \A i \in 1 .. len : x[i] = b4[c.in][i]
    BY <2>1, InputFacts
  <2> QED
    BY <2>2 DEF x
<1>2. B \in Nat \ {0} /\ off \in Nat /\ off + B <= len /\ len \in 0 .. BufLen /\ BufLen \in Nat
  BY ModesAssumption
<1>3. ASSUME NEW j \in 1 .. B PROVE mem[c.in][off + j] = d[off + j]
  <2> HIDE DEF d
  <2>1. off + j \in 1 .. len /\ off + j \in 1 .. BufLen /\ off + j > off
    <3> HIDE DEF off, len, B
    <3> QED
      BY <1>2
  <2>2. mem[c.in][off + j] = b4[c.in][off + j]
    <3> DEFINE i == off + j
    <3>1. i \in 1 .. BufLen /\ i > c.off
      BY <2>1
    <3> HIDE DEF i
    <3>2. MadeUpTo(mem, b4, c, c.off) /\ c.in \in Buffers /\ c.off \in Nat
      OBVIOUS
    <3>3. mem[c.in][i] = b4[c.in][i]
      BY ONLY <3>1, <3>2, Unread
    <3> QED
      BY <3>3 DEF i
  <2> QED
    BY <1>1, <2>1, <2>2
<1> HIDE DEF d, off
<1>4. BlockAt(c.in, off) = [j \in 1 .. B |-> d[off + j]]
  BY <1>3 DEF BlockAt
<1>5. BlockIn(d, k) = [j \in 1 .. B |-> d[off + j]]
  BY DEF BlockIn, off
<1> QED
  BY <1>4, <1>5 DEF d, off

(* A trip round the loop of CBC encryption.                                *)
LEMMA ModesInvEncrypt ==
    ASSUME ModesInv, CbcEncryptBlock
    PROVE  ModesInv'
<1> DEFINE B   == BlockLen
           off == call.off
           len == call.len
           c   == Enc(Add(BlockAt(call.in, off), call.prev))
           d   == InputOf(before, call)
           M   == ModeOf("cbc_encrypt", d)
           y   == off + B
           e   == Linked(call, c, y)
<1>1. /\ call.op = "cbc_encrypt" /\ off < len
      /\ mem' = Stored(call.out, off, c) /\ call' = e /\ before' = before
  <2>1. /\ call.op = "cbc_encrypt" /\ ~ Returned /\ before' = before
        /\ mem' = Stored(call.out, off, c) /\ call' = e
    BY DEF CbcEncryptBlock, Linked
  <2>2. off \in Nat /\ len \in Nat
    BY <2>1, ModesAssumption DEF ModesInv, Ops, Under
  <2> HIDE DEF c, e
  <2> QED
    BY <2>1, <2>2 DEF Returned
<1>2. /\ Tables(mem) /\ Tables(before) /\ Locals(call)
      /\ call.in \in Buffers /\ call.out \in Buffers /\ len \in 0 .. BufLen /\ off \in Nat
      /\ MadeUpTo(mem, before, call, off) /\ len % B = 0
      /\ BufLen \in Nat /\ B \in Nat \ {0} /\ len \in Nat
  BY <1>1, ModesAssumption DEF ModesInv, Ops, Under, Standing, SupportedCall
<1>3. PICK k \in Nat : off = k * B /\ call.prev = Chained(before, call, k)
  BY <1>1 DEF ModesInv, Ops, Under, Standing, SupportedCall
<1>4. y <= len /\ (k + 1) * B = y /\ (k * B) + B <= len
  <2>1. k * BlockLen < len /\ len \in Nat /\ len % BlockLen = 0
    BY <1>1, <1>2, <1>3
  <2> HIDE DEF len
  <2>2. (k * BlockLen) + BlockLen <= len /\ (k + 1) * BlockLen = (k * BlockLen) + BlockLen
    BY ONLY k \in Nat, <2>1, BlockFits
  <2> QED
    BY <1>3, <2>2
<1>5. BlockAt(call.in, off) = BlockIn(d, k)
  BY <1>2, <1>3, <1>4, ReadBlock
<1>6. c = BlockIn(M, k)
  <2> DEFINE x == call.prev
  <2>1. d = [i \in 1 .. len |-> d[i]]
    <3> DEFINE u == d
    <3>1. u = InputOf(before, call)
      OBVIOUS
    <3> HIDE DEF u
    <3>2. u = [i \in 1 .. len |-> u[i]]
      BY <1>2, <3>1, InputFacts
    <3> QED
      BY <3>2 DEF u
  <2>2. x = IF k = 0 THEN Iv ELSE BlockIn(ModeOf("cbc_encrypt", d), k - 1)
    BY <1>1, <1>3 DEF Chained
  <2>3. len \in Nat /\ len % BlockLen = 0 /\ (k * BlockLen) + BlockLen <= len /\ k \in Nat
    BY <1>2, <1>4
  <2>4. c = Enc(Add(BlockIn(d, k), x))
    BY <1>5
  <2> HIDE DEF d, x, c, len
  <2>5. BlockIn(ModeOf("cbc_encrypt", d), k) = Enc(Add(BlockIn(d, k), x))
    BY ONLY <2>1, <2>2, <2>3, EncryptBlock
  <2> QED
    BY <2>4, <2>5
<1>7. c = [j \in 1 .. B |-> c[j]]
  BY DEF Enc
<1> HIDE DEF c, M, e
<1>8. \A j \in 1 .. B : c[j] = M[off + j]
  BY <1>3, <1>6 DEF BlockIn
<1>9. /\ Locals(e) /\ SameCall(e, call) /\ e.prev = c /\ e.off = y
  <2> HIDE DEF y
  <2>1. LET f == Linked(call, c, y) IN
          Locals(f) /\ SameCall(f, call) /\ f.prev = c /\ f.off = y /\ f.ctr = call.ctr
    BY <1>2, LocalsFacts
  <2> QED
    BY <2>1 DEF e
<1>10. MadeUpTo(mem', before, call, y) /\ Tables(mem')
  <2>1. /\ \A i \in 1 .. BlockLen : c[i] = ModeOf(call.op, InputOf(before, call))[call.off + i]
        /\ Tables(mem) /\ call.out \in Buffers /\ call.off \in Nat /\ BlockLen \in Nat
        /\ call.off + BlockLen <= BufLen /\ c = [i \in 1 .. BlockLen |-> c[i]]
        /\ MadeUpTo(mem, before, call, call.off)
    BY <1>1, <1>2, <1>4, <1>7, <1>8 DEF M
  <2>2. MadeUpTo(Stored(call.out, call.off, c), before, call, call.off + BlockLen)
    BY ONLY <2>1, MoreMade
  <2>3. Tables(Stored(call.out, call.off, c))
    BY ONLY <2>1, StoredFacts
  <2> QED
    BY <1>1, <2>2, <2>3
<1>11. MadeUpTo(mem', before, e, e.off)
  BY <1>9, <1>10 DEF MadeUpTo, InputOf, SameCall
<1>12. Standing(before, e)
  <2>1. k + 1 \in Nat /\ e.off = (k + 1) * B
    BY <1>4, <1>9
  <2>2. Chained(before, e, k + 1) = BlockIn(M, k)
    <3>1. ~ (k + 1 = 0) /\ k + 1 - 1 = k
      OBVIOUS
    <3> QED
      BY <1>1, <1>9, <3>1 DEF Chained, SameCall, InputOf, M
  <2> QED
    BY <1>1, <1>2, <1>6, <1>9, <2>1, <2>2 DEF Standing, SameCall
<1>13. Under(mem', before, e)
  <2>1. y \in 0 .. len
    BY <1>2, <1>4
  <2> QED
    BY <1>2, <1>9, <1>11, <1>12, <2>1 DEF Under, SameCall
<1> QED
  BY <1>1, <1>2, <1>9, <1>10, <1>13 DEF ModesInv, Ops, SameCall

(* A decrypted block is a block.                                           *)
LEMMA DecIsBlock ==
    ASSUME NEW y
    PROVE  DOMAIN Dec(y) = 1 .. BlockLen
<1>1. CASE Image(y) # {}
  <2>1. Dec(y) \in Image(y)
    BY <1>1 DEF Dec
  <2> QED
    BY <2>1 DEF Image
<1>2. CASE Image(y) = {}
  BY <1>2 DEF Dec
<1> QED
  BY <1>1, <1>2

(* A trip round the loop of CBC decryption.                                *)
LEMMA ModesInvDecrypt ==
    ASSUME ModesInv, CbcDecryptBlock
    PROVE  ModesInv'
<1> DEFINE B   == BlockLen
           in  == call.in
           off == call.off
           len == call.len
           z   == Dec(BlockAt(in, off))
           g   == Add(z, call.prev)
           t   == Stored(call.out, off, g)
           p   == [j \in 1 .. B |-> t[in][off + j]]
           d   == InputOf(before, call)
           M   == ModeOf("cbc_decrypt", d)
           y   == off + B
           e   == Linked(call, p, y)
<1>1. /\ call.op = "cbc_decrypt" /\ off < len
      /\ mem' = t /\ call' = e /\ before' = before
  <2>1. /\ call.op = "cbc_decrypt" /\ ~ Returned /\ before' = before
        /\ mem' = t /\ call' = e
    BY DEF CbcDecryptBlock, Linked
  <2>2. off \in Nat /\ len \in Nat
    BY <2>1, ModesAssumption DEF ModesInv, Ops, Under
  <2> HIDE DEF t, e
  <2> QED
    BY <2>1, <2>2 DEF Returned
<1>2. /\ Tables(mem) /\ Tables(before) /\ Locals(call)
      /\ in \in Buffers /\ call.out \in Buffers /\ len \in 0 .. BufLen /\ off \in Nat
      /\ len % B = 0 /\ BufLen \in Nat /\ B \in Nat \ {0} /\ len \in Nat
      /\ SupportedCall(call) => MadeUpTo(mem, before, call, off)
  BY <1>1, ModesAssumption DEF ModesInv, Ops, Under, Standing
<1>3. PICK k \in Nat : off = k * B /\ (SupportedCall(call) => call.prev = Chained(before, call, k))
  BY <1>1 DEF ModesInv, Ops, Under, Standing
<1>4. y <= len /\ (k + 1) * B = y /\ (k * B) + B <= len /\ y <= BufLen
  <2>1. k * BlockLen < len /\ len \in Nat /\ len % BlockLen = 0
    BY <1>1, <1>2, <1>3
  <2>2. len <= BufLen /\ off \in Nat /\ B \in Nat /\ BufLen \in Nat
    BY <1>2
  <2> HIDE DEF len
  <2>3. (k * BlockLen) + BlockLen <= len /\ (k + 1) * BlockLen = (k * BlockLen) + BlockLen
    BY ONLY k \in Nat, <2>1, BlockFits
  <2>4. y = (k * BlockLen) + BlockLen
    BY <1>3
  <2> HIDE DEF off, B, y
  <2>5. y <= len /\ y \in Nat
    BY <2>1, <2>3, <2>4, ModesAssumption
  <2> QED
    BY <2>1, <2>2, <2>3, <2>4, <2>5 DEF B
<1>5. g = [j \in 1 .. B |-> g[j]]
  <2> HIDE DEF z
  <2>1. DOMAIN z = 1 .. B
    BY DecIsBlock DEF z
  <2> QED
    BY <2>1 DEF Add
<1> HIDE DEF g, e, M, t, d, y, p
<1>6. /\ Locals(e) /\ SameCall(e, call) /\ e.prev = p /\ e.off = y
  <2>1. LET f == Linked(call, p, y) IN
          Locals(f) /\ SameCall(f, call) /\ f.prev = p /\ f.off = y /\ f.ctr = call.ctr
    BY <1>2, LocalsFacts
  <2> QED
    BY <2>1 DEF e
<1>7. /\ Tables(t)
      /\ \A b \in Buffers : \A i \in 1 .. BufLen :
            t[b][i] = IF b = call.out /\ i > off /\ i <= off + B THEN g[i - off] ELSE mem[b][i]
  <2>1. /\ Tables(mem) /\ call.out \in Buffers /\ call.off \in Nat /\ BlockLen \in Nat
        /\ call.off + BlockLen <= BufLen /\ g = [i \in 1 .. BlockLen |-> g[i]]
    BY <1>1, <1>2, <1>4, <1>5 DEF y
  <2> QED
    BY ONLY <2>1, StoredFacts, SMTT(60) DEF t
<1>8. ASSUME SupportedCall(call)
      PROVE  /\ BlockAt(in, off) = BlockIn(d, k) /\ MadeUpTo(mem', before, call, y)
  <2>1. BlockAt(in, off) = BlockIn(d, k)
    <3>1. /\ Tables(before) /\ in \in Buffers /\ len \in 0 .. BufLen /\ k \in Nat
          /\ call.off = k * BlockLen /\ call.off \in Nat /\ call.off + BlockLen <= call.len
          /\ MadeUpTo(mem, before, call, call.off)
      BY <1>2, <1>3, <1>4, <1>8 DEF y
    <3> QED
      BY ONLY <3>1, ReadBlock DEF d
  <2>2. ASSUME NEW j \in 1 .. B PROVE g[j] = M[off + j]
    <3> DEFINE x == call.prev
    <3>1. d = [i \in 1 .. len |-> d[i]]
      BY <1>2, InputFacts DEF d
    <3>2. x = IF k = 0 THEN Iv ELSE BlockIn(d, k - 1)
      BY <1>1, <1>3, <1>8 DEF Chained, d
    <3>3. len \in Nat /\ (k * BlockLen) + BlockLen <= len /\ k \in Nat /\ j \in 1 .. BlockLen
      BY <1>2, <1>4
    <3>4. g = Add(Dec(BlockIn(d, k)), x)
      BY <2>1 DEF g
    <3>5. M[off + j] = ModeOf("cbc_decrypt", d)[(k * BlockLen) + j]
      BY <1>3 DEF M
    <3> HIDE DEF x, len
    <3>6. ModeOf("cbc_decrypt", d)[(k * BlockLen) + j] = Add(Dec(BlockIn(d, k)), x)[j]
      BY ONLY <3>1, <3>2, <3>3, DecryptBlock
    <3> QED
      BY <3>4, <3>5, <3>6
  <2>3. /\ \A i \in 1 .. BlockLen : g[i] = ModeOf(call.op, InputOf(before, call))[call.off + i]
        /\ Tables(mem) /\ call.out \in Buffers /\ call.off \in Nat /\ BlockLen \in Nat
        /\ call.off + BlockLen <= BufLen /\ g = [i \in 1 .. BlockLen |-> g[i]]
        /\ MadeUpTo(mem, before, call, call.off)
    BY <1>1, <1>2, <1>4, <1>5, <1>8, <2>2 DEF M, d, y
  <2>4. MadeUpTo(Stored(call.out, call.off, g), before, call, call.off + BlockLen)
    BY ONLY <2>3, MoreMade
  <2> QED
    BY <1>1, <2>1, <2>4 DEF t, y
<1>9. ASSUME SupportedCall(call), y < len PROVE p = BlockIn(d, k)
  <2>1. in # call.out
    <3>1. ~ (len <= B)
      BY <1>2, <1>9 DEF y
    <3> QED
      BY <1>1, <1>9, <3>1 DEF SupportedCall
  <2>2. ASSUME NEW j \in 1 .. B PROVE t[in][off + j] = mem[in][off + j]
    <3>1. off + j \in 1 .. BufLen
      BY <1>2, <1>4 DEF y
    <3> QED
      BY <1>2, <1>7, <2>1, <3>1
  <2>3. BlockAt(in, off) = [j \in 1 .. B |-> mem[in][off + j]]
    BY DEF BlockAt
  <2>4. p = BlockAt(in, off)
    BY <2>2, <2>3 DEF p
  <2> QED
    BY <1>8, <1>9, <2>4
<1>10. SupportedCall(e) <=> SupportedCall(call)
  BY <1>6 DEF SupportedCall, SameCall
<1>11. SupportedCall(e) => MadeUpTo(mem', before, e, e.off)
  BY <1>6, <1>8, <1>10 DEF MadeUpTo, InputOf, SameCall
<1>12. Standing(before, e)
  <2>1. k + 1 \in Nat /\ e.off = (k + 1) * B
    BY <1>4, <1>6
  <2>2. Chained(before, e, k + 1) = BlockIn(d, k)
    <3>1. ~ (k + 1 = 0) /\ k + 1 - 1 = k
      OBVIOUS
    <3> QED
      BY <1>1, <1>6, <3>1 DEF Chained, SameCall, InputOf, d
  <2>3. e.op = "cbc_decrypt" /\ e.len = len
    BY <1>1, <1>6 DEF SameCall
  <2>4. SupportedCall(e) /\ e.off < e.len => e.prev = Chained(before, e, k + 1)
    BY <1>6, <1>9, <1>10, <2>2, <2>3
  <2> QED
    BY <1>2, <2>1, <2>3, <2>4 DEF Standing
<1>13. Under(mem', before, e)
  <2>1. y \in 0 .. len
    BY <1>2, <1>4 DEF y
  <2> QED
    BY <1>2, <1>6, <1>11, <1>12, <2>1 DEF Under, SameCall
<1> QED
  BY <1>1, <1>2, <1>6, <1>7, <1>13 DEF ModesInv, Ops, SameCall

(* Every step keeps the invariant.                                         *)
LEMMA ModesInvNext == ModesInv /\ [ModesNext]_modesVars => ModesInv'
<1> SUFFICES ASSUME ModesInv, [ModesNext]_modesVars PROVE ModesInv'
  OBVIOUS
<1>1. CASE UNCHANGED modesVars
  BY <1>1, ZenonT(60) DEF modesVars, ModesInv, Tables, Locals, Under, Standing, MadeUpTo, InputOf, Chained,
     SupportedCall
<1>2. ASSUME NEW op \in Ops, NEW in \in Buffers, NEW out \in Buffers, NEW len \in 0 .. BufLen,
             CallModes(op, in, out, len)
      PROVE  ModesInv'
  BY <1>2, ModesInvCall
<1> QED
  BY <1>1, <1>2, ModesInvCtr, ModesInvEncrypt, ModesInvDecrypt DEF ModesNext, Ops

(* When the call returns, all of the result is made.                       *)
LEMMA ModesMade == ModesInv => ModesExact
<1> SUFFICES ASSUME ModesInv, Returned, call.op # "idle", Supported
             PROVE  mem = [before EXCEPT ![call.out] =
                        ModeOf(call.op, SubSeq(before[call.in], 1, call.len))
                            \o SubSeq(@, call.len + 1, BufLen)]
  BY DEF ModesExact
<1> DEFINE n   == call.len
           out == call.out
           d   == InputOf(before, call)
           M   == ModeOf(call.op, d)
           f   == before[out]
<1>1. /\ Tables(mem) /\ Tables(before) /\ call.in \in Buffers /\ out \in Buffers
      /\ n \in 0 .. BufLen /\ call.off = n /\ BufLen \in Nat
      /\ MadeUpTo(mem, before, call, n)
  <2>1. Under(mem, before, call) /\ Tables(mem) /\ Tables(before) /\ BufLen \in Nat
    BY ModesAssumption DEF ModesInv
  <2>2. SupportedCall(call)
    BY DEF Supported, SupportedCall
  <2>3. call.off = n
    BY <2>1 DEF Under, Returned
  <2> QED
    BY <2>1, <2>2, <2>3 DEF Under
<1>2. \A b \in Buffers : \A i \in 1 .. BufLen :
        mem[b][i] = IF b = out /\ i <= n THEN M[i] ELSE before[b][i]
  BY <1>1 DEF MadeUpTo
<1>3. M = [i \in 1 .. n |-> M[i]]
  <2>1. DOMAIN d = 1 .. n
    <3> DEFINE x == d
    <3>1. x = InputOf(before, call)
      OBVIOUS
    <3> HIDE DEF x
    <3>2. DOMAIN x = 1 .. n
      BY <1>1, <3>1, InputFacts
    <3> QED
      BY <3>2 DEF x
  <2> HIDE DEF d, n
  <2>2. M = [i \in DOMAIN d |->
               ModeByte(call.op, d, ((i - 1) \div BlockLen) + 1, ((i - 1) % BlockLen) + 1, i)]
    BY ModeIs
  <2> HIDE DEF M
  <2> QED
    BY <2>1, <2>2
<1>4. f = [i \in 1 .. BufLen |-> f[i]]
  BY <1>1 DEF Tables
<1> HIDE DEF d, M, n, f
<1>5. M \o SubSeq(f, n + 1, BufLen) = [i \in 1 .. BufLen |-> IF i <= n THEN M[i] ELSE f[i]]
  <2>1. n \in 0 .. BufLen /\ BufLen \in Nat
    BY <1>1
  <2> QED
    BY ONLY <1>3, <1>4, <2>1, TailFacts, SMTT(150)
<1>6. mem[out] = M \o SubSeq(f, n + 1, BufLen)
  <2>1. mem[out] = [i \in 1 .. BufLen |-> mem[out][i]]
    BY <1>1 DEF Tables
  <2> QED
    BY <1>1, <1>2, <1>5, <2>1 DEF f
<1>7. ASSUME NEW b \in Buffers, b # out PROVE mem[b] = before[b]
  <2>1. /\ mem[b] = [i \in 1 .. BufLen |-> mem[b][i]]
        /\ before[b] = [i \in 1 .. BufLen |-> before[b][i]]
    BY <1>1 DEF Tables
  <2> QED
    BY <1>2, <1>7, <2>1
<1>8. mem = [b \in Buffers |-> mem[b]] /\ DOMAIN before = Buffers
  BY <1>1 DEF Tables
<1>9. mem = [before EXCEPT ![out] = M \o SubSeq(f, n + 1, BufLen)]
  <2> DEFINE r == M \o SubSeq(f, n + 1, BufLen)
             e == [before EXCEPT ![out] = r]
  <2>1. mem[out] = r
    BY <1>6
  <2> HIDE DEF r
  <2>2. e = [b \in Buffers |-> IF b = out THEN r ELSE before[b]]
    BY <1>1, <1>8
  <2> HIDE DEF e
  <2>3. \A b \in Buffers : mem[b] = IF b = out THEN r ELSE before[b]
    BY <1>7, <2>1
  <2>4. mem = e
    BY <1>8, <2>2, <2>3
  <2> QED
    BY <2>4 DEF e, r
<1> QED
  BY <1>9 DEF f, M, d, n, InputOf

(* sdc_block_cipher_ctr, _cbc_encrypt, _cbc_decrypt: what a call leaves is *)
(* the mode's result on what its input held when it was made, in place as  *)
(* in another buffer, and it writes nothing else.                          *)
THEOREM BlockModesExact == ModesSpec => []ModesExact
<1>1. ModesSpec => []ModesInv
  BY ModesInvInit, ModesInvNext, PTL DEF ModesSpec
<1> QED
  BY <1>1, ModesMade, PTL

-----------------------------------------------------------------------------
(* Threads that resolve the GHASH table.                                   *)

Native == IF hw["pclmul"] THEN "pclmul" ELSE "scalar"

Backend == {NoTable, "pclmul", "scalar"}

CpuTypeOK ==
    /\ hw \in [Features -> BOOLEAN]
    /\ ready \in BOOLEAN /\ warmed \in BOOLEAN
    /\ vt \in Backend
    /\ pc \in [Thread -> {"idle", "get", "detect", "resolve", "publish", "init"}]
    /\ resolved \in [Thread -> Backend] /\ made \in [Thread -> Backend]
    /\ DOMAIN used = Thread

(* What a thread has done so far shows in where it is: it carries a table  *)
(* exactly between resolving and initialising, and the shared pointer is   *)
(* set once some thread has come so far, so that before the first one has, *)
(* there is nothing an early choice could have left behind.                *)
InStep ==
    /\ \A p \in Thread :
        /\ pc[p] = "idle" => resolved[p] = NoTable
        /\ pc[p] # "idle" => made[p] = NoTable
        /\ pc[p] \in {"publish", "init"} => resolved[p] # NoTable
        /\ pc[p] = "init" \/ made[p] # NoTable => vt # NoTable
        /\ made[p] = NoTable => used[p] = {}
    /\ vt # NoTable => \E p \in Thread : pc[p] # "idle" \/ made[p] # NoTable

(* Once warmed, nobody detects again and every table in sight is Native.   *)
Settled ==
    warmed =>
        /\ ready /\ feat = hw
        /\ vt \in {NoTable, Native}
        /\ \A p \in Thread :
            /\ pc[p] # "detect"
            /\ resolved[p] \in {NoTable, Native} /\ made[p] \in {NoTable, Native}
            /\ used[p] \subseteq {made[p]}

CpuInv == CpuTypeOK /\ InStep /\ Settled

(* The invariant says more than the property.                              *)
LEMMA InvGivesOneBackend == CpuInv => OneBackend
  BY DEF CpuInv, Settled, OneBackend, Native

(* Before any call nothing is detected, warmed, carried or used.           *)
LEMMA InvInit == CpuInit => CpuInv
  BY ZenonT(60) DEF CpuInit, CpuInv, CpuTypeOK, InStep, Settled, Backend, NoTable

(* Every step of the dispatch, and of any thread in it, keeps CpuInv.      *)
LEMMA InvStep == CpuInv /\ [CpuNext]_cpuVars => CpuInv'
<1> SUFFICES ASSUME CpuInv, [CpuNext]_cpuVars
             PROVE  CpuInv'
  OBVIOUS
<1> USE DEF CpuInv, CpuTypeOK, Backend, NoTable, Goes
<1>1. CASE UNCHANGED cpuVars
  BY <1>1 DEF cpuVars, InStep, Settled, Native
<1>2. CASE AesInit
  BY <1>2 DEF AesInit, InStep, Settled, Native
<1>3. ASSUME NEW p \in Thread, GhashInit(p)
      PROVE  CpuInv'
  BY <1>3 DEF GhashInit, InStep, Settled, Native
<1>4. ASSUME NEW p \in Thread, CpuGet(p)
      PROVE  CpuInv'
  BY <1>4 DEF CpuGet, Undetected, InStep, Settled, Native
<1>5. ASSUME NEW p \in Thread, NEW s \in stores[p], Store(p, s)
      PROVE  CpuInv'
  <2>1. /\ pc[p] = "detect" /\ ready' \in BOOLEAN
        /\ UNCHANGED <<hw, vt, warmed, resolved, made, used>>
    BY <1>5 DEF Store
  <2>2. pc' = pc \/ pc' = [pc EXCEPT ![p] = "resolve"]
    BY <1>5 DEF Store
  <2>3. ~warmed
    BY <2>1 DEF Settled
  <2>4. CpuTypeOK'
    BY <2>1, <2>2
  <2>5. InStep'
    BY <2>1, <2>2 DEF InStep
  <2>6. QED
    BY <2>1, <2>3, <2>4, <2>5 DEF Settled
<1>6. ASSUME NEW p \in Thread, ResolveVt(p)
      PROVE  CpuInv'
  BY <1>6 DEF ResolveVt, InStep, Settled, Native
<1>7. ASSUME NEW p \in Thread, Publish(p)
      PROVE  CpuInv'
  BY <1>7 DEF Publish, InStep, Settled, Native
<1>8. ASSUME NEW p \in Thread, VtInit(p)
      PROVE  CpuInv'
  BY <1>8 DEF VtInit, InStep, Settled, Native
<1>9. ASSUME NEW p \in Thread, GhashCall(p)
      PROVE  CpuInv'
  BY <1>9 DEF GhashCall, InStep, Settled, Native
<1>10. QED
  BY <1>1, <1>2, <1>3, <1>4, <1>5, <1>6, <1>7, <1>8, <1>9 DEF CpuNext

(* sdc_aes_init before the threads: for any number of threads and any      *)
(* features, GHASH contexts keep the backend that initialised them.        *)
THEOREM CpuOneBackend == CpuSpec => []OneBackend
<1>1. CpuSpec => []CpuInv
  BY InvInit, InvStep, PTL DEF CpuSpec
<1>2. QED
  BY <1>1, InvGivesOneBackend, PTL

-----------------------------------------------------------------------------
(* RSA keys: what is allocated for them.                                   *)

(* The product of the code's loop over the words of a, after n of them.    *)
MulStep(a, b, i, g) ==
    IF i = 0 THEN SetWord(0, 2 * Len(a)) ELSE MulRow(g[i - 1], a[i], b, i)
MulRun(a, b, n, g)  == g = [i \in 0 .. n |-> MulStep(a, b, i, g)]
MulRuns(a, b) == CHOOSE g : g = [i \in 0 .. Len(a) |->
    IF i = 0 THEN SetWord(0, 2 * Len(a)) ELSE MulRow(g[i - 1], a[i], b, i)]

(* The loop can be run.                                                    *)
LEMMA MulRunsOn ==
    ASSUME NEW a, NEW b
    PROVE  \A n \in Nat : \E g : MulRun(a, b, n, g)
<1> DEFINE S == {n \in Nat : \E g : MulRun(a, b, n, g)}
<1>1. 0 \in S
  <2> DEFINE f == [i \in 0 .. 0 |-> SetWord(0, 2 * Len(a))]
  <2>1. \A i \in 0 .. 0 : i = 0
    OBVIOUS
  <2>2. f = [i \in 0 .. 0 |-> MulStep(a, b, i, f)]
    BY <2>1 DEF MulStep
  <2> QED
    BY <2>2 DEF MulRun
<1>2. ASSUME NEW n \in Nat, n \in S PROVE n + 1 \in S
  <2>1. PICK f : MulRun(a, b, n, f)
    BY <1>2
  <2> DEFINE g == [i \in 0 .. n + 1 |-> IF i <= n THEN f[i] ELSE MulStep(a, b, n + 1, f)]
  <2>2. \A i \in 0 .. n : f[i] = MulStep(a, b, i, f)
    BY <2>1 DEF MulRun
  <2>3. ASSUME NEW i \in 0 .. n + 1 PROVE g[i] = MulStep(a, b, i, g)
    <3>1. CASE i = 0
      <4>1. g[i] = f[i] /\ i \in 0 .. n
        BY <3>1
      <4> QED
        BY <2>2, <3>1, <4>1 DEF MulStep
    <3>2. CASE i \in 1 .. n
      <4>1. g[i] = f[i] /\ g[i - 1] = f[i - 1] /\ i # 0 /\ i \in 0 .. n
        BY <3>2
      <4> HIDE DEF g
      <4> QED
        BY <2>2, <4>1 DEF MulStep
    <3>3. CASE i = n + 1
      <4>1. g[i] = MulStep(a, b, i, f) /\ g[i - 1] = f[i - 1] /\ i # 0
        BY <3>3
      <4> HIDE DEF g
      <4> QED
        BY <4>1 DEF MulStep
    <3> QED
      BY <3>1, <3>2, <3>3
  <2>4. g = [i \in 0 .. n + 1 |-> g[i]]
    OBVIOUS
  <2> HIDE DEF g
  <2>5. MulRun(a, b, n + 1, g)
    BY <2>3, <2>4 DEF MulRun
  <2> QED
    BY <2>5
<1> HIDE DEF S
<1>3. \A n \in Nat : n \in S
  BY <1>1, <1>2, Data!SetInduction
<1> QED
  BY <1>3 DEF S

(* A number of so many words.                                              *)
HasWords(x, n) == x = [i \in 1 .. n |-> x[i]]

(* A table of n words has length n.                                        *)
LEMMA WordsLen ==
    ASSUME NEW x, NEW n \in Nat, HasWords(x, n)
    PROVE  Len(x) = n /\ (n # 0 => x # <<>>)
<1> DEFINE S == {x[i] : i \in 1 .. n}
<1>1. [i \in 1 .. n |-> x[i]] \in [1 .. n -> S]
  OBVIOUS
<1>2. x \in [1 .. n -> S]
  BY <1>1 DEF HasWords
<1> HIDE DEF S
<1>3. x \in Seq(S) /\ Len(x) = n
  BY <1>2, Data!TableIsSeq
<1> QED
  BY <1>3

(* A product has the words of both factors, and so is not empty.           *)
LEMMA MulFacts ==
    ASSUME NEW a, NEW b, NEW k \in Nat \ {0}, HasWords(a, k)
    PROVE  IntMul(a, b) # Null
<1>1. Len(a) = k
  BY WordsLen
<1> DEFINE g == MulRuns(a, b)
<1>2. MulRun(a, b, k, g)
  <2>1. \E f : MulRun(a, b, Len(a), f)
    BY <1>1, MulRunsOn
  <2> QED
    BY <1>1, <2>1 DEF MulRun, MulStep, MulRuns
<1>3. IntMul(a, b) = g[k]
  BY <1>1 DEF IntMul, MulRuns
<1> HIDE DEF g
<1>4. \A i \in 0 .. k : g[i] = MulStep(a, b, i, g)
  BY <1>2 DEF MulRun
<1> DEFINE S == {i \in Nat : i <= k => DOMAIN g[i] = 1 .. 2 * k}
<1>5. 0 \in S
  <2>1. g[0] = SetWord(0, 2 * k)
    BY <1>1, <1>4 DEF MulStep
  <2> QED
    BY <2>1 DEF SetWord
<1>6. ASSUME NEW i \in Nat, i \in S PROVE i + 1 \in S
  <2> SUFFICES ASSUME i + 1 <= k PROVE DOMAIN g[i + 1] = 1 .. 2 * k
    OBVIOUS
  <2>1. i + 1 \in 0 .. k /\ i + 1 # 0 /\ (i + 1) - 1 = i /\ DOMAIN g[i] = 1 .. 2 * k
    BY <1>6
  <2>2. g[i + 1] = MulRow(g[i], a[i + 1], b, i + 1)
    BY <1>4, <2>1 DEF MulStep
  <2> QED
    BY <2>1, <2>2 DEF MulRow
<1> HIDE DEF S
<1>7. k \in S
  BY <1>5, <1>6, Data!SetInduction
<1>8. DOMAIN g[k] = 1 .. 2 * k
  BY <1>7 DEF S
<1>9. 1 \in DOMAIN g[k]
  BY <1>8
<1> QED
  BY <1>3, <1>9 DEF Null

(* What a search for a prime comes back with has the words of a prime.     *)
LEMMA PrimeWords ==
    ASSUME NEW o \in PrimeOutcomes
    PROVE  HasWords(o.x, Len1)
<1> DEFINE Found == {c \in {RandomOdd(r) : r \in Words(Len1)} : Acceptable(c)}
<1>1. \/ \E x \in Found : o = [ret |-> "OK", x |-> x]
      \/ \E e \in {"RNG_FAIL", "TIMEOUT"} : o = [ret |-> e, x |-> SetWord(0, Len1)]
  BY DEF PrimeOutcomes, GenPrimeOutcomes
<1>2. CASE \E x \in Found : o = [ret |-> "OK", x |-> x]
  <2>1. PICK r \in Words(Len1) : o.x = RandomOdd(r)
    BY <1>2
  <2> QED
    BY <2>1 DEF RandomOdd, Words, HasWords
<1>3. CASE \E e \in {"RNG_FAIL", "TIMEOUT"} : o = [ret |-> e, x |-> SetWord(0, Len1)]
  <2>1. o.x = SetWord(0, Len1)
    BY <1>3
  <2> QED
    BY <2>1 DEF SetWord, HasWords
<1> QED
  BY <1>1, <1>2, <1>3

-----------------------------------------------------------------------------
(* A private key by its fields, and the fields that matter here.           *)
KeyFields == {"p", "q", "dp", "dq", "qinv", "d", "n", "block"}
IsKey(k) == k = [x \in KeyFields |-> k[x]]

(* An assignment to a field leaves the others.                             *)
LEMMA KeyWrites ==
    ASSUME NEW k, IsKey(k), NEW f \in KeyFields, NEW v
    PROVE  /\ IsKey([k EXCEPT ![f] = v])
           /\ [k EXCEPT ![f] = v][f] = v
           /\ \A x \in KeyFields \ {f} : [k EXCEPT ![f] = v][x] = k[x]
<1>1. DOMAIN k = KeyFields
  BY DEF IsKey
<1> DEFINE e == [k EXCEPT ![f] = v]
<1>2. e = [x \in KeyFields |-> IF x = f THEN v ELSE k[x]]
  BY <1>1
<1> HIDE DEF e
<1>3. IsKey(e)
  BY <1>2 DEF IsKey
<1> QED
  BY <1>2, <1>3 DEF e

(* An empty key holds no memory.                                           *)
LEMMA NoKeyFacts == IsKey(NoKey) /\ NoKey.block = FALSE /\ NoKey.n = Null
BY DEF NoKey, IsKey, KeyFields

(* The exchange of the primes.                                             *)
LEMMA OrderedFacts ==
    ASSUME NEW k, IsKey(k)
    PROVE  /\ IsKey(Ordered(k)) /\ Ordered(k).block = k.block /\ Ordered(k).n = k.n
           /\ HasWords(k.p, Len1) /\ HasWords(k.q, Len1) => HasWords(Ordered(k).p, Len1)
<1> DEFINE e == [k EXCEPT !.p = k.q, !.q = k.p]
<1>1. DOMAIN k = KeyFields
  BY DEF IsKey
<1>2. e = [x \in KeyFields |-> IF x = "q" THEN k.p ELSE IF x = "p" THEN k.q ELSE k[x]]
  BY <1>1 DEF KeyFields
<1> HIDE DEF e
<1>3. IsKey(e) /\ e.block = k.block /\ e.n = k.n /\ e.p = k.q
  BY <1>2 DEF IsKey, KeyFields
<1>4. Ordered(k) = k \/ Ordered(k) = e
  BY DEF Ordered, e
<1> QED
  BY <1>3, <1>4

(* The values of the Chinese remainder theorem.                            *)
LEMMA CrtFacts ==
    ASSUME NEW k, IsKey(k)
    PROVE  /\ IsKey(WithCrt(k)) /\ WithCrt(k).block = k.block /\ WithCrt(k).n = k.n
<1> DEFINE x == IntReduce(k.d, Minus(k.p, 1))
           y == IntReduce(k.d, Minus(k.q, 1))
           z == QInv(k.p, k.q)
           e == [k EXCEPT !.dp = x, !.dq = y, !.qinv = z]
<1> HIDE DEF x, y, z
<1>1. DOMAIN k = KeyFields
  BY DEF IsKey
<1>2. e = [f \in KeyFields |-> IF f = "qinv" THEN z ELSE IF f = "dq" THEN y
                                ELSE IF f = "dp" THEN x ELSE k[f]]
  BY <1>1 DEF KeyFields
<1>3. WithCrt(k) = e
  BY DEF WithCrt, x, y, z
<1> HIDE DEF e
<1>4. IsKey(e) /\ e.block = k.block /\ e.n = k.n
  BY <1>2 DEF IsKey, KeyFields
<1> QED
  BY <1>3, <1>4

(* A derived key has a modulus.                                            *)
LEMMA DerivedFacts ==
    ASSUME NEW k, IsKey(k), HasWords(k.p, Len1), NEW e
    PROVE  /\ IsKey(Derived(k, e)) /\ Derived(k, e).block = k.block
           /\ Derived(k, e).n # Null
<1> DEFINE n == IntMul(k.p, k.q)
           d == IntModinv(Phi(k.p, k.q), e)
           f == [k EXCEPT !.n = n, !.d = d]
<1>1. n # Null
  BY MulFacts, RsaAssumption
<1> HIDE DEF n, d
<1>2. DOMAIN k = KeyFields
  BY DEF IsKey
<1>3. f = [x \in KeyFields |-> IF x = "d" THEN d ELSE IF x = "n" THEN n ELSE k[x]]
  BY <1>2 DEF KeyFields
<1>4. Derived(k, e) = WithCrt(f)
  BY DEF Derived, n, d
<1> HIDE DEF f
<1>5. IsKey(f) /\ f.block = k.block /\ f.n = n
  BY <1>3 DEF IsKey, KeyFields
<1> QED
  BY <1>1, <1>4, <1>5, CrtFacts

-----------------------------------------------------------------------------
(* The heap: how often each block is allocated.                            *)
Heap(x, y, z) == [b \in {"block", "tmp", "n"} |->
                     IF b = "block" THEN x ELSE IF b = "tmp" THEN y ELSE z]

(* The heap, written out.                                                  *)
LEMMA HeapIs ==
    ASSUME NEW x, NEW y, NEW z
    PROVE  Heap(x, y, z) = [block |-> x, tmp |-> y, n |-> z]
BY DEF Heap

(* The changes the calls make to it, from the states they make them in.    *)
LEMMA HeapMoves ==
    ASSUME NEW h
    PROVE  /\ h = Heap(0, 0, 0) => [h EXCEPT !["block"] = @ + 1] = Heap(1, 0, 0)
           /\ h = Heap(1, 0, 0) => [h EXCEPT !["block"] = @ - 1] = Heap(0, 0, 0)
           /\ h = Heap(1, 0, 0) => [h EXCEPT !["tmp"] = @ + 1] = Heap(1, 1, 0)
           /\ h = Heap(1, 1, 0) => [h EXCEPT !["tmp"] = @ - 1] = Heap(1, 0, 0)
           /\ h = Heap(1, 0, 0) => [h EXCEPT !["n"] = @ + 1] = Heap(1, 0, 1)
           /\ h = Heap(1, 1, 0) => [h EXCEPT !["n"] = @ + 1] = Heap(1, 1, 1)
           /\ h = Heap(1, 1, 1) => [h EXCEPT !["tmp"] = @ - 1] = Heap(1, 0, 1)
<1>1. ASSUME NEW x, NEW y, NEW z, h = Heap(x, y, z), NEW v
      PROVE  /\ [h EXCEPT !["block"] = v] = Heap(v, y, z)
             /\ [h EXCEPT !["tmp"] = v] = Heap(x, v, z)
             /\ [h EXCEPT !["n"] = v] = Heap(x, y, v)
             /\ h["block"] = x /\ h["tmp"] = y /\ h["n"] = z
  BY <1>1 DEF Heap
<1> DEFINE i == 0
           j == 1
<1>2. i + 1 = j /\ j - 1 = i
  OBVIOUS
<1> HIDE DEF i, j
<1>3. h = Heap(i, i, i) => [h EXCEPT !["block"] = @ + 1] = Heap(j, i, i)
  BY <1>1, <1>2
<1>4. h = Heap(j, i, i) => [h EXCEPT !["block"] = @ - 1] = Heap(i, i, i)
  BY <1>1, <1>2
<1>5. h = Heap(j, i, i) => [h EXCEPT !["tmp"] = @ + 1] = Heap(j, j, i)
  BY <1>1, <1>2
<1>6. h = Heap(j, j, i) => [h EXCEPT !["tmp"] = @ - 1] = Heap(j, i, i)
  BY <1>1, <1>2
<1>7. h = Heap(j, i, i) => [h EXCEPT !["n"] = @ + 1] = Heap(j, i, j)
  BY <1>1, <1>2
<1>8. h = Heap(j, j, i) => [h EXCEPT !["n"] = @ + 1] = Heap(j, j, j)
  BY <1>1, <1>2
<1>9. h = Heap(j, j, j) => [h EXCEPT !["tmp"] = @ - 1] = Heap(j, i, j)
  BY <1>1, <1>2
<1> QED
  BY <1>3, <1>4, <1>5, <1>6, <1>7, <1>8, <1>9 DEF i, j

-----------------------------------------------------------------------------
(* The invariant.                                                          *)

(* Where the temporary block of sdc_rsa_keypair is at hand.                *)
WithTmp == {"p", "q", "derive"}

(* What is allocated is what the keys name, and the temporary block while  *)
(* it is in use; a key that names its block has a modulus once it is made, *)
(* and one that is being made is alone, with primes as long as they should *)
(* be.  FreeKeypair frees pub.n because pub.n is not NULL: the modulus     *)
(* must be there, and it is when the primes have words.                    *)
RsaInv ==
    /\ run.at \in {"idle", "tmp", "p", "q", "derive", "rp", "rq"}
    /\ run = [x \in {"at", "op", "ret", "in", "drawn", "out"} |-> run[x]]
    /\ IsKey(priv) /\ priv.block \in BOOLEAN
    /\ heap = Heap(Bit(priv.block), Bit(run.at \in WithTmp), Bit(pub.n # Null))
    /\ run.at \in {"tmp", "p", "q", "derive"} => priv.block /\ pub = NoPub
    /\ run.at \in {"q", "derive"} => HasWords(priv.p, Len1)
    /\ run.at = "derive" => HasWords(priv.q, Len1)
    /\ run.at \in {"rp", "rq"} => run.op = "private"
    /\ run.at \notin {"tmp", "p", "q", "derive"} /\ priv.block => priv.n # Null
    /\ Between /\ run.op = "keypair" /\ run.ret # "OK" => priv = NoKey /\ pub = NoPub

(* A call that goes on.                                                    *)
LEMMA GotoFacts ==
    ASSUME RsaInv, NEW to
    PROVE  /\ Goto(to).at = to
           /\ Goto(to) = [x \in {"at", "op", "ret", "in", "drawn", "out"} |-> Goto(to)[x]]
BY DEF RsaInv, Goto

(* An empty public key holds no memory.                                    *)
LEMMA NoPubFacts == NoPub.n = Null
BY DEF NoPub

(* The invariant gives the property.                                       *)
LEMMA RsaInvGives == RsaInv => NothingLeft
<1> SUFFICES ASSUME RsaInv PROVE NothingLeft
  OBVIOUS
<1> DEFINE x == Bit(priv.block)
           y == Bit(run.at \in WithTmp)
           z == Bit(pub.n # Null)
<1>1. x \in {0, 1} /\ y \in {0, 1} /\ z \in {0, 1}
  BY DEF Bit
<1>2. heap = Heap(x, y, z)
  BY DEF RsaInv
<1>3. Between => y = 0
  BY DEF Between, WithTmp, Bit
<1>5. Between => heap = [block |-> x, tmp |-> 0, n |-> z]
  <2> HIDE DEF x, y, z
  <2>1. heap = [block |-> x, tmp |-> y, n |-> z]
    BY <1>2, HeapIs
  <2> QED
    BY <1>3, <2>1
<1>4. \A b \in DOMAIN heap : heap[b] \in {0, 1}
  <2> HIDE DEF x, y, z
  <2> QED
    BY <1>1, <1>2 DEF Heap
<1> HIDE DEF x, y, z
<1> QED
  BY <1>4, <1>5 DEF RsaInv, NothingLeft, x, z

(* Nothing is allocated at first.                                          *)
LEMMA RsaInvInit == RsaInit => RsaInv
<1> SUFFICES ASSUME RsaInit PROVE RsaInv
  OBVIOUS
<1>1. /\ pub = NoPub /\ priv = NoKey /\ heap = [b \in {"block", "tmp", "n"} |-> 0]
      /\ run = Finished("none", "OK")
  BY DEF RsaInit
<1>2. heap = Heap(0, 0, 0)
  BY <1>1 DEF Heap
<1>3. /\ run.at = "idle" /\ run.op = "none"
      /\ run = [x \in {"at", "op", "ret", "in", "drawn", "out"} |-> run[x]]
  BY <1>1 DEF Finished
<1>5. Bit(priv.block) = 0 /\ Bit(run.at \in WithTmp) = 0 /\ Bit(pub.n # Null) = 0
  BY <1>1, <1>3, NoKeyFacts, NoPubFacts DEF WithTmp, Bit
<1> QED
  BY <1>1, <1>2, <1>3, <1>5, NoKeyFacts DEF RsaInv

-----------------------------------------------------------------------------
(* The steps.                                                              *)

(* While a key is being made.                                              *)
LEMMA Making ==
    ASSUME RsaInv, run.at \in {"tmp", "p", "q", "derive"}
    PROVE  /\ heap = Heap(1, IF run.at = "tmp" THEN 0 ELSE 1, 0)
           /\ priv.block = TRUE /\ pub = NoPub /\ IsKey(priv)
<1>1. /\ heap = Heap(Bit(priv.block), Bit(run.at \in WithTmp), Bit(pub.n # Null))
      /\ priv.block = TRUE /\ pub = NoPub /\ IsKey(priv)
  BY DEF RsaInv
<1>2. /\ Bit(priv.block) = 1 /\ Bit(pub.n # Null) = 0
      /\ Bit(run.at \in WithTmp) = IF run.at = "tmp" THEN 0 ELSE 1
  BY <1>1, NoPubFacts DEF Bit, WithTmp
<1> QED
  BY <1>1, <1>2

(* A failure frees the block; the temporary one was freed before.          *)
LEMMA FreePrivkeyInv ==
    ASSUME RsaInv, NEW h, h = Heap(1, 0, 0), NEW ret, FreePrivkey(h, ret)
    PROVE  RsaInv'
<1>1. /\ heap' = [h EXCEPT !["block"] = @ - 1] /\ priv' = NoKey /\ pub' = NoPub
      /\ run' = Finished("keypair", ret)
  BY DEF FreePrivkey
<1>2. heap' = Heap(0, 0, 0)
  BY <1>1, HeapMoves
<1>3. /\ run'.at = "idle" /\ run' = [x \in {"at", "op", "ret", "in", "drawn", "out"} |-> run'[x]]
  BY <1>1 DEF Finished
<1>4. Bit(priv'.block) = 0 /\ Bit(run'.at \in WithTmp) = 0 /\ Bit(pub'.n # Null) = 0
  BY <1>1, <1>3, NoKeyFacts, NoPubFacts DEF WithTmp, Bit
<1> QED
  BY <1>1, <1>2, <1>3, <1>4, NoKeyFacts DEF RsaInv, IsKey

(* A call that fails gives its own memory back.                            *)
LEMMA FreeAllInv ==
    ASSUME RsaInv, run.at \in WithTmp, NEW ret, FreeAll(ret)
    PROVE  RsaInv'
<1> DEFINE h == [heap EXCEPT !["tmp"] = @ - 1]
<1>1. heap = Heap(1, 1, 0)
  BY Making DEF WithTmp
<1>2. h = Heap(1, 0, 0)
  BY <1>1, HeapMoves
<1>3. FreePrivkey(h, ret)
  BY DEF FreeAll
<1> HIDE DEF h
<1> QED
  BY <1>2, <1>3, FreePrivkeyInv

(* A step of a key's making that goes on.                                  *)
LEMMA MakingInv ==
    ASSUME RsaInv, NEW to, run' = Goto(to), to \in {"tmp", "p", "q", "derive"},
           priv'.block = TRUE, IsKey(priv'), pub' = NoPub,
           heap' = Heap(1, IF to = "tmp" THEN 0 ELSE 1, 0),
           to \in {"q", "derive"} => HasWords(priv'.p, Len1),
           to = "derive" => HasWords(priv'.q, Len1)
    PROVE  RsaInv'
<1>1. run'.at = to /\ run' = [x \in {"at", "op", "ret", "in", "drawn", "out"} |-> run'[x]]
  BY GotoFacts
<1>2. /\ Bit(priv'.block) = 1 /\ Bit(pub'.n # Null) = 0
      /\ Bit(run'.at \in WithTmp) = IF to = "tmp" THEN 0 ELSE 1
  BY <1>1, NoPubFacts DEF Bit, WithTmp
<1>3. heap' = Heap(Bit(priv'.block), Bit(run'.at \in WithTmp), Bit(pub'.n # Null))
  BY <1>2
<1> QED
  BY <1>1, <1>3 DEF RsaInv, Between, IsKey, HasWords

(* The steps of a key pair's making.                                       *)
LEMMA KeypairTmpInv == ASSUME RsaInv, KeypairTmp PROVE RsaInv'
<1>1. run.at = "tmp"
  BY DEF KeypairTmp, At
<1>2. heap = Heap(1, 0, 0) /\ priv.block = TRUE /\ pub = NoPub /\ IsKey(priv)
  BY <1>1, Making
<1>3. CASE FreePrivkey(heap, "MEM_ALLOCATE_FAIL")
  BY <1>2, <1>3, FreePrivkeyInv
<1>4. CASE heap' = Malloc("tmp") /\ run' = Goto("p") /\ UNCHANGED <<pub, priv, origin>>
  <2>1. heap' = Heap(1, 1, 0)
    BY <1>2, <1>4, HeapMoves DEF Malloc
  <2> QED
    BY <1>2, <1>4, <2>1, MakingInv
<1> QED
  BY <1>3, <1>4 DEF KeypairTmp

(* The first prime, found or not.                                          *)
LEMMA KeypairPInv == ASSUME RsaInv, KeypairP PROVE RsaInv'
<1>1. run.at = "p"
  BY DEF KeypairP, At
<1>2. heap = Heap(1, 1, 0) /\ priv.block = TRUE /\ pub = NoPub /\ IsKey(priv)
  BY <1>1, Making
<1>3. PICK o \in PrimeOutcomes :
        IF o.ret # "OK" THEN FreeAll(o.ret)
        ELSE priv' = [priv EXCEPT !.p = o.x] /\ run' = Goto("q") /\ UNCHANGED <<pub, heap, origin>>
  BY DEF KeypairP
<1>4. CASE o.ret # "OK"
  BY <1>1, <1>3, <1>4, FreeAllInv DEF WithTmp
<1>5. CASE o.ret = "OK"
  <2> DEFINE v == o.x
  <2>1. HasWords(v, Len1)
    BY PrimeWords
  <2>2. priv' = [priv EXCEPT !.p = v]
    BY <1>3, <1>5
  <2> HIDE DEF v
  <2>3. IsKey(priv') /\ priv'.p = v /\ priv'.block = TRUE
    BY <1>2, <2>2, KeyWrites DEF KeyFields
  <2> QED
    BY <1>2, <1>3, <1>5, <2>1, <2>3, MakingInv
<1> QED
  BY <1>4, <1>5

(* The second prime, found or not.                                         *)
LEMMA KeypairQInv == ASSUME RsaInv, KeypairQ PROVE RsaInv'
<1>1. run.at = "q"
  BY DEF KeypairQ, At
<1>2. /\ heap = Heap(1, 1, 0) /\ priv.block = TRUE /\ pub = NoPub /\ IsKey(priv)
      /\ HasWords(priv.p, Len1)
  BY <1>1, Making DEF RsaInv
<1>3. PICK o \in PrimeOutcomes :
        IF o.ret # "OK" THEN FreeAll(o.ret)
        ELSE /\ priv' = [priv EXCEPT !.q = o.x]
             /\ run' = IF IntEq(priv.p, o.x) = 1 THEN run ELSE Goto("derive")
             /\ UNCHANGED <<pub, heap, origin>>
  BY DEF KeypairQ
<1>4. CASE o.ret # "OK"
  BY <1>1, <1>3, <1>4, FreeAllInv DEF WithTmp
<1>5. CASE o.ret = "OK"
  <2> DEFINE v == o.x
  <2>1. HasWords(v, Len1)
    BY PrimeWords
  <2>2. priv' = [priv EXCEPT !.q = v]
    BY <1>3, <1>5
  <2> HIDE DEF v
  <2>3. IsKey(priv') /\ priv'.q = v /\ priv'.p = priv.p /\ priv'.block = TRUE
    BY <1>2, <2>2, KeyWrites DEF KeyFields
  <2>4. run' = Goto("q") \/ run' = Goto("derive")
    <3>1. run = Goto("q")
      BY <1>1 DEF RsaInv, Goto
    <3> QED
      BY <1>3, <1>5, <3>1
  <2>5. CASE run' = Goto("q")
    BY <1>2, <1>3, <1>5, <2>3, <2>5, MakingInv
  <2>6. CASE run' = Goto("derive")
    BY <1>2, <1>3, <1>5, <2>1, <2>3, <2>6, MakingInv
  <2> QED
    BY <2>4, <2>5, <2>6
<1> QED
  BY <1>4, <1>5

(* A step that leaves no key in the making.                                *)
LEMMA RestInv ==
    ASSUME run'.at \in {"idle", "rp", "rq"},
           run' = [x \in {"at", "op", "ret", "in", "drawn", "out"} |-> run'[x]],
           IsKey(priv'), priv'.block \in BOOLEAN,
           heap' = Heap(Bit(priv'.block), 0, Bit(pub'.n # Null)),
           priv'.block => priv'.n # Null,
           run'.at \in {"rp", "rq"} => run'.op = "private",
           run'.op = "keypair" /\ run'.ret # "OK" => priv' = NoKey /\ pub' = NoPub
    PROVE  RsaInv'
<1>1. Bit(run'.at \in WithTmp) = 0
  BY DEF Bit, WithTmp
<1> QED
  BY <1>1 DEF RsaInv, Between, IsKey, HasWords

(* Between calls.                                                          *)
LEMMA Resting ==
    ASSUME RsaInv, run.at \in {"idle", "rp", "rq"}
    PROVE  /\ heap = Heap(Bit(priv.block), 0, Bit(pub.n # Null))
           /\ IsKey(priv) /\ priv.block \in BOOLEAN /\ (priv.block => priv.n # Null)
<1>1. Bit(run.at \in WithTmp) = 0
  BY DEF Bit, WithTmp
<1> QED
  BY <1>1 DEF RsaInv

(* And with neither key there.                                             *)
LEMMA Empty ==
    ASSUME RsaInv, Between, priv = NoKey, pub = NoPub
    PROVE  heap = Heap(0, 0, 0) /\ Bit(pub.n # Null) = 0
<1>1. Bit(priv.block) = 0 /\ Bit(pub.n # Null) = 0
  BY NoKeyFacts, NoPubFacts DEF Bit
<1> QED
  BY <1>1, Resting DEF Between

(* sdc_rsa_keypair up to its first allocation.                             *)
LEMMA KeypairInv == ASSUME RsaInv, NEW e, Keypair(e) PROVE RsaInv'
<1>1. /\ heap = Heap(0, 0, 0) /\ Bit(pub.n # Null) = 0 /\ priv = NoKey /\ pub = NoPub
  BY Empty DEF Keypair
<1>2. ASSUME NEW ret, run' = Finished("keypair", ret), UNCHANGED <<pub, priv, heap, origin>>
      PROVE  RsaInv'
  <2>1. /\ run'.at = "idle" /\ run' = [x \in {"at", "op", "ret", "in", "drawn", "out"} |-> run'[x]]
    BY <1>2 DEF Finished
  <2>2. Bit(priv'.block) = 0 /\ Bit(pub'.n # Null) = 0
    BY <1>1, <1>2, NoKeyFacts DEF Bit
  <2> QED
    BY <1>1, <1>2, <2>1, <2>2, NoKeyFacts, RestInv
<1>3. ASSUME heap' = Malloc("block"), priv' = [NoKey EXCEPT !.block = TRUE],
             run' = [Finished("keypair", "OK") EXCEPT !.at = "tmp"], UNCHANGED pub
      PROVE  RsaInv'
  <2>1. heap' = Heap(1, 0, 0)
    BY <1>1, <1>3, HeapMoves DEF Malloc
  <2>2. IsKey(priv') /\ priv'.block = TRUE
    BY <1>3, NoKeyFacts, KeyWrites DEF KeyFields
  <2>3. /\ run'.at = "tmp" /\ run' = [x \in {"at", "op", "ret", "in", "drawn", "out"} |-> run'[x]]
    BY <1>3 DEF Finished
  <2>4. /\ Bit(priv'.block) = 1 /\ Bit(pub'.n # Null) = 0 /\ Bit(run'.at \in WithTmp) = 0
    BY <1>1, <1>3, <2>2, <2>3, NoPubFacts DEF Bit, WithTmp
  <2>5. heap' = Heap(Bit(priv'.block), Bit(run'.at \in WithTmp), Bit(pub'.n # Null))
    BY <2>1, <2>4
  <2> QED
    BY <1>1, <1>3, <2>2, <2>3, <2>5 DEF RsaInv, Between, IsKey, HasWords
<1> QED
  BY <1>2, <1>3 DEF Keypair

(* The last allocation, of the public key's modulus.                       *)
LEMMA KeypairDeriveInv == ASSUME RsaInv, KeypairDerive PROVE RsaInv'
<1>1. run.at = "derive"
  BY DEF KeypairDerive, At
<1>2. /\ heap = Heap(1, 1, 0) /\ priv.block = TRUE /\ pub = NoPub /\ IsKey(priv)
      /\ HasWords(priv.p, Len1) /\ HasWords(priv.q, Len1)
  BY <1>1, Making DEF RsaInv
<1>3. CASE FreeAll("MEM_ALLOCATE_FAIL")
  BY <1>1, <1>3, FreeAllInv DEF WithTmp
<1>4. CASE \E key \in {Derived(Ordered(priv), origin.e)} : Generated(key)
  <2> DEFINE o == Ordered(priv)
             key == Derived(o, origin.e)
  <2>1. IsKey(o) /\ o.block = TRUE /\ HasWords(o.p, Len1)
    BY <1>2, OrderedFacts
  <2>2. Generated(key)
    BY <1>4
  <2> HIDE DEF o
  <2>3. IsKey(key) /\ key.block = TRUE /\ key.n # Null
    BY <2>1, DerivedFacts
  <2> HIDE DEF key
  <2>4. /\ priv' = key /\ pub' = [n |-> key.n, e |-> origin.e]
        /\ heap' = [Malloc("n") EXCEPT !["tmp"] = @ - 1] /\ run' = Finished("keypair", "OK")
    BY <2>2 DEF Generated
  <2>5. heap' = Heap(1, 0, 1)
    <3>1. Malloc("n") = Heap(1, 1, 1)
      BY <1>2, HeapMoves DEF Malloc
    <3> QED
      BY <2>4, <3>1, HeapMoves
  <2>6. /\ run'.at = "idle" /\ run'.ret = "OK"
        /\ run' = [x \in {"at", "op", "ret", "in", "drawn", "out"} |-> run'[x]]
    BY <2>4 DEF Finished
  <2>7. Bit(priv'.block) = 1 /\ Bit(pub'.n # Null) = 1
    BY <2>3, <2>4 DEF Bit
  <2> QED
    BY <2>3, <2>4, <2>5, <2>6, <2>7, RestInv
<1> QED
  BY <1>3, <1>4 DEF KeypairDerive

(* The key sdc_rsa_privkey_init is given, with its own copy of the numbers *)
(* and without the values of the Chinese remainder theorem.                *)
LEMMA GivenFacts ==
    ASSUME NEW p, HasWords(p, Len1), NEW q, NEW e
    PROVE  LET theirs == Derived([NoKey EXCEPT !.p = p, !.q = q], e)
               given  == Ordered([theirs EXCEPT !.block = TRUE])
           IN  IsKey(given) /\ given.block = TRUE /\ given.n # Null
<1> DEFINE k == [NoKey EXCEPT !.p = p]
           f == [k EXCEPT !.q = q]
           t == Derived(f, e)
           g == [t EXCEPT !.block = TRUE]
<1>1. IsKey(k) /\ k.p = p
  BY NoKeyFacts, KeyWrites DEF KeyFields
<1>0. f = [NoKey EXCEPT !.p = p, !.q = q]
  OBVIOUS
<1> HIDE DEF k
<1>2. IsKey(f) /\ f.p = p
  BY <1>1, KeyWrites DEF KeyFields
<1> HIDE DEF f
<1>3. IsKey(t) /\ t.n # Null
  BY <1>2, DerivedFacts
<1> HIDE DEF t
<1>4. IsKey(g) /\ g.block = TRUE /\ g.n = t.n
  BY <1>3, KeyWrites DEF KeyFields
<1> HIDE DEF g
<1>5. IsKey(Ordered(g)) /\ Ordered(g).block = TRUE /\ Ordered(g).n # Null
  BY <1>3, <1>4, OrderedFacts
<1> QED
  BY <1>0, <1>5 DEF t, g

(* A key without its CRT part.                                             *)
LEMMA NoneFacts ==
    ASSUME NEW k, IsKey(k)
    PROVE  LET none == [k EXCEPT !.dp = Null, !.dq = Null, !.qinv = Null]
           IN  /\ IsKey(none) /\ none.block = k.block /\ none.n = k.n
               /\ IsKey([none EXCEPT !.block = FALSE])
               /\ [none EXCEPT !.block = FALSE].block = FALSE
<1> DEFINE null == Null
           none == [k EXCEPT !.dp = null, !.dq = null, !.qinv = null]
<1>0. none = [k EXCEPT !.dp = Null, !.dq = Null, !.qinv = Null]
  OBVIOUS
<1> HIDE DEF null
<1>1. DOMAIN k = KeyFields
  BY DEF IsKey
<1>2. none = [f \in KeyFields |-> IF f \in {"dp", "dq", "qinv"} THEN null ELSE k[f]]
  BY <1>1 DEF KeyFields
<1> HIDE DEF none
<1>3. IsKey(none) /\ none.block = k.block /\ none.n = k.n
  BY <1>2 DEF IsKey, KeyFields
<1>4. IsKey([none EXCEPT !.block = FALSE]) /\ [none EXCEPT !.block = FALSE].block = FALSE
  BY <1>3, KeyWrites DEF KeyFields
<1> QED
  BY <1>0, <1>3, <1>4

(* sdc_rsa_privkey_init: a failure after the numbers are taken over leaves *)
(* them, and no block.                                                     *)
LEMMA PrivkeyInitInv ==
    ASSUME RsaInv, NEW p \in ImportPrimes, NEW q, NEW e, NEW crt, PrivkeyInit(p, q, e, crt)
    PROVE  RsaInv'
<1>1. heap = Heap(0, 0, 0) /\ Bit(pub.n # Null) = 0
  BY Empty DEF PrivkeyInit
<1>2. HasWords(p, Len1)
  <2>1. PICK o \in PrimeOutcomes : p = o.x
    BY DEF ImportPrimes
  <2> QED
    BY <2>1, PrimeWords
<1> DEFINE theirs == Derived([NoKey EXCEPT !.p = p, !.q = q], e)
           given  == Ordered([theirs EXCEPT !.block = TRUE])
           none   == [given EXCEPT !.dp = Null, !.dq = Null, !.qinv = Null]
           bare   == [none EXCEPT !.block = FALSE]
           crtkey == WithCrt(none)
<1>3. IsKey(given) /\ given.block = TRUE /\ given.n # Null
  BY <1>2, GivenFacts, ZenonT(60)
<1>4. /\ pub' = pub
      /\ \/ \E ret : run' = Finished("privkey_init", ret) /\ heap' = heap /\ priv' \in {NoKey, bare}
         \/ /\ run' = Finished("privkey_init", "OK")
            /\ heap' = Malloc("block") /\ priv' \in {given, crtkey}
  BY DEF PrivkeyInit, PrivkeyFrom
<1> HIDE DEF theirs, given
<1>5. IsKey(none) /\ none.block = TRUE /\ none.n = given.n /\ IsKey(bare) /\ bare.block = FALSE
  BY <1>3, NoneFacts
<1> HIDE DEF none
<1>6. IsKey(crtkey) /\ crtkey.block = TRUE /\ crtkey.n # Null
  BY <1>3, <1>5, CrtFacts
<1> HIDE DEF bare, crtkey
<1>7. /\ run'.at = "idle" /\ run'.op = "privkey_init"
      /\ run' = [x \in {"at", "op", "ret", "in", "drawn", "out"} |-> run'[x]]
  BY <1>4 DEF Finished
<1>8. CASE heap' = heap /\ priv' \in {NoKey, bare}
  <2>1. IsKey(priv') /\ priv'.block = FALSE
    BY <1>5, <1>8, NoKeyFacts
  <2>2. heap' = Heap(0, 0, 0) /\ Bit(priv'.block) = 0 /\ Bit(pub'.n # Null) = 0
    BY <1>1, <1>4, <1>8, <2>1 DEF Bit
  <2> QED
    BY <1>7, <2>1, <2>2, RestInv
<1>9. CASE heap' = Malloc("block") /\ priv' \in {given, crtkey}
  <2>1. IsKey(priv') /\ priv'.block = TRUE /\ priv'.n # Null
    BY <1>3, <1>6, <1>9
  <2>2. heap' = Heap(1, 0, 0)
    BY <1>1, <1>9, HeapMoves DEF Malloc
  <2>3. Bit(priv'.block) = 1 /\ Bit(pub'.n # Null) = 0
    BY <1>1, <1>4, <2>1 DEF Bit
  <2> QED
    BY <1>7, <2>1, <2>2, <2>3, RestInv
<1> QED
  BY <1>4, <1>8, <1>9

(* sdc_rsa_pubkey_init: the modulus of the key, or zeros in its length.    *)
LEMMA PubkeyInitInv ==
    ASSUME RsaInv, NEW n \in {priv.n, SetWord(0, 2 * Len1)}, NEW e, PubkeyInit(n, e)
    PROVE  RsaInv'
<1>1. run.at = "idle" /\ pub = NoPub /\ priv.block = TRUE /\ priv.n # Null /\ IsKey(priv)
  BY Resting DEF PubkeyInit, Between
<1>2. Bit(priv.block) = 1 /\ Bit(pub.n # Null) = 0
  BY <1>1, NoPubFacts DEF Bit
<1>3. heap = Heap(1, 0, 0)
  BY <1>1, <1>2, Resting
<1>4. n # Null
  <2> DEFINE w == SetWord(0, 2 * Len1)
  <2>1. DOMAIN w = 1 .. 2 * Len1
    BY DEF SetWord
  <2>2. 1 \in DOMAIN w
    BY <2>1, RsaAssumption
  <2> QED
    BY <1>1, <2>2 DEF Null
<1>5. /\ priv' = priv /\ (\E ret : run' = Finished("pubkey_init", ret))
      /\ \/ pub' = pub /\ heap' = heap
         \/ pub' = [n |-> n, e |-> e] /\ heap' = Malloc("n")
  BY DEF PubkeyInit
<1>6. /\ run'.at = "idle" /\ run'.op = "pubkey_init"
      /\ run' = [x \in {"at", "op", "ret", "in", "drawn", "out"} |-> run'[x]]
  BY <1>5 DEF Finished
<1>7. CASE pub' = pub /\ heap' = heap
  BY <1>1, <1>2, <1>3, <1>5, <1>6, <1>7, RestInv
<1>8. CASE pub' = [n |-> n, e |-> e] /\ heap' = Malloc("n")
  <2>1. heap' = Heap(1, 0, 1)
    BY <1>3, <1>8, HeapMoves DEF Malloc
  <2>2. Bit(priv'.block) = 1 /\ Bit(pub'.n # Null) = 1
    BY <1>2, <1>4, <1>5, <1>8 DEF Bit
  <2> QED
    BY <1>1, <1>5, <1>6, <2>1, <2>2, RestInv
<1> QED
  BY <1>5, <1>7, <1>8

(* sdc_rsa_free_keypair frees what there is.                               *)
LEMMA FreeKeypairInv == ASSUME RsaInv, FreeKeypair PROVE RsaInv'
<1> DEFINE x == Bit(priv.block)
           z == Bit(pub.n # Null)
<1>1. x \in {0, 1} /\ z \in {0, 1}
  BY DEF Bit
<1>2. heap = Heap(x, 0, z)
  BY Resting DEF FreeKeypair, Between
<1>3. /\ heap' = [heap EXCEPT !["n"] = @ - z, !["block"] = @ - x]
      /\ pub' = NoPub /\ priv' = NoKey /\ run' = Finished("free", "OK")
  BY DEF FreeKeypair
<1> HIDE DEF x, z
<1>4. heap' = Heap(0, 0, 0)
  <2> DEFINE none == 0
  <2>1. x - x = none /\ z - z = none
    BY <1>1
  <2>2. heap = Heap(x, none, z)
    BY <1>2
  <2> HIDE DEF none
  <2>3. heap' = Heap(x - x, none, z - z)
    BY <1>3, <2>2 DEF Heap
  <2> QED
    BY <2>1, <2>3 DEF none
<1>5. /\ run'.at = "idle" /\ run'.op = "free"
      /\ run' = [f \in {"at", "op", "ret", "in", "drawn", "out"} |-> run'[f]]
  BY <1>3 DEF Finished
<1>6. Bit(priv'.block) = 0 /\ Bit(pub'.n # Null) = 0
  BY <1>3, NoKeyFacts, NoPubFacts DEF Bit
<1> QED
  BY <1>3, <1>4, <1>5, <1>6, NoKeyFacts, RestInv

(* The private operation allocates nothing and leaves the keys alone.      *)
LEMMA PrivateInv ==
    ASSUME RsaInv, run.at \in {"idle", "rp", "rq"}, UNCHANGED <<pub, priv, heap>>,
           run'.at \in {"idle", "rp", "rq"}, run'.op = "private",
           run' = [x \in {"at", "op", "ret", "in", "drawn", "out"} |-> run'[x]]
    PROVE  RsaInv'
BY Resting, RestInv DEF IsKey

(* Every step keeps the invariant.                                         *)
LEMMA RsaInvNext == ASSUME RsaInv, [RsaNext]_rsaVars PROVE RsaInv'
<1> DEFINE Fields == {"at", "op", "ret", "in", "drawn", "out"}
<1>1. CASE UNCHANGED rsaVars
  <2>1. UNCHANGED <<pub, priv, heap, run>>
    BY <1>1 DEF rsaVars
  <2> QED
    BY <2>1 DEF RsaInv, Between, IsKey, HasWords
<1>2. ASSUME NEW e \in Exps, Keypair(e) PROVE RsaInv'
  BY <1>2, KeypairInv
<1>3. CASE KeypairTmp
  BY <1>3, KeypairTmpInv
<1>4. CASE KeypairP
  BY <1>4, KeypairPInv
<1>5. CASE KeypairQ
  BY <1>5, KeypairQInv
<1>6. CASE KeypairDerive
  BY <1>6, KeypairDeriveInv
<1>7. ASSUME NEW p \in ImportPrimes, NEW q, NEW e, NEW crt, PrivkeyInit(p, q, e, crt)
      PROVE  RsaInv'
  BY <1>7, PrivkeyInitInv
<1>8. ASSUME NEW n \in {priv.n, SetWord(0, 2 * Len1)}, NEW e, PubkeyInit(n, e)
      PROVE  RsaInv'
  BY <1>8, PubkeyInitInv
<1>9. CASE FreeKeypair
  BY <1>9, FreeKeypairInv
<1>10. ASSUME NEW c, PrivateBegin(c) PROVE RsaInv'
  <2>1. /\ UNCHANGED <<pub, priv, heap>> /\ run.at = "idle"
        /\ \/ run' = Finished("private", "KEY_INVALID")
           \/ run' = [Finished("private", "OK") EXCEPT !.at = "rp", !.in = c]
    BY <1>10 DEF PrivateBegin, Between
  <2>2. CASE run' = Finished("private", "KEY_INVALID")
    <3>1. run'.at = "idle" /\ run'.op = "private" /\ run' = [x \in Fields |-> run'[x]]
      BY <2>2 DEF Finished
    <3> QED
      BY <2>1, <3>1, PrivateInv
  <2>3. CASE run' = [Finished("private", "OK") EXCEPT !.at = "rp", !.in = c]
    <3> DEFINE r == Finished("private", "OK")
    <3>1. DOMAIN r = Fields /\ r.op = "private"
      BY DEF Finished
    <3>2. run' = [r EXCEPT !.at = "rp", !.in = c]
      BY <2>3
    <3> HIDE DEF r
    <3>3. run'.at = "rp" /\ run'.op = "private" /\ run' = [x \in Fields |-> run'[x]]
      BY <3>1, <3>2
    <3> QED
      BY <2>1, <3>3, PrivateInv
  <2> QED
    BY <2>1, <2>2, <2>3
<1>11. CASE PrivateFails
  <2>1. /\ UNCHANGED <<pub, priv, heap>> /\ run.at \in {"rp", "rq"}
        /\ run' = Finished("private", "RANDOM_FAIL")
    BY <1>11 DEF PrivateFails
  <2>2. run'.at = "idle" /\ run'.op = "private" /\ run' = [x \in Fields |-> run'[x]]
    BY <2>1 DEF Finished
  <2> QED
    BY <2>1, <2>2, PrivateInv
<1>12. ASSUME NEW raw, DrawRp(raw) PROVE RsaInv'
  <2>1. /\ UNCHANGED <<pub, priv, heap>> /\ run.at = "rp"
        /\ \E drawn, out : run' = [run EXCEPT !.at = "rq", !.drawn = drawn, !.out = out]
    BY <1>12 DEF DrawRp, At
  <2>2. run'.at = "rq" /\ run'.op = "private" /\ run' = [x \in Fields |-> run'[x]]
    BY <2>1 DEF RsaInv
  <2> QED
    BY <2>1, <2>2, PrivateInv
<1>13. ASSUME NEW raw, DrawRq(raw) PROVE RsaInv'
  <2>1. /\ UNCHANGED <<pub, priv, heap>> /\ run.at = "rq"
        /\ \E drawn, out : run' = [run EXCEPT !.at = "idle", !.drawn = drawn, !.out = out]
    BY <1>13 DEF DrawRq, At
  <2>2. run'.at = "idle" /\ run'.op = "private" /\ run' = [x \in Fields |-> run'[x]]
    BY <2>1 DEF RsaInv
  <2> QED
    BY <2>1, <2>2, PrivateInv
<1> QED
  BY <1>1, <1>2, <1>3, <1>4, <1>5, <1>6, <1>7, <1>8, <1>9, <1>10, <1>11, <1>12, <1>13 DEF RsaNext

(* sdc_rsa_keypair, _privkey_init, _pubkey_init, _free_keypair: for keys   *)
(* of any length, and whichever allocation, search for a prime or check    *)
(* fails, in any sequence of calls, the blocks allocated are exactly those *)
(* the two keys name.                                                      *)
THEOREM RsaNothingLeft == RsaSpec => []NothingLeft
<1>1. RsaSpec => []RsaInv
  BY RsaInvInit, RsaInvNext, PTL DEF RsaSpec
<1> QED
  BY <1>1, RsaInvGives, PTL

-----------------------------------------------------------------------------
(* PKCS#1 v1.5: what a padded message is, byte for byte.                   *)

(* A byte of padding of a type.                                            *)
PadByte(type, b) == IF type = 1 THEN b = 255 ELSE b # 0

(* Encodes with the length of the modulus named.                           *)
EncodesIn(k, x, type, m) ==
    LET ps == SubSeq(x, 3, k - Len(m) - 1)
    IN  /\ k - Len(m) - 3 >= 8
        /\ x = <<0, type>> \o ps \o <<0>> \o m
        /\ \A i \in DOMAIN ps : IF type = 1 THEN ps[i] = 255 ELSE ps[i] # 0

(* Padding of a type in front of a zero at e.                              *)
Shaped(k, x, type, e) ==
    /\ e \in 11 .. k
    /\ x[1] = 0 /\ x[2] = type /\ x[e] = 0
    /\ \A i \in 3 .. e - 1 : PadByte(type, x[i])

(* A byte is a number; 0, 1, 2 and 255 are bytes.                          *)
LEMMA PkcsBytes ==
    /\ Base = 256 /\ Half = 128 /\ Byte = 0 .. 255
    /\ 0 \in Byte /\ 1 \in Byte /\ 2 \in Byte /\ 255 \in Byte
BY PkcsAssumption DEF Byte, Half

(* Two byte strings joined.                                                *)
LEMMA JoinAt ==
    ASSUME NEW s \in Seq(Byte), NEW t \in Seq(Byte), NEW u, u = s \o t
    PROVE  /\ u \in Seq(Byte) /\ Len(u) = Len(s) + Len(t)
           /\ \A i \in 1 .. Len(s) : u[i] = s[i]
           /\ \A i \in 1 .. Len(t) : u[Len(s) + i] = t[i]
OBVIOUS

(* The bytes of a header, padding, a zero and a message.                   *)
InFourParts(y, type, ps, m) ==
    /\ y \in Seq(Byte) /\ Len(y) = Len(ps) + 3 + Len(m)
    /\ y[1] = 0 /\ y[2] = type /\ y[Len(ps) + 3] = 0
    /\ \A i \in 1 .. Len(ps) : y[i + 2] = ps[i]
    /\ \A i \in 1 .. Len(m) : y[Len(ps) + 3 + i] = m[i]

(* Where the bytes of the four parts are.                                  *)
LEMMA FourParts ==
    ASSUME NEW type \in Byte, NEW ps \in Seq(Byte), NEW m \in Seq(Byte)
    PROVE  InFourParts(<<0, type>> \o ps \o <<0>> \o m, type, ps, m)
<1> DEFINE y == <<0, type>> \o ps \o <<0>> \o m
<1> DEFINE h == <<0, type>>
           u == h \o ps
           z == <<0>>
           v == u \o z
<1>1. /\ h \in Seq(Byte) /\ Len(h) = 2 /\ h[1] = 0 /\ h[2] = type
      /\ z \in Seq(Byte) /\ Len(z) = 1 /\ z[1] = 0
  BY PkcsBytes
<1>2. Len(ps) \in Nat /\ Len(m) \in Nat
  OBVIOUS
<1>3. u = h \o ps /\ v = u \o z /\ y = v \o m
  OBVIOUS
<1>s. ps \in Seq(Byte) /\ m \in Seq(Byte) /\ h \in Seq(Byte) /\ z \in Seq(Byte)
  BY <1>1
<1> HIDE DEF h, z, u, v, y
<1>4. /\ u \in Seq(Byte) /\ Len(u) = Len(h) + Len(ps)
      /\ \A i \in 1 .. Len(h) : u[i] = h[i]
      /\ \A i \in 1 .. Len(ps) : u[Len(h) + i] = ps[i]
  BY ONLY <1>3, <1>s, JoinAt
<1>5. /\ v \in Seq(Byte) /\ Len(v) = Len(u) + Len(z)
      /\ \A i \in 1 .. Len(u) : v[i] = u[i]
      /\ \A i \in 1 .. Len(z) : v[Len(u) + i] = z[i]
  <2>1. u \in Seq(Byte)
    BY <1>4
  <2> QED
    BY ONLY <1>3, <1>s, <2>1, JoinAt
<1>6. /\ y \in Seq(Byte) /\ Len(y) = Len(v) + Len(m)
      /\ \A i \in 1 .. Len(v) : y[i] = v[i]
      /\ \A i \in 1 .. Len(m) : y[Len(v) + i] = m[i]
  <2>1. v \in Seq(Byte)
    BY <1>5
  <2> QED
    BY ONLY <1>3, <1>s, <2>1, JoinAt
<1>7. Len(u) = 2 + Len(ps) /\ Len(v) = 3 + Len(ps)
  BY <1>1, <1>2, <1>4, <1>5
<1>8. y \in Seq(Byte) /\ Len(y) = Len(ps) + 3 + Len(m)
  BY <1>2, <1>6, <1>7
<1>10. y[1] = 0 /\ y[2] = type
  BY <1>1, <1>2, <1>4, <1>5, <1>6, <1>7
<1>11. y[Len(ps) + 3] = 0
  <2>1. Len(ps) + 3 = Len(v) /\ Len(ps) + 3 = Len(u) + 1 /\ Len(v) \in 1 .. Len(v)
    BY <1>2, <1>7
  <2>2. v[Len(u) + 1] = 0
    BY <1>1, <1>5
  <2> QED
    BY <1>6, <2>1, <2>2
<1>12. ASSUME NEW i \in 1 .. Len(ps) PROVE y[i + 2] = ps[i]
  <2>1. /\ i + 2 = Len(h) + i /\ i + 2 \in 1 .. Len(u) /\ i + 2 \in 1 .. Len(v)
    BY <1>1, <1>2, <1>7
  <2>2. y[i + 2] = v[i + 2]
    BY ONLY <1>6, <2>1
  <2>3. v[i + 2] = u[i + 2]
    BY ONLY <1>5, <2>1
  <2>4. u[Len(h) + i] = ps[i]
    BY ONLY <1>4
  <2> QED
    BY ONLY <2>1, <2>2, <2>3, <2>4
<1>13. ASSUME NEW i \in 1 .. Len(m) PROVE y[Len(ps) + 3 + i] = m[i]
  <2>1. Len(ps) + 3 + i = Len(v) + i
    BY <1>2, <1>7
  <2> QED
    BY <1>6, <2>1
<1>14. InFourParts(y, type, ps, m)
  BY ONLY <1>8, <1>10, <1>11, <1>12, <1>13 DEF InFourParts
<1> QED
  BY <1>14 DEF y

(* A part of a byte string.                                                *)
LEMMA PartOf ==
    ASSUME NEW x \in Seq(Byte), NEW u \in 1 .. Len(x) + 1, NEW v \in u - 1 .. Len(x)
    PROVE  /\ SubSeq(x, u, v) \in Seq(Byte) /\ Len(SubSeq(x, u, v)) = v - u + 1
           /\ \A i \in 1 .. v - u + 1 : SubSeq(x, u, v)[i] = x[u + i - 1]
<1>1. u \in Int /\ v \in Int /\ Len(x) \in Nat
  OBVIOUS
<1>2. \A i \in u .. v : x[i] \in Byte
  OBVIOUS
<1>3. /\ SubSeq(x, u, v) \in Seq(Byte)
      /\ Len(SubSeq(x, u, v)) = IF u <= v THEN v - u + 1 ELSE 0
      /\ \A i \in 1 .. v - u + 1 : SubSeq(x, u, v)[i] = x[u + i - 1]
  BY ONLY <1>1, <1>2, SubSeqProperties
<1> QED
  BY <1>1, <1>3

(* x encodes m when it is padding, a zero and m.                           *)
LEMMA EncodesAt ==
    ASSUME NEW k \in Nat, NEW x \in Seq(Byte), Len(x) = k, NEW m \in Seq(Byte),
           NEW type \in Byte
    PROVE  EncodesIn(k, x, type, m)
             <=> Shaped(k, x, type, k - Len(m)) /\ SubSeq(x, k - Len(m) + 1, k) = m
<1> DEFINE e == k - Len(m)
           ps == SubSeq(x, 3, e - 1)
           y == <<0, type>> \o ps \o <<0>> \o m
<1>1. Len(m) \in Nat /\ e \in Int
  OBVIOUS
<1>2. EncodesIn(k, x, type, m)
        <=> e - 3 >= 8 /\ x = y /\ \A i \in DOMAIN ps : PadByte(type, ps[i])
  BY DEF EncodesIn, PadByte
<1>3. ~ (e >= 11) => ~ EncodesIn(k, x, type, m) /\ ~ Shaped(k, x, type, e)
  <2> HIDE DEF e
  <2> QED
    BY <1>1, <1>2 DEF Shaped
<1>4. SUFFICES ASSUME e >= 11
               PROVE  EncodesIn(k, x, type, m)
                        <=> Shaped(k, x, type, e) /\ SubSeq(x, e + 1, k) = m
  BY <1>3
<1>5. e \in 11 .. k /\ e - 1 \in 2 .. k /\ e + 1 \in 1 .. k + 1 /\ k \in e .. k
  BY <1>1, <1>4
<1>h. e = k - Len(m)
  OBVIOUS
<1> HIDE DEF e
<1>6. /\ ps \in Seq(Byte) /\ Len(ps) = e - 3
      /\ \A i \in 1 .. e - 3 : ps[i] = x[i + 2]
  <2>1. 3 \in 1 .. Len(x) + 1 /\ e - 1 \in 3 - 1 .. Len(x) /\ (e - 1) - 3 + 1 = e - 3
    BY <1>5
  <2>2. /\ SubSeq(x, 3, e - 1) \in Seq(Byte) /\ Len(SubSeq(x, 3, e - 1)) = (e - 1) - 3 + 1
        /\ \A i \in 1 .. (e - 1) - 3 + 1 : SubSeq(x, 3, e - 1)[i] = x[3 + i - 1]
    BY ONLY <2>1, PartOf, x \in Seq(Byte)
  <2>3. \A i \in 1 .. e - 3 : 3 + i - 1 = i + 2
    BY <1>5
  <2> QED
    BY <2>1, <2>2, <2>3
<1> DEFINE t == SubSeq(x, e + 1, k)
<1>7. /\ t \in Seq(Byte) /\ Len(t) = k - e
      /\ \A i \in 1 .. k - e : t[i] = x[e + i]
  <2>1. e + 1 \in 1 .. Len(x) + 1 /\ k \in (e + 1) - 1 .. Len(x) /\ k - (e + 1) + 1 = k - e
    BY <1>5
  <2>2. /\ SubSeq(x, e + 1, k) \in Seq(Byte) /\ Len(SubSeq(x, e + 1, k)) = k - (e + 1) + 1
        /\ \A i \in 1 .. k - (e + 1) + 1 : SubSeq(x, e + 1, k)[i] = x[(e + 1) + i - 1]
    BY ONLY <2>1, PartOf, x \in Seq(Byte)
  <2>3. \A i \in 1 .. k - e : (e + 1) + i - 1 = e + i
    BY <1>5
  <2> QED
    BY <2>1, <2>2, <2>3
<1> HIDE DEF ps, t
<1>8. /\ y \in Seq(Byte) /\ Len(y) = Len(ps) + 3 + Len(m)
      /\ y[1] = 0 /\ y[2] = type /\ y[Len(ps) + 3] = 0
      /\ \A i \in 1 .. Len(ps) : y[i + 2] = ps[i]
      /\ \A i \in 1 .. Len(m) : y[Len(ps) + 3 + i] = m[i]
  <2>1. ps \in Seq(Byte)
    BY <1>6
  <2>2. InFourParts(y, type, ps, m)
    BY ONLY <2>1, FourParts, type \in Byte, m \in Seq(Byte)
  <2> HIDE DEF y
  <2> QED
    BY ONLY <2>2 DEF InFourParts
<1> HIDE DEF y
<1>9. /\ Len(y) = k /\ y[e] = 0
      /\ \A i \in 1 .. e - 3 : y[i + 2] = x[i + 2]
      /\ \A i \in 1 .. k - e : y[e + i] = m[i]
  <2>1. Len(ps) + 3 = e /\ Len(ps) + 3 + Len(m) = k /\ Len(m) = k - e
    BY <1>1, <1>5, <1>6, <1>h
  <2> QED
    BY <1>6, <1>8, <2>1
<1>10. (\A i \in DOMAIN ps : PadByte(type, ps[i]))
         <=> \A i \in 3 .. e - 1 : PadByte(type, x[i])
  <2>1. DOMAIN ps = 1 .. e - 3
    BY <1>6
  <2>2. ASSUME \A i \in 1 .. e - 3 : PadByte(type, x[i + 2]), NEW i \in 3 .. e - 1
        PROVE  PadByte(type, x[i])
    <3>1. i - 2 \in 1 .. e - 3 /\ (i - 2) + 2 = i
      BY <1>5
    <3> QED
      BY <2>2, <3>1
  <2>3. ASSUME \A i \in 3 .. e - 1 : PadByte(type, x[i]), NEW i \in 1 .. e - 3
        PROVE  PadByte(type, x[i + 2])
    <3>1. i + 2 \in 3 .. e - 1
      BY <1>5
    <3> QED
      BY <2>3, <3>1
  <2> QED
    BY <1>6, <2>1, <2>2, <2>3
<1>11. x = y <=> x[1] = 0 /\ x[2] = type /\ x[e] = 0 /\ t = m
  <2>1. ASSUME x = y PROVE x[1] = 0 /\ x[2] = type /\ x[e] = 0 /\ t = m
    <3>1. Len(t) = Len(m) /\ Len(m) = k - e
      BY <1>1, <1>5, <1>7, <1>h
    <3>2. \A i \in 1 .. Len(m) : t[i] = m[i]
      BY <1>7, <1>9, <2>1, <3>1
    <3>3. t = m
      BY <1>7, <3>1, <3>2, SeqEqual
    <3> QED
      BY <1>8, <1>9, <2>1, <3>3
  <2>2. ASSUME x[1] = 0, x[2] = type, x[e] = 0, t = m PROVE x = y
    <3>1. ASSUME NEW i \in 1 .. k PROVE x[i] = y[i]
      <4>1. CASE i = 1 \/ i = 2 \/ i = e
        BY <1>8, <1>9, <2>2, <4>1
      <4>2. CASE i \in 3 .. e - 1
        <5>1. i - 2 \in 1 .. e - 3 /\ (i - 2) + 2 = i
          BY <1>5, <4>2
        <5> QED
          BY <1>9, <5>1
      <4>3. CASE i \in e + 1 .. k
        <5>1. i - e \in 1 .. k - e /\ e + (i - e) = i
          BY <1>5, <4>3
        <5> QED
          BY <1>7, <1>9, <2>2, <5>1
      <4>4. i = 1 \/ i = 2 \/ i = e \/ i \in 3 .. e - 1 \/ i \in e + 1 .. k
        BY <1>5
      <4> QED
        BY <4>1, <4>2, <4>3, <4>4
    <3> QED
      BY <1>8, <1>9, <3>1, SeqEqual
  <2> QED
    BY <2>1, <2>2
<1>12. e - 3 >= 8
  BY <1>5
<1>13. Shaped(k, x, type, e)
         <=> x[1] = 0 /\ x[2] = type /\ x[e] = 0 /\ \A i \in 3 .. e - 1 : PadByte(type, x[i])
  BY <1>5 DEF Shaped
<1> QED
  BY <1>2, <1>10, <1>11, <1>12, <1>13 DEF t

(* A string is padded in one way only.                                     *)
LEMMA ShapedOnce ==
    ASSUME NEW k \in Nat, NEW x, NEW t \in {1, 2}, NEW u \in {1, 2}, NEW e, NEW f,
           Shaped(k, x, t, e), Shaped(k, x, u, f)
    PROVE  t = u /\ e = f
<1>1. t = u
  BY DEF Shaped
<1>2. e \in 11 .. k /\ f \in 11 .. k
  BY DEF Shaped
<1>3. ~ (e < f)
  <2>1. SUFFICES ASSUME e < f PROVE FALSE
    OBVIOUS
  <2>2. e \in 3 .. f - 1
    BY <1>2, <2>1
  <2> QED
    BY <2>2 DEF Shaped, PadByte
<1>4. ~ (f < e)
  <2>1. SUFFICES ASSUME f < e PROVE FALSE
    OBVIOUS
  <2>2. f \in 3 .. e - 1
    BY <1>2, <2>1
  <2> QED
    BY <2>2 DEF Shaped, PadByte
<1> QED
  BY <1>1, <1>2, <1>3, <1>4

(* The check of the padding's length in 16 bits, while bit 15 stays clear. *)
LEMMA PsLenFacts ==
    ASSUME NEW p \in Nat, p <= 32775
    PROVE  PsLenOk(p) <=> p >= 8
<1>1. p % 65536 = p
  BY SMT
<1>2. CASE p >= 8
  <2>1. (p - 8) + 65536 = 1 * 65536 + (p - 8) /\ p - 8 \in Nat /\ p - 8 < 65536
    BY <1>2
  <2>2. (1 * 65536 + (p - 8)) % 65536 = p - 8
    BY <2>1, SMT
  <2> QED
    BY <1>1, <1>2, <2>1, <2>2 DEF PsLenOk
<1>3. CASE p < 8
  <2>1. ((p - 8) + 65536) % 65536 = (p - 8) + 65536
    BY <1>3, SMT
  <2> QED
    BY <1>1, <1>3, <2>1 DEF PsLenOk
<1> QED
  BY <1>2, <1>3

(* What the calls work on.                                                 *)
IsEm(x) == x \in Seq(Byte) /\ Len(x) = K

(* The length of a modulus.                                                *)
LEMMA KFacts ==
    ASSUME modulus \in Moduli
    PROVE  K \in Nat /\ K <= 32768 /\ modulus \in Seq(Byte)
BY PkcsAssumption DEF K

(* UnpadCipher gives what is behind the padding, if there is room for it.  *)
LEMMA UnpadCipherGives ==
    ASSUME modulus \in Moduli, NEW x, IsEm(x), NEW room \in Nat
    PROVE  /\ \A e \in Nat : Shaped(K, x, 2, e) /\ K - e <= room
                               => UnpadCipher(x, room) = <<SubSeq(x, e + 1, K)>>
           /\ UnpadCipher(x, room) # <<>>
                => \E e \in Nat : /\ Shaped(K, x, 2, e) /\ K - e <= room
                                  /\ UnpadCipher(x, room) = <<SubSeq(x, e + 1, K)>>
<1> DEFINE zeros == {i \in 3 .. K : x[i] = 0}
           end   == IF zeros = {} THEN 3 ELSE CHOOSE i \in zeros : \A j \in zeros : i <= j
           m     == SubSeq(x, end + 1, K)
           ok    == /\ K >= 11
                    /\ x[1] = 0 /\ x[2] = 2 /\ zeros # {}
                    /\ \A i \in 3 .. end - 1 : x[i] # 0
                    /\ PsLenOk(end - 3)
                    /\ Len(m) <= room
<1>1. K \in Nat /\ K <= 32768 /\ x \in Seq(Byte) /\ Len(x) = K
  BY KFacts DEF IsEm
<1>2. UnpadCipher(x, room) = IF ok THEN <<m>> ELSE <<>>
  BY DEF UnpadCipher
<1>3. zeros \subseteq 3 .. K /\ \A i \in 3 .. K : i \in zeros <=> x[i] = 0
  OBVIOUS
<1>4. zeros # {} => end \in zeros /\ \A j \in zeros : end <= j
  <2>1. SUFFICES ASSUME zeros # {} PROVE end \in zeros /\ \A j \in zeros : end <= j
    OBVIOUS
  <2>2. zeros \subseteq Nat
    BY <1>1
  <2> HIDE DEF zeros
  <2>3. 1 \in Nat \ {0}
    OBVIOUS
  <2>4. \E i \in zeros : \A j \in zeros : i <= j
    BY ONLY <2>1, <2>2, <2>3, Data!LeastNat
  <2> QED
    BY <2>1, <2>4
<1> HIDE DEF zeros, end
<1>5. ASSUME zeros # {}
      PROVE  /\ end \in 3 .. K /\ m \in Seq(Byte) /\ Len(m) = K - end
             /\ PsLenOk(end - 3) <=> end >= 11
             /\ \A i \in 3 .. end - 1 : x[i] # 0
  <2>1. end \in 3 .. K
    BY <1>3, <1>4, <1>5
  <2>2. end + 1 \in 1 .. Len(x) + 1 /\ K \in (end + 1) - 1 .. Len(x) /\ K - (end + 1) + 1 = K - end
    BY <1>1, <2>1
  <2>3. m \in Seq(Byte) /\ Len(m) = K - (end + 1) + 1
    BY ONLY <1>1, <2>2, PartOf
  <2>4. end - 3 \in Nat /\ end - 3 <= 32775
    <3>1. K \in Nat /\ K <= 32768
      BY ONLY <1>1
    <3> QED
      BY ONLY <2>1, <3>1
  <2>5. PsLenOk(end - 3) <=> end >= 11
    <3> DEFINE p == end - 3
    <3>1. p \in Nat /\ p <= 32775 /\ (p >= 8 <=> end >= 11)
      BY <2>1, <2>4
    <3> HIDE DEF p
    <3>2. PsLenOk(p) <=> p >= 8
      BY ONLY <3>1, PsLenFacts
    <3> QED
      BY <3>1, <3>2 DEF p
  <2>6. ASSUME NEW i \in 3 .. end - 1 PROVE x[i] # 0
    <3>1. i \in 3 .. K /\ ~ (end <= i)
      BY <1>1, <2>1
    <3> QED
      BY <1>3, <1>4, <1>5, <3>1
  <2> QED
    BY <2>1, <2>2, <2>3, <2>5, <2>6
<1>6. ASSUME NEW e \in Nat, Shaped(K, x, 2, e), K - e <= room
      PROVE  UnpadCipher(x, room) = <<SubSeq(x, e + 1, K)>>
  <2>1. /\ e \in 11 .. K /\ x[1] = 0 /\ x[2] = 2 /\ x[e] = 0
        /\ \A i \in 3 .. e - 1 : x[i] # 0
    BY <1>6 DEF Shaped, PadByte
  <2>2. e \in zeros
    BY <1>3, <2>1
  <2>3. end <= e /\ end \in 3 .. K /\ x[end] = 0
    BY <1>3, <1>4, <2>2
  <2>4. end = e
    <3>1. ~ (end < e)
      <4>1. SUFFICES ASSUME end < e PROVE FALSE
        OBVIOUS
      <4>2. end \in 3 .. e - 1
        BY <2>1, <2>3, <4>1
      <4> QED
        BY <2>1, <2>3, <4>2
    <3> QED
      BY <2>1, <2>3, <3>1
  <2>5. zeros # {}
    BY <2>2
  <2>6. Len(m) <= room /\ PsLenOk(end - 3)
    BY <1>5, <1>6, <2>1, <2>4, <2>5
  <2> HIDE DEF m
  <2>7. ok
    BY <1>1, <1>5, <2>1, <2>5, <2>6
  <2> QED
    BY <1>2, <2>4, <2>7 DEF m
<1>7. ASSUME UnpadCipher(x, room) # <<>>
      PROVE  \E e \in Nat : /\ Shaped(K, x, 2, e) /\ K - e <= room
                            /\ UnpadCipher(x, room) = <<SubSeq(x, e + 1, K)>>
  <2>1. ok
    BY <1>2, <1>7
  <2>2. zeros # {}
    BY <2>1
  <2>3. /\ end \in 3 .. K /\ Len(m) = K - end /\ end >= 11
        /\ \A i \in 3 .. end - 1 : x[i] # 0
    BY <1>5, <2>1, <2>2
  <2>4. x[1] = 0 /\ x[2] = 2 /\ x[end] = 0
    BY <1>3, <1>4, <2>1, <2>2
  <2>5. Shaped(K, x, 2, end)
    BY <1>1, <2>3, <2>4 DEF Shaped, PadByte
  <2>6. K - end <= room
    BY <2>1, <2>3
  <2>7. UnpadCipher(x, room) = <<SubSeq(x, end + 1, K)>>
    BY <1>2, <2>1
  <2>8. end \in Nat
    BY <1>1, <2>3
  <2> HIDE DEF m
  <2> QED
    BY ONLY <2>5, <2>6, <2>7, <2>8
<1> QED
  BY <1>6, <1>7

(* UnpadSignature looks for the padding of di and for di.                  *)
LEMMA UnpadSignatureSays ==
    ASSUME modulus \in Moduli, NEW x, IsEm(x), NEW di \in Seq(Byte)
    PROVE  UnpadSignature(x, di) <=> EncodesIn(K, x, 1, di)
<1> DEFINE e == K - Len(di)
<1>1. K \in Nat /\ K <= 32768 /\ x \in Seq(Byte) /\ Len(x) = K /\ Len(di) \in Nat /\ e \in Int
  BY KFacts DEF IsEm
<1>2. UnpadSignature(x, di)
        <=> /\ e >= 11
            /\ x[1] = 0 /\ x[2] = 1 /\ x[e] = 0
            /\ \A i \in 3 .. e - 1 : x[i] = 255
            /\ PsLenOk(e - 3)
            /\ SubSeq(x, e + 1, K) = di
  <2>1. K >= 11 + Len(di) <=> e >= 11
    BY <1>1
  <2>2. Base - 1 = 255
    BY PkcsBytes
  <2> QED
    BY <2>1, <2>2 DEF UnpadSignature
<1>3. EncodesIn(K, x, 1, di) <=> Shaped(K, x, 1, e) /\ SubSeq(x, e + 1, K) = di
  <2>1. 1 \in Byte /\ K \in Nat /\ x \in Seq(Byte) /\ Len(x) = K
    BY <1>1, PkcsBytes
  <2> QED
    BY ONLY <2>1, EncodesAt, di \in Seq(Byte)
<1>4. e >= 11 => PsLenOk(e - 3)
  <2>1. SUFFICES ASSUME e >= 11 PROVE PsLenOk(e - 3)
    OBVIOUS
  <2> DEFINE p == e - 3
  <2>2. e <= K
    BY <1>1
  <2>3. p \in Nat /\ p <= 32775 /\ p >= 8
    <3> HIDE DEF e
    <3> QED
      BY <1>1, <2>1, <2>2
  <2> HIDE DEF p
  <2>4. PsLenOk(p)
    BY ONLY <2>3, PsLenFacts
  <2> QED
    BY <2>4 DEF p
<1>5. Shaped(K, x, 1, e)
        <=> /\ e >= 11 /\ x[1] = 0 /\ x[2] = 1 /\ x[e] = 0
            /\ \A i \in 3 .. e - 1 : x[i] = 255
  <2>1. e \in 11 .. K <=> e >= 11
    BY <1>1
  <2> HIDE DEF e
  <2> QED
    BY <2>1 DEF Shaped, PadByte
<1> HIDE DEF e
<1> QED
  BY <1>2, <1>3, <1>4, <1>5

-----------------------------------------------------------------------------
(* The DER writer as the DigestInfo needs it.                              *)

(* A writer with room r that wrote o; WriterAt without an error.           *)
WriterOf(r, o, e) == [room |-> r, out |-> o, error |-> e]

WriterAt(r, o) == WriterOf(r, o, FALSE)

(* Output is all that a write changes.                                     *)
LEMMA OutSet ==
    ASSUME NEW r, NEW o, NEW e, NEW z
    PROVE  [WriterOf(r, o, e) EXCEPT !.out = z] = WriterOf(r, z, e)
BY DEF WriterOf

(* What a sound writer holds.                                              *)
LEMMA SoundIs ==
    ASSUME NEW r, NEW o
    PROVE  WriterAt(r, o).room = r /\ WriterAt(r, o).out = o /\ WriterAt(r, o).error = FALSE
BY DEF WriterAt, WriterOf

(* Bytes there is room for go in front.                                    *)
LEMMA BytesWritten ==
    ASSUME NEW r \in Nat, NEW o \in Seq(Byte), NEW b \in Seq(Byte), Len(b) + Len(o) <= r
    PROVE  WriteBytesRev(WriterAt(r, o), b) = [w |-> WriterAt(r, b \o o), ret |-> "OK"]
<1>1. Len(o) \in Nat /\ Len(b) \in Nat /\ ~ (Len(b) > r - Len(o))
  OBVIOUS
<1>2. WriterPos(WriterAt(r, o)) = r - Len(o) /\ WriterAt(r, o).error = FALSE
  <2>1. WriterAt(r, o).room = r /\ WriterAt(r, o).out = o /\ WriterAt(r, o).error = FALSE
    BY ONLY SoundIs, ZenonT(60)
  <2> QED
    BY ONLY <2>1 DEF WriterPos
<1> DEFINE z == b \o o
           u == WriterAt(r, o)
<1>4. u.out = o
  BY SoundIs
<1> HIDE DEF z
<1>5. [u EXCEPT !.out = z] = WriterAt(r, z)
  BY ONLY OutSet, ZenonT(150) DEF WriterAt
<1> HIDE DEF u
<1>6. [u EXCEPT !.out = b \o @] = WriterAt(r, z)
  <2>1. b \o u.out = z
    BY <1>4 DEF z
  <2>2. [u EXCEPT !.out = b \o @] = [u EXCEPT !.out = z]
    BY ONLY <2>1
  <2> QED
    BY ONLY <1>5, <2>2
<1> QED
  BY <1>1, <1>2, <1>6 DEF WriteBytesRev, u, z

(* The writes of one call: done[n] is what the first n leave.              *)
PartsRun(w, parts, n, g) ==
    g = [i \in 0 .. n |-> IF i = 0 THEN [w |-> w, ret |-> "OK"]
                          ELSE IF g[i - 1].ret = "OK" THEN WriteBytesRev(g[i - 1].w, parts[i])
                          ELSE g[i - 1]]

(* There is a run of two writes, and one of three.                         *)
LEMMA ShortRuns ==
    ASSUME NEW w, NEW parts, NEW n \in {2, 3}
    PROVE  \E g : PartsRun(w, parts, n, g)
<1> DEFINE S(p, x) == IF x.ret = "OK" THEN WriteBytesRev(x.w, p) ELSE x
           a == [w |-> w, ret |-> "OK"]
           b == S(parts[1], a)
           c == S(parts[2], b)
           d == S(parts[3], c)
           g == [i \in 0 .. n |-> IF i = 0 THEN a ELSE IF i = 1 THEN b ELSE IF i = 2 THEN c ELSE d]
<1>1. \A i \in 0 .. n : i = 0 \/ i = 1 \/ i = 2 \/ i = 3
  OBVIOUS
<1>2. 0 \in 0 .. n /\ 1 \in 0 .. n /\ 2 \in 0 .. n /\ n \in Nat
  OBVIOUS
<1>3. b = S(parts[1], a) /\ c = S(parts[2], b) /\ d = S(parts[3], c)
  OBVIOUS
<1> HIDE DEF a, b, c, d
<1>4. g[0] = a /\ g[1] = b /\ g[2] = c
  BY <1>2
<1>5. 3 \in 0 .. n => g[3] = d
  OBVIOUS
<1>6. g = [i \in 0 .. n |-> g[i]]
  OBVIOUS
<1> HIDE DEF g
<1>7. ASSUME NEW i \in 0 .. n
      PROVE  g[i] = IF i = 0 THEN a ELSE S(parts[i], g[i - 1])
  <2>1. CASE i = 0
    BY <1>4, <2>1
  <2>2. CASE i = 1
    BY <1>3, <1>4, <2>2
  <2>3. CASE i = 2
    BY <1>3, <1>4, <2>3
  <2>4. CASE i = 3
    BY <1>3, <1>4, <1>5, <2>4
  <2> QED
    BY <1>1, <2>1, <2>2, <2>3, <2>4
<1>8. g = [i \in 0 .. n |-> IF i = 0 THEN a ELSE S(parts[i], g[i - 1])]
  BY <1>6, <1>7
<1>9. PartsRun(w, parts, n, g)
  BY <1>8 DEF PartsRun, a
<1> QED
  BY <1>9

(* Two writes, and three.                                                  *)
LEMMA FewParts ==
    ASSUME NEW w, NEW parts, NEW n \in {2, 3}, Len(parts) = n
    PROVE  \E g : PartsRun(w, parts, n, g) /\ WriteParts(w, parts) = g[n]
<1> DEFINE f == CHOOSE g : g = [i \in 0 .. n |->
                    IF i = 0 THEN [w |-> w, ret |-> "OK"]
                    ELSE IF g[i - 1].ret = "OK" THEN WriteBytesRev(g[i - 1].w, parts[i])
                    ELSE g[i - 1]]
<1>1. PartsRun(w, parts, n, f)
  <2>1. PICK g : PartsRun(w, parts, n, g)
    BY ONLY ShortRuns, n \in {2, 3}
  <2>2. g = [i \in 0 .. n |->
                 IF i = 0 THEN [w |-> w, ret |-> "OK"]
                 ELSE IF g[i - 1].ret = "OK" THEN WriteBytesRev(g[i - 1].w, parts[i])
                 ELSE g[i - 1]]
    BY ONLY <2>1 DEF PartsRun
  <2>3. f = [i \in 0 .. n |->
                 IF i = 0 THEN [w |-> w, ret |-> "OK"]
                 ELSE IF f[i - 1].ret = "OK" THEN WriteBytesRev(f[i - 1].w, parts[i])
                 ELSE f[i - 1]]
    BY ONLY <2>2, Zenon
  <2> QED
    BY ONLY <2>3, ZenonT(60) DEF PartsRun
<1>2. WriteParts(w, parts) = f[n]
  BY Zenon DEF WriteParts
<1> QED
  BY <1>1, <1>2

(* One step of a run.                                                      *)
LEMMA PartsStep ==
    ASSUME NEW w, NEW parts, NEW n \in {2, 3}, NEW g, PartsRun(w, parts, n, g)
    PROVE  /\ g[0] = [w |-> w, ret |-> "OK"]
           /\ \A i \in 1 .. n : g[i - 1].ret = "OK" => g[i] = WriteBytesRev(g[i - 1].w, parts[i])
<1>1. \A i \in 0 .. n : g[i] = IF i = 0 THEN [w |-> w, ret |-> "OK"]
                               ELSE IF g[i - 1].ret = "OK" THEN WriteBytesRev(g[i - 1].w, parts[i])
                               ELSE g[i - 1]
  BY DEF PartsRun
<1>2. 0 \in 0 .. n /\ \A i \in 1 .. n : i \in 0 .. n /\ i # 0
  OBVIOUS
<1> QED
  BY <1>1, <1>2

(* Three strings there is room for in front of o.                          *)
Roomy(r, o, a, b, c) ==
    /\ r \in Nat /\ o \in Seq(Byte)
    /\ a \in Seq(Byte) /\ b \in Seq(Byte) /\ c \in Seq(Byte)
    /\ Len(c) + Len(b) + Len(a) + Len(o) <= r

(* The first of them nearest to o.                                         *)
InFront(r, o, a, b, c) ==
    /\ WriteParts(WriterAt(r, o), <<a, b>>).w = WriterAt(r, b \o (a \o o))
    /\ WriteParts(WriterAt(r, o), <<a, b, c>>).w = WriterAt(r, c \o (b \o (a \o o)))

(* Two or three parts there is room for all go in front, the last first.   *)
LEMMA PartsWritten ==
    ASSUME NEW r, NEW o, NEW a, NEW b, NEW c, Roomy(r, o, a, b, c)
    PROVE  InFront(r, o, a, b, c)
<1>0. /\ r \in Nat /\ o \in Seq(Byte)
      /\ a \in Seq(Byte) /\ b \in Seq(Byte) /\ c \in Seq(Byte)
      /\ Len(c) + Len(b) + Len(a) + Len(o) <= r
  BY DEF Roomy
<1> DEFINE o1 == a \o o
           o2 == b \o o1
           o3 == c \o o2
           Went(out) == [w |-> WriterAt(r, out), ret |-> "OK"]
<1>1. Len(a) \in Nat /\ Len(b) \in Nat /\ Len(c) \in Nat /\ Len(o) \in Nat
  BY <1>0
<1>2. o1 \in Seq(Byte) /\ Len(o1) = Len(a) + Len(o)
  BY <1>0
<1>3. o2 \in Seq(Byte) /\ Len(o2) = Len(b) + Len(a) + Len(o)
  <2>1. o2 = b \o o1 /\ o1 \in Seq(Byte)
    BY <1>2
  <2> HIDE DEF o1, o2
  <2>2. o2 \in Seq(Byte) /\ Len(o2) = Len(b) + Len(o1)
    BY ONLY <2>1, <1>0, JoinAt
  <2> QED
    BY <1>1, <1>2, <2>2
<1>4. WriteBytesRev(WriterAt(r, o), a) = Went(o1)
  BY <1>0, <1>1, BytesWritten
<1> HIDE DEF o1
<1>5. WriteBytesRev(WriterAt(r, o1), b) = Went(o2)
  BY <1>0, <1>1, <1>2, BytesWritten
<1> HIDE DEF o2
<1>6. WriteBytesRev(WriterAt(r, o2), c) = Went(o3)
  BY <1>0, <1>1, <1>3, BytesWritten
<1> HIDE DEF o3
<1>7. WriteParts(WriterAt(r, o), <<a, b>>) = Went(o2)
  <2> DEFINE parts == <<a, b>>
  <2>1. Len(parts) = 2 /\ parts[1] = a /\ parts[2] = b /\ 2 \in {2, 3}
    OBVIOUS
  <2> HIDE DEF parts
  <2>2. PICK g : PartsRun(WriterAt(r, o), parts, 2, g) /\ WriteParts(WriterAt(r, o), parts) = g[2]
    BY ONLY <2>1, FewParts
  <2>3. /\ g[0] = Went(o)
        /\ \A i \in 1 .. 2 : g[i - 1].ret = "OK" => g[i] = WriteBytesRev(g[i - 1].w, parts[i])
    BY ONLY <2>1, <2>2, PartsStep
  <2>4. g[1] = Went(o1)
    <3>1. g[0].ret = "OK" /\ g[0].w = WriterAt(r, o)
      BY <2>3
    <3>2. g[1] = WriteBytesRev(g[1 - 1].w, parts[1])
      BY <2>3, <3>1
    <3> QED
      BY <1>4, <2>1, <3>1, <3>2
  <2>5. g[2] = Went(o2)
    <3>1. g[1].ret = "OK" /\ g[1].w = WriterAt(r, o1)
      BY <2>4
    <3>2. g[2] = WriteBytesRev(g[2 - 1].w, parts[2])
      BY <2>3, <3>1
    <3> QED
      BY <1>5, <2>1, <3>1, <3>2
  <2> QED
    BY <2>2, <2>5 DEF parts
<1>8. WriteParts(WriterAt(r, o), <<a, b, c>>) = Went(o3)
  <2> DEFINE parts == <<a, b, c>>
  <2>1. Len(parts) = 3 /\ parts[1] = a /\ parts[2] = b /\ parts[3] = c /\ 3 \in {2, 3}
    OBVIOUS
  <2> HIDE DEF parts
  <2>2. PICK g : PartsRun(WriterAt(r, o), parts, 3, g) /\ WriteParts(WriterAt(r, o), parts) = g[3]
    BY ONLY <2>1, FewParts
  <2>3. /\ g[0] = Went(o)
        /\ \A i \in 1 .. 3 : g[i - 1].ret = "OK" => g[i] = WriteBytesRev(g[i - 1].w, parts[i])
    BY ONLY <2>1, <2>2, PartsStep
  <2>4. g[1] = Went(o1)
    <3>1. g[0].ret = "OK" /\ g[0].w = WriterAt(r, o)
      BY <2>3
    <3>2. g[1] = WriteBytesRev(g[1 - 1].w, parts[1])
      BY <2>3, <3>1
    <3> QED
      BY <1>4, <2>1, <3>1, <3>2
  <2>5. g[2] = Went(o2)
    <3>1. g[1].ret = "OK" /\ g[1].w = WriterAt(r, o1)
      BY <2>4
    <3>2. g[2] = WriteBytesRev(g[2 - 1].w, parts[2])
      BY <2>3, <3>1
    <3> QED
      BY <1>5, <2>1, <3>1, <3>2
  <2>6. g[3] = Went(o3)
    <3>1. g[2].ret = "OK" /\ g[2].w = WriterAt(r, o2)
      BY <2>5
    <3>2. g[3] = WriteBytesRev(g[3 - 1].w, parts[3])
      BY <2>3, <3>1
    <3> QED
      BY <1>6, <2>1, <3>1, <3>2
  <2> QED
    BY <2>2, <2>6 DEF parts
<1> QED
  BY <1>7, <1>8 DEF InFront, o1, o2, o3

(* A byte in front of a string.                                            *)
Lead(b, s) == <<b>> \o s

(* The DigestInfo as it comes out: the hash first, the algorithm behind.   *)
NullBytes == Lead(Tag.null, Lead(0, <<>>))

AlgBytes(id) ==
    Lead(Tag.sequence, Lead(Len(id) + 4, Lead(Tag.oid, Lead(Len(id), id \o NullBytes))))

InfoBytes(id, d) ==
    Lead(Tag.sequence, Lead(Len(id) + Len(d) + 8, Lead(Tag.octets,
        Lead(Len(d), d \o AlgBytes(id)))))

(* A byte and a string make a string.                                      *)
LEMMA ConsFacts ==
    \A b \in Byte, s \in Seq(Byte) : Lead(b, s) \in Seq(Byte) /\ Len(Lead(b, s)) = Len(s) + 1
BY DEF Lead

(* A string of length k.                                                   *)
StrOf(s, k) == s \in Seq(Byte) /\ Len(s) = k

(* A byte more makes a string longer by one.                               *)
LEMMA ConsStr ==
    ASSUME NEW b \in Byte, NEW s, NEW k \in Nat, StrOf(s, k)
    PROVE  StrOf(Lead(b, s), k + 1)
<1>1. s \in Seq(Byte) /\ Len(s) = k
  BY DEF StrOf
<1>2. Lead(b, s) \in Seq(Byte) /\ Len(Lead(b, s)) = Len(s) + 1
  BY <1>1, ConsFacts
<1> QED
  BY <1>1, <1>2 DEF StrOf

(* Small numbers are bytes.                                                *)
LEMMA SmallBytes ==
    ASSUME NEW k \in Nat, k < 256
    PROVE  k \in Byte
BY PkcsBytes

(* Two strings joined.                                                     *)
LEMMA JoinStr ==
    ASSUME NEW s, NEW t, NEW k \in Nat, NEW l \in Nat, StrOf(s, k), StrOf(t, l)
    PROVE  StrOf(s \o t, k + l)
BY DEF StrOf

(* Two strings joined make a string.                                       *)
LEMMA JoinFacts ==
    \A s, t \in Seq(Byte) : s \o t \in Seq(Byte) /\ Len(s \o t) = Len(s) + Len(t)
OBVIOUS

(* Two strings that begin with equally many bytes split alike.             *)
LEMMA BytesCancel ==
    ASSUME NEW a \in Seq(Byte), NEW b \in Seq(Byte), NEW c \in Seq(Byte), NEW d \in Seq(Byte),
           a \o b = c \o d, Len(a) = Len(c)
    PROVE  a = c /\ b = d
BY Data!ConcatCancel, 1 \in Nat \ {0}, Zenon

(* A first byte and what follows are known from the whole.                 *)
LEMMA ConsCancel ==
    \A b, c \in Byte, s, t \in Seq(Byte) : Lead(b, s) = Lead(c, t) => b = c /\ s = t
<1>1. SUFFICES ASSUME NEW b \in Byte, NEW c \in Byte, NEW s \in Seq(Byte), NEW t \in Seq(Byte),
                      Lead(b, s) = Lead(c, t)
               PROVE  b = c /\ s = t
  OBVIOUS
<1> DEFINE u == <<b>>
           v == <<c>>
<1>2. u \in Seq(Byte) /\ v \in Seq(Byte) /\ Len(u) = Len(v) /\ u[1] = b /\ v[1] = c
  OBVIOUS
<1>3. u \o s = v \o t
  BY <1>1 DEF Lead
<1> HIDE DEF u, v
<1>4. u = v /\ s = t
  BY <1>2, <1>3, BytesCancel, Zenon
<1> QED
  BY <1>2, <1>4

(* The tags used are bytes.                                                *)
LEMMA TagBytes ==
    Tag.null \in Byte /\ Tag.oid \in Byte /\ Tag.octets \in Byte /\ Tag.sequence \in Byte
BY PkcsAssumption, DerWriterAssumption

(* A short length is one byte.                                             *)
LEMMA ShortHeader ==
    ASSUME NEW tag, NEW n \in Nat, n < Half
    PROVE  Header(tag, n) = <<<<n>>, <<tag>>>> /\ n \in Byte
BY PkcsBytes DEF Header, LengthOctets

(* What an element without content, and one with, adds.                    *)
LEMMA ElementWritten ==
    ASSUME NEW r \in Nat, NEW o \in Seq(Byte), NEW s \in Seq(Byte), Len(s) < Half,
           Len(s) + Len(o) + 2 <= r
    PROVE  /\ Written(WriterAt(r, o), "null", <<>>)
                = IF Len(o) + 2 <= r THEN WriterAt(r, Lead(Tag.null, Lead(0, o))) ELSE WriterAt(r, o)
           /\ Written(WriterAt(r, o), "oid", s)
                = WriterAt(r, Lead(Tag.oid, Lead(Len(s), s \o o)))
           /\ Written(WriterAt(r, o), "octets", s)
                = WriterAt(r, Lead(Tag.octets, Lead(Len(s), s \o o)))
<1>1. Len(s) \in Nat /\ Len(o) \in Nat /\ 0 \in Nat /\ 0 < Half
  BY PkcsBytes
<1>2. /\ Header(Tag.null, 0) = <<<<0>>, <<Tag.null>>>>
      /\ Header(Tag.oid, Len(s)) = <<<<Len(s)>>, <<Tag.oid>>>>
      /\ Header(Tag.octets, Len(s)) = <<<<Len(s)>>, <<Tag.octets>>>>
      /\ Len(s) \in Byte
  BY <1>1, ShortHeader
<1>3. /\ PartsOf([kind |-> "null", bytes |-> <<>>]) = <<<<0>>, <<Tag.null>>>>
      /\ PartsOf([kind |-> "oid", bytes |-> s]) = <<s>> \o <<<<Len(s)>>, <<Tag.oid>>>>
      /\ PartsOf([kind |-> "octets", bytes |-> s]) = <<s>> \o <<<<Len(s)>>, <<Tag.octets>>>>
  BY <1>2 DEF PartsOf
<1>4. /\ <<s>> \o <<<<Len(s)>>, <<Tag.oid>>>> = <<s, <<Len(s)>>, <<Tag.oid>>>>
      /\ <<s>> \o <<<<Len(s)>>, <<Tag.octets>>>> = <<s, <<Len(s)>>, <<Tag.octets>>>>
  <2> DEFINE A(t) == <<s, <<Len(s)>>, <<t>>>>
  <2>1. ASSUME NEW t \in Byte PROVE <<s>> \o <<<<Len(s)>>, <<t>>>> = A(t)
    <3> DEFINE u == <<s>>
               v == <<<<Len(s)>>, <<t>>>>
               x == A(t)
               S == Seq(Byte)
    <3>1. <<Len(s)>> \in S /\ <<t>> \in S /\ s \in S
      BY <1>2
    <3> HIDE DEF S
    <3>2. u \in Seq(S) /\ v \in Seq(S) /\ x \in Seq(S)
      BY <3>1
    <3>3. /\ Len(u) = 1 /\ Len(v) = 2 /\ Len(x) = 3
          /\ u[1] = x[1] /\ v[1] = x[2] /\ v[2] = x[3]
      OBVIOUS
    <3> HIDE DEF u, v, x
    <3>4. /\ Len(x) = Len(u) + Len(v)
          /\ \A i \in 1 .. Len(u) : x[i] = u[i]
          /\ \A i \in 1 .. Len(v) : x[Len(u) + i] = v[i]
      BY <3>3
    <3>5. u \o v = x
      BY ONLY <3>2, <3>4, Data!ConcatIs, SMTT(150)
    <3> QED
      BY <3>5 DEF u, v, x
  <2> QED
    BY <2>1, TagBytes
<1>5. /\ <<0>> \in Seq(Byte) /\ Len(<<0>>) = 1 /\ <<Len(s)>> \in Seq(Byte) /\ Len(<<Len(s)>>) = 1
      /\ <<Tag.null>> \in Seq(Byte) /\ Len(<<Tag.null>>) = 1
      /\ <<Tag.oid>> \in Seq(Byte) /\ Len(<<Tag.oid>>) = 1
      /\ <<Tag.octets>> \in Seq(Byte) /\ Len(<<Tag.octets>>) = 1
      /\ <<>> \in Seq(Byte) /\ Len(<<>>) = 0
  <2>1. \A b \in Byte : <<b>> \in Seq(Byte) /\ Len(<<b>>) = 1
    OBVIOUS
  <2>2. 0 \in Byte /\ Len(s) \in Byte
    BY <1>2, PkcsBytes, ZenonT(60)
  <2>3. <<>> \in Seq(Byte) /\ Len(<<>>) = 0
    OBVIOUS
  <2> QED
    BY ONLY <2>1, <2>2, <2>3, TagBytes
<1> DEFINE z == <<0>>
           l == <<Len(s)>>
           tn == <<Tag.null>>
           to == <<Tag.oid>>
           tc == <<Tag.octets>>
           e == <<>>
<1>s. /\ z \in Seq(Byte) /\ Len(z) = 1 /\ l \in Seq(Byte) /\ Len(l) = 1
      /\ tn \in Seq(Byte) /\ Len(tn) = 1 /\ to \in Seq(Byte) /\ Len(to) = 1
      /\ tc \in Seq(Byte) /\ Len(tc) = 1 /\ e \in Seq(Byte) /\ Len(e) = 0
  BY <1>5
<1> HIDE DEF z, l, tn, to, tc, e
<1>6. WriteParts(WriterAt(r, o), <<z, tn>>).w = WriterAt(r, tn \o (z \o o))
  <2>1. Roomy(r, o, z, tn, e)
    BY <1>1, <1>s DEF Roomy
  <2>2. InFront(r, o, z, tn, e)
    BY ONLY <2>1, PartsWritten
  <2> QED
    BY ONLY <2>2 DEF InFront
<1>7. WriteParts(WriterAt(r, o), <<s, l, to>>).w = WriterAt(r, to \o (l \o (s \o o)))
  <2>1. Roomy(r, o, s, l, to)
    BY <1>1, <1>s DEF Roomy
  <2>2. InFront(r, o, s, l, to)
    BY ONLY <2>1, PartsWritten
  <2> QED
    BY ONLY <2>2 DEF InFront
<1>8. WriteParts(WriterAt(r, o), <<s, l, tc>>).w = WriterAt(r, tc \o (l \o (s \o o)))
  <2>1. Roomy(r, o, s, l, tc)
    BY <1>1, <1>s DEF Roomy
  <2>2. InFront(r, o, s, l, tc)
    BY ONLY <2>1, PartsWritten
  <2> QED
    BY ONLY <2>2 DEF InFront
<1>9. Len(o) + 2 <= r
  BY <1>1
<1> QED
  BY <1>3, <1>4, <1>6, <1>7, <1>8, <1>9 DEF Written, Lead, z, l, tn, to, tc

(* What ends a sequence.                                                   *)
LEMMA SequenceEnded ==
    ASSUME NEW r \in Nat, NEW o \in Seq(Byte), Len(o) < Half, Len(o) + 2 <= r
    PROVE  SequenceEnd(WriterAt(r, o)) = WriterAt(r, Lead(Tag.sequence, Lead(Len(o), o)))
<1>1. Len(o) \in Nat
  OBVIOUS
<1>2. Header(Tag.sequence, Len(o)) = <<<<Len(o)>>, <<Tag.sequence>>>> /\ Len(o) \in Byte
  BY <1>1, ShortHeader
<1> DEFINE l == <<Len(o)>>
           t == <<Tag.sequence>>
           e == <<>>
<1>3. /\ l \in Seq(Byte) /\ Len(l) = 1 /\ t \in Seq(Byte) /\ Len(t) = 1
      /\ e \in Seq(Byte) /\ Len(e) = 0
  BY <1>2, TagBytes
<1>4. WriterAt(r, o).out = o
  BY SoundIs
<1>5. SequenceEnd(WriterAt(r, o)) = WriteParts(WriterAt(r, o), <<l, t>>).w
  BY <1>2, <1>4 DEF SequenceEnd
<1> HIDE DEF l, t, e
<1>6. Roomy(r, o, l, t, e)
  BY <1>1, <1>3 DEF Roomy
<1>7. WriteParts(WriterAt(r, o), <<l, t>>).w = WriterAt(r, t \o (l \o o))
  <2>1. InFront(r, o, l, t, e)
    BY ONLY <1>6, PartsWritten
  <2> QED
    BY ONLY <2>1 DEF InFront
<1> QED
  BY <1>5, <1>7 DEF Lead, l, t

(* The DigestInfo fits, and these are its bytes.                           *)
LEMMA DigestInfoIs ==
    ASSUME NEW h \in Hashes, NEW d \in Seq(Byte), Len(d) = h.hash_len
    PROVE  /\ BuildDigestinfo(h, d) = InfoBytes(h.oid, d)
           /\ InfoBytes(h.oid, d) \in Seq(Byte) /\ InfoBytes(h.oid, d) # <<>>
<1> DEFINE id == h.oid
           n == Len(id)
           m == Len(d)
           r == n + m + 10
           e == <<>>
           o1 == Lead(Tag.null, Lead(0, e))
           o2 == Lead(Tag.oid, Lead(n, id \o o1))
           o3 == Lead(Tag.sequence, Lead(n + 4, o2))
           o4 == Lead(Tag.octets, Lead(m, d \o o3))
           o5 == Lead(Tag.sequence, Lead(n + m + 8, o4))
<1>1. /\ id \in Seq(Byte) /\ n \in Nat /\ m \in Nat /\ m = h.hash_len
      /\ n + m + 8 < 128 /\ Half = 128 /\ r \in Nat /\ e \in Seq(Byte) /\ Len(e) = 0
      /\ Len(id) = n /\ Len(d) = m /\ r = n + m + 10
  BY PkcsAssumption, PkcsBytes
<1>h. InfoBytes(h.oid, d) = o5
  BY DEF InfoBytes, AlgBytes, NullBytes
<1>i. DigestinfoDerLen(h) = r
  BY <1>1 DEF DigestinfoDerLen
<1>j. WriterAt(r, e) = [room |-> r, out |-> <<>>, error |-> FALSE]
  BY DEF WriterAt, WriterOf
<1> HIDE DEF id, n, m, r, e, o1, o2, o3, o4, o5
<1>2. /\ n \in Byte /\ m \in Byte /\ n + 4 \in Byte /\ n + m + 8 \in Byte /\ 0 \in Byte
  <2>1. /\ n < 256 /\ m < 256 /\ n + 4 \in Nat /\ n + 4 < 256
        /\ n + m + 8 \in Nat /\ n + m + 8 < 256 /\ 0 \in Nat /\ 0 < 256
    BY <1>1, SMTT(60)
  <2> DEFINE u == n + 4
             v == n + m + 8
  <2>2. u \in Nat /\ u < 256 /\ v \in Nat /\ v < 256
    BY <2>1
  <2> HIDE DEF u, v
  <2>3. n \in Byte /\ m \in Byte /\ u \in Byte /\ v \in Byte /\ 0 \in Byte
    BY <1>1, <2>1, <2>2, SmallBytes, SMTT(60)
  <2> QED
    BY <2>3 DEF u, v
<1>t. Tag.oid \in Byte /\ Tag.octets \in Byte /\ Tag.sequence \in Byte /\ Tag.null \in Byte
  BY TagBytes
<1>s. StrOf(e, 0) /\ StrOf(id, n) /\ StrOf(d, m)
  BY <1>1 DEF StrOf
<1>3. StrOf(o1, 2)
  <2>1. StrOf(Lead(0, e), 1)
    <3>1. StrOf(Lead(0, e), 0 + 1)
      BY <1>2, <1>s, 0 \in Nat, ConsStr, Zenon
    <3> QED
      BY <3>1
  <2>2. StrOf(Lead(Tag.null, Lead(0, e)), 1 + 1)
    BY <1>t, <2>1, 1 \in Nat, ConsStr, Zenon
  <2> QED
    BY <2>2 DEF o1
<1>5. StrOf(o2, n + 4)
  <2>1. StrOf(id \o o1, n + 2)
    BY <1>1, <1>3, <1>s, 2 \in Nat, JoinStr, Zenon
  <2>2. n + 2 \in Nat /\ n + 3 \in Nat /\ (n + 2) + 1 = n + 3 /\ (n + 3) + 1 = n + 4
    BY <1>1
  <2>3. StrOf(Lead(n, id \o o1), (n + 2) + 1)
    BY <1>2, <2>1, <2>2, ConsStr, Zenon
  <2>4. StrOf(Lead(Tag.oid, Lead(n, id \o o1)), (n + 3) + 1)
    BY <1>t, <2>2, <2>3, ConsStr, Zenon
  <2> QED
    BY <2>2, <2>4, Zenon DEF o2
<1>6. StrOf(o3, n + 6)
  <2>1. n + 4 \in Nat /\ n + 5 \in Nat /\ (n + 4) + 1 = n + 5 /\ (n + 5) + 1 = n + 6
    BY <1>1
  <2>2. StrOf(Lead(n + 4, o2), (n + 4) + 1)
    BY <1>2, <1>5, <2>1, ConsStr, Zenon
  <2>3. StrOf(Lead(Tag.sequence, Lead(n + 4, o2)), (n + 5) + 1)
    BY <1>t, <2>1, <2>2, ConsStr, Zenon
  <2> QED
    BY <2>1, <2>3, Zenon DEF o3
<1>7. StrOf(o4, n + m + 8)
  <2>1. /\ n + 6 \in Nat /\ m + (n + 6) \in Nat /\ m + (n + 6) + 1 \in Nat
        /\ (m + (n + 6) + 1) + 1 = n + m + 8
    <3>1. n \in Nat /\ m \in Nat
      BY <1>1
    <3> QED
      BY ONLY <3>1
  <2>2. StrOf(d \o o3, m + (n + 6))
    BY <1>1, <1>6, <1>s, <2>1, JoinStr, Zenon
  <2>3. StrOf(Lead(m, d \o o3), m + (n + 6) + 1)
    BY <1>2, <2>1, <2>2, ConsStr, Zenon
  <2>4. StrOf(Lead(Tag.octets, Lead(m, d \o o3)), (m + (n + 6) + 1) + 1)
    BY <1>t, <2>1, <2>3, ConsStr, Zenon
  <2> QED
    BY <2>1, <2>4, Zenon DEF o4
<1>8. StrOf(o5, n + m + 10)
  <2>1. n + m + 8 \in Nat /\ n + m + 8 + 1 \in Nat /\ (n + m + 8 + 1) + 1 = n + m + 10
    <3>1. n \in Nat /\ m \in Nat
      BY <1>1
    <3> QED
      BY ONLY <3>1, SMTT(60)
  <2>2. StrOf(Lead(n + m + 8, o4), n + m + 8 + 1)
    BY <1>2, <1>7, <2>1, ConsStr, Zenon
  <2>3. StrOf(Lead(Tag.sequence, Lead(n + m + 8, o4)), (n + m + 8 + 1) + 1)
    BY <1>t, <2>1, <2>2, ConsStr, Zenon
  <2> QED
    BY <2>1, <2>3, Zenon DEF o5
<1>9. /\ o1 \in Seq(Byte) /\ Len(o1) = 2
      /\ o2 \in Seq(Byte) /\ Len(o2) = n + 4
      /\ o3 \in Seq(Byte) /\ Len(o3) = n + 6
      /\ o4 \in Seq(Byte) /\ Len(o4) = n + m + 8
      /\ o5 \in Seq(Byte) /\ Len(o5) = n + m + 10
  BY ONLY <1>3, <1>5, <1>6, <1>7, <1>8 DEF StrOf
<1>l. /\ n \in Nat /\ m \in Nat /\ n + m + 8 < 128 /\ Half = 128 /\ r = n + m + 10
      /\ Len(id) = n /\ Len(d) = m /\ Len(e) = 0
  BY ONLY <1>1
<1>10. Written(WriterAt(r, e), "null", <<>>) = WriterAt(r, o1)
  <2>1. Len(e) < Half /\ Len(e) + Len(e) + 2 <= r /\ Len(e) + 2 <= r
    BY ONLY <1>l
  <2>2. Written(WriterAt(r, e), "null", <<>>)
          = IF Len(e) + 2 <= r THEN WriterAt(r, Lead(Tag.null, Lead(0, e))) ELSE WriterAt(r, e)
    BY ONLY <1>1, <2>1, ElementWritten
  <2> QED
    BY <2>1, <2>2 DEF o1
<1>11. Written(WriterAt(r, o1), "oid", id) = WriterAt(r, o2)
  <2>1. Len(id) < Half /\ Len(id) + Len(o1) + 2 <= r
    BY ONLY <1>l, <1>9
  <2>2. Written(WriterAt(r, o1), "oid", id) = WriterAt(r, Lead(Tag.oid, Lead(Len(id), id \o o1)))
    BY ONLY <1>1, <1>9, <2>1, ElementWritten, ZenonT(150)
  <2> QED
    BY <1>1, <2>2, Zenon DEF o2
<1>12. SequenceEnd(WriterAt(r, o2)) = WriterAt(r, o3)
  <2>1. Len(o2) < Half /\ Len(o2) + 2 <= r
    BY ONLY <1>l, <1>9
  <2>2. SequenceEnd(WriterAt(r, o2)) = WriterAt(r, Lead(Tag.sequence, Lead(Len(o2), o2)))
    BY ONLY <1>1, <1>9, <2>1, SequenceEnded
  <2> QED
    BY <1>9, <2>2, Zenon DEF o3
<1>13. Written(WriterAt(r, o3), "octets", d) = WriterAt(r, o4)
  <2>1. Len(d) < Half /\ Len(d) + Len(o3) + 2 <= r
    BY ONLY <1>l, <1>9
  <2>2. Written(WriterAt(r, o3), "octets", d) = WriterAt(r, Lead(Tag.octets, Lead(Len(d), d \o o3)))
    BY ONLY <1>1, <1>9, <2>1, d \in Seq(Byte), ElementWritten, ZenonT(150)
  <2> QED
    BY <1>1, <2>2, Zenon DEF o4
<1>14. SequenceEnd(WriterAt(r, o4)) = WriterAt(r, o5)
  <2>1. Len(o4) < Half /\ Len(o4) + 2 <= r
    BY ONLY <1>l, <1>9
  <2>2. SequenceEnd(WriterAt(r, o4)) = WriterAt(r, Lead(Tag.sequence, Lead(Len(o4), o4)))
    BY ONLY <1>1, <1>9, <2>1, SequenceEnded
  <2> QED
    BY <1>9, <2>2, Zenon DEF o5
<1>15. BuildDigestinfo(h, d) = o5
  <2>1. Algorithm(h) = WriterAt(r, o3)
    BY <1>10, <1>11, <1>12, <1>i, <1>j, Zenon DEF Algorithm, id
  <2>2. OutOf(WriterAt(r, o5)) = o5
    <3>1. WriterAt(r, o5).out = o5 /\ WriterAt(r, o5).error = FALSE
      BY ONLY SoundIs, ZenonT(60)
    <3> QED
      BY ONLY <3>1 DEF OutOf
  <2> QED
    BY ONLY <1>13, <1>14, <2>1, <2>2 DEF BuildDigestinfo
<1>16. o5 # <<>>
  <2>1. n + m + 10 # 0
    BY <1>1
  <2> QED
    BY <1>9, <2>1
<1> QED
  BY <1>h, <1>9, <1>15, <1>16

(* Two hashes or two hash functions make two DigestInfos.                  *)
LEMMA DigestInfoOnce ==
    ASSUME NEW h \in Hashes, NEW d \in Seq(Byte), Len(d) = h.hash_len,
           NEW g \in Hashes, NEW c \in Seq(Byte), Len(c) = g.hash_len,
           BuildDigestinfo(h, d) = BuildDigestinfo(g, c)
    PROVE  h.oid = g.oid /\ d = c
<1> DEFINE i == h.oid
           j == g.oid
           Z == NullBytes
<1>1. /\ i \in Seq(Byte) /\ Len(i) \in Nat /\ Len(i) + Len(d) + 8 < 128
      /\ j \in Seq(Byte) /\ Len(j) \in Nat /\ Len(j) + Len(c) + 8 < 128
      /\ Len(d) \in Nat /\ Len(c) \in Nat
  BY PkcsAssumption, PkcsBytes
<1>2. InfoBytes(i, d) = InfoBytes(j, c)
  BY DigestInfoIs
<1> HIDE DEF i, j
<1>3. /\ Len(i) \in Byte /\ Len(j) \in Byte /\ Len(d) \in Byte /\ Len(c) \in Byte
      /\ Len(i) + 4 \in Byte /\ Len(j) + 4 \in Byte /\ 0 \in Byte
      /\ Len(i) + Len(d) + 8 \in Byte /\ Len(j) + Len(c) + 8 \in Byte
  <2> DEFINE u == Len(i) + 4
             v == Len(j) + 4
             w == Len(i) + Len(d) + 8
             x == Len(j) + Len(c) + 8
  <2>1. /\ Len(i) < 256 /\ Len(j) < 256 /\ Len(d) < 256 /\ Len(c) < 256
        /\ u \in Nat /\ u < 256 /\ v \in Nat /\ v < 256
        /\ w \in Nat /\ w < 256 /\ x \in Nat /\ x < 256 /\ 0 \in Nat /\ 0 < 256
    <3>1. /\ Len(i) \in Nat /\ Len(d) \in Nat /\ Len(i) + Len(d) + 8 < 128
          /\ Len(j) \in Nat /\ Len(c) \in Nat /\ Len(j) + Len(c) + 8 < 128
      BY <1>1
    <3> QED
      BY ONLY <3>1, SMTT(60)
  <2> HIDE DEF u, v, w, x
  <2>2. /\ Len(i) \in Byte /\ Len(j) \in Byte /\ Len(d) \in Byte /\ Len(c) \in Byte
        /\ u \in Byte /\ v \in Byte /\ w \in Byte /\ x \in Byte /\ 0 \in Byte
    BY ONLY <1>1, <2>1, SmallBytes
  <2> QED
    BY <2>2 DEF u, v, w, x
<1>4. Z \in Seq(Byte)
  <2>1. <<>> \in Seq(Byte)
    OBVIOUS
  <2>2. Lead(0, <<>>) \in Seq(Byte)
    BY ONLY <1>3, <2>1, ConsFacts
  <2> QED
    BY ONLY <2>2, ConsFacts, TagBytes DEF NullBytes
<1> DEFINE i0 == i \o Z
           i1 == Lead(Len(i), i0)
           i2 == Lead(Tag.oid, i1)
           i3 == Lead(Len(i) + 4, i2)
           i4 == Lead(Tag.sequence, i3)
           i5 == d \o i4
           i6 == Lead(Len(d), i5)
           i7 == Lead(Tag.octets, i6)
           i8 == Lead(Len(i) + Len(d) + 8, i7)
           j0 == j \o Z
           j1 == Lead(Len(j), j0)
           j2 == Lead(Tag.oid, j1)
           j3 == Lead(Len(j) + 4, j2)
           j4 == Lead(Tag.sequence, j3)
           j5 == c \o j4
           j6 == Lead(Len(c), j5)
           j7 == Lead(Tag.octets, j6)
           j8 == Lead(Len(j) + Len(c) + 8, j7)
<1>h. Lead(Tag.sequence, i8) = Lead(Tag.sequence, j8)
  BY ONLY <1>2 DEF InfoBytes, AlgBytes
<1>t. Tag.oid \in Byte /\ Tag.octets \in Byte /\ Tag.sequence \in Byte
  BY TagBytes
<1> HIDE DEF Z
<1>a0. i0 \in Seq(Byte) /\ j0 \in Seq(Byte)
  BY ONLY <1>1, <1>4, JoinFacts
<1> HIDE DEF i0, j0
<1>a1. i1 \in Seq(Byte) /\ j1 \in Seq(Byte)
  BY ONLY <1>a0, <1>3, <1>t, ConsFacts
<1> HIDE DEF i1, j1
<1>a2. i2 \in Seq(Byte) /\ j2 \in Seq(Byte)
  BY ONLY <1>a1, <1>3, <1>t, ConsFacts
<1> HIDE DEF i2, j2
<1>a3. i3 \in Seq(Byte) /\ j3 \in Seq(Byte)
  BY ONLY <1>a2, <1>3, <1>t, ConsFacts
<1> HIDE DEF i3, j3
<1>a4. i4 \in Seq(Byte) /\ j4 \in Seq(Byte)
  BY ONLY <1>a3, <1>3, <1>t, ConsFacts
<1> HIDE DEF i4, j4
<1>a5. i5 \in Seq(Byte) /\ j5 \in Seq(Byte)
  BY ONLY <1>a4, JoinFacts, d \in Seq(Byte), c \in Seq(Byte)
<1> HIDE DEF i5, j5
<1>a6. i6 \in Seq(Byte) /\ j6 \in Seq(Byte)
  BY ONLY <1>a5, <1>3, <1>t, ConsFacts
<1> HIDE DEF i6, j6
<1>a7. i7 \in Seq(Byte) /\ j7 \in Seq(Byte)
  BY ONLY <1>a6, <1>3, <1>t, ConsFacts
<1> HIDE DEF i7, j7
<1>a8. i8 \in Seq(Byte) /\ j8 \in Seq(Byte)
  BY ONLY <1>a7, <1>3, <1>t, ConsFacts
<1> HIDE DEF i8, j8
<1>b8. i8 = j8
  BY ONLY <1>h, <1>a8, <1>t, ConsCancel
<1>b7. i7 = j7
  BY ONLY <1>b8, <1>a7, <1>3, ConsCancel DEF i8, j8
<1>b6. i6 = j6
  BY ONLY <1>b7, <1>a6, <1>t, ConsCancel DEF i7, j7
<1>b5. i5 = j5 /\ Len(d) = Len(c)
  BY ONLY <1>b6, <1>a5, <1>3, ConsCancel DEF i6, j6
<1>b4. i4 = j4 /\ d = c
  BY <1>b5, <1>a4, BytesCancel, Zenon DEF i5, j5
<1>b3. i3 = j3
  BY ONLY <1>b4, <1>a3, <1>t, ConsCancel DEF i4, j4
<1>b2. i2 = j2
  BY ONLY <1>b3, <1>a2, <1>3, ConsCancel DEF i3, j3
<1>b1. i1 = j1
  BY ONLY <1>b2, <1>a1, <1>t, ConsCancel DEF i2, j2
<1>b0. i0 = j0 /\ Len(i) = Len(j)
  BY ONLY <1>b1, <1>a0, <1>3, ConsCancel DEF i1, j1
<1>5. i = j
  BY <1>b0, <1>1, <1>4, BytesCancel, Zenon DEF i0, j0
<1> QED
  BY <1>b4, <1>5 DEF i, j

-----------------------------------------------------------------------------
(* What is in transit and what the calls said of it.                       *)

(* Below, with the length of the modulus named.                            *)
BelowIn(k, a, b) == \E i \in 1 .. k : a[i] < b[i] /\ \A j \in 1 .. i - 1 : a[j] = b[j]

(* A message as long as the modulus n.                                     *)
EmOf(n, e) == e \in Seq(Byte) /\ Len(e) = Len(n)

(* While nothing is damaged e is what its sender made, and below n.        *)
Undamaged(n, e, s) ==
    \/ s = Unsent /\ \A i \in DOMAIN e : e[i] = 0
    \/ \E m \in Seq(Byte) :
           /\ s = [op |-> "encrypt", msg |-> m]
           /\ EncodesIn(Len(n), e, 2, m) /\ BelowIn(Len(n), e, n)
    \/ \E h \in Hashes, g \in Seq(Byte) :
           /\ Len(g) = h.hash_len /\ s = [op |-> "sign", msg |-> Hashed(h, g)]
           /\ EncodesIn(Len(n), e, 1, BuildDigestinfo(h, g)) /\ BelowIn(Len(n), e, n)

(* A call under way is a record.                                           *)
IsCall(p) == DOMAIN p = {"at", "op", "msg", "room", "ret", "out", "outLen"}

(* Some of the padding is drawn, not all.                                  *)
Filling(n, p) ==
    /\ IsCall(p)
    /\ p.op = "encrypt" /\ p.msg \in Seq(Byte) /\ Len(n) >= 11 + Len(p.msg)
    /\ \E ps \in Seq(Byte) :
           /\ p.out = <<0, 2>> \o ps /\ \A i \in DOMAIN ps : ps[i] # 0
           /\ Len(ps) + 3 + Len(p.msg) < Len(n)

(* All of it is drawn, and the message is behind it.                       *)
SealedIn(n, p) ==
    /\ IsCall(p)
    /\ p.op = "encrypt" /\ p.msg \in Seq(Byte)
    /\ EmOf(n, p.out) /\ EncodesIn(Len(n), p.out, 2, p.msg)

(* What a decryption said of e.                                            *)
Decrypted(n, e, p) ==
    /\ EmOf(n, e)
    /\ \/ /\ p.ret = "OK" /\ p.out \in Seq(Byte)
          /\ EncodesIn(Len(n), e, 2, p.out) /\ p.outLen = Len(p.out) /\ p.outLen <= p.room
       \/ /\ p.ret = "KEY_INVALID" /\ p.out = Nothing /\ p.outLen = p.room
          /\ \A j \in 3 .. Len(n) + 1 : EncodesIn(Len(n), e, 2, SubSeq(e, j, Len(n))) =>
                 Len(n) + 1 - j > p.room \/ ~ BelowIn(Len(n), e, n)

(* What a verification said of e.                                          *)
Verified(n, e, p) ==
    /\ EmOf(n, e)
    /\ \E h \in Hashes, g \in Seq(Byte) :
           /\ Len(g) = h.hash_len /\ p.msg = Hashed(h, g)
           /\ p.ret = "OK" <=> BelowIn(Len(n), e, n)
                                 /\ EncodesIn(Len(n), e, 1, BuildDigestinfo(h, g))

(* The call under way or the last one, and what was its message e.         *)
CallOk(n, e, p) ==
    \/ p.at = "pad" /\ Filling(n, p)
    \/ p.at = "seal" /\ SealedIn(n, p)
    \/ /\ p.at = "idle"
       /\ p.op = "decrypt" /\ p.ret \in {"OK", "KEY_INVALID"} => Decrypted(n, e, p)
       /\ p.op = "verify" /\ p.ret \in {"OK", "KEY_INVALID"} => Verified(n, e, p)

(* The whole state.                                                        *)
PkcsOk(n, e, s, d, p) ==
    /\ n \in Moduli /\ d \in Nat
    /\ e = Nothing \/ EmOf(n, e)
    /\ d = 0 => Undamaged(n, e, s)
    /\ CallOk(n, e, p)

PkcsInv == PkcsOk(modulus, em, sent, damaged, pk)

(* A string encodes one message, one way.                                  *)
LEMMA EncodesOnce ==
    ASSUME NEW k \in Nat, NEW x \in Seq(Byte), Len(x) = k,
           NEW t \in {1, 2}, NEW u \in {1, 2}, NEW m \in Seq(Byte), NEW g \in Seq(Byte),
           EncodesIn(k, x, t, m), EncodesIn(k, x, u, g)
    PROVE  t = u /\ m = g
<1>1. t \in Byte /\ u \in Byte /\ Len(m) \in Nat /\ Len(g) \in Nat
  BY PkcsBytes
<1>2. Shaped(k, x, t, k - Len(m)) /\ SubSeq(x, k - Len(m) + 1, k) = m
  BY <1>1, EncodesAt
<1>3. Shaped(k, x, u, k - Len(g)) /\ SubSeq(x, k - Len(g) + 1, k) = g
  BY <1>1, EncodesAt
<1>4. t = u /\ k - Len(m) = k - Len(g)
  <2> DEFINE a == k - Len(m)
             b == k - Len(g)
  <2>1. Shaped(k, x, t, a) /\ Shaped(k, x, u, b)
    BY <1>2, <1>3
  <2> HIDE DEF a, b
  <2>2. t = u /\ a = b
    BY ONLY <2>1, ShapedOnce, k \in Nat, t \in {1, 2}, u \in {1, 2}
  <2> QED
    BY <2>2 DEF a, b
<1> QED
  BY <1>2, <1>3, <1>4

(* The second byte of what is encoded is its type.                         *)
LEMMA EncodesType ==
    ASSUME NEW k \in Nat, NEW x \in Seq(Byte), Len(x) = k,
           NEW t \in {1, 2}, NEW m \in Seq(Byte), EncodesIn(k, x, t, m)
    PROVE  k >= 11 /\ x[2] = t
<1>1. t \in Byte
  BY PkcsBytes
<1>2. Shaped(k, x, t, k - Len(m))
  BY <1>1, EncodesAt
<1> QED
  BY <1>2 DEF Shaped

(* The definitions with the modulus named are those of the state.          *)
LEMMA Named ==
    /\ \A x, type, m : Encodes(x, type, m) <=> EncodesIn(Len(modulus), x, type, m)
    /\ \A a, b : Below(a, b) <=> BelowIn(Len(modulus), a, b)
    /\ K = Len(modulus)
BY DEF Encodes, EncodesIn, Below, BelowIn, K

(* The invariant gives the property.                                       *)
LEMMA PkcsInvGives == PkcsInv => PaddingExact
<1> DEFINE k == Len(modulus)
<1>1. SUFFICES ASSUME PkcsInv, Ready, pk.ret \in {"OK", "KEY_INVALID"}
               PROVE
        /\ pk.op = "decrypt" =>
            IF pk.ret = "OK"
            THEN EncodesIn(k, em, 2, pk.out) /\ pk.outLen = Len(pk.out) /\ pk.outLen <= pk.room
            ELSE /\ pk.out = Nothing /\ pk.outLen = pk.room
                 /\ \A j \in 3 .. k + 1 :
                        EncodesIn(k, em, 2, SubSeq(em, j, k)) =>
                            k + 1 - j > pk.room \/ ~ BelowIn(k, em, modulus)
        /\ pk.op = "verify" =>
            \E h \in Hashes :
                /\ pk.msg.oid = h.oid
                /\ pk.ret = "OK" <=> BelowIn(k, em, modulus)
                                       /\ EncodesIn(k, em, 1, BuildDigestinfo(h, pk.msg.digest))
        /\ pk.op \in {"decrypt", "verify"} /\ damaged = 0 =>
            \/ pk.op = "decrypt" /\ pk.ret = "OK" /\ sent = [op |-> "encrypt", msg |-> pk.out]
            \/ pk.op = "verify" /\ (pk.ret = "OK" <=> sent = [op |-> "sign", msg |-> pk.msg])
            \/ pk.op = "decrypt" /\ pk.ret = "KEY_INVALID"
                 /\ (sent.op = "encrypt" => Len(sent.msg) > pk.room)
  <2> HIDE DEF k
  <2>1. /\ \A x, type, m : Encodes(x, type, m) <=> EncodesIn(k, x, type, m)
        /\ \A a, b : Below(a, b) <=> BelowIn(k, a, b)
        /\ K = k
    BY Named DEF k
  <2> QED
    BY <2>1 DEF PaddingExact
<1>2. /\ modulus \in Moduli
      /\ damaged = 0 => Undamaged(modulus, em, sent)
      /\ pk.at = "idle"
      /\ pk.op = "decrypt" => Decrypted(modulus, em, pk)
      /\ pk.op = "verify" => Verified(modulus, em, pk)
  BY <1>1 DEF PkcsInv, PkcsOk, CallOk, Ready
<1>3. k \in Nat /\ modulus \in Seq(Byte)
  BY <1>2, PkcsAssumption
<1>4. ASSUME damaged = 0 PROVE
          \/ sent = Unsent /\ \A i \in DOMAIN em : em[i] = 0
          \/ \E m \in Seq(Byte) : /\ sent = [op |-> "encrypt", msg |-> m]
                                  /\ EncodesIn(k, em, 2, m) /\ BelowIn(k, em, modulus)
          \/ \E h \in Hashes, g \in Seq(Byte) :
                 /\ Len(g) = h.hash_len /\ sent = [op |-> "sign", msg |-> Hashed(h, g)]
                 /\ EncodesIn(k, em, 1, BuildDigestinfo(h, g)) /\ BelowIn(k, em, modulus)
  BY <1>2, <1>4 DEF Undamaged
<1>5. CASE pk.op = "decrypt" /\ pk.ret = "OK"
  <2>1. /\ em \in Seq(Byte) /\ Len(em) = k /\ pk.out \in Seq(Byte)
        /\ EncodesIn(k, em, 2, pk.out) /\ pk.outLen = Len(pk.out) /\ pk.outLen <= pk.room
    BY <1>2, <1>5 DEF Decrypted, EmOf
  <2> HIDE DEF k
  <2>2. ASSUME damaged = 0 PROVE sent = [op |-> "encrypt", msg |-> pk.out]
    <3>1. CASE \A i \in DOMAIN em : em[i] = 0
      <4>1. k >= 11 /\ em[2] = 2
        BY <1>3, <2>1, EncodesType
      <4>2. 2 \in DOMAIN em
        BY <1>3, <2>1, <4>1
      <4> QED
        BY <3>1, <4>1, <4>2
    <3>2. ASSUME NEW m \in Seq(Byte), sent = [op |-> "encrypt", msg |-> m], EncodesIn(k, em, 2, m)
          PROVE  sent = [op |-> "encrypt", msg |-> pk.out]
      <4>1. m = pk.out
        BY <1>3, <2>1, <3>2, EncodesOnce
      <4> QED
        BY <3>2, <4>1
    <3>3. ASSUME NEW h \in Hashes, NEW g \in Seq(Byte), Len(g) = h.hash_len,
                 EncodesIn(k, em, 1, BuildDigestinfo(h, g))
          PROVE  FALSE
      <4>1. BuildDigestinfo(h, g) \in Seq(Byte)
        BY <3>3, DigestInfoIs
      <4>2. 1 = 2
        BY <1>3, <2>1, <3>3, <4>1, EncodesOnce
      <4> QED
        BY <4>2
    <3> QED
      BY <1>4, <2>2, <3>1, <3>2, <3>3
  <2> QED
    BY <1>5, <2>1, <2>2
<1>6. CASE pk.op = "decrypt" /\ pk.ret = "KEY_INVALID"
  <2>1. /\ em \in Seq(Byte) /\ Len(em) = k /\ pk.out = Nothing /\ pk.outLen = pk.room
        /\ \A j \in 3 .. k + 1 : EncodesIn(k, em, 2, SubSeq(em, j, k)) =>
                            k + 1 - j > pk.room \/ ~ BelowIn(k, em, modulus)
    BY <1>2, <1>6 DEF Decrypted, EmOf
  <2> HIDE DEF k
  <2>2. ASSUME damaged = 0, sent.op = "encrypt" PROVE Len(sent.msg) > pk.room
    <3>1. PICK m \in Seq(Byte) : /\ sent = [op |-> "encrypt", msg |-> m]
                                 /\ EncodesIn(k, em, 2, m) /\ BelowIn(k, em, modulus)
      BY <1>4, <2>2 DEF Unsent
    <3> DEFINE j == k - Len(m) + 1
    <3>2. Shaped(k, em, 2, k - Len(m)) /\ SubSeq(em, j, k) = m
      BY <1>3, <2>1, <3>1, PkcsBytes, EncodesAt, SMTT(150)
    <3>3. j \in 3 .. k + 1 /\ k + 1 - j = Len(m)
      <4>1. k - Len(m) \in 11 .. k
        BY <3>2 DEF Shaped
      <4> QED
        BY <1>3, <4>1
    <3> HIDE DEF j
    <3> QED
      BY <2>1, <3>1, <3>2, <3>3
  <2> QED
    BY <1>6, <2>1, <2>2
<1>7. CASE pk.op = "verify"
  <2>1. em \in Seq(Byte) /\ Len(em) = k
    BY <1>2, <1>7 DEF Verified, EmOf
  <2>2. PICK h \in Hashes, g \in Seq(Byte) :
           /\ Len(g) = h.hash_len /\ pk.msg = Hashed(h, g)
           /\ pk.ret = "OK" <=> BelowIn(k, em, modulus)
                                 /\ EncodesIn(k, em, 1, BuildDigestinfo(h, g))
    BY <1>2, <1>7 DEF Verified
  <2> HIDE DEF k
  <2>3. pk.msg.oid = h.oid /\ pk.msg.digest = g
    BY <2>2 DEF Hashed
  <2>4. BuildDigestinfo(h, g) \in Seq(Byte)
    BY <2>2, DigestInfoIs
  <2>5. ASSUME damaged = 0, pk.ret = "OK" PROVE sent = [op |-> "sign", msg |-> pk.msg]
    <3>0. EncodesIn(k, em, 1, BuildDigestinfo(h, g))
      BY <2>2, <2>5
    <3>1. CASE \A i \in DOMAIN em : em[i] = 0
      <4>1. k >= 11 /\ em[2] = 1
        BY <1>3, <2>1, <2>4, <3>0, EncodesType
      <4>2. 2 \in DOMAIN em
        BY <1>3, <2>1, <4>1
      <4> QED
        BY <3>1, <4>1, <4>2
    <3>2. ASSUME NEW m \in Seq(Byte), EncodesIn(k, em, 2, m) PROVE FALSE
      <4>1. 1 = 2
        BY <1>3, <2>1, <2>4, <3>0, <3>2, EncodesOnce
      <4> QED
        BY <4>1
    <3>3. ASSUME NEW f \in Hashes, NEW c \in Seq(Byte), Len(c) = f.hash_len,
                 sent = [op |-> "sign", msg |-> Hashed(f, c)],
                 EncodesIn(k, em, 1, BuildDigestinfo(f, c))
          PROVE  sent = [op |-> "sign", msg |-> pk.msg]
      <4>1. BuildDigestinfo(f, c) \in Seq(Byte)
        BY <3>3, DigestInfoIs
      <4>2. BuildDigestinfo(h, g) = BuildDigestinfo(f, c)
        BY <1>3, <2>1, <2>4, <3>0, <3>3, <4>1, EncodesOnce
      <4>3. h.oid = f.oid /\ g = c
        BY <2>2, <3>3, <4>2, DigestInfoOnce
      <4>4. Hashed(h, g) = Hashed(f, c)
        BY <4>3 DEF Hashed
      <4> QED
        BY <2>2, <3>3, <4>4
    <3> QED
      BY <1>4, <2>5, <3>1, <3>2, <3>3
  <2>6. ASSUME damaged = 0, sent = [op |-> "sign", msg |-> pk.msg] PROVE pk.ret = "OK"
    <3>1. sent.op = "sign" /\ sent.msg = pk.msg
      BY <2>6
    <3>2. PICK f \in Hashes, c \in Seq(Byte) :
             /\ Len(c) = f.hash_len /\ sent = [op |-> "sign", msg |-> Hashed(f, c)]
             /\ EncodesIn(k, em, 1, BuildDigestinfo(f, c)) /\ BelowIn(k, em, modulus)
      BY <1>4, <2>6, <3>1 DEF Unsent
    <3>3. Hashed(f, c) = Hashed(h, g)
      <4>1. sent.msg = Hashed(f, c)
        BY <3>2
      <4> QED
        BY <2>2, <3>1, <4>1
    <3>4. f.oid = h.oid /\ c = g /\ f.hash_len = h.hash_len
      <4>1. /\ Hashed(f, c).oid = f.oid /\ Hashed(f, c).digest = c
            /\ Hashed(h, g).oid = h.oid /\ Hashed(h, g).digest = g
        BY DEF Hashed
      <4> QED
        BY <2>2, <3>2, <3>3, <4>1
    <3>5. BuildDigestinfo(f, c) = BuildDigestinfo(h, g)
      BY <3>4 DEF BuildDigestinfo, Algorithm, DigestinfoDerLen
    <3> QED
      BY <2>2, <3>2, <3>5
  <2> QED
    BY <1>7, <2>2, <2>3, <2>5, <2>6
<1> QED
  BY <1>1, <1>5, <1>6, <1>7

(* It holds when nothing happened yet.                                     *)
LEMMA PkcsInvInit == PkcsInit => PkcsInv
<1> SUFFICES ASSUME PkcsInit PROVE PkcsInv
  OBVIOUS
<1>1. modulus \in Moduli /\ damaged = 0 /\ sent = Unsent
  BY DEF PkcsInit
<1>2. modulus \in Seq(Byte) /\ Len(modulus) \in Nat
  BY <1>1, PkcsAssumption
<1>3. pk.at = "idle" /\ pk.op = "none"
  BY DEF PkcsInit, Fails, Call
<1>4. em = Nothing \/ em = [i \in 1 .. Len(modulus) |-> 0]
  BY DEF PkcsInit
<1>5. /\ em = Nothing \/ EmOf(modulus, em)
      /\ \A i \in DOMAIN em : em[i] = 0
  <2>1. CASE em = Nothing
    BY <2>1 DEF Nothing
  <2>2. CASE em = [i \in 1 .. Len(modulus) |-> 0]
    <3>1. em \in [1 .. Len(modulus) -> Byte]
      BY <2>2, PkcsBytes
    <3>2. em \in Seq(Byte) /\ Len(em) = Len(modulus)
      BY <1>2, <3>1, Data!TableIsSeq
    <3> QED
      BY <2>2, <3>2 DEF EmOf
  <2> QED
    BY <1>4, <2>1, <2>2
<1>6. Undamaged(modulus, em, sent)
  BY <1>1, <1>5 DEF Undamaged
<1>7. CallOk(modulus, em, pk)
  BY <1>3 DEF CallOk
<1> QED
  BY <1>1, <1>5, <1>6, <1>7 DEF PkcsInv, PkcsOk

(* An answer changes the call only.                                        *)
LEMMA AnswerInv ==
    ASSUME PkcsInv, NEW c, Answer(c), CallOk(modulus, em, c)
    PROVE  PkcsInv'
BY DEF PkcsInv, PkcsOk, Answer

(* A call that decrypts and verifies nothing, or did not come so far.      *)
Quiet(c) == c.at = "idle" /\ (c.op \notin {"decrypt", "verify"} \/ c.ret \notin {"OK", "KEY_INVALID"})

(* Such a call says nothing of the message.                                *)
LEMMA QuietInv ==
    ASSUME PkcsInv, NEW c, Answer(c), Quiet(c)
    PROVE  PkcsInv'
<1>1. CallOk(modulus, em, c)
  BY DEF CallOk, Quiet
<1> QED
  BY <1>1, AnswerInv

(* The calls that fail.                                                    *)
LEMMA FailsQuiet ==
    ASSUME NEW op, NEW msg, NEW room, NEW ret,
           op \notin {"decrypt", "verify"} \/ ret \notin {"OK", "KEY_INVALID"}
    PROVE  Quiet(Fails(op, msg, room, ret))
BY DEF Quiet, Fails, Call

(* What the invariant says of the modulus.                                 *)
LEMMA InvModulus ==
    ASSUME PkcsInv
    PROVE  /\ modulus \in Moduli /\ modulus \in Seq(Byte)
           /\ K = Len(modulus) /\ K \in Nat /\ K <= 32768
           /\ em = Nothing \/ IsEm(em)
BY PkcsAssumption DEF PkcsInv, PkcsOk, K, EmOf, IsEm

(* u is s and t behind it.                                                 *)
Joined(s, t, u) ==
    /\ u \in Seq(Byte) /\ Len(u) = Len(s) + Len(t)
    /\ \A i \in 1 .. Len(s) : u[i] = s[i]
    /\ \A i \in 1 .. Len(t) : u[Len(s) + i] = t[i]

(* JoinAt, as one fact.                                                    *)
LEMMA JoinedAt ==
    ASSUME NEW s \in Seq(Byte), NEW t \in Seq(Byte), NEW u, u = s \o t
    PROVE  Joined(s, t, u)
BY JoinAt DEF Joined

(* One step of the padding: some is left to draw, or none.                 *)
Drawn(p, q, m, k, f) ==
    IF f = k - 1 - m THEN q + 3 + m = k ELSE q + 3 + m < k

(* A call p with other output and in another place.                        *)
SetTo(p, o, a, c) == IsCall(c) /\ c.at = a /\ c.out = o /\ c.op = p.op /\ c.msg = p.msg

(* What a draw leaves of the call.                                         *)
LEMMA CallSet ==
    ASSUME NEW p, IsCall(p), NEW o, NEW a, NEW c, c = [p EXCEPT !.out = o, !.at = a]
    PROVE  SetTo(p, o, a, c)
BY DEF IsCall, SetTo

(* Room for one byte more, and for none.                                   *)
LEMMA OneByteMore ==
    ASSUME NEW p \in Nat, NEW q, q = p + 1, NEW m \in Nat, NEW k \in Nat, NEW f, f = p + 3,
           p + 3 + m < k
    PROVE  Drawn(p, q, m, k, f)
BY DEF Drawn

(* An encryption begins with no padding drawn yet.                         *)
LEMMA EncryptInv ==
    ASSUME PkcsInv, NEW m \in Plain, NEW room, Encrypt(m, room)
    PROVE  PkcsInv'
<1>1. m \in Seq(Byte) /\ Len(m) \in Nat
  BY PkcsAssumption
<1> DEFINE c1 == Fails("encrypt", m, room, "INVALID_PARAM")
           c2 == Call("encrypt", m, room, "BUFFER_TOO_SMALL", Nothing, K)
           b  == Call("encrypt", m, room, "OK", <<0, 2>>, room)
           c3 == [b EXCEPT !.at = "pad"]
<1>2. Answer(c1) \/ Answer(c2) \/ (PadTakes(m) /\ Answer(c3))
  <2> HIDE DEF c1, c2, b, c3
  <2>1. Answer(CASE K >= 11 /\ Len(m) > K - 11 -> c1
                 [] room < K -> c2
                 [] ~ PadTakes(m) -> c1
                 [] OTHER -> c3)
    BY DEF Encrypt, c1, c2, b, c3
  <2> QED
    BY <2>1
<1>3. CASE Answer(c1)
  BY <1>3, FailsQuiet, QuietInv
<1>4. CASE Answer(c2)
  <2>1. Quiet(c2)
    BY DEF Quiet, Call
  <2> QED
    BY <1>4, <2>1, QuietInv
<1>5. CASE PadTakes(m) /\ Answer(c3)
  <2>0. IsCall(c3)
    BY DEF IsCall, Call
  <2>1. c3.at = "pad" /\ c3.op = "encrypt" /\ c3.msg = m /\ c3.out = <<0, 2>>
    BY DEF Call
  <2>2. Len(modulus) >= 11 + Len(m) /\ Len(modulus) \in Nat
    BY <1>5, InvModulus DEF PadTakes
  <2> DEFINE ps == <<>>
  <2>3. /\ ps \in Seq(Byte) /\ <<0, 2>> = <<0, 2>> \o ps /\ Len(ps) = 0
        /\ \A i \in DOMAIN ps : ps[i] # 0
    OBVIOUS
  <2> HIDE DEF ps, c3
  <2>4. Len(ps) + 3 + Len(m) < Len(modulus)
    BY <1>1, <2>2, <2>3
  <2>5. \E x \in Seq(Byte) :
           /\ c3.out = <<0, 2>> \o x /\ \A i \in DOMAIN x : x[i] # 0
           /\ Len(x) + 3 + Len(m) < Len(modulus)
    BY <2>1, <2>3, <2>4
  <2>6. Filling(modulus, c3)
    BY <1>1, <2>0, <2>1, <2>2, <2>5 DEF Filling
  <2> QED
    BY <1>5, <2>1, <2>6, AnswerInv DEF CallOk
<1> QED
  BY <1>2, <1>3, <1>4, <1>5

(* y is as long as the modulus, k, and encodes m.                          *)
Encoded(k, y, type, m) == y \in Seq(Byte) /\ Len(y) = k /\ EncodesIn(k, y, type, m)

(* The padding ps around m.                                                *)
Padded(type, ps, m) == <<0, type>> \o ps \o <<0>> \o m

(* Enough padding around m makes what encodes m.                           *)
LEMMA PaddedEncodes ==
    ASSUME NEW k \in Nat, NEW type \in {1, 2}, NEW ps \in Seq(Byte), NEW m \in Seq(Byte),
           Len(ps) + 3 + Len(m) = k, k >= 11 + Len(m),
           \A i \in DOMAIN ps : PadByte(type, ps[i]),
           NEW y, y = Padded(type, ps, m)
    PROVE  Encoded(k, y, type, m)
<1>1. type \in Byte
  BY PkcsBytes
<1>2. InFourParts(y, type, ps, m)
  BY <1>1, FourParts DEF Padded
<1>l. Len(ps) \in Nat /\ Len(m) \in Nat /\ DOMAIN ps = 1 .. Len(ps)
  OBVIOUS
<1>3. /\ y \in Seq(Byte) /\ Len(y) = k
      /\ y[1] = 0 /\ y[2] = type /\ y[Len(ps) + 3] = 0
      /\ \A i \in 1 .. Len(ps) : y[i + 2] = ps[i]
      /\ \A i \in 1 .. Len(m) : y[Len(ps) + 3 + i] = m[i]
  BY ONLY <1>2, Len(ps) + 3 + Len(m) = k DEF InFourParts
<1> DEFINE e == k - Len(m)
<1>4. e = Len(ps) + 3 /\ e \in 11 .. k
  BY <1>l
<1>h. e = k - Len(m)
  OBVIOUS
<1> HIDE DEF e
<1>5. Shaped(k, y, type, e)
  <2>1. ASSUME NEW i \in 3 .. e - 1 PROVE PadByte(type, y[i])
    <3>1. i - 2 \in 1 .. Len(ps) /\ (i - 2) + 2 = i
      BY <1>l, <1>4
    <3>2. y[i] = ps[i - 2]
      BY <1>3, <3>1
    <3> QED
      BY <1>l, <3>1, <3>2
  <2> QED
    BY <1>3, <1>4, <2>1 DEF Shaped
<1>6. SubSeq(y, e + 1, k) = m
  <2> DEFINE t == SubSeq(y, e + 1, k)
  <2>1. e + 1 \in 1 .. Len(y) + 1 /\ k \in (e + 1) - 1 .. Len(y) /\ k - (e + 1) + 1 = Len(m)
    BY <1>l, <1>3, <1>4, <1>h
  <2>2. /\ t \in Seq(Byte) /\ Len(t) = k - (e + 1) + 1
        /\ \A i \in 1 .. k - (e + 1) + 1 : t[i] = y[(e + 1) + i - 1]
    BY ONLY <1>3, <2>1, PartOf
  <2> HIDE DEF t
  <2>3. ASSUME NEW i \in 1 .. Len(m) PROVE t[i] = m[i]
    <3>1. (e + 1) + i - 1 = Len(ps) + 3 + i
      BY <1>l, <1>4
    <3> QED
      BY <1>3, <2>1, <2>2, <3>1
  <2> QED
    BY <2>1, <2>2, <2>3, SeqEqual DEF t
<1>7. Shaped(k, y, type, k - Len(m)) /\ SubSeq(y, k - Len(m) + 1, k) = m
  BY <1>5, <1>6, <1>h
<1>8. EncodesIn(k, y, type, m)
  BY <1>1, <1>3, <1>7, EncodesAt
<1> QED
  BY <1>3, <1>8 DEF Encoded

(* A byte more of padding, the last one with the message behind it.        *)
LEMMA DrawByteInv ==
    ASSUME PkcsInv, NEW b \in Draws, DrawByte(b)
    PROVE  PkcsInv'
<1> DEFINE k == Len(modulus)
           m == pk.msg
<1>1. pk.at = "pad" /\ b # 0 /\ b \in Byte
  BY PkcsAssumption DEF DrawByte
<1>2. Filling(modulus, pk)
  BY <1>1 DEF PkcsInv, PkcsOk, CallOk
<1>3. /\ pk.op = "encrypt" /\ m \in Seq(Byte) /\ k >= 11 + Len(m)
      /\ k \in Nat /\ Len(m) \in Nat /\ K = k
  BY <1>2, InvModulus DEF Filling
<1>4. PICK ps \in Seq(Byte) : /\ pk.out = <<0, 2>> \o ps /\ \A i \in DOMAIN ps : ps[i] # 0
                              /\ Len(ps) + 3 + Len(m) < k
  BY <1>2 DEF Filling
<1> DEFINE x == <<b>>
           qs == ps \o x
           filled == <<0, 2>> \o qs
           done == Len(filled) = k - 1 - Len(m)
<1>5. x \in Seq(Byte) /\ Len(x) = 1 /\ x[1] = b
  BY <1>1
<1>h. <<0, 2>> \in Seq(Byte) /\ Len(<<0, 2>>) = 2
  BY PkcsBytes
<1>q. qs = ps \o x
  OBVIOUS
<1> HIDE DEF x, qs
<1>6. /\ qs \in Seq(Byte) /\ Len(qs) = Len(ps) + 1
      /\ \A i \in 1 .. Len(ps) : qs[i] = ps[i]
      /\ \A i \in 1 .. Len(x) : qs[Len(ps) + i] = x[i]
  <2>1. ps \in Seq(Byte) /\ x \in Seq(Byte)
    BY <1>5
  <2>2. Joined(ps, x, qs)
    BY ONLY <1>q, <2>1, JoinedAt
  <2> QED
    BY ONLY <1>5, <2>2 DEF Joined
<1>7. \A i \in DOMAIN qs : qs[i] # 0
  <2>1. ASSUME NEW i \in DOMAIN qs PROVE qs[i] # 0
    <3>1. i \in 1 .. Len(ps) + 1 /\ Len(ps) \in Nat /\ DOMAIN ps = 1 .. Len(ps)
      BY <1>6
    <3>2. CASE i \in 1 .. Len(ps)
      BY <1>4, <1>6, <3>1, <3>2
    <3>3. CASE i = Len(ps) + 1
      <4>1. qs[Len(ps) + 1] = b
        BY <1>5, <1>6
      <4> QED
        BY <1>1, <3>3, <4>1
    <3> QED
      BY <3>1, <3>2, <3>3
  <2> QED
    BY <2>1
<1>8. Append(pk.out, b) = filled
  <2>1. pk.out \in Seq(Byte)
    BY <1>4, <1>h, JoinFacts
  <2>2. Append(pk.out, b) = pk.out \o x
    BY <1>1, <2>1 DEF x
  <2> DEFINE h == <<0, 2>>
  <2>3. h \in Seq(Byte)
    BY <1>h
  <2> HIDE DEF h, qs
  <2>4. (h \o ps) \o x = h \o (ps \o x)
    BY <1>5, <2>3, Data!ConcatAssoc
  <2> QED
    BY <1>4, <2>2, <2>4 DEF h, qs
<1> HIDE DEF qs
<1>9. filled \in Seq(Byte) /\ Len(filled) = Len(qs) + 2
  <2> DEFINE h == <<0, 2>>
  <2>1. h \in Seq(Byte) /\ Len(h) = 2
    BY <1>h
  <2> HIDE DEF h
  <2>2. h \o qs \in Seq(Byte) /\ Len(h \o qs) = Len(h) + Len(qs)
    BY <1>6, <2>1, JoinFacts
  <2>3. Len(qs) \in Nat
    BY <1>6
  <2> QED
    BY <2>1, <2>2, <2>3 DEF h
<1>10. IsCall(pk)
  BY <1>2 DEF Filling
<1> DEFINE C(o, a) == [pk EXCEPT !.out = o, !.at = a]
<1>11. /\ [pk EXCEPT !.out = filled \o <<0>> \o m, !.at = "seal"] = C(filled \o <<0>> \o m, "seal")
       /\ [pk EXCEPT !.out = filled, !.at = "pad"] = C(filled, "pad")
  OBVIOUS
<1>12. \/ done /\ Answer(C(filled \o <<0>> \o m, "seal"))
       \/ ~ done /\ Answer(C(filled, "pad"))
  <2> HIDE DEF k, m, filled, C
  <2>1. Answer([pk EXCEPT !.out = IF done THEN filled \o <<0>> \o m ELSE filled,
                          !.at  = IF done THEN "seal" ELSE pk.at])
    BY <1>3, <1>8 DEF DrawByte, m
  <2> HIDE DEF done
  <2>2. CASE done
    BY <1>11, <2>1, <2>2
  <2>3. CASE ~ done
    BY <1>1, <1>11, <2>1, <2>3
  <2> QED
    BY <2>2, <2>3
<1>13. Len(filled) = Len(ps) + 3 /\ Len(ps) \in Nat
  BY <1>6, <1>9
<1>m. Len(ps) + 3 + Len(m) < k /\ k \in Nat /\ Len(m) \in Nat /\ k >= 11 + Len(m)
  BY <1>3, <1>4
<1>s. m \in Seq(Byte) /\ 2 \in {1, 2}
  BY <1>3
<1>n. IF done THEN Len(qs) + 3 + Len(m) = k ELSE Len(qs) + 3 + Len(m) < k
  <2> DEFINE p == Len(ps)
             q == Len(qs)
             l == Len(m)
             f == Len(filled)
  <2>1. p \in Nat /\ q = p + 1 /\ l \in Nat /\ k \in Nat /\ f = p + 3 /\ p + 3 + l < k
    BY <1>6, <1>13, <1>m
  <2> HIDE DEF p, q, l, f, k
  <2>2. Drawn(p, q, l, k, f)
    BY ONLY <2>1, OneByteMore
  <2>3. IF f = k - 1 - l THEN q + 3 + l = k ELSE q + 3 + l < k
    BY ONLY <2>2 DEF Drawn
  <2> QED
    BY <2>3 DEF p, q, l, f
<1>14. CASE done /\ Answer(C(filled \o <<0>> \o m, "seal"))
  <2> DEFINE y == filled \o <<0>> \o m
             c == C(y, "seal")
  <2>1. Len(qs) + 3 + Len(m) = k
    BY <1>n, <1>14
  <2>2. \A i \in DOMAIN qs : PadByte(2, qs[i])
    BY <1>7 DEF PadByte
  <2>3. y = Padded(2, qs, m)
    BY DEF Padded
  <2> HIDE DEF y, k, m
  <2>7. Encoded(k, y, 2, m)
    BY ONLY <1>6, <1>m, <1>s, <2>1, <2>2, <2>3, PaddedEncodes
  <2>8. /\ c.at = "seal" /\ c.op = "encrypt" /\ c.msg = m /\ c.out = y /\ IsCall(c)
    <3>1. c = [pk EXCEPT !.out = y, !.at = "seal"]
      OBVIOUS
    <3> HIDE DEF c
    <3>2. SetTo(pk, y, "seal", c)
      BY ONLY <3>1, <1>10, CallSet
    <3> QED
      BY <1>3, <3>2 DEF SetTo, m
  <2> HIDE DEF c
  <2>9. SealedIn(modulus, c)
    BY <1>3, <2>7, <2>8 DEF SealedIn, EmOf, Encoded, k, m
  <2> QED
    BY <1>14, <2>8, <2>9, AnswerInv DEF CallOk, c, y
<1>15. CASE ~ done /\ Answer(C(filled, "pad"))
  <2> DEFINE c == C(filled, "pad")
  <2>1. c.at = "pad" /\ c.op = "encrypt" /\ c.msg = m /\ c.out = filled /\ IsCall(c)
    <3>1. c = [pk EXCEPT !.out = filled, !.at = "pad"]
      OBVIOUS
    <3> HIDE DEF c, filled
    <3>2. SetTo(pk, filled, "pad", c)
      BY ONLY <3>1, <1>10, CallSet
    <3> QED
      BY <1>3, <3>2 DEF SetTo
  <2>2. Len(qs) + 3 + Len(m) < k
    BY <1>n, <1>15
  <2> HIDE DEF c
  <2>3. Filling(modulus, c)
    BY <1>3, <1>6, <1>7, <2>1, <2>2 DEF Filling
  <2> QED
    BY <1>15, <2>1, <2>3, AnswerInv DEF CallOk, c
<1> QED
  BY <1>12, <1>14, <1>15

(* A generator that fails ends the call.                                   *)
LEMMA DrawFailsInv ==
    ASSUME PkcsInv, DrawFails
    PROVE  PkcsInv'
<1> DEFINE c == [pk EXCEPT !.at = "idle", !.ret = "RANDOM_FAIL"]
<1>1. pk.at = "pad" /\ Answer(c)
  BY DEF DrawFails
<1>2. IsCall(pk) /\ pk.op = "encrypt"
  BY <1>1 DEF PkcsInv, PkcsOk, CallOk, Filling
<1>3. c.at = "idle" /\ c.op = "encrypt"
  BY <1>2 DEF IsCall
<1> HIDE DEF c
<1>4. Quiet(c)
  BY <1>3 DEF Quiet
<1> QED
  BY <1>1, <1>4, QuietInv

(* What is sealed is encoded, and below the modulus.                       *)
LEMMA SealInv ==
    ASSUME PkcsInv, Seal
    PROVE  PkcsInv'
<1>1. pk.at = "seal" /\ SealedIn(modulus, pk)
  BY DEF Seal, PkcsInv, PkcsOk, CallOk
<1>2. IsCall(pk) /\ pk.op = "encrypt"
  BY <1>1 DEF SealedIn
<1>3. ASSUME NEW ret, Answer([pk EXCEPT !.at = "idle", !.ret = ret])
      PROVE  PkcsInv'
  <2> DEFINE c == [pk EXCEPT !.at = "idle", !.ret = ret]
  <2>1. c.at = "idle" /\ c.op = "encrypt"
    BY <1>2 DEF IsCall
  <2> HIDE DEF c
  <2>2. Quiet(c)
    BY <2>1 DEF Quiet
  <2> QED
    BY <1>3, <2>2, QuietInv DEF c
<1>4. ASSUME Below(pk.out, modulus), em' = pk.out,
             sent' = [op |-> "encrypt", msg |-> pk.msg],
             pk' = [pk EXCEPT !.at = "idle", !.outLen = K],
             UNCHANGED <<modulus, damaged>>
      PROVE  PkcsInv'
  <2>1. pk'.at = "idle" /\ pk'.op = "encrypt"
    <3> DEFINE c == [pk EXCEPT !.at = "idle", !.outLen = K]
    <3>1. c.at = "idle" /\ c.op = "encrypt"
      BY <1>2 DEF IsCall
    <3> QED
      BY <1>4, <3>1
  <2>2. CallOk(modulus', em', pk')
    BY <2>1 DEF CallOk
  <2>3. /\ pk.msg \in Seq(Byte) /\ EmOf(modulus, pk.out)
        /\ EncodesIn(Len(modulus), pk.out, 2, pk.msg)
    BY <1>1 DEF SealedIn
  <2>4. BelowIn(Len(modulus), pk.out, modulus)
    BY <1>4, Named
  <2>5. Undamaged(modulus, pk.out, sent')
    BY <1>4, <2>3, <2>4 DEF Undamaged
  <2>6. modulus' = modulus /\ damaged' = damaged
    BY <1>4
  <2>7. modulus \in Moduli /\ damaged \in Nat
    BY DEF PkcsInv, PkcsOk
  <2> QED
    BY <1>4, <2>2, <2>3, <2>5, <2>6, <2>7 DEF PkcsInv, PkcsOk
<1> QED
  BY <1>3, <1>4 DEF Seal

(* A decryption says what em encodes, or that nothing that fits is there.  *)
LEMMA DecryptInv ==
    ASSUME PkcsInv, NEW room \in Nat, NEW len, Decrypt(room, len)
    PROVE  PkcsInv'
<1> DEFINE k  == Len(modulus)
           u  == UnpadCipher(em, room)
           c1 == Fails("decrypt", Nothing, room, "KEY_INVALID")
           c2 == Call("decrypt", Nothing, room, "OK", u[1], Len(u[1]))
<1>1. /\ em # Nothing /\ modulus \in Moduli /\ IsEm(em) /\ K = k /\ k \in Nat
      /\ em \in Seq(Byte) /\ Len(em) = k
  BY InvModulus DEF Decrypt, IsEm
<1>2. ASSUME NEW ret \in {"INVALID_PARAM", "MEM_ALLOCATE_FAIL", "RANDOM_FAIL"},
             Answer(Fails("decrypt", Nothing, room, ret))
      PROVE  PkcsInv'
  BY <1>2, FailsQuiet, QuietInv
<1>3. \/ \E ret \in {"INVALID_PARAM", "MEM_ALLOCATE_FAIL", "RANDOM_FAIL"} :
             Answer(Fails("decrypt", Nothing, room, ret))
      \/ (~ Below(em, modulus) \/ u = <<>>) /\ Answer(c1)
      \/ Below(em, modulus) /\ u # <<>> /\ Answer(c2)
  <2> HIDE DEF u, c1, c2
  <2>1. \/ Answer(Fails("decrypt", Nothing, room, "INVALID_PARAM"))
        \/ \E ret \in {"MEM_ALLOCATE_FAIL", "RANDOM_FAIL"} :
               Answer(Fails("decrypt", Nothing, room, ret))
        \/ Answer(IF ~ Below(em, modulus) \/ u = <<>> THEN c1 ELSE c2)
    BY DEF Decrypt, u, c1, c2
  <2> QED
    BY <2>1
<1> DEFINE b == BelowIn(k, em, modulus)
<1>4. Below(em, modulus) <=> b
  BY Named
<1>5. /\ \A e \in Nat : Shaped(k, em, 2, e) /\ k - e <= room
                          => u = <<SubSeq(em, e + 1, k)>>
      /\ u # <<>> => \E e \in Nat : /\ Shaped(k, em, 2, e) /\ k - e <= room
                                    /\ u = <<SubSeq(em, e + 1, k)>>
  BY <1>1, UnpadCipherGives
<1> HIDE DEF k, u, b
<1>6. CASE (~ Below(em, modulus) \/ u = <<>>) /\ Answer(c1)
  <2>1. ASSUME NEW j \in 3 .. k + 1, EncodesIn(k, em, 2, SubSeq(em, j, k)), b
        PROVE  k + 1 - j > room
    <3>1. u = <<>>
      BY <1>4, <1>6, <2>1
    <3> DEFINE t == SubSeq(em, j, k)
               e == j - 1
    <3>2. /\ j \in 1 .. Len(em) + 1 /\ k \in j - 1 .. Len(em)
          /\ e \in Nat /\ j = e + 1 /\ k - (k - j + 1) = e /\ k - e = k + 1 - j
      BY <1>1
    <3>3. t \in Seq(Byte) /\ Len(t) = k - j + 1
      BY ONLY <1>1, <3>2, PartOf, SMTT(60)
    <3>4. Shaped(k, em, 2, k - Len(t))
      <4>1. EncodesIn(k, em, 2, t)
        BY <2>1
      <4> HIDE DEF t, e
      <4> QED
        BY <1>1, <3>3, <4>1, EncodesAt, PkcsBytes, SMTT(150)
    <3> HIDE DEF t, e
    <3>5. Shaped(k, em, 2, e)
      BY <3>2, <3>3, <3>4
    <3>6. ~ (k - e <= room)
      BY <1>5, <3>1, <3>2, <3>5
    <3> QED
      BY ONLY <1>1, <3>2, <3>6, room \in Nat, j \in 3 .. k + 1
  <2>2. /\ c1.at = "idle" /\ c1.op = "decrypt" /\ c1.ret = "KEY_INVALID"
        /\ c1.out = Nothing /\ c1.outLen = room /\ c1.room = room
    BY DEF Fails, Call
  <2> HIDE DEF c1
  <2>3. Decrypted(modulus, em, c1)
    BY <1>1, <2>1, <2>2 DEF Decrypted, EmOf, k, b
  <2> QED
    BY <1>6, <2>2, <2>3, AnswerInv DEF CallOk
<1>7. CASE u # <<>> /\ Answer(c2)
  <2>1. PICK e \in Nat : /\ Shaped(k, em, 2, e) /\ k - e <= room
                         /\ u = <<SubSeq(em, e + 1, k)>>
    BY <1>5, <1>7
  <2> DEFINE t == SubSeq(em, e + 1, k)
  <2>2. u[1] = t
    BY <2>1
  <2>3. /\ e + 1 \in 1 .. Len(em) + 1 /\ k \in (e + 1) - 1 .. Len(em)
        /\ k - (e + 1) + 1 = k - e /\ k - (k - e) = e
    <3>1. e \in 11 .. k
      BY <2>1 DEF Shaped
    <3> QED
      BY ONLY <1>1, <3>1
  <2>4. t \in Seq(Byte) /\ Len(t) = k - e
    BY ONLY <1>1, <2>3, PartOf
  <2>h. t = SubSeq(em, e + 1, k)
    OBVIOUS
  <2> HIDE DEF t
  <2>5. Shaped(k, em, 2, k - Len(t)) /\ SubSeq(em, k - Len(t) + 1, k) = t
    BY <2>1, <2>3, <2>4, <2>h
  <2>6. EncodesIn(k, em, 2, t)
    BY <1>1, <2>4, <2>5, EncodesAt, PkcsBytes, ZenonT(60)
  <2>7. /\ c2.at = "idle" /\ c2.op = "decrypt" /\ c2.ret = "OK"
        /\ c2.out = t /\ c2.outLen = Len(t) /\ c2.room = room
    BY <2>2 DEF Call
  <2> HIDE DEF c2
  <2>8. Decrypted(modulus, em, c2)
    BY <1>1, <2>1, <2>4, <2>6, <2>7 DEF Decrypted, EmOf, k
  <2> QED
    BY <1>7, <2>7, <2>8, AnswerInv DEF CallOk
<1> QED
  BY <1>2, <1>3, <1>6, <1>7

(* What is signed encodes the DigestInfo.                                  *)
LEMMA SignedEncodes ==
    ASSUME modulus \in Moduli, NEW di \in Seq(Byte), PadTakes(di)
    PROVE  Encoded(Len(modulus), SignaturePad(di), 1, di)
<1> DEFINE k  == Len(modulus)
           n  == k - 3 - Len(di)
           ps == [i \in 1 .. n |-> 255]
           y  == SignaturePad(di)
<1>1. k \in Nat /\ Len(di) \in Nat /\ k >= 11 + Len(di) /\ K = k
  BY KFacts DEF PadTakes, K
<1>2. n \in Nat /\ n + 3 + Len(di) = k
  BY ONLY <1>1
<1>3. y = Padded(1, ps, di)
  BY <1>1, PkcsAssumption DEF SignaturePad, Padded
<1> HIDE DEF n, y
<1>4. ps \in Seq(Byte) /\ Len(ps) = n
  <2>1. ps \in [1 .. n -> Byte]
    BY PkcsBytes
  <2> HIDE DEF ps
  <2> QED
    BY <1>2, <2>1, Data!TableIsSeq
<1>5. \A i \in DOMAIN ps : PadByte(1, ps[i])
  BY DEF PadByte
<1>6. 1 \in {1, 2} /\ di \in Seq(Byte)
  OBVIOUS
<1> HIDE DEF ps, k
<1>7. Encoded(k, y, 1, di)
  BY ONLY <1>1, <1>2, <1>3, <1>4, <1>5, <1>6, PaddedEncodes
<1> QED
  BY <1>7 DEF k, y

(* A signature is made of the digest it was asked for.                     *)
LEMMA SignHashInv ==
    ASSUME PkcsInv, NEW h \in Hashes, NEW d \in Digests, NEW room, SignHash(h, d, room)
    PROVE  PkcsInv'
<1> DEFINE w  == Hashed(h, d)
           di == BuildDigestinfo(h, d)
<1>1. ASSUME NEW c, c.at = "idle", c.op = "sign", Answer(c) PROVE PkcsInv'
  BY <1>1, QuietInv DEF Quiet
<1>2. ASSUME NEW ret, Answer(Fails("sign", w, room, ret)) PROVE PkcsInv'
  <2>1. Fails("sign", w, room, ret).at = "idle" /\ Fails("sign", w, room, ret).op = "sign"
    BY DEF Fails, Call
  <2> QED
    BY <1>1, <1>2, <2>1
<1>3. ASSUME Answer(Call("sign", w, room, "BUFFER_TOO_SMALL", Nothing, K)) PROVE PkcsInv'
  <2> DEFINE c == Call("sign", w, room, "BUFFER_TOO_SMALL", Nothing, K)
  <2>1. c.at = "idle" /\ c.op = "sign"
    BY DEF Call
  <2> QED
    BY <1>1, <1>3, <2>1
<1>4. ASSUME Len(d) = h.hash_len, SignInfo(di, w, room) PROVE PkcsInv'
  <2>1. d \in Seq(Byte) /\ di \in Seq(Byte)
    BY <1>4, DigestInfoIs, PkcsAssumption
  <2>2. modulus \in Moduli /\ damaged \in Nat
    BY DEF PkcsInv, PkcsOk
  <2>3. ASSUME PadTakes(di), Below(SignaturePad(di), modulus),
               em' = SignaturePad(di), sent' = [op |-> "sign", msg |-> w],
               pk' = Call("sign", w, room, "OK", Nothing, K),
               UNCHANGED <<modulus, damaged>>
        PROVE  PkcsInv'
    <3> DEFINE y == SignaturePad(di)
    <3>1. Encoded(Len(modulus), y, 1, di)
      BY <2>1, <2>2, <2>3, SignedEncodes
    <3>2. BelowIn(Len(modulus), y, modulus)
      BY <2>3, Named
    <3>3. em' = y
      BY <2>3
    <3> HIDE DEF y
    <3>4. Undamaged(modulus, y, sent')
      BY <1>4, <2>1, <2>3, <3>1, <3>2 DEF Undamaged, Encoded
    <3>5. EmOf(modulus, y)
      BY <3>1 DEF Encoded, EmOf
    <3>6. CallOk(modulus', em', pk')
      <4>1. pk'.at = "idle" /\ pk'.op = "sign"
        BY <2>3 DEF Call
      <4> QED
        BY <4>1 DEF CallOk
    <3>7. modulus' = modulus /\ damaged' = damaged
      BY <2>3
    <3> QED
      BY <2>2, <3>3, <3>4, <3>5, <3>6, <3>7 DEF PkcsInv, PkcsOk
  <2> HIDE DEF di, w
  <2>4. \/ \E ret : Answer(Fails("sign", w, room, ret))
        \/ /\ PadTakes(di) /\ Below(SignaturePad(di), modulus)
           /\ em' = SignaturePad(di) /\ sent' = [op |-> "sign", msg |-> w]
           /\ pk' = Call("sign", w, room, "OK", Nothing, K)
           /\ UNCHANGED <<modulus, damaged>>
    BY <1>4 DEF SignInfo
  <2> QED
    BY <1>2, <2>3, <2>4 DEF w
<1> HIDE DEF di, w
<1>5. \/ Answer(Fails("sign", w, room, "INVALID_PARAM"))
      \/ Answer(Call("sign", w, room, "BUFFER_TOO_SMALL", Nothing, K))
      \/ Len(d) = h.hash_len /\ SignInfo(di, w, room)
  BY DEF SignHash, di, w
<1> QED
  BY <1>2, <1>3, <1>4, <1>5

(* A signature is found good exactly when em encodes the digest's info.    *)
LEMMA VerifyHashInv ==
    ASSUME PkcsInv, NEW h \in Hashes, NEW d \in Digests, NEW len, VerifyHash(h, d, len)
    PROVE  PkcsInv'
<1> DEFINE w  == Hashed(h, d)
           di == BuildDigestinfo(h, d)
           c  == Fails("verify", w, 0, Verdict(di))
<1>1. /\ em # Nothing /\ modulus \in Moduli /\ IsEm(em) /\ K = Len(modulus)
      /\ em \in Seq(Byte) /\ Len(em) = Len(modulus)
  BY InvModulus DEF VerifyHash, IsEm
<1>2. ASSUME NEW ret \in {"INVALID_PARAM", "MEM_ALLOCATE_FAIL"}, Answer(Fails("verify", w, 0, ret))
      PROVE  PkcsInv'
  BY <1>2, FailsQuiet, QuietInv
<1>3. ASSUME Len(d) = h.hash_len, Answer(c) PROVE PkcsInv'
  <2>1. d \in Seq(Byte) /\ di \in Seq(Byte) /\ di # Nothing
    BY <1>3, DigestInfoIs, PkcsAssumption DEF Nothing
  <2>2. UnpadSignature(em, di) <=> EncodesIn(K, em, 1, di)
    BY <1>1, <2>1, UnpadSignatureSays
  <2>3. Below(em, modulus) <=> BelowIn(Len(modulus), em, modulus)
    BY Named
  <2>4. c.at = "idle" /\ c.op = "verify" /\ c.msg = w /\ c.ret = Verdict(di)
    BY DEF Fails, Call
  <2> HIDE DEF c, di, w
  <2>5. c.ret = "OK" <=> Below(em, modulus) /\ UnpadSignature(em, di)
    BY <2>1, <2>4 DEF Verdict
  <2>6. c.ret = "OK" <=> /\ BelowIn(Len(modulus), em, modulus)
                         /\ EncodesIn(Len(modulus), em, 1, di)
    BY <1>1, <2>2, <2>3, <2>5
  <2>7. Verified(modulus, em, c)
    BY <1>1, <1>3, <2>1, <2>4, <2>6 DEF Verified, EmOf, di, w
  <2> QED
    BY <1>3, <2>4, <2>7, AnswerInv DEF CallOk
<1> HIDE DEF c, di, w
<1>4. \/ Answer(Fails("verify", w, 0, "INVALID_PARAM"))
      \/ Answer(Fails("verify", w, 0, "MEM_ALLOCATE_FAIL"))
      \/ Len(d) = h.hash_len /\ Answer(c)
  BY DEF VerifyHash, c, di, w
<1> QED
  BY <1>2, <1>3, <1>4

(* What changes on the way is damaged from then on.                        *)
LEMMA CorruptInv ==
    ASSUME PkcsInv, NEW i \in 1 .. K, NEW b \in Damage, Corrupt(i, b)
    PROVE  PkcsInv'
<1>1. /\ em # Nothing /\ modulus \in Moduli /\ K = Len(modulus) /\ K \in Nat
      /\ em \in Seq(Byte) /\ Len(em) = K /\ damaged \in Nat
  BY InvModulus DEF Corrupt, IsEm, PkcsInv, PkcsOk
<1>2. b \in Byte
  BY PkcsAssumption
<1>3. EmOf(modulus, em')
  <2>1. em' = [em EXCEPT ![i] = b]
    BY DEF Corrupt
  <2>2. i \in 1 .. Len(em)
    BY <1>1
  <2>3. em' \in Seq(Byte) /\ Len(em') = Len(em)
    BY ONLY <1>1, <1>2, <2>1, <2>2, ExceptSeq
  <2> QED
    BY <1>1, <2>3 DEF EmOf
<1>4. damaged' \in Nat /\ damaged' # 0 /\ modulus' = modulus
  BY <1>1 DEF Corrupt
<1>5. CallOk(modulus', em', pk')
  <2>1. pk'.at = "idle" /\ pk'.op = "none"
    BY DEF Corrupt, Fails, Call
  <2> QED
    BY <2>1 DEF CallOk
<1> QED
  BY <1>1, <1>3, <1>4, <1>5 DEF PkcsInv, PkcsOk

(* Every step keeps the invariant.                                         *)
LEMMA PkcsInvNext == PkcsInv /\ [PkcsNext]_pkcsVars => PkcsInv'
<1> SUFFICES ASSUME PkcsInv, [PkcsNext]_pkcsVars PROVE PkcsInv'
  OBVIOUS
<1>1. ASSUME NEW m \in Plain, NEW s \in Spare, Encrypt(m, K + s) PROVE PkcsInv'
  BY <1>1, EncryptInv
<1>2. ASSUME NEW b \in Draws, DrawByte(b) PROVE PkcsInv'
  BY <1>2, DrawByteInv
<1>3. CASE DrawFails
  BY <1>3, DrawFailsInv
<1>4. CASE Seal
  BY <1>4, SealInv
<1>5. ASSUME NEW room \in 0 .. 3, NEW len \in {K, K - 1}, Decrypt(room, len) PROVE PkcsInv'
  <2>1. room \in Nat
    OBVIOUS
  <2> QED
    BY <1>5, <2>1, DecryptInv
<1>6. ASSUME NEW h \in Hashes, NEW d \in Digests, NEW s \in Spare, SignHash(h, d, K + s)
      PROVE  PkcsInv'
  BY <1>6, SignHashInv
<1>7. ASSUME NEW h \in Hashes, NEW d \in Digests, NEW len \in {K, K - 1}, VerifyHash(h, d, len)
      PROVE  PkcsInv'
  BY <1>7, VerifyHashInv
<1>8. ASSUME NEW i \in 1 .. K, NEW b \in Damage, Corrupt(i, b) PROVE PkcsInv'
  BY <1>8, CorruptInv
<1>9. CASE UNCHANGED pkcsVars
  BY <1>9 DEF pkcsVars, PkcsInv
<1> QED
  BY <1>1, <1>2, <1>3, <1>4, <1>5, <1>6, <1>7, <1>8, <1>9 DEF PkcsNext

(* pkcs1v15.c: whatever changes on the way, a decryption delivers exactly  *)
(* the message encoded, into a buffer it fits, and refuses everything      *)
(* else; a signature verifies exactly for the encoding of that digest's    *)
(* DigestInfo; and what arrives unchanged is what was sent.                *)
THEOREM Pkcs1PaddingExact == PkcsSpec => []PaddingExact
<1>1. PkcsInit => PkcsInv
  BY PkcsInvInit
<1>2. PkcsInv /\ [PkcsNext]_pkcsVars => PkcsInv'
  BY PkcsInvNext
<1>3. PkcsInv => PaddingExact
  BY PkcsInvGives
<1> QED
  BY <1>1, <1>2, <1>3, PTL DEF PkcsSpec

-----------------------------------------------------------------------------
(* The time conversion.                                                    *)

(* A set of naturals that is not empty has a least element.                *)
LEMMA Least ==
    ASSUME NEW S, S \subseteq Nat, S # {}
    PROVE  \E n \in S : \A m \in S : n <= m
<1>1. 1 \in Nat \ {0}
  OBVIOUS
<1> QED
  BY ONLY <1>1, S \subseteq Nat, S # {}, Data!LeastNat

-----------------------------------------------------------------------------
(* The calendar.                                                           *)

(* A year's end passes a multiple of n if the year is one.                 *)
LEMMA QuotientStep ==
    ASSUME NEW y \in Int
    PROVE  /\ (y \div 4) - ((y - 1) \div 4) = IF y % 4 = 0 THEN 1 ELSE 0
           /\ (y \div 100) - ((y - 1) \div 100) = IF y % 100 = 0 THEN 1 ELSE 0
           /\ (y \div 400) - ((y - 1) \div 400) = IF y % 400 = 0 THEN 1 ELSE 0
           /\ y \div 4 \in Int /\ y \div 100 \in Int /\ y \div 400 \in Int
           /\ y % 400 = 0 => y % 100 = 0
           /\ y % 100 = 0 => y % 4 = 0
<1>1. (y \div 4) - ((y - 1) \div 4) = IF y % 4 = 0 THEN 1 ELSE 0
  OBVIOUS
<1>2. (y \div 100) - ((y - 1) \div 100) = IF y % 100 = 0 THEN 1 ELSE 0
  OBVIOUS
<1>3. (y \div 400) - ((y - 1) \div 400) = IF y % 400 = 0 THEN 1 ELSE 0
  OBVIOUS
<1>4. y \div 4 \in Int /\ y \div 100 \in Int /\ y \div 400 \in Int
  OBVIOUS
<1>5. y % 400 = 0 => y % 100 = 0
  OBVIOUS
<1>6. y % 100 = 0 => y % 4 = 0
  OBVIOUS
<1> QED
  BY <1>1, <1>2, <1>3, <1>4, <1>5, <1>6

(* The formula for the leap years counts each of them.                     *)
LEMMA LeapStep ==
    ASSUME NEW y \in Int
    PROVE  /\ LeapsTo(y) \in Int
           /\ LeapsTo(y) = LeapsTo(y - 1) + (IF YearIsLeap(y) THEN 1 ELSE 0)
<1> DEFINE z == y - 1
           a == y \div 4
           b == y \div 100
           c == y \div 400
           az == z \div 4
           bz == z \div 100
           cz == z \div 400
<1>1. /\ a - az = IF y % 4 = 0 THEN 1 ELSE 0
      /\ b - bz = IF y % 100 = 0 THEN 1 ELSE 0
      /\ c - cz = IF y % 400 = 0 THEN 1 ELSE 0
      /\ a \in Int /\ b \in Int /\ c \in Int
      /\ y % 400 = 0 => y % 100 = 0
      /\ y % 100 = 0 => y % 4 = 0
  BY QuotientStep
<1>2. az \in Int /\ bz \in Int /\ cz \in Int
  OBVIOUS
<1>3. LeapsTo(y) = a - b + c /\ LeapsTo(z) = az - bz + cz
  BY DEF LeapsTo
<1> HIDE DEF a, b, c, az, bz, cz, z
<1>4. /\ LeapsTo(y) \in Int
      /\ LeapsTo(y) = LeapsTo(z) + (IF YearIsLeap(y) THEN 1 ELSE 0)
  BY ONLY <1>1, <1>2, <1>3 DEF YearIsLeap
<1> QED
  BY <1>4 DEF z

FirstYear == 1970 - CacheRange

(* The leap years of a range of years are as many as the formula says.     *)
LEMMA LeapCount ==
    ASSUME NEW a \in Int, NEW b \in Int, FirstYear <= a, a <= b, b <= LastYear + 1
    PROVE  Cardinality(LeapYears \cap (a .. b - 1)) = LeapsTo(b - 1) - LeapsTo(a - 1)
<1> DEFINE L(n) == LeapYears \cap (a .. a + n - 1)
           Counts(n) == /\ IsFiniteSet(L(n))
                        /\ Cardinality(L(n)) = LeapsTo(a + n - 1) - LeapsTo(a - 1)
           S == {n \in Nat : a + n <= LastYear + 1 => Counts(n)}
<1>1. 0 \in S
  <2>1. L(0) = {} /\ a + 0 - 1 = a - 1 /\ a - 1 \in Int
    OBVIOUS
  <2>2. LeapsTo(a - 1) - LeapsTo(a - 1) = 0
    BY <2>1, LeapStep
  <2> HIDE DEF L
  <2> QED
    BY <2>1, <2>2, FS_EmptySet
<1>2. ASSUME NEW n \in Nat, n \in S PROVE n + 1 \in S
  <2> SUFFICES ASSUME a + (n + 1) <= LastYear + 1
               PROVE  Counts(n + 1)
    <3> HIDE DEF Counts
    <3> QED
      OBVIOUS
  <2> DEFINE y == a + n
             x == IF YearIsLeap(y) THEN 1 ELSE 0
  <2>1. y \in Int /\ FirstYear <= y /\ y <= LastYear /\ a + (n + 1) - 1 = y /\ y - 1 = a + n - 1
    BY TimeAssumption DEF FirstYear
  <2>2. IsFiniteSet(L(n)) /\ Cardinality(L(n)) = LeapsTo(y - 1) - LeapsTo(a - 1)
    BY <1>2, <2>1, TimeAssumption
  <2>3. y \notin L(n)
    OBVIOUS
  <2>4. y \in LeapYears <=> YearIsLeap(y)
    BY <2>1 DEF LeapYears, FirstYear
  <2>5. L(n + 1) = IF YearIsLeap(y) THEN L(n) \cup {y} ELSE L(n)
    <3>1. a .. a + (n + 1) - 1 = (a .. a + n - 1) \cup {y}
      BY <2>1
    <3> QED
      BY <2>4, <3>1
  <2> HIDE DEF L, y
  <2>6. IsFiniteSet(L(n + 1)) /\ Cardinality(L(n + 1)) = Cardinality(L(n)) + x
    <3>1. Cardinality(L(n)) \in Nat
      BY <2>2, FS_CardinalityType
    <3> QED
      BY <2>2, <2>3, <2>5, <3>1, FS_AddElement
  <2>7. LeapsTo(y) = LeapsTo(y - 1) + x /\ LeapsTo(y - 1) \in Int /\ LeapsTo(a - 1) \in Int
    BY <2>1, LeapStep
  <2> QED
    BY <2>1, <2>2, <2>6, <2>7
<1> HIDE DEF S
<1>3. \A n \in Nat : n \in S
  BY <1>1, <1>2, Data!SetInduction
<1>4. b - a \in Nat /\ a + (b - a) = b
  OBVIOUS
<1>5. b - a \in S
  BY <1>3, <1>4
<1> QED
  BY <1>4, <1>5 DEF S

(* A year has 365 days, or 366.                                            *)
LEMMA YearStep ==
    ASSUME NEW y \in Int
    PROVE  /\ YearStart(y) \in Int
           /\ YearStart(y + 1) = YearStart(y) + 365 + (IF YearIsLeap(y) THEN 1 ELSE 0)
<1>1. y - 1 \in Int /\ y + 1 - 1 = y /\ 1969 \in Int
  OBVIOUS
<1>2. /\ LeapsTo(y) = LeapsTo(y - 1) + (IF YearIsLeap(y) THEN 1 ELSE 0)
      /\ LeapsTo(y - 1) \in Int /\ LeapsTo(1969) \in Int
  BY <1>1, LeapStep
<1>3. /\ YearStart(y) = 365 * (y - 1970) + LeapsTo(y - 1) - LeapsTo(1969)
      /\ YearStart(y + 1) = 365 * ((y + 1) - 1970) + LeapsTo(y) - LeapsTo(1969)
  BY <1>1 DEF YearStart
<1> QED
  BY <1>2, <1>3

(* The loops over years add up to the formula.                             *)
LEMMA YearDaysIs ==
    ASSUME NEW a \in Int, NEW b \in Int, FirstYear <= a, a <= b, b <= LastYear + 1
    PROVE  YearDays(a, b) = YearStart(b) - YearStart(a)
<1>1. Cardinality(LeapYears \cap (a .. b - 1)) = LeapsTo(b - 1) - LeapsTo(a - 1)
  BY LeapCount
<1>2. LeapsTo(b - 1) \in Int /\ LeapsTo(a - 1) \in Int /\ LeapsTo(1969) \in Int
  <2>1. b - 1 \in Int /\ a - 1 \in Int /\ 1969 \in Int
    OBVIOUS
  <2> QED
    BY <2>1, LeapStep
<1>3. YearDays(a, b) = IF b = a THEN 0 ELSE 365 * (b - a) + (LeapsTo(b - 1) - LeapsTo(a - 1))
  BY <1>1 DEF YearDays
<1> QED
  BY <1>2, <1>3, SMTT(60) DEF YearStart

(* 1970 is the start; k years are between 365 * k and 366 * k days.        *)
LEMMA YearStartBounds ==
    /\ YearStart(1970) = 0
    /\ \A k \in Nat : YearStart(1970 + k) \in Nat
                      /\ 365 * k <= YearStart(1970 + k) /\ YearStart(1970 + k) <= 366 * k
<1>1. YearStart(1970) = 0
  <2>1. LeapsTo(1969) \in Int
    BY LeapStep
  <2> QED
    BY <2>1 DEF YearStart
<1> DEFINE S == {k \in Nat : YearStart(1970 + k) \in Nat
                      /\ 365 * k <= YearStart(1970 + k) /\ YearStart(1970 + k) <= 366 * k}
<1>2. 0 \in S
  BY <1>1
<1>3. ASSUME NEW k \in Nat, k \in S PROVE k + 1 \in S
  <2> DEFINE y == 1970 + k
  <2>1. y \in Int /\ 1970 + (k + 1) = y + 1
    OBVIOUS
  <2>2. YearStart(y + 1) = YearStart(y) + 365 + (IF YearIsLeap(y) THEN 1 ELSE 0)
    BY <2>1, YearStep
  <2> HIDE DEF y
  <2>3. /\ YearStart(y) \in Nat /\ 365 * k <= YearStart(y) /\ YearStart(y) <= 366 * k
    BY <1>3 DEF y
  <2>4. /\ YearStart(y + 1) \in Nat /\ 365 * (k + 1) <= YearStart(y + 1)
        /\ YearStart(y + 1) <= 366 * (k + 1)
    BY <2>2, <2>3
  <2> QED
    BY <2>1, <2>4
<1> HIDE DEF S
<1>4. \A k \in Nat : k \in S
  BY <1>2, <1>3, Data!SetInduction
<1> QED
  BY <1>1, <1>4 DEF S

-----------------------------------------------------------------------------
(* Months.                                                                 *)

(* A month starts where the one before it ends.                            *)
LEMMA MonthStep ==
    ASSUME NEW y \in Int, NEW m \in 1 .. 12
    PROVE  /\ MonthStart(y, m) \in Nat /\ MonthLength(y, m) \in 28 .. 31
           /\ MonthStart(y, m + 1) = MonthStart(y, m) + MonthLength(y, m)
<1> DEFINE l == YearIsLeap(y)
           D(k) == IF k = 2 /\ l THEN 29
                   ELSE <<31, 28, 31, 30, 31, 30, 31, 31, 30, 31, 30, 31>>[k]
           M(k) == <<0, 31, 59, 90, 120, 151, 181, 212, 243, 273, 304, 334, 365>>[k]
                     + IF k > 2 /\ l THEN 1 ELSE 0
<1>1. MonthLength(y, m) = D(m)
  BY DEF MonthLength
<1>2. MonthStart(y, m) = M(m) /\ MonthStart(y, m + 1) = M(m + 1)
  BY DEF MonthStart
<1> HIDE DEF l
<1>3. \/ m = 1 \/ m = 2 \/ m = 3 \/ m = 4 \/ m = 5 \/ m = 6
      \/ m = 7 \/ m = 8 \/ m = 9 \/ m = 10 \/ m = 11 \/ m = 12
  OBVIOUS
<1>4. M(m) \in Nat /\ D(m) \in 28 .. 31 /\ M(m + 1) = M(m) + D(m)
  BY ONLY <1>3
<1> QED
  BY <1>1, <1>2, <1>4

(* The sums that MonthDays makes.                                          *)
MonthSums(y) ==
    CHOOSE g : g = [k \in 1 .. 13 |-> IF k = 1 THEN 0 ELSE g[k - 1] + MonthLength(y, k - 1)]

SumsOf(y, g) == g = [k \in 1 .. 13 |-> IF k = 1 THEN 0 ELSE g[k - 1] + MonthLength(y, k - 1)]

(* The loop over months adds up to the month's start.                      *)
LEMMA MonthDaysIs ==
    ASSUME NEW y \in Int, NEW m \in 1 .. 13
    PROVE  MonthDays(y, m) = MonthStart(y, m)
<1> DEFINE f == [k \in 1 .. 13 |-> MonthStart(y, k)]
           g == MonthSums(y)
<1>0. MonthStart(y, 1) = 0
  BY DEF MonthStart
<1>1. \A k \in 2 .. 13 : MonthStart(y, k) = MonthStart(y, k - 1) + MonthLength(y, k - 1)
  <2> TAKE k \in 2 .. 13
  <2> DEFINE j == k - 1
  <2>1. j \in 1 .. 12 /\ j + 1 = k
    OBVIOUS
  <2> HIDE DEF j
  <2>2. MonthStart(y, j + 1) = MonthStart(y, j) + MonthLength(y, j)
    BY <2>1, MonthStep
  <2> QED
    BY <2>1, <2>2 DEF j
<1>2. SumsOf(y, f)
  <2>1. ASSUME NEW k \in 1 .. 13
        PROVE  f[k] = IF k = 1 THEN 0 ELSE f[k - 1] + MonthLength(y, k - 1)
    <3>1. CASE k = 1
      BY <1>0, <3>1
    <3>2. CASE k # 1
      <4>1. k \in 2 .. 13 /\ k - 1 \in 1 .. 13
        BY <3>2
      <4>2. f[k] = MonthStart(y, k) /\ f[k - 1] = MonthStart(y, k - 1)
        BY <4>1
      <4> HIDE DEF f
      <4> QED
        BY <1>1, <3>2, <4>1, <4>2
    <3> QED
      BY <3>1, <3>2
  <2>2. f = [k \in 1 .. 13 |-> f[k]]
    OBVIOUS
  <2> HIDE DEF f
  <2> QED
    BY <2>1, <2>2 DEF SumsOf
<1>3. SumsOf(y, g)
  BY <1>2 DEF SumsOf, MonthSums
<1>4. MonthDays(y, m) = g[m]
  BY DEF MonthDays, MonthSums
<1> HIDE DEF f, g
<1>5. \A k \in 1 .. 13 : g[k] = IF k = 1 THEN 0 ELSE g[k - 1] + MonthLength(y, k - 1)
  BY <1>3 DEF SumsOf
<1> DEFINE S == {n \in Nat : n + 1 \in 1 .. 13 => g[n + 1] = MonthStart(y, n + 1)}
<1>6. 0 \in S
  <2>1. g[1] = 0
    BY <1>5
  <2> QED
    BY <1>0, <2>1
<1>7. ASSUME NEW n \in Nat, n \in S PROVE n + 1 \in S
  <2> SUFFICES ASSUME (n + 1) + 1 \in 1 .. 13
               PROVE  g[(n + 1) + 1] = MonthStart(y, (n + 1) + 1)
    OBVIOUS
  <2> DEFINE k == n + 2
  <2>1. /\ k \in 2 .. 13 /\ k \in 1 .. 13 /\ k # 1 /\ k = (n + 1) + 1 /\ k - 1 = n + 1
        /\ n + 1 \in 1 .. 13
    OBVIOUS
  <2>2. g[n + 1] = MonthStart(y, n + 1)
    BY <1>7, <2>1
  <2> HIDE DEF k, S
  <2>3. g[k] = g[k - 1] + MonthLength(y, k - 1)
    BY <1>5, <2>1
  <2> QED
    BY <1>1, <2>1, <2>2, <2>3
<1> HIDE DEF S
<1>8. \A n \in Nat : n \in S
  BY <1>6, <1>7, Data!SetInduction
<1>9. m - 1 \in Nat /\ (m - 1) + 1 = m
  OBVIOUS
<1>10. m - 1 \in S
  BY <1>8, <1>9
<1> QED
  BY <1>4, <1>9, <1>10 DEF S

(* A year's months fill it.                                                *)
LEMMA MonthBounds ==
    ASSUME NEW y \in Int
    PROVE  /\ MonthStart(y, 1) = 0
           /\ MonthStart(y, 13) = 365 + (IF YearIsLeap(y) THEN 1 ELSE 0)
BY DEF MonthStart

(* Every day of a year lies in a month.                                    *)
LEMMA MonthOf ==
    ASSUME NEW y \in Int, NEW t \in Nat, t < MonthStart(y, 13)
    PROVE  \E m \in 1 .. 12 : MonthStart(y, m) <= t /\ t < MonthStart(y, m + 1)
<1> DEFINE S == {n \in Nat : n \in 1 .. 13 /\ t < MonthStart(y, n)}
<1>1. 13 \in S
  OBVIOUS
<1>2. PICK n \in S : \A k \in S : n <= k
  <2>1. S \subseteq Nat
    OBVIOUS
  <2> HIDE DEF S
  <2> QED
    BY ONLY <1>1, <2>1, Least
<1>3. n # 1 /\ n \in 1 .. 13 /\ t < MonthStart(y, n)
  <2>1. n \in 1 .. 13 /\ t < MonthStart(y, n)
    OBVIOUS
  <2> QED
    BY <2>1, MonthBounds
<1> DEFINE m == n - 1
<1>4. m \in 1 .. 12 /\ m + 1 = n /\ m \in 1 .. 13 /\ m \in Nat /\ ~ (n <= m)
  BY <1>3
<1> HIDE DEF m
<1>5. ~ (t < MonthStart(y, m))
  BY <1>2, <1>4
<1>6. MonthStart(y, m) \in Nat
  BY <1>4, MonthStep
<1> QED
  BY <1>3, <1>4, <1>5, <1>6

-----------------------------------------------------------------------------
(* A timestamp's date.                                                     *)

(* The years that are looked at for a timestamp.                           *)
Spans == LastYear - CacheRange - 1970
Timely(ts) == ts \in Nat /\ ts < (365 * Spans) * DaySeconds

InYear(t, y)     == YearStart(y) <= t /\ t < YearStart(y + 1)
InMonth(t, y, m) == MonthStart(y, m) <= t /\ t < MonthStart(y, m + 1)

YearOf(t)     == CHOOSE y \in 1970 + (t \div 366) .. 1970 + (t \div 365) :
                    YearDays(1970, y) <= t /\ t < YearDays(1970, y + 1)
MonthIn(t, y) == CHOOSE m \in 1 .. 12 : MonthDays(y, m) <= t /\ t < MonthDays(y, m + 1)

(* The constants: the last year is so many spans behind the first one.     *)
LEMMA SpansFacts ==
    /\ Spans \in Nat /\ 365 * Spans \in Nat /\ DaySeconds \in Nat \ {0}
    /\ CacheRange \in Nat /\ LastYear \in Nat /\ LastYear = 1970 + CacheRange + Spans
    /\ LastYear >= 2049
BY TimeAssumption DEF Spans

(* Day and second of a timestamp.                                          *)
LEMMA DayFacts ==
    ASSUME NEW ts, Timely(ts)
    PROVE  /\ ts \div DaySeconds \in Nat /\ ts \div DaySeconds < 365 * Spans
           /\ ts % DaySeconds \in Nat /\ ts % DaySeconds < DaySeconds
           /\ ts = (ts \div DaySeconds) * DaySeconds + (ts % DaySeconds)
<1> DEFINE D == DaySeconds
           t == ts \div D
           N == 365 * Spans
<1>1. D \in Nat \ {0} /\ N \in Nat /\ ts \in Nat /\ ts < N * D
  BY SpansFacts DEF Timely
<1> HIDE DEF N, D
<1>2. t \in Nat /\ ts % D \in Nat /\ ts % D < D /\ ts = t * D + (ts % D)
  BY <1>1, Data!DivModSplit
<1>3. t * D \in Nat /\ t * D < N * D
  BY <1>1, <1>2, Data!MultOrder
<1> HIDE DEF t
<1>4. t < N
  BY ONLY <1>1, <1>2, <1>3, Data!MultOrder
<1> QED
  BY <1>2, <1>4 DEF t, N, D

(* The year a day lies in.                                                 *)
LEMMA YearOfDay ==
    ASSUME NEW t \in Nat, t < 365 * Spans
    PROVE  /\ YearOf(t) \in Nat /\ 1970 <= YearOf(t) /\ YearOf(t) + CacheRange < LastYear
           /\ InYear(t, YearOf(t))
<1> DEFINE S == {k \in Nat : t < YearStart(1970 + (k + 1))}
           R == 1970 + (t \div 366) .. 1970 + (t \div 365)
<1>1. t \in S
  <2>1. t + 1 \in Nat
    OBVIOUS
  <2>2. 365 * (t + 1) <= YearStart(1970 + (t + 1)) /\ YearStart(1970 + (t + 1)) \in Nat
    BY <2>1, YearStartBounds
  <2> QED
    BY <2>2
<1>2. PICK n \in S : \A k \in S : n <= k
  <2>1. S \subseteq Nat
    OBVIOUS
  <2> HIDE DEF S
  <2>2. S # {}
    BY <1>1
  <2> QED
    BY ONLY <2>1, <2>2, Least
<1>3. n \in Nat /\ t < YearStart(1970 + (n + 1))
  OBVIOUS
<1>4. YearStart(1970 + n) <= t /\ YearStart(1970 + n) \in Nat
  <2>1. CASE n = 0
    BY <2>1, YearStartBounds
  <2>2. CASE n # 0
    <3> DEFINE k == n - 1
    <3>1. k \in Nat /\ k + 1 = n /\ ~ (n <= k)
      BY <1>3, <2>2
    <3> HIDE DEF k
    <3>2. ~ (t < YearStart(1970 + (k + 1)))
      BY <1>2, <3>1
    <3>3. YearStart(1970 + n) \in Nat
      BY <1>3, YearStartBounds
    <3> QED
      BY <3>1, <3>2, <3>3
  <2> QED
    BY <2>1, <2>2
<1> DEFINE y == 1970 + n
<1>5. InYear(t, y)
  BY <1>3, <1>4 DEF InYear
<1>6. y \in R
  <2>1. 365 * n <= YearStart(1970 + n) /\ YearStart(1970 + (n + 1)) <= 366 * (n + 1)
        /\ YearStart(1970 + (n + 1)) \in Nat
    BY <1>3, YearStartBounds
  <2>2. 365 * n <= t /\ t < 366 * (n + 1)
    BY <1>3, <1>4, <2>1
  <2>3. t \div 366 <= n /\ n <= t \div 365
    BY <1>3, <2>2
  <2> QED
    BY <1>3, <2>3
<1>7. ASSUME NEW z \in R
      PROVE  /\ z \in Nat /\ 1970 <= z /\ z + CacheRange < LastYear
             /\ YearDays(1970, z) = YearStart(z) /\ YearDays(1970, z + 1) = YearStart(z + 1)
  <2> DEFINE u == t \div 366
             v == t \div 365
  <2>1. u \in Nat /\ v \in Nat /\ v < Spans
    BY SpansFacts
  <2>2. z \in Nat /\ 1970 + u <= z /\ z <= 1970 + v
    BY <2>1
  <2> HIDE DEF u, v
  <2>3. /\ 1970 <= z /\ z + CacheRange < LastYear /\ z + 1 <= LastYear + 1 /\ z <= LastYear + 1
        /\ FirstYear <= 1970 /\ z \in Int /\ z + 1 \in Int /\ 1970 <= z + 1 /\ 1970 \in Int
    BY <2>1, <2>2, SpansFacts DEF FirstYear
  <2>4. /\ YearDays(1970, z) = YearStart(z) - YearStart(1970)
        /\ YearDays(1970, z + 1) = YearStart(z + 1) - YearStart(1970)
    BY <2>3, YearDaysIs
  <2>5. YearStart(z) \in Int /\ YearStart(z + 1) \in Int
    BY <2>3, YearStep
  <2> QED
    BY <2>2, <2>3, <2>4, <2>5, YearStartBounds
<1> HIDE DEF R, y
<1>8. \E z \in R : YearDays(1970, z) <= t /\ t < YearDays(1970, z + 1)
  BY <1>5, <1>6, <1>7 DEF InYear
<1>9. YearOf(t) \in R /\ YearDays(1970, YearOf(t)) <= t /\ t < YearDays(1970, YearOf(t) + 1)
  BY <1>8 DEF YearOf, R
<1> QED
  BY <1>7, <1>9 DEF InYear

(* The month a day of a year lies in.                                      *)
LEMMA MonthOfDay ==
    ASSUME NEW y \in Int, NEW t \in Nat, t < MonthStart(y, 13)
    PROVE  MonthIn(t, y) \in 1 .. 12 /\ InMonth(t, y, MonthIn(t, y))
<1>1. \A m \in 1 .. 12 : /\ MonthDays(y, m) = MonthStart(y, m)
                         /\ MonthDays(y, m + 1) = MonthStart(y, m + 1)
  <2> TAKE m \in 1 .. 12
  <2>1. m \in 1 .. 13 /\ m + 1 \in 1 .. 13
    OBVIOUS
  <2> QED
    BY <2>1, MonthDaysIs
<1>2. \E m \in 1 .. 12 : MonthDays(y, m) <= t /\ t < MonthDays(y, m + 1)
  BY <1>1, MonthOf
<1> DEFINE m == MonthIn(t, y)
<1>3. m \in 1 .. 12 /\ MonthDays(y, m) <= t /\ t < MonthDays(y, m + 1)
  BY <1>2 DEF MonthIn
<1> QED
  BY <1>1, <1>3 DEF InMonth

(* What DateOf gives is a date that exists and the timestamp's own.        *)
LEMMA DateFacts ==
    ASSUME NEW ts, Timely(ts), NEW e, e = DateOf(ts)
    PROVE  /\ e = [y |-> e.y, m |-> e.m, d |-> e.d, s |-> e.s]
           /\ e.y \in Nat /\ 1970 <= e.y /\ e.y + CacheRange < LastYear
           /\ e.m \in 1 .. 12 /\ e.d \in 1 .. MonthLength(e.y, e.m)
           /\ e.s \in Nat /\ e.s < DaySeconds
           /\ YearStart(e.y) <= ts \div DaySeconds /\ ts \div DaySeconds < YearStart(e.y + 1)
           /\ ts = (YearStart(e.y) + MonthStart(e.y, e.m) + e.d - 1) * DaySeconds + e.s
<1> DEFINE D == DaySeconds
           t == ts \div D
           s == ts % D
           y == YearOf(t)
           i == t - YearDays(1970, y)
           m == MonthIn(i, y)
           d == i - MonthDays(y, m) + 1
<1>1. e = [y |-> y, m |-> m, d |-> d, s |-> s]
  BY DEF DateOf, YearOf, MonthIn
<1>2. /\ t \in Nat /\ t < 365 * Spans /\ s \in Nat /\ s < D /\ ts = t * D + s
  BY DayFacts
<1> HIDE DEF D, t, s
<1>3. y \in Nat /\ 1970 <= y /\ y + CacheRange < LastYear /\ InYear(t, y)
  BY <1>2, YearOfDay
<1> HIDE DEF y
<1>4. i = t - YearStart(y)
  <2>1. 1970 \in Int /\ y \in Int /\ FirstYear <= 1970 /\ y <= LastYear + 1
    BY <1>3, SpansFacts DEF FirstYear
  <2>2. YearDays(1970, y) = YearStart(y) - YearStart(1970)
    BY <1>3, <2>1, YearDaysIs
  <2>3. YearStart(y) \in Int
    BY <2>1, YearStep
  <2> QED
    BY <2>2, <2>3, YearStartBounds
<1> HIDE DEF i
<1>5. i \in Nat /\ i < MonthStart(y, 13) /\ YearStart(y) \in Int
  <2>1. /\ YearStart(y) \in Int /\ YearStart(y + 1) = YearStart(y) + MonthStart(y, 13)
    BY <1>3, YearStep, MonthBounds
  <2>2. MonthStart(y, 13) \in Int
    BY <1>3, MonthBounds
  <2> QED
    BY <1>2, <1>3, <1>4, <2>1, <2>2 DEF InYear
<1>6. m \in 1 .. 12 /\ InMonth(i, y, m)
  BY <1>3, <1>5, MonthOfDay
<1> HIDE DEF m
<1>7. MonthDays(y, m) = MonthStart(y, m)
  BY <1>3, <1>6, MonthDaysIs
<1>8. d \in 1 .. MonthLength(y, m) /\ i = MonthStart(y, m) + d - 1 /\ MonthStart(y, m) \in Nat
  <2>0. y \in Int /\ m \in 1 .. 12
    BY <1>3, <1>6
  <2>1. /\ MonthStart(y, m) \in Nat /\ MonthLength(y, m) \in 28 .. 31
        /\ MonthStart(y, m + 1) = MonthStart(y, m) + MonthLength(y, m)
    BY ONLY <2>0, MonthStep
  <2>2. d = i - MonthStart(y, m) + 1
    BY <1>7
  <2> HIDE DEF d
  <2> QED
    BY <1>5, <1>6, <2>1, <2>2 DEF InMonth
<1> HIDE DEF d
<1>9. t = YearStart(y) + MonthStart(y, m) + d - 1
  BY <1>2, <1>4, <1>5, <1>8
<1> QED
  BY <1>1, <1>2, <1>3, <1>6, <1>8, <1>9 DEF InYear, t, D

-----------------------------------------------------------------------------
(* The cache.                                                              *)

(* A loop over years counts up.                                            *)
LEMMA YearDaysType ==
    ASSUME NEW a, NEW b, a \in Int, b \in Int
    PROVE  YearDays(a, b) \in Nat
<1> DEFINE L == LeapYears \cap (a .. b - 1)
<1>1. Cardinality(L) \in Nat
  <2>1. IsFiniteSet(a .. b - 1)
    BY FS_Interval
  <2>2. IsFiniteSet(L)
    BY <2>1, FS_Subset
  <2> QED
    BY <2>2, FS_CardinalityType
<1>2. YearDays(a, b) = IF b <= a THEN 0 ELSE 365 * (b - a) + Cardinality(L)
  BY DEF YearDays
<1> HIDE DEF L
<1> QED
  BY <1>1, <1>2

(* Later years start later.                                                *)
LEMMA YearOrder ==
    ASSUME NEW a \in Int, NEW b \in Int, FirstYear <= a, a <= b, b <= LastYear + 1
    PROVE  YearStart(a) <= YearStart(b) /\ YearStart(a) \in Int /\ YearStart(b) \in Int
<1>1. YearStart(a) \in Int /\ YearStart(b) \in Int
  BY YearStep
<1>2. YearStart(b) - YearStart(a) \in Nat
  BY YearDaysIs, YearDaysType
<1> QED
  BY <1>1, <1>2

(* The injected times and the clock's, but for time() failing.             *)
LEMMA TimesTimely ==
    ASSUME NEW ts, ts \in {0} \cup Injected \/ (ts \in Clocks /\ ts # NoTime)
    PROVE  Timely(ts)
<1> DEFINE N == 365 * Spans
           D == DaySeconds
<1>1. N \in Nat /\ 0 < N /\ D \in Nat \ {0}
  BY SpansFacts, TimeAssumption DEF Spans
<1>2. \A z \in Clocks \cup Injected : z < N * D
  BY TimeAssumption DEF Spans
<1>3. ts \in Nat
  <2>1. CASE ts \in {0} \cup Injected
    BY <2>1, TimeAssumption
  <2>2. CASE ts \in Clocks /\ ts # NoTime
    <3>1. ts \in Int /\ ts >= -1 /\ ts # -1
      BY <2>2, TimeAssumption DEF NoTime
    <3> QED
      BY <3>1
  <2> QED
    BY <2>1, <2>2
<1> HIDE DEF N, D
<1>4. 0 * D < N * D /\ 0 * D = 0
  <2>1. 0 \in Nat
    OBVIOUS
  <2> QED
    BY ONLY <1>1, <2>1, Data!MultOrder
<1>5. ts < N * D
  BY <1>2, <1>4
<1> QED
  BY <1>3, <1>5 DEF Timely, N, D

(* The year the cache is centred on.                                       *)
Centre == IF CurrentYear = 0 THEN 1970 ELSE CurrentYear

(* It is known when a time is injected.                                    *)
LEMMA CentreFacts ==
    ASSUME TimeTypeOK
    PROVE  /\ Centre \in Nat /\ 1970 <= Centre /\ Centre + CacheRange < LastYear
           /\ user.set => Centre = DateOf(user.ts).y
<1>1. CASE user.set
  <2>1. Timely(user.ts)
    BY TimesTimely DEF TimeTypeOK
  <2> DEFINE e == DateOf(user.ts)
  <2>2. e.y \in Nat /\ 1970 <= e.y /\ e.y + CacheRange < LastYear
    <3>1. e = DateOf(user.ts)
      OBVIOUS
    <3> HIDE DEF e
    <3> QED
      BY <2>1, <3>1, DateFacts
  <2>3. CurrentYear = e.y
    BY <1>1 DEF CurrentYear
  <2> QED
    BY <2>2, <2>3 DEF Centre
<1>2. CASE ~ user.set /\ clock = NoTime
  <2>1. CurrentYear = 0
    BY <1>2 DEF CurrentYear
  <2> QED
    BY <1>2, <2>1, SpansFacts, TimeAssumption DEF Centre
<1>3. CASE ~ user.set /\ clock # NoTime
  <2>1. Timely(clock)
    BY <1>3, TimesTimely DEF TimeTypeOK
  <2> DEFINE e == DateOf(clock)
  <2>2. e.y \in Nat /\ 1970 <= e.y /\ e.y + CacheRange < LastYear
    <3>1. e = DateOf(clock)
      OBVIOUS
    <3> HIDE DEF e
    <3> QED
      BY <2>1, <3>1, DateFacts
  <2>3. CurrentYear = e.y
    BY <1>3 DEF CurrentYear
  <2> QED
    BY <1>3, <2>2, <2>3 DEF Centre
<1> QED
  BY <1>1, <1>2, <1>3

(* No time is so early that the cache would reach back before 1970.        *)
LateTimes ==
    \A ts \in Clocks \cup (Injected \ {0}) : ts >= YearStart(1970 + CacheRange) * DaySeconds

(* Then its centre is late enough.                                         *)
LEMMA LateYear ==
    ASSUME LateTimes, NEW ts \in Clocks \cup (Injected \ {0})
    PROVE  ts # NoTime /\ 1970 + CacheRange <= DateOf(ts).y
<1> DEFINE D == DaySeconds
           Y == YearStart(1970 + CacheRange)
           t == ts \div D
           e == DateOf(ts)
<1>1. Y \in Nat /\ D \in Nat \ {0} /\ ts >= Y * D /\ Y * D \in Nat
  <2>1. Y \in Nat /\ D \in Nat \ {0}
    BY SpansFacts, YearStartBounds
  <2>2. ts >= Y * D
    BY DEF LateTimes
  <2> HIDE DEF Y, D
  <2> QED
    BY <2>1, <2>2, Data!MultOrder
<1>2. ts # NoTime
  BY <1>1 DEF NoTime
<1>3. Timely(ts)
  BY <1>2, TimesTimely
<1>4. t \in Nat /\ ts = t * D + (ts % D) /\ ts % D < D /\ ts % D \in Nat
  BY <1>3, DayFacts
<1>5. Y <= t
  <2> HIDE DEF Y, D, t
  <2>1. t + 1 \in Nat /\ (t + 1) * D = t * D + D /\ t * D \in Nat
    BY <1>1, <1>4
  <2>2. Y * D < (t + 1) * D
    BY <1>1, <1>4, <2>1
  <2>3. Y < t + 1
    BY ONLY <1>1, <2>1, <2>2, Data!MultOrder
  <2> QED
    BY <1>1, <1>4, <2>3
<1>6. e.y \in Nat /\ 1970 <= e.y /\ e.y + CacheRange < LastYear /\ t < YearStart(e.y + 1)
  <2>1. e = DateOf(ts)
    OBVIOUS
  <2> HIDE DEF e
  <2> QED
    BY <1>3, <2>1, DateFacts
<1> HIDE DEF e, t, Y
<1>7. 1970 + CacheRange <= e.y
  <2> SUFFICES ASSUME e.y + 1 <= 1970 + CacheRange PROVE FALSE
    BY <1>6, SpansFacts
  <2>1. /\ e.y + 1 \in Int /\ 1970 + CacheRange \in Int /\ FirstYear <= e.y + 1
        /\ 1970 + CacheRange <= LastYear + 1
    BY <1>6, SpansFacts DEF FirstYear
  <2>2. YearStart(e.y + 1) <= Y /\ YearStart(e.y + 1) \in Int
    BY <2>1, YearOrder DEF Y
  <2> QED
    BY <1>1, <1>4, <1>5, <1>6, <2>2
<1> QED
  BY <1>2, <1>7 DEF e

(* The days of a cache are the calendar's.                                 *)
Faithful(c) == \A i \in 0 .. 2 * CacheRange : c.days[i] = YearStart(c.start + i)

CacheType == [ready : BOOLEAN, start : Int, days : [0 .. 2 * CacheRange -> Nat]]

(* What init_cache makes.                                                  *)
LEMMA FilledFacts ==
    ASSUME TimeTypeOK
    PROVE  /\ Filled \in CacheType /\ Filled.ready /\ Filled.start = Centre - CacheRange
           /\ 1970 + CacheRange <= Centre => Faithful(Filled)
<1> DEFINE start == Centre - CacheRange
           days == [i \in 0 .. CacheElements - 1 |->
                       YearDays(1970, start) + YearDays(start, start + i)]
<1>1. Filled = [ready |-> TRUE, start |-> start, days |-> days]
  BY DEF Filled, Centre
<1>2. Centre \in Nat /\ 1970 <= Centre /\ Centre + CacheRange < LastYear
  BY CentreFacts
<1>3. start \in Int /\ 0 .. CacheElements - 1 = 0 .. 2 * CacheRange
  BY <1>2, SpansFacts DEF CacheElements
<1>4. ASSUME NEW i \in 0 .. 2 * CacheRange
      PROVE  days[i] \in Nat
  <2> DEFINE z == start + i
  <2>1. start \in Int /\ z \in Int /\ 1970 \in Int
    BY <1>3, SpansFacts
  <2>2. days[i] = YearDays(1970, start) + YearDays(start, z)
    BY <1>3, ZenonT(60)
  <2> HIDE DEF start, z, days
  <2>3. YearDays(start, z) \in Nat
    BY <2>1, YearDaysType
  <2>4. YearDays(1970, start) \in Nat
    <3> DEFINE first == 1970
    <3>1. first \in Int
      OBVIOUS
    <3> HIDE DEF first
    <3>2. YearDays(first, start) \in Nat
      BY <2>1, <3>1, YearDaysType
    <3> QED
      BY <3>2 DEF first
  <2> QED
    BY <2>2, <2>3, <2>4
<1>5. Filled \in CacheType
  <2>1. days = [i \in 0 .. 2 * CacheRange |-> days[i]]
    BY <1>3
  <2> HIDE DEF days, start
  <2>2. days \in [0 .. 2 * CacheRange -> Nat]
    BY <1>4, <2>1
  <2> QED
    BY <1>1, <1>3, <2>2 DEF CacheType
<1>6. ASSUME 1970 + CacheRange <= Centre, NEW i \in 0 .. 2 * CacheRange
      PROVE  days[i] = YearStart(start + i)
  <2> DEFINE z == start + i
  <2>1. /\ z \in Int /\ 1970 \in Int /\ FirstYear <= 1970 /\ 1970 <= start /\ start <= z
        /\ z <= LastYear + 1 /\ start <= LastYear + 1 /\ FirstYear <= start
    BY <1>2, <1>3, <1>6, SpansFacts DEF FirstYear
  <2>2. days[i] = YearDays(1970, start) + YearDays(start, z)
    BY <1>3, ZenonT(60)
  <2> HIDE DEF start, z, days
  <2>3. /\ YearDays(1970, start) = YearStart(start) - YearStart(1970)
        /\ YearDays(start, z) = YearStart(z) - YearStart(start)
    BY <1>3, <2>1, YearDaysIs
  <2>4. YearStart(z) \in Int /\ YearStart(start) \in Int
    BY <1>3, <2>1, YearStep
  <2>5. days[i] = YearStart(z)
    BY <2>2, <2>3, <2>4, YearStartBounds
  <2> QED
    BY <2>5 DEF z
<1> HIDE DEF days, start
<1> QED
  BY <1>1, <1>5, <1>6 DEF Faithful, start

(* The cache a conversion uses.                                            *)
LEMMA UsedFacts ==
    ASSUME TimeTypeOK
    PROVE  /\ Used \in CacheType /\ Used.ready
           /\ Used.start = IF cache.ready THEN cache.start ELSE Centre - CacheRange
           /\ (cache.ready => Faithful(cache)) /\ 1970 + CacheRange <= Centre => Faithful(Used)
<1>1. cache \in CacheType
  BY DEF TimeTypeOK, CacheType
<1>2. Used = IF cache.ready THEN cache ELSE Filled
  BY DEF Used
<1>3. /\ Filled \in CacheType /\ Filled.ready /\ Filled.start = Centre - CacheRange
      /\ 1970 + CacheRange <= Centre => Faithful(Filled)
  BY FilledFacts
<1>4. CASE cache.ready
  BY <1>1, <1>2, <1>4
<1>5. CASE ~ cache.ready
  BY <1>2, <1>3, <1>5
<1> QED
  BY <1>4, <1>5

-----------------------------------------------------------------------------
(* A conversion.                                                           *)

Days == [y : Int, m : Int, d : Int, s : Nat]

(* The checks on a date let through the dates that exist.                  *)
LEMMA TakenIs ==
    ASSUME NEW d \in Days
    PROVE  Taken(d) <=> Exists(d)
<1>1. d.y \in Int /\ d.m \in Int
  BY DEF Days
<1>2. CASE d.m \in 1 .. 12
  <2> DEFINE y == d.y
             m == d.m
  <2>1. y \in Int /\ m \in 1 .. 12
    BY <1>1, <1>2
  <2>2. MonthLength(y, m) = MonthStart(y, m + 1) - MonthStart(y, m)
    <3> HIDE DEF y, m
    <3>1. /\ MonthStart(y, m) \in Nat /\ MonthLength(y, m) \in 28 .. 31
          /\ MonthStart(y, m + 1) = MonthStart(y, m) + MonthLength(y, m)
      BY <2>1, MonthStep
    <3> QED
      BY <3>1
  <2> QED
    BY <2>2 DEF Taken, Exists
<1>3. CASE d.m \notin 1 .. 12
  BY <1>3 DEF Taken, Exists
<1> QED
  BY <1>2, <1>3

(* With a faithful cache a conversion is the calendar's.                   *)
LEMMA StampExact ==
    ASSUME NEW c, c \in CacheType, Faithful(c), NEW d, d \in Days, d.y <= LastYear
    PROVE  Stamp(c, d) = ExactStamp(d)
<1>1. Taken(d) <=> Exists(d)
  BY TakenIs
<1>2. CASE ~ Taken(d)
  BY <1>1, <1>2 DEF Stamp, ExactStamp
<1>3. CASE Taken(d)
  <2> DEFINE y == d.y
             m == d.m
             i == y - c.start
  <2>1. /\ y \in Int /\ 1970 <= y /\ y <= LastYear /\ c.start \in Int
        /\ m \in 1 .. 13
    <3>1. d.y >= 1970 /\ d.m \in 1 .. 12
      BY <1>3 DEF Taken
    <3>2. c.start \in Int /\ d.y \in Int
      BY DEF CacheType, Days
    <3>3. d.y \in Int /\ 1970 <= d.y
      BY ONLY <3>1, <3>2
    <3>4. d.m \in 1 .. 13
      BY ONLY <3>1
    <3> QED
      BY <3>2, <3>3, <3>4
  <2>2. DaysBeforeYear(c, y) = YearStart(y)
    <3> HIDE DEF y, m
    <3>1. CASE i \in 0 .. CacheElements - 1
      <4>1. i \in 0 .. 2 * CacheRange
        BY <3>1, SpansFacts DEF CacheElements
      <4>3. c.start + i = y
        BY <2>1
      <4> HIDE DEF i
      <4>2. c.days[i] = YearStart(y)
        BY <4>1, <4>3 DEF Faithful
      <4> QED
        BY <3>1, <4>2 DEF DaysBeforeYear, i
    <3>2. CASE ~ (i \in 0 .. CacheElements - 1)
      <4>1. /\ y \in Int /\ 1970 \in Int /\ FirstYear <= 1970 /\ 1970 <= y /\ y <= LastYear + 1
        BY <2>1, SpansFacts DEF FirstYear
      <4>2. DaysBeforeYear(c, y) = YearDays(1970, y)
        BY <3>2 DEF DaysBeforeYear
      <4> HIDE DEF i
      <4>3. YearDays(1970, y) = YearStart(y) - YearStart(1970)
        BY <4>1, YearDaysIs
      <4>4. YearStart(y) \in Int
        BY <4>1, YearStep
      <4> QED
        BY <4>2, <4>3, <4>4, YearStartBounds
    <3> QED
      BY <3>1, <3>2
  <2>3. MonthDays(y, m) = MonthStart(y, m)
    <3> HIDE DEF y, m
    <3> QED
      BY <2>1, MonthDaysIs
  <2> QED
    BY <1>1, <1>3, <2>2, <2>3 DEF Stamp, ExactStamp
<1> QED
  BY <1>2, <1>3

(* A timestamp's own date converts back to it.                             *)
LEMMA DateBack ==
    ASSUME NEW ts, Timely(ts), NEW e, e = DateOf(ts), e.y <= 9999
    PROVE  ExactStamp(e) = ts
<1>1. /\ e = [y |-> e.y, m |-> e.m, d |-> e.d, s |-> e.s]
      /\ e.y \in Nat /\ 1970 <= e.y
      /\ e.m \in 1 .. 12 /\ e.d \in 1 .. MonthLength(e.y, e.m)
      /\ e.s \in Nat /\ e.s < DaySeconds
      /\ ts = (YearStart(e.y) + MonthStart(e.y, e.m) + e.d - 1) * DaySeconds + e.s
  BY DateFacts
<1>2. MonthLength(e.y, e.m) \in 28 .. 31
  <2> DEFINE y == e.y
             m == e.m
  <2>1. y \in Int /\ m \in 1 .. 12
    BY <1>1
  <2> HIDE DEF y, m
  <2>2. /\ MonthStart(y, m) \in Nat /\ MonthLength(y, m) \in 28 .. 31
        /\ MonthStart(y, m + 1) = MonthStart(y, m) + MonthLength(y, m)
    BY ONLY <2>1, MonthStep
  <2> QED
    BY <2>2 DEF y, m
<1>3. e \in Days /\ e.d \in Int
  BY <1>1, <1>2 DEF Days
<1>4. Taken(e)
  <2>1. e.y \in Nat /\ 1970 <= e.y
    BY <1>1
  <2>2. e.y >= 1970 /\ e.y <= 9999
    BY <2>1
  <2>3. e.m \in 1 .. 12 /\ e.d \in 1 .. MonthLength(e.y, e.m) /\ e.s < DaySeconds
    BY <1>1
  <2> QED
    BY ONLY <2>2, <2>3 DEF Taken
<1>5. Exists(e)
  BY <1>3, <1>4, TakenIs
<1> QED
  BY <1>1, <1>5 DEF ExactStamp

(* Two digits tell the years 1970 to 2049.                                 *)
LEMMA TwoDigits ==
    ASSUME NEW y \in Int
    PROVE  /\ FullYear(y % 100) \in Int /\ FullYear(y % 100) <= 2049
           /\ 1970 <= y /\ y <= 2049 => FullYear(y % 100) = y
<1>1. y % 100 \in Int /\ 0 <= y % 100 /\ y % 100 <= 99
  OBVIOUS
<1>2. 1970 <= y /\ y <= 1999 => y % 100 = y - 1900
  OBVIOUS
<1>3. 2000 <= y /\ y <= 2049 => y % 100 = y - 2000
  OBVIOUS
<1> HIDE DEF FullYear
<1>4. FullYear(y % 100) = IF y % 100 >= 50 THEN 1900 + (y % 100) ELSE 2000 + (y % 100)
  BY DEF FullYear
<1> QED
  BY <1>1, <1>2, <1>3, <1>4

-----------------------------------------------------------------------------
(* The invariants.                                                         *)

(* With types: an injected time is not 0, and a filled cache is centred on *)
(* it.                                                                     *)
AsnInv ==
    /\ TimeTypeOK
    /\ user.set => user.ts # 0
    /\ user.set /\ cache.ready => cache.start = DateOf(user.ts).y - CacheRange
    /\ InjectedRules

(* For late times, what is in the cache is the calendar.                   *)
LateInv ==
    /\ cache.ready => Faithful(cache)
    /\ ConversionsExact
    /\ UtcRoundTrip

(* No time injected, nothing cached, nothing answered.                     *)
LEMMA AsnInvInit == TimeInit => AsnInv /\ LateInv
<1> SUFFICES ASSUME TimeInit PROVE AsnInv /\ LateInv
  OBVIOUS
<1>1. /\ clock \in Clocks /\ user = [set |-> FALSE, ts |-> 0]
      /\ cache = EmptyCache /\ told.op = "none"
  BY DEF TimeInit, NoAnswer
<1>2. cache \in CacheType /\ cache.ready = FALSE
  BY <1>1, SpansFacts DEF EmptyCache, CacheType, CacheElements
<1>3. user \in [set : BOOLEAN, ts : {0} \cup Injected]
  BY <1>1
<1>4. TimeTypeOK
  BY <1>1, <1>2, <1>3 DEF TimeTypeOK, CacheType
<1> QED
  BY <1>1, <1>2, <1>4 DEF AsnInv, LateInv, InjectedRules, ConversionsExact, UtcRoundTrip

(* The cache in use, for the invariant of the next state.                  *)
LEMMA UsedCache ==
    ASSUME AsnInv
    PROVE  /\ Used \in CacheType /\ Used.ready
           /\ user.set => Used.start = DateOf(user.ts).y - CacheRange
           /\ LateTimes /\ LateInv => Faithful(Used)
<1>1. /\ Used \in CacheType /\ Used.ready
      /\ Used.start = IF cache.ready THEN cache.start ELSE Centre - CacheRange
      /\ (cache.ready => Faithful(cache)) /\ 1970 + CacheRange <= Centre => Faithful(Used)
  BY UsedFacts DEF AsnInv
<1>2. user.set => Centre = DateOf(user.ts).y
  BY CentreFacts DEF AsnInv
<1>3. user.set => Used.start = DateOf(user.ts).y - CacheRange
  BY <1>1, <1>2 DEF AsnInv
<1>4. ASSUME LateTimes PROVE 1970 + CacheRange <= Centre
  <2>1. CASE user.set
    <3>1. user.ts \in Clocks \cup (Injected \ {0})
      BY <2>1 DEF AsnInv, TimeTypeOK
    <3> DEFINE z == user.ts
    <3> HIDE DEF z
    <3>2. 1970 + CacheRange <= DateOf(z).y
      BY <1>4, <3>1, LateYear DEF z
    <3> QED
      BY <1>2, <2>1, <3>2 DEF z
  <2>2. CASE ~ user.set
    <3>1. clock \in Clocks \cup (Injected \ {0})
      BY DEF AsnInv, TimeTypeOK
    <3>2. clock # NoTime /\ 1970 + CacheRange <= DateOf(clock).y
      BY <1>4, <3>1, LateYear
    <3>3. CurrentYear = DateOf(clock).y
      BY <2>2, <3>2 DEF CurrentYear
    <3>4. Timely(clock)
      BY <3>2, TimesTimely DEF AsnInv, TimeTypeOK
    <3> DEFINE e == DateOf(clock)
    <3>5. e.y \in Nat /\ 1970 <= e.y
      <4>1. e = DateOf(clock)
        OBVIOUS
      <4> HIDE DEF e
      <4> QED
        BY <3>4, <4>1, DateFacts
    <3>6. ~ (CurrentYear = 0)
      BY <3>3, <3>5
    <3> QED
      BY <3>2, <3>3, <3>6 DEF Centre
  <2> QED
    BY <2>1, <2>2
<1> QED
  BY <1>1, <1>3, <1>4 DEF LateInv

(* A step that changes cache and answer only.                              *)
LEMMA SameTimes ==
    ASSUME AsnInv, UNCHANGED <<clock, user>>, cache' \in {cache, Used},
           told'.op \in {"none", "stamp", "range", "now", "utc", "gen"},
           told'.op = "now" /\ user.set => told'.rc = "OK" /\ told'.ts = user.ts,
           told'.op = "range" => /\ told'.from = Used.start
                                /\ told'.to = Used.start + CacheElements - 1
    PROVE  /\ AsnInv'
           /\ LateTimes /\ LateInv => (cache.ready => Faithful(cache))'
<1>1. /\ Used \in CacheType /\ Used.ready
      /\ user.set => Used.start = DateOf(user.ts).y - CacheRange
      /\ LateTimes /\ LateInv => Faithful(Used)
  BY UsedCache
<1>2. TimeTypeOK /\ (user.set => user.ts # 0)
      /\ (user.set /\ cache.ready => cache.start = DateOf(user.ts).y - CacheRange)
  BY DEF AsnInv
<1>3. clock' = clock /\ user' = user
  OBVIOUS
<1>4. TimeTypeOK'
  BY <1>1, <1>2, <1>3 DEF TimeTypeOK, CacheType
<1>5. user.set /\ cache'.ready => cache'.start = DateOf(user.ts).y - CacheRange
  BY <1>1, <1>2
<1>6. InjectedRules'
  <2> SUFFICES ASSUME user.set, told'.op = "range"
               PROVE  /\ told'.from = DateOf(user.ts).y - CacheRange
                      /\ told'.to = DateOf(user.ts).y + CacheRange
    BY <1>3 DEF InjectedRules, DateOf
  <2> DEFINE y == DateOf(user.ts).y
             s == Used.start
  <2>1. told'.from = s /\ told'.to = s + CacheElements - 1 /\ s = y - CacheRange
    BY <1>1
  <2>2. y = Centre /\ Centre \in Nat
    BY <1>2, CentreFacts
  <2> HIDE DEF y, s
  <2>3. s + CacheElements - 1 = y + CacheRange
    BY <2>1, <2>2, SpansFacts DEF CacheElements
  <2> QED
    BY <2>1, <2>3 DEF y
<1>7. AsnInv'
  BY <1>2, <1>3, <1>4, <1>5, <1>6 DEF AsnInv, DateOf
<1>8. LateTimes /\ LateInv => (cache'.ready => Faithful(cache'))
  BY <1>1 DEF LateInv
<1> QED
  BY <1>7, <1>8 DEF Faithful

(* A step that converts nothing.                                           *)
LEMMA NothingConverted ==
    ASSUME told'.op \notin {"stamp", "utc", "gen"}
    PROVE  ConversionsExact' /\ UtcRoundTrip'
BY DEF ConversionsExact, UtcRoundTrip

(* sdc_asn1_time_to_timestamp, and the readers, of a date the calendar has *)
(* or has not.                                                             *)
LEMMA ConvertInv ==
    ASSUME AsnInv, NEW d, d \in Days, d.y <= LastYear, UNCHANGED <<clock, user>>,
           cache' = CacheAfter(d), told'.op \in {"stamp", "utc", "gen"},
           told'.date = d, told'.ts = Stamp(Used, d)
    PROVE  /\ AsnInv'
           /\ LateTimes /\ LateInv => /\ (cache.ready => Faithful(cache))'
                                      /\ ConversionsExact' /\ told'.ts = ExactStamp(d)
<1>1. cache' \in {cache, Used}
  BY DEF CacheAfter
<1>2. /\ AsnInv'
      /\ LateTimes /\ LateInv => (cache.ready => Faithful(cache))'
  BY <1>1, SameTimes
<1>3. ASSUME LateTimes, LateInv PROVE told'.ts = ExactStamp(d)
  <2>1. Used \in CacheType /\ Faithful(Used)
    BY <1>3, UsedCache
  <2> QED
    BY <2>1, StampExact
<1>4. ASSUME LateTimes, LateInv PROVE ConversionsExact'
  <2>1. told'.ts = ExactStamp(told'.date)
    BY <1>3, <1>4
  <2> QED
    BY <2>1 DEF ConversionsExact, ExactStamp, Exists
<1> QED
  BY <1>2, <1>3, <1>4

(* sdc_asn1_time_to_timestamp.                                             *)
LEMMA ToTimestampInv ==
    ASSUME AsnInv, NEW d \in Dates, ToTimestamp(d)
    PROVE  AsnInv' /\ (LateTimes /\ LateInv => LateInv')
<1>1. /\ cache' = CacheAfter(d) /\ UNCHANGED <<clock, user>>
      /\ told' = [op |-> "stamp", date |-> d, ts |-> Stamp(Used, d)]
  BY DEF ToTimestamp
<1>2. told'.op = "stamp" /\ told'.date = d /\ told'.ts = Stamp(Used, d)
  BY <1>1
<1>3. d \in Days /\ d.y <= LastYear
  BY TimeAssumption DEF Days
<1>4. /\ AsnInv'
      /\ LateTimes /\ LateInv => (cache.ready => Faithful(cache))' /\ ConversionsExact'
  BY <1>1, <1>2, <1>3, ConvertInv
<1>5. UtcRoundTrip'
  BY <1>2 DEF UtcRoundTrip
<1> QED
  BY <1>4, <1>5 DEF LateInv

(* The readers: src is the timestamp that was written, or none.            *)
LEMMA ReadInv ==
    ASSUME AsnInv, NEW op, op \in {"utc", "gen"}, NEW d, d \in Days, d.y <= LastYear, NEW src,
           ReadTime(op, d, src), op = "utc" => d.y <= 2049,
           src \in 1 .. YearStart(2050) * DaySeconds - 1 => ExactStamp(d) = src
    PROVE  AsnInv' /\ (LateTimes /\ LateInv => LateInv')
<1> DEFINE x == Stamp(Used, d)
<1>1. /\ cache' = CacheAfter(d) /\ UNCHANGED <<clock, user>>
      /\ told' = [op |-> op, src |-> src, date |-> d, ts |-> x,
                  rc |-> IF x = 0 THEN "BAD_FORMAT" ELSE "OK"]
  BY DEF ReadTime
<1> HIDE DEF x
<1>2. /\ told'.op = op /\ told'.src = src /\ told'.date = d /\ told'.ts = x
      /\ told'.rc = IF x = 0 THEN "BAD_FORMAT" ELSE "OK"
  BY <1>1
<1>3. /\ AsnInv'
      /\ LateTimes /\ LateInv => /\ (cache.ready => Faithful(cache))'
                                 /\ ConversionsExact' /\ told'.ts = ExactStamp(d)
  <2>1. told'.op \in {"stamp", "utc", "gen"} /\ told'.ts = Stamp(Used, d)
    BY <1>2 DEF x
  <2> QED
    BY <1>1, <1>2, <2>1, ConvertInv
<1>4. ASSUME LateTimes, LateInv PROVE UtcRoundTrip'
  <2>1. x = ExactStamp(d) /\ (told'.rc = "OK" <=> x # 0)
    BY <1>2, <1>3, <1>4
  <2>2. x # 0 => Exists(d)
    BY <2>1 DEF ExactStamp
  <2>3. told'.rc = "OK" <=> Exists(d) /\ ExactStamp(d) # 0
    BY <2>1, <2>2
  <2>4. ASSUME op = "utc", told'.rc = "OK" PROVE d.y \in 1970 .. 2049
    <3>1. d.y \in Int /\ d.y >= 1970
      BY <2>3, <2>4 DEF Exists, Days
    <3>2. d.y <= 2049
      BY <2>4
    <3> QED
      BY ONLY <3>1, <3>2
  <2>5. ASSUME src \in 1 .. YearStart(2050) * DaySeconds - 1
        PROVE  told'.rc = "OK" /\ told'.ts = src
    <3>1. src # 0 /\ ExactStamp(d) = src
      BY <2>5
    <3> QED
      BY <1>2, <2>1, <3>1
  <2>6. /\ told'.op = "utc" =>
           /\ told'.src \in 1 .. YearStart(2050) * DaySeconds - 1 =>
                 told'.rc = "OK" /\ told'.ts = told'.src
           /\ told'.rc = "OK" => told'.date.y \in 1970 .. 2049
        /\ told'.op \in {"utc", "gen"} =>
            (told'.rc = "OK" <=> Exists(told'.date) /\ ExactStamp(told'.date) # 0)
    BY <1>2, <2>3, <2>4, <2>5
  <2> QED
    BY <2>6 DEF UtcRoundTrip, ExactStamp, Exists
<1> QED
  BY <1>3, <1>4 DEF LateInv

(* The reader of a GeneralizedTime: nothing was written to compare with.   *)
LEMMA ReadGeneralizedInv ==
    ASSUME AsnInv, NEW d \in Dates, ReadGeneralizedTime(d)
    PROVE  AsnInv' /\ (LateTimes /\ LateInv => LateInv')
<1>1. ReadTime("gen", d, -1) /\ d \in Days /\ d.y <= LastYear
  BY TimeAssumption DEF Days, ReadGeneralizedTime
<1> DEFINE src == -1
<1>2. src \notin 1 .. YearStart(2050) * DaySeconds - 1
  OBVIOUS
<1>3. ReadTime("gen", d, src)
  BY <1>1
<1> HIDE DEF src
<1> QED
  BY <1>1, <1>2, <1>3, ReadInv, SMTT(60)

(* The date a UTCTime with two digits of d's year is read as.              *)
Reread(d) == LET f == [d EXCEPT !.y = @ % 100] IN [f EXCEPT !.y = FullYear(f.y)]

(* It is d again for the years 1970 to 2049.                               *)
LEMMA UtcDate ==
    ASSUME NEW d, d \in Days
    PROVE  /\ Reread(d) \in Days /\ Reread(d).y <= 2049 /\ Reread(d).y <= LastYear
           /\ 1970 <= d.y /\ d.y <= 2049 => Reread(d) = d
<1> DEFINE z == FullYear(d.y % 100)
           e == Reread(d)
<1>1. e = [y |-> z, m |-> d.m, d |-> d.d, s |-> d.s] /\ d.y \in Int
  <2> DEFINE f == [d EXCEPT !.y = @ % 100]
  <2>1. f = [y |-> d.y % 100, m |-> d.m, d |-> d.d, s |-> d.s] /\ d.y \in Int
    BY DEF Days
  <2>2. f.y = d.y % 100
    BY <2>1
  <2>3. e = [f EXCEPT !.y = FullYear(f.y)]
    BY DEF Reread
  <2> HIDE DEF FullYear, f, e
  <2> QED
    BY <2>1, <2>2, <2>3
<1>2. z \in Int /\ z <= 2049 /\ (1970 <= d.y /\ d.y <= 2049 => z = d.y)
  BY <1>1, TwoDigits
<1> HIDE DEF z, e
<1>3. e.y = z /\ e \in Days
  <2>1. z \in Int
    BY <1>2
  <2>2. e.y = z
    BY ONLY <1>1
  <2>3. d.m \in Int /\ d.d \in Int /\ d.s \in Nat
    BY DEF Days
  <2>4. e \in Days
    BY ONLY <1>1, <2>1, <2>3 DEF Days
  <2> QED
    BY ONLY <2>2, <2>4
<1>4. e.y <= 2049 /\ e.y <= LastYear
  <2>1. z <= LastYear
    BY <1>2, SpansFacts
  <2> QED
    BY ONLY <1>2, <1>3, <2>1
<1>5. d = [y |-> d.y, m |-> d.m, d |-> d.d, s |-> d.s]
  BY DEF Days
<1>6. ASSUME 1970 <= d.y, d.y <= 2049 PROVE e = d
  <2>1. z = d.y
    BY <1>2, <1>6
  <2> QED
    BY ONLY <1>1, <1>5, <2>1
<1> QED
  BY <1>3, <1>4, <1>6 DEF e

(* A reader on a UTCTime of two digits.                                    *)
LEMMA ReadUtcInv ==
    ASSUME AsnInv, NEW d \in Dates, ReadUtcTime([d EXCEPT !.y = @ % 100], -1)
    PROVE  AsnInv' /\ (LateTimes /\ LateInv => LateInv')
<1> DEFINE src == -1
           op == "utc"
           e == Reread(d)
<1>1. ReadTime(op, e, src) /\ d \in Days
  BY TimeAssumption DEF Days, ReadUtcTime, Reread
<1>2. src \notin 1 .. YearStart(2050) * DaySeconds - 1
  OBVIOUS
<1>3. e \in Days /\ e.y <= 2049 /\ e.y <= LastYear
  BY <1>1, UtcDate
<1>4. op \in {"utc", "gen"}
  OBVIOUS
<1> HIDE DEF src, e, op
<1> QED
  BY <1>1, <1>2, <1>3, <1>4, ReadInv

(* sdc_asn1_write_utctime and back.                                        *)
LEMMA WriteThenReadInv ==
    ASSUME AsnInv, NEW ts \in Injected, WriteThenRead(ts)
    PROVE  AsnInv' /\ (LateTimes /\ LateInv => LateInv')
<1> DEFINE d == DateOf(ts)
           e == Reread(d)
           op == "utc"
           D == DaySeconds
           t == ts \div D
           Y == YearStart(2050)
<1>1. ReadTime(op, e, ts) /\ op \in {"utc", "gen"}
  BY DEF WriteThenRead, ReadUtcTime, UtcFields, Reread
<1>2. Timely(ts)
  BY TimesTimely
<1>3. d = DateOf(ts)
  OBVIOUS
<1> HIDE DEF d, e, op
<1>4. /\ d = [y |-> d.y, m |-> d.m, d |-> d.d, s |-> d.s]
      /\ d.y \in Nat /\ 1970 <= d.y /\ d.y + CacheRange < LastYear
      /\ d.m \in 1 .. 12 /\ d.d \in 1 .. MonthLength(d.y, d.m) /\ d.s \in Nat
      /\ YearStart(d.y) <= t
  BY <1>2, <1>3, DateFacts
<1>5. MonthLength(d.y, d.m) \in 28 .. 31
  <2> DEFINE y == d.y
             m == d.m
  <2>1. y \in Int /\ m \in 1 .. 12
    BY <1>4
  <2> HIDE DEF y, m
  <2>2. /\ MonthStart(y, m) \in Nat /\ MonthLength(y, m) \in 28 .. 31
        /\ MonthStart(y, m + 1) = MonthStart(y, m) + MonthLength(y, m)
    BY ONLY <2>1, MonthStep
  <2> QED
    BY <2>2 DEF y, m
<1>6. d \in Days
  BY <1>4, <1>5 DEF Days
<1>7. /\ e \in Days /\ e.y <= 2049 /\ e.y <= LastYear
      /\ 1970 <= d.y /\ d.y <= 2049 => e = d
  BY <1>6, UtcDate DEF e
<1>8. ASSUME ts \in 1 .. Y * D - 1 PROVE ExactStamp(e) = ts
  <2>1. t \in Nat /\ ts = t * D + (ts % D) /\ ts % D \in Nat /\ t * D \in Nat
    <3>1. t \in Nat /\ ts % D \in Nat /\ ts = t * D + (ts % D) /\ D \in Nat \ {0}
      BY <1>2, DayFacts, SpansFacts
    <3> HIDE DEF t, D
    <3> QED
      BY <3>1, Data!MultOrder
  <2>2. Y \in Nat /\ D \in Nat \ {0} /\ 2050 \in Int
    <3> DEFINE k == 80
               z == 1970 + k
    <3>1. k \in Nat /\ z = 2050 /\ z = 1970 + k
      OBVIOUS
    <3> HIDE DEF k, z
    <3>2. YearStart(1970 + k) \in Nat
      BY <3>1, YearStartBounds
    <3>3. YearStart(2050) = YearStart(z)
      BY ONLY <3>1
    <3>4. YearStart(2050) \in Nat
      BY ONLY <3>1, <3>2, <3>3
    <3> QED
      BY <3>4, SpansFacts
  <2> HIDE DEF t, D, Y
  <2>3. t < Y
    <3>1. ts < Y * D /\ Y * D \in Nat
      BY <1>8, <2>2, Data!MultOrder
    <3>2. t * D < Y * D
      BY <2>1, <3>1
    <3> QED
      BY ONLY <2>1, <2>2, <3>2, Data!MultOrder
  <2>4. d.y < 2050
    <3> SUFFICES ASSUME 2050 <= d.y PROVE FALSE
      BY <1>4
    <3>1. /\ d.y \in Int /\ FirstYear <= 2050 /\ d.y <= LastYear + 1
      BY <1>4, SpansFacts DEF FirstYear
    <3>2. Y <= YearStart(d.y) /\ YearStart(d.y) \in Int
      BY <2>2, <3>1, YearOrder DEF Y
    <3> QED
      BY <1>4, <2>1, <2>2, <2>3, <3>2
  <2>5. 1970 <= d.y /\ d.y <= 2049 /\ d.y <= 9999
    <3>1. d.y \in Nat /\ 1970 <= d.y
      BY <1>4
    <3> QED
      BY ONLY <2>4, <3>1
  <2>6. e = d
    BY <1>7, <2>5
  <2> QED
    BY <1>2, <1>3, <2>5, <2>6, DateBack
<1> QED
  BY <1>1, <1>7, <1>8, ReadInv DEF Y, D

-----------------------------------------------------------------------------
(* The steps that convert nothing.                                         *)

(* The clock moves: a filled cache stays, an empty one has no centre yet.  *)
LEMMA ClockMovesInv ==
    ASSUME AsnInv, ClockMoves
    PROVE  AsnInv' /\ (LateTimes /\ LateInv => LateInv')
<1>1. clock' \in Clocks /\ told'.op = "none" /\ user' = user /\ cache' = cache
  BY DEF ClockMoves, NoAnswer
<1>2. ConversionsExact' /\ UtcRoundTrip'
  BY <1>1, NothingConverted
<1>3. TimeTypeOK' /\ InjectedRules'
  BY <1>1 DEF AsnInv, TimeTypeOK, InjectedRules
<1> QED
  BY <1>1, <1>2, <1>3 DEF AsnInv, LateInv, Faithful, DateOf

(* A cache that is dropped.                                                *)
LEMMA DroppedCache ==
    ASSUME cache \in CacheType, cache' = [cache EXCEPT !.ready = FALSE]
    PROVE  cache' \in CacheType /\ cache'.ready = FALSE
BY DEF CacheType

(* A time is injected or taken back, and the cache dropped with it.        *)
LEMMA SetCurrentInv ==
    ASSUME AsnInv, NEW ts \in Injected, SetCurrent(ts)
    PROVE  AsnInv' /\ (LateTimes /\ LateInv => LateInv')
<1>1. /\ user' = [set |-> ts # 0, ts |-> ts] /\ cache' = [cache EXCEPT !.ready = FALSE]
      /\ told'.op = "none" /\ clock' = clock
  BY DEF SetCurrent, NoAnswer
<1>2. ConversionsExact' /\ UtcRoundTrip'
  BY <1>1, NothingConverted
<1>3. cache' \in CacheType /\ cache'.ready = FALSE
  BY <1>1, DroppedCache DEF AsnInv, TimeTypeOK, CacheType
<1>4. user'.set = (ts # 0) /\ user'.ts = ts /\ user' \in [set : BOOLEAN, ts : {0} \cup Injected]
  BY <1>1
<1>5. TimeTypeOK' /\ InjectedRules'
  BY <1>1, <1>3, <1>4 DEF AsnInv, TimeTypeOK, InjectedRules, CacheType
<1> QED
  BY <1>2, <1>3, <1>4, <1>5 DEF AsnInv, LateInv

(* The cache is dropped.                                                   *)
LEMMA CacheRefreshInv ==
    ASSUME AsnInv, CacheRefresh
    PROVE  AsnInv' /\ (LateTimes /\ LateInv => LateInv')
<1>1. /\ cache' = [cache EXCEPT !.ready = FALSE] /\ told'.op = "none"
      /\ clock' = clock /\ user' = user
  BY DEF CacheRefresh, NoAnswer
<1>2. ConversionsExact' /\ UtcRoundTrip'
  BY <1>1, NothingConverted
<1>3. cache' \in CacheType /\ cache'.ready = FALSE
  BY <1>1, DroppedCache DEF AsnInv, TimeTypeOK, CacheType
<1>4. TimeTypeOK' /\ InjectedRules'
  BY <1>1, <1>3 DEF AsnInv, TimeTypeOK, InjectedRules, CacheType
<1> QED
  BY <1>1, <1>2, <1>3, <1>4 DEF AsnInv, LateInv

(* The range is that of the cache in use.                                  *)
LEMMA GetCacheRangeInv ==
    ASSUME AsnInv, GetCacheRange
    PROVE  AsnInv' /\ (LateTimes /\ LateInv => LateInv')
<1> DEFINE from == Used.start
           to == Used.start + CacheElements - 1
<1>1. /\ told' = [op |-> "range", from |-> from, to |-> to]
      /\ cache' = Used /\ UNCHANGED <<clock, user>>
  BY DEF GetCacheRange
<1> HIDE DEF from, to
<1>2. told'.op = "range" /\ told'.from = from /\ told'.to = to
  BY <1>1
<1>3. AsnInv' /\ (LateTimes /\ LateInv => (cache.ready => Faithful(cache))')
  BY <1>1, <1>2, SameTimes DEF from, to
<1>4. ConversionsExact' /\ UtcRoundTrip'
  BY <1>2, NothingConverted
<1> QED
  BY <1>3, <1>4 DEF LateInv

(* now looks at no cache.                                                  *)
LEMMA NowInv ==
    ASSUME AsnInv, Now
    PROVE  AsnInv' /\ (LateTimes /\ LateInv => LateInv')
<1>1. /\ told'.op = "now" /\ (user.set => told'.rc = "OK" /\ told'.ts = user.ts)
      /\ cache' = cache /\ UNCHANGED <<clock, user>>
  BY DEF Now
<1>2. AsnInv' /\ (LateTimes /\ LateInv => (cache.ready => Faithful(cache))')
  BY <1>1, SameTimes
<1>3. ConversionsExact' /\ UtcRoundTrip'
  BY <1>1, NothingConverted
<1> QED
  BY <1>2, <1>3 DEF LateInv

-----------------------------------------------------------------------------
(* Every step.                                                             *)
LEMMA AsnStep ==
    ASSUME AsnInv, [TimeNext]_timeVars
    PROVE  AsnInv' /\ (LateTimes /\ LateInv => LateInv')
<1>1. CASE ClockMoves
  BY <1>1, ClockMovesInv
<1>2. CASE \E d \in Dates : ToTimestamp(d)
  BY <1>2, ToTimestampInv
<1>3. CASE \E ts \in Injected : SetCurrent(ts)
  BY <1>3, SetCurrentInv
<1>4. CASE CacheRefresh
  BY <1>4, CacheRefreshInv
<1>5. CASE GetCacheRange
  BY <1>5, GetCacheRangeInv
<1>6. CASE Now
  BY <1>6, NowInv
<1>7. ASSUME NEW d \in Dates, ReadGeneralizedTime(d)
      PROVE  AsnInv' /\ (LateTimes /\ LateInv => LateInv')
  BY <1>7, ReadGeneralizedInv
<1>8. ASSUME NEW d \in Dates, ReadUtcTime([d EXCEPT !.y = @ % 100], -1)
      PROVE  AsnInv' /\ (LateTimes /\ LateInv => LateInv')
  BY <1>8, ReadUtcInv
<1>9. CASE \E ts \in Injected : WriteThenRead(ts)
  BY <1>9, WriteThenReadInv
<1>10. CASE UNCHANGED timeVars
  <2>1. clock' = clock /\ user' = user /\ cache' = cache /\ told' = told
    BY <1>10 DEF timeVars
  <2>2. TimeTypeOK' /\ InjectedRules'
    BY <2>1 DEF AsnInv, TimeTypeOK, InjectedRules
  <2>3. ConversionsExact /\ UtcRoundTrip => ConversionsExact' /\ UtcRoundTrip'
    BY <2>1 DEF ConversionsExact, UtcRoundTrip
  <2> QED
    BY <2>1, <2>2, <2>3 DEF AsnInv, LateInv, Faithful
<1> QED
  BY <1>1, <1>2, <1>3, <1>4, <1>5, <1>6, <1>7, <1>8, <1>9, <1>10 DEF TimeNext

(* AsnInv holds whatever the times are.                                    *)
LEMMA AsnInvAlways == TimeSpec => []AsnInv
<1>1. TimeInit => AsnInv
  BY AsnInvInit
<1>2. AsnInv /\ [TimeNext]_timeVars => AsnInv'
  BY AsnStep
<1> QED
  BY <1>1, <1>2, PTL DEF TimeSpec

(* LateInv holds besides when no time is early.                            *)
LEMMA LateInvAlways == ASSUME LateTimes PROVE TimeSpec => []LateInv
<1>1. TimeInit => AsnInv /\ LateInv
  BY AsnInvInit
<1>2. AsnInv /\ LateInv /\ [TimeNext]_timeVars => (AsnInv /\ LateInv)'
  BY AsnStep
<1> QED
  BY <1>1, <1>2, PTL DEF TimeSpec

(* The time of asn1time.c keeps its types: the clock, the injected time,   *)
(* the cache with its 2 * CacheRange + 1 slots and the kinds of answer.    *)
THEOREM AsnTimeTypeOK == TimeSpec => []TimeTypeOK
<1>1. AsnInv => TimeTypeOK
  BY DEF AsnInv
<1> QED
  BY <1>1, AsnInvAlways, PTL

(* An injected time rules at once: what now and the cache's range answer   *)
(* is that time and the years around it, whatever was cached before.       *)
THEOREM AsnInjectedRules == TimeSpec => []InjectedRules
<1>1. AsnInv => InjectedRules
  BY DEF AsnInv
<1> QED
  BY <1>1, AsnInvAlways, PTL

(* Every conversion is the calendar's, through the cache, before it or     *)
(* after it, and however the clock moved, when no time is so early that    *)
(* the cache would reach back before 1970.                                 *)
THEOREM AsnConversionsExact == ASSUME LateTimes PROVE TimeSpec => []ConversionsExact
<1>1. LateInv => ConversionsExact
  BY DEF LateInv
<1> QED
  BY <1>1, LateInvAlways, PTL

(* What sdc_asn1_write_utctime writes reads back as itself to 2049, and    *)
(* the readers take the dates that exist, under the same condition.        *)
THEOREM AsnUtcRoundTrip == ASSUME LateTimes PROVE TimeSpec => []UtcRoundTrip
<1>1. LateInv => UtcRoundTrip
  BY DEF LateInv
<1> QED
  BY <1>1, LateInvAlways, PTL
=============================================================================
