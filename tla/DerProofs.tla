----------------------------- MODULE DerProofs ------------------------------
(***************************************************************************)
(* The DER writer and reader for every base, buffer, tree of values and    *)
(* damage to the bytes: the writer stays in its buffer and the readers in  *)
(* their regions, and the reader accepts no bytes but those the writer     *)
(* would have written for what it returns.                                 *)
(***************************************************************************)
EXTENDS Der, SequenceTheorems, TLAPS

(* The lemmas on naturals and sequences; no block of theirs is at issue.   *)
Data == INSTANCE DataLemmas WITH BlockSize <- 1

-----------------------------------------------------------------------------
(* Numbers and bytes.                                                      *)

(* The numbers that matter.                                                *)
LEMMA Sizes ==
    /\ Base \in Nat /\ Base > 10 /\ Half \in Nat /\ Half >= 5 /\ Half < Base
    /\ Byte = 0 .. Base - 1 /\ 0 \in Byte /\ 2 * Half <= Base
    /\ SizeBytes \in 1 .. Half - 1 /\ WordBytes \in Nat \ {0}
BY DerWriterAssumption DEF Half, Byte

(* The powers up to k.                                                     *)
PowerRun(k, g) == g = [i \in 0 .. k |-> IF i = 0 THEN 1 ELSE Base * g[i - 1]]

(* What a run of powers says at a place.                                   *)
LEMMA PowerRunAt ==
    ASSUME NEW k \in Nat, NEW g, PowerRun(k, g)
    PROVE  /\ g[0] = 1
           /\ \A i \in 1 .. k : g[i] = Base * g[i - 1]
<1> DEFINE E(i) == IF i = 0 THEN 1 ELSE Base * g[i - 1]
<1>1. g = [i \in 0 .. k |-> E(i)]
  BY DEF PowerRun
<1> HIDE DEF E
<1>2. \A i \in 0 .. k : g[i] = E(i)
  BY ONLY <1>1
<1> QED
  BY <1>2 DEF E

(* Each run can be made longer.                                            *)
LEMMA PowerRuns == \A k \in Nat : \E g : PowerRun(k, g)
<1> DEFINE S == {k \in Nat : \E g : PowerRun(k, g)}
<1>1. 0 \in S
  <2> DEFINE g == [i \in 0 .. 0 |-> 1]
  <2>1. g = [i \in 0 .. 0 |-> IF i = 0 THEN 1 ELSE Base * g[i - 1]]
    OBVIOUS
  <2> QED
    BY <2>1 DEF PowerRun
<1>2. ASSUME NEW k \in Nat, k \in S PROVE k + 1 \in S
  <2>1. PICK g : PowerRun(k, g)
    BY <1>2
  <2>2. /\ g[0] = 1
        /\ \A i \in 1 .. k : g[i] = Base * g[i - 1]
    BY <2>1, PowerRunAt
  <2> DEFINE h == [i \in 0 .. k + 1 |-> IF i = k + 1 THEN Base * g[k] ELSE g[i]]
  <2>3. \A i \in 0 .. k : h[i] = g[i]
    OBVIOUS
  <2>4. h[k + 1] = Base * g[k]
    OBVIOUS
  <2>5. \A i \in 0 .. k + 1 : h[i] = IF i = 0 THEN 1 ELSE Base * h[i - 1]
    <3> HIDE DEF h
    <3>1. ASSUME NEW i \in 0 .. k + 1 PROVE h[i] = IF i = 0 THEN 1 ELSE Base * h[i - 1]
      <4>1. CASE i = 0
        BY <2>2, <2>3, <4>1
      <4>2. CASE i \in 1 .. k
        <5>1. h[i] = g[i] /\ h[i - 1] = g[i - 1]
          BY <2>3, <4>2
        <5> QED
          BY <2>2, <4>2, <5>1
      <4>3. CASE i = k + 1
        BY <2>3, <2>4, <4>3
      <4> QED
        BY <4>1, <4>2, <4>3
    <3> QED
      BY <3>1
  <2>6. h = [i \in 0 .. k + 1 |-> h[i]]
    OBVIOUS
  <2> HIDE DEF h
  <2>7. PowerRun(k + 1, h)
    BY <2>5, <2>6 DEF PowerRun
  <2> QED
    BY <2>7
<1> HIDE DEF S
<1>3. \A k \in Nat : k \in S
  BY <1>1, <1>2, 1 \in Nat \ {0}, Data!SetInduction
<1> QED
  BY <1>3 DEF S

(* Power is the end of a run.                                              *)
LEMMA PowerIs ==
    ASSUME NEW k \in Nat
    PROVE  \E g : PowerRun(k, g) /\ Power(k) = g[k]
<1> DEFINE c == CHOOSE g : g = [i \in 0 .. k |-> IF i = 0 THEN 1 ELSE Base * g[i - 1]]
<1>1. PICK g : g = [i \in 0 .. k |-> IF i = 0 THEN 1 ELSE Base * g[i - 1]]
  BY PowerRuns DEF PowerRun
<1>2. c = [i \in 0 .. k |-> IF i = 0 THEN 1 ELSE Base * c[i - 1]]
  BY ONLY <1>1, Zenon
<1>3. Power(k) = c[k]
  BY DEF Power
<1> HIDE DEF c
<1>4. PowerRun(k, c)
  BY <1>2 DEF PowerRun
<1> QED
  BY <1>3, <1>4

(* Two runs agree.                                                         *)
LEMMA PowerOnce ==
    ASSUME NEW k \in Nat, NEW g, NEW h, PowerRun(k, g), PowerRun(k + 1, h)
    PROVE  \A i \in 0 .. k : g[i] = h[i]
<1>1. /\ g[0] = 1
      /\ \A i \in 1 .. k : g[i] = Base * g[i - 1]
  BY PowerRunAt
<1>2. /\ h[0] = 1
      /\ \A i \in 1 .. k + 1 : h[i] = Base * h[i - 1]
  <2>1. k + 1 \in Nat
    OBVIOUS
  <2> QED
    BY <2>1, PowerRunAt
<1> DEFINE S == {i \in Nat : i <= k => g[i] = h[i]}
<1>3. 0 \in S
  BY <1>1, <1>2
<1>4. ASSUME NEW i \in Nat, i \in S PROVE i + 1 \in S
  <2>1. SUFFICES ASSUME i + 1 <= k PROVE g[i + 1] = h[i + 1]
    OBVIOUS
  <2>2. g[i] = h[i] /\ i + 1 \in 1 .. k /\ i + 1 \in 1 .. k + 1 /\ (i + 1) - 1 = i
    BY <1>4, <2>1
  <2>3. g[i + 1] = Base * g[i] /\ h[i + 1] = Base * h[i]
    BY <1>1, <1>2, <2>2
  <2> QED
    BY <2>2, <2>3
<1> HIDE DEF S
<1>5. \A i \in Nat : i \in S
  BY <1>3, <1>4, 1 \in Nat \ {0}, Data!SetInduction
<1> QED
  BY <1>5 DEF S

(* The powers of the base.                                                 *)
LEMMA PowerStep ==
    /\ Power(0) = 1
    /\ \A k \in Nat : Power(k + 1) = Base * Power(k)
<1>1. Power(0) = 1
  <2>1. PICK g : PowerRun(0, g) /\ Power(0) = g[0]
    BY PowerIs
  <2> QED
    BY <2>1, PowerRunAt
<1>2. ASSUME NEW k \in Nat PROVE Power(k + 1) = Base * Power(k)
  <2>0. k + 1 \in Nat /\ k + 1 \in 1 .. k + 1 /\ (k + 1) - 1 = k /\ k \in 0 .. k
    OBVIOUS
  <2>1. PICK g : PowerRun(k, g) /\ Power(k) = g[k]
    BY PowerIs
  <2>2. PICK h : PowerRun(k + 1, h) /\ Power(k + 1) = h[k + 1]
    BY <2>0, PowerIs
  <2>3. h[k + 1] = Base * h[k]
    BY <2>0, <2>2, PowerRunAt
  <2>4. g[k] = h[k]
    BY <2>0, <2>1, <2>2, PowerOnce
  <2> QED
    BY <2>1, <2>2, <2>3, <2>4
<1> QED
  BY <1>1, <1>2

(* They are positive, and grow by more than one each.                      *)
LEMMA PowerGrows ==
    \A k \in Nat : Power(k) \in Nat \ {0} /\ Power(k) > k
<1> DEFINE S == {k \in Nat : Power(k) \in Nat \ {0} /\ Power(k) > k}
<1>1. 0 \in S
  BY PowerStep
<1>2. ASSUME NEW k \in Nat, k \in S PROVE k + 1 \in S
  <2> DEFINE p == Power(k)
             q == Power(k + 1)
  <2>1. p \in Nat \ {0} /\ p > k /\ q = Base * p
    BY <1>2, PowerStep
  <2>2. Base \in Nat /\ Base > 10
    BY Sizes
  <2> HIDE DEF p, q
  <2>3. q \in Nat /\ q >= 2 * p
    BY ONLY <2>1, <2>2
  <2>4. q \in Nat \ {0} /\ q > k + 1
    BY ONLY <2>1, <2>3, k \in Nat
  <2> QED
    BY <2>4 DEF q
<1> HIDE DEF S
<1>3. \A k \in Nat : k \in S
  BY <1>1, <1>2, 1 \in Nat \ {0}, Data!SetInduction
<1> QED
  BY <1>3 DEF S

(* A longer power is no smaller.                                           *)
LEMMA PowerOrder ==
    ASSUME NEW j \in Nat, NEW k \in Nat, j <= k
    PROVE  Power(j) <= Power(k)
<1> DEFINE S == {d \in Nat : Power(j) <= Power(j + d)}
<1>1. 0 \in S
  BY PowerGrows
<1>2. ASSUME NEW d \in Nat, d \in S PROVE d + 1 \in S
  <2> DEFINE p == Power(j + d)
             q == Power(j + (d + 1))
  <2>1. j + d \in Nat /\ j + (d + 1) = (j + d) + 1
    OBVIOUS
  <2>2. p \in Nat \ {0} /\ q = Base * p /\ Power(j) \in Nat /\ Power(j) <= p
    BY <1>2, <2>1, PowerGrows, PowerStep
  <2>3. Base \in Nat /\ Base > 10
    BY Sizes
  <2> HIDE DEF p, q
  <2>4. q \in Nat /\ q >= p
    BY ONLY <2>2, <2>3
  <2>5. Power(j) <= q
    BY ONLY <2>2, <2>4
  <2> QED
    BY <2>5 DEF q
<1> HIDE DEF S
<1>3. \A d \in Nat : d \in S
  BY <1>1, <1>2, 1 \in Nat \ {0}, Data!SetInduction
<1>4. k - j \in Nat /\ j + (k - j) = k
  OBVIOUS
<1> QED
  BY <1>3, <1>4 DEF S

(* What Width is: the least power above n.                                 *)
IsWidth(n, k) == n < Power(k) /\ (k = 0 \/ n >= Power(k - 1))

(* A number has one width.                                                 *)
LEMMA WidthOnce ==
    ASSUME NEW n \in Nat, NEW j \in Nat, NEW k \in Nat, IsWidth(n, j), IsWidth(n, k)
    PROVE  j = k
<1>1. ASSUME NEW a \in Nat, NEW b \in Nat, a < b, IsWidth(n, a), IsWidth(n, b) PROVE FALSE
  <2>1. b - 1 \in Nat /\ a <= b - 1
    BY <1>1
  <2>2. Power(a) <= Power(b - 1)
    BY <2>1, PowerOrder
  <2>3. n < Power(a) /\ n >= Power(b - 1)
    BY <1>1 DEF IsWidth
  <2>4. Power(a) \in Nat /\ Power(b - 1) \in Nat
    BY <2>1, PowerGrows
  <2> QED
    BY ONLY <2>2, <2>3, <2>4, n \in Nat
<1>2. j < k \/ k < j \/ j = k
  OBVIOUS
<1> QED
  BY <1>1, <1>2

(* A number has a width.                                                   *)
LEMMA WidthIs ==
    ASSUME NEW n \in Nat
    PROVE  Width(n) \in Nat /\ IsWidth(n, Width(n))
<1> DEFINE T == {k \in Nat : n < Power(k)}
<1>1. n \in T /\ T \subseteq Nat
  BY PowerGrows
<1>2. PICK k \in T : \A j \in T : k <= j
  <2> HIDE DEF T
  <2>1. T # {}
    BY <1>1
  <2> QED
    BY ONLY <1>1, <2>1, 1 \in Nat \ {0}, Data!LeastNat
<1>3. k \in Nat /\ k <= n /\ n < Power(k)
  BY <1>1, <1>2
<1>4. k = 0 \/ n >= Power(k - 1)
  <2>1. SUFFICES ASSUME k # 0 PROVE n >= Power(k - 1)
    OBVIOUS
  <2>2. k - 1 \in Nat /\ ~ (k <= k - 1)
    BY <1>3, <2>1
  <2>3. k - 1 \notin T
    BY <1>2, <2>2
  <2>4. Power(k - 1) \in Nat /\ ~ (n < Power(k - 1))
    BY <2>2, <2>3, PowerGrows
  <2> QED
    BY ONLY <2>4, n \in Nat
<1> HIDE DEF T
<1>5. \E i \in 0 .. n : n < Power(i) /\ (i = 0 \/ n >= Power(i - 1))
  <2>1. k \in 0 .. n
    BY <1>3
  <2> QED
    BY ONLY <1>3, <1>4, <2>1
<1> DEFINE w == CHOOSE i \in 0 .. n : n < Power(i) /\ (i = 0 \/ n >= Power(i - 1))
<1>6. w \in 0 .. n /\ n < Power(w) /\ (w = 0 \/ n >= Power(w - 1))
  BY ONLY <1>5
<1>7. Width(n) = w
  BY DEF Width
<1> HIDE DEF w
<1> QED
  BY <1>6, <1>7 DEF IsWidth

(* A number below a power is no wider.                                     *)
LEMMA WidthBelow ==
    ASSUME NEW n \in Nat, NEW k \in Nat, n < Power(k)
    PROVE  Width(n) \in 0 .. k
<1> DEFINE w == Width(n)
<1>1. w \in Nat /\ IsWidth(n, w)
  BY WidthIs
<1> HIDE DEF w
<1>2. ASSUME w > k PROVE FALSE
  <2>1. w - 1 \in Nat /\ k <= w - 1 /\ w # 0
    BY <1>1, <1>2
  <2>2. Power(k) <= Power(w - 1) /\ n >= Power(w - 1)
    BY <1>1, <2>1, PowerOrder DEF IsWidth
  <2>3. Power(k) \in Nat /\ Power(w - 1) \in Nat
    BY <2>1, PowerGrows
  <2> QED
    BY ONLY <2>2, <2>3, n \in Nat, n < Power(k)
<1> QED
  BY <1>1, <1>2 DEF w

(* Numbers from 0 to the base less one are bytes, and the other way round. *)
LEMMA ByteIs ==
    \A b : b \in Byte <=> b \in Nat /\ b < Base
BY Sizes

(* Big-endian bytes are bytes.                                             *)
LEMMA ToBEIs ==
    ASSUME NEW n \in Nat, NEW k \in Nat
    PROVE  ToBE(n, k) \in Seq(Byte) /\ Len(ToBE(n, k)) = k
<1> DEFINE f == ToBE(n, k)
<1>1. ASSUME NEW i \in 1 .. k PROVE (n \div Power(k - i)) % Base \in Byte
  <2> DEFINE p == Power(k - i)
  <2>1. p \in Nat \ {0}
    BY PowerGrows
  <2> HIDE DEF p
  <2>2. n \div p \in Nat
    BY <2>1, Data!DivModSplit
  <2> DEFINE q == n \div p
  <2> HIDE DEF q
  <2>3. q \in Nat /\ Base \in Nat \ {0}
    BY <2>2, Sizes DEF q
  <2>4. q % Base \in Nat /\ q % Base < Base
    BY ONLY <2>3, 1 \in Nat \ {0}, Data!DivModSplit
  <2> QED
    BY <2>4, ByteIs DEF q, p
<1>2. f \in [1 .. k -> Byte]
  BY <1>1 DEF ToBE
<1> HIDE DEF f
<1>3. f \in Seq(Byte) /\ Len(f) = k
  BY ONLY <1>2, 1 \in Nat \ {0}, k \in Nat, Data!TableIsSeq
<1> QED
  BY <1>3 DEF f

(* The number up to the n-th byte.                                         *)
NumberRun(s, n, g) == g = [i \in 0 .. n |-> IF i = 0 THEN 0 ELSE g[i - 1] * Base + s[i]]

(* What such a run says at a place.                                        *)
LEMMA NumberRunAt ==
    ASSUME NEW s, NEW n \in Nat, NEW g, NumberRun(s, n, g)
    PROVE  /\ g[0] = 0
           /\ \A i \in 1 .. n : g[i] = g[i - 1] * Base + s[i]
<1> DEFINE E(i) == IF i = 0 THEN 0 ELSE g[i - 1] * Base + s[i]
<1>1. g = [i \in 0 .. n |-> E(i)]
  BY DEF NumberRun
<1> HIDE DEF E
<1>2. \A i \in 0 .. n : g[i] = E(i)
  BY ONLY <1>1
<1> QED
  BY <1>2 DEF E

(* Each run can be made longer.                                            *)
LEMMA NumberRuns == ASSUME NEW s PROVE \A n \in Nat : \E g : NumberRun(s, n, g)
<1> DEFINE S == {n \in Nat : \E g : NumberRun(s, n, g)}
<1>1. 0 \in S
  <2> DEFINE g == [i \in 0 .. 0 |-> 0]
  <2>1. g = [i \in 0 .. 0 |-> IF i = 0 THEN 0 ELSE g[i - 1] * Base + s[i]]
    OBVIOUS
  <2> QED
    BY <2>1 DEF NumberRun
<1>2. ASSUME NEW n \in Nat, n \in S PROVE n + 1 \in S
  <2>1. PICK g : NumberRun(s, n, g)
    BY <1>2
  <2>2. /\ g[0] = 0
        /\ \A i \in 1 .. n : g[i] = g[i - 1] * Base + s[i]
    BY <2>1, NumberRunAt
  <2> DEFINE z == g[n] * Base + s[n + 1]
             h == [i \in 0 .. n + 1 |-> IF i = n + 1 THEN z ELSE g[i]]
  <2>z. z = g[n] * Base + s[n + 1]
    OBVIOUS
  <2> HIDE DEF z
  <2>3. \A i \in 0 .. n : h[i] = g[i]
    OBVIOUS
  <2>4. h[n + 1] = z
    OBVIOUS
  <2>5. \A i \in 0 .. n + 1 : h[i] = IF i = 0 THEN 0 ELSE h[i - 1] * Base + s[i]
    <3> HIDE DEF h
    <3>1. ASSUME NEW i \in 0 .. n + 1
          PROVE  h[i] = IF i = 0 THEN 0 ELSE h[i - 1] * Base + s[i]
      <4>1. CASE i = 0
        BY <2>2, <2>3, <4>1
      <4>2. CASE i \in 1 .. n
        <5>1. h[i] = g[i] /\ h[i - 1] = g[i - 1] /\ i # 0
          BY <2>3, <4>2
        <5>2. g[i] = g[i - 1] * Base + s[i]
          BY <2>2, <4>2
        <5> QED
          BY ONLY <5>1, <5>2
      <4>3. CASE i = n + 1
        <5>1. h[i] = z /\ h[n] = g[n] /\ i # 0 /\ i - 1 = n
          BY <2>3, <2>4, <4>3
        <5> QED
          BY ONLY <2>z, <4>3, <5>1
      <4> QED
        BY <4>1, <4>2, <4>3
    <3> QED
      BY <3>1
  <2>6. h = [i \in 0 .. n + 1 |-> h[i]]
    OBVIOUS
  <2> HIDE DEF h
  <2>7. NumberRun(s, n + 1, h)
    BY <2>5, <2>6 DEF NumberRun
  <2> QED
    BY <2>7
<1> HIDE DEF S
<1>3. \A n \in Nat : n \in S
  BY <1>1, <1>2, 1 \in Nat \ {0}, Data!SetInduction
<1> QED
  BY <1>3 DEF S

(* FromBE is the end of a run.                                             *)
LEMMA NumberIs ==
    ASSUME NEW s, Len(s) \in Nat
    PROVE  \E g : NumberRun(s, Len(s), g) /\ FromBE(s) = g[Len(s)]
<1> DEFINE n == Len(s)
           c == CHOOSE g : g = [i \in 0 .. n |-> IF i = 0 THEN 0 ELSE g[i - 1] * Base + s[i]]
<1>1. PICK g : g = [i \in 0 .. n |-> IF i = 0 THEN 0 ELSE g[i - 1] * Base + s[i]]
  BY NumberRuns DEF NumberRun
<1>2. c = [i \in 0 .. n |-> IF i = 0 THEN 0 ELSE c[i - 1] * Base + s[i]]
  BY ONLY <1>1, Zenon
<1>3. FromBE(s) = c[n]
  BY DEF FromBE
<1> HIDE DEF c
<1>4. NumberRun(s, n, c)
  BY <1>2 DEF NumberRun
<1> QED
  BY <1>3, <1>4

(* Runs over strings that begin alike agree.                               *)
LEMMA NumberOnce ==
    ASSUME NEW s, NEW t, NEW n \in Nat, NEW m \in Nat, n <= m, NEW g, NEW h,
           NumberRun(s, n, g), NumberRun(t, m, h), \A i \in 1 .. n : s[i] = t[i]
    PROVE  \A i \in 0 .. n : g[i] = h[i]
<1>1. /\ g[0] = 0
      /\ \A i \in 1 .. n : g[i] = g[i - 1] * Base + s[i]
  BY NumberRunAt
<1>2. /\ h[0] = 0
      /\ \A i \in 1 .. m : h[i] = h[i - 1] * Base + t[i]
  BY NumberRunAt
<1> DEFINE S == {i \in Nat : i <= n => g[i] = h[i]}
<1>3. 0 \in S
  BY <1>1, <1>2
<1>4. ASSUME NEW i \in Nat, i \in S PROVE i + 1 \in S
  <2>1. SUFFICES ASSUME i + 1 <= n PROVE g[i + 1] = h[i + 1]
    OBVIOUS
  <2>2. g[i] = h[i] /\ i + 1 \in 1 .. n /\ i + 1 \in 1 .. m /\ (i + 1) - 1 = i
    BY <1>4, <2>1
  <2>3. s[i + 1] = t[i + 1]
    BY <2>2
  <2>4. g[i + 1] = g[(i + 1) - 1] * Base + s[i + 1]
    BY ONLY <1>1, <2>2
  <2>5. h[i + 1] = h[(i + 1) - 1] * Base + t[i + 1]
    BY ONLY <1>2, <2>2
  <2> QED
    BY ONLY <2>2, <2>3, <2>4, <2>5
<1> HIDE DEF S
<1>5. \A i \in Nat : i \in S
  BY <1>3, <1>4, 1 \in Nat \ {0}, Data!SetInduction
<1> QED
  BY <1>5 DEF S

(* What a prefix of a string of bytes stands for.                          *)
NumberTable(s, g) ==
    /\ g[0] = 0
    /\ \A i \in 1 .. Len(s) : g[i] = g[i - 1] * Base + s[i]
    /\ \A n \in 0 .. Len(s) : FromBE(SubSeq(s, 1, n)) = g[n]
    /\ FromBE(s) = g[Len(s)]

(* Every string of bytes has a table of the numbers of its heads.          *)
LEMMA NumberTables == ASSUME NEW s \in Seq(Byte) PROVE \E g : NumberTable(s, g)
<1>1. Len(s) \in Nat
  OBVIOUS
<1>2. PICK g : NumberRun(s, Len(s), g) /\ FromBE(s) = g[Len(s)]
  BY <1>1, NumberIs
<1>3. /\ g[0] = 0
      /\ \A i \in 1 .. Len(s) : g[i] = g[i - 1] * Base + s[i]
  BY ONLY <1>1, <1>2, NumberRunAt
<1>4. ASSUME NEW n \in 0 .. Len(s) PROVE FromBE(SubSeq(s, 1, n)) = g[n]
  <2> DEFINE t == SubSeq(s, 1, n)
  <2>1. Len(t) = n /\ \A i \in 1 .. n : t[i] = s[i]
    BY <1>1
  <2> HIDE DEF t
  <2>2. n \in Nat /\ n <= Len(s)
    BY <1>1
  <2>3. PICK h : NumberRun(t, n, h) /\ FromBE(t) = h[n]
    BY <2>1, <2>2, NumberIs
  <2>4. \A i \in 0 .. n : h[i] = g[i]
    BY ONLY <1>1, <1>2, <2>1, <2>2, <2>3, NumberOnce, SMTT(60)
  <2> QED
    BY <2>2, <2>3, <2>4 DEF t
<1> QED
  BY <1>2, <1>3, <1>4 DEF NumberTable

(* A prefix and the next byte.                                             *)
LEMMA DigitStep ==
    ASSUME NEW b \in Nat, NEW p \in Nat \ {0}, NEW m \in Nat, NEW x \in Nat, m < p, x < b
    PROVE  m * b + x \in Nat /\ m * b + x < b * p
<1>1. m + 1 <= p /\ b \in Nat \ {0}
  OBVIOUS
<1>2. (m + 1) * b <= p * b
  BY <1>1, 1 \in Nat \ {0}, Data!MultOrder
<1>3. (m + 1) * b = m * b + b /\ p * b = b * p /\ m * b \in Nat /\ p * b \in Nat
  OBVIOUS
<1> QED
  BY <1>2, <1>3

(* Prefixes are numbers, each below the power of its length.               *)
LEMMA NumberBelow ==
    ASSUME NEW s \in Seq(Byte), NEW g, NumberTable(s, g)
    PROVE  \A i \in 0 .. Len(s) : g[i] \in Nat /\ g[i] < Power(i)
<1>0. Len(s) \in Nat /\ Base \in Nat
  BY Sizes
<1> DEFINE S == {i \in Nat : i <= Len(s) => g[i] \in Nat /\ g[i] < Power(i)}
<1>1. 0 \in S
  BY PowerStep, SMTT(60) DEF NumberTable
<1>2. ASSUME NEW i \in Nat, i \in S PROVE i + 1 \in S
  <2>1. SUFFICES ASSUME i + 1 <= Len(s) PROVE g[i + 1] \in Nat /\ g[i + 1] < Power(i + 1)
    OBVIOUS
  <2>2. i + 1 \in 1 .. Len(s) /\ (i + 1) - 1 = i /\ g[i] \in Nat /\ g[i] < Power(i)
    BY <1>0, <1>2, <2>1
  <2>3. g[i + 1] = g[i] * Base + s[i + 1]
    BY <2>2 DEF NumberTable
  <2>4. s[i + 1] \in Byte
    BY <2>2
  <2>5. s[i + 1] \in Nat /\ s[i + 1] < Base
    BY <2>4, ByteIs
  <2>6. Power(i) \in Nat \ {0} /\ Power(i + 1) = Base * Power(i)
    BY PowerGrows, PowerStep
  <2> DEFINE m == g[i]
             x == s[i + 1]
             p == Power(i)
  <2>7. m \in Nat /\ x \in Nat /\ p \in Nat \ {0} /\ m < p /\ x < Base
    BY <2>2, <2>5, <2>6
  <2> HIDE DEF m, x, p
  <2>8. m * Base + x \in Nat /\ m * Base + x < Base * p
    BY ONLY <1>0, <2>7, DigitStep
  <2> QED
    BY ONLY <2>3, <2>6, <2>8 DEF m, x, p
<1> HIDE DEF S
<1>3. \A i \in Nat : i \in S
  BY <1>1, <1>2, 1 \in Nat \ {0}, Data!SetInduction
<1> QED
  BY <1>0, <1>3 DEF S

(* With a first byte that is not zero each is wide.                        *)
LEMMA NumberAbove ==
    ASSUME NEW s \in Seq(Byte), NEW g, NumberTable(s, g), Len(s) > 0, s[1] # 0
    PROVE  \A i \in 1 .. Len(s) : g[i] >= Power(i - 1)
<1>0. Len(s) \in Nat /\ Base \in Nat
  BY Sizes
<1>b. \A i \in 0 .. Len(s) : g[i] \in Nat
  BY NumberBelow
<1> DEFINE S == {i \in Nat : i + 1 <= Len(s) => g[i + 1] >= Power(i)}
<1>1. 0 \in S
  <2>1. 1 \in 1 .. Len(s) /\ 1 - 1 = 0 /\ s[1] \in Byte /\ 0 + 1 = 1
    BY <1>0
  <2>2. s[1] \in Nat /\ s[1] >= 1
    BY <2>1, ByteIs
  <2>3. g[1] = g[0] * Base + s[1] /\ g[0] = 0
    BY <2>1 DEF NumberTable
  <2>4. g[1] = s[1]
    BY ONLY <1>0, <2>2, <2>3
  <2>5. g[0 + 1] >= Power(0)
    BY ONLY <2>1, <2>2, <2>4, PowerStep
  <2> QED
    BY <2>5
<1>2. ASSUME NEW i \in Nat, i \in S PROVE i + 1 \in S
  <2>1. SUFFICES ASSUME i + 2 <= Len(s) PROVE g[i + 2] >= Power(i + 1)
    <3>1. (i + 1) + 1 = i + 2
      OBVIOUS
    <3> QED
      BY <2>1, <3>1
  <2>2. i + 2 \in 1 .. Len(s) /\ (i + 2) - 1 = i + 1 /\ i + 1 \in 0 .. Len(s)
    BY <1>0, <2>1
  <2>3. g[i + 2] = g[i + 1] * Base + s[i + 2]
    BY <2>2 DEF NumberTable
  <2>4. s[i + 2] \in Byte
    BY <2>2
  <2>5. s[i + 2] \in Nat
    BY <2>4, ByteIs
  <2>6. Power(i) \in Nat /\ Power(i + 1) = Base * Power(i)
    BY PowerGrows, PowerStep
  <2>7. g[i + 1] \in Nat /\ g[i + 1] >= Power(i)
    BY <1>0, <1>2, <1>b, <2>1, <2>2
  <2> DEFINE m == g[i + 1]
             x == s[i + 2]
             p == Power(i)
  <2>8. m \in Nat /\ x \in Nat /\ p \in Nat /\ p <= m
    BY <2>5, <2>6, <2>7
  <2> HIDE DEF m, x, p
  <2>9. m * Base + x >= Base * p
    <3>1. Base \in Nat \ {0}
      BY Sizes
    <3>2. p * Base <= m * Base
      BY ONLY <2>8, <3>1, 1 \in Nat \ {0}, Data!MultOrder
    <3>3. p * Base = Base * p /\ p * Base \in Nat /\ m * Base \in Nat
      BY ONLY <2>8, <3>1
    <3> QED
      BY ONLY <2>8, <3>2, <3>3
  <2> QED
    BY ONLY <2>3, <2>6, <2>9 DEF m, x, p
<1> HIDE DEF S
<1>3. \A i \in Nat : i \in S
  BY <1>1, <1>2, 1 \in Nat \ {0}, Data!SetInduction
<1>4. ASSUME NEW i \in 1 .. Len(s) PROVE g[i] >= Power(i - 1)
  <2>1. i - 1 \in Nat /\ (i - 1) + 1 = i /\ i <= Len(s)
    BY <1>0
  <2>2. i - 1 \in S
    BY <1>3, <2>1
  <2> QED
    BY <2>1, <2>2 DEF S
<1> QED
  BY <1>4

(* A later prefix has an earlier one in front.                             *)
LEMMA NumberSplit ==
    ASSUME NEW s \in Seq(Byte), NEW g, NumberTable(s, g), NEW i \in 0 .. Len(s)
    PROVE  \A j \in 0 .. Len(s) - i :
             \E r \in Nat : r < Power(j) /\ g[i + j] = g[i] * Power(j) + r
<1>0. Len(s) \in Nat /\ Base \in Nat /\ i \in Nat /\ g[i] \in Nat
  BY Sizes, NumberBelow
<1> DEFINE S == {j \in Nat : i + j <= Len(s) =>
                    \E r \in Nat : r < Power(j) /\ g[i + j] = g[i] * Power(j) + r}
<1>1. 0 \in S
  <2>1. g[i + 0] = g[i] * 1 + 0 /\ 0 < 1 /\ 0 \in Nat
    BY <1>0
  <2> QED
    BY <2>1, PowerStep
<1>2. ASSUME NEW j \in Nat, j \in S PROVE j + 1 \in S
  <2>1. SUFFICES ASSUME i + (j + 1) <= Len(s)
        PROVE  \E r \in Nat : r < Power(j + 1) /\ g[i + (j + 1)] = g[i] * Power(j + 1) + r
    OBVIOUS
  <2>2. i + (j + 1) \in 1 .. Len(s) /\ (i + (j + 1)) - 1 = i + j /\ i + j <= Len(s)
    BY <1>0, <2>1
  <2>3. g[i + (j + 1)] = g[i + j] * Base + s[i + (j + 1)]
    BY <2>2 DEF NumberTable
  <2>4. s[i + (j + 1)] \in Byte
    BY <2>2
  <2>5. s[i + (j + 1)] \in Nat /\ s[i + (j + 1)] < Base
    BY <2>4, ByteIs
  <2>6. Power(j) \in Nat \ {0} /\ Power(j + 1) = Base * Power(j)
    BY PowerGrows, PowerStep
  <2>7. PICK r \in Nat : r < Power(j) /\ g[i + j] = g[i] * Power(j) + r
    BY <1>2, <2>2
  <2> DEFINE a == g[i]
             x == s[i + (j + 1)]
             p == Power(j)
             z == r * Base + x
  <2>8. a \in Nat /\ x \in Nat /\ x < Base /\ p \in Nat \ {0} /\ r < p
    BY <1>0, <2>5, <2>6, <2>7
  <2> HIDE DEF a, x, p
  <2>9. z \in Nat /\ z < Base * p
    BY ONLY <1>0, <2>8, DigitStep
  <2>10. (a * p + r) * Base + x = a * (Base * p) + (r * Base + x)
    BY ONLY <1>0, <2>8
  <2>11. g[i + (j + 1)] = a * Power(j + 1) + z
    <3>1. g[i + (j + 1)] = (a * p + r) * Base + x
      BY ONLY <2>3, <2>7 DEF a, p, x
    <3> QED
      BY ONLY <2>6, <2>10, <3>1 DEF p, z
  <2>12. z < Power(j + 1)
    BY ONLY <2>6, <2>9 DEF p
  <2> HIDE DEF z
  <2> QED
    BY ONLY <2>9, <2>11, <2>12 DEF a
<1> HIDE DEF S
<1>3. \A j \in Nat : j \in S
  BY <1>1, <1>2, 1 \in Nat \ {0}, Data!SetInduction
<1>4. ASSUME NEW j \in 0 .. Len(s) - i
      PROVE  \E r \in Nat : r < Power(j) /\ g[i + j] = g[i] * Power(j) + r
  <2>1. j \in Nat /\ i + j <= Len(s)
    BY <1>0
  <2>2. j \in S
    BY <1>3, <2>1
  <2> QED
    BY <2>1, <2>2 DEF S
<1> QED
  BY <1>4

(* FromBE of bytes: a number below the power of its length; with no        *)
(* leading zero it is as wide as the string.                               *)
LEMMA FromBEBelow ==
    ASSUME NEW s \in Seq(Byte)
    PROVE  FromBE(s) \in Nat /\ FromBE(s) < Power(Len(s))
<1>1. PICK g : NumberTable(s, g)
  BY NumberTables
<1>2. Len(s) \in 0 .. Len(s)
  OBVIOUS
<1> QED
  BY <1>1, <1>2, NumberBelow DEF NumberTable

(* A string with no leading zero is as wide as its number.                 *)
LEMMA FromBEWidth ==
    ASSUME NEW s \in Seq(Byte), Len(s) > 0, s[1] # 0
    PROVE  Width(FromBE(s)) = Len(s) /\ FromBE(s) # 0
<1>1. PICK g : NumberTable(s, g)
  BY NumberTables
<1>2. Len(s) \in 1 .. Len(s) /\ Len(s) \in Nat /\ Len(s) # 0 /\ Len(s) - 1 \in Nat
  OBVIOUS
<1>3. FromBE(s) >= Power(Len(s) - 1)
  BY <1>1, <1>2, NumberAbove DEF NumberTable
<1>4. FromBE(s) \in Nat /\ FromBE(s) < Power(Len(s))
  BY FromBEBelow
<1>5. IsWidth(FromBE(s), Len(s))
  BY <1>3, <1>4 DEF IsWidth
<1>6. Width(FromBE(s)) = Len(s)
  BY <1>2, <1>4, <1>5, WidthIs, WidthOnce
<1>7. Power(Len(s) - 1) \in Nat \ {0}
  BY <1>2, PowerGrows
<1> QED
  BY <1>3, <1>4, <1>6, <1>7

(* Bytes come back from the number they stand for.                         *)
LEMMA ToBEFromBE ==
    ASSUME NEW s \in Seq(Byte)
    PROVE  ToBE(FromBE(s), Len(s)) = s
<1> DEFINE n == Len(s)
           f == ToBE(FromBE(s), n)
<1>0. n \in Nat /\ FromBE(s) \in Nat
  BY FromBEBelow
<1>1. f \in Seq(Byte) /\ Len(f) = n
  BY <1>0, ToBEIs
<1>2. PICK g : NumberTable(s, g)
  BY NumberTables
<1>3. ASSUME NEW i \in 1 .. n PROVE f[i] = s[i]
  <2>1. f[i] = (FromBE(s) \div Power(n - i)) % Base
    BY DEF ToBE
  <2>2. n - i \in 0 .. Len(s) - i /\ i \in 0 .. Len(s) /\ i + (n - i) = n /\ n - i \in Nat
    BY <1>0
  <2>s. \A j \in 0 .. Len(s) - i :
          \E r \in Nat : r < Power(j) /\ g[i + j] = g[i] * Power(j) + r
    BY ONLY <1>2, <2>2, s \in Seq(Byte), NumberSplit, ZenonT(150)
  <2>3. PICK r \in Nat : r < Power(n - i) /\ g[n] = g[i] * Power(n - i) + r
    BY ONLY <2>2, <2>s
  <2>4. Power(n - i) \in Nat \ {0}
    BY <2>2, PowerGrows
  <2>5. g[i] \in Nat /\ i - 1 \in 0 .. Len(s)
    BY <1>2, <2>2, NumberBelow
  <2>6. FromBE(s) \div Power(n - i) = g[i]
    <3>1. FromBE(s) = g[n]
      BY <1>2 DEF NumberTable
    <3>2. (g[i] * Power(n - i) + r) \div Power(n - i) = g[i]
      BY <2>3, <2>4, <2>5, 1 \in Nat \ {0}, Data!DivMod
    <3> QED
      BY ONLY <2>3, <3>1, <3>2
  <2>7. g[i] = g[i - 1] * Base + s[i]
    BY <1>2 DEF NumberTable
  <2>8. g[i - 1] \in Nat /\ s[i] \in Byte
    BY <1>2, <2>5, NumberBelow
  <2>9. s[i] \in Nat /\ s[i] < Base /\ Base \in Nat \ {0}
    BY <2>8, ByteIs, Sizes
  <2>10. (g[i - 1] * Base + s[i]) % Base = s[i]
    BY ONLY <2>8, <2>9, 1 \in Nat \ {0}, Data!DivMod
  <2> QED
    BY ONLY <2>1, <2>6, <2>7, <2>10
<1> HIDE DEF f
<1>4. f = s
  BY <1>1, <1>3, SeqEqual
<1> QED
  BY <1>4 DEF f

(* A leading zero says nothing.                                            *)
LEMMA FromBETail ==
    ASSUME NEW s \in Seq(Byte), Len(s) > 0, s[1] = 0
    PROVE  FromBE(Tail(s)) = FromBE(s)
<1> DEFINE t == Tail(s)
           n == Len(t)
<1>1. t \in Seq(Byte) /\ n \in Nat /\ Len(s) = n + 1 /\ \A i \in 1 .. n : t[i] = s[i + 1]
  OBVIOUS
<1> HIDE DEF t
<1>2. PICK g : NumberTable(s, g)
  BY NumberTables
<1>3. PICK h : NumberTable(t, h)
  BY <1>1, NumberTables
<1> DEFINE S == {i \in Nat : i <= n => h[i] = g[i + 1]}
<1>4. 0 \in S
  <2>1. 1 \in 1 .. Len(s) /\ 1 - 1 = 0 /\ 0 + 1 = 1 /\ Base \in Nat
    BY <1>1, Sizes
  <2>2. g[1] = g[0] * Base + s[1] /\ g[0] = 0
    BY <1>2, <2>1 DEF NumberTable
  <2>3. h[0] = 0
    BY <1>3 DEF NumberTable
  <2>4. g[1] = 0
    BY ONLY <2>1, <2>2, s[1] = 0
  <2> QED
    BY <2>1, <2>3, <2>4
<1>5. ASSUME NEW i \in Nat, i \in S PROVE i + 1 \in S
  <2>1. SUFFICES ASSUME i + 1 <= n PROVE h[i + 1] = g[(i + 1) + 1]
    OBVIOUS
  <2>2. /\ i + 1 \in 1 .. Len(t) /\ (i + 1) - 1 = i
        /\ (i + 1) + 1 \in 1 .. Len(s) /\ ((i + 1) + 1) - 1 = i + 1
    BY <1>1, <2>1
  <2>3. h[i + 1] = h[i] * Base + t[i + 1]
    BY <1>3, <2>2 DEF NumberTable
  <2>4. g[(i + 1) + 1] = g[i + 1] * Base + s[(i + 1) + 1]
    BY <1>2, <2>2 DEF NumberTable
  <2>5. t[i + 1] = s[(i + 1) + 1] /\ h[i] = g[i + 1]
    BY <1>1, <1>5, <2>1, <2>2
  <2> QED
    BY ONLY <2>3, <2>4, <2>5
<1> HIDE DEF S
<1>6. \A i \in Nat : i \in S
  BY <1>4, <1>5, 1 \in Nat \ {0}, Data!SetInduction
<1>7. h[n] = g[n + 1]
  BY <1>1, <1>6 DEF S
<1> QED
  BY <1>1, <1>2, <1>3, <1>7 DEF NumberTable, t

-----------------------------------------------------------------------------
(* The bytes of each call of the writer.                                   *)

(* Short sequences.                                                        *)
LEMMA Short ==
    ASSUME NEW S, NEW a \in S, NEW b \in S
    PROVE  /\ <<>> \in Seq(S) /\ <<a>> \in Seq(S) /\ <<a, b>> \in Seq(S)
           /\ Len(<<a>>) = 1 /\ Len(<<a, b>>) = 2 /\ <<a>>[1] = a
OBVIOUS

(* Joined sequences.                                                       *)
LEMMA Joined ==
    ASSUME NEW S, NEW a \in Seq(S), NEW b \in Seq(S)
    PROVE  /\ a \o b \in Seq(S) /\ Len(a) \in Nat /\ Len(b) \in Nat
           /\ Len(a \o b) = Len(a) + Len(b)
BY 1 \in Nat \ {0}, Data!ConcatFacts

(* A number in its fewest bytes.                                           *)
LEMMA FewestIs ==
    ASSUME NEW n \in Nat, NEW k \in Nat, n < Power(k)
    PROVE  ToBE(n, Width(n)) \in Seq(Byte) /\ Len(ToBE(n, Width(n))) \in 0 .. k
<1>1. Width(n) \in 0 .. k
  BY WidthBelow
<1>2. Width(n) \in Nat
  BY <1>1
<1> QED
  BY <1>1, <1>2, ToBEIs

(* And so in one byte at least.                                            *)
LEMMA FewestOne ==
    ASSUME NEW n \in Nat \ {0}
    PROVE  Width(n) > 0
<1>1. Width(n) \in Nat /\ n < Power(Width(n))
  BY WidthIs DEF IsWidth
<1>2. Width(n) # 0
  BY <1>1, PowerStep
<1> QED
  BY <1>1, <1>2

(* A string of one byte at least and n at most.                            *)
Content(s, n) == s \in Seq(Byte) /\ Len(s) > 0 /\ (Len(s) <= n \/ Len(s) = 1)

(* Stripped leaves a byte at least and adds none.                          *)
LEMMA StrippedIs ==
    ASSUME NEW s \in Seq(Byte)
    PROVE  Content(Stripped(s), Len(s))
<1> DEFINE n == FromBE(s)
<1>1. n \in Nat /\ n < Power(Len(s)) /\ Len(s) \in Nat
  BY FromBEBelow
<1>2. CASE n = 0
  <2>1. Stripped(s) = <<0>>
    BY <1>2 DEF Stripped
  <2>2. 0 \in Byte
    BY Sizes
  <2>3. <<0>> \in Seq(Byte) /\ Len(<<0>>) = 1
    BY ONLY <2>2, Short
  <2> QED
    BY <2>1, <2>3 DEF Content
<1>3. CASE n # 0
  <2>1. Stripped(s) = ToBE(n, Width(n))
    BY <1>3 DEF Stripped
  <2> HIDE DEF n
  <2>2. ToBE(n, Width(n)) \in Seq(Byte) /\ Len(ToBE(n, Width(n))) \in 0 .. Len(s)
    BY <1>1, FewestIs
  <2>3. Width(n) > 0 /\ Width(n) \in Nat
    BY <1>1, <1>3, FewestOne, WidthIs
  <2>4. Len(ToBE(n, Width(n))) = Width(n)
    BY <1>1, <2>3, ToBEIs
  <2> QED
    BY <2>1, <2>2, <2>3, <2>4 DEF Content
<1> QED
  BY <1>2, <1>3

(* The octets of a u64 fit one.                                            *)
LEMMA U64OctetsIs ==
    ASSUME NEW n \in Nat, n < Power(U64Bytes)
    PROVE  Content(U64Octets(n), U64Bytes)
<1>0. U64Bytes \in Nat
  BY DerAssumption
<1>1. CASE n = 0
  <2>1. U64Octets(n) = <<0>>
    BY <1>1 DEF U64Octets
  <2>2. 0 \in Byte
    BY Sizes
  <2>3. <<0>> \in Seq(Byte) /\ Len(<<0>>) = 1
    BY ONLY <2>2, Short
  <2> QED
    BY <2>1, <2>3 DEF Content
<1>2. CASE n # 0
  <2>1. U64Octets(n) = ToBE(n, Width(n))
    BY <1>2 DEF U64Octets
  <2>2. ToBE(n, Width(n)) \in Seq(Byte) /\ Len(ToBE(n, Width(n))) \in 0 .. U64Bytes
    BY <1>0, FewestIs
  <2>3. Width(n) > 0 /\ Width(n) \in Nat
    BY <1>2, FewestOne, WidthIs
  <2>4. Len(ToBE(n, Width(n))) = Width(n)
    BY <2>3, ToBEIs
  <2> QED
    BY <2>1, <2>2, <2>3, <2>4 DEF Content
<1> QED
  BY <1>1, <1>2

(* Words give WordBytes octets each.                                       *)
LEMMA WordsOctetsIs ==
    ASSUME NEW words \in Seq(Nat)
    PROVE  /\ WordsOctets(words) \in Seq(Byte)
           /\ Len(WordsOctets(words)) = Len(words) * WordBytes
<1> DEFINE n == Len(words) * WordBytes
           f == WordsOctets(words)
<1>0. WordBytes \in Nat \ {0} /\ Len(words) \in Nat
  BY Sizes
<1>1. n \in Nat
  BY ONLY <1>0
<1>2. ASSUME NEW p \in 1 .. n
      PROVE  ToBE(words[Len(words) - (p - 1) \div WordBytes], WordBytes)[((p - 1) % WordBytes) + 1]
                \in Byte
  <2> DEFINE q == (p - 1) \div WordBytes
             r == (p - 1) % WordBytes
  <2> HIDE DEF n
  <2>1. p - 1 \in Nat /\ p - 1 < n
    BY ONLY <1>1, p \in 1 .. n
  <2>2. q \in Nat /\ r \in Nat /\ r < WordBytes /\ p - 1 = q * WordBytes + r
    BY ONLY <1>0, <2>1, 1 \in Nat \ {0}, Data!DivModSplit
  <2> HIDE DEF q, r
  <2>3. q * WordBytes < Len(words) * WordBytes
    <3>1. q * WordBytes \in Nat
      BY ONLY <1>0, <2>2
    <3> QED
      BY ONLY <1>0, <1>1, <2>1, <2>2, <3>1 DEF n
  <2>4. q < Len(words)
    BY ONLY <1>0, <2>2, <2>3, 1 \in Nat \ {0}, Data!MultOrder
  <2>5. Len(words) - q \in 1 .. Len(words)
    BY ONLY <1>0, <2>2, <2>4
  <2>6. words[Len(words) - q] \in Nat
    BY ONLY <2>5, words \in Seq(Nat)
  <2> DEFINE t == ToBE(words[Len(words) - q], WordBytes)
  <2>7. t \in Seq(Byte) /\ Len(t) = WordBytes
    BY ONLY <1>0, <2>6, ToBEIs
  <2> HIDE DEF t
  <2>8. r + 1 \in 1 .. Len(t)
    BY ONLY <1>0, <2>2, <2>7
  <2>9. t[r + 1] \in Byte
    BY ONLY <2>7, <2>8
  <2> QED
    BY ONLY <2>9 DEF t, q, r
<1>3. f \in [1 .. n -> Byte]
  BY <1>2 DEF WordsOctets
<1> HIDE DEF f, n
<1>4. f \in Seq(Byte) /\ Len(f) = n
  BY ONLY <1>1, <1>3, 1 \in Nat \ {0}, Data!TableIsSeq
<1> QED
  BY <1>4 DEF f, n

(* A length that fits size_t takes the bytes its first byte counts.        *)
LEMMA LengthOctetsIs ==
    ASSUME NEW len \in Nat, len < Power(SizeBytes)
    PROVE  LengthOctets(len) \in Seq(Byte) /\ Len(LengthOctets(len)) <= SizeBytes + 1
<1>1. Half \in Nat /\ SizeBytes \in Nat /\ SizeBytes < Half /\ 2 * Half <= Base /\ Base \in Nat
  BY Sizes
<1>2. CASE len < Half
  <2>1. LengthOctets(len) = <<len>>
    BY <1>2 DEF LengthOctets
  <2>2. len \in Byte
    BY <1>1, <1>2, ByteIs
  <2>3. <<len>> \in Seq(Byte) /\ Len(<<len>>) = 1
    BY ONLY <2>2, Short
  <2> QED
    BY <1>1, <2>1, <2>3
<1>3. CASE ~ (len < Half)
  <2> DEFINE w == Width(len)
             t == ToBE(len, w)
  <2>1. LengthOctets(len) = <<Half + w>> \o t
    BY <1>3 DEF LengthOctets
  <2>2. w \in 0 .. SizeBytes
    BY <1>1, WidthBelow
  <2>3. t \in Seq(Byte) /\ Len(t) = w
    BY <1>1, <2>2, ToBEIs
  <2> HIDE DEF w, t
  <2>4. Half + w \in Nat /\ Half + w < Base
    BY ONLY <1>1, <2>2
  <2>5. Half + w \in Byte
    BY ONLY <2>4, ByteIs
  <2>6. <<Half + w>> \in Seq(Byte) /\ Len(<<Half + w>>) = 1
    BY ONLY <2>5, Short
  <2>7. <<Half + w>> \o t \in Seq(Byte) /\ Len(<<Half + w>> \o t) = 1 + w
    BY ONLY <2>3, <2>6, Joined
  <2> QED
    BY ONLY <1>1, <2>1, <2>2, <2>7
<1> QED
  BY <1>2, <1>3

(* What a call puts in front of the output: strings of bytes.              *)
Parts == Seq(Seq(Byte))

(* A header is two strings of bytes.                                       *)
LEMMA HeaderIs ==
    ASSUME NEW tag \in Byte, NEW len \in Nat, len < Power(SizeBytes)
    PROVE  Header(tag, len) \in Parts
<1>1. LengthOctets(len) \in Seq(Byte)
  BY LengthOctetsIs
<1>2. <<tag>> \in Seq(Byte)
  BY Short
<1> DEFINE S == Seq(Byte)
<1> HIDE DEF S
<1>3. <<LengthOctets(len), <<tag>>>> \in Seq(S)
  <2>1. LengthOctets(len) \in S /\ <<tag>> \in S
    BY <1>1, <1>2 DEF S
  <2> QED
    BY ONLY <2>1, Short
<1> QED
  BY <1>3 DEF Header, Parts, S

(* A content and its header.                                               *)
LEMMA TlvIs ==
    ASSUME NEW c \in Seq(Byte), NEW tag \in Byte, NEW len \in Nat, len < Power(SizeBytes)
    PROVE  <<c>> \o Header(tag, len) \in Parts
<1> DEFINE S == Seq(Byte)
           h == Header(tag, len)
<1>1. h \in Seq(S) /\ c \in S
  BY HeaderIs DEF Parts
<1> HIDE DEF S, h
<1>2. <<c>> \in Seq(S)
  BY <1>1, Short
<1>3. <<c>> \o h \in Seq(S)
  BY ONLY <1>1, <1>2, Joined
<1> QED
  BY <1>3 DEF S, h, Parts

(* A content in two parts and its header.                                  *)
LEMMA TwoTlvIs ==
    ASSUME NEW c \in Seq(Byte), NEW d \in Seq(Byte), NEW tag \in Byte,
           NEW len \in Nat, len < Power(SizeBytes)
    PROVE  <<c, d>> \o Header(tag, len) \in Parts
<1> DEFINE S == Seq(Byte)
           h == Header(tag, len)
<1>1. h \in Seq(S) /\ c \in S /\ d \in S
  BY HeaderIs DEF Parts
<1> HIDE DEF S, h
<1>2. <<c, d>> \in Seq(S)
  BY <1>1, Short
<1>3. <<c, d>> \o h \in Seq(S)
  BY ONLY <1>1, <1>2, Joined
<1> QED
  BY <1>3 DEF S, h, Parts

(* Every tag a call writes is a byte.                                      *)
TagNames == {"null", "boolean", "integer", "bits", "octets", "oid", "utf8", "utctime", "gentime",
             "sequence", "set"}

(* The tags are bytes.                                                     *)
LEMMA TagIs == \A n \in TagNames : Tag[n] \in Byte
BY DerAssumption, DerWriterAssumption DEF TagNames

(* One byte fits.                                                          *)
LEMMA FitsSmall ==
    /\ \A n \in Nat : Fits(n) => n < Power(SizeBytes) /\ n + 1 < Power(SizeBytes)
    /\ 0 < Power(SizeBytes) /\ Fits(1)
<1>1. SizeBytes \in Nat /\ 1 <= SizeBytes /\ Base \in Nat /\ Base > 10
  BY Sizes
<1>2. Power(1) = Base * Power(0) /\ Power(0) = 1
  BY PowerStep
<1>3. Power(1) = Base
  BY ONLY <1>1, <1>2
<1>4. Power(1) <= Power(SizeBytes) /\ Power(SizeBytes) \in Nat
  BY <1>1, PowerOrder, PowerGrows
<1> DEFINE p == Power(SizeBytes)
<1> HIDE DEF p
<1>5. p \in Nat /\ p > 10
  BY ONLY <1>1, <1>3, <1>4 DEF p
<1>6. \A n \in Nat : Fits(n) => n < p /\ n + 1 < p
  BY ONLY <1>5 DEF Fits, p
<1>7. 0 < p /\ 1 \in Nat /\ 1 + 1 < p
  BY ONLY <1>5
<1> QED
  BY ONLY <1>6, <1>7 DEF Fits, p

(* A content of a size that fits, or of one byte.                          *)
LEMMA ContentFits ==
    ASSUME NEW s, NEW n \in Nat, Content(s, n), Fits(n)
    PROVE  s \in Seq(Byte) /\ Len(s) > 0 /\ Len(s) \in Nat /\ Fits(Len(s))
<1>1. s \in Seq(Byte) /\ Len(s) > 0 /\ (Len(s) <= n \/ Len(s) = 1)
  BY DEF Content
<1>2. Len(s) \in Nat
  BY <1>1
<1>3. Power(SizeBytes) \in Nat
  BY PowerGrows, Sizes, SMTT(60)
<1>4. CASE Len(s) <= n
  <2>1. n + 1 < Power(SizeBytes)
    BY DEF Fits
  <2>2. Len(s) + 1 < Power(SizeBytes)
    BY ONLY <1>2, <1>3, <1>4, <2>1, n \in Nat
  <2> QED
    BY <1>1, <1>2, <2>2 DEF Fits
<1>5. CASE Len(s) = 1
  BY <1>1, <1>5, FitsSmall
<1> QED
  BY <1>1, <1>4, <1>5

(* An INTEGER is written as strings of bytes.                              *)
LEMMA IntegerPartsIs ==
    ASSUME NEW s \in Seq(Byte), Fits(Len(s))
    PROVE  IntegerParts(s) \in Parts
<1> DEFINE a == Stripped(s)
<1>1. a \in Seq(Byte) /\ Len(a) > 0 /\ Len(a) \in Nat /\ Fits(Len(a))
  BY StrippedIs, ContentFits
<1>2. Tag.integer \in Byte /\ 0 \in Byte
  BY TagIs, Sizes DEF TagNames
<1>3. Len(a) < Power(SizeBytes) /\ Len(a) + 1 < Power(SizeBytes) /\ Len(a) + 1 \in Nat
  BY <1>1, FitsSmall
<1>4. <<0>> \in Seq(Byte)
  BY <1>2, Short
<1>5. \/ IntegerParts(s) = <<a, <<0>>>> \o Header(Tag.integer, Len(a) + 1)
      \/ IntegerParts(s) = <<a>> \o Header(Tag.integer, Len(a))
  BY DEF IntegerParts
<1> HIDE DEF a
<1> QED
  BY <1>1, <1>2, <1>3, <1>4, <1>5, TlvIs, TwoTlvIs

(* Two decimal digits.                                                     *)
LEMMA Digits2Is ==
    ASSUME NEW n \in Nat
    PROVE  Digits2(n) \in Seq(Byte) /\ n % 100 \in Nat
<1>0. 10 \in Nat \ {0} /\ 100 \in Nat \ {0}
  OBVIOUS
<1>1. n \div 10 \in Nat /\ n % 10 \in Nat /\ n % 10 < 10
  BY <1>0, 1 \in Nat \ {0}, Data!DivModSplit
<1>2. (n \div 10) % 10 \in Nat /\ (n \div 10) % 10 < 10
  BY <1>0, <1>1, 1 \in Nat \ {0}, Data!DivModSplit
<1>3. n % 100 \in Nat
  BY <1>0, 1 \in Nat \ {0}, Data!DivModSplit
<1> DEFINE a == (n \div 10) % 10
           b == n % 10
<1>4. a \in Nat /\ a < 10 /\ b \in Nat /\ b < 10
  BY <1>1, <1>2
<1>5. Base \in Nat /\ Base > 10
  BY Sizes
<1>6. Digits2(n) = <<a, b>>
  BY DEF Digits2
<1> HIDE DEF a, b
<1>7. a \in Byte /\ b \in Byte
  BY <1>4, <1>5, ByteIs
<1> QED
  BY <1>3, <1>6, <1>7, Short

(* A UTCTime is thirteen bytes.                                            *)
LEMMA UtcDigitsIs ==
    ASSUME NEW d, \A f \in {"y", "m", "d", "h", "mi", "s"} : d[f] \in Nat
    PROVE  UtcDigits(d) \in Seq(Byte)
<1>1. d.y \in Nat /\ d.m \in Nat /\ d.d \in Nat /\ d.h \in Nat /\ d.mi \in Nat /\ d.s \in Nat
  OBVIOUS
<1>2. d.y % 100 \in Nat
  BY <1>1, Digits2Is
<1>3. /\ Digits2(d.y % 100) \in Seq(Byte) /\ Digits2(d.m) \in Seq(Byte)
      /\ Digits2(d.d) \in Seq(Byte) /\ Digits2(d.h) \in Seq(Byte)
      /\ Digits2(d.mi) \in Seq(Byte) /\ Digits2(d.s) \in Seq(Byte)
  BY ONLY <1>1, <1>2, Digits2Is
<1>4. Zed \in Byte
  BY DerWriterAssumption
<1>5. <<Zed>> \in Seq(Byte)
  BY ONLY <1>4, Short
<1> DEFINE S == Seq(Byte)
<1>6. \A a, b \in S : a \o b \in S
  BY Joined
<1> HIDE DEF S
<1>7. UtcDigits(d) \in S
  BY <1>3, <1>5, <1>6 DEF UtcDigits, S
<1> QED
  BY <1>7 DEF S

(* Every call the writer takes puts strings of bytes.                      *)
LEMMA PartsOfIs ==
    ASSUME NEW v, Writable(v), ~ (v.kind = "bits" /\ ~ BitStringTaken(v.bytes, v.val))
    PROVE  PartsOf(v) \in Parts
<1>t. \A n \in TagNames : Tag[n] \in Byte
  BY TagIs
<1>f. /\ \A n \in Nat : Fits(n) => n < Power(SizeBytes) /\ n + 1 < Power(SizeBytes)
      /\ 0 < Power(SizeBytes) /\ Fits(1)
  BY FitsSmall
<1>b. v.kind # "words" => v.bytes \in Seq(Byte) /\ Fits(Len(v.bytes)) /\ Len(v.bytes) \in Nat
  BY DEF Writable, Fits
<1>1. CASE v.kind = "null"
  <2>1. PartsOf(v) = Header(Tag.null, 0)
    BY <1>1 DEF PartsOf
  <2>2. Tag.null \in Byte
    BY <1>t DEF TagNames
  <2> QED
    BY <1>f, <2>1, <2>2, HeaderIs
<1>2. CASE v.kind = "boolean"
  <2> DEFINE b == IF v.val = 0 THEN 0 ELSE Base - 1
  <2>1. PartsOf(v) = <<<<b>>>> \o Header(Tag.boolean, 1)
    BY <1>2 DEF PartsOf
  <2>2. Tag.boolean \in Byte
    BY <1>t DEF TagNames
  <2>3. b \in Byte
    <3>1. b \in Nat /\ b < Base
      BY Sizes
    <3> QED
      BY <3>1, ByteIs
  <2> HIDE DEF b
  <2>4. <<b>> \in Seq(Byte)
    BY <2>3, Short
  <2>5. 1 \in Nat /\ 1 < Power(SizeBytes)
    BY <1>f
  <2> QED
    BY ONLY <2>1, <2>2, <2>4, <2>5, TlvIs
<1>3. CASE v.kind = "integer"
  <2>1. PartsOf(v) = IntegerParts(v.bytes)
    BY <1>3 DEF PartsOf
  <2> QED
    BY <1>3, <1>b, <2>1, IntegerPartsIs
<1>4. CASE v.kind = "u64"
  <2>1. PartsOf(v) = IntegerParts(U64Octets(v.val))
    BY <1>4 DEF PartsOf
  <2>2. v.val \in Nat /\ v.val < Power(U64Bytes)
    <3>1. v.val \in 0 .. Power(U64Bytes) - 1 /\ U64Bytes \in Nat
      BY <1>4, DerAssumption DEF Writable
    <3>2. Power(U64Bytes) \in Nat
      BY <3>1, PowerGrows
    <3> QED
      BY ONLY <3>1, <3>2
  <2>3. Content(U64Octets(v.val), U64Bytes)
    BY <2>2, U64OctetsIs
  <2>4. U64Bytes \in Nat /\ Fits(U64Bytes)
    BY DerAssumption
  <2>5. U64Octets(v.val) \in Seq(Byte) /\ Fits(Len(U64Octets(v.val)))
    BY <2>3, <2>4, ContentFits
  <2> QED
    BY <2>1, <2>5, IntegerPartsIs
<1>5. CASE v.kind = "words"
  <2> DEFINE o == WordsOctets(v.bytes)
  <2>1. PartsOf(v) = IntegerParts(Stripped(o))
    BY <1>5 DEF PartsOf
  <2>2. v.bytes \in Seq(Nat) /\ Fits(Len(v.bytes) * WordBytes)
    BY <1>5 DEF Writable
  <2>3. o \in Seq(Byte) /\ Len(o) = Len(v.bytes) * WordBytes
    BY <2>2, WordsOctetsIs
  <2> HIDE DEF o
  <2>4. Content(Stripped(o), Len(o)) /\ Len(o) \in Nat /\ Fits(Len(o))
    BY <2>2, <2>3, StrippedIs
  <2>5. Stripped(o) \in Seq(Byte) /\ Fits(Len(Stripped(o)))
    BY <2>4, ContentFits
  <2> QED
    BY <2>1, <2>5, IntegerPartsIs
<1>6. CASE v.kind = "bits"
  <2>1. PartsOf(v) = <<v.bytes, <<v.val>>>> \o Header(Tag.bits, Len(v.bytes) + 1)
    BY <1>6 DEF PartsOf
  <2>2. Tag.bits \in Byte
    BY <1>t DEF TagNames
  <2>3. v.val \in Byte
    <3>1. v.val \in Nat /\ v.val < Bits
      BY <1>6 DEF Writable, BitStringTaken
    <3>2. Bits < Base /\ Base \in Nat /\ Bits \in Nat
      BY DerWriterAssumption
    <3>3. v.val < Base
      BY ONLY <3>1, <3>2
    <3> QED
      BY <3>1, <3>3, ByteIs
  <2>4. <<v.val>> \in Seq(Byte)
    BY <2>3, Short
  <2>5. v.bytes \in Seq(Byte) /\ Len(v.bytes) + 1 \in Nat /\ Len(v.bytes) + 1 < Power(SizeBytes)
    BY <1>6, <1>b, <1>f
  <2> QED
    BY ONLY <2>1, <2>2, <2>4, <2>5, TwoTlvIs
<1>7. CASE v.kind = "time"
  <2>1. PartsOf(v) = <<UtcDigits(v.val)>> \o Header(Tag.utctime, 13)
    BY <1>7 DEF PartsOf
  <2>2. Tag.utctime \in Byte
    BY <1>t DEF TagNames
  <2>3. UtcDigits(v.val) \in Seq(Byte)
    <3>1. \A f \in {"y", "m", "d", "h", "mi", "s"} : v.val[f] \in Nat
      BY <1>7 DEF Writable, Date
    <3> QED
      BY ONLY <3>1, UtcDigitsIs
  <2>4. 13 \in Nat /\ 13 < Power(SizeBytes)
    <3>1. Fits(13)
      BY DerAssumption
    <3> QED
      BY <1>f, <3>1
  <2> QED
    BY ONLY <2>1, <2>2, <2>3, <2>4, TlvIs
<1>8. CASE v.kind \in {"octets", "oid", "utf8"}
  <2>1. PartsOf(v) = <<v.bytes>> \o Header(Tag[v.kind], Len(v.bytes))
    BY <1>8 DEF PartsOf
  <2>2. Tag[v.kind] \in Byte
    BY <1>8, <1>t DEF TagNames
  <2>3. v.bytes \in Seq(Byte) /\ Len(v.bytes) \in Nat /\ Len(v.bytes) < Power(SizeBytes)
    BY <1>8, <1>b, <1>f
  <2> QED
    BY ONLY <2>1, <2>2, <2>3, TlvIs
<1> QED
  BY <1>1, <1>2, <1>3, <1>4, <1>5, <1>6, <1>7, <1>8 DEF Writable

(* So does the end of a container.                                         *)
LEMMA EndPartsIs ==
    ASSUME NEW f, f.tag \in {"sequence", "set", "bits"},
           NEW len, len = f.start - WriterPos(writer), len \in Nat, Fits(len)
    PROVE  EndParts(f) \in Parts
<1>1. \A n \in TagNames : Tag[n] \in Byte
  BY TagIs
<1>2. len < Power(SizeBytes) /\ len + 1 < Power(SizeBytes) /\ len + 1 \in Nat
  BY FitsSmall
<1>3. CASE f.tag = "bits"
  <2>1. EndParts(f) = <<<<0>>>> \o Header(Tag.bits, len + 1)
    BY <1>3 DEF EndParts
  <2>2. Tag.bits \in Byte /\ 0 \in Byte
    BY <1>1, Sizes DEF TagNames
  <2>3. <<0>> \in Seq(Byte)
    BY <2>2, Short
  <2> QED
    BY ONLY <1>2, <2>1, <2>2, <2>3, TlvIs, SMTT(60)
<1>4. CASE f.tag # "bits"
  <2>1. EndParts(f) = Header(Tag[f.tag], len)
    BY <1>4 DEF EndParts
  <2>2. Tag[f.tag] \in Byte
    BY <1>1 DEF TagNames
  <2> QED
    BY ONLY <1>2, <2>1, <2>2, len \in Nat, HeaderIs
<1> QED
  BY <1>3, <1>4

-----------------------------------------------------------------------------
(* The writer.                                                             *)

(* A writer with room r that wrote o.                                      *)
WriterOf(r, o, e) == [room |-> r, out |-> o, error |-> e]

(* A writer in its buffer.                                                 *)
IsWriter(w) ==
    \E r \in Nat, o \in Seq(Byte), e \in BOOLEAN : w = WriterOf(r, o, e) /\ Len(o) <= r

(* The fields of a writer.                                                 *)
LEMMA WriterFields ==
    ASSUME NEW r, NEW o, NEW e
    PROVE  WriterOf(r, o, e).room = r /\ WriterOf(r, o, e).out = o /\ WriterOf(r, o, e).error = e
BY DEF WriterOf

(* What an assignment to a field of it leaves.                             *)
LEMMA OutSet ==
    ASSUME NEW r, NEW o, NEW e, NEW z
    PROVE  [WriterOf(r, o, e) EXCEPT !.out = z] = WriterOf(r, z, e)
BY DEF WriterOf

(* A writer whose error flag was set.                                      *)
LEMMA ErrorSet ==
    ASSUME NEW r, NEW o, NEW e
    PROVE  [WriterOf(r, o, e) EXCEPT !.error = TRUE] = WriterOf(r, o, TRUE)
<1> DEFINE SetTo(x) == [WriterOf(r, o, e) EXCEPT !.error = x]
           With(x) == WriterOf(r, o, x)
<1>1. \A x : SetTo(x) = With(x)
  BY DEF WriterOf
<1> HIDE DEF SetTo, With
<1>2. SetTo(TRUE) = With(TRUE)
  BY ONLY <1>1
<1> QED
  BY ONLY <1>2, Zenon DEF SetTo, With

(* The flag up, and down.                                                  *)
LEMMA FlagFields ==
    ASSUME NEW r, NEW o
    PROVE  /\ WriterOf(r, o, TRUE).room = r /\ WriterOf(r, o, TRUE).out = o
           /\ WriterOf(r, o, FALSE).room = r /\ WriterOf(r, o, FALSE).out = o
           /\ WriterOf(r, o, FALSE).error = FALSE
BY DEF WriterOf

(* What a call leaves: w, longer or not, with what it answers.             *)
Left(w, ret) == [w |-> w, ret |-> ret]

(* The fields of what a call leaves.                                       *)
LEMMA LeftFields ==
    ASSUME NEW w, NEW ret
    PROVE  Left(w, ret).w = w /\ Left(w, ret).ret = ret
BY DEF Left

(* One string in front of the output, when there is room for it.           *)
LEMMA WriteOne ==
    ASSUME NEW r \in Nat, NEW o \in Seq(Byte), NEW e \in BOOLEAN, Len(o) <= r, NEW b \in Seq(Byte)
    PROVE  \/ \E x : WriteBytesRev(WriterOf(r, o, e), b) = Left(WriterOf(r, o, e), x)
           \/ \E x : WriteBytesRev(WriterOf(r, o, e), b) = Left(WriterOf(r, o, TRUE), x)
           \/ /\ WriteBytesRev(WriterOf(r, o, e), b) = Left(WriterOf(r, b \o o, e), "OK")
              /\ Len(b) + Len(o) <= r
<1> DEFINE w == WriterOf(r, o, e)
           z == b \o o
<1>1. w.room = r /\ w.out = o /\ w.error = e
  BY WriterFields
<1>s. \A x : [WriterOf(r, o, e) EXCEPT !.out = x] = WriterOf(r, x, e)
  BY DEF WriterOf
<1>2. [w EXCEPT !.out = z] = WriterOf(r, z, e)
  BY ONLY <1>s
<1>e. [w EXCEPT !.error = TRUE] = WriterOf(r, o, TRUE)
  BY ONLY ErrorSet, Zenon
<1> HIDE DEF w
<1>3. [w EXCEPT !.out = b \o @] = [w EXCEPT !.out = z]
  BY ONLY <1>1
<1>4. WriterPos(w) = r - Len(o) /\ Len(o) \in Nat /\ Len(b) \in Nat
  BY <1>1 DEF WriterPos
<1> HIDE DEF z
<1>5. CASE e
  <2>1. WriteBytesRev(w, b) = Left(w, "WRITE_ERROR")
    BY <1>1, <1>5 DEF WriteBytesRev, Left
  <2> QED
    BY <2>1 DEF w
<1>6. CASE ~ e /\ Len(b) > WriterPos(w)
  <2>1. WriteBytesRev(w, b) = Left([w EXCEPT !.error = TRUE], "BUFFER_TOO_SMALL")
    BY <1>1, <1>6 DEF WriteBytesRev, Left
  <2> QED
    BY <1>e, <2>1 DEF w
<1>7. CASE ~ e /\ ~ (Len(b) > WriterPos(w))
  <2>1. WriteBytesRev(w, b) = Left([w EXCEPT !.out = b \o @], "OK")
    BY <1>1, <1>7 DEF WriteBytesRev, Left
  <2>2. Len(b) + Len(o) <= r
    BY ONLY <1>4, <1>7, r \in Nat
  <2> QED
    BY <1>2, <1>3, <2>1, <2>2 DEF w, z
<1> QED
  BY <1>5, <1>6, <1>7

(* And there is room for it.                                               *)
LEMMA WriteRoomy ==
    ASSUME NEW r \in Nat, NEW o \in Seq(Byte), NEW b \in Seq(Byte), Len(b) + Len(o) <= r
    PROVE  WriteBytesRev(WriterOf(r, o, FALSE), b) = Left(WriterOf(r, b \o o, FALSE), "OK")
<1> DEFINE w == WriterOf(r, o, FALSE)
           z == b \o o
<1>1. w.room = r /\ w.out = o /\ w.error = FALSE
  BY ONLY FlagFields, ZenonT(150)
<1>2. [w EXCEPT !.out = z] = WriterOf(r, z, FALSE)
  BY ONLY OutSet, ZenonT(150)
<1> HIDE DEF w
<1>3. [w EXCEPT !.out = b \o @] = [w EXCEPT !.out = z]
  BY ONLY <1>1
<1>4. WriterPos(w) = r - Len(o) /\ Len(o) \in Nat /\ Len(b) \in Nat
  BY <1>1 DEF WriterPos
<1>5. ~ (Len(b) > WriterPos(w))
  BY ONLY <1>4, r \in Nat, Len(b) + Len(o) <= r
<1> HIDE DEF z
<1>6. WriteBytesRev(w, b) = Left([w EXCEPT !.out = b \o @], "OK")
  BY <1>1, <1>5 DEF WriteBytesRev, Left
<1> QED
  BY <1>2, <1>3, <1>6 DEF w, z

(* Of two writers the second has at least what the first has.              *)
Further(w, u) == IsWriter(u) /\ u.room = w.room /\ Len(u.out) >= Len(w.out)

(* Getting no further is allowed.                                          *)
LEMMA FurtherSelf == ASSUME NEW w, IsWriter(w) PROVE Further(w, w)
<1>1. PICK r \in Nat, o \in Seq(Byte), e \in BOOLEAN : w = WriterOf(r, o, e)
  BY DEF IsWriter
<1>2. w.out = o /\ Len(o) \in Nat
  BY <1>1, WriterFields
<1> QED
  BY <1>2 DEF Further

(* Getting further, twice.                                                 *)
LEMMA FurtherOn ==
    ASSUME NEW w, NEW u, NEW x, IsWriter(w), Further(w, u), Further(u, x)
    PROVE  Further(w, x)
<1>0. ASSUME NEW y, IsWriter(y) PROVE Len(y.out) \in Nat
  <2>1. PICK r \in Nat, o \in Seq(Byte), e \in BOOLEAN : y = WriterOf(r, o, e)
    BY <1>0 DEF IsWriter
  <2>2. y.out = o /\ Len(o) \in Nat
    BY <2>1, WriterFields
  <2> QED
    BY <2>2
<1>1. /\ IsWriter(u) /\ u.room = w.room /\ Len(u.out) >= Len(w.out)
      /\ IsWriter(x) /\ x.room = u.room /\ Len(x.out) >= Len(u.out)
  BY DEF Further
<1>2. Len(w.out) \in Nat /\ Len(u.out) \in Nat /\ Len(x.out) \in Nat
  BY <1>0, <1>1
<1>3. Len(x.out) >= Len(w.out) /\ x.room = w.room
  BY ONLY <1>1, <1>2
<1> QED
  BY <1>1, <1>3 DEF Further

(* A write leaves a writer in its buffer.                                  *)
LEMMA WriteOneFurther ==
    ASSUME NEW w, IsWriter(w), NEW b \in Seq(Byte)
    PROVE  Further(w, WriteBytesRev(w, b).w)
<1>1. PICK r \in Nat, o \in Seq(Byte), e \in BOOLEAN : w = WriterOf(r, o, e) /\ Len(o) <= r
  BY DEF IsWriter
<1>2. w.room = r /\ w.out = o /\ Len(o) \in Nat /\ Len(b) \in Nat
  BY <1>1, WriterFields
<1>3. b \o o \in Seq(Byte) /\ Len(b \o o) = Len(b) + Len(o)
  BY Joined
<1> DEFINE z == b \o o
           v == WriteBytesRev(w, b)
<1>4. \/ \E x : v = Left(w, x)
      \/ \E x : v = Left(WriterOf(r, o, TRUE), x)
      \/ v = Left(WriterOf(r, z, e), "OK") /\ Len(b) + Len(o) <= r
  BY <1>1, WriteOne, ZenonT(60)
<1> HIDE DEF v, z
<1>5. ASSUME NEW x, v = Left(w, x) PROVE Further(w, v.w)
  BY <1>5, LeftFields, FurtherSelf
<1>6. ASSUME NEW x, v = Left(WriterOf(r, o, TRUE), x) PROVE Further(w, v.w)
  <2> DEFINE u == WriterOf(r, o, TRUE)
  <2>1. v.w = u
    BY <1>6, LeftFields
  <2>2. u.room = r /\ u.out = o
    BY ONLY FlagFields, ZenonT(150)
  <2>3. TRUE \in BOOLEAN /\ Len(o) <= r
    BY <1>1
  <2>4. IsWriter(u)
    BY ONLY <2>3, r \in Nat, o \in Seq(Byte), Zenon DEF IsWriter
  <2> HIDE DEF u
  <2> QED
    BY <1>2, <2>1, <2>2, <2>4 DEF Further
<1>7. ASSUME v = Left(WriterOf(r, z, e), "OK"), Len(b) + Len(o) <= r PROVE Further(w, v.w)
  <2> DEFINE u == WriterOf(r, z, e)
  <2>1. v.w = u
    BY <1>7, LeftFields
  <2>2. z \in Seq(Byte) /\ Len(z) = Len(b) + Len(o) /\ Len(z) <= r
    BY <1>3, <1>7 DEF z
  <2>3. u.room = r /\ u.out = z /\ IsWriter(u)
    BY <2>2, WriterFields DEF IsWriter
  <2> HIDE DEF u
  <2>4. Len(z) >= Len(o)
    BY ONLY <1>2, <2>2
  <2> QED
    BY <1>2, <2>1, <2>3, <2>4 DEF Further
<1>8. Further(w, v.w)
  BY <1>4, <1>5, <1>6, <1>7
<1> QED
  BY <1>8 DEF v

(* The writes of one call: g[n] is what the first n leave.                 *)
AfterPart(x, p) == IF x.ret = "OK" THEN WriteBytesRev(x.w, p) ELSE x

PartsRun(w, parts, n, g) ==
    g = [i \in 0 .. n |-> IF i = 0 THEN Left(w, "OK") ELSE AfterPart(g[i - 1], parts[i])]

(* What a run says at a place.                                             *)
PartsPlaces(w, parts, n, g) ==
    /\ g[0] = Left(w, "OK")
    /\ \A i \in 1 .. n : g[i] = AfterPart(g[i - 1], parts[i])

(* The states a run of writes goes through.                                *)
LEMMA PartsRunAt ==
    ASSUME NEW w, NEW parts, NEW n \in Nat, NEW g, PartsRun(w, parts, n, g)
    PROVE  PartsPlaces(w, parts, n, g)
<1> DEFINE E(i) == IF i = 0 THEN Left(w, "OK") ELSE AfterPart(g[i - 1], parts[i])
<1>1. g = [i \in 0 .. n |-> E(i)]
  BY DEF PartsRun
<1> HIDE DEF E
<1>2. \A i \in 0 .. n : g[i] = E(i)
  BY ONLY <1>1
<1>3. 0 \in 0 .. n /\ \A i \in 1 .. n : i \in 0 .. n /\ i # 0
  OBVIOUS
<1> QED
  BY <1>2, <1>3 DEF E, PartsPlaces

(* Each run can be made longer.                                            *)
LEMMA PartsRuns == ASSUME NEW w, NEW parts PROVE \A n \in Nat : \E g : PartsRun(w, parts, n, g)
<1> DEFINE S == {n \in Nat : \E g : PartsRun(w, parts, n, g)}
<1>1. 0 \in S
  <2> DEFINE g == [i \in 0 .. 0 |-> Left(w, "OK")]
  <2>1. g = [i \in 0 .. 0 |-> IF i = 0 THEN Left(w, "OK") ELSE AfterPart(g[i - 1], parts[i])]
    OBVIOUS
  <2> QED
    BY <2>1 DEF PartsRun
<1>2. ASSUME NEW n \in Nat, n \in S PROVE n + 1 \in S
  <2>1. PICK g : PartsRun(w, parts, n, g)
    BY <1>2
  <2>2. /\ g[0] = Left(w, "OK")
        /\ \A i \in 1 .. n : g[i] = AfterPart(g[i - 1], parts[i])
    <3>1. PartsPlaces(w, parts, n, g)
      BY <2>1, PartsRunAt
    <3> QED
      BY ONLY <3>1 DEF PartsPlaces
  <2> DEFINE z == AfterPart(g[n], parts[n + 1])
             h == [i \in 0 .. n + 1 |-> IF i = n + 1 THEN z ELSE g[i]]
  <2>z. z = AfterPart(g[n], parts[n + 1])
    OBVIOUS
  <2> HIDE DEF z
  <2>3. \A i \in 0 .. n : h[i] = g[i]
    OBVIOUS
  <2>4. h[n + 1] = z
    OBVIOUS
  <2>5. \A i \in 0 .. n + 1 : h[i] = IF i = 0 THEN Left(w, "OK") ELSE AfterPart(h[i - 1], parts[i])
    <3> HIDE DEF h
    <3>1. ASSUME NEW i \in 0 .. n + 1
          PROVE  h[i] = IF i = 0 THEN Left(w, "OK") ELSE AfterPart(h[i - 1], parts[i])
      <4>1. CASE i = 0
        BY <2>2, <2>3, <4>1
      <4>2. CASE i \in 1 .. n
        <5>1. h[i] = g[i] /\ h[i - 1] = g[i - 1] /\ i # 0
          BY <2>3, <4>2
        <5>2. g[i] = AfterPart(g[i - 1], parts[i])
          BY <2>2, <4>2
        <5> QED
          BY ONLY <5>1, <5>2
      <4>3. CASE i = n + 1
        <5>1. h[i] = z /\ h[n] = g[n] /\ i # 0 /\ i - 1 = n
          BY <2>3, <2>4, <4>3
        <5> QED
          BY ONLY <2>z, <4>3, <5>1
      <4> QED
        BY <4>1, <4>2, <4>3
    <3> QED
      BY <3>1
  <2>6. h = [i \in 0 .. n + 1 |-> h[i]]
    OBVIOUS
  <2> HIDE DEF h
  <2>7. PartsRun(w, parts, n + 1, h)
    BY <2>5, <2>6 DEF PartsRun
  <2> QED
    BY <2>7
<1> HIDE DEF S
<1>3. \A n \in Nat : n \in S
  BY <1>1, <1>2, 1 \in Nat \ {0}, Data!SetInduction
<1> QED
  BY <1>3 DEF S

(* WriteParts is the end of a run.                                         *)
LEMMA PartsAre ==
    ASSUME NEW w, NEW parts, Len(parts) \in Nat
    PROVE  \E g : PartsRun(w, parts, Len(parts), g) /\ WriteParts(w, parts) = g[Len(parts)]
<1> DEFINE n == Len(parts)
           c == CHOOSE g : g = [i \in 0 .. n |->
                    IF i = 0 THEN [w |-> w, ret |-> "OK"]
                    ELSE IF g[i - 1].ret = "OK" THEN WriteBytesRev(g[i - 1].w, parts[i])
                    ELSE g[i - 1]]
<1>1. PICK g : g = [i \in 0 .. n |->
                    IF i = 0 THEN [w |-> w, ret |-> "OK"]
                    ELSE IF g[i - 1].ret = "OK" THEN WriteBytesRev(g[i - 1].w, parts[i])
                    ELSE g[i - 1]]
  <2>1. PICK g : PartsRun(w, parts, n, g)
    BY PartsRuns
  <2>2. g = [i \in 0 .. n |->
                    IF i = 0 THEN [w |-> w, ret |-> "OK"]
                    ELSE IF g[i - 1].ret = "OK" THEN WriteBytesRev(g[i - 1].w, parts[i])
                    ELSE g[i - 1]]
    BY ONLY <2>1 DEF PartsRun, AfterPart, Left
  <2> QED
    BY ONLY <2>2
<1>2. c = [i \in 0 .. n |->
                    IF i = 0 THEN [w |-> w, ret |-> "OK"]
                    ELSE IF c[i - 1].ret = "OK" THEN WriteBytesRev(c[i - 1].w, parts[i])
                    ELSE c[i - 1]]
  BY ONLY <1>1, Zenon
<1>3. WriteParts(w, parts) = c[n]
  BY Zenon DEF WriteParts
<1> HIDE DEF c
<1>4. PartsRun(w, parts, n, c)
  BY ONLY <1>2 DEF PartsRun, AfterPart, Left
<1> QED
  BY <1>3, <1>4

(* A call leaves a writer in its buffer, with what it had.                 *)
LEMMA WritePartsFurther ==
    ASSUME NEW w, IsWriter(w), NEW parts \in Parts
    PROVE  Further(w, WriteParts(w, parts).w)
<1> DEFINE n == Len(parts)
<1>0. n \in Nat /\ \A i \in 1 .. n : parts[i] \in Seq(Byte)
  <2> DEFINE S == Seq(Byte)
  <2>1. parts \in Seq(S)
    BY DEF Parts
  <2> HIDE DEF S
  <2>2. n \in Nat /\ \A i \in 1 .. n : parts[i] \in S
    BY ONLY <2>1
  <2> QED
    BY <2>2 DEF S
<1>1. PICK g : PartsRun(w, parts, n, g) /\ WriteParts(w, parts) = g[n]
  BY <1>0, PartsAre
<1> HIDE DEF n
<1>2. /\ g[0] = Left(w, "OK")
      /\ \A i \in 1 .. n : g[i] = AfterPart(g[i - 1], parts[i])
  <2>1. PartsPlaces(w, parts, n, g)
    BY ONLY <1>0, <1>1, PartsRunAt
  <2> QED
    BY ONLY <2>1 DEF PartsPlaces
<1> DEFINE S == {i \in Nat : i <= n => Further(w, g[i].w)}
<1>3. 0 \in S
  BY <1>2, LeftFields, FurtherSelf
<1>4. ASSUME NEW i \in Nat, i \in S PROVE i + 1 \in S
  <2>1. SUFFICES ASSUME i + 1 <= n PROVE Further(w, g[i + 1].w)
    OBVIOUS
  <2>2. i + 1 \in 1 .. n /\ (i + 1) - 1 = i /\ i <= n
    BY <1>0, <2>1
  <2>3. Further(w, g[i].w)
    BY <1>4, <2>2
  <2>4. g[i + 1] = AfterPart(g[i], parts[i + 1])
    BY <1>2, <2>2
  <2>5. IsWriter(g[i].w) /\ parts[i + 1] \in Seq(Byte)
    BY <1>0, <2>2, <2>3 DEF Further
  <2>6. Further(g[i].w, WriteBytesRev(g[i].w, parts[i + 1]).w)
    BY <2>5, WriteOneFurther
  <2>7. Further(w, WriteBytesRev(g[i].w, parts[i + 1]).w)
    BY <2>3, <2>6, FurtherOn
  <2> QED
    BY <2>3, <2>4, <2>7 DEF AfterPart
<1> HIDE DEF S
<1>5. \A i \in Nat : i \in S
  BY <1>3, <1>4, 1 \in Nat \ {0}, Data!SetInduction
<1>6. Further(w, g[n].w)
  BY <1>0, <1>5 DEF S
<1> QED
  BY <1>1, <1>6

-----------------------------------------------------------------------------
(* Lists of containers and of readers.                                     *)

IsList(s) == \E S : s \in Seq(S)

(* One element set, one appended, the last one dropped.                    *)
ElementSet(s, n, x) ==
    LET t == [s EXCEPT ![n] = x]
    IN  IsList(t) /\ Len(t) = Len(s) /\ t[n] = x /\ \A i \in 1 .. Len(s) : i # n => t[i] = s[i]

(* One element of a list changed.                                          *)
LEMMA ListSet ==
    ASSUME NEW s, IsList(s), NEW n \in 1 .. Len(s), NEW x
    PROVE  ElementSet(s, n, x)
<1>1. PICK S : s \in Seq(S)
  BY DEF IsList
<1> DEFINE t == [s EXCEPT ![n] = x]
<1>2. /\ t \in Seq(S \cup {x}) /\ Len(t) = Len(s) /\ t[n] = x
      /\ \A i \in 1 .. Len(s) : i # n => t[i] = s[i]
  BY <1>1
<1> HIDE DEF t
<1>3. IsList(t)
  BY <1>2 DEF IsList
<1> QED
  BY <1>2, <1>3 DEF ElementSet, t

Appended(s, x) ==
    LET t == Append(s, x)
    IN  IsList(t) /\ Len(t) = Len(s) + 1 /\ t[Len(s) + 1] = x /\ \A i \in 1 .. Len(s) : t[i] = s[i]

(* A list with one more element.                                           *)
LEMMA ListAppend ==
    ASSUME NEW s, IsList(s), NEW x
    PROVE  Appended(s, x)
<1>1. PICK S : s \in Seq(S)
  BY DEF IsList
<1> DEFINE t == Append(s, x)
           T == S \cup {x}
<1>2. s \in Seq(T) /\ x \in T
  BY <1>1
<1> HIDE DEF T
<1>3. /\ t \in Seq(T) /\ Len(t) = Len(s) + 1 /\ t[Len(s) + 1] = x
      /\ \A i \in 1 .. Len(s) : t[i] = s[i]
  BY ONLY <1>2
<1> HIDE DEF t
<1>4. IsList(t)
  BY <1>3 DEF IsList
<1> QED
  BY <1>3, <1>4 DEF Appended, t

Dropped(s) ==
    LET t == Front(s)
    IN  IsList(t) /\ Len(t) = Len(s) - 1 /\ \A i \in 1 .. Len(s) - 1 : t[i] = s[i]

(* A list without its last element.                                        *)
LEMMA ListFront ==
    ASSUME NEW s, IsList(s), Len(s) > 0
    PROVE  Dropped(s)
<1>1. PICK S : s \in Seq(S)
  BY DEF IsList
<1> DEFINE t == Front(s)
<1>2. t = SubSeq(s, 1, Len(s) - 1)
  BY DEF Front
<1>3. t \in Seq(S) /\ Len(t) = Len(s) - 1 /\ \A i \in 1 .. Len(s) - 1 : t[i] = s[i]
  <2> DEFINE n == Len(s) - 1
             u == SubSeq(s, 1, n)
  <2>1. n \in Nat /\ n <= Len(s)
    BY <1>1
  <2> HIDE DEF n
  <2>2. u \in Seq(S) /\ Len(u) = n /\ \A i \in 1 .. n : u[i] = s[i]
    BY ONLY <1>1, <2>1
  <2> HIDE DEF u, t
  <2> QED
    BY <1>2, <2>2 DEF n, u
<1> HIDE DEF t
<1>4. IsList(t)
  BY <1>3 DEF IsList
<1> QED
  BY <1>3, <1>4 DEF Dropped, t

(* A list is a function on 1 .. its length.                                *)
LEMMA ListLen ==
    ASSUME NEW s, IsList(s)
    PROVE  Len(s) \in Nat /\ DOMAIN s = 1 .. Len(s) /\ (s # <<>> <=> Len(s) > 0)
<1>1. PICK S : s \in Seq(S)
  BY DEF IsList
<1> QED
  BY <1>1

(* A list of one.                                                          *)
LEMMA ListOne == ASSUME NEW x PROVE IsList(<<x>>) /\ Len(<<x>>) = 1 /\ <<x>>[1] = x
<1>1. <<x>> \in Seq({x}) /\ Len(<<x>>) = 1 /\ <<x>>[1] = x
  OBVIOUS
<1> QED
  BY <1>1 DEF IsList

(* A container begun: above the place of the writer, in its buffer.        *)
Containers == {"sequence", "set", "bits"}

FrameOk(f, inner, pos, room) ==
    /\ DOMAIN f = {"tag", "start", "at", "items"}
    /\ f.start \in Nat /\ pos <= f.start /\ f.start <= room
    /\ f.at \in Nat /\ f.at <= f.start
    /\ inner => f.tag \in Containers

FramesOk(fs, pos, room) ==
    /\ IsList(fs) /\ Len(fs) > 0
    /\ \A i \in 1 .. Len(fs) : FrameOk(fs[i], i > 1, pos, room)

(* What is written in a container does not matter.                         *)
LEMMA FrameItems ==
    ASSUME NEW f, NEW inner, NEW pos, NEW room, FrameOk(f, inner, pos, room), NEW x
    PROVE  FrameOk([f EXCEPT !.items = x], inner, pos, room)
<1> DEFINE g == [f EXCEPT !.items = x]
<1>1. DOMAIN f = {"tag", "start", "at", "items"}
  BY DEF FrameOk
<1>2. /\ DOMAIN g = {"tag", "start", "at", "items"} /\ g.tag = f.tag /\ g.start = f.start
      /\ g.at = f.at
  BY ONLY <1>1
<1> HIDE DEF g
<1> QED
  BY <1>2 DEF FrameOk, g

(* A frame whose handle moved keeps its place.                             *)
LEMMA FrameMoved ==
    ASSUME NEW f, NEW inner, NEW pos, NEW room, FrameOk(f, inner, pos, room), NEW x \in Nat,
           x <= f.start
    PROVE  FrameOk([f EXCEPT !.at = x], inner, pos, room)
<1> DEFINE g == [f EXCEPT !.at = x]
<1>1. DOMAIN f = {"tag", "start", "at", "items"}
  BY DEF FrameOk
<1>2. /\ DOMAIN g = {"tag", "start", "at", "items"} /\ g.tag = f.tag /\ g.start = f.start
      /\ g.at = x
  BY ONLY <1>1
<1> HIDE DEF g
<1> QED
  BY <1>2 DEF FrameOk, g

(* One container changed.                                                  *)
LEMMA FramesSet ==
    ASSUME NEW fs, NEW pos, NEW room, FramesOk(fs, pos, room), NEW n \in 1 .. Len(fs), NEW f,
           FrameOk(f, n > 1, pos, room)
    PROVE  FramesOk([fs EXCEPT ![n] = f], pos, room)
<1> DEFINE t == [fs EXCEPT ![n] = f]
<1>1. ElementSet(fs, n, f)
  BY ListSet DEF FramesOk
<1>2. IsList(t) /\ Len(t) = Len(fs) /\ t[n] = f /\ \A i \in 1 .. Len(fs) : i # n => t[i] = fs[i]
  BY <1>1 DEF ElementSet
<1> HIDE DEF t
<1>3. ASSUME NEW i \in 1 .. Len(t) PROVE FrameOk(t[i], i > 1, pos, room)
  <2>1. CASE i = n
    BY <1>2, <2>1
  <2>2. CASE i # n
    BY <1>2, <2>2 DEF FramesOk
  <2> QED
    BY <2>1, <2>2
<1> QED
  BY <1>2, <1>3 DEF FramesOk, t

(* An item more in the innermost frame moves no frame.                     *)
LEMMA FramesItems ==
    ASSUME NEW fs, NEW pos, NEW room, FramesOk(fs, pos, room), NEW n \in 1 .. Len(fs), NEW x
    PROVE  FramesOk([fs EXCEPT ![n].items = x], pos, room)
<1>1. FrameOk(fs[n], n > 1, pos, room)
  BY DEF FramesOk
<1>2. [fs EXCEPT ![n].items = x] = [fs EXCEPT ![n] = [fs[n] EXCEPT !.items = x]]
  OBVIOUS
<1>3. FramesOk([fs EXCEPT ![n] = [fs[n] EXCEPT !.items = x]], pos, room)
  BY <1>1, FrameItems, FramesSet
<1> QED
  BY ONLY <1>2, <1>3

(* Nor does a handle that moved.                                           *)
LEMMA FramesMoved ==
    ASSUME NEW fs, NEW pos, NEW room, FramesOk(fs, pos, room), NEW n \in 1 .. Len(fs),
           NEW x \in Nat, x <= fs[n].start
    PROVE  FramesOk([fs EXCEPT ![n].at = x], pos, room)
<1>1. FrameOk(fs[n], n > 1, pos, room)
  BY DEF FramesOk
<1>2. [fs EXCEPT ![n].at = x] = [fs EXCEPT ![n] = [fs[n] EXCEPT !.at = x]]
  OBVIOUS
<1>3. FramesOk([fs EXCEPT ![n] = [fs[n] EXCEPT !.at = x]], pos, room)
  BY <1>1, FrameMoved, FramesSet
<1> QED
  BY ONLY <1>2, <1>3

(* The writer got further.                                                 *)
LEMMA FramesFurther ==
    ASSUME NEW fs, NEW pos \in Int, NEW room, FramesOk(fs, pos, room), NEW to \in Int, to <= pos
    PROVE  FramesOk(fs, to, room)
<1>1. ASSUME NEW i \in 1 .. Len(fs) PROVE FrameOk(fs[i], i > 1, to, room)
  <2>1. FrameOk(fs[i], i > 1, pos, room)
    BY DEF FramesOk
  <2>2. fs[i].start \in Nat /\ pos <= fs[i].start
    BY <2>1 DEF FrameOk
  <2>3. to <= fs[i].start
    BY ONLY <2>2, pos \in Int, to \in Int, to <= pos
  <2> QED
    BY <2>1, <2>3 DEF FrameOk
<1> QED
  BY <1>1 DEF FramesOk

(* A container begun.                                                      *)
LEMMA FramesPush ==
    ASSUME NEW fs, NEW pos, NEW room, FramesOk(fs, pos, room), NEW f, FrameOk(f, TRUE, pos, room)
    PROVE  FramesOk(Append(fs, f), pos, room)
<1> DEFINE t == Append(fs, f)
<1>1. Appended(fs, f) /\ Len(fs) \in Nat
  BY ListAppend, ListLen DEF FramesOk
<1>2. /\ IsList(t) /\ Len(t) = Len(fs) + 1 /\ t[Len(fs) + 1] = f
      /\ \A i \in 1 .. Len(fs) : t[i] = fs[i]
  BY <1>1 DEF Appended
<1> HIDE DEF t
<1>3. ASSUME NEW i \in 1 .. Len(t) PROVE FrameOk(t[i], i > 1, pos, room)
  <2>1. CASE i = Len(fs) + 1
    <3>1. FrameOk(f, i > 1, pos, room)
      BY DEF FrameOk
    <3> QED
      BY <1>2, <2>1, <3>1
  <2>2. CASE i # Len(fs) + 1
    <3>1. i \in 1 .. Len(fs)
      BY <1>1, <1>2, <2>2
    <3> QED
      BY <1>2, <3>1 DEF FramesOk
  <2> QED
    BY <2>1, <2>2
<1>4. Len(t) > 0
  BY <1>1, <1>2
<1> QED
  BY <1>2, <1>3, <1>4 DEF FramesOk, t

(* A container ended.                                                      *)
LEMMA FramesPop ==
    ASSUME NEW fs, NEW pos, NEW room, FramesOk(fs, pos, room), Len(fs) > 1
    PROVE  FramesOk(Front(fs), pos, room) /\ Len(Front(fs)) \in 1 .. Len(Front(fs))
<1> DEFINE t == Front(fs)
<1>1. Dropped(fs) /\ Len(fs) \in Nat
  BY ListFront, ListLen DEF FramesOk
<1>2. IsList(t) /\ Len(t) = Len(fs) - 1 /\ \A i \in 1 .. Len(fs) - 1 : t[i] = fs[i]
  BY <1>1 DEF Dropped
<1> HIDE DEF t
<1>3. ASSUME NEW i \in 1 .. Len(t) PROVE FrameOk(t[i], i > 1, pos, room)
  <2>1. i \in 1 .. Len(fs) - 1 /\ i \in 1 .. Len(fs)
    BY <1>1, <1>2
  <2> QED
    BY <1>2, <2>1 DEF FramesOk
<1>4. Len(t) > 0 /\ Len(t) \in 1 .. Len(t)
  BY <1>1, <1>2
<1> QED
  BY <1>2, <1>3, <1>4 DEF FramesOk, t

(* A reader in its region, and the region in what is around it.            *)
ReaderFields == {"lo", "pos", "hi", "items", "sound"}

ReaderOk(r, limit) ==
    /\ DOMAIN r = ReaderFields
    /\ r.lo \in Nat /\ r.pos \in Nat /\ r.hi \in Nat
    /\ r.lo <= r.pos /\ r.pos <= r.hi /\ r.hi <= limit

Around(rs, n, i) == IF i = 1 THEN n ELSE rs[i - 1].pos

ReadersOk(rs, n) ==
    IsList(rs) /\ \A i \in 1 .. Len(rs) : ReaderOk(rs[i], Around(rs, n, i))

(* Every region is in the bytes.                                           *)
LEMMA RegionInside ==
    ASSUME NEW rs, NEW n \in Nat, ReadersOk(rs, n)
    PROVE  \A i \in 1 .. Len(rs) : rs[i].hi <= n
<1>0. Len(rs) \in Nat
  BY ListLen DEF ReadersOk
<1>1. \A i \in 1 .. Len(rs) : ReaderOk(rs[i], Around(rs, n, i))
  BY DEF ReadersOk
<1> DEFINE S == {i \in Nat : i + 1 <= Len(rs) => rs[i + 1].hi <= n}
<1>2. 0 \in S
  <2>1. SUFFICES ASSUME 0 + 1 <= Len(rs) PROVE rs[0 + 1].hi <= n
    OBVIOUS
  <2>2. 1 \in 1 .. Len(rs) /\ 0 + 1 = 1
    BY <1>0, <2>1
  <2> QED
    BY <1>1, <2>2 DEF ReaderOk, Around
<1>3. ASSUME NEW i \in Nat, i \in S PROVE i + 1 \in S
  <2>1. SUFFICES ASSUME (i + 1) + 1 <= Len(rs) PROVE rs[(i + 1) + 1].hi <= n
    OBVIOUS
  <2>2. /\ (i + 1) + 1 \in 1 .. Len(rs) /\ i + 1 \in 1 .. Len(rs)
        /\ (i + 1) + 1 # 1 /\ ((i + 1) + 1) - 1 = i + 1 /\ i + 1 <= Len(rs)
    BY <1>0, <2>1
  <2>3. rs[i + 1].hi <= n
    BY <1>3, <2>2
  <2>4. Around(rs, n, (i + 1) + 1) = rs[i + 1].pos
    BY <2>2 DEF Around
  <2>5. ReaderOk(rs[(i + 1) + 1], rs[i + 1].pos) /\ ReaderOk(rs[i + 1], Around(rs, n, i + 1))
    BY <1>1, <2>2, <2>4
  <2>6. /\ rs[(i + 1) + 1].hi \in Nat /\ rs[(i + 1) + 1].hi <= rs[i + 1].pos
        /\ rs[i + 1].pos \in Nat /\ rs[i + 1].hi \in Nat /\ rs[i + 1].pos <= rs[i + 1].hi
    BY <2>5 DEF ReaderOk
  <2> QED
    BY ONLY <2>3, <2>6, n \in Nat
<1> HIDE DEF S
<1>4. \A i \in Nat : i \in S
  BY <1>2, <1>3, 1 \in Nat \ {0}, Data!SetInduction
<1>5. ASSUME NEW i \in 1 .. Len(rs) PROVE rs[i].hi <= n
  <2>1. i - 1 \in Nat /\ (i - 1) + 1 = i /\ i <= Len(rs)
    BY <1>0
  <2> QED
    BY <1>4, <2>1 DEF S
<1> QED
  BY <1>5

(* The innermost reader moved.                                             *)
LEMMA ReadersSet ==
    ASSUME NEW rs, NEW n, ReadersOk(rs, n), Len(rs) > 0, NEW r,
           ReaderOk(r, Around(rs, n, Len(rs)))
    PROVE  ReadersOk([rs EXCEPT ![Len(rs)] = r], n)
<1> DEFINE t == [rs EXCEPT ![Len(rs)] = r]
           m == Len(rs)
<1>0. Len(rs) \in Nat /\ Len(rs) \in 1 .. Len(rs)
  BY ListLen DEF ReadersOk
<1>1. ElementSet(rs, Len(rs), r)
  BY <1>0, ListSet DEF ReadersOk
<1>2. IsList(t) /\ Len(t) = m /\ t[m] = r /\ \A i \in 1 .. m : i # m => t[i] = rs[i]
  BY <1>1 DEF ElementSet
<1>3. m \in Nat /\ ReaderOk(r, Around(rs, n, m))
  BY <1>0
<1> HIDE DEF t, m
<1>4. ASSUME NEW i \in 1 .. m PROVE ReaderOk(t[i], Around(t, n, i))
  <2>1. Around(t, n, i) = Around(rs, n, i)
    <3>1. CASE i = 1
      BY <3>1 DEF Around
    <3>2. CASE i # 1
      <4>1. i - 1 \in 1 .. m /\ i - 1 # m
        BY <1>3, <3>2
      <4>2. t[i - 1] = rs[i - 1]
        BY <1>2, <4>1
      <4> QED
        BY <3>2, <4>2 DEF Around
    <3> QED
      BY <3>1, <3>2
  <2>2. CASE i = m
    BY <1>2, <1>3, <2>1, <2>2
  <2>3. CASE i # m
    <3>1. ReaderOk(rs[i], Around(rs, n, i))
      BY DEF ReadersOk, m
    <3> QED
      BY <1>2, <2>1, <2>3, <3>1
  <2> QED
    BY <2>2, <2>3
<1> QED
  BY <1>2, <1>4 DEF ReadersOk, t

(* A reader of what the innermost one just read.                           *)
LEMMA ReadersPush ==
    ASSUME NEW rs, NEW n, ReadersOk(rs, n), Len(rs) > 0, NEW r, ReaderOk(r, rs[Len(rs)].pos)
    PROVE  ReadersOk(Append(rs, r), n)
<1> DEFINE t == Append(rs, r)
           m == Len(rs)
<1>1. Appended(rs, r) /\ m \in Nat /\ m > 0 /\ ReaderOk(r, rs[m].pos)
  BY ListAppend, ListLen DEF ReadersOk
<1>2. IsList(t) /\ Len(t) = m + 1 /\ t[m + 1] = r /\ \A i \in 1 .. m : t[i] = rs[i]
  BY <1>1 DEF Appended
<1> HIDE DEF t
<1>3. ASSUME NEW i \in 1 .. m PROVE ReaderOk(t[i], Around(t, n, i))
  <2>1. ReaderOk(rs[i], Around(rs, n, i))
    BY DEF ReadersOk, m
  <2> HIDE DEF m
  <2>2. Around(t, n, i) = Around(rs, n, i)
    <3>1. CASE i = 1
      BY <3>1 DEF Around
    <3>2. CASE i # 1
      <4>1. i - 1 \in 1 .. m
        BY <1>1, <3>2
      <4> QED
        BY <1>2, <3>2, <4>1 DEF Around
    <3> QED
      BY <3>1, <3>2
  <2> QED
    BY <1>2, <2>1, <2>2
<1> HIDE DEF m
<1>4. ReaderOk(t[m + 1], Around(t, n, m + 1))
  <2>1. (m + 1) - 1 = m /\ m + 1 # 1 /\ m \in 1 .. m
    BY <1>1
  <2>2. Around(t, n, m + 1) = rs[m].pos
    BY <1>2, <2>1 DEF Around
  <2> QED
    BY <1>1, <1>2, <2>2
<1>5. ASSUME NEW i \in 1 .. Len(t) PROVE ReaderOk(t[i], Around(t, n, i))
  <2>1. i \in 1 .. m \/ i = m + 1
    BY <1>1, <1>2
  <2> QED
    BY <1>3, <1>4, <2>1
<1> QED
  BY <1>2, <1>5 DEF ReadersOk, t

(* The innermost reader let go.                                            *)
LEMMA ReadersPop ==
    ASSUME NEW rs, NEW n, ReadersOk(rs, n), Len(rs) > 0
    PROVE  ReadersOk(Front(rs), n)
<1> DEFINE t == Front(rs)
           m == Len(rs)
<1>1. Dropped(rs) /\ m \in Nat
  BY ListFront, ListLen DEF ReadersOk
<1>2. IsList(t) /\ Len(t) = m - 1 /\ \A i \in 1 .. m - 1 : t[i] = rs[i]
  BY <1>1 DEF Dropped
<1> HIDE DEF t
<1>3. ASSUME NEW i \in 1 .. Len(t) PROVE ReaderOk(t[i], Around(t, n, i))
  <2>0. i \in 1 .. m - 1 /\ i \in 1 .. Len(rs)
    BY <1>1, <1>2
  <2>1. ReaderOk(rs[i], Around(rs, n, i))
    BY <2>0 DEF ReadersOk
  <2> HIDE DEF m
  <2>2. Around(t, n, i) = Around(rs, n, i)
    <3>1. CASE i = 1
      BY <3>1 DEF Around
    <3>2. CASE i # 1
      <4>1. i - 1 \in 1 .. m - 1
        BY <1>1, <2>0, <3>2
      <4> QED
        BY <1>2, <3>2, <4>1 DEF Around
    <3> QED
      BY <3>1, <3>2
  <2> QED
    BY <1>2, <2>0, <2>1, <2>2
<1> QED
  BY <1>2, <1>3 DEF ReadersOk, t

(* The first reader, over all the bytes.                                   *)
LEMMA ReadersOne ==
    ASSUME NEW n, NEW r, ReaderOk(r, n)
    PROVE  ReadersOk(<<r>>, n)
<1> DEFINE t == <<r>>
<1>1. IsList(t) /\ Len(t) = 1 /\ t[1] = r
  BY ListOne
<1> HIDE DEF t
<1>2. \A i \in 1 .. Len(t) : i = 1
  BY <1>1
<1>3. Around(t, n, 1) = n
  BY DEF Around
<1> QED
  BY <1>1, <1>2, <1>3 DEF ReadersOk, t

-----------------------------------------------------------------------------
(* The reader.                                                             *)

(* What a header read leaves.                                              *)
GotFields(g, ret, pos, tag, len) == g.ret = ret /\ g.pos = pos /\ g.tag = tag /\ g.len = len

(* The fields of a header read.                                            *)
LEMMA GotIs ==
    ASSUME NEW ret, NEW pos, NEW tag, NEW len
    PROVE  GotFields(Got(ret, pos, tag, len), ret, pos, tag, len)
BY DEF Got, GotFields

(* A header read from r: r goes on to h.pos, in its region.  Accepted, it  *)
(* is the one header of that length, with that many bytes behind it.       *)
HeaderRead(r, h) ==
    /\ h.pos \in Nat /\ r.pos <= h.pos /\ h.pos <= r.hi
    /\ h.ret = "OK" => /\ h.len \in Nat /\ r.pos + 2 <= h.pos
                       /\ h.tag = der[r.pos + 1]
                       /\ SubSeq(der, r.pos + 2, h.pos) = LengthOctets(h.len)

(* A header refused somewhere in the region.                               *)
LEMMA HeaderFailed ==
    ASSUME NEW r, NEW ret, ret # "OK", NEW pos \in Nat, r.pos <= pos, pos <= r.hi, NEW t, NEW len
    PROVE  HeaderRead(r, Got(ret, pos, t, len))
<1> DEFINE h == Got(ret, pos, t, len)
<1>1. h.pos = pos /\ h.ret = ret
  BY GotIs DEF GotFields
<1> HIDE DEF h
<1> QED
  BY <1>1 DEF HeaderRead, h

(* A region of the bytes.                                                  *)
Region(r) ==
    /\ der \in Seq(Byte)
    /\ r.pos \in Nat /\ r.hi \in Nat /\ r.pos <= r.hi /\ r.hi <= Len(der)

(* The bytes from i to j.                                                  *)
LEMMA Cut ==
    ASSUME NEW s \in Seq(Byte), NEW i \in Nat \ {0}, NEW j \in Nat, i <= j + 1, j <= Len(s)
    PROVE  /\ SubSeq(s, i, j) \in Seq(Byte) /\ Len(SubSeq(s, i, j)) = (j + 1) - i
           /\ \A k \in 1 .. (j + 1) - i : SubSeq(s, i, j)[k] = s[k + i - 1]
<1> DEFINE S == Byte
<1>1. s \in Seq(S)
  OBVIOUS
<1> HIDE DEF S
<1>2. /\ SubSeq(s, i, j) \in Seq(S) /\ Len(SubSeq(s, i, j)) = (j + 1) - i
      /\ \A k \in 1 .. (j + 1) - i : SubSeq(s, i, j)[k] = s[k + i - 1]
  BY ONLY <1>1, i \in Nat \ {0}, j \in Nat, i <= j + 1, j <= Len(s)
<1> QED
  BY <1>2 DEF S

(* Two strings that meet.                                                  *)
LEMMA CutJoin ==
    ASSUME NEW s \in Seq(Byte), NEW i \in Nat \ {0}, NEW j \in Nat, NEW k \in Nat,
           i <= j + 1, j <= k, k <= Len(s)
    PROVE  SubSeq(s, i, j) \o SubSeq(s, j + 1, k) = SubSeq(s, i, k)
<1> DEFINE S == Byte
<1>1. s \in Seq(S)
  OBVIOUS
<1> HIDE DEF S
<1>2. i \in 1 .. Len(s) + 1 /\ j \in i - 1 .. Len(s) /\ k \in j .. Len(s)
  OBVIOUS
<1> QED
  BY ONLY <1>1, <1>2, ConcatAdjacentSubSeq

(* One byte.                                                               *)
LEMMA CutOne ==
    ASSUME NEW s \in Seq(Byte), NEW i \in 1 .. Len(s)
    PROVE  SubSeq(s, i, i) = <<s[i]>>
<1> DEFINE a == SubSeq(s, i, i)
           b == <<s[i]>>
<1>0. i \in Nat \ {0} /\ i <= i + 1 /\ i <= Len(s) /\ (i + 1) - i = 1 /\ (1 + i) - 1 = i
  OBVIOUS
<1>1. /\ a \in Seq(Byte) /\ Len(a) = (i + 1) - i
      /\ \A k \in 1 .. (i + 1) - i : a[k] = s[k + i - 1]
  BY ONLY <1>0, s \in Seq(Byte), Cut
<1>2. s[i] \in Byte
  OBVIOUS
<1>3. b \in Seq(Byte) /\ Len(b) = 1 /\ b[1] = s[i]
  BY ONLY <1>2, Short
<1>4. Len(a) = 1 /\ a[1] = s[i]
  BY <1>0, <1>1
<1> HIDE DEF a, b
<1>5. \A k \in 1 .. 1 : a[k] = b[k]
  BY ONLY <1>3, <1>4
<1>6. a = b
  BY ONLY <1>1, <1>3, <1>4, <1>5, SeqEqual
<1> QED
  BY <1>6 DEF a, b

(* A long form accepted is the one long form of its length.                *)
LEMMA LongForm ==
    ASSUME NEW d \in Seq(Byte), Len(d) > 0, d[1] # 0, FromBE(d) >= Half
    PROVE  LengthOctets(FromBE(d)) = <<Half + Len(d)>> \o d
<1>1. Width(FromBE(d)) = Len(d)
  BY FromBEWidth
<1>2. ToBE(FromBE(d), Len(d)) = d
  BY ToBEFromBE
<1>3. FromBE(d) \in Nat /\ Half \in Nat
  BY FromBEBelow, Sizes
<1>4. ~ (FromBE(d) < Half)
  BY ONLY <1>3, FromBE(d) >= Half
<1>5. LengthOctets(FromBE(d)) = <<Half + Width(FromBE(d))>> \o ToBE(FromBE(d), Width(FromBE(d)))
  BY <1>4 DEF LengthOctets
<1> QED
  BY ONLY <1>1, <1>2, <1>5

(* The long form: refused in the region, or the one long form.             *)
LEMMA ReadLengthIs ==
    ASSUME NEW r, Region(r), NEW n \in Nat \ {0}, r.pos + 2 <= r.hi, der[r.pos + 2] = Half + n
    PROVE  HeaderRead(r, ReadLength(r, n))
<1> DEFINE p == r.pos
           d == SubSeq(der, p + 3, p + 2 + n)
           len == FromBE(d)
           h == ReadLength(r, n)
<1>0. /\ der \in Seq(Byte) /\ p \in Nat /\ r.hi \in Nat /\ r.hi <= Len(der) /\ Len(der) \in Nat
      /\ p + 2 <= r.hi /\ p <= r.hi
  BY DEF Region
<1>1. CASE p + 3 > r.hi
  <2>1. h = Got("TRUNCATED", r.hi, 0, 0)
    BY <1>1 DEF ReadLength
  <2> HIDE DEF h
  <2> QED
    BY <1>0, <2>1, HeaderFailed DEF h
<1>2. CASE p + 3 <= r.hi /\ der[p + 3] = 0
  <2>1. h = Got("BAD_LENGTH", p + 3, 0, 0)
    BY <1>0, <1>2 DEF ReadLength
  <2>2. p + 3 \in Nat /\ p <= p + 3
    BY <1>0, SMTT(60)
  <2> HIDE DEF h
  <2> QED
    BY <1>0, <1>2, <2>1, <2>2, HeaderFailed DEF h
<1>3. CASE p + 3 <= r.hi /\ der[p + 3] # 0 /\ p + 2 + n > r.hi
  <2>1. h = Got("TRUNCATED", r.hi, 0, 0)
    BY <1>0, <1>3 DEF ReadLength
  <2> HIDE DEF h
  <2> QED
    BY <1>0, <2>1, HeaderFailed DEF h
<1>4. CASE p + 3 <= r.hi /\ der[p + 3] # 0 /\ p + 2 + n <= r.hi
  <2>1. /\ p + 3 \in Nat \ {0} /\ p + 2 + n \in Nat /\ p + 3 <= (p + 2 + n) + 1
        /\ p + 2 + n <= Len(der) /\ ((p + 2 + n) + 1) - (p + 3) = n
        /\ 1 \in 1 .. n /\ 1 + (p + 3) - 1 = p + 3
    <3> DEFINE z == Len(der)
               top == r.hi
    <3>1. /\ p \in Nat /\ top \in Nat /\ top <= z /\ z \in Nat /\ p + 2 + n <= top
          /\ n \in Nat /\ n # 0
      BY <1>0, <1>4
    <3> HIDE DEF p, z, top
    <3> QED
      BY ONLY <3>1 DEF z
  <2>2. /\ d \in Seq(Byte) /\ Len(d) = ((p + 2 + n) + 1) - (p + 3)
        /\ \A k \in 1 .. ((p + 2 + n) + 1) - (p + 3) : d[k] = der[k + (p + 3) - 1]
    BY ONLY <1>0, <2>1, Cut, ZenonT(60)
  <2>3. d[1] = der[1 + (p + 3) - 1]
    BY <2>1, <2>2
  <2>l. Len(d) = n /\ n > 0
    BY ONLY <2>1, <2>2, n \in Nat \ {0}
  <2>n. d[1] # 0
    BY ONLY <1>4, <2>1, <2>3
  <2>4. d \in Seq(Byte) /\ Len(d) = n /\ Len(d) > 0 /\ d[1] # 0
    BY ONLY <2>2, <2>l, <2>n
  <2>5. p + 2 + n \in Nat /\ p <= p + 2 + n
    BY <1>0
  <2>6. CASE len < Half
    <3>1. h = Got("BAD_LENGTH", p + 2 + n, 0, 0)
      BY <1>0, <1>4, <2>6, SMTT(60) DEF ReadLength
    <3> HIDE DEF h, len
    <3> QED
      BY <1>4, <2>5, <3>1, HeaderFailed DEF h
  <2>7. CASE ~ (len < Half)
    <3>1. h = Got("OK", p + 2 + n, der[p + 1], len)
      BY <1>0, <1>4, <2>7, SMTT(60) DEF ReadLength
    <3> HIDE DEF h
    <3>2. h.ret = "OK" /\ h.pos = p + 2 + n /\ h.tag = der[p + 1] /\ h.len = len
      BY <3>1, GotIs DEF GotFields
    <3> HIDE DEF d
    <3>3. len \in Nat /\ Half \in Nat
      BY <2>4, FromBEBelow, Sizes
    <3>4. len >= Half
      BY ONLY <2>7, <3>3
    <3>5. LengthOctets(len) = <<Half + Len(d)>> \o d
      BY <2>4, <3>4, LongForm
    <3> HIDE DEF len
    <3>6. SubSeq(der, p + 2, p + 2) = <<der[p + 2]>>
      <4>1. p + 2 \in 1 .. Len(der)
        BY <1>0
      <4> QED
        BY <1>0, <4>1, CutOne
    <3>7. SubSeq(der, p + 2, p + 2) \o SubSeq(der, (p + 2) + 1, p + 2 + n)
            = SubSeq(der, p + 2, p + 2 + n)
      <4>1. /\ p + 2 \in Nat \ {0} /\ p + 2 \in Nat /\ p + 2 <= (p + 2) + 1
            /\ p + 2 <= p + 2 + n
        BY <1>0
      <4> QED
        BY ONLY <1>0, <2>1, <4>1, CutJoin, ZenonT(60)
    <3>8. (p + 2) + 1 = p + 3
      BY <1>0
    <3>9. der[p + 2] = Half + Len(d)
      BY <2>4
    <3>10. SubSeq(der, p + 2, p + 2 + n) = LengthOctets(len)
      BY ONLY <3>5, <3>6, <3>7, <3>8, <3>9 DEF d
    <3> QED
      BY <1>0, <1>4, <2>5, <3>2, <3>3, <3>10, SMTT(60) DEF HeaderRead, h
  <2> QED
    BY <2>6, <2>7
<1> QED
  <2>1. p + 3 > r.hi \/ p + 3 <= r.hi
    BY <1>0
  <2>2. p + 2 + n > r.hi \/ p + 2 + n <= r.hi
    BY <1>0
  <2> HIDE DEF h, d, len, p
  <2> QED
    BY <1>1, <1>2, <1>3, <1>4, <2>1, <2>2 DEF h

(* A header with no more behind it than there is.                          *)
TagRead(r, h) == HeaderRead(r, h) /\ (h.ret = "OK" => h.len <= r.hi - h.pos)

(* The answer is another, the rest stays.                                  *)
LEMMA GotRet ==
    ASSUME NEW ret, NEW pos, NEW tag, NEW len, NEW x
    PROVE  [Got(ret, pos, tag, len) EXCEPT !.ret = x] = Got(x, pos, tag, len)
BY DEF Got

IsGot(h) == \E ret, pos, tag, len : h = Got(ret, pos, tag, len)

(* It has the fields of a header read.                                     *)
LEMMA ReadLengthGot == ASSUME NEW r, NEW n PROVE IsGot(ReadLength(r, n))
BY DEF ReadLength, IsGot

(* The whole header: refused in the region, or the one header of that      *)
(* length, with that many bytes behind it.                                 *)
LEMMA ReadTagIs ==
    ASSUME NEW r, Region(r)
    PROVE  TagRead(r, ReadTag(r))
<1> DEFINE p == r.pos
           b == der[p + 2]
           h == IF b < Half THEN Got("OK", p + 2, der[p + 1], b)
                ELSE IF b - Half \notin 1 .. SizeBytes THEN Got("BAD_LENGTH", p + 2, 0, 0)
                ELSE ReadLength(r, b - Half)
<1>0. /\ der \in Seq(Byte) /\ p \in Nat /\ r.hi \in Nat /\ r.hi <= Len(der) /\ Len(der) \in Nat
      /\ p <= r.hi
  BY DEF Region
<1>1. CASE r.hi - p < 2
  <2>1. ReadTag(r) = Got("TRUNCATED", r.hi, 0, 0)
    BY <1>1 DEF ReadTag
  <2> DEFINE g == Got("TRUNCATED", r.hi, 0, 0)
  <2>2. HeaderRead(r, g)
    BY <1>0, HeaderFailed
  <2>3. g.ret = "TRUNCATED"
    BY GotIs DEF GotFields
  <2> HIDE DEF g
  <2> QED
    BY <2>1, <2>2, <2>3 DEF TagRead, g
<1>2. CASE ~ (r.hi - p < 2)
  <2>0. p + 2 <= r.hi /\ p + 2 \in 1 .. Len(der) /\ p + 2 \in Nat /\ p <= p + 2
    BY <1>0, <1>2
  <2>b. b \in Nat /\ b < Base
    <3>1. b \in Byte
      BY <1>0, <2>0
    <3> QED
      BY <3>1, ByteIs
  <2>s. Half \in Nat /\ SizeBytes \in Nat
    BY Sizes
  <2>1. ReadTag(r) = IF h.ret = "OK" /\ h.len > r.hi - h.pos THEN [h EXCEPT !.ret = "TRUNCATED"] ELSE h
    BY <1>2 DEF ReadTag
  <2>2. HeaderRead(r, h)
    <3>1. CASE b < Half
      <4> DEFINE g == Got("OK", p + 2, der[p + 1], b)
      <4>1. h = g
        BY <3>1
      <4>2. g.ret = "OK" /\ g.pos = p + 2 /\ g.tag = der[p + 1] /\ g.len = b
        BY GotIs DEF GotFields
      <4> HIDE DEF g
      <4>3. LengthOctets(b) = <<b>>
        BY <3>1 DEF LengthOctets
      <4>4. SubSeq(der, p + 2, p + 2) = <<b>>
        BY <1>0, <2>0, CutOne
      <4> HIDE DEF h, b
      <4>5. SubSeq(der, p + 2, g.pos) = LengthOctets(g.len)
        BY <4>2, <4>3, <4>4
      <4> QED
        BY <2>0, <2>b, <4>1, <4>2, <4>5 DEF HeaderRead
    <3>2. CASE ~ (b < Half) /\ b - Half \notin 1 .. SizeBytes
      <4>1. h = Got("BAD_LENGTH", p + 2, 0, 0)
        BY <3>2
      <4> HIDE DEF h, b
      <4> QED
        BY <2>0, <4>1, HeaderFailed
    <3>3. CASE ~ (b < Half) /\ b - Half \in 1 .. SizeBytes
      <4>1. h = ReadLength(r, b - Half)
        BY <3>3
      <4>2. b - Half \in Nat \ {0} /\ b = Half + (b - Half)
        BY <2>b, <2>s, <3>3
      <4> HIDE DEF h
      <4>3. HeaderRead(r, ReadLength(r, b - Half))
        BY <2>0, <4>2, ReadLengthIs
      <4> QED
        BY <4>1, <4>3
    <3> QED
      BY <3>1, <3>2, <3>3
  <2>3. IsGot(h)
    <3>1. IsGot(ReadLength(r, b - Half))
      BY ReadLengthGot
    <3> QED
      BY <3>1 DEF IsGot
  <2> HIDE DEF h
  <2>4. CASE h.ret = "OK" /\ h.len > r.hi - h.pos
    <3>1. PICK ret, pos, tag, len : h = Got(ret, pos, tag, len)
      BY <2>3 DEF IsGot
    <3> DEFINE g == Got("TRUNCATED", pos, tag, len)
    <3>2. [h EXCEPT !.ret = "TRUNCATED"] = g
      BY <3>1, GotRet
    <3>3. ReadTag(r) = g
      BY <2>1, <2>4, <3>2
    <3>4. h.pos = pos /\ g.pos = pos /\ g.ret = "TRUNCATED"
      BY <3>1, GotIs DEF GotFields
    <3> HIDE DEF g
    <3>5. HeaderRead(r, g)
      BY <2>2, <3>4 DEF HeaderRead
    <3> QED
      BY <3>3, <3>4, <3>5 DEF TagRead
  <2>5. CASE ~ (h.ret = "OK" /\ h.len > r.hi - h.pos)
    <3>1. ReadTag(r) = h
      BY <2>1, <2>5
    <3>2. h.ret = "OK" => h.len <= r.hi - h.pos
      <4>1. SUFFICES ASSUME h.ret = "OK" PROVE h.len <= r.hi - h.pos
        OBVIOUS
      <4>2. ~ (h.len > r.hi - h.pos) /\ h.len \in Nat /\ h.pos \in Nat
        BY <2>2, <2>5, <4>1 DEF HeaderRead
      <4> QED
        BY ONLY <1>0, <4>2
    <3> QED
      BY <2>2, <3>1, <3>2 DEF TagRead
  <2> QED
    BY <2>4, <2>5
<1> QED
  BY <1>1, <1>2

(* Where an answer leaves the reader: before the content or behind it.     *)
Placed(h, a) == a.pos = h.pos \/ a.pos = h.pos + h.len

(* The fields of an answer.                                                *)
LEMMA AnswerIs ==
    ASSUME NEW ret, NEW pos, NEW value
    PROVE  /\ Answer(ret, pos, value).ret = ret /\ Answer(ret, pos, value).pos = pos
           /\ Answer(ret, pos, value).value = value
BY DEF Answer

(* What stands in an accepted element, by the function that read it.       *)
Taken(op, room, h, c, a) ==
    /\ op \in {"sequence", "set"} => a.value = c
    /\ op \in {"oid", "utf8", "octets"} /\ room # NoBuffer => a.value = c
    /\ op = "bits" => c # <<>> /\ a.value = Tail(c)
    /\ op = "null" => h.len = 0 /\ a.value = <<>>
    /\ op = "u64" => c # <<>> /\ MinimalInt(c) /\ ~ (c[1] >= Half) /\ a.value = <<FromBE(c)>>

(* An accepted answer, behind the content when it is not only a length.    *)
Accepted(op, room, h, c, a) ==
    a.ret = "OK" => /\ Taken(op, room, h, c, a)
                    /\ op \in {"sequence", "set", "bits", "null", "u64"} => a.pos = h.pos + h.len
                    /\ op \in {"oid", "utf8", "octets"} /\ room # NoBuffer => a.pos = h.pos + h.len

(* Where each reading function leaves the reader, and what it accepts.     *)
LEMMA ToBytesIs ==
    ASSUME NEW h, NEW c, NEW room
    PROVE  Placed(h, ToBytes(h, c, room)) /\ Accepted("bytes", room, h, c, ToBytes(h, c, room))
BY DEF ToBytes, Placed, Accepted, Taken, Answer

(* The same of words.                                                      *)
LEMMA ToWordsIs ==
    ASSUME NEW h, NEW c, NEW room
    PROVE  Placed(h, ToWords(h, c, room)) /\ Accepted("words", room, h, c, ToWords(h, c, room))
BY DEF ToWords, Placed, Accepted, Taken, Answer

(* Of a u64.                                                               *)
LEMMA ToU64Is ==
    ASSUME NEW h, NEW c, NEW room
    PROVE  Placed(h, ToU64(h, c)) /\ Accepted("u64", room, h, c, ToU64(h, c))
BY DEF ToU64, Placed, Accepted, Taken, Answer

(* Of a boolean.                                                           *)
LEMMA ToBooleanIs ==
    ASSUME NEW h, NEW c, NEW room
    PROVE  Placed(h, ToBoolean(h, c)) /\ Accepted("boolean", room, h, c, ToBoolean(h, c))
BY DEF ToBoolean, Placed, Accepted, Taken, Answer

(* Of an object identifier.                                                *)
LEMMA ToOidIs ==
    ASSUME NEW h, NEW c, NEW room
    PROVE  Placed(h, ToOid(h, c, room)) /\ Accepted("oid", room, h, c, ToOid(h, c, room))
BY DEF ToOid, Placed, Accepted, Taken, Answer

(* Of the strings.                                                         *)
LEMMA ToTextIs ==
    ASSUME NEW h, NEW c, NEW room, NEW op \in {"utf8", "octets"}
    PROVE  Placed(h, ToText(h, c, room)) /\ Accepted(op, room, h, c, ToText(h, c, room))
BY DEF ToText, Placed, Accepted, Taken, Answer

(* Of a bit string.                                                        *)
LEMMA ToBitsIs ==
    ASSUME NEW h, NEW c, NEW room
    PROVE  Placed(h, ToBits(h, c)) /\ Accepted("bits", room, h, c, ToBits(h, c))
BY DEF ToBits, Placed, Accepted, Taken, Answer

(* Of a null.                                                              *)
LEMMA ToNullIs ==
    ASSUME NEW h, h.pos \in Nat, h.len \in Nat, NEW c, NEW room
    PROVE  Placed(h, ToNull(h)) /\ Accepted("null", room, h, c, ToNull(h))
BY DEF ToNull, Placed, Accepted, Taken, Answer

(* Of the times.                                                           *)
LEMMA ToTimeIs ==
    ASSUME NEW h, NEW c, NEW room, NEW len, NEW date, NEW op \in {"utctime", "gentime"}
    PROVE  /\ Placed(h, ToTime(h, c, len, date))
           /\ Accepted(op, room, h, c, ToTime(h, c, len, date))
BY DEF ToTime, Placed, Accepted, Taken, Answer

(* Of the containers.                                                      *)
LEMMA ContainerIs ==
    ASSUME NEW h, NEW c, NEW room, NEW op \in {"sequence", "set"}
    PROVE  /\ Placed(h, Answer("OK", h.pos + h.len, c))
           /\ Accepted(op, room, h, c, Answer("OK", h.pos + h.len, c))
BY DEF Placed, Accepted, Taken, Answer

(* Every reading call.                                                     *)
Ops == DOMAIN Asks \cup {"skip"}

(* The reading calls by name.                                              *)
LEMMA OpsAre ==
    Ops = {"bytes", "words", "u64", "boolean", "oid", "utf8", "octets", "bits", "null",
           "utctime", "gentime", "sequence", "set", "skip"}
BY DEF Ops, Asks

(* What a call that is not refused returns, with the header it read.       *)
ReadIs(op, room, h, c, a) ==
    /\ Placed(h, a) /\ (h.ret # "OK" => a.pos = h.pos)
    /\ a.ret = "OK" => h.ret = "OK"
    /\ op # "skip" => /\ Accepted(op, room, h, c, a)
                      /\ a.ret = "OK" => h.tag = Tag[Asks[op]]

(* Every function does what ReadIs says.                                   *)
LEMMA ReadFacts ==
    ASSUME NEW op \in Ops, NEW room, NEW h, h = ReadTag(readers[Len(readers)]),
           h.pos \in Nat, h.ret = "OK" => h.len \in Nat,
           NEW c, c = SubSeq(der, h.pos + 1, h.pos + h.len)
    PROVE  ReadIs(op, room, h, c, Read(op, room))
<1> DEFINE a == Read(op, room)
<1>1. CASE h.ret # "OK"
  <2>1. a = Answer(h.ret, h.pos, <<>>)
    BY <1>1 DEF Read
  <2> HIDE DEF a
  <2>2. a.ret # "OK" /\ a.pos = h.pos
    BY <1>1, <2>1, AnswerIs
  <2>3. Placed(h, a) /\ Accepted(op, room, h, c, a)
    BY <2>2 DEF Placed, Accepted
  <2> QED
    BY <1>1, <2>2, <2>3 DEF ReadIs, a
<1>2. CASE h.ret = "OK" /\ op = "skip"
  <2>1. a = Answer("OK", h.pos + h.len, <<>>)
    BY <1>2 DEF Read
  <2> HIDE DEF a
  <2>2. Placed(h, a)
    BY <2>1, AnswerIs DEF Placed
  <2> QED
    BY <1>2, <2>2 DEF ReadIs, a
<1>3. CASE h.ret = "OK" /\ op # "skip" /\ h.tag # Tag[Asks[op]]
  <2>1. a = Answer("BAD_TAG", h.pos, <<>>)
    BY <1>3 DEF Read
  <2> HIDE DEF a
  <2>2. a.ret # "OK" /\ a.pos = h.pos
    BY <2>1, AnswerIs
  <2>3. Placed(h, a) /\ Accepted(op, room, h, c, a)
    BY <2>2 DEF Placed, Accepted
  <2> QED
    BY <1>3, <2>2, <2>3 DEF ReadIs, a
<1>4. CASE h.ret = "OK" /\ op # "skip" /\ h.tag = Tag[Asks[op]]
  <2>1. Placed(h, a) /\ Accepted(op, room, h, c, a)
    <3>0. op \in {"bytes", "words", "u64", "boolean", "oid", "utf8", "octets", "bits", "null",
                  "utctime", "gentime", "sequence", "set"}
      BY <1>4, OpsAre
    <3>1. CASE op = "bytes"
      <4>1. a = ToBytes(h, c, room)
        BY <1>4, <3>1 DEF Read
      <4> QED
        BY ONLY <3>1, <4>1, ToBytesIs
    <3>2. CASE op = "words"
      <4>1. a = ToWords(h, c, room)
        BY <1>4, <3>2 DEF Read
      <4> QED
        BY ONLY <3>2, <4>1, ToWordsIs
    <3>3. CASE op = "u64"
      <4>1. a = ToU64(h, c)
        BY <1>4, <3>3 DEF Read
      <4> QED
        BY ONLY <3>3, <4>1, ToU64Is
    <3>4. CASE op = "boolean"
      <4>1. a = ToBoolean(h, c)
        BY <1>4, <3>4 DEF Read
      <4> QED
        BY ONLY <3>4, <4>1, ToBooleanIs
    <3>5. CASE op = "oid"
      <4>1. a = ToOid(h, c, room)
        BY <1>4, <3>5 DEF Read
      <4> QED
        BY ONLY <3>5, <4>1, ToOidIs
    <3>6. CASE op \in {"utf8", "octets"}
      <4>1. a = ToText(h, c, room)
        BY <1>4, <3>6 DEF Read
      <4> QED
        BY ONLY <3>6, <4>1, ToTextIs
    <3>7. CASE op = "bits"
      <4>1. a = ToBits(h, c)
        BY <1>4, <3>7 DEF Read
      <4> QED
        BY ONLY <3>7, <4>1, ToBitsIs
    <3>8. CASE op = "null"
      <4>1. a = ToNull(h)
        BY <1>4, <3>8 DEF Read
      <4>2. h.len \in Nat
        BY <1>4
      <4> QED
        BY ONLY <3>8, <4>1, <4>2, h.pos \in Nat, ToNullIs
    <3>9. CASE op = "utctime"
      <4>1. a = ToTime(h, c, 13, UtcTime(c))
        BY <1>4, <3>9 DEF Read
      <4> QED
        BY ONLY <3>9, <4>1, ToTimeIs
    <3>10. CASE op = "gentime"
      <4>1. a = ToTime(h, c, 15, GeneralizedTime(c))
        BY <1>4, <3>10 DEF Read
      <4> QED
        BY ONLY <3>10, <4>1, ToTimeIs
    <3>11. CASE op \in {"sequence", "set"}
      <4>1. a = Answer("OK", h.pos + h.len, c)
        BY <1>4, <3>11 DEF Read
      <4> QED
        BY ONLY <3>11, <4>1, ContainerIs
    <3> QED
      BY <3>0, <3>1, <3>2, <3>3, <3>4, <3>5, <3>6, <3>7, <3>8, <3>9, <3>10, <3>11
  <2> HIDE DEF a
  <2> QED
    BY <1>4, <2>1 DEF ReadIs, a
<1> QED
  BY <1>1, <1>2, <1>3, <1>4

-----------------------------------------------------------------------------
(* The inductive invariant.                                                *)

(* The writer is in its buffer.                                            *)
WriterInv == IsWriter(writer) /\ writer.room \in Rooms

(* Every container was begun where the writer was, or further back.        *)
FramesInv == FramesOk(frames, WriterPos(writer), writer.room)

(* Every reader is in its region, and the regions are nested.              *)
ReadersInv == der \in Seq(Byte) /\ ReadersOk(readers, Len(der))

(* What Enter goes into is what the innermost reader has just passed.      *)
LastInv ==
    LET r == readers[Len(readers)]
    IN  last.op \in Containers /\ last.ret = "OK" /\ last.value # <<>> =>
          readers # <<>> /\ last.value \in Seq(Byte) /\ r.lo + Len(last.value) <= r.pos

DerInv == WriterInv /\ FramesInv /\ ReadersInv /\ LastInv

(* What follows of a writer.                                               *)
LEMMA WriterFacts ==
    ASSUME NEW w, IsWriter(w)
    PROVE  /\ w.room \in Nat /\ w.out \in Seq(Byte) /\ Len(w.out) \in Nat /\ w.error \in BOOLEAN
           /\ Len(w.out) <= w.room /\ WriterPos(w) \in Nat /\ WriterPos(w) <= w.room
           /\ w = [room |-> w.room, out |-> w.out, error |-> w.error]
<1>1. PICK r \in Nat, o \in Seq(Byte), e \in BOOLEAN : w = WriterOf(r, o, e) /\ Len(o) <= r
  BY DEF IsWriter
<1>2. w.room = r /\ w.out = o /\ w.error = e
  BY <1>1, WriterFields
<1>3. Len(o) \in Nat
  OBVIOUS
<1>4. WriterPos(w) = r - Len(o)
  BY <1>2 DEF WriterPos
<1>5. r - Len(o) \in Nat /\ r - Len(o) <= r
  BY ONLY <1>1, <1>3, r \in Nat
<1>6. w = [room |-> w.room, out |-> w.out, error |-> w.error]
  BY <1>1, <1>2 DEF WriterOf
<1> QED
  BY <1>1, <1>2, <1>3, <1>4, <1>5, <1>6

(* A writer that got further is behind no container.                       *)
LEMMA FurtherPos ==
    ASSUME NEW w, NEW u, IsWriter(w), Further(w, u)
    PROVE  WriterPos(u) <= WriterPos(w) /\ WriterPos(u) \in Int /\ WriterPos(w) \in Int
<1>1. IsWriter(u) /\ u.room = w.room /\ Len(u.out) >= Len(w.out)
  BY DEF Further
<1>2. w.room \in Nat /\ Len(w.out) \in Nat /\ Len(u.out) \in Nat
  BY <1>1, WriterFacts
<1> QED
  BY <1>1, <1>2 DEF WriterPos

(* What is written names no container.                                     *)
LEMMA WriteNames ==
    ASSUME NEW ret
    PROVE  /\ [Nothing EXCEPT !.op = "write", !.ret = ret].op = "write"
           /\ [Nothing EXCEPT !.op = "write"].op = "write"
           /\ Nothing.op = "none"
<1>1. DOMAIN Nothing = {"op", "ret", "room", "value", "at", "expect"} /\ Nothing.op = "none"
  BY DEF Nothing
<1>2. [Nothing EXCEPT !.op = "write", !.ret = ret].op = "write"
  BY ONLY <1>1, Zenon
<1>3. [Nothing EXCEPT !.op = "write"].op = "write"
  BY ONLY <1>1, Zenon
<1> QED
  BY <1>1, <1>2, <1>3

(* A call that is none names no container.                                 *)
LEMMA NoName ==
    ASSUME last'.op \in {"write", "none"}
    PROVE  LastInv'
BY DEF LastInv, Containers

(* A call of the writer that goes on from where it was.                    *)
LEMMA WroteInv ==
    ASSUME DerInv, NEW res, NEW newFrames, Wrote(res, newFrames), Further(writer, res.w),
           FramesOk(newFrames, WriterPos(writer), writer.room)
    PROVE  DerInv'
<1>0. WriterInv /\ FramesInv /\ ReadersInv
  BY DEF DerInv
<1>1. /\ writer' = res.w /\ der' = der /\ readers' = readers
      /\ frames' = newFrames \/ frames' = frames
      /\ last' = [Nothing EXCEPT !.op = "write", !.ret = res.ret]
  BY DEF Wrote
<1>2. IsWriter(writer') /\ writer'.room = writer.room
  BY <1>1 DEF Further
<1>3. WriterInv'
  BY <1>0, <1>2 DEF WriterInv
<1>4. FramesOk(frames', WriterPos(writer), writer.room)
  BY <1>0, <1>1 DEF FramesInv
<1>5. /\ WriterPos(writer') <= WriterPos(writer) /\ WriterPos(writer') \in Int
      /\ WriterPos(writer) \in Int
  BY <1>0, <1>1, FurtherPos DEF WriterInv
<1>6. FramesOk(frames', WriterPos(writer'), writer.room)
  BY ONLY <1>4, <1>5, FramesFurther
<1>7. FramesInv'
  <2>1. FramesInv' <=> FramesOk(frames', WriterPos(writer'), writer'.room)
    BY DEF FramesInv, WriterPos
  <2> QED
    BY <1>2, <1>6, <2>1
<1>8. ReadersInv'
  BY <1>0, <1>1 DEF ReadersInv
<1>9. LastInv'
  <2>1. last'.op = "write"
    BY <1>1, WriteNames
  <2> QED
    BY <2>1, NoName
<1> QED
  BY <1>3, <1>7, <1>8, <1>9 DEF DerInv

(* The frames after something was written into the innermost container.    *)
LEMMA TopItems ==
    ASSUME NEW fs, NEW pos, NEW room, FramesOk(fs, pos, room), NEW x
    PROVE  FramesOk([fs EXCEPT ![Len(fs)].items = x], pos, room)
<1>1. Len(fs) \in 1 .. Len(fs)
  BY ListLen DEF FramesOk
<1> QED
  BY <1>1, FramesItems

(* A writing call keeps the invariant.                                     *)
LEMMA WriteInv ==
    ASSUME DerInv, NEW v \in Writes, Write(v)
    PROVE  DerInv'
<1>0. IsWriter(writer) /\ FramesOk(frames, WriterPos(writer), writer.room) /\ Writable(v)
  BY DerAssumption DEF DerInv, WriterInv, FramesInv
<1>1. CASE v.kind = "bits" /\ ~ BitStringTaken(v.bytes, v.val)
  <2>1. Wrote([w |-> writer, ret |-> "BAD_FORMAT"], frames)
    BY <1>1 DEF Write
  <2> DEFINE res == [w |-> writer, ret |-> "BAD_FORMAT"]
  <2>2. res.w = writer
    OBVIOUS
  <2>3. Wrote(res, frames)
    BY <2>1
  <2> HIDE DEF res
  <2>4. Further(writer, res.w)
    BY <1>0, <2>2, FurtherSelf
  <2> QED
    BY <1>0, <2>3, <2>4, WroteInv
<1>2. CASE ~ (v.kind = "bits" /\ ~ BitStringTaken(v.bytes, v.val))
  <2> DEFINE res == WriteParts(writer, PartsOf(v))
             fs == [frames EXCEPT ![Len(frames)].items = <<ItemOf(v)>> \o @]
             x == <<ItemOf(v)>> \o frames[Len(frames)].items
  <2>1. Wrote(res, fs)
    BY <1>2 DEF Write
  <2>2. PartsOf(v) \in Parts
    BY <1>0, <1>2, PartsOfIs
  <2>3. Further(writer, res.w)
    BY <1>0, <2>2, WritePartsFurther
  <2>4. fs = [frames EXCEPT ![Len(frames)].items = x]
    OBVIOUS
  <2> HIDE DEF res, fs, x
  <2>5. FramesOk(fs, WriterPos(writer), writer.room)
    BY <1>0, <2>4, TopItems
  <2> QED
    BY <2>1, <2>3, <2>5, WroteInv
<1> QED
  BY <1>1, <1>2

(* So does one that got no memory,                                         *)
LEMMA WriteNoMemoryInv ==
    ASSUME DerInv, NEW v \in Writes, WriteNoMemory(v)
    PROVE  DerInv'
<1>0. IsWriter(writer) /\ FramesOk(frames, WriterPos(writer), writer.room)
  BY DEF DerInv, WriterInv, FramesInv
<1> DEFINE res == [w |-> writer, ret |-> "MEM_ALLOCATE_FAIL"]
<1>1. Wrote(res, frames)
  BY DEF WriteNoMemory
<1>2. res.w = writer
  OBVIOUS
<1> HIDE DEF res
<1>3. Further(writer, res.w)
  BY <1>0, <1>2, FurtherSelf
<1> QED
  BY <1>0, <1>1, <1>3, WroteInv

(* the begin functions,                                                    *)
LEMMA BeginInv ==
    ASSUME DerInv, NEW tag \in {"sequence", "set", "bits"}, Begin(tag)
    PROVE  DerInv'
<1>0. IsWriter(writer) /\ FramesOk(frames, WriterPos(writer), writer.room)
  BY DEF DerInv, WriterInv, FramesInv
<1> DEFINE res == [w |-> writer, ret |-> IF writer.error THEN "WRITE_ERROR" ELSE "OK"]
           f == Frame(tag, WriterPos(writer))
<1>1. Wrote(res, Append(frames, f))
  BY DEF Begin
<1>2. res.w = writer
  OBVIOUS
<1> HIDE DEF res
<1>3. Further(writer, res.w)
  BY <1>0, <1>2, FurtherSelf
<1>4. WriterPos(writer) \in Nat /\ WriterPos(writer) <= writer.room
  BY <1>0, WriterFacts
<1>5. /\ DOMAIN f = {"tag", "start", "at", "items"} /\ f.tag = tag
      /\ f.start = WriterPos(writer) /\ f.at = WriterPos(writer)
  BY DEF Frame
<1> HIDE DEF f
<1>6. FrameOk(f, TRUE, WriterPos(writer), writer.room)
  BY <1>4, <1>5 DEF FrameOk, Containers
<1>7. FramesOk(Append(frames, f), WriterPos(writer), writer.room)
  BY <1>0, <1>6, FramesPush
<1> QED
  BY <1>1, <1>3, <1>7, WroteInv

(* Nothing is written, only the containers change.                         *)
LEMMA OnlyFrames ==
    ASSUME DerInv, FramesOk(frames', WriterPos(writer), writer.room),
           last'.op = "write", UNCHANGED <<writer, der, readers>>
    PROVE  DerInv'
<1>1. WriterInv' /\ ReadersInv'
  BY DEF DerInv, WriterInv, ReadersInv
<1>2. FramesInv'
  BY DEF FramesInv, WriterPos
<1>3. LastInv'
  BY NoName
<1> QED
  BY <1>1, <1>2, <1>3 DEF DerInv

(* A byte of the writer written over.                                      *)
LEMMA ByteOver ==
    ASSUME NEW w, IsWriter(w), NEW k \in 1 .. Len(w.out), NEW b \in Byte
    PROVE  Further(w, [w EXCEPT !.out[k] = b])
<1>1. PICK r \in Nat, o \in Seq(Byte), e \in BOOLEAN : w = WriterOf(r, o, e) /\ Len(o) <= r
  BY DEF IsWriter
<1>2. w.room = r /\ w.out = o
  BY <1>1, WriterFields
<1> DEFINE z == [o EXCEPT ![k] = b]
           u == WriterOf(r, z, e)
<1>3. z \in Seq(Byte) /\ Len(z) = Len(o)
  <2> DEFINE S == Byte
  <2>1. o \in Seq(S) /\ b \in S /\ k \in 1 .. Len(o)
    BY <1>2
  <2> HIDE DEF S
  <2>2. z \in Seq(S) /\ Len(z) = Len(o)
    BY ONLY <2>1
  <2> QED
    BY ONLY <2>2 DEF S
<1>4. [w EXCEPT !.out[k] = b] = [w EXCEPT !.out = [w.out EXCEPT ![k] = b]]
  OBVIOUS
<1>5. [w EXCEPT !.out = [w.out EXCEPT ![k] = b]] = [w EXCEPT !.out = z]
  BY ONLY <1>2
<1> HIDE DEF z
<1>6. [WriterOf(r, o, e) EXCEPT !.out = z] = u
  BY OutSet
<1>7. [w EXCEPT !.out[k] = b] = u
  BY ONLY <1>1, <1>4, <1>5, <1>6
<1>8. u.room = r /\ u.out = z
  BY WriterFields
<1>9. IsWriter(u)
  <2>1. Len(z) <= r
    BY <1>1, <1>3
  <2> QED
    BY ONLY <1>3, <2>1, r \in Nat, e \in BOOLEAN, Zenon DEF IsWriter
<1> HIDE DEF u
<1>10. Further(w, u)
  BY <1>2, <1>3, <1>8, <1>9 DEF Further
<1> QED
  BY ONLY <1>7, <1>10

(* What a write through a handle does.                                     *)
Handled(i, at, k) ==
    /\ at = frames[i].at /\ at > 0 /\ k = at - WriterPos(writer)
    /\ frames' = [frames EXCEPT ![i].at = at - 1]
    /\ whole' => whole /\ writer' = writer
    /\ last' = [Nothing EXCEPT !.op = "write"]
    /\ UNCHANGED <<der, readers>>

(* It does that.                                                           *)
LEMMA HandleDoes ==
    ASSUME NEW i, NEW b, WriteToHandle(i, b)
    PROVE  /\ \E at, k : Handled(i, at, k)
           /\ \/ writer' = writer
              \/ /\ frames[i].at - WriterPos(writer) > 0
                 /\ writer' = [writer EXCEPT !.out[frames[i].at - WriterPos(writer)] = b]
<1> DEFINE at == frames[i].at
           k == at - WriterPos(writer)
<1>1. /\ at > 0 /\ frames' = [frames EXCEPT ![i].at = @ - 1]
      /\ last' = [Nothing EXCEPT !.op = "write"] /\ UNCHANGED <<der, readers>>
  BY DEF WriteToHandle
<1>2. whole' = (whole /\ writer' = writer)
  BY DEF WriteToHandle
<1>3. whole' => whole /\ writer' = writer
  BY ONLY <1>2, Zenon
<1>4. frames' = [frames EXCEPT ![i].at = at - 1]
  BY <1>1
<1>5. writer' = IF k > 0 THEN [writer EXCEPT !.out[k] = b] ELSE writer
  BY DEF WriteToHandle
<1>6. at = frames[i].at /\ k = at - WriterPos(writer)
  OBVIOUS
<1>8. writer' = writer \/ (k > 0 /\ writer' = [writer EXCEPT !.out[k] = b])
  BY ONLY <1>5
<1>9. \E x, y : Handled(i, x, y)
  <2> HIDE DEF at, k
  <2>1. Handled(i, at, k)
    BY ONLY <1>1, <1>3, <1>4, <1>6, Zenon DEF Handled
  <2> QED
    BY ONLY <2>1
<1> QED
  BY ONLY <1>8, <1>9

(* a write through a handle                                                *)
LEMMA WriteToHandleInv ==
    ASSUME DerInv, NEW i \in 2 .. Len(frames), NEW b \in Damage, WriteToHandle(i, b)
    PROVE  DerInv'
<1>0. /\ IsWriter(writer) /\ writer.room \in Rooms /\ ReadersInv
      /\ FramesOk(frames, WriterPos(writer), writer.room)
  BY DEF DerInv, WriterInv, FramesInv
<1>1. PICK at, k : Handled(i, at, k)
  BY HandleDoes
<1>2. /\ at = frames[i].at /\ at > 0 /\ k = at - WriterPos(writer)
      /\ frames' = [frames EXCEPT ![i].at = at - 1]
      /\ last' = [Nothing EXCEPT !.op = "write"] /\ UNCHANGED <<der, readers>>
  BY <1>1 DEF Handled
<1>3. writer' = writer \/ (k > 0 /\ writer' = [writer EXCEPT !.out[k] = b])
  BY <1>2, HandleDoes
<1>4. Len(frames) \in Nat /\ i \in 1 .. Len(frames)
  BY <1>0, ListLen DEF FramesOk
<1>5. FrameOk(frames[i], i > 1, WriterPos(writer), writer.room)
  BY <1>0, <1>4 DEF FramesOk
<1> DEFINE st == frames[i].start
           r == writer.room
           n == Len(writer.out)
           pos == WriterPos(writer)
<1>6. /\ at \in Nat /\ at <= st /\ st \in Nat /\ st <= r /\ r \in Nat /\ n \in Nat
      /\ pos \in Nat /\ pos = r - n
  <2>1. at \in Nat /\ at <= st /\ st \in Nat /\ st <= r
    BY <1>2, <1>5 DEF FrameOk
  <2>2. r \in Nat /\ n \in Nat /\ pos \in Nat
    BY <1>0, WriterFacts
  <2> QED
    BY <2>1, <2>2 DEF WriterPos
<1>7. at - 1 \in Nat /\ at - 1 <= st /\ (k > 0 => k \in 1 .. n)
  <2>1. at > 0 /\ k = at - pos
    BY <1>2
  <2> HIDE DEF st, r, n, pos
  <2> QED
    BY ONLY <1>6, <2>1
<1>8. Further(writer, writer')
  <2>1. CASE writer' = writer
    BY <1>0, <2>1, FurtherSelf
  <2>2. CASE k > 0 /\ writer' = [writer EXCEPT !.out[k] = b]
    <3>1. b \in Byte
      BY DerAssumption
    <3>2. Further(writer, [writer EXCEPT !.out[k] = b])
      BY <1>0, <1>7, <2>2, <3>1, ByteOver
    <3> QED
      BY ONLY <2>2, <3>2
  <2> QED
    BY <1>3, <2>1, <2>2
<1>9. FramesOk(frames', pos, r)
  <2> HIDE DEF pos, r
  <2>1. FramesOk(frames, pos, r)
    BY <1>0 DEF pos, r
  <2>2. FramesOk([frames EXCEPT ![i].at = at - 1], pos, r)
    BY ONLY <1>4, <1>7, <2>1, FramesMoved DEF st
  <2> QED
    BY ONLY <1>2, <2>2
<1>10. /\ WriterPos(writer') <= pos /\ WriterPos(writer') \in Int /\ pos \in Int
       /\ IsWriter(writer') /\ writer'.room = r
  BY <1>0, <1>8, FurtherPos DEF Further
<1>11. WriterInv'
  BY <1>0, <1>10 DEF WriterInv
<1>12. FramesInv'
  <2> HIDE DEF pos, r
  <2>1. FramesOk(frames', WriterPos(writer'), r)
    BY ONLY <1>9, <1>10, FramesFurther
  <2>2. FramesInv' <=> FramesOk(frames', WriterPos(writer'), writer'.room)
    BY DEF FramesInv, WriterPos
  <2> QED
    BY ONLY <1>10, <2>1, <2>2
<1>13. ReadersInv'
  BY <1>0, <1>2 DEF ReadersInv
<1>14. LastInv'
  <2>1. last'.op = "write"
    BY <1>2, WriteNames
  <2> QED
    BY <2>1, NoName
<1> QED
  BY <1>11, <1>12, <1>13, <1>14 DEF DerInv

(* and the end functions, refused or not.                                  *)
LEMMA EndInv ==
    ASSUME DerInv, End
    PROVE  DerInv'
<1>0. /\ IsWriter(writer) /\ FramesOk(frames, WriterPos(writer), writer.room)
      /\ writer.room \in Rooms
  BY DEF DerInv, WriterInv, FramesInv
<1> DEFINE outer == Front(frames)
           G(s) == [outer EXCEPT ![Len(outer)].items = s]
<1>1. Len(frames) > 1
  BY DEF End
<1>2. FramesOk(outer, WriterPos(writer), writer.room)
  BY <1>0, <1>1, FramesPop
<1>3. \A s : FramesOk(G(s), WriterPos(writer), writer.room)
  <2> HIDE DEF outer
  <2> QED
    BY <1>2, TopItems
<1>4. CASE Top.at # Top.start /\ ~ writer.error
  <2>1. /\ frames' = G(Top.items \o outer[Len(outer)].items)
        /\ last' = [Nothing EXCEPT !.op = "write", !.ret = "INVALID_PARAM"]
        /\ UNCHANGED <<writer, der, readers>>
    BY <1>4 DEF End
  <2> HIDE DEF G
  <2>2. FramesOk(frames', WriterPos(writer), writer.room)
    BY <1>3, <2>1
  <2>3. last'.op = "write"
    BY <2>1, WriteNames
  <2> QED
    BY <2>1, <2>2, <2>3, OnlyFrames
<1>5. CASE ~ (Top.at # Top.start /\ ~ writer.error)
  <2> DEFINE res == WriteParts(writer, EndParts(Top))
             x == <<Item(Top.tag, <<>>, Top.items)>>
             fs == G(x \o outer[Len(outer)].items)
  <2>1. Wrote(res, fs)
    BY <1>5 DEF End
  <2>2. FramesOk(fs, WriterPos(writer), writer.room)
    <3> HIDE DEF G, x
    <3> QED
      BY <1>3
  <2> HIDE DEF fs
  <2> DEFINE n == Len(frames)
             f == frames[n]
             len == f.start - WriterPos(writer)
  <2>3. n \in 1 .. n /\ n > 1
    BY <1>0, <1>1, ListLen DEF FramesOk
  <2>4. FrameOk(f, n > 1, WriterPos(writer), writer.room)
    BY <1>0, <2>3 DEF FramesOk
  <2>5. f.tag \in {"sequence", "set", "bits"}
    BY <2>3, <2>4 DEF FrameOk, Containers
  <2>6. f.start \in Nat /\ WriterPos(writer) <= f.start /\ f.start <= writer.room
    BY <2>4 DEF FrameOk
  <2>7. WriterPos(writer) \in Nat /\ writer.room \in Nat
    BY <1>0, WriterFacts
  <2>8. len \in Nat /\ len <= writer.room
    BY <2>6, <2>7
  <2>9. Fits(len)
    <3>0. SizeBytes \in Nat
      BY Sizes
    <3>p. Power(SizeBytes) \in Nat
      BY <3>0, PowerGrows
    <3>f. \A room \in Rooms : Fits(room)
      BY DerAssumption
    <3>1. Fits(writer.room) /\ Power(SizeBytes) \in Nat
      BY ONLY <1>0, <3>p, <3>f
    <3>2. writer.room + 1 < Power(SizeBytes)
      BY <3>1 DEF Fits
    <3> HIDE DEF len
    <3>3. len + 1 < Power(SizeBytes)
      BY ONLY <2>7, <2>8, <3>1, <3>2
    <3> QED
      BY <2>8, <3>3 DEF Fits
  <2>10. EndParts(f) \in Parts
    <3> HIDE DEF f
    <3> QED
      BY <2>5, <2>8, <2>9, EndPartsIs
  <2>11. Further(writer, res.w)
    <3>1. EndParts(Top) \in Parts
      BY <2>10 DEF Top
    <3> QED
      BY <1>0, <3>1, WritePartsFurther
  <2> HIDE DEF res, n, f, len
  <2> QED
    BY <2>1, <2>2, <2>11, WroteInv
<1> QED
  BY <1>4, <1>5

-----------------------------------------------------------------------------
(* The reader's actions.                                                   *)

(* The fields of a fresh reader.                                           *)
LEMMA ReaderMade ==
    ASSUME NEW lo \in Nat, NEW hi \in Nat, lo <= hi, NEW items, NEW sound, NEW limit, hi <= limit
    PROVE  ReaderOk(Reader(lo, hi, items, sound), limit)
<1> DEFINE r == Reader(lo, hi, items, sound)
<1>1. DOMAIN r = ReaderFields /\ r.lo = lo /\ r.pos = lo /\ r.hi = hi
  BY DEF Reader, ReaderFields
<1> HIDE DEF r
<1> QED
  BY <1>1 DEF ReaderOk, r

(* The outermost containers of a writer.                                   *)
LEMMA TopFrames ==
    ASSUME NEW room \in Nat, NEW pos, pos <= room
    PROVE  FramesOk(<<Frame("top", room)>>, pos, room)
<1> DEFINE f == Frame("top", room)
           t == <<f>>
<1>1. DOMAIN f = {"tag", "start", "at", "items"} /\ f.start = room /\ f.at = room
  BY DEF Frame
<1>2. IsList(t) /\ Len(t) = 1 /\ t[1] = f
  BY ListOne
<1> HIDE DEF f, t
<1>3. \A i \in 1 .. Len(t) : i = 1 /\ ~ (i > 1)
  BY <1>2
<1>4. FrameOk(f, FALSE, pos, room)
  BY <1>1 DEF FrameOk
<1>5. \A i \in 1 .. Len(t) : FrameOk(t[i], i > 1, pos, room)
  <2>1. ASSUME NEW i \in 1 .. Len(t) PROVE FrameOk(t[i], i > 1, pos, room)
    <3>1. i = 1 /\ ~ (i > 1) /\ t[i] = f
      BY <1>2, <1>3
    <3> QED
      BY <1>4, <3>1 DEF FrameOk
  <2> QED
    BY <2>1
<1> QED
  BY <1>2, <1>5 DEF FramesOk, t, f

(* A writer that starts afresh.                                            *)
LEMMA FreshWriter ==
    ASSUME NEW room \in Rooms, NEW w, w = [room |-> room, out |-> <<>>, error |-> FALSE]
    PROVE  IsWriter(w) /\ w.room = room /\ WriterPos(w) = room /\ room \in Nat
<1>1. room \in Nat
  BY DerAssumption DEF Fits
<1>2. w = WriterOf(room, <<>>, FALSE)
  BY DEF WriterOf
<1>3. <<>> \in Seq(Byte) /\ Len(<<>>) = 0 /\ FALSE \in BOOLEAN /\ Len(<<>>) <= room
  BY <1>1
<1>4. IsWriter(w)
  BY ONLY <1>1, <1>2, <1>3, Zenon DEF IsWriter
<1>5. w.room = room /\ w.out = <<>>
  OBVIOUS
<1>6. WriterPos(w) = room
  BY <1>1, <1>5 DEF WriterPos
<1> QED
  BY <1>1, <1>4, <1>5, <1>6

(* The writer handed over and begun afresh.                                *)
LEMMA WriterDoneInv ==
    ASSUME DerInv, WriterDone
    PROVE  WriterInv' /\ FramesInv' /\ LastInv' /\ last'.op = "none" /\ writer.out \in Seq(Byte)
<1>0. writer.room \in Rooms /\ IsWriter(writer)
  BY DEF DerInv, WriterInv
<1>1. /\ writer' = [room |-> writer.room, out |-> <<>>, error |-> FALSE]
      /\ frames' = <<Frame("top", writer.room)>> /\ last' = Nothing
  BY DEF WriterDone
<1>2. /\ IsWriter(writer') /\ writer'.room = writer.room /\ WriterPos(writer') = writer.room
      /\ writer.room \in Nat
  BY <1>0, <1>1, FreshWriter
<1>3. WriterInv'
  BY <1>0, <1>2 DEF WriterInv
<1>4. FramesOk(frames', WriterPos(writer'), writer'.room)
  <2>1. writer.room <= writer.room
    BY <1>2
  <2>2. FramesOk(<<Frame("top", writer.room)>>, writer.room, writer.room)
    BY <1>2, <2>1, TopFrames
  <2> QED
    BY <1>1, <1>2, <2>2
<1>5. FramesInv'
  <2>1. FramesInv' <=> FramesOk(frames', WriterPos(writer'), writer'.room)
    BY DEF FramesInv, WriterPos
  <2> QED
    BY <1>4, <2>1
<1>6. last'.op = "none"
  BY <1>1, WriteNames
<1>7. LastInv'
  BY <1>6, NoName
<1>8. writer.out \in Seq(Byte)
  BY <1>0, WriterFacts
<1> QED
  BY <1>3, <1>5, <1>6, <1>7, <1>8

(* A reader over what was written keeps the invariant,                     *)
LEMMA ReaderInitInv ==
    ASSUME DerInv, ReaderInit
    PROVE  DerInv'
<1>1. WriterInv' /\ FramesInv' /\ LastInv' /\ writer.out \in Seq(Byte)
  BY WriterDoneInv DEF ReaderInit
<1> DEFINE n == Len(writer.out)
           r == Reader(0, n, Top.items, whole)
<1>2. der' = writer.out /\ readers' = <<r>>
  BY DEF ReaderInit
<1>3. der' \in Seq(Byte) /\ Len(der') = n /\ n \in Nat /\ 0 \in Nat /\ 0 <= n /\ n <= n
  BY <1>1, <1>2
<1> DEFINE R(x) == Reader(0, n, Top.items, x)
<1>4. \A x : ReaderOk(R(x), n)
  <2> HIDE DEF n
  <2> QED
    BY <1>3, ReaderMade
<1> HIDE DEF R
<1>5. ReaderOk(R(whole), n)
  BY ONLY <1>4
<1>6. r = R(whole)
  BY DEF R
<1> HIDE DEF r
<1>7. ReadersOk(readers', Len(der'))
  BY <1>2, <1>3, <1>5, <1>6, ReadersOne
<1>8. ReadersInv'
  BY <1>3, <1>7 DEF ReadersInv
<1> QED
  BY <1>1, <1>8 DEF DerInv

(* and one over what became of it.                                         *)
LEMMA ReaderInitDamagedInv ==
    ASSUME DerInv, ReaderInitDamaged
    PROVE  DerInv'
<1>1. WriterInv' /\ FramesInv' /\ LastInv' /\ writer.out \in Seq(Byte)
  BY WriterDoneInv DEF ReaderInitDamaged
<1> DEFINE n == Len(der')
           R(x) == Reader(0, n, <<>>, x)
<1>2. readers' = <<R(FALSE)>>
  BY DEF ReaderInitDamaged
<1>3. der' \in Seq(Byte)
  <2>1. CASE \E i \in 1 .. Len(writer.out), b \in Damage : der' = [writer.out EXCEPT ![i] = b]
    <3>1. PICK i \in 1 .. Len(writer.out), b \in Damage : der' = [writer.out EXCEPT ![i] = b]
      BY <2>1
    <3>2. b \in Byte
      BY <3>1, DerAssumption
    <3> DEFINE S == Byte
    <3>3. writer.out \in Seq(S) /\ b \in S
      BY <1>1, <3>2
    <3> HIDE DEF S
    <3>4. [writer.out EXCEPT ![i] = b] \in Seq(S)
      BY ONLY <3>3, i \in 1 .. Len(writer.out)
    <3> QED
      BY <3>1, <3>4 DEF S
  <2>2. CASE \E m \in 0 .. Len(writer.out) - 1 : der' = SubSeq(writer.out, 1, m)
    <3>1. PICK m \in 0 .. Len(writer.out) - 1 : der' = SubSeq(writer.out, 1, m)
      BY <2>2
    <3>2. /\ m \in Nat /\ 1 \in Nat \ {0} /\ 1 <= m + 1 /\ m <= Len(writer.out)
      BY <1>1
    <3>3. SubSeq(writer.out, 1, m) \in Seq(Byte)
      BY ONLY <1>1, <3>2, Cut
    <3> QED
      BY <3>1, <3>3
  <2> QED
    BY <2>1, <2>2 DEF ReaderInitDamaged
<1>4. n \in Nat /\ 0 \in Nat /\ 0 <= n /\ n <= n
  BY <1>3
<1>5. \A x : ReaderOk(R(x), n)
  <2> HIDE DEF n
  <2> QED
    BY <1>4, ReaderMade
<1> HIDE DEF R
<1>6. ReaderOk(R(FALSE), n)
  BY ONLY <1>5
<1>7. ReadersOk(readers', Len(der'))
  BY <1>2, <1>6, ReadersOne
<1>8. ReadersInv'
  BY <1>3, <1>7 DEF ReadersInv
<1> QED
  BY <1>1, <1>8 DEF DerInv

(* The writer's side stays.                                                *)
LEMMA OnlyReaders ==
    ASSUME DerInv, UNCHANGED <<writer, frames, whole, der>>, ReadersOk(readers', Len(der)), LastInv'
    PROVE  DerInv'
<1>1. WriterInv' /\ FramesInv'
  BY DEF DerInv, WriterInv, FramesInv, WriterPos
<1>2. ReadersInv'
  BY DEF DerInv, ReadersInv
<1> QED
  BY <1>1, <1>2 DEF DerInv

(* Letting a reader go keeps the invariant,                                *)
LEMMA LeaveInv ==
    ASSUME DerInv, Leave
    PROVE  DerInv'
<1>1. ReadersOk(readers, Len(der)) /\ Len(readers) \in Nat
  BY ListLen DEF DerInv, ReadersInv, ReadersOk
<1>2. /\ Len(readers) > 1 /\ readers' = Front(readers) /\ last' = Nothing
      /\ UNCHANGED <<writer, frames, whole, der>>
  BY DEF Leave
<1>3. Len(readers) > 0
  BY <1>1, <1>2
<1>4. ReadersOk(readers', Len(der))
  BY <1>1, <1>2, <1>3, ReadersPop
<1>5. last'.op = "none"
  BY <1>2, WriteNames
<1>6. LastInv'
  BY <1>5, NoName
<1> QED
  BY <1>2, <1>4, <1>6, OnlyReaders

(* as does a reader for the container just passed,                         *)
LEMMA EnterInv ==
    ASSUME DerInv, Enter
    PROVE  DerInv'
<1> DEFINE n == Len(readers)
           r == readers[n]
           k == Len(last.value)
           kids == IF last.expect = <<>> THEN <<>> ELSE Head(last.expect).kids
           q == Reader(r.pos - k, r.pos, kids, kids # <<>>)
<1>1. ReadersOk(readers, Len(der)) /\ n \in Nat
  BY ListLen DEF DerInv, ReadersInv, ReadersOk
<1>2. /\ readers' = Append(readers, q) /\ last' = Nothing /\ readers # <<>>
      /\ UNCHANGED <<writer, frames, whole, der>>
  BY DEF Enter, Reading
<1>3. last.value \in Seq(Byte) /\ r.lo + k <= r.pos
  BY DEF Enter, DerInv, LastInv, Containers
<1> HIDE DEF q
<1>4. n > 0 /\ n \in 1 .. n
  BY <1>1, <1>2, ListLen DEF ReadersOk
<1>5. r.lo \in Nat /\ r.pos \in Nat
  BY <1>1, <1>4 DEF ReadersOk, ReaderOk
<1>6. k \in Nat /\ r.pos - k \in Nat /\ r.pos - k <= r.pos /\ r.pos <= r.pos
  <2>1. k \in Nat
    BY <1>3
  <2> HIDE DEF k, r
  <2> QED
    BY ONLY <1>3, <1>5, <2>1
<1>7. ReaderOk(q, r.pos)
  <2> HIDE DEF r, k, kids
  <2> QED
    BY <1>5, <1>6, ReaderMade DEF q
<1>8. ReadersOk(readers', Len(der))
  BY <1>1, <1>2, <1>4, <1>7, ReadersPush
<1>9. last'.op = "none"
  BY <1>2, WriteNames
<1>10. LastInv'
  BY <1>9, NoName
<1> QED
  BY <1>2, <1>8, <1>10, OnlyReaders

(* and looking at the next tag.                                            *)
LEMMA ExpectInv ==
    ASSUME DerInv, NEW name \in {"null", "sequence"}, Expect(name)
    PROVE  DerInv'
<1>1. UNCHANGED <<writer, frames, whole, der, readers>> /\ last'.value = <<>>
  BY DEF Expect
<1>2. ReadersOk(readers', Len(der))
  BY <1>1 DEF DerInv, ReadersInv
<1>3. LastInv'
  BY <1>1 DEF LastInv
<1> QED
  BY <1>1, <1>2, <1>3, OnlyReaders

(* What a reading call finds: the innermost reader r, the header h, the    *)
(* content c behind it and the answer a.                                   *)
Finds(op, room, r, h, c, a) ==
    /\ readers # <<>> /\ Len(readers) \in 1 .. Len(readers)
    /\ r = readers[Len(readers)] /\ Region(r) /\ ReaderOk(r, Around(readers, Len(der), Len(readers)))
    /\ TagRead(r, h) /\ c = SubSeq(der, h.pos + 1, h.pos + h.len)
    /\ a = Read(op, room) /\ ReadIs(op, room, h, c, a)
    /\ a.pos \in Nat /\ r.pos <= a.pos /\ a.pos <= r.hi
    /\ h.ret = "OK" => c \in Seq(Byte) /\ Len(c) = h.len /\ h.pos + h.len <= Len(der)

(* Every reading call finds them, and ends in the region.                  *)
LEMMA ReadFinds ==
    ASSUME DerInv, readers # <<>>, NEW op \in Ops, NEW room
    PROVE  \E r, h, c, a : Finds(op, room, r, h, c, a)
<1> DEFINE n == Len(readers)
           r == readers[n]
           h == ReadTag(r)
           c == SubSeq(der, h.pos + 1, h.pos + h.len)
           a == Read(op, room)
<1>1. ReadersOk(readers, Len(der)) /\ n \in Nat /\ der \in Seq(Byte) /\ Len(der) \in Nat
  BY ListLen DEF DerInv, ReadersInv, ReadersOk
<1>2. n > 0 /\ n \in 1 .. n
  BY <1>1, ListLen DEF ReadersOk
<1>3. ReaderOk(r, Around(readers, Len(der), n))
  BY <1>1, <1>2 DEF ReadersOk
<1>4. r.hi <= Len(der)
  BY <1>1, <1>2, RegionInside
<1>5. /\ r.pos \in Nat /\ r.hi \in Nat /\ r.pos <= r.hi
  BY <1>3 DEF ReaderOk
<1>6. Region(r)
  BY <1>1, <1>4, <1>5 DEF Region
<1>7. TagRead(r, h)
  BY <1>6, ReadTagIs
<1>h. h = ReadTag(readers[Len(readers)])
  OBVIOUS
<1> HIDE DEF h, r, n
<1>8. /\ h.pos \in Nat /\ r.pos <= h.pos /\ h.pos <= r.hi
      /\ h.ret = "OK" => h.len \in Nat /\ h.len <= r.hi - h.pos
  BY <1>7 DEF TagRead, HeaderRead
<1>9. ReadIs(op, room, h, c, a)
  BY <1>8, <1>h, ReadFacts
<1>10. h.ret = "OK" => c \in Seq(Byte) /\ Len(c) = h.len /\ h.pos + h.len <= Len(der)
  <2>1. SUFFICES ASSUME h.ret = "OK"
        PROVE  c \in Seq(Byte) /\ Len(c) = h.len /\ h.pos + h.len <= Len(der)
    OBVIOUS
  <2> DEFINE i == h.pos + 1
             j == h.pos + h.len
  <2>2. /\ i \in Nat \ {0} /\ j \in Nat /\ i <= j + 1 /\ j <= Len(der) /\ (j + 1) - i = h.len
    <3> DEFINE p == h.pos
               l == h.len
               top == r.hi
               z == Len(der)
    <3>1. /\ p \in Nat /\ l \in Nat /\ top \in Nat /\ z \in Nat
          /\ l <= top - p /\ top <= z
      BY <1>1, <1>4, <1>5, <1>8, <2>1
    <3> HIDE DEF p, l, top, z
    <3>2. /\ p + 1 \in Nat \ {0} /\ p + l \in Nat /\ p + 1 <= (p + l) + 1 /\ p + l <= z
          /\ ((p + l) + 1) - (p + 1) = l
      BY ONLY <3>1
    <3> QED
      BY <3>2 DEF p, l, z
  <2> HIDE DEF i, j
  <2>3. SubSeq(der, i, j) \in Seq(Byte) /\ Len(SubSeq(der, i, j)) = (j + 1) - i
    BY ONLY <1>1, <2>2, Cut
  <2> QED
    BY <2>2, <2>3 DEF i, j
<1>11. a.pos \in Nat /\ r.pos <= a.pos /\ a.pos <= r.hi
  <2>1. CASE h.ret = "OK"
    <3>1. a.pos = h.pos \/ a.pos = h.pos + h.len
      BY <1>9 DEF ReadIs, Placed
    <3> DEFINE p == h.pos
               l == h.len
               top == r.hi
               s == r.pos
               q == a.pos
    <3>2. /\ p \in Nat /\ l \in Nat /\ top \in Nat /\ s \in Nat /\ s <= p /\ p <= top
          /\ l <= top - p /\ (q = p \/ q = p + l)
      BY <1>5, <1>8, <2>1, <3>1
    <3> HIDE DEF p, l, top, s, q
    <3>3. q \in Nat /\ s <= q /\ q <= top
      BY ONLY <3>2
    <3> QED
      BY <3>3 DEF q, s, top
  <2>2. CASE h.ret # "OK"
    <3>1. a.pos = h.pos
      BY <1>9, <2>2 DEF ReadIs
    <3> QED
      BY <1>8, <3>1
  <2> QED
    BY <2>1, <2>2
<1>12. readers # <<>> /\ Len(readers) \in 1 .. Len(readers) /\ r = readers[Len(readers)]
  BY <1>2 DEF n, r
<1>13. ReaderOk(r, Around(readers, Len(der), Len(readers)))
  BY <1>3 DEF n
<1> HIDE DEF a, c
<1>14. c = SubSeq(der, h.pos + 1, h.pos + h.len) /\ a = Read(op, room)
  BY DEF a, c
<1>15. Finds(op, room, r, h, c, a)
  BY ONLY <1>6, <1>7, <1>9, <1>10, <1>11, <1>12, <1>13, <1>14 DEF Finds
<1> QED
  BY <1>15

(* What the call leaves of the reader.                                     *)
MovedTo(r, p, q) == DOMAIN q = ReaderFields /\ q.pos = p /\ q.lo = r.lo /\ q.hi = r.hi

(* The reader moves; its region stays.                                     *)
LEMMA ReaderMoved ==
    ASSUME NEW r, DOMAIN r = ReaderFields, NEW p, NEW s, NEW x, NEW q,
           q = [r EXCEPT !.pos = p, !.sound = s, !.items = x]
    PROVE  MovedTo(r, p, q)
<1>1. DOMAIN r = {"lo", "pos", "hi", "items", "sound"}
  BY DEF ReaderFields
<1>2. DOMAIN q = {"lo", "pos", "hi", "items", "sound"}
  BY ONLY <1>1, q = [r EXCEPT !.pos = p, !.sound = s, !.items = x], Zenon
<1>3. q.pos = p
  BY ONLY <1>1, q = [r EXCEPT !.pos = p, !.sound = s, !.items = x], Zenon
<1>4. q.lo = r.lo
  BY ONLY <1>1, q = [r EXCEPT !.pos = p, !.sound = s, !.items = x], Zenon
<1>5. q.hi = r.hi
  BY ONLY <1>1, q = [r EXCEPT !.pos = p, !.sound = s, !.items = x], Zenon
<1> QED
  BY <1>2, <1>3, <1>4, <1>5 DEF ReaderFields, MovedTo

(* What a reading call leaves.                                             *)
Leaves(op, room, r, a) ==
    /\ readers' # <<>> /\ Len(readers') = Len(readers)
    /\ readers'[Len(readers')].pos = a.pos /\ readers'[Len(readers')].lo = r.lo
    /\ last'.op = op /\ last'.ret = a.ret /\ last'.room = room /\ last'.value = a.value
    /\ last'.at = r.pos
    /\ UNCHANGED <<writer, frames, whole, der>>
    /\ ReadersOk(readers', Len(der))

(* Every reading call leaves that.                                         *)
LEMMA ReadLeaves ==
    ASSUME DerInv, NEW op \in Ops, NEW room, ReadStep(op, room),
           NEW r, NEW h, NEW c, NEW a, Finds(op, room, r, h, c, a)
    PROVE  Leaves(op, room, r, a)
<1> DEFINE n == Len(readers)
           sound == r.sound /\ a.ret = "OK" /\ ~ Query(op, room)
           x == IF sound THEN Tail(r.items) ELSE r.items
           q == [r EXCEPT !.pos = a.pos, !.sound = sound, !.items = x]
<1>1. /\ readers # <<>> /\ n \in 1 .. n /\ r = readers[n] /\ a = Read(op, room)
      /\ ReaderOk(r, Around(readers, Len(der), n))
      /\ a.pos \in Nat /\ r.pos <= a.pos /\ a.pos <= r.hi
  BY DEF Finds
<1>2. /\ readers' = [readers EXCEPT ![n] = q]
      /\ last' = [op |-> op, ret |-> a.ret, room |-> room, value |-> a.value, at |-> r.pos,
                  expect |-> IF r.sound THEN r.items ELSE <<>>]
      /\ UNCHANGED <<writer, frames, whole, der>>
  BY <1>1 DEF ReadStep
<1>q. DOMAIN q = ReaderFields /\ q.pos = a.pos /\ q.lo = r.lo /\ q.hi = r.hi
  <2>1. DOMAIN r = ReaderFields
    BY <1>1 DEF ReaderOk
  <2> DEFINE p == a.pos
  <2> HIDE DEF x, sound, p
  <2>2. q = [r EXCEPT !.pos = p, !.sound = sound, !.items = x]
    BY Zenon DEF p
  <2> HIDE DEF q
  <2>3. MovedTo(r, p, q)
    BY ONLY <2>1, <2>2, ReaderMoved, Zenon
  <2> QED
    BY <2>3 DEF MovedTo, p
<1> HIDE DEF q
<1>3. ReaderOk(q, Around(readers, Len(der), n))
  <2>1. /\ r.lo \in Nat /\ r.pos \in Nat /\ r.hi \in Nat /\ r.lo <= r.pos
        /\ r.hi <= Around(readers, Len(der), n)
    BY <1>1 DEF ReaderOk
  <2>2. r.lo <= a.pos
    BY ONLY <1>1, <2>1
  <2> QED
    BY <1>1, <1>q, <2>1, <2>2 DEF ReaderOk
<1>4. ReadersOk(readers, Len(der)) /\ IsList(readers) /\ n \in Nat
  BY ListLen DEF DerInv, ReadersInv, ReadersOk
<1>p. Len(readers) > 0
  BY <1>1, <1>4
<1>5. ReadersOk(readers', Len(der))
  <2>1. ReadersOk([readers EXCEPT ![Len(readers)] = q], Len(der))
    BY ONLY <1>3, <1>4, <1>p, ReadersSet
  <2> QED
    BY <1>2, <2>1
<1>6. ElementSet(readers, n, q)
  BY <1>1, <1>4, ListSet, SMTT(150)
<1>7. Len(readers') = n /\ readers'[n] = q /\ IsList(readers')
  BY <1>2, <1>6 DEF ElementSet
<1>8. readers' # <<>>
  <2>1. n > 0
    BY <1>1, <1>4
  <2> QED
    BY <1>7, <2>1, ListLen
<1>9. /\ last'.op = op /\ last'.ret = a.ret /\ last'.room = room /\ last'.value = a.value
      /\ last'.at = r.pos
  BY <1>2
<1> QED
  BY <1>2, <1>5, <1>7, <1>8, <1>9, <1>q DEF Leaves

(* A reading call keeps the invariant.                                     *)
LEMMA ReadStepInv ==
    ASSUME DerInv, NEW op \in Ops, NEW room, ReadStep(op, room)
    PROVE  DerInv'
<1>1. readers # <<>>
  BY DEF ReadStep, Reading
<1>2. PICK r, h, c, a : Finds(op, room, r, h, c, a)
  BY <1>1, ReadFinds
<1>3. Leaves(op, room, r, a)
  BY <1>2, ReadLeaves
<1>4. LastInv'
  <2>1. SUFFICES ASSUME op \in Containers, a.ret = "OK", a.value # <<>>
        PROVE  a.value \in Seq(Byte) /\ r.lo + Len(a.value) <= a.pos
    <3>1. /\ readers' # <<>> /\ readers'[Len(readers')].pos = a.pos
          /\ readers'[Len(readers')].lo = r.lo
          /\ last'.op = op /\ last'.ret = a.ret /\ last'.value = a.value
      BY <1>3 DEF Leaves
    <3> QED
      BY <3>1 DEF LastInv
  <2>2. /\ ReadIs(op, room, h, c, a) /\ TagRead(r, h)
        /\ ReaderOk(r, Around(readers, Len(der), Len(readers)))
        /\ h.ret = "OK" => c \in Seq(Byte) /\ Len(c) = h.len
    BY <1>2 DEF Finds
  <2>3. h.ret = "OK" /\ op # "skip" /\ Accepted(op, room, h, c, a)
    BY <2>1, <2>2 DEF ReadIs, Containers
  <2>4. a.pos = h.pos + h.len /\ Taken(op, room, h, c, a)
    BY <2>1, <2>3 DEF Accepted, Containers
  <2>5. /\ c \in Seq(Byte) /\ Len(c) = h.len /\ h.len \in Nat /\ h.pos \in Nat
        /\ r.pos <= h.pos /\ r.pos \in Nat /\ r.lo \in Nat /\ r.lo <= r.pos
    BY <2>2, <2>3 DEF TagRead, HeaderRead, ReaderOk
  <2>6. CASE op \in {"sequence", "set"}
    <3>1. a.value = c
      BY <2>4, <2>6 DEF Taken
    <3>2. r.lo + h.len <= h.pos + h.len
      BY ONLY <2>5
    <3> QED
      BY <2>4, <2>5, <3>1, <3>2
  <2>7. CASE op = "bits"
    <3>1. c # <<>> /\ a.value = Tail(c)
      BY <2>4, <2>7 DEF Taken
    <3>2. Tail(c) \in Seq(Byte) /\ Len(Tail(c)) = Len(c) - 1 /\ Len(c) > 0
      BY <2>5, <3>1
    <3>3. Len(a.value) = h.len - 1
      BY <2>5, <3>1, <3>2
    <3>4. r.lo + (h.len - 1) <= h.pos + h.len
      BY ONLY <2>5
    <3> QED
      BY <2>4, <3>1, <3>2, <3>3, <3>4
  <2> QED
    BY <2>1, <2>6, <2>7 DEF Containers
<1> QED
  BY <1>3, <1>4, OnlyReaders DEF Leaves

(* The invariant holds at first,                                           *)
LEMMA DerInitInv == Init => DerInv
<1>1. SUFFICES ASSUME Init PROVE DerInv
  OBVIOUS
<1>2. PICK room \in Rooms : writer = [room |-> room, out |-> <<>>, error |-> FALSE]
  BY <1>1 DEF Init
<1>3. IsWriter(writer) /\ writer.room = room /\ WriterPos(writer) = room /\ room \in Nat
  BY <1>2, FreshWriter
<1>4. frames = <<Frame("top", room)>> /\ der = <<>> /\ readers = <<>> /\ last = Nothing
  BY <1>1, <1>3 DEF Init
<1>5. FramesInv
  <2>1. room <= room
    BY <1>3
  <2> QED
    BY <1>3, <1>4, <2>1, TopFrames DEF FramesInv
<1>6. ReadersInv
  <2>1. <<>> \in Seq(Byte) /\ Len(<<>>) = 0 /\ <<>> \in Seq({})
    OBVIOUS
  <2>2. IsList(<<>>) /\ \A i \in 1 .. Len(<<>>) : FALSE
    BY <2>1 DEF IsList
  <2> QED
    BY <1>4, <2>1, <2>2 DEF ReadersInv, ReadersOk
<1>7. LastInv
  <2>1. last.op = "none"
    BY <1>4, WriteNames
  <2> QED
    BY <2>1 DEF LastInv, Containers
<1> QED
  BY <1>3, <1>5, <1>6, <1>7 DEF DerInv, WriterInv

(* and every step keeps it.                                                *)
LEMMA DerStepInv ==
    ASSUME DerInv, [Next]_vars
    PROVE  DerInv'
<1>1. ASSUME NEW v \in Writes, Write(v) \/ WriteNoMemory(v) PROVE DerInv'
  BY <1>1, WriteInv, WriteNoMemoryInv
<1>2. ASSUME NEW tag \in {"sequence", "set", "bits"}, Begin(tag) PROVE DerInv'
  BY <1>2, BeginInv
<1>3. ASSUME NEW i \in 2 .. Len(frames), NEW b \in Damage, WriteToHandle(i, b) PROVE DerInv'
  BY <1>3, WriteToHandleInv
<1>4. CASE End
  BY <1>4, EndInv
<1>5. CASE ReaderInit
  BY <1>5, ReaderInitInv
<1>6. CASE ReaderInitDamaged
  BY <1>6, ReaderInitDamagedInv
<1>7. ASSUME NEW op \in DOMAIN Asks \cup {"skip"}, NEW room \in ReadRooms \cup {NoBuffer},
             ReadStep(op, room)
      PROVE  DerInv'
  BY <1>7, ReadStepInv DEF Ops
<1>8. ASSUME NEW name \in {"null", "sequence"}, Expect(name) PROVE DerInv'
  BY <1>8, ExpectInv
<1>9. CASE Enter
  BY <1>9, EnterInv
<1>10. CASE Leave
  BY <1>10, LeaveInv
<1>11. CASE UNCHANGED vars
  BY <1>11 DEF vars, DerInv, WriterInv, FramesInv, ReadersInv, LastInv, WriterPos
<1> QED
  BY <1>1, <1>2, <1>3, <1>4, <1>5, <1>6, <1>7, <1>8, <1>9, <1>10, <1>11 DEF Next

(* TypeOK, for every buffer, every values written, every damage to the     *)
(* bytes and every sequence of calls: the writer stays in its buffer, and  *)
(* every reader in its region and its region in what is around it.         *)
THEOREM DerTypeOK == Spec => []TypeOK
<1>1. DerInv => TypeOK
  <2>1. SUFFICES ASSUME DerInv PROVE TypeOK
    OBVIOUS
  <2>2. writer \in Writer /\ Len(writer.out) <= writer.room
    <3>1. IsWriter(writer) /\ writer.room \in Rooms
      BY <2>1 DEF DerInv, WriterInv
    <3>2. /\ writer.out \in Seq(Byte) /\ writer.error \in BOOLEAN /\ Len(writer.out) <= writer.room
          /\ writer = [room |-> writer.room, out |-> writer.out, error |-> writer.error]
      BY <3>1, WriterFacts
    <3> QED
      BY <3>1, <3>2 DEF Writer
  <2>3. der \in Seq(Byte) /\ ReadersOk(readers, Len(der))
    BY <2>1 DEF DerInv, ReadersInv
  <2>4. DOMAIN readers = 1 .. Len(readers)
    BY <2>3, ListLen DEF ReadersOk
  <2>5. ASSUME NEW i \in DOMAIN readers
        PROVE  /\ readers[i].pos \in readers[i].lo .. readers[i].hi
               /\ readers[i].hi <= IF i = 1 THEN Len(der) ELSE readers[i - 1].pos
    <3>1. ReaderOk(readers[i], Around(readers, Len(der), i))
      BY <2>3, <2>4 DEF ReadersOk
    <3> QED
      BY <3>1 DEF ReaderOk, Around
  <2> QED
    BY <2>2, <2>3, <2>5 DEF TypeOK
<1> QED
  BY <1>1, DerInitInv, DerStepInv, PTL DEF Spec

-----------------------------------------------------------------------------
(* One encoding of a value.                                                *)

(* A writer that had room for all of it.                                   *)
Went(r, o) == Left(WriterOf(r, o, FALSE), "OK")

GoesOn(w, parts, n, g, i, j, r, o, b) ==
    /\ n \in Nat /\ i \in 1 .. n /\ j = i - 1 /\ r \in Nat
    /\ PartsPlaces(w, parts, n, g)
    /\ o \in Seq(Byte) /\ b \in Seq(Byte) /\ Len(b) + Len(o) <= r
    /\ g[j] = Went(r, o) /\ parts[i] = b

(* One more string there is room for.                                      *)
LEMMA WentOn ==
    ASSUME NEW w, NEW parts, NEW n, NEW g, NEW i, NEW j, NEW r, NEW o, NEW b,
           GoesOn(w, parts, n, g, i, j, r, o, b)
    PROVE  g[i] = Went(r, b \o o)
<1>1. g[i] = AfterPart(g[j], b)
  BY DEF GoesOn, PartsPlaces
<1> DEFINE x == Went(r, o)
<1>2. x.ret = "OK" /\ x.w = WriterOf(r, o, FALSE)
  BY ONLY LeftFields, Zenon DEF Went
<1>0. g[j] = x
  BY DEF GoesOn
<1> HIDE DEF x
<1>3. g[i] = WriteBytesRev(x.w, b)
  BY ONLY <1>0, <1>1, <1>2 DEF AfterPart
<1>4. WriteBytesRev(WriterOf(r, o, FALSE), b) = Left(WriterOf(r, b \o o, FALSE), "OK")
  <2>1. r \in Nat /\ o \in Seq(Byte) /\ b \in Seq(Byte) /\ Len(b) + Len(o) <= r
    BY DEF GoesOn
  <2> QED
    BY ONLY <2>1, WriteRoomy
<1> QED
  BY ONLY <1>2, <1>3, <1>4 DEF Went

(* What such a writer has written.                                         *)
LEMMA WentOut == ASSUME NEW r, NEW o PROVE Went(r, o).w.out = o
<1>1. Went(r, o).w = WriterOf(r, o, FALSE)
  BY ONLY LeftFields, Zenon DEF Went
<1>2. WriterOf(r, o, FALSE).out = o
  BY ONLY FlagFields, ZenonT(150)
<1> QED
  BY ONLY <1>1, <1>2

(* A writer with an empty buffer.                                          *)
Roomy(r) == [room |-> r, out |-> <<>>, error |-> FALSE]

(* Three strings there is room for.                                        *)
LEMMA ThreeParts ==
    ASSUME NEW r \in Nat, NEW a \in Seq(Byte), NEW b \in Seq(Byte), NEW c \in Seq(Byte),
           Len(c) + Len(b) + Len(a) <= r
    PROVE  WriteParts(Roomy(r), <<a, b, c>>).w.out = c \o (b \o a)
<1> DEFINE parts == <<a, b, c>>
           e == <<>>
           oa == a \o e
           ob == b \o oa
           oc == c \o ob
           w == Roomy(r)
<1>1. e \in Seq(Byte) /\ Len(e) = 0 /\ Len(a) \in Nat /\ Len(b) \in Nat /\ Len(c) \in Nat
  OBVIOUS
<1>2. oa = a
  OBVIOUS
<1>3. /\ ob \in Seq(Byte) /\ Len(ob) = Len(b) + Len(a) /\ ob = b \o a
  BY <1>2, Joined
<1>4. Len(parts) = 3 /\ parts[1] = a /\ parts[2] = b /\ parts[3] = c
  OBVIOUS
<1>5. Left(w, "OK") = Went(r, e)
  BY DEF Went, Left, Roomy, WriterOf
<1> HIDE DEF parts, e, w, oa, ob, oc
<1>6. PICK g : PartsRun(w, parts, 3, g) /\ WriteParts(w, parts) = g[3]
  <2>1. Len(parts) \in Nat
    BY <1>4
  <2>2. \E g : PartsRun(w, parts, Len(parts), g) /\ WriteParts(w, parts) = g[Len(parts)]
    BY ONLY <2>1, PartsAre
  <2> QED
    BY ONLY <2>2, <1>4
<1>7. 3 \in Nat
  OBVIOUS
<1>8. PartsPlaces(w, parts, 3, g)
  BY ONLY <1>6, <1>7, PartsRunAt
<1>9. g[0] = Went(r, e)
  BY ONLY <1>5, <1>8 DEF PartsPlaces
<1>10. g[1] = Went(r, oa)
  <2>1. Len(a) + Len(e) <= r /\ e \in Seq(Byte)
    BY <1>1
  <2>2. 1 \in 1 .. 3 /\ 0 = 1 - 1
    OBVIOUS
  <2>3. GoesOn(w, parts, 3, g, 1, 0, r, e, a)
    BY ONLY <2>1, <2>2, <1>4, <1>7, <1>8, <1>9, r \in Nat, a \in Seq(Byte) DEF GoesOn
  <2> QED
    BY ONLY <2>3, WentOn DEF oa
<1>11. g[2] = Went(r, ob)
  <2>1. Len(b) + Len(oa) <= r /\ oa \in Seq(Byte)
    BY <1>1, <1>2
  <2>2. 2 \in 1 .. 3 /\ 1 = 2 - 1
    OBVIOUS
  <2>3. GoesOn(w, parts, 3, g, 2, 1, r, oa, b)
    BY ONLY <2>1, <2>2, <1>4, <1>7, <1>8, <1>10, r \in Nat, b \in Seq(Byte) DEF GoesOn
  <2> QED
    BY ONLY <2>3, WentOn DEF ob
<1>12. g[3] = Went(r, oc)
  <2>1. Len(c) + Len(ob) <= r /\ ob \in Seq(Byte)
    BY <1>1, <1>3
  <2>2. 3 \in 1 .. 3 /\ 2 = 3 - 1
    OBVIOUS
  <2>3. GoesOn(w, parts, 3, g, 3, 2, r, ob, c)
    BY ONLY <2>1, <2>2, <1>4, <1>7, <1>8, <1>11, r \in Nat, c \in Seq(Byte) DEF GoesOn
  <2> QED
    BY ONLY <2>3, WentOn DEF oc
<1>13. g[3].w.out = oc
  BY ONLY <1>12, WentOut
<1> QED
  BY <1>3, <1>6, <1>13 DEF w, parts, oc

(* Four.                                                                   *)
FourFit(r, a, b, c, d) ==
    /\ r \in Nat /\ a \in Seq(Byte) /\ b \in Seq(Byte) /\ c \in Seq(Byte) /\ d \in Seq(Byte)
    /\ Len(d) + Len(c) + Len(b) + Len(a) <= r

FourWritten(r, a, b, c, d) ==
    WriteParts(Roomy(r), <<a, b, c, d>>).w.out = d \o (c \o (b \o a))

(* Four strings there is room for come out in front of each other.         *)
LEMMA FourParts ==
    ASSUME NEW r, NEW a, NEW b, NEW c, NEW d, FourFit(r, a, b, c, d)
    PROVE  FourWritten(r, a, b, c, d)
<1> DEFINE parts == <<a, b, c, d>>
           e == <<>>
           oa == a \o e
           ob == b \o oa
           oc == c \o ob
           od == d \o oc
           w == Roomy(r)
<1>0. /\ r \in Nat /\ a \in Seq(Byte) /\ b \in Seq(Byte) /\ c \in Seq(Byte) /\ d \in Seq(Byte)
      /\ Len(d) + Len(c) + Len(b) + Len(a) <= r
  BY DEF FourFit
<1>1. /\ e \in Seq(Byte) /\ Len(e) = 0 /\ Len(a) \in Nat /\ Len(b) \in Nat /\ Len(c) \in Nat
      /\ Len(d) \in Nat
  BY <1>0
<1>2. oa = a
  BY <1>0
<1>3. /\ ob \in Seq(Byte) /\ Len(ob) = Len(b) + Len(a) /\ ob = b \o a
  BY <1>0, <1>2, Joined
<1>c. oc \in Seq(Byte) /\ Len(oc) = Len(c) + Len(ob)
  <2> HIDE DEF ob
  <2> QED
    BY <1>0, <1>3, Joined
<1>4. Len(parts) = 4 /\ parts[1] = a /\ parts[2] = b /\ parts[3] = c /\ parts[4] = d
  OBVIOUS
<1>5. Left(w, "OK") = Went(r, e)
  BY DEF Went, Left, Roomy, WriterOf
<1> HIDE DEF parts, e, w, oa, ob, oc, od
<1>6. PICK g : PartsRun(w, parts, 4, g) /\ WriteParts(w, parts) = g[4]
  <2>1. Len(parts) \in Nat
    BY <1>4
  <2>2. \E g : PartsRun(w, parts, Len(parts), g) /\ WriteParts(w, parts) = g[Len(parts)]
    BY ONLY <2>1, PartsAre
  <2> QED
    BY ONLY <2>2, <1>4
<1>7. 4 \in Nat
  OBVIOUS
<1>8. PartsPlaces(w, parts, 4, g)
  BY ONLY <1>6, <1>7, PartsRunAt
<1>9. g[0] = Went(r, e)
  BY ONLY <1>5, <1>8 DEF PartsPlaces
<1>10. g[1] = Went(r, oa)
  <2>1. Len(a) + Len(e) <= r /\ e \in Seq(Byte)
    BY <1>0, <1>1
  <2>2. 1 \in 1 .. 4 /\ 0 = 1 - 1
    OBVIOUS
  <2>3. GoesOn(w, parts, 4, g, 1, 0, r, e, a)
    BY ONLY <2>1, <2>2, <1>4, <1>7, <1>8, <1>9, <1>0 DEF GoesOn
  <2> QED
    BY ONLY <2>3, WentOn DEF oa
<1>11. g[2] = Went(r, ob)
  <2>1. Len(b) + Len(oa) <= r /\ oa \in Seq(Byte)
    BY <1>0, <1>1, <1>2
  <2>2. 2 \in 1 .. 4 /\ 1 = 2 - 1
    OBVIOUS
  <2>3. GoesOn(w, parts, 4, g, 2, 1, r, oa, b)
    BY ONLY <2>1, <2>2, <1>4, <1>7, <1>8, <1>10, <1>0 DEF GoesOn
  <2> QED
    BY ONLY <2>3, WentOn DEF ob
<1>12. g[3] = Went(r, oc)
  <2>1. Len(c) + Len(ob) <= r /\ ob \in Seq(Byte)
    BY <1>0, <1>1, <1>3
  <2>2. 3 \in 1 .. 4 /\ 2 = 3 - 1
    OBVIOUS
  <2>3. GoesOn(w, parts, 4, g, 3, 2, r, ob, c)
    BY ONLY <2>1, <2>2, <1>4, <1>7, <1>8, <1>11, <1>0 DEF GoesOn
  <2> QED
    BY ONLY <2>3, WentOn DEF oc
<1>13. g[4] = Went(r, od)
  <2>1. Len(d) + Len(oc) <= r /\ oc \in Seq(Byte)
    BY <1>0, <1>1, <1>3, <1>c
  <2>2. 4 \in 1 .. 4 /\ 3 = 4 - 1
    OBVIOUS
  <2>3. GoesOn(w, parts, 4, g, 4, 3, r, oc, d)
    BY ONLY <2>1, <2>2, <1>4, <1>7, <1>8, <1>12, <1>0 DEF GoesOn
  <2> QED
    BY ONLY <2>3, WentOn DEF od
<1>14. g[4].w.out = od
  BY ONLY <1>13, WentOut
<1> QED
  BY <1>3, <1>6, <1>14 DEF w, parts, oc, od, FourWritten

(* A content with its header, and a number with a sign byte, in a buffer   *)
(* there is room in.                                                       *)
LEMMA TwoListed ==
    ASSUME NEW S, NEW a \in S, NEW b \in S, NEW c \in S
    PROVE  <<a>> \o <<b, c>> = <<a, b, c>>
<1> DEFINE s == <<a>> \o <<b, c>>
<1>1. /\ s \in Seq(S) /\ Len(s) = 3
      /\ s[1] = a /\ s[2] = b /\ s[3] = c
  OBVIOUS
<1> HIDE DEF s
<1>2. s = <<a, b, c>>
  BY <1>1
<1> QED
  BY <1>2 DEF s

(* Two lists of two.                                                       *)
LEMMA FourListed ==
    ASSUME NEW S, NEW a \in S, NEW b \in S, NEW c \in S, NEW d \in S
    PROVE  <<a, b>> \o <<c, d>> = <<a, b, c, d>>
<1> DEFINE s == <<a, b>> \o <<c, d>>
<1>1. /\ s \in Seq(S) /\ Len(s) = 4
      /\ s[1] = a /\ s[2] = b /\ s[3] = c /\ s[4] = d
  OBVIOUS
<1> HIDE DEF s
<1>2. s = <<a, b, c, d>>
  BY <1>1
<1> QED
  BY <1>2 DEF s

(* A content behind its header.                                            *)
LEMMA TlvWritten ==
    ASSUME NEW r \in Nat, NEW c \in Seq(Byte), NEW tag \in Byte, NEW len,
           LengthOctets(len) \in Seq(Byte), 1 + Len(LengthOctets(len)) + Len(c) <= r
    PROVE  WriteParts(Roomy(r), <<c>> \o Header(tag, len)).w.out = <<tag>> \o (LengthOctets(len) \o c)
<1> DEFINE l == LengthOctets(len)
           t == <<tag>>
<1>1. t \in Seq(Byte) /\ Len(t) = 1 /\ l \in Seq(Byte)
  BY Short
<1>2. <<c>> \o Header(tag, len) = <<c, l, t>>
  <2>1. Header(tag, len) = <<l, t>>
    BY DEF Header
  <2> HIDE DEF l, t
  <2> QED
    BY ONLY <2>1, <1>1, c \in Seq(Byte), TwoListed
<1>3. Len(t) + Len(l) + Len(c) <= r
  BY <1>1
<1> HIDE DEF l, t
<1>4. WriteParts(Roomy(r), <<c, l, t>>).w.out = t \o (l \o c)
  BY ONLY <1>1, <1>3, r \in Nat, c \in Seq(Byte), ThreeParts, ZenonT(60)
<1> QED
  BY <1>2, <1>4 DEF l, t

SignedFit(r, c, z, tag, len) ==
    /\ r \in Nat /\ c \in Seq(Byte) /\ z \in Seq(Byte) /\ tag \in Byte
    /\ LengthOctets(len) \in Seq(Byte) /\ 1 + Len(LengthOctets(len)) + Len(z) + Len(c) <= r

SignedOut(r, c, z, tag, len) ==
    WriteParts(Roomy(r), <<c, z>> \o Header(tag, len)).w.out
        = <<tag>> \o (LengthOctets(len) \o (z \o c))

(* A sign byte and a content behind their header.                          *)
LEMMA SignedWritten ==
    ASSUME NEW r, NEW c, NEW z, NEW tag, NEW len, SignedFit(r, c, z, tag, len)
    PROVE  SignedOut(r, c, z, tag, len)
<1> DEFINE l == LengthOctets(len)
           t == <<tag>>
<1>0. /\ r \in Nat /\ c \in Seq(Byte) /\ z \in Seq(Byte) /\ tag \in Byte
      /\ l \in Seq(Byte) /\ 1 + Len(l) + Len(z) + Len(c) <= r
  BY DEF SignedFit
<1>1. t \in Seq(Byte) /\ Len(t) = 1 /\ l \in Seq(Byte)
  BY <1>0, Short
<1>2. <<c, z>> \o Header(tag, len) = <<c, z, l, t>>
  <2>1. Header(tag, len) = <<l, t>>
    BY DEF Header
  <2> HIDE DEF l, t
  <2> QED
    BY ONLY <2>1, <1>1, <1>0, FourListed
<1>3. Len(t) + Len(l) + Len(z) + Len(c) <= r
  BY <1>0, <1>1
<1> HIDE DEF l, t
<1>4. WriteParts(Roomy(r), <<c, z, l, t>>).w.out = t \o (l \o (z \o c))
  <2>1. FourFit(r, c, z, l, t)
    BY <1>0, <1>1, <1>3 DEF FourFit
  <2>2. FourWritten(r, c, z, l, t)
    BY ONLY <2>1, FourParts
  <2> QED
    BY ONLY <2>2 DEF FourWritten
<1> QED
  BY <1>2, <1>4 DEF l, t, SignedOut

(* A string with no leading zero is the shortest for its number.           *)
LEMMA Kept ==
    ASSUME NEW s \in Seq(Byte), Len(s) > 0, s[1] # 0
    PROVE  U64Octets(FromBE(s)) = s /\ Stripped(s) = s
<1>1. Width(FromBE(s)) = Len(s) /\ FromBE(s) # 0 /\ ToBE(FromBE(s), Len(s)) = s
  BY FromBEWidth, ToBEFromBE
<1> QED
  BY ONLY <1>1 DEF U64Octets, Stripped

(* A minimal form of a number that is not negative is what the writer has  *)
(* for it: alone, or behind a sign byte of its own.                        *)
Again(c) == IntegerParts(U64Octets(FromBE(c)))

Signed(c, t, z) ==
    /\ t \in Seq(Byte) /\ z \in Seq(Byte) /\ Len(c) = Len(z) + Len(t) /\ c = z \o t
    /\ Again(c) = <<t, z>> \o Header(Tag.integer, Len(c))

(* The minimal form is one of the two.                                     *)
LEMMA AgainInt ==
    ASSUME NEW c \in Seq(Byte), c # <<>>, MinimalInt(c), ~ (c[1] >= Half)
    PROVE  \/ Again(c) = <<c>> \o Header(Tag.integer, Len(c))
           \/ \E t, z : Signed(c, t, z)
<1>0. /\ Half \in Nat /\ 0 < Half /\ 0 \in Byte /\ Base \in Nat
      /\ Len(c) \in Nat /\ Len(c) > 0
  BY Sizes
<1>1. CASE c[1] # 0
  <2>1. U64Octets(FromBE(c)) = c /\ Stripped(c) = c
    BY <1>0, <1>1, Kept
  <2>2. Again(c) = <<c>> \o Header(Tag.integer, Len(c))
    BY ONLY <2>1, ~ (c[1] >= Half) DEF Again, IntegerParts
  <2> QED
    BY <2>2
<1>2. CASE c[1] = 0 /\ Len(c) = 1
  <2>1. Tail(c) \in Seq(Byte) /\ Len(Tail(c)) = 0
    BY <1>0, <1>2
  <2>2. FromBE(Tail(c)) \in Nat /\ FromBE(Tail(c)) < Power(0)
    BY <2>1, FromBEBelow
  <2>3. Power(0) = 1
    BY PowerStep
  <2>4. FromBE(c) = 0
    BY <1>0, <1>2, <2>2, <2>3, FromBETail
  <2>5. c = <<0>>
    <3>1. <<0>> \in Seq(Byte) /\ Len(<<0>>) = 1 /\ <<0>>[1] = 0
      BY ONLY <1>0, Short
    <3> DEFINE z == <<0>>
    <3> HIDE DEF z
    <3>2. c = z
      BY <1>2, <3>1, SeqEqual DEF z
    <3> QED
      BY <3>2 DEF z
  <2>6. U64Octets(FromBE(c)) = c /\ Stripped(c) = c
    BY ONLY <2>4, <2>5 DEF U64Octets, Stripped
  <2>7. Again(c) = <<c>> \o Header(Tag.integer, Len(c))
    BY ONLY <2>6, ~ (c[1] >= Half) DEF Again, IntegerParts
  <2> QED
    BY <2>7
<1>3. CASE c[1] = 0 /\ Len(c) > 1
  <2> DEFINE t == Tail(c)
             z == <<0>>
  <2>1. t \in Seq(Byte) /\ Len(c) = 1 + Len(t) /\ Len(t) > 0 /\ t[1] = c[2] /\ Len(t) \in Nat
    BY <1>3
  <2>2. ~ (c[2] < Half) /\ c[2] \in Byte
    BY <1>3 DEF MinimalInt
  <2>3. c[2] \in Nat
    BY <2>2, ByteIs
  <2>4. t[1] # 0 /\ t[1] >= Half
    BY ONLY <1>0, <2>1, <2>2, <2>3
  <2>5. FromBE(t) = FromBE(c)
    BY <1>0, <1>3, FromBETail
  <2>6. c = z \o t
    BY <1>3
  <2>z. z \in Seq(Byte) /\ Len(z) = 1
    BY ONLY <1>0, Short
  <2> HIDE DEF t
  <2>7. U64Octets(FromBE(t)) = t /\ Stripped(t) = t
    BY <2>1, <2>4, Kept
  <2>8. Again(c) = <<t, z>> \o Header(Tag.integer, Len(t) + 1)
    BY ONLY <2>4, <2>5, <2>7 DEF Again, IntegerParts, z
  <2> HIDE DEF z
  <2>9. Len(t) + 1 = Len(c) /\ Len(c) = Len(z) + Len(t)
    BY ONLY <2>1, <2>z
  <2>10. Signed(c, t, z)
    BY ONLY <2>1, <2>6, <2>8, <2>9, <2>z DEF Signed
  <2> QED
    BY <2>10
<1> QED
  BY <1>0, <1>1, <1>2, <1>3

(* An element that was read whole: its tag, its length and its content.    *)
Whole(tag, p, e, c) ==
    /\ tag \in Byte /\ c \in Seq(Byte) /\ Len(c) \in Nat /\ LengthOctets(Len(c)) \in Seq(Byte)
    /\ Len(der) \in Nat /\ 1 + Len(LengthOctets(Len(c))) + Len(c) <= 10 * Len(der) + 10
    /\ SubSeq(der, p + 1, e) = <<tag>> \o (LengthOctets(Len(c)) \o c)

(* What an accepting call passes is a whole element.                       *)
LEMMA WholeElement ==
    ASSUME NEW op \in Ops, op # "skip", NEW room, NEW r, NEW h, NEW c, NEW a,
           Finds(op, room, r, h, c, a), a.ret = "OK", a.pos = h.pos + h.len
    PROVE  Whole(Tag[Asks[op]], r.pos, a.pos, c)
<1> DEFINE p == r.pos
           q == h.pos
           e == a.pos
           n == h.len
           l == LengthOctets(n)
           t == <<der[p + 1]>>
<1>1. /\ ReadIs(op, room, h, c, a) /\ TagRead(r, h) /\ Region(r)
      /\ c = SubSeq(der, q + 1, q + n)
      /\ h.ret = "OK" => c \in Seq(Byte) /\ Len(c) = n /\ q + n <= Len(der)
  BY DEF Finds
<1>2. h.ret = "OK" /\ h.tag = Tag[Asks[op]]
  BY <1>1 DEF ReadIs
<1>3. /\ der \in Seq(Byte) /\ Len(der) \in Nat /\ p \in Nat /\ q \in Nat /\ n \in Nat
      /\ p + 2 <= q /\ q + n <= Len(der) /\ h.tag = der[p + 1]
      /\ SubSeq(der, p + 2, q) = l
  <2>1. der \in Seq(Byte) /\ p \in Nat /\ Len(der) \in Nat
    BY ONLY <1>1 DEF Region
  <2>2. /\ q \in Nat /\ n \in Nat /\ p + 2 <= q /\ h.tag = der[p + 1]
        /\ SubSeq(der, p + 2, q) = l
    BY ONLY <1>1, <1>2 DEF TagRead, HeaderRead
  <2> QED
    BY <1>1, <1>2, <2>1, <2>2
<1>4. c \in Seq(Byte) /\ Len(c) = n
  BY <1>1, <1>2
<1>c. c = SubSeq(der, q + 1, e) /\ e = q + n
  BY <1>1
<1> HIDE DEF p, q, e, n, l, t
<1>5. /\ p + 1 \in Nat \ {0} /\ p + 2 \in Nat \ {0} /\ e \in Nat /\ p + 1 \in Nat
      /\ p + 2 <= q + 1 /\ q <= e /\ e <= Len(der) /\ q <= Len(der)
      /\ p + 1 <= (p + 1) + 1 /\ p + 1 <= e /\ (p + 1) + 1 = p + 2
      /\ p + 1 \in 1 .. Len(der) /\ (q + 1) - (p + 2) <= Len(der)
      /\ 1 + ((q + 1) - (p + 2)) + n <= Len(der)
  BY ONLY <1>3, <1>c
<1>6. l \in Seq(Byte) /\ Len(l) = (q + 1) - (p + 2)
  BY ONLY <1>3, <1>5, Cut
<1>7. l \o c = SubSeq(der, p + 2, e)
  BY ONLY <1>3, <1>5, <1>c, CutJoin, ZenonT(150)
<1>8. SubSeq(der, p + 1, p + 1) \o SubSeq(der, p + 2, e) = SubSeq(der, p + 1, e)
  <2>1. SubSeq(der, p + 1, p + 1) \o SubSeq(der, (p + 1) + 1, e) = SubSeq(der, p + 1, e)
    BY ONLY <1>3, <1>5, CutJoin
  <2> QED
    BY ONLY <1>5, <2>1
<1>9. SubSeq(der, p + 1, p + 1) = t
  BY ONLY <1>3, <1>5, CutOne DEF t
<1>10. SubSeq(der, p + 1, e) = t \o (l \o c)
  BY ONLY <1>7, <1>8, <1>9
<1>11. der[p + 1] \in Byte
  BY ONLY <1>3, <1>5
<1>12. 1 + Len(l) + Len(c) <= 10 * Len(der) + 10
  BY ONLY <1>3, <1>4, <1>5, <1>6
<1>13. l = LengthOctets(Len(c)) /\ t = <<Tag[Asks[op]]>>
  BY ONLY <1>2, <1>3, <1>4 DEF l, t
<1>14. Tag[Asks[op]] \in Byte /\ Len(c) \in Nat
  BY ONLY <1>2, <1>3, <1>4, <1>11
<1>15. Whole(Tag[Asks[op]], p, e, c)
  BY ONLY <1>3, <1>4, <1>6, <1>10, <1>12, <1>13, <1>14 DEF Whole
<1> QED
  BY <1>15 DEF p, e

(* What the writer has for a value that was read.                          *)
Strict == {"null", "u64", "oid", "utf8", "octets", "sequence", "set"}

AgainOf(op, value) ==
    IF op = "u64" THEN IntegerParts(U64Octets(value[1]))
    ELSE <<value>> \o Header(Tag[Asks[op]], Len(value))

(* The writer has for the value read the very bytes it was read from.      *)
LEMMA AgainWritten ==
    ASSUME NEW op \in Strict, NEW room, NEW r, NEW h, NEW c, NEW a,
           Finds(op, room, r, h, c, a), a.ret = "OK", ~ Query(op, room)
    PROVE  WriteParts(Roomy(10 * Len(der) + 10), AgainOf(op, a.value)).w.out
                = SubSeq(der, r.pos + 1, a.pos)
<1> DEFINE tag == Tag[Asks[op]]
           m == 10 * Len(der) + 10
           l == LengthOctets(Len(c))
<1>0. op \in Ops /\ op # "skip"
  BY OpsAre DEF Strict
<1>1. /\ h.ret = "OK" /\ Taken(op, room, h, c, a) /\ a.pos = h.pos + h.len
      /\ c \in Seq(Byte) /\ Len(c) = h.len
  <2>1. ReadIs(op, room, h, c, a) /\ (h.ret = "OK" => c \in Seq(Byte) /\ Len(c) = h.len)
    BY DEF Finds
  <2>2. h.ret = "OK" /\ Accepted(op, room, h, c, a)
    BY <1>0, <2>1 DEF ReadIs
  <2>3. \/ op \in {"sequence", "set", "bits", "null", "u64"}
        \/ op \in {"oid", "utf8", "octets"} /\ room # NoBuffer
    <3>1. op \in {"sequence", "set", "bits", "null", "u64"} \/ op \in {"oid", "utf8", "octets"}
      BY ONLY op \in Strict DEF Strict
    <3>2. op \in {"oid", "utf8", "octets"} => op \in Sized
      BY ONLY DEF Sized
    <3>3. op \in Sized => room # NoBuffer
      BY ONLY ~ Query(op, room) DEF Query
    <3> QED
      BY ONLY <3>1, <3>2, <3>3
  <2> QED
    BY <2>1, <2>2, <2>3 DEF Accepted
<1>2. Whole(tag, r.pos, a.pos, c)
  BY <1>0, <1>1, WholeElement
<1> HIDE DEF tag, m, l
<1>3. /\ tag \in Byte /\ c \in Seq(Byte) /\ Len(c) \in Nat /\ l \in Seq(Byte)
      /\ Len(der) \in Nat /\ 1 + Len(l) + Len(c) <= m
      /\ SubSeq(der, r.pos + 1, a.pos) = <<tag>> \o (l \o c)
  BY <1>2 DEF Whole, m, l
<1>4. m \in Nat
  BY <1>3 DEF m
<1>5. WriteParts(Roomy(m), <<c>> \o Header(tag, Len(c))).w.out = <<tag>> \o (l \o c)
  BY ONLY <1>3, <1>4, TlvWritten, ZenonT(150) DEF l
<1>6. CASE op # "u64"
  <2>1. a.value = c
    <3>1. CASE op = "null"
      <4>1. Len(c) = 0 /\ a.value = <<>>
        BY <1>1, <3>1 DEF Taken
      <4> QED
        BY <1>1, <4>1
    <3>2. CASE op \in {"sequence", "set"}
      BY <1>1, <3>2 DEF Taken
    <3>3. CASE op \in {"oid", "utf8", "octets"}
      BY <1>1, <3>3 DEF Taken, Query, Sized
    <3> QED
      BY <1>6, <3>1, <3>2, <3>3 DEF Strict
  <2>2. AgainOf(op, a.value) = <<c>> \o Header(tag, Len(c))
    BY ONLY <1>6, <2>1 DEF AgainOf, tag
  <2> QED
    BY ONLY <1>3, <1>5, <2>2 DEF m
<1>7. CASE op = "u64"
  <2>1. c # <<>> /\ MinimalInt(c) /\ ~ (c[1] >= Half) /\ a.value = <<FromBE(c)>>
    BY <1>1, <1>7 DEF Taken
  <2>2. AgainOf(op, a.value) = Again(c)
    <3>1. a.value[1] = FromBE(c)
      BY <2>1
    <3> QED
      BY ONLY <1>7, <3>1 DEF AgainOf, Again
  <2>3. tag = Tag.integer
    BY <1>7 DEF Asks, tag
  <2>4. CASE Again(c) = <<c>> \o Header(Tag.integer, Len(c))
    BY ONLY <1>3, <1>5, <2>2, <2>3, <2>4 DEF m
  <2>5. ASSUME NEW t, NEW z, Signed(c, t, z)
        PROVE  WriteParts(Roomy(m), AgainOf(op, a.value)).w.out = SubSeq(der, r.pos + 1, a.pos)
    <3>1. /\ t \in Seq(Byte) /\ z \in Seq(Byte) /\ Len(c) = Len(z) + Len(t) /\ c = z \o t
          /\ AgainOf(op, a.value) = <<t, z>> \o Header(tag, Len(c))
      BY ONLY <2>2, <2>3, <2>5 DEF Signed
    <3>2. Len(l) \in Nat /\ Len(z) \in Nat /\ Len(t) \in Nat
      BY ONLY <1>3, <3>1
    <3>3. 1 + Len(l) + Len(z) + Len(t) <= m
      BY ONLY <1>3, <1>4, <3>1, <3>2
    <3>4. SignedFit(m, t, z, tag, Len(c))
      BY ONLY <1>3, <1>4, <3>1, <3>3 DEF SignedFit, l
    <3>5. SignedOut(m, t, z, tag, Len(c))
      BY ONLY <3>4, SignedWritten
    <3>6. WriteParts(Roomy(m), <<t, z>> \o Header(tag, Len(c))).w.out = <<tag>> \o (l \o (z \o t))
      BY ONLY <3>5 DEF SignedOut, l
    <3> QED
      BY ONLY <1>3, <3>1, <3>6
  <2> QED
    BY <1>1, <2>1, <2>4, <2>5, AgainInt DEF m
<1> QED
  BY <1>6, <1>7

(* A call that is not a strict reading one says nothing of the bytes.      *)
LEMMA NotStrict == ASSUME last'.op \notin Strict PROVE Canonical'
BY DEF Canonical, Strict

(* A writing call reads nothing,                                           *)
LEMMA WrittenCanonical ==
    ASSUME NEW res, NEW fs, Wrote(res, fs)
    PROVE  Canonical'
<1>1. last'.op = "write"
  BY WriteNames DEF Wrote
<1> QED
  BY <1>1, NotStrict DEF Strict

(* a reading call gets what the writer would write,                        *)
LEMMA ReadCanonical ==
    ASSUME DerInv, NEW op \in Ops, NEW room, ReadStep(op, room)
    PROVE  Canonical'
<1>1. readers # <<>>
  BY DEF ReadStep, Reading
<1>2. PICK r, h, c, a : Finds(op, room, r, h, c, a)
  BY <1>1, ReadFinds
<1>3. Leaves(op, room, r, a)
  BY <1>2, ReadLeaves
<1>4. /\ readers'[Len(readers')].pos = a.pos /\ der' = der
      /\ last'.op = op /\ last'.ret = a.ret /\ last'.room = room /\ last'.value = a.value
      /\ last'.at = r.pos
  BY <1>3, SMTT(60) DEF Leaves
<1>5. SUFFICES ASSUME op \in Strict, a.ret = "OK", ~ Query(op, room)
      PROVE  WriteParts(Roomy(10 * Len(der) + 10), AgainOf(op, a.value)).w.out
                = SubSeq(der, r.pos + 1, a.pos)
  BY <1>4 DEF Canonical, Strict, Roomy, AgainOf
<1> QED
  BY <1>2, <1>5, AgainWritten

(* and looking at a tag passes nothing.                                    *)
LEMMA ExpectCanonical ==
    ASSUME DerInv, NEW name, Expect(name)
    PROVE  Canonical'
<1> DEFINE n == Len(readers)
           p == readers[n].pos
<1>1. readers # <<>> /\ readers' = readers /\ last'.at = p
  BY DEF Expect, Reading
<1>2. ReadersOk(readers, Len(der)) /\ n \in Nat
  BY ListLen DEF DerInv, ReadersInv, ReadersOk
<1>3. n > 0 /\ n \in 1 .. n
  BY <1>1, <1>2, ListLen DEF ReadersOk
<1>4. p \in Nat
  BY <1>2, <1>3 DEF ReadersOk, ReaderOk
<1>5. ~ (readers'[Len(readers')].pos > last'.at)
  BY <1>1, <1>4
<1> QED
  BY <1>5 DEF Canonical

(* Every step keeps Canonical.                                             *)
LEMMA CanonicalStep ==
    ASSUME DerInv, Canonical, [Next]_vars
    PROVE  Canonical'
<1>1. ASSUME NEW v \in Writes, Write(v) \/ WriteNoMemory(v) PROVE Canonical'
  BY <1>1, WrittenCanonical DEF Write, WriteNoMemory
<1>2. ASSUME NEW tag \in {"sequence", "set", "bits"}, Begin(tag) PROVE Canonical'
  BY <1>2, WrittenCanonical DEF Begin
<1>3. ASSUME NEW i, NEW b, WriteToHandle(i, b) PROVE Canonical'
  <2>1. last'.op = "write"
    BY <1>3, WriteNames DEF WriteToHandle
  <2> QED
    BY <2>1, NotStrict DEF Strict
<1>4. CASE End
  <2>1. last'.op = "write"
    BY <1>4, WriteNames DEF End, Wrote
  <2> QED
    BY <2>1, NotStrict DEF Strict
<1>5. ASSUME last' = Nothing PROVE Canonical'
  <2>1. last'.op = "none"
    BY <1>5, WriteNames
  <2> QED
    BY <2>1, NotStrict DEF Strict
<1>6. CASE ReaderInit \/ ReaderInitDamaged
  BY <1>5, <1>6 DEF ReaderInit, ReaderInitDamaged, WriterDone
<1>7. ASSUME NEW op \in DOMAIN Asks \cup {"skip"}, NEW room \in ReadRooms \cup {NoBuffer},
             ReadStep(op, room)
      PROVE  Canonical'
  BY <1>7, ReadCanonical DEF Ops
<1>8. ASSUME NEW name \in {"null", "sequence"}, Expect(name) PROVE Canonical'
  BY <1>8, ExpectCanonical
<1>9. CASE Enter \/ Leave
  BY <1>5, <1>9, SMTT(60) DEF Enter, Leave
<1>10. CASE UNCHANGED vars
  BY <1>10 DEF vars, Canonical
<1> QED
  BY <1>1, <1>2, <1>3, <1>4, <1>6, <1>7, <1>8, <1>9, <1>10 DEF Next

(* Canonical, for every buffer, every values written, every damage to the  *)
(* bytes and every sequence of calls: DER has one encoding of a value, and *)
(* the reader accepts no other.                                            *)
THEOREM DerCanonical == Spec => []Canonical
<1>1. Init => Canonical
  BY DEF Init, Canonical
<1>2. DerInv /\ Canonical /\ [Next]_vars => (DerInv /\ Canonical)'
  BY DerStepInv, CanonicalStep
<1> QED
  BY <1>1, <1>2, DerInitInv, PTL DEF Spec

(* A quotient divided again.                                               *)
LEMMA DivDiv ==
    ASSUME NEW n \in Nat, NEW p \in Nat \ {0}, NEW b \in Nat \ {0}
    PROVE  n \div (b * p) = (n \div p) \div b
<1> DEFINE q == n \div p
           r == n % p
<1>1. q \in Nat /\ r \in Nat /\ r < p /\ n = q * p + r
  BY Data!DivModSplit
<1> HIDE DEF q, r
<1> DEFINE u == q \div b
           v == q % b
<1>2. u \in Nat /\ v \in Nat /\ v < b /\ q = u * b + v
  BY <1>1, Data!DivModSplit
<1> HIDE DEF u, v
<1> DEFINE z == v * p + r
           d == b * p
<1>3. z \in Nat /\ z < p * b
  <2>1. v * p + r \in Nat /\ r * 1 = r
    BY <1>1, <1>2
  <2>2. v + 1 <= b /\ v + 1 \in Nat
    BY <1>2
  <2>3. (v + 1) * p <= b * p
    BY <2>2, Data!MultOrder
  <2>4. (v + 1) * p = v * p + p /\ b * p = p * b /\ v * p \in Nat /\ p * b \in Nat
    BY <1>2
  <2> QED
    BY <1>1, <2>1, <2>3, <2>4
<1>4. n = u * d + z
  <2>1. q * p = (u * b) * p + v * p
    BY <1>1, <1>2
  <2>2. (u * b) * p = u * (b * p)
    BY <1>2
  <2>3. (u * b) * p \in Nat /\ v * p \in Nat
    BY <1>2
  <2> QED
    BY <1>1, <2>1, <2>2, <2>3
<1>5. d \in Nat \ {0} /\ p * b = d
  BY ONLY p \in Nat \ {0}, b \in Nat \ {0}, 1 \in Nat \ {0}
<1> HIDE DEF z, d
<1>6. n \div d = u
  BY ONLY <1>2, <1>3, <1>4, <1>5, Data!DivMod
<1> QED
  BY <1>6 DEF u, q, d

(* The number of the bytes of a number.                                    *)
LEMMA FromBEToBE ==
    ASSUME NEW n \in Nat, NEW k \in Nat, n < Power(k)
    PROVE  FromBE(ToBE(n, k)) = n
<1> DEFINE s == ToBE(n, k)
<1>1. s \in Seq(Byte) /\ Len(s) = k
  BY ToBEIs
<1>2. \A i \in 1 .. k : s[i] = (n \div Power(k - i)) % Base
  BY DEF ToBE
<1> HIDE DEF s
<1>3. PICK g : NumberTable(s, g)
  BY <1>1, NumberTables
<1>4. Base \in Nat \ {0}
  BY Sizes
<1> DEFINE S == {i \in Nat : i <= k => g[i] = n \div Power(k - i)}
<1>5. 0 \in S
  <2>1. g[0] = 0
    BY <1>3 DEF NumberTable
  <2> DEFINE p == Power(k)
  <2>2. p \in Nat \ {0}
    BY PowerGrows
  <2>3. k - 0 = k
    OBVIOUS
  <2>4. n < p
    OBVIOUS
  <2> HIDE DEF p
  <2>5. n \div p = 0
    BY ONLY <2>2, <2>4, n \in Nat
  <2>6. g[0] = n \div Power(k - 0)
    BY <2>1, <2>3, <2>5 DEF p
  <2> QED
    BY <2>6
<1>6. ASSUME NEW i \in Nat, i \in S PROVE i + 1 \in S
  <2>1. SUFFICES ASSUME i + 1 <= k PROVE g[i + 1] = n \div Power(k - (i + 1))
    OBVIOUS
  <2> DEFINE j == k - (i + 1)
             p == Power(j)
             q == n \div p
  <2>2. /\ i + 1 \in 1 .. k /\ i + 1 \in 1 .. Len(s) /\ (i + 1) - 1 = i
        /\ j \in Nat /\ k - i = j + 1 /\ i <= k
    BY <1>1, <2>1
  <2>3. g[i + 1] = g[i] * Base + s[i + 1]
    BY <1>3, <2>2 DEF NumberTable
  <2>4. s[i + 1] = q % Base
    BY <1>2, <2>2
  <2>5. g[i] = n \div Power(j + 1)
    BY <1>6, <2>2
  <2>6. Power(j + 1) = Base * p /\ p \in Nat \ {0}
    BY <2>2, PowerStep, PowerGrows
  <2> HIDE DEF p
  <2>7. n \div (Base * p) = q \div Base
    BY ONLY <1>4, <2>6, n \in Nat, DivDiv, ZenonT(60)
  <2>8. q \in Nat
    BY ONLY <2>6, n \in Nat, Data!DivModSplit
  <2> HIDE DEF q
  <2>9. q = (q \div Base) * Base + (q % Base)
    BY ONLY <1>4, <2>8, Data!DivModSplit
  <2>10. g[i + 1] = q
    BY ONLY <2>3, <2>4, <2>5, <2>6, <2>7, <2>9
  <2> QED
    BY <2>10 DEF q, p
<1> HIDE DEF S
<1>7. \A i \in Nat : i \in S
  BY <1>5, <1>6, 1 \in Nat \ {0}, Data!SetInduction
<1>8. g[k] = n \div Power(k - k)
  BY <1>7 DEF S
<1>9. Power(k - k) = 1
  BY PowerStep
<1>10. g[k] = n
  BY ONLY <1>8, <1>9, n \in Nat
<1> QED
  BY <1>1, <1>3, <1>10 DEF NumberTable, s

(* The fewest bytes of a number are its number.                            *)
LEMMA FewestBack ==
    ASSUME NEW n \in Nat
    PROVE  /\ ToBE(n, Width(n)) \in Seq(Byte) /\ Len(ToBE(n, Width(n))) = Width(n)
           /\ FromBE(ToBE(n, Width(n))) = n /\ Width(n) \in Nat
           /\ n # 0 => Width(n) > 0 /\ ToBE(n, Width(n))[1] # 0
<1> DEFINE w == Width(n)
           t == ToBE(n, w)
<1>1. w \in Nat /\ n < Power(w) /\ (w = 0 \/ n >= Power(w - 1))
  BY WidthIs DEF IsWidth
<1>2. t \in Seq(Byte) /\ Len(t) = w
  BY <1>1, ToBEIs
<1> HIDE DEF w
<1>3. FromBE(t) = n
  BY ONLY <1>1, n \in Nat, FromBEToBE
<1>4. n # 0 => w > 0
  BY FewestOne DEF w
<1>5. ASSUME n # 0 PROVE t[1] # 0
  <2>1. w > 0 /\ 1 \in 1 .. w /\ w - 1 \in Nat /\ n >= Power(w - 1)
    BY <1>1, <1>4, <1>5
  <2>2. t[1] = (n \div Power(w - 1)) % Base
    BY <2>1 DEF ToBE
  <2> DEFINE p == Power(w - 1)
             q == n \div p
  <2>3. p \in Nat \ {0} /\ p <= n /\ n < Base * p
    <3>0. (w - 1) + 1 = w
      BY <1>1
    <3>p. \A k \in Nat : Power(k + 1) = Base * Power(k)
      BY PowerStep
    <3>q. Power((w - 1) + 1) = Base * Power(w - 1)
      BY ONLY <2>1, <3>p
    <3>1. Power(w) = Base * p
      BY ONLY <3>0, <3>q
    <3>2. p \in Nat \ {0}
      BY <2>1, PowerGrows
    <3>3. n >= p /\ n < Power(w)
      BY <1>1, <2>1
    <3> HIDE DEF p
    <3> QED
      BY ONLY <3>1, <3>2, <3>3, n \in Nat
  <2>4. Base \in Nat \ {0}
    BY Sizes
  <2> HIDE DEF p
  <2>p. p \in Nat \ {0}
    BY <2>3
  <2>5. q \in Nat /\ n % p \in Nat /\ n % p < p /\ n = q * p + (n % p)
    BY ONLY <2>p, n \in Nat, Data!DivModSplit
  <2> HIDE DEF q
  <2>6. q # 0
    <3>1. ASSUME q = 0 PROVE FALSE
      <4>1. n = n % p
        BY ONLY <2>3, <2>5, <3>1, n \in Nat
      <4> QED
        BY ONLY <2>3, <2>5, <4>1, n \in Nat
    <3> QED
      BY ONLY <3>1
  <2>7. q < Base
    <3> DEFINE x == q * p
               y == Base * p
               z == n % p
    <3>0. x \in Nat /\ y \in Nat /\ z \in Nat /\ n = x + z /\ n < y
      BY ONLY <2>3, <2>4, <2>5, n \in Nat
    <3> HIDE DEF x, y, z
    <3>z. x < y
      BY ONLY <3>0
    <3>1. q * p < Base * p
      BY <3>z DEF x, y
    <3> QED
      BY ONLY <2>3, <2>4, <2>5, <3>1, Data!MultOrder
  <2>8. q % Base = q
    <3>1. q = 0 * Base + q
      BY ONLY <2>4, <2>5
    <3>2. 0 \in Nat
      OBVIOUS
    <3> QED
      BY ONLY <2>4, <2>5, <2>7, <3>1, <3>2, Data!DivMod, SMTT(60)
  <2> QED
    BY <2>2, <2>6, <2>8 DEF q, p
<1> QED
  BY <1>1, <1>2, <1>3, <1>4, <1>5 DEF w

(* Stripping the leading zeros leaves the number, and no leading zero.     *)
LEMMA StrippedBack ==
    ASSUME NEW s \in Seq(Byte)
    PROVE  /\ FromBE(Stripped(s)) = FromBE(s)
           /\ Stripped(s)[1] # 0 \/ Stripped(s) = <<0>>
<1> DEFINE n == FromBE(s)
<1>1. n \in Nat
  BY FromBEBelow
<1> HIDE DEF n
<1>2. CASE n = 0
  <2>1. Stripped(s) = <<0>>
    BY <1>2 DEF Stripped, n
  <2>2. FromBE(<<0>>) = 0
    <3> DEFINE z == <<0>>
    <3>1. 0 \in Byte
      BY Sizes
    <3>2. z \in Seq(Byte) /\ Len(z) = 1 /\ z[1] = 0 /\ Len(z) > 0
      BY ONLY <3>1, Short
    <3> HIDE DEF z
    <3>3. FromBE(Tail(z)) = FromBE(z)
      BY <3>2, FromBETail
    <3>4. Tail(z) \in Seq(Byte) /\ Len(Tail(z)) = 0
      BY <3>2
    <3>5. FromBE(Tail(z)) \in Nat /\ FromBE(Tail(z)) < Power(0)
      BY <3>4, FromBEBelow
    <3>6. FromBE(Tail(z)) = 0
      BY ONLY <3>5, PowerStep
    <3> QED
      BY ONLY <3>3, <3>6 DEF z
  <2> QED
    BY <1>2, <2>1, <2>2 DEF n
<1>3. CASE n # 0
  <2>1. Stripped(s) = ToBE(n, Width(n))
    BY <1>3 DEF Stripped, n
  <2> QED
    BY <1>1, <1>3, <2>1, FewestBack DEF n
<1> QED
  BY <1>2, <1>3

(* So do the octets of a u64.                                              *)
LEMMA U64Back ==
    ASSUME NEW n \in Nat
    PROVE  FromBE(U64Octets(n)) = n /\ U64Octets(n) \in Seq(Byte)
<1>1. CASE n = 0
  <2> DEFINE z == <<0>>
  <2>1. U64Octets(n) = z /\ 0 \in Byte
    BY <1>1, Sizes DEF U64Octets
  <2>2. z \in Seq(Byte) /\ Len(z) = 1 /\ z[1] = 0 /\ Len(z) > 0
    BY ONLY <2>1, Short
  <2> HIDE DEF z
  <2>3. FromBE(Tail(z)) = FromBE(z) /\ Tail(z) \in Seq(Byte) /\ Len(Tail(z)) = 0
    BY <2>2, FromBETail
  <2>4. FromBE(Tail(z)) \in Nat /\ FromBE(Tail(z)) < Power(0)
    BY <2>3, FromBEBelow
  <2>5. FromBE(Tail(z)) = 0
    BY ONLY <2>4, PowerStep
  <2> QED
    BY <1>1, <2>1, <2>2, <2>3, <2>5
<1>2. CASE n # 0
  <2>1. U64Octets(n) = ToBE(n, Width(n))
    BY <1>2 DEF U64Octets
  <2> QED
    BY <2>1, FewestBack
<1> QED
  BY <1>1, <1>2

(* A zero byte in front leaves the number.                                 *)
LEMMA SignByte ==
    ASSUME NEW z \in Seq(Byte), Len(z) = 1, z[1] = 0, NEW a \in Seq(Byte)
    PROVE  /\ FromBE(z \o a) = FromBE(a) /\ z \o a \in Seq(Byte) /\ Len(z \o a) = 1 + Len(a)
           /\ (z \o a)[1] = 0 /\ Tail(z \o a) = a
<1> DEFINE s == z \o a
           S == Byte
<1>0. z \in Seq(S) /\ a \in Seq(S)
  OBVIOUS
<1> HIDE DEF S
<1>s. /\ s \in Seq(S) /\ Len(s) = 1 + Len(a) /\ Len(a) \in Nat
      /\ s[1] = 0 /\ \A i \in 1 .. Len(a) : s[i + 1] = a[i]
  <2>1. s \in Seq(S) /\ Len(s) = Len(z) + Len(a) /\ Len(a) \in Nat
    BY ONLY <1>0, 1 \in Nat \ {0}, Data!ConcatFacts
  <2>2. \A i \in 1 .. Len(z) + Len(a) : s[i] = IF i <= Len(z) THEN z[i] ELSE a[i - Len(z)]
    BY ONLY <1>0, ConcatProperties
  <2>3. s[1] = z[1]
    BY ONLY <2>1, <2>2, Len(z) = 1
  <2>4. \A i \in 1 .. Len(a) : s[i + 1] = a[i]
    BY ONLY <2>1, <2>2, Len(z) = 1
  <2> QED
    BY ONLY <2>1, <2>3, <2>4, Len(z) = 1, z[1] = 0
<1> HIDE DEF s
<1>1. /\ s \in Seq(Byte) /\ Len(s) = 1 + Len(a) /\ Len(a) \in Nat
      /\ s[1] = 0 /\ \A i \in 1 .. Len(a) : s[i + 1] = a[i]
  BY ONLY <1>s DEF S
<1>2. Tail(s) \in Seq(Byte) /\ Len(Tail(s)) = Len(a) /\ \A i \in 1 .. Len(a) : Tail(s)[i] = s[i + 1]
  BY <1>1
<1>3. Tail(s) = a
  BY <1>1, <1>2, SeqEqual, SMTT(60)
<1>4. FromBE(Tail(s)) = FromBE(s)
  BY <1>1, FromBETail
<1> QED
  BY <1>1, <1>3, <1>4 DEF s

-----------------------------------------------------------------------------
(* What a string of bytes holds.                                           *)

(* A list with one more element in front.                                  *)
LEMMA ListCons ==
    ASSUME NEW x, NEW s, IsList(s)
    PROVE  /\ IsList(<<x>> \o s) /\ <<x>> \o s # <<>>
           /\ Head(<<x>> \o s) = x /\ Tail(<<x>> \o s) = s
<1>1. PICK S : s \in Seq(S)
  BY DEF IsList
<1> DEFINE T == S \cup {x}
           a == <<x>>
           t == a \o s
<1>2. s \in Seq(T) /\ a \in Seq(T) /\ Len(a) = 1 /\ a[1] = x
  BY <1>1
<1> HIDE DEF T, a
<1>j. /\ t \in Seq(T) /\ Len(t) = Len(a) + Len(s)
      /\ \A i \in 1 .. Len(a) + Len(s) : t[i] = IF i <= Len(a) THEN a[i] ELSE s[i - Len(a)]
  BY ONLY <1>2, ConcatProperties
<1> HIDE DEF t
<1>3. /\ t \in Seq(T) /\ Len(t) = 1 + Len(s) /\ Len(s) \in Nat
      /\ \A i \in 1 .. 1 + Len(s) : t[i] = IF i <= 1 THEN a[i] ELSE s[i - 1]
  BY ONLY <1>2, <1>j
<1>4. t # <<>> /\ t[1] = x
  BY ONLY <1>2, <1>3
<1>h. /\ Tail(t) \in Seq(T) /\ Len(Tail(t)) = Len(t) - 1
      /\ \A i \in 1 .. Len(Tail(t)) : Tail(t)[i] = t[i + 1]
  BY ONLY <1>3, <1>4, HeadTailProperties
<1>k. Head(t) = x
  BY ONLY <1>3, <1>4
<1>l. Len(t) - 1 = Len(s)
  BY ONLY <1>3
<1>5. /\ Head(t) = x /\ Tail(t) \in Seq(T) /\ Len(Tail(t)) = Len(s)
      /\ \A i \in 1 .. Len(s) : Tail(t)[i] = t[i + 1]
  BY ONLY <1>h, <1>k, <1>l
<1>6. \A i \in 1 .. Len(s) : Tail(t)[i] = s[i]
  BY ONLY <1>3, <1>5
<1>7. Tail(t) = s
  BY ONLY <1>2, <1>5, <1>6, SeqEqual
<1>8. IsList(t)
  BY ONLY <1>3 DEF IsList
<1> QED
  BY ONLY <1>4, <1>5, <1>7, <1>8 DEF t, a

(* Lists joined.                                                           *)
LEMMA ListJoin ==
    ASSUME NEW a, NEW b, IsList(a), IsList(b)
    PROVE  /\ IsList(a \o b) /\ <<>> \o b = b
           /\ \A x : (<<x>> \o a) \o b = <<x>> \o (a \o b)
<1>1. PICK A, B : a \in Seq(A) /\ b \in Seq(B)
  BY DEF IsList
<1> DEFINE T == A \cup B
<1>2. a \in Seq(T) /\ b \in Seq(T)
  BY <1>1
<1> HIDE DEF T
<1>3. a \o b \in Seq(T) /\ <<>> \o b = b
  BY ONLY <1>2, 1 \in Nat \ {0}, Data!ConcatFacts
<1>4. ASSUME NEW x PROVE (<<x>> \o a) \o b = <<x>> \o (a \o b)
  <2> DEFINE U == T \cup {x}
             z == <<x>>
  <2>1. a \in Seq(U) /\ b \in Seq(U) /\ z \in Seq(U)
    BY <1>2
  <2> HIDE DEF U, z
  <2>2. (z \o a) \o b = z \o (a \o b)
    BY ONLY <2>1, ConcatAssociative, SMTT(60)
  <2> QED
    BY <2>2 DEF z
<1>5. IsList(a \o b)
  BY ONLY <1>3 DEF IsList
<1> QED
  BY ONLY <1>3, <1>4, <1>5

(* An element: its tag, its length and its content.                        *)
Tlv(name, c) == <<Tag[name]>> \o (LengthOctets(Len(c)) \o c)

(* A content whose length fits size_t.                                     *)
Measured(c) == c \in Seq(Byte) /\ Len(c) < Power(SizeBytes)

(* The content of a value that has none inside.                            *)
Plain(it, c) ==
    /\ it.kids = <<>>
    /\ \/ it.tag = "null" /\ c = <<>>
       \/ it.tag = "boolean" /\ Len(c) = 1 /\ it.val = <<IF c[1] # 0 THEN 1 ELSE 0>>
       \/ it.tag = "integer" /\ c # <<>> /\ MinimalInt(c) /\ c[1] < Half /\ it.val = <<FromBE(c)>>
       \/ it.tag \in {"oid", "utf8", "octets"} /\ it.val = c
       \/ it.tag = "bits" /\ c # <<>> /\ BitStringTaken(Tail(c), Head(c)) /\ it.val = Tail(c)
       \/ it.tag = "utctime" /\ \E d \in Date : it.val = <<d>> /\ c = UtcDigits(d)

(* The content of a container with b in it.                                *)
Boxed(it, c, b) ==
    /\ it.tag \in Containers /\ it.val = <<>>
    /\ c = IF it.tag = "bits" THEN <<0>> \o b ELSE b

(* A set of pairs of a list of items and the bytes they are, closed: with  *)
(* a pair it has the pair behind the first item, and the pair inside the   *)
(* first item when that is a container.                                    *)
Holds(P, it, c) ==
    Measured(c) /\ (Plain(it, c) \/ \E b : Boxed(it, c, b) /\ <<it.kids, b>> \in P)

First(P, its, s, it, more, c, rest) ==
    /\ its = <<it>> \o more /\ s = Tlv(it.tag, c) \o rest
    /\ <<more, rest>> \in P /\ Holds(P, it, c)

Opens(P, its, s) ==
    /\ IsList(its) /\ s \in Seq(Byte)
    /\ \/ its = <<>> /\ s = <<>>
       \/ \E it, more, c, rest : First(P, its, s, it, more, c, rest)

Grove(P) == \A its, s : <<its, s>> \in P => Opens(P, its, s)

(* The bytes s are the items its, written one behind the other.            *)
Laid(its, s) == \E P : Grove(P) /\ <<its, s>> \in P

(* c is the content of the item it.                                        *)
Carries(it, c) ==
    Measured(c) /\ (Plain(it, c) \/ \E b : Boxed(it, c, b) /\ Laid(it.kids, b))

(* More pairs do not matter.                                               *)
LEMMA OpensMore ==
    ASSUME NEW P, NEW Q, P \subseteq Q, NEW its, NEW s, Opens(P, its, s)
    PROVE  Opens(Q, its, s)
<1>1. \A it, c : Holds(P, it, c) => Holds(Q, it, c)
  BY DEF Holds
<1>2. \A it, more, c, rest : First(P, its, s, it, more, c, rest) => First(Q, its, s, it, more, c, rest)
  BY <1>1 DEF First
<1> QED
  BY <1>2 DEF Opens

(* Two closed sets are one.                                                *)
LEMMA GroveUnion ==
    ASSUME NEW P, NEW Q, Grove(P), Grove(Q)
    PROVE  Grove(P \cup Q)
<1> DEFINE U == P \cup Q
<1>0. P \subseteq U /\ Q \subseteq U /\ \A x : x \in U => x \in P \/ x \in Q
  OBVIOUS
<1> HIDE DEF U
<1>1. ASSUME NEW its, NEW s, <<its, s>> \in U PROVE Opens(U, its, s)
  <2>1. CASE <<its, s>> \in P
    <3>1. Opens(P, its, s)
      BY <2>1 DEF Grove
    <3> QED
      BY ONLY <1>0, <3>1, OpensMore
  <2>2. CASE <<its, s>> \in Q
    <3>1. Opens(Q, its, s)
      BY <2>2 DEF Grove
    <3> QED
      BY ONLY <1>0, <3>1, OpensMore
  <2> QED
    BY <1>0, <1>1, <2>1, <2>2
<1>2. Grove(U)
  BY ONLY <1>1 DEF Grove
<1> QED
  BY <1>2 DEF U

(* No bytes are no items.                                                  *)
LEMMA LaidNone == Laid(<<>>, <<>>)
<1> DEFINE e == <<>>
           P == {<<e, e>>}
<1>1. IsList(e) /\ e \in Seq(Byte)
  <2>1. e \in Seq({}) /\ e \in Seq(Byte)
    OBVIOUS
  <2> QED
    BY <2>1 DEF IsList
<1>2. ASSUME NEW its, NEW s, <<its, s>> \in P PROVE Opens(P, its, s)
  <2>1. its = e /\ s = e
    BY <1>2
  <2> QED
    BY <1>1, <2>1 DEF Opens
<1>3. <<e, e>> \in P
  OBVIOUS
<1>4. Grove(P)
  BY ONLY <1>2 DEF Grove
<1> HIDE DEF P
<1> QED
  BY <1>3, <1>4 DEF Laid

(* What is laid is a list, and bytes.                                      *)
LEMMA LaidIs ==
    ASSUME NEW its, NEW s, Laid(its, s)
    PROVE  IsList(its) /\ s \in Seq(Byte)
BY DEF Laid, Grove, Opens

(* What the first item is, and what is behind it.                          *)
Begins(its, s, it, more, c, rest) ==
    /\ its = <<it>> \o more /\ s = Tlv(it.tag, c) \o rest
    /\ Laid(more, rest) /\ Carries(it, c)

(* Bytes with items begin with one.                                        *)
LEMMA LaidBegins ==
    ASSUME NEW its, NEW s, Laid(its, s)
    PROVE  \/ its = <<>> /\ s = <<>>
           \/ \E it, more, c, rest : Begins(its, s, it, more, c, rest)
<1>1. PICK P : Grove(P) /\ <<its, s>> \in P
  BY DEF Laid
<1>2. Opens(P, its, s)
  BY <1>1 DEF Grove
<1>3. \A a, b : <<a, b>> \in P => Laid(a, b)
  BY <1>1 DEF Laid
<1>4. ASSUME NEW it, NEW more, NEW c, NEW rest, First(P, its, s, it, more, c, rest)
      PROVE  Begins(its, s, it, more, c, rest)
  <2>1. /\ its = <<it>> \o more /\ s = Tlv(it.tag, c) \o rest
        /\ <<more, rest>> \in P /\ Holds(P, it, c)
    BY <1>4 DEF First
  <2>2. Carries(it, c)
    BY <1>3, <2>1 DEF Holds, Carries
  <2> QED
    BY <1>3, <2>1, <2>2 DEF Begins
<1> QED
  BY <1>2, <1>4 DEF Opens

(* The bytes of an element.                                                *)
LEMMA CarriesIs ==
    ASSUME NEW it, NEW c, Carries(it, c)
    PROVE  /\ it.tag \in TagNames /\ Tag[it.tag] \in Byte /\ Measured(c) /\ Len(c) \in Nat
           /\ LengthOctets(Len(c)) \in Seq(Byte) /\ Tlv(it.tag, c) \in Seq(Byte)
<1>1. it.tag \in TagNames
  BY DEF Carries, Plain, Boxed, Containers, TagNames
<1>2. Tag[it.tag] \in Byte
  BY <1>1, TagIs
<1>3. Measured(c)
  BY DEF Carries
<1>4. c \in Seq(Byte) /\ Len(c) \in Nat /\ Len(c) < Power(SizeBytes)
  BY <1>3 DEF Measured
<1> DEFINE l == LengthOctets(Len(c))
           t == <<Tag[it.tag]>>
<1>5. l \in Seq(Byte)
  BY ONLY <1>4, LengthOctetsIs
<1>6. t \in Seq(Byte)
  BY ONLY <1>2, Short
<1> HIDE DEF l, t
<1>7. l \o c \in Seq(Byte)
  BY ONLY <1>4, <1>5, Joined
<1>8. t \o (l \o c) \in Seq(Byte)
  BY ONLY <1>6, <1>7, Joined
<1> QED
  BY <1>1, <1>2, <1>3, <1>4, <1>5, <1>8 DEF Tlv, l, t

(* One more element in front.                                              *)
LEMMA LaidAdd ==
    ASSUME NEW it, NEW c, NEW more, NEW rest, Carries(it, c), Laid(more, rest)
    PROVE  Laid(<<it>> \o more, Tlv(it.tag, c) \o rest)
<1> DEFINE its == <<it>> \o more
           s == Tlv(it.tag, c) \o rest
<1>1. PICK P : Grove(P) /\ <<more, rest>> \in P
  BY DEF Laid
<1>2. \E Q : Grove(Q) /\ Holds(Q, it, c)
  <2>1. CASE Plain(it, c)
    <3>1. Holds(P, it, c)
      BY <2>1 DEF Holds, Carries
    <3> QED
      BY <1>1, <3>1
  <2>2. CASE \E b : Boxed(it, c, b) /\ Laid(it.kids, b)
    <3>1. PICK b : Boxed(it, c, b) /\ Laid(it.kids, b)
      BY <2>2
    <3>2. PICK Q : Grove(Q) /\ <<it.kids, b>> \in Q
      BY <3>1 DEF Laid
    <3>3. Holds(Q, it, c)
      BY <3>1, <3>2 DEF Holds, Carries
    <3> QED
      BY <3>2, <3>3
  <2> QED
    BY <2>1, <2>2 DEF Carries
<1>3. PICK Q : Grove(Q) /\ Holds(Q, it, c)
  BY <1>2
<1> DEFINE U == P \cup Q
<1>4. Grove(U) /\ <<more, rest>> \in U
  BY <1>1, <1>3, GroveUnion
<1>5. Holds(U, it, c)
  BY <1>3 DEF Holds
<1>6. IsList(its)
  BY <1>1, LaidIs, ListCons
<1>7. s \in Seq(Byte)
  <2>1. Tlv(it.tag, c) \in Seq(Byte) /\ rest \in Seq(Byte)
    BY CarriesIs, LaidIs
  <2> QED
    BY <2>1, Joined
<1> HIDE DEF U
<1> DEFINE V == U \cup {<<its, s>>}
<1>8. First(U, its, s, it, more, c, rest)
  BY <1>4, <1>5 DEF First
<1> HIDE DEF its, s
<1>9. Opens(U, its, s)
  BY <1>6, <1>7, <1>8 DEF Opens
<1>10. U \subseteq V /\ <<its, s>> \in V
  OBVIOUS
<1>11. ASSUME NEW a, NEW b, <<a, b>> \in V PROVE Opens(V, a, b)
  <2>1. \/ <<a, b>> \in U
        \/ a = its /\ b = s
    BY <1>11
  <2>2. Opens(U, a, b)
    BY <1>4, <1>9, <2>1 DEF Grove
  <2> HIDE DEF V
  <2> QED
    BY ONLY <1>10, <2>2, OpensMore
<1> HIDE DEF V
<1>12. Grove(V)
  BY ONLY <1>11 DEF Grove
<1>13. Laid(its, s)
  BY ONLY <1>10, <1>12 DEF Laid
<1> QED
  BY <1>13 DEF its, s

(* Items and more items behind them.                                       *)
LEMMA LaidJoin ==
    ASSUME NEW its, NEW s, NEW more, NEW rest, Laid(its, s), Laid(more, rest)
    PROVE  Laid(its \o more, s \o rest)
<1>1. PICK P : Grove(P) /\ <<its, s>> \in P
  BY DEF Laid
<1>2. PICK Q : Grove(Q) /\ <<more, rest>> \in Q
  BY DEF Laid
<1>m. IsList(more) /\ rest \in Seq(Byte)
  BY LaidIs
<1> DEFINE U == P \cup Q
           F(p) == <<p[1] \o more, p[2] \o rest>>
           J == {F(p) : p \in {q \in P : q = <<q[1], q[2]>>}}
           V == U \cup J
           Made(a, b) == \E x, y : <<x, y>> \in P /\ a = x \o more /\ b = y \o rest
<1>3. Grove(U) /\ P \subseteq U /\ <<more, rest>> \in U
  BY <1>1, <1>2, GroveUnion
<1> HIDE DEF U
<1>4. U \subseteq V
  OBVIOUS
<1>5. \A a, b : <<a, b>> \in P => <<a \o more, b \o rest>> \in V
  <2>1. ASSUME NEW a, NEW b, <<a, b>> \in P PROVE <<a \o more, b \o rest>> \in V
    <3> DEFINE p == <<a, b>>
    <3>1. p[1] = a /\ p[2] = b /\ p = <<p[1], p[2]>> /\ p \in P
      BY <2>1
    <3> HIDE DEF p
    <3>2. F(p) \in J
      BY <3>1
    <3> QED
      BY <3>1, <3>2
  <2> QED
    BY <2>1
<1>6. ASSUME NEW a, NEW b, <<a, b>> \in V
      PROVE  <<a, b>> \in U \/ Made(a, b)
  <2>1. SUFFICES ASSUME <<a, b>> \in J
                 PROVE  Made(a, b)
    BY <1>6
  <2>2. PICK p \in P : <<a, b>> = F(p) /\ p = <<p[1], p[2]>>
    BY <2>1
  <2>3. a = p[1] \o more /\ b = p[2] \o rest
    BY <2>2
  <2> QED
    BY <2>2, <2>3
<1> HIDE DEF V
<1>7. ASSUME NEW a, NEW b, <<a, b>> \in V PROVE Opens(V, a, b)
  <2>1. CASE <<a, b>> \in U
    <3>1. Opens(U, a, b)
      BY <1>3, <2>1 DEF Grove
    <3> QED
      BY ONLY <1>4, <3>1, OpensMore
  <2>2. ASSUME NEW x, NEW y, <<x, y>> \in P, a = x \o more, b = y \o rest
        PROVE  Opens(V, a, b)
    <3>1. Opens(P, x, y) /\ IsList(x) /\ y \in Seq(Byte)
      BY <1>1, <2>2 DEF Grove, Opens
    <3>2. IsList(a) /\ b \in Seq(Byte)
      BY <1>m, <2>2, <3>1, ListJoin, Joined
    <3>3. CASE x = <<>> /\ y = <<>>
      <4>1. a = more
        BY <1>m, <2>2, <3>1, <3>3, ListJoin
      <4>2. b = rest
        <5>1. <<>> \o rest = rest
          BY <1>m
        <5> QED
          BY <2>2, <3>3, <5>1
      <4> QED
        BY <1>3, <2>1, <4>1, <4>2
    <3>4. ASSUME NEW it, NEW u, NEW c, NEW v, First(P, x, y, it, u, c, v)
          PROVE  Opens(V, a, b)
      <4>1. /\ x = <<it>> \o u /\ y = Tlv(it.tag, c) \o v
            /\ <<u, v>> \in P /\ Holds(P, it, c)
        BY <3>4 DEF First
      <4>2. IsList(u) /\ v \in Seq(Byte)
        BY <1>1, <4>1 DEF Grove, Opens
      <4>3. a = <<it>> \o (u \o more)
        BY <1>m, <2>2, <4>1, <4>2, ListJoin, SMTT(60)
      <4>4. Laid(x, y) /\ Laid(u, v)
        BY <1>1, <2>2, <4>1 DEF Laid
      <4>5. Carries(it, c)
        <5>1. \A z, w : <<z, w>> \in P => Laid(z, w)
          BY <1>1 DEF Laid
        <5> QED
          BY <4>1, <5>1 DEF Holds, Carries
      <4>6. Tlv(it.tag, c) \in Seq(Byte)
        BY <4>5, CarriesIs
      <4>7. b = Tlv(it.tag, c) \o (v \o rest)
        <5> DEFINE t == Tlv(it.tag, c)
        <5> HIDE DEF t
        <5>1. t \in Seq(Byte)
          BY <4>6 DEF t
        <5>2. (t \o v) \o rest = t \o (v \o rest)
          BY ONLY <1>m, <4>2, <5>1, ConcatAssociative, SMTT(60)
        <5> QED
          BY <2>2, <4>1, <5>2 DEF t
      <4>8. <<u \o more, v \o rest>> \in V
        BY <1>5, <4>1
      <4>9. P \subseteq V
        BY <1>3, <1>4
      <4>10. Holds(V, it, c)
        BY <4>1, <4>9 DEF Holds
      <4>11. First(V, a, b, it, u \o more, c, v \o rest)
        BY <4>3, <4>7, <4>8, <4>10 DEF First
      <4> QED
        BY <3>2, <4>11 DEF Opens
    <3> QED
      BY <3>1, <3>3, <3>4 DEF Opens
  <2>3. ASSUME Made(a, b) PROVE Opens(V, a, b)
    BY <2>2, <2>3
  <2> HIDE DEF Made
  <2>4. <<a, b>> \in U \/ Made(a, b)
    BY <1>6, <1>7
  <2> QED
    BY ONLY <2>1, <2>3, <2>4
<1>8. Grove(V)
  BY ONLY <1>7 DEF Grove
<1>9. <<its \o more, s \o rest>> \in V
  BY <1>1, <1>5
<1> QED
  BY ONLY <1>8, <1>9 DEF Laid

-----------------------------------------------------------------------------
(* What the writing functions put in front of the output.                  *)

Flawed(x) == x.w.error

(* Once it is set, the error flag stays.                                   *)
LEMMA FlawedOn ==
    ASSUME NEW x, Flawed(x), NEW p
    PROVE  Flawed(AfterPart(x, p))
<1>1. CASE x.ret = "OK"
  <2>1. AfterPart(x, p) = WriteBytesRev(x.w, p)
    BY <1>1 DEF AfterPart
  <2>2. WriteBytesRev(x.w, p) = Left(x.w, "WRITE_ERROR")
    BY DEF Flawed, WriteBytesRev, Left
  <2>3. Left(x.w, "WRITE_ERROR").w = x.w
    BY ONLY LeftFields, Zenon
  <2>4. AfterPart(x, p).w = x.w
    BY ONLY <2>1, <2>2, <2>3
  <2> QED
    BY <2>4, Zenon DEF Flawed
<1>2. CASE x.ret # "OK"
  <2>1. AfterPart(x, p) = x
    BY <1>2 DEF AfterPart
  <2> QED
    BY <2>1, Zenon DEF Flawed
<1> QED
  BY <1>1, <1>2

(* A writer that had o and room r put b in front of it, or ran out.        *)
Lays(x, b, r, o) == Flawed(x) \/ (x = Went(r, b \o o) /\ Len(b) + Len(o) <= r)

(* One more string.                                                        *)
LEMMA LaysOn ==
    ASSUME NEW r \in Nat, NEW o \in Seq(Byte), NEW b \in Seq(Byte), NEW p \in Seq(Byte),
           NEW x, Lays(x, b, r, o)
    PROVE  Lays(AfterPart(x, p), p \o b, r, o)
<1>1. CASE Flawed(x)
  BY <1>1, FlawedOn DEF Lays
<1>2. CASE x = Went(r, b \o o) /\ Len(b) + Len(o) <= r
  <2> DEFINE z == b \o o
             w == WriterOf(r, z, FALSE)
             S == Byte
  <2>1. z \in Seq(Byte) /\ Len(z) = Len(b) + Len(o)
    BY Joined
  <2>2. x.ret = "OK" /\ x.w = w
    BY ONLY <1>2, LeftFields, Zenon DEF Went
  <2>a. p \o z = (p \o b) \o o
    <3>1. p \in Seq(S) /\ b \in Seq(S) /\ o \in Seq(S)
      OBVIOUS
    <3> HIDE DEF S
    <3>2. (p \o b) \o o = p \o (b \o o)
      BY ONLY <3>1, ConcatAssociative, SMTT(60)
    <3> QED
      BY ONLY <3>2
  <2>l. Len(p \o b) = Len(p) + Len(b) /\ Len(p) \in Nat /\ Len(b) \in Nat /\ Len(o) \in Nat
    BY Joined
  <2> HIDE DEF w, z
  <2>3. AfterPart(x, p) = WriteBytesRev(w, p)
    BY ONLY <2>2 DEF AfterPart
  <2>4. CASE Len(p) + Len(z) <= r
    <3>1. WriteBytesRev(w, p) = Left(WriterOf(r, p \o z, FALSE), "OK")
      BY ONLY <2>1, <2>4, r \in Nat, p \in Seq(Byte), WriteRoomy DEF w
    <3>2. AfterPart(x, p) = Went(r, (p \o b) \o o)
      BY ONLY <2>3, <2>a, <3>1 DEF Went
    <3>3. Len(p \o b) + Len(o) <= r
      BY ONLY <2>1, <2>4, <2>l, r \in Nat
    <3> QED
      BY ONLY <3>2, <3>3 DEF Lays
  <2>5. CASE ~ (Len(p) + Len(z) <= r)
    <3>1. w.room = r /\ w.out = z /\ w.error = FALSE
      BY ONLY FlagFields, ZenonT(150) DEF w
    <3>2. [w EXCEPT !.error = TRUE] = WriterOf(r, z, TRUE)
      BY ONLY ErrorSet, Zenon DEF w
    <3>3. WriterPos(w) = r - Len(z)
      BY ONLY <3>1 DEF WriterPos
    <3>4. Len(p) > WriterPos(w)
      BY ONLY <2>1, <2>5, <2>l, <3>3, r \in Nat
    <3>5. ~ w.error
      BY ONLY <3>1, Zenon
    <3>6. WriteBytesRev(w, p) = Left([w EXCEPT !.error = TRUE], "BUFFER_TOO_SMALL")
      BY ONLY <3>4, <3>5 DEF WriteBytesRev, Left
    <3>7. AfterPart(x, p) = Left(WriterOf(r, z, TRUE), "BUFFER_TOO_SMALL")
      BY ONLY <2>3, <3>2, <3>6
    <3>8. AfterPart(x, p).w = WriterOf(r, z, TRUE)
      BY ONLY <3>7, LeftFields, ZenonT(60)
    <3>9. WriterOf(r, z, TRUE).error = TRUE
      <4>1. \A e : WriterOf(r, z, e).error = e
        BY ONLY WriterFields
      <4> QED
        BY ONLY <4>1, Zenon
    <3>10. Flawed(AfterPart(x, p))
      BY ONLY <3>8, <3>9, Zenon DEF Flawed
    <3> QED
      BY ONLY <3>10 DEF Lays
  <2> QED
    BY ONLY <2>4, <2>5
<1> QED
  BY <1>1, <1>2 DEF Lays

(* The next of the strings of a call.                                      *)
LaysAt(w, parts, n, g, i, j, b, r, o) ==
    /\ n \in Nat /\ i \in 1 .. n /\ j = i - 1 /\ r \in Nat /\ o \in Seq(Byte) /\ b \in Seq(Byte)
    /\ PartsPlaces(w, parts, n, g) /\ parts[i] \in Seq(Byte) /\ Lays(g[j], b, r, o)

(* It is in front of the ones before.                                      *)
LEMMA LaysNext ==
    ASSUME NEW w, NEW parts, NEW n, NEW g, NEW i, NEW j, NEW b, NEW r, NEW o,
           LaysAt(w, parts, n, g, i, j, b, r, o)
    PROVE  Lays(g[i], parts[i] \o b, r, o) /\ parts[i] \o b \in Seq(Byte)
<1>1. /\ r \in Nat /\ o \in Seq(Byte) /\ b \in Seq(Byte) /\ parts[i] \in Seq(Byte)
      /\ Lays(g[j], b, r, o)
  BY DEF LaysAt
<1>2. g[i] = AfterPart(g[j], parts[i])
  BY DEF LaysAt, PartsPlaces
<1>3. Lays(AfterPart(g[j], parts[i]), parts[i] \o b, r, o)
  BY ONLY <1>1, LaysOn
<1>4. parts[i] \o b \in Seq(Byte)
  BY ONLY <1>1, Joined
<1> QED
  BY ONLY <1>2, <1>3, <1>4

(* The strings of a call come out as b.                                    *)
Puts(parts, b) ==
    \A r \in Nat, o \in Seq(Byte) :
        Len(o) <= r => Lays(WriteParts(WriterOf(r, o, FALSE), parts), b, r, o)

(* Before the first string nothing is there.                               *)
LEMMA PutsBegin ==
    ASSUME NEW r \in Nat, NEW o \in Seq(Byte), Len(o) <= r, NEW e \in Seq(Byte), Len(e) = 0
    PROVE  Lays(Left(WriterOf(r, o, FALSE), "OK"), e, r, o)
<1>1. e = <<>>
  OBVIOUS
<1>2. e \o o = o
  <2>1. <<>> \o o = o
    BY ONLY o \in Seq(Byte)
  <2> QED
    BY ONLY <1>1, <2>1
<1>3. Len(e) + Len(o) <= r
  OBVIOUS
<1> QED
  BY ONLY <1>2, <1>3 DEF Lays, Went

(* Two strings,                                                            *)
LEMMA PutsTwo ==
    ASSUME NEW a \in Seq(Byte), NEW b \in Seq(Byte)
    PROVE  Puts(<<a, b>>, b \o a)
<1> DEFINE parts == <<a, b>>
           e == <<>>
<1>1. e \in Seq(Byte) /\ Len(e) = 0 /\ a \o e = a
  OBVIOUS
<1>2. Len(parts) = 2 /\ parts[1] = a /\ parts[2] = b
  OBVIOUS
<1> HIDE DEF parts, e
<1>3. ASSUME NEW r \in Nat, NEW o \in Seq(Byte), Len(o) <= r
      PROVE  Lays(WriteParts(WriterOf(r, o, FALSE), parts), b \o a, r, o)
  <2> DEFINE w == WriterOf(r, o, FALSE)
  <2>0. Lays(Left(w, "OK"), e, r, o)
    BY ONLY <1>1, <1>3, PutsBegin
  <2> HIDE DEF w
  <2>n. 2 \in Nat /\ 1 \in 1 .. 2 /\ 2 \in 1 .. 2 /\ 0 = 1 - 1 /\ 1 = 2 - 1
    OBVIOUS
  <2>1. PICK g : PartsRun(w, parts, 2, g) /\ WriteParts(w, parts) = g[2]
    <3>1. Len(parts) \in Nat
      BY <1>2
    <3>2. \E g : PartsRun(w, parts, Len(parts), g) /\ WriteParts(w, parts) = g[Len(parts)]
      BY ONLY <3>1, PartsAre
    <3> QED
      BY ONLY <3>2, <1>2
  <2>2. PartsPlaces(w, parts, 2, g)
    BY ONLY <2>1, <2>n, PartsRunAt
  <2>3. Lays(g[0], e, r, o)
    BY ONLY <2>0, <2>2 DEF PartsPlaces
  <2>4. LaysAt(w, parts, 2, g, 1, 0, e, r, o)
    BY ONLY <1>1, <1>2, <1>3, <2>2, <2>3, <2>n, a \in Seq(Byte) DEF LaysAt
  <2>5. Lays(g[1], a, r, o)
    BY ONLY <1>1, <1>2, <2>4, LaysNext
  <2>6. LaysAt(w, parts, 2, g, 2, 1, a, r, o)
    BY ONLY <1>2, <1>3, <2>2, <2>5, <2>n, a \in Seq(Byte), b \in Seq(Byte) DEF LaysAt
  <2>7. Lays(g[2], b \o a, r, o)
    BY ONLY <1>2, <2>6, LaysNext
  <2> QED
    BY ONLY <2>1, <2>7 DEF w
<1>4. Puts(parts, b \o a)
  BY ONLY <1>3 DEF Puts
<1> QED
  BY <1>4 DEF parts

(* three,                                                                  *)
LEMMA PutsThree ==
    ASSUME NEW a \in Seq(Byte), NEW b \in Seq(Byte), NEW c \in Seq(Byte)
    PROVE  Puts(<<a, b, c>>, c \o (b \o a))
<1> DEFINE parts == <<a, b, c>>
           e == <<>>
<1>1. e \in Seq(Byte) /\ Len(e) = 0 /\ a \o e = a
  OBVIOUS
<1>2. Len(parts) = 3 /\ parts[1] = a /\ parts[2] = b /\ parts[3] = c
  OBVIOUS
<1>b. b \o a \in Seq(Byte)
  BY Joined
<1> HIDE DEF parts, e
<1>3. ASSUME NEW r \in Nat, NEW o \in Seq(Byte), Len(o) <= r
      PROVE  Lays(WriteParts(WriterOf(r, o, FALSE), parts), c \o (b \o a), r, o)
  <2> DEFINE w == WriterOf(r, o, FALSE)
  <2>0. Lays(Left(w, "OK"), e, r, o)
    BY ONLY <1>1, <1>3, PutsBegin
  <2> HIDE DEF w
  <2>n. 3 \in Nat /\ 1 \in 1 .. 3 /\ 2 \in 1 .. 3 /\ 3 \in 1 .. 3 /\ 0 = 1 - 1 /\ 1 = 2 - 1 /\ 2 = 3 - 1
    OBVIOUS
  <2>1. PICK g : PartsRun(w, parts, 3, g) /\ WriteParts(w, parts) = g[3]
    <3>1. Len(parts) \in Nat
      BY <1>2
    <3>2. \E g : PartsRun(w, parts, Len(parts), g) /\ WriteParts(w, parts) = g[Len(parts)]
      BY ONLY <3>1, PartsAre
    <3> QED
      BY ONLY <3>2, <1>2
  <2>2. PartsPlaces(w, parts, 3, g)
    BY ONLY <2>1, <2>n, PartsRunAt
  <2>3. Lays(g[0], e, r, o)
    BY ONLY <2>0, <2>2 DEF PartsPlaces
  <2>4. LaysAt(w, parts, 3, g, 1, 0, e, r, o)
    BY ONLY <1>1, <1>2, <1>3, <2>2, <2>3, <2>n, a \in Seq(Byte) DEF LaysAt
  <2>5. Lays(g[1], a, r, o)
    BY ONLY <1>1, <1>2, <2>4, LaysNext
  <2>6. LaysAt(w, parts, 3, g, 2, 1, a, r, o)
    BY ONLY <1>2, <1>3, <2>2, <2>5, <2>n, a \in Seq(Byte), b \in Seq(Byte) DEF LaysAt
  <2>7. Lays(g[2], b \o a, r, o)
    BY ONLY <1>2, <2>6, LaysNext
  <2>8. LaysAt(w, parts, 3, g, 3, 2, b \o a, r, o)
    BY ONLY <1>2, <1>3, <1>b, <2>2, <2>7, <2>n, c \in Seq(Byte) DEF LaysAt
  <2>9. Lays(g[3], c \o (b \o a), r, o)
    BY ONLY <1>2, <2>8, LaysNext
  <2> QED
    BY ONLY <2>1, <2>9 DEF w
<1>4. Puts(parts, c \o (b \o a))
  BY ONLY <1>3 DEF Puts
<1> QED
  BY <1>4 DEF parts

(* and four.                                                               *)
LEMMA PutsFour ==
    ASSUME NEW a \in Seq(Byte), NEW b \in Seq(Byte), NEW c \in Seq(Byte), NEW d \in Seq(Byte)
    PROVE  Puts(<<a, b, c, d>>, d \o (c \o (b \o a)))
<1> DEFINE parts == <<a, b, c, d>>
           e == <<>>
<1>1. e \in Seq(Byte) /\ Len(e) = 0 /\ a \o e = a
  OBVIOUS
<1>2. Len(parts) = 4 /\ parts[1] = a /\ parts[2] = b /\ parts[3] = c /\ parts[4] = d
  OBVIOUS
<1>b. b \o a \in Seq(Byte)
  BY Joined
<1>c. c \o (b \o a) \in Seq(Byte)
  BY <1>b, Joined
<1> HIDE DEF parts, e
<1>3. ASSUME NEW r \in Nat, NEW o \in Seq(Byte), Len(o) <= r
      PROVE  Lays(WriteParts(WriterOf(r, o, FALSE), parts), d \o (c \o (b \o a)), r, o)
  <2> DEFINE w == WriterOf(r, o, FALSE)
  <2>0. Lays(Left(w, "OK"), e, r, o)
    BY ONLY <1>1, <1>3, PutsBegin
  <2> HIDE DEF w
  <2>n. /\ 4 \in Nat /\ 1 \in 1 .. 4 /\ 2 \in 1 .. 4 /\ 3 \in 1 .. 4 /\ 4 \in 1 .. 4
        /\ 0 = 1 - 1 /\ 1 = 2 - 1 /\ 2 = 3 - 1 /\ 3 = 4 - 1
    OBVIOUS
  <2>1. PICK g : PartsRun(w, parts, 4, g) /\ WriteParts(w, parts) = g[4]
    <3>1. Len(parts) \in Nat
      BY <1>2
    <3>2. \E g : PartsRun(w, parts, Len(parts), g) /\ WriteParts(w, parts) = g[Len(parts)]
      BY ONLY <3>1, PartsAre
    <3> QED
      BY ONLY <3>2, <1>2
  <2>2. PartsPlaces(w, parts, 4, g)
    BY ONLY <2>1, <2>n, PartsRunAt
  <2>3. Lays(g[0], e, r, o)
    BY ONLY <2>0, <2>2 DEF PartsPlaces
  <2>4. LaysAt(w, parts, 4, g, 1, 0, e, r, o)
    BY ONLY <1>1, <1>2, <1>3, <2>2, <2>3, <2>n, a \in Seq(Byte) DEF LaysAt
  <2>5. Lays(g[1], a, r, o)
    BY ONLY <1>1, <1>2, <2>4, LaysNext
  <2>6. LaysAt(w, parts, 4, g, 2, 1, a, r, o)
    BY ONLY <1>2, <1>3, <2>2, <2>5, <2>n, a \in Seq(Byte), b \in Seq(Byte) DEF LaysAt
  <2>7. Lays(g[2], b \o a, r, o)
    BY ONLY <1>2, <2>6, LaysNext
  <2>8. LaysAt(w, parts, 4, g, 3, 2, b \o a, r, o)
    BY ONLY <1>2, <1>3, <1>b, <2>2, <2>7, <2>n, c \in Seq(Byte) DEF LaysAt
  <2>9. Lays(g[3], c \o (b \o a), r, o)
    BY ONLY <1>2, <2>8, LaysNext
  <2>10. LaysAt(w, parts, 4, g, 4, 3, c \o (b \o a), r, o)
    BY ONLY <1>2, <1>3, <1>c, <2>2, <2>9, <2>n, d \in Seq(Byte) DEF LaysAt
  <2>11. Lays(g[4], d \o (c \o (b \o a)), r, o)
    BY ONLY <1>2, <2>10, LaysNext
  <2> QED
    BY ONLY <2>1, <2>11 DEF w
<1>4. Puts(parts, d \o (c \o (b \o a)))
  BY ONLY <1>3 DEF Puts
<1> QED
  BY <1>4 DEF parts

(* A content behind its header,                                            *)
LEMMA PutsPlain ==
    ASSUME NEW c, Measured(c), NEW name \in TagNames
    PROVE  Puts(<<c>> \o Header(Tag[name], Len(c)), Tlv(name, c))
<1> DEFINE l == LengthOctets(Len(c))
           t == <<Tag[name]>>
<1>1. c \in Seq(Byte) /\ Len(c) \in Nat /\ Len(c) < Power(SizeBytes)
  BY DEF Measured
<1>2. t \in Seq(Byte) /\ l \in Seq(Byte)
  BY <1>1, TagIs, Short, LengthOctetsIs
<1>3. Header(Tag[name], Len(c)) = <<l, t>>
  BY DEF Header
<1>4. Tlv(name, c) = t \o (l \o c)
  BY DEF Tlv
<1> HIDE DEF l, t
<1>5. <<c>> \o <<l, t>> = <<c, l, t>>
  BY ONLY <1>1, <1>2, TwoListed
<1>6. Puts(<<c, l, t>>, t \o (l \o c))
  BY ONLY <1>1, <1>2, PutsThree
<1> QED
  BY ONLY <1>3, <1>4, <1>5, <1>6

(* the same with a byte between the header and the rest of the content,    *)
LEMMA PutsSigned ==
    ASSUME NEW c \in Seq(Byte), NEW z \in Seq(Byte), Len(z) = 1, NEW name \in TagNames,
           Len(c) + 1 < Power(SizeBytes)
    PROVE  /\ Measured(z \o c)
           /\ Puts(<<c, z>> \o Header(Tag[name], Len(c) + 1), Tlv(name, z \o c))
<1> DEFINE n == Len(c) + 1
           l == LengthOctets(n)
           t == <<Tag[name]>>
           d == z \o c
<1>1. n \in Nat /\ n < Power(SizeBytes) /\ d \in Seq(Byte) /\ Len(d) = n
  <2>1. d \in Seq(Byte) /\ Len(d) = Len(z) + Len(c) /\ Len(c) \in Nat
    BY Joined
  <2> HIDE DEF d
  <2> QED
    BY <2>1
<1>2. t \in Seq(Byte) /\ l \in Seq(Byte)
  BY <1>1, TagIs, Short, LengthOctetsIs
<1>3. Header(Tag[name], n) = <<l, t>>
  BY DEF Header
<1>4. Tlv(name, d) = t \o (l \o d)
  BY <1>1 DEF Tlv
<1>m. Measured(d)
  BY <1>1 DEF Measured
<1> HIDE DEF l, t
<1>5. <<c, z>> \o <<l, t>> = <<c, z, l, t>>
  <2> DEFINE S == Seq(Byte)
  <2>1. c \in S /\ z \in S /\ l \in S /\ t \in S
    BY <1>2
  <2> HIDE DEF S
  <2> QED
    BY ONLY <2>1, FourListed
<1>6. Puts(<<c, z, l, t>>, t \o (l \o (z \o c)))
  BY ONLY <1>2, c \in Seq(Byte), z \in Seq(Byte), PutsFour
<1> QED
  BY ONLY <1>m, <1>3, <1>4, <1>5, <1>6

(* and no content.                                                         *)
LEMMA PutsNone ==
    ASSUME NEW name \in TagNames
    PROVE  Puts(Header(Tag[name], 0), Tlv(name, <<>>)) /\ Measured(<<>>)
<1> DEFINE l == LengthOctets(0)
           t == <<Tag[name]>>
           e == <<>>
<1>1. e \in Seq(Byte) /\ Len(e) = 0 /\ 0 \in Nat /\ 0 < Power(SizeBytes)
  BY FitsSmall
<1>2. t \in Seq(Byte) /\ l \in Seq(Byte)
  BY <1>1, TagIs, Short, LengthOctetsIs
<1>3. Header(Tag[name], 0) = <<l, t>>
  BY DEF Header
<1>m. Measured(e)
  BY <1>1 DEF Measured
<1>e. LengthOctets(Len(e)) = l
  BY <1>1
<1> HIDE DEF l, t
<1>l. l \o e = l
  BY ONLY <1>2
<1>4. Tlv(name, e) = t \o l
  BY <1>e, <1>l DEF Tlv, t
<1>5. Puts(<<l, t>>, t \o l)
  BY ONLY <1>2, PutsTwo
<1> QED
  BY <1>m, <1>3, <1>4, <1>5

(* The strings come out as the element of an item.                         *)
Comes(it, parts) == \E c : Carries(it, c) /\ Puts(parts, Tlv(it.tag, c))

(* The fields of an item.                                                  *)
LEMMA ItemFields ==
    ASSUME NEW tag, NEW val, NEW kids
    PROVE  Item(tag, val, kids).tag = tag /\ Item(tag, val, kids).val = val
           /\ Item(tag, val, kids).kids = kids
BY DEF Item

(* A content a reader takes for the value.                                 *)
LEMMA PlainComes ==
    ASSUME NEW it, NEW c, Plain(it, c), Measured(c), it.tag \in TagNames
    PROVE  Comes(it, <<c>> \o Header(Tag[it.tag], Len(c)))
<1>1. Carries(it, c)
  BY DEF Carries
<1>2. Puts(<<c>> \o Header(Tag[it.tag], Len(c)), Tlv(it.tag, c))
  BY PutsPlain
<1> QED
  BY ONLY <1>1, <1>2 DEF Comes

(* The number of a string.                                                 *)
LEMMA IntegerComes ==
    ASSUME NEW s \in Seq(Byte), Fits(Len(s))
    PROVE  Comes(Item("integer", <<FromBE(s)>>, <<>>), IntegerParts(s))
<1> DEFINE a == Stripped(s)
           n == FromBE(s)
           it == Item("integer", <<n>>, <<>>)
           z == <<0>>
<1>1. a \in Seq(Byte) /\ Len(a) > 0 /\ Len(a) \in Nat /\ Fits(Len(a))
  BY StrippedIs, ContentFits
<1>2. Len(a) < Power(SizeBytes) /\ Len(a) + 1 < Power(SizeBytes)
  BY <1>1, FitsSmall
<1>3. it.tag = "integer" /\ it.val = <<n>> /\ it.kids = <<>>
  BY ItemFields
<1>4. "integer" \in TagNames
  BY DEF TagNames
<1>5. FromBE(a) = n
  BY StrippedBack
<1>z. a[1] # 0 \/ a = z
  BY StrippedBack
<1>c. \/ a[1] >= Half /\ IntegerParts(s) = <<a, z>> \o Header(Tag["integer"], Len(a) + 1)
      \/ ~ (a[1] >= Half) /\ IntegerParts(s) = <<a>> \o Header(Tag["integer"], Len(a))
  BY SMTT(60) DEF IntegerParts
<1>0. z \in Seq(Byte) /\ Len(z) = 1 /\ z[1] = 0
  BY Sizes, Short
<1>h. Half \in Nat /\ Half > 0
  BY Sizes
<1>b. a[1] \in Byte /\ a[1] \in Nat
  BY <1>1, ByteIs
<1> HIDE DEF a, n, it
<1>6. CASE ~ (a[1] >= Half)
  <2>1. MinimalInt(a)
    <3>1. ~ (Len(a) > 1 /\ a[1] = 0)
      <4>1. Len(a) = 1 \/ a[1] # 0
        BY ONLY <1>0, <1>z
      <4> DEFINE m == Len(a)
                 x == a[1]
      <4>2. m \in Nat /\ (m = 1 \/ x # 0)
        BY ONLY <1>1, <4>1
      <4> HIDE DEF m, x, z
      <4>3. ~ (m > 1 /\ x = 0)
        BY ONLY <4>2
      <4> QED
        BY ONLY <4>3 DEF m, x
    <3> QED
      BY <3>1 DEF MinimalInt
  <2>2. a[1] < Half /\ a # <<>>
    BY ONLY <1>1, <1>6, <1>b, <1>h
  <2>3. Plain(it, a)
    BY <1>3, <1>5, <2>1, <2>2 DEF Plain
  <2>4. Measured(a)
    BY <1>1, <1>2 DEF Measured
  <2>5. Comes(it, <<a>> \o Header(Tag["integer"], Len(a)))
    BY <1>3, <1>4, <2>3, <2>4, PlainComes
  <2> QED
    BY <1>6, <1>c, <2>5 DEF it, n
<1>7. CASE a[1] >= Half
  <2> DEFINE c == z \o a
  <2>1. /\ FromBE(c) = n /\ c \in Seq(Byte) /\ Len(c) = 1 + Len(a) /\ c[1] = 0 /\ Tail(c) = a
    BY ONLY <1>0, <1>1, <1>5, SignByte
  <2>p. /\ Measured(c)
        /\ Puts(<<a, z>> \o Header(Tag["integer"], Len(a) + 1), Tlv("integer", c))
    BY ONLY <1>0, <1>1, <1>2, <1>4, PutsSigned
  <2> HIDE DEF c
  <2>2. c[2] = a[1]
    <3>0. Len(c) > 1 /\ c \in Seq(Byte)
      BY ONLY <1>1, <2>1
    <3>1. Tail(c)[1] = c[2]
      BY ONLY <3>0
    <3> QED
      BY ONLY <2>1, <3>1
  <2>3. MinimalInt(c) /\ c[1] < Half /\ c # <<>>
    <3>1. ~ (c[2] < Half)
      BY ONLY <1>7, <1>b, <1>h, <2>2
    <3>2. c # <<>>
      BY ONLY <1>1, <2>1
    <3>3. c[1] < Half
      BY ONLY <1>h, <2>1
    <3> QED
      BY ONLY <3>1, <3>2, <3>3 DEF MinimalInt
  <2>4. Plain(it, c)
    BY <1>3, <2>1, <2>3 DEF Plain
  <2>5. Carries(it, c)
    BY <2>4, <2>p DEF Carries
  <2>6. Comes(it, <<a, z>> \o Header(Tag["integer"], Len(a) + 1))
    BY <1>3, <2>5, <2>p DEF Comes
  <2>7. IntegerParts(s) = <<a, z>> \o Header(Tag["integer"], Len(a) + 1)
    BY ONLY <1>7, <1>c
  <2> QED
    BY ONLY <2>6, <2>7 DEF it, n
<1> QED
  BY ONLY <1>6, <1>7

(* Strings of known lengths joined.                                        *)
LEMMA JoinedLen ==
    ASSUME NEW a \in Seq(Byte), NEW b \in Seq(Byte), NEW m \in Nat, NEW n \in Nat,
           Len(a) = m, Len(b) = n
    PROVE  a \o b \in Seq(Byte) /\ Len(a \o b) = m + n
BY Joined

(* A UTCTime is thirteen bytes.                                            *)
LEMMA UtcLength ==
    ASSUME NEW d \in Date
    PROVE  UtcDigits(d) \in Seq(Byte) /\ Len(UtcDigits(d)) = 13
<1>1. d.y \in Nat /\ d.m \in Nat /\ d.d \in Nat /\ d.h \in Nat /\ d.mi \in Nat /\ d.s \in Nat
  BY DEF Date
<1>2. d.y % 100 \in Nat
  BY <1>1, Digits2Is
<1>3. /\ Digits2(d.y % 100) \in Seq(Byte) /\ Digits2(d.m) \in Seq(Byte)
      /\ Digits2(d.d) \in Seq(Byte) /\ Digits2(d.h) \in Seq(Byte)
      /\ Digits2(d.mi) \in Seq(Byte) /\ Digits2(d.s) \in Seq(Byte)
  BY ONLY <1>1, <1>2, Digits2Is
<1>4. \A n : Len(Digits2(n)) = 2
  <2>1. ASSUME NEW n PROVE Len(Digits2(n)) = 2
    <3> DEFINE x == (n \div 10) % 10
               y == n % 10
    <3>1. Digits2(n) = <<x, y>>
      BY DEF Digits2
    <3> HIDE DEF x, y
    <3> QED
      BY <3>1
  <2> QED
    BY <2>1
<1>5. Zed \in Byte
  BY DerWriterAssumption
<1> DEFINE a == Digits2(d.y % 100)
           b == Digits2(d.m)
           c == Digits2(d.d)
           e == Digits2(d.h)
           f == Digits2(d.mi)
           g == Digits2(d.s)
           z == <<Zed>>
<1>6. z \in Seq(Byte) /\ Len(z) = 1
  BY <1>5, Short
<1>7. UtcDigits(d) = a \o b \o c \o e \o f \o g \o z
  BY DEF UtcDigits
<1>2s. Len(a) = 2 /\ Len(b) = 2 /\ Len(c) = 2 /\ Len(e) = 2 /\ Len(f) = 2 /\ Len(g) = 2
  BY ONLY <1>4
<1>8. /\ a \in Seq(Byte) /\ b \in Seq(Byte) /\ c \in Seq(Byte) /\ e \in Seq(Byte)
      /\ f \in Seq(Byte) /\ g \in Seq(Byte)
      /\ Len(a) = 2 /\ Len(b) = 2 /\ Len(c) = 2 /\ Len(e) = 2 /\ Len(f) = 2 /\ Len(g) = 2
  BY ONLY <1>3, <1>2s
<1> HIDE DEF a, b, c, e, f, g, z
<1>n. 2 \in Nat /\ 4 \in Nat /\ 6 \in Nat /\ 8 \in Nat /\ 10 \in Nat /\ 12 \in Nat /\ 1 \in Nat
  OBVIOUS
<1>9. a \o b \in Seq(Byte) /\ Len(a \o b) = 4
  <2>1. a \o b \in Seq(Byte) /\ Len(a \o b) = Len(a) + Len(b)
    BY ONLY <1>8, Joined
  <2> QED
    BY ONLY <1>8, <2>1
<1>10. a \o b \o c \in Seq(Byte) /\ Len(a \o b \o c) = 6
  BY ONLY <1>8, <1>9, <1>n, JoinedLen
<1>11. a \o b \o c \o e \in Seq(Byte) /\ Len(a \o b \o c \o e) = 8
  BY ONLY <1>8, <1>10, <1>n, JoinedLen
<1>12. a \o b \o c \o e \o f \in Seq(Byte) /\ Len(a \o b \o c \o e \o f) = 10
  BY ONLY <1>8, <1>11, <1>n, JoinedLen
<1>13. a \o b \o c \o e \o f \o g \in Seq(Byte) /\ Len(a \o b \o c \o e \o f \o g) = 12
  BY ONLY <1>8, <1>12, <1>n, JoinedLen
<1>14. a \o b \o c \o e \o f \o g \o z \in Seq(Byte) /\ Len(a \o b \o c \o e \o f \o g \o z) = 13
  <2> DEFINE y == a \o b \o c \o e \o f \o g
  <2>0. y \in Seq(Byte) /\ Len(y) = 12
    BY ONLY <1>13
  <2> HIDE DEF y
  <2>1. y \o z \in Seq(Byte) /\ Len(y \o z) = Len(y) + Len(z)
    BY ONLY <1>6, <2>0, Joined
  <2>2. y \o z \in Seq(Byte) /\ Len(y \o z) = 13
    BY ONLY <1>6, <2>0, <2>1
  <2> QED
    BY ONLY <2>2 DEF y
<1> QED
  BY <1>7, <1>14

(* Every value a caller may write comes out as its element.                *)
LEMMA ItemComes ==
    ASSUME NEW v, Writable(v), ~ (v.kind = "bits" /\ ~ BitStringTaken(v.bytes, v.val))
    PROVE  Comes(ItemOf(v), PartsOf(v))
<1>f. /\ \A n \in Nat : Fits(n) => n < Power(SizeBytes) /\ n + 1 < Power(SizeBytes)
      /\ 0 < Power(SizeBytes) /\ Fits(1)
  BY FitsSmall
<1>b. v.kind # "words" => v.bytes \in Seq(Byte) /\ Fits(Len(v.bytes)) /\ Len(v.bytes) \in Nat
  BY DEF Writable, Fits
<1> DEFINE it == ItemOf(v)
<1>1. CASE v.kind = "null"
  <2> DEFINE e == <<>>
  <2>1. PartsOf(v) = Header(Tag["null"], 0) /\ it = Item("null", e, e)
    BY <1>1 DEF PartsOf, ItemOf
  <2> HIDE DEF it
  <2>2. it.tag = "null" /\ it.kids = <<>>
    BY <2>1, ItemFields
  <2>3. "null" \in TagNames
    BY DEF TagNames
  <2>4. Puts(Header(Tag["null"], 0), Tlv("null", <<>>)) /\ Measured(<<>>)
    BY ONLY <2>3, PutsNone
  <2>5. Plain(it, <<>>)
    BY <2>2 DEF Plain
  <2>6. Carries(it, <<>>)
    BY <2>4, <2>5 DEF Carries
  <2>7. Puts(PartsOf(v), Tlv(it.tag, <<>>))
    BY ONLY <2>1, <2>2, <2>4
  <2> QED
    BY <2>6, <2>7 DEF Comes, it
<1>2. CASE v.kind = "boolean"
  <2> DEFINE b == IF v.val = 0 THEN 0 ELSE Base - 1
             x == IF v.val = 0 THEN 0 ELSE 1
             c == <<b>>
             e == <<>>
  <2>1. PartsOf(v) = <<c>> \o Header(Tag["boolean"], 1) /\ it = Item("boolean", <<x>>, e)
    BY <1>2 DEF PartsOf, ItemOf
  <2> HIDE DEF it
  <2>2. it.tag = "boolean" /\ it.kids = <<>> /\ it.val = <<x>>
    BY <2>1, ItemFields
  <2>3. "boolean" \in TagNames
    BY DEF TagNames
  <2>4. b \in Byte /\ x = (IF b # 0 THEN 1 ELSE 0)
    <3>1. b \in Nat /\ b < Base
      BY Sizes
    <3>2. Base - 1 # 0
      BY Sizes
    <3>3. x = (IF b # 0 THEN 1 ELSE 0)
      BY <3>2
    <3> QED
      BY <3>1, <3>3, ByteIs
  <2> HIDE DEF b, x
  <2>5. c \in Seq(Byte) /\ Len(c) = 1 /\ c[1] = b
    BY <2>4, Short
  <2>6. Measured(c)
    <3>1. 1 \in Nat /\ 1 < Power(SizeBytes)
      BY <1>f
    <3> QED
      BY <2>5, <3>1 DEF Measured
  <2> HIDE DEF c
  <2>7. Plain(it, c)
    <3>1. it.val = <<IF c[1] # 0 THEN 1 ELSE 0>>
      BY <2>2, <2>4, <2>5
    <3> QED
      BY <2>2, <2>5, <3>1 DEF Plain
  <2>8. Comes(it, <<c>> \o Header(Tag[it.tag], Len(c)))
    BY <2>2, <2>3, <2>6, <2>7, PlainComes
  <2> QED
    BY <2>1, <2>2, <2>5, <2>8 DEF it
<1>3. CASE v.kind = "integer"
  <2>1. PartsOf(v) = IntegerParts(v.bytes) /\ it = Item("integer", <<FromBE(v.bytes)>>, <<>>)
    BY <1>3 DEF PartsOf, ItemOf
  <2> QED
    BY <1>3, <1>b, <2>1, IntegerComes
<1>4. CASE v.kind = "u64"
  <2>1. PartsOf(v) = IntegerParts(U64Octets(v.val)) /\ it = Item("integer", <<v.val>>, <<>>)
    BY <1>4 DEF PartsOf, ItemOf
  <2>2. v.val \in Nat /\ v.val < Power(U64Bytes)
    <3>1. v.val \in 0 .. Power(U64Bytes) - 1 /\ U64Bytes \in Nat
      BY <1>4, DerAssumption DEF Writable
    <3>2. Power(U64Bytes) \in Nat
      BY <3>1, PowerGrows
    <3> QED
      BY ONLY <3>1, <3>2
  <2>3. Content(U64Octets(v.val), U64Bytes)
    BY <2>2, U64OctetsIs
  <2>4. U64Bytes \in Nat /\ Fits(U64Bytes)
    BY DerAssumption
  <2>5. U64Octets(v.val) \in Seq(Byte) /\ Fits(Len(U64Octets(v.val)))
    BY <2>3, <2>4, ContentFits
  <2>6. FromBE(U64Octets(v.val)) = v.val
    BY <2>2, U64Back
  <2>7. Comes(Item("integer", <<FromBE(U64Octets(v.val))>>, <<>>), IntegerParts(U64Octets(v.val)))
    BY ONLY <2>5, IntegerComes
  <2> QED
    BY <2>1, <2>6, <2>7
<1>5. CASE v.kind = "words"
  <2> DEFINE o == WordsOctets(v.bytes)
             q == Stripped(o)
  <2>1. PartsOf(v) = IntegerParts(q) /\ it = Item("integer", <<FromBE(o)>>, <<>>)
    BY <1>5 DEF PartsOf, ItemOf
  <2>2. v.bytes \in Seq(Nat) /\ Fits(Len(v.bytes) * WordBytes)
    BY <1>5 DEF Writable
  <2>3. o \in Seq(Byte) /\ Len(o) = Len(v.bytes) * WordBytes
    BY <2>2, WordsOctetsIs
  <2> HIDE DEF o
  <2>4. Content(q, Len(o)) /\ Len(o) \in Nat /\ Fits(Len(o))
    BY <2>2, <2>3, StrippedIs
  <2>5. q \in Seq(Byte) /\ Fits(Len(q))
    BY <2>4, ContentFits
  <2>6. FromBE(q) = FromBE(o)
    BY <2>3, StrippedBack
  <2> HIDE DEF q
  <2>7. Comes(Item("integer", <<FromBE(q)>>, <<>>), IntegerParts(q))
    BY ONLY <2>5, IntegerComes
  <2> QED
    BY <2>1, <2>6, <2>7
<1>6. CASE v.kind = "bits"
  <2> DEFINE z == <<v.val>>
             c == z \o v.bytes
             e == <<>>
  <2>1. /\ PartsOf(v) = <<v.bytes, z>> \o Header(Tag["bits"], Len(v.bytes) + 1)
        /\ it = Item("bits", v.bytes, e)
    BY <1>6 DEF PartsOf, ItemOf
  <2> HIDE DEF it
  <2>2. it.tag = "bits" /\ it.kids = <<>> /\ it.val = v.bytes
    BY <2>1, ItemFields
  <2>3. v.val \in Byte
    <3>1. v.val \in Nat /\ v.val < Bits
      BY <1>6 DEF Writable, BitStringTaken
    <3>2. Bits < Base /\ Base \in Nat /\ Bits \in Nat
      BY DerWriterAssumption
    <3>3. v.val < Base
      BY ONLY <3>1, <3>2
    <3> QED
      BY <3>1, <3>3, ByteIs
  <2>4. z \in Seq(Byte) /\ Len(z) = 1
    BY <2>3, Short
  <2>5. v.bytes \in Seq(Byte) /\ Len(v.bytes) + 1 < Power(SizeBytes)
    BY <1>6, <1>b, <1>f
  <2>6. "bits" \in TagNames
    BY DEF TagNames
  <2>7. c # <<>> /\ Head(c) = v.val /\ Tail(c) = v.bytes
    <3>1. IsList(v.bytes)
      BY <2>5 DEF IsList
    <3> QED
      BY ONLY <3>1, ListCons
  <2> HIDE DEF z
  <2>8. /\ Measured(c)
        /\ Puts(<<v.bytes, z>> \o Header(Tag["bits"], Len(v.bytes) + 1), Tlv("bits", c))
    BY ONLY <2>4, <2>5, <2>6, PutsSigned
  <2> HIDE DEF c
  <2>9. BitStringTaken(v.bytes, v.val)
    BY <1>6
  <2>10. Plain(it, c)
    BY <2>2, <2>7, <2>9 DEF Plain
  <2>11. Carries(it, c)
    BY <2>8, <2>10 DEF Carries
  <2>12. Puts(PartsOf(v), Tlv(it.tag, c))
    BY ONLY <2>1, <2>2, <2>8
  <2> QED
    BY <2>11, <2>12 DEF Comes, it
<1>7. CASE v.kind = "time"
  <2> DEFINE c == UtcDigits(v.val)
             e == <<>>
  <2>1. PartsOf(v) = <<c>> \o Header(Tag["utctime"], 13) /\ it = Item("utctime", <<v.val>>, e)
    BY <1>7 DEF PartsOf, ItemOf
  <2> HIDE DEF it
  <2>2. it.tag = "utctime" /\ it.kids = <<>> /\ it.val = <<v.val>>
    BY <2>1, ItemFields
  <2>3. "utctime" \in TagNames
    BY DEF TagNames
  <2>4. v.val \in Date
    BY <1>7 DEF Writable
  <2>5. c \in Seq(Byte) /\ Len(c) = 13
    BY ONLY <2>4, UtcLength
  <2>6. 13 < Power(SizeBytes)
    <3>1. Fits(13) /\ 13 \in Nat
      BY DerAssumption
    <3> QED
      BY <1>f, <3>1
  <2>7. Plain(it, c)
    BY <2>2, <2>4 DEF Plain
  <2> HIDE DEF c
  <2>8. Measured(c)
    BY <2>5, <2>6 DEF Measured
  <2>9. Comes(it, <<c>> \o Header(Tag[it.tag], Len(c)))
    BY <2>2, <2>3, <2>7, <2>8, PlainComes
  <2> QED
    BY <2>1, <2>2, <2>5, <2>9 DEF it
<1>8. CASE v.kind \in {"octets", "oid", "utf8"}
  <2> DEFINE c == v.bytes
             e == <<>>
  <2>1. PartsOf(v) = <<c>> \o Header(Tag[v.kind], Len(c)) /\ it = Item(v.kind, c, e)
    BY <1>8 DEF PartsOf, ItemOf
  <2> HIDE DEF it
  <2>2. it.tag = v.kind /\ it.kids = <<>> /\ it.val = c
    BY <2>1, ItemFields
  <2>3. v.kind \in TagNames
    BY <1>8 DEF TagNames
  <2>4. Measured(c)
    BY <1>8, <1>b, <1>f DEF Measured
  <2> HIDE DEF c
  <2>5. Plain(it, c)
    BY <1>8, <2>2 DEF Plain
  <2>6. Comes(it, <<c>> \o Header(Tag[it.tag], Len(c)))
    BY <2>2, <2>3, <2>4, <2>5, PlainComes
  <2> QED
    BY <2>1, <2>2, <2>6, SMTT(60) DEF it
<1> QED
  BY <1>1, <1>2, <1>3, <1>4, <1>5, <1>6, <1>7, <1>8 DEF Writable

(* The end of a container with b in it puts the rest of its element.       *)
Closes(it, parts, b) ==
    \E c, p : /\ Carries(it, c) /\ Tlv(it.tag, c) = p \o b
              /\ p \in Seq(Byte) /\ Puts(parts, p)

(* A sequence or a set that ends,                                          *)
LEMMA BoxCloses ==
    ASSUME NEW b \in Seq(Byte), Fits(Len(b)), NEW kids, Laid(kids, b),
           NEW name \in {"sequence", "set"}
    PROVE  Closes(Item(name, <<>>, kids), Header(Tag[name], Len(b)), b)
<1> DEFINE e == <<>>
           it == Item(name, e, kids)
           l == LengthOctets(Len(b))
           t == <<Tag[name]>>
<1>1. Len(b) \in Nat /\ Len(b) < Power(SizeBytes)
  BY FitsSmall DEF Fits
<1>2. it.tag = name /\ it.val = <<>> /\ it.kids = kids
  BY ItemFields
<1>3. name \in TagNames /\ name \in Containers /\ name # "bits"
  BY DEF TagNames, Containers
<1>4. t \in Seq(Byte) /\ l \in Seq(Byte)
  BY <1>1, <1>3, TagIs, Short, LengthOctetsIs
<1>5. Header(Tag[name], Len(b)) = <<l, t>> /\ Tlv(name, b) = t \o (l \o b)
  BY DEF Header, Tlv
<1>6. Boxed(it, b, b)
  BY <1>2, <1>3 DEF Boxed
<1> HIDE DEF l, t, it, e
<1>7. Carries(it, b)
  BY <1>1, <1>2, <1>6 DEF Carries, Measured
<1>8. Puts(<<l, t>>, t \o l) /\ t \o l \in Seq(Byte)
  BY ONLY <1>4, PutsTwo, Joined
<1>9. t \o (l \o b) = (t \o l) \o b
  <2> DEFINE S == Byte
  <2>1. t \in Seq(S) /\ l \in Seq(S) /\ b \in Seq(S)
    BY <1>4
  <2> HIDE DEF S
  <2> QED
    BY ONLY <2>1, ConcatAssociative, SMTT(60)
<1> DEFINE p == t \o l
<1> HIDE DEF p
<1>10. Tlv(it.tag, b) = p \o b
  BY ONLY <1>2, <1>5, <1>9 DEF p
<1>11. Puts(Header(Tag[name], Len(b)), p) /\ p \in Seq(Byte)
  BY ONLY <1>5, <1>8 DEF p
<1>12. Closes(it, Header(Tag[name], Len(b)), b)
  BY ONLY <1>7, <1>10, <1>11 DEF Closes
<1> QED
  BY ONLY <1>12 DEF it, e

(* and a bit string.                                                       *)
LEMMA BitsClose ==
    ASSUME NEW b \in Seq(Byte), Fits(Len(b)), NEW kids, Laid(kids, b)
    PROVE  Closes(Item("bits", <<>>, kids), <<<<0>>>> \o Header(Tag["bits"], Len(b) + 1), b)
<1> DEFINE e == <<>>
           it == Item("bits", e, kids)
           n == Len(b) + 1
           l == LengthOctets(n)
           t == <<Tag["bits"]>>
           z == <<0>>
           c == z \o b
           p == t \o (l \o z)
<1>1. n \in Nat /\ n < Power(SizeBytes)
  BY FitsSmall DEF Fits
<1>2. it.tag = "bits" /\ it.val = <<>> /\ it.kids = kids
  BY ItemFields
<1>3. "bits" \in TagNames /\ "bits" \in Containers
  BY DEF TagNames, Containers
<1>4. t \in Seq(Byte) /\ l \in Seq(Byte) /\ z \in Seq(Byte) /\ Len(z) = 1
  BY <1>1, <1>3, TagIs, Sizes, Short, LengthOctetsIs
<1>c. c \in Seq(Byte) /\ Len(c) = n
  <2>1. c \in Seq(Byte) /\ Len(c) = Len(z) + Len(b) /\ Len(b) \in Nat
    BY <1>4, Joined
  <2> HIDE DEF c, z
  <2> QED
    BY <1>4, <2>1
<1>5. Header(Tag["bits"], n) = <<l, t>> /\ Tlv("bits", c) = t \o (l \o c)
  BY <1>c, SMTT(60) DEF Header, Tlv
<1>6. Boxed(it, c, b)
  BY <1>2, <1>3 DEF Boxed
<1> HIDE DEF l, t, it, e, z, n
<1>7. Carries(it, c)
  BY <1>1, <1>2, <1>6, <1>c DEF Carries, Measured
<1>8. Puts(<<z, l, t>>, p) /\ p \in Seq(Byte)
  BY ONLY <1>4, PutsThree, Joined
<1>9. t \o (l \o c) = p \o b
  <2> DEFINE S == Byte
  <2>1. t \in Seq(S) /\ l \in Seq(S) /\ z \in Seq(S) /\ b \in Seq(S)
    BY <1>4
  <2> HIDE DEF S
  <2>2. (l \o z) \o b = l \o (z \o b)
    BY ONLY <2>1, SMTT(60), ConcatAssociative
  <2>3. l \o z \in Seq(S)
    BY ONLY <2>1, 1 \in Nat \ {0}, Data!ConcatFacts
  <2>4. (t \o (l \o z)) \o b = t \o ((l \o z) \o b)
    BY ONLY <2>1, <2>3, SMTT(60), ConcatAssociative
  <2> QED
    BY ONLY <2>2, <2>4
<1>10. <<z>> \o <<l, t>> = <<z, l, t>>
  BY ONLY <1>4, TwoListed
<1> HIDE DEF p, c
<1>11. Tlv(it.tag, c) = p \o b
  BY ONLY <1>2, <1>5, <1>9
<1>12. Puts(<<z>> \o Header(Tag["bits"], n), p) /\ p \in Seq(Byte)
  BY ONLY <1>5, <1>8, <1>10
<1>13. Closes(it, <<z>> \o Header(Tag["bits"], n), b)
  BY ONLY <1>7, <1>11, <1>12 DEF Closes
<1> QED
  BY ONLY <1>13 DEF it, e, z, n

-----------------------------------------------------------------------------
(* What the writer's bytes hold, container by container.  A place is a     *)
(* number of bytes from the beginning of the buffer, so it is not moved by *)
(* what is written in front.                                               *)

(* The bytes from one place to another.                                    *)
Stretch(w, from, to) == SubSeq(w.out, (from - WriterPos(w)) + 1, to - WriterPos(w))

Places(w, a, b) ==
    /\ IsWriter(w) /\ a \in Nat /\ b \in Nat
    /\ WriterPos(w) <= a /\ a <= b /\ b <= w.room

(* Which bytes they are.                                                   *)
LEMMA StretchIs ==
    ASSUME NEW w, NEW a, NEW b, Places(w, a, b)
    PROVE  /\ Stretch(w, a, b) \in Seq(Byte) /\ Len(Stretch(w, a, b)) = b - a
           /\ b - a \in Nat
           /\ \A k \in 1 .. b - a : Stretch(w, a, b)[k] = w.out[k + (a - WriterPos(w))]
<1> DEFINE pos == WriterPos(w)
           i == (a - pos) + 1
           j == b - pos
           s == w.out
<1>1. /\ a \in Nat /\ b \in Nat /\ pos \in Nat /\ pos <= a /\ a <= b /\ b <= w.room
      /\ w.room \in Nat /\ s \in Seq(Byte) /\ Len(s) \in Nat
  BY WriterFacts DEF Places
<1>2. pos = w.room - Len(s)
  BY DEF WriterPos
<1> HIDE DEF pos, s
<1>3. /\ i \in Nat \ {0} /\ j \in Nat /\ i <= j + 1 /\ j <= Len(s) /\ (j + 1) - i = b - a
      /\ b - a \in Nat
  <2> DEFINE r == w.room
             l == Len(s)
  <2>1. /\ a \in Nat /\ b \in Nat /\ pos \in Nat /\ pos <= a /\ a <= b /\ b <= r
        /\ r \in Nat /\ l \in Nat /\ pos = r - l
    BY ONLY <1>1, <1>2
  <2> HIDE DEF r, l
  <2>2. /\ i \in Nat \ {0} /\ j \in Nat /\ i <= j + 1 /\ j <= l /\ (j + 1) - i = b - a
        /\ b - a \in Nat
    BY ONLY <2>1
  <2> QED
    BY ONLY <2>2 DEF l
<1>4. \A k \in 1 .. b - a : k + i - 1 = k + (a - pos)
  BY ONLY <1>1
<1>5. Stretch(w, a, b) = SubSeq(s, i, j)
  BY DEF Stretch, pos, s
<1> HIDE DEF i, j
<1>6. /\ SubSeq(s, i, j) \in Seq(Byte) /\ Len(SubSeq(s, i, j)) = (j + 1) - i
      /\ \A k \in 1 .. (j + 1) - i : SubSeq(s, i, j)[k] = s[k + i - 1]
  BY ONLY <1>1, <1>3, Cut
<1>7. \A k \in 1 .. b - a : SubSeq(s, i, j)[k] = s[k + (a - pos)]
  BY ONLY <1>3, <1>4, <1>6
<1> QED
  BY <1>3, <1>5, <1>6, <1>7 DEF pos, s

(* Nothing is between a place and itself.                                  *)
LEMMA StretchNone ==
    ASSUME NEW w, NEW a, Places(w, a, a)
    PROVE  Stretch(w, a, a) = <<>>
<1>1. Stretch(w, a, a) \in Seq(Byte) /\ Len(Stretch(w, a, a)) = a - a /\ a \in Nat
  BY StretchIs DEF Places
<1> DEFINE s == Stretch(w, a, a)
<1> HIDE DEF s
<1>2. s \in Seq(Byte) /\ Len(s) = 0
  BY <1>1 DEF s
<1>3. s = <<>>
  BY ONLY <1>2
<1> QED
  BY <1>3 DEF s

(* Two stretches are one.                                                  *)
LEMMA StretchJoin ==
    ASSUME NEW w, NEW a, NEW b, NEW c, Places(w, a, b), Places(w, b, c)
    PROVE  Stretch(w, a, b) \o Stretch(w, b, c) = Stretch(w, a, c) /\ Places(w, a, c)
<1> DEFINE pos == WriterPos(w)
           i == (a - pos) + 1
           j == b - pos
           k == c - pos
           s == w.out
<1>1. /\ a \in Nat /\ b \in Nat /\ c \in Nat /\ pos \in Nat
      /\ pos <= a /\ a <= b /\ b <= c /\ c <= w.room
      /\ w.room \in Nat /\ s \in Seq(Byte) /\ Len(s) \in Nat /\ IsWriter(w)
  BY WriterFacts DEF Places
<1>2. pos = w.room - Len(s)
  BY DEF WriterPos
<1>p. Places(w, a, c)
  <2>1. a <= c
    BY ONLY <1>1
  <2> QED
    BY <1>1, <2>1 DEF Places
<1> HIDE DEF pos, s
<1>3. /\ i \in Nat \ {0} /\ j \in Nat /\ k \in Nat /\ i <= j + 1 /\ j <= k /\ k <= Len(s)
  <2> DEFINE r == w.room
             l == Len(s)
  <2>1. /\ a \in Nat /\ b \in Nat /\ c \in Nat /\ pos \in Nat
        /\ pos <= a /\ a <= b /\ b <= c /\ c <= r
        /\ r \in Nat /\ l \in Nat /\ pos = r - l
    BY ONLY <1>1, <1>2
  <2> HIDE DEF r, l
  <2>2. /\ i \in Nat \ {0} /\ j \in Nat /\ k \in Nat /\ i <= j + 1 /\ j <= k /\ k <= l
    BY ONLY <2>1
  <2> QED
    BY ONLY <2>2 DEF l
<1>5. /\ Stretch(w, a, b) = SubSeq(s, i, j) /\ Stretch(w, b, c) = SubSeq(s, j + 1, k)
      /\ Stretch(w, a, c) = SubSeq(s, i, k)
  BY DEF Stretch, pos, s
<1> HIDE DEF i, j, k
<1>6. SubSeq(s, i, j) \o SubSeq(s, j + 1, k) = SubSeq(s, i, k)
  BY ONLY <1>1, <1>3, CutJoin
<1> QED
  BY ONLY <1>p, <1>5, <1>6

(* u is the writer w with p in front of its bytes.                         *)
InFront(w, u, p) ==
    /\ IsWriter(w) /\ IsWriter(u) /\ u.room = w.room
    /\ p \in Seq(Byte) /\ u.out = p \o w.out

(* The bytes of the one and of the other.                                  *)
LEMMA InFrontIs ==
    ASSUME NEW w, NEW u, NEW p, InFront(w, u, p)
    PROVE  /\ WriterPos(u) \in Nat /\ WriterPos(w) \in Nat /\ Len(p) \in Nat
           /\ WriterPos(u) + Len(p) = WriterPos(w)
           /\ \A k \in 1 .. Len(p) : u.out[k] = p[k]
           /\ \A k \in 1 .. Len(w.out) : u.out[k + Len(p)] = w.out[k]
<1> DEFINE s == w.out
           t == u.out
           S == Byte
<1>1. /\ s \in Seq(S) /\ p \in Seq(S) /\ t = p \o s /\ u.room = w.room /\ w.room \in Nat
      /\ WriterPos(u) \in Nat /\ WriterPos(w) \in Nat
  BY WriterFacts DEF InFront
<1>2. WriterPos(u) = u.room - Len(t) /\ WriterPos(w) = w.room - Len(s)
  BY DEF WriterPos
<1> HIDE DEF s, t, S
<1>3. Len(p) \in Nat /\ Len(s) \in Nat /\ Len(t) = Len(p) + Len(s)
  BY ONLY <1>1, 1 \in Nat \ {0}, Data!ConcatFacts
<1>4. \A i \in 1 .. Len(p) + Len(s) : t[i] = IF i <= Len(p) THEN p[i] ELSE s[i - Len(p)]
  BY ONLY <1>1, ConcatProperties
<1>5. \A k \in 1 .. Len(p) : t[k] = p[k]
  BY ONLY <1>3, <1>4
<1>6. \A k \in 1 .. Len(s) : t[k + Len(p)] = s[k]
  BY ONLY <1>3, <1>4
<1>7. WriterPos(u) + Len(p) = WriterPos(w)
  BY ONLY <1>1, <1>2, <1>3
<1> QED
  BY <1>1, <1>3, <1>5, <1>6, <1>7 DEF s, t

(* What was there before is where it was,                                  *)
LEMMA StretchKept ==
    ASSUME NEW w, NEW u, NEW p, InFront(w, u, p), NEW a, NEW b, Places(w, a, b)
    PROVE  Places(u, a, b) /\ Stretch(u, a, b) = Stretch(w, a, b)
<1>1. /\ WriterPos(u) \in Nat /\ WriterPos(w) \in Nat /\ Len(p) \in Nat
      /\ WriterPos(u) + Len(p) = WriterPos(w)
      /\ \A k \in 1 .. Len(w.out) : u.out[k + Len(p)] = w.out[k]
  BY InFrontIs
<1>2. /\ a \in Nat /\ b \in Nat /\ WriterPos(w) <= a /\ a <= b /\ b <= w.room
      /\ IsWriter(u) /\ u.room = w.room /\ w.room \in Nat /\ Len(w.out) \in Nat
      /\ WriterPos(w) = w.room - Len(w.out)
  BY WriterFacts DEF Places, InFront, WriterPos
<1>3. Places(u, a, b)
  <2>1. WriterPos(u) <= a
    BY ONLY <1>1, <1>2
  <2> QED
    BY <1>2, <2>1 DEF Places
<1>4. /\ Stretch(w, a, b) \in Seq(Byte) /\ Len(Stretch(w, a, b)) = b - a /\ b - a \in Nat
      /\ \A k \in 1 .. b - a : Stretch(w, a, b)[k] = w.out[k + (a - WriterPos(w))]
  BY StretchIs
<1>5. /\ Stretch(u, a, b) \in Seq(Byte) /\ Len(Stretch(u, a, b)) = b - a
      /\ \A k \in 1 .. b - a : Stretch(u, a, b)[k] = u.out[k + (a - WriterPos(u))]
  BY <1>3, StretchIs
<1>6. ASSUME NEW k \in 1 .. b - a PROVE Stretch(u, a, b)[k] = Stretch(w, a, b)[k]
  <2> DEFINE q == k + (a - WriterPos(w))
  <2>1. q \in 1 .. Len(w.out) /\ q + Len(p) = k + (a - WriterPos(u))
    <3> DEFINE r == w.room
               l == Len(w.out)
               n == WriterPos(w)
               o == WriterPos(u)
               m == Len(p)
    <3>1. /\ a \in Nat /\ b \in Nat /\ n \in Nat /\ o \in Nat /\ m \in Nat /\ r \in Nat /\ l \in Nat
          /\ o + m = n /\ n <= a /\ a <= b /\ b <= r /\ n = r - l
      BY ONLY <1>1, <1>2
    <3> HIDE DEF r, l, n, o, m
    <3>2. k + (a - n) \in 1 .. l /\ (k + (a - n)) + m = k + (a - o)
      BY ONLY <3>1, k \in 1 .. b - a
    <3> QED
      BY ONLY <3>2 DEF l, n, o, m
  <2> HIDE DEF q
  <2>2. u.out[q + Len(p)] = w.out[q]
    BY ONLY <1>1, <2>1
  <2>3. Stretch(w, a, b)[k] = w.out[q]
    BY <1>4 DEF q
  <2>4. Stretch(u, a, b)[k] = u.out[q + Len(p)]
    BY ONLY <1>5, <2>1, k \in 1 .. b - a
  <2> QED
    BY ONLY <2>2, <2>3, <2>4
<1> DEFINE x == Stretch(u, a, b)
           y == Stretch(w, a, b)
<1>7. x \in Seq(Byte) /\ y \in Seq(Byte) /\ Len(x) = Len(y) /\ Len(y) = b - a
  BY <1>4, <1>5
<1>8. \A k \in 1 .. b - a : x[k] = y[k]
  BY <1>6
<1> HIDE DEF x, y
<1>9. x = y
  BY ONLY <1>7, <1>8, SeqEqual
<1> QED
  BY <1>3, <1>9 DEF x, y

(* and what is new is in front of it.                                      *)
LEMMA StretchNew ==
    ASSUME NEW w, NEW u, NEW p, InFront(w, u, p), NEW b, Places(w, WriterPos(w), b)
    PROVE  /\ Places(u, WriterPos(u), b)
           /\ Stretch(u, WriterPos(u), b) = p \o Stretch(w, WriterPos(w), b)
<1> DEFINE a == WriterPos(w)
           o == WriterPos(u)
<1>1. /\ o \in Nat /\ a \in Nat /\ Len(p) \in Nat /\ o + Len(p) = a
      /\ \A k \in 1 .. Len(p) : u.out[k] = p[k]
  BY InFrontIs
<1>2. /\ b \in Nat /\ a <= b /\ b <= w.room /\ IsWriter(u) /\ u.room = w.room
      /\ p \in Seq(Byte)
  BY DEF Places, InFront
<1>3. Places(u, o, a)
  <2>1. o <= a /\ a <= u.room
    BY <1>1, <1>2, WriterFacts DEF InFront
  <2> QED
    BY <1>1, <1>2, <2>1 DEF Places
<1>4. Stretch(u, a, b) = Stretch(w, a, b) /\ Places(u, a, b)
  BY StretchKept
<1>5. Stretch(u, o, a) = p
  <2>1. /\ Stretch(u, o, a) \in Seq(Byte) /\ Len(Stretch(u, o, a)) = a - o
        /\ \A k \in 1 .. a - o : Stretch(u, o, a)[k] = u.out[k + (o - o)]
    BY <1>3, StretchIs
  <2> DEFINE x == Stretch(u, o, a)
  <2> HIDE DEF x, a, o
  <2>2. x \in Seq(Byte) /\ Len(x) = Len(p)
    BY <1>1, <2>1 DEF x
  <2>3. \A k \in 1 .. Len(p) : k \in 1 .. a - o /\ k + (o - o) = k
    BY ONLY <1>1
  <2>4. \A k \in 1 .. Len(p) : x[k] = u.out[k]
    BY <2>1, <2>3 DEF x
  <2>5. \A k \in 1 .. Len(p) : x[k] = p[k]
    BY ONLY <1>1, <2>4
  <2>6. x = p
    BY ONLY <1>2, <2>2, <2>5, SeqEqual
  <2> QED
    BY <2>6 DEF x
<1>6. Stretch(u, o, a) \o Stretch(u, a, b) = Stretch(u, o, b) /\ Places(u, o, b)
  BY ONLY <1>3, <1>4, StretchJoin
<1> QED
  BY ONLY <1>4, <1>5, <1>6

(* The bytes of a writer are those from its place to its room.             *)
LEMMA StretchAll ==
    ASSUME NEW w, IsWriter(w)
    PROVE  /\ Places(w, WriterPos(w), w.room) /\ Places(w, WriterPos(w), WriterPos(w))
           /\ Stretch(w, WriterPos(w), w.room) = w.out
<1> DEFINE o == WriterPos(w)
           s == w.out
<1>1. /\ w.room \in Nat /\ s \in Seq(Byte) /\ Len(s) \in Nat /\ o \in Nat /\ o <= w.room
      /\ o = w.room - Len(s)
  BY WriterFacts DEF WriterPos
<1>2. Places(w, o, w.room) /\ Places(w, o, o)
  <2>1. o <= o
    BY <1>1
  <2> QED
    BY <1>1, <2>1 DEF Places
<1> HIDE DEF o, s
<1>3. /\ Stretch(w, o, w.room) \in Seq(Byte) /\ Len(Stretch(w, o, w.room)) = w.room - o
      /\ \A k \in 1 .. w.room - o : Stretch(w, o, w.room)[k] = s[k + (o - o)]
  BY <1>2, StretchIs DEF o, s
<1> DEFINE x == Stretch(w, o, w.room)
<1> HIDE DEF x
<1>4. x \in Seq(Byte) /\ Len(x) = Len(s)
  BY <1>1, <1>3 DEF x
<1>5. \A k \in 1 .. Len(s) : k \in 1 .. w.room - o /\ k + (o - o) = k
  BY ONLY <1>1
<1>6. \A k \in 1 .. Len(s) : x[k] = s[k]
  BY <1>3, <1>5 DEF x
<1>7. x = s
  BY ONLY <1>1, <1>4, <1>6, SeqEqual
<1> QED
  BY <1>2, <1>7 DEF x, o, s

(* Where the bytes of the ith container begin: where the next one ends.    *)
Edge(fs, w, i) == IF i = Len(fs) THEN WriterPos(w) ELSE fs[i + 1].start

(* What a container holds so far is what was written in it.                *)
Segment(fs, w, i) ==
    /\ Places(w, Edge(fs, w, i), fs[i].start)
    /\ Laid(fs[i].items, Stretch(w, Edge(fs, w, i), fs[i].start))

Laying(fs, w) ==
    /\ IsList(fs) /\ Len(fs) > 0 /\ fs[1].start = w.room
    /\ \A i \in 1 .. Len(fs) : Segment(fs, w, i)

LayInv == ~ writer.error /\ whole => Laying(frames, writer)

(* The containers gs are the first m of fs, the last of them with other    *)
(* items.                                                                  *)
Retopped(fs, gs, m, x) ==
    /\ IsList(gs) /\ Len(gs) = m /\ m \in 1 .. Len(fs)
    /\ gs[m].start = fs[m].start /\ gs[m].items = x
    /\ \A i \in 1 .. m - 1 : gs[i] = fs[i]

(* From the place of the writer to the end of the mth container.           *)
LEMMA WholeStretch ==
    ASSUME NEW fs, NEW w, IsWriter(w), Laying(fs, w), NEW m \in 1 .. Len(fs), m >= Len(fs) - 1
    PROVE  Places(w, WriterPos(w), fs[m].start)
<1>1. Len(fs) \in Nat
  BY ListLen DEF Laying
<1>2. CASE m = Len(fs)
  BY <1>2 DEF Laying, Segment, Edge
<1>3. CASE m = Len(fs) - 1
  <2>1. Len(fs) \in 1 .. Len(fs) /\ m # Len(fs) /\ m + 1 = Len(fs)
    BY <1>1, <1>3
  <2>2. Places(w, WriterPos(w), fs[m + 1].start)
    BY <2>1 DEF Laying, Segment, Edge
  <2>3. Places(w, fs[m + 1].start, fs[m].start)
    BY <2>1 DEF Laying, Segment, Edge
  <2> QED
    BY ONLY <2>2, <2>3, StretchJoin
<1>4. m = Len(fs) \/ m = Len(fs) - 1
  BY <1>1
<1> QED
  BY <1>2, <1>3, <1>4

(* A step of the writer: p is put in front of the bytes, and the innermost *)
(* container, which may have ended, gets other items.                      *)
LEMMA LayTop ==
    ASSUME NEW fs, NEW gs, NEW w, NEW u, NEW p, NEW m, NEW x,
           Laying(fs, w), InFront(w, u, p), Retopped(fs, gs, m, x), m >= Len(fs) - 1,
           Laid(x, p \o Stretch(w, WriterPos(w), fs[m].start))
    PROVE  Laying(gs, u)
<1>1. /\ IsList(gs) /\ Len(gs) = m /\ m \in 1 .. Len(fs) /\ m \in Nat /\ m > 0
      /\ gs[m].start = fs[m].start /\ gs[m].items = x
      /\ \A i \in 1 .. m - 1 : gs[i] = fs[i]
  BY DEF Retopped
<1>0. Len(fs) \in Nat
  BY ListLen DEF Laying
<1>2. IsWriter(w) /\ u.room = w.room
  BY DEF InFront
<1>3. Places(w, WriterPos(w), fs[m].start)
  BY <1>1, <1>2, WholeStretch
<1>4. /\ Places(u, WriterPos(u), fs[m].start)
      /\ Stretch(u, WriterPos(u), fs[m].start) = p \o Stretch(w, WriterPos(w), fs[m].start)
  BY <1>3, StretchNew
<1>5. ASSUME NEW i \in 1 .. m PROVE Segment(gs, u, i)
  <2>1. CASE i = m
    <3>1. Edge(gs, u, i) = WriterPos(u)
      BY <1>1, <2>1 DEF Edge
    <3> QED
      BY <1>1, <1>4, <2>1, <3>1 DEF Segment
  <2>2. CASE i # m
    <3>1. /\ i \in 1 .. m - 1 /\ i \in 1 .. Len(fs) /\ i # Len(fs) /\ i # Len(gs)
          /\ i + 1 = m \/ i + 1 \in 1 .. m - 1
      BY <1>0, <1>1, <2>2
    <3>2. gs[i] = fs[i] /\ gs[i + 1].start = fs[i + 1].start
      BY <1>1, <3>1
    <3>3. Edge(gs, u, i) = Edge(fs, w, i)
      BY <3>1, <3>2 DEF Edge
    <3>4. Segment(fs, w, i)
      BY <3>1 DEF Laying
    <3> DEFINE e == Edge(fs, w, i)
               t == fs[i].start
    <3>5. Places(w, e, t) /\ Laid(fs[i].items, Stretch(w, e, t))
      BY <3>4 DEF Segment
    <3> HIDE DEF e, t
    <3>6. Places(u, e, t) /\ Stretch(u, e, t) = Stretch(w, e, t)
      BY <3>5, StretchKept
    <3> QED
      BY <3>2, <3>3, <3>5, <3>6 DEF Segment, e, t
  <2> QED
    BY <2>1, <2>2
<1>6. gs[1].start = u.room
  <2>1. fs[1].start = w.room
    BY DEF Laying
  <2>2. 1 \in 1 .. m - 1 \/ m = 1
    BY <1>1
  <2>3. gs[1].start = fs[1].start
    BY <1>1, <2>2
  <2> QED
    BY <1>2, <2>1, <2>3
<1> QED
  BY <1>1, <1>5, <1>6 DEF Laying

(* A container begun has nothing in it.                                    *)
LEMMA LayBegin ==
    ASSUME NEW fs, NEW w, IsWriter(w), Laying(fs, w), NEW f,
           f.start = WriterPos(w), f.items = <<>>
    PROVE  Laying(Append(fs, f), w)
<1> DEFINE gs == Append(fs, f)
           n == Len(fs)
<1>1. IsList(gs) /\ Len(gs) = n + 1 /\ gs[n + 1] = f /\ (\A i \in 1 .. n : gs[i] = fs[i])
  <2>1. Appended(fs, f)
    BY ListAppend DEF Laying
  <2> QED
    BY <2>1 DEF Appended
<1>2. n \in Nat /\ n > 0
  BY ListLen DEF Laying
<1> HIDE DEF gs
<1>3. ASSUME NEW i \in 1 .. Len(gs) PROVE Segment(gs, w, i)
  <2>1. CASE i = n + 1
    <3>1. Edge(gs, w, i) = WriterPos(w) /\ gs[i].start = WriterPos(w) /\ gs[i].items = <<>>
      BY <1>1, <2>1 DEF Edge
    <3>2. Places(w, WriterPos(w), WriterPos(w))
      BY StretchAll
    <3>3. Stretch(w, WriterPos(w), WriterPos(w)) = <<>>
      BY <3>2, StretchNone
    <3> QED
      BY <3>1, <3>2, <3>3, LaidNone DEF Segment
  <2>2. CASE i # n + 1
    <3>1. i \in 1 .. n /\ i # Len(gs) /\ gs[i] = fs[i]
      BY <1>1, <1>2, <2>2
    <3>2. Edge(gs, w, i) = Edge(fs, w, i)
      <4>1. CASE i = n
        BY <1>1, <3>1, <4>1 DEF Edge
      <4>2. CASE i # n
        <5>1. i + 1 \in 1 .. n
          BY <1>2, <3>1, <4>2
        <5> QED
          BY <1>1, <3>1, <4>2, <5>1 DEF Edge
      <4> QED
        BY <4>1, <4>2
    <3>3. Segment(fs, w, i)
      BY <3>1 DEF Laying
    <3> QED
      BY <3>1, <3>2, <3>3 DEF Segment
  <2> QED
    BY <2>1, <2>2
<1>4. gs[1].start = w.room
  <2>1. 1 \in 1 .. n
    BY <1>2
  <2>2. fs[1].start = w.room
    BY DEF Laying
  <2> QED
    BY <1>1, <2>1, <2>2
<1> QED
  BY <1>1, <1>2, <1>3, <1>4 DEF Laying, gs

(* The frames of a fresh writer.                                           *)
LEMMA LayFresh ==
    ASSUME NEW w, IsWriter(w), WriterPos(w) = w.room
    PROVE  Laying(<<Frame("top", w.room)>>, w)
<1> DEFINE f == Frame("top", w.room)
           gs == <<f>>
<1>1. f.start = w.room /\ f.items = <<>>
  BY DEF Frame
<1>2. IsList(gs) /\ Len(gs) = 1 /\ gs[1] = f
  BY ListOne
<1> HIDE DEF f, gs
<1>3. Places(w, WriterPos(w), WriterPos(w))
  BY StretchAll
<1>4. Stretch(w, WriterPos(w), WriterPos(w)) = <<>>
  BY <1>3, StretchNone
<1>5. Segment(gs, w, 1)
  <2>1. Edge(gs, w, 1) = WriterPos(w)
    BY <1>2 DEF Edge
  <2> QED
    BY <1>1, <1>2, <1>3, <1>4, <2>1, LaidNone DEF Segment
<1>6. \A i \in 1 .. Len(gs) : i = 1
  BY <1>2
<1> QED
  BY <1>1, <1>2, <1>5, <1>6 DEF Laying, gs, f

(* The frames after the innermost got other items,                         *)
LEMMA RetopItems ==
    ASSUME NEW fs, NEW pos, NEW room, FramesOk(fs, pos, room), NEW x
    PROVE  Retopped(fs, [fs EXCEPT ![Len(fs)].items = x], Len(fs), x)
<1> DEFINE n == Len(fs)
           f == [fs[n] EXCEPT !.items = x]
           gs == [fs EXCEPT ![n] = f]
<1>1. n \in 1 .. n /\ n \in Nat
  BY ListLen DEF FramesOk
<1>2. DOMAIN fs[n] = {"tag", "start", "at", "items"} /\ IsList(fs)
  BY <1>1 DEF FramesOk, FrameOk
<1>3. f.start = fs[n].start /\ f.items = x
  BY <1>2
<1>4. [fs EXCEPT ![n].items = x] = gs
  OBVIOUS
<1> HIDE DEF f
<1>5. ElementSet(fs, n, f)
  BY <1>1, <1>2, ListSet
<1>6. IsList(gs) /\ Len(gs) = n /\ gs[n] = f /\ \A i \in 1 .. n : i # n => gs[i] = fs[i]
  BY <1>5 DEF ElementSet
<1> HIDE DEF gs
<1>7. \A i \in 1 .. n - 1 : i \in 1 .. n /\ i # n
  BY <1>1
<1>8. Retopped(fs, gs, n, x)
  BY <1>1, <1>3, <1>6, <1>7 DEF Retopped
<1> QED
  BY <1>4, <1>8

(* and after it ended.                                                     *)
LEMMA RetopPopped ==
    ASSUME NEW fs, NEW pos, NEW room, FramesOk(fs, pos, room), Len(fs) > 1, NEW x
    PROVE  /\ Retopped(fs, [Front(fs) EXCEPT ![Len(Front(fs))].items = x], Len(fs) - 1, x)
           /\ Front(fs)[Len(Front(fs))] = fs[Len(fs) - 1]
<1> DEFINE o == Front(fs)
           m == Len(fs) - 1
           gs == [o EXCEPT ![Len(o)].items = x]
<1>1. Len(fs) \in Nat /\ m \in 1 .. Len(fs) /\ m \in 1 .. m /\ m \in Nat
  BY ListLen DEF FramesOk
<1>2. IsList(o) /\ Len(o) = m /\ \A i \in 1 .. m : o[i] = fs[i]
  <2>1. Dropped(fs)
    BY ListFront DEF FramesOk
  <2> QED
    BY <2>1 DEF Dropped
<1>3. FramesOk(o, pos, room)
  BY FramesPop
<1> HIDE DEF o, m
<1>4. Retopped(o, gs, Len(o), x)
  BY <1>3, RetopItems
<1> HIDE DEF gs
<1>5. Retopped(o, gs, m, x)
  BY <1>2, <1>4
<1>6. \A i \in 1 .. m - 1 : i \in 1 .. m
  BY <1>1
<1>7. Retopped(fs, gs, m, x)
  BY <1>1, <1>2, <1>5, <1>6 DEF Retopped
<1>8. o[Len(o)] = fs[m]
  BY <1>1, <1>2
<1> QED
  BY <1>7, <1>8 DEF o, m, gs

(* A writer whose error flag is set writes nothing more.                   *)
LEMMA FlawedParts ==
    ASSUME NEW w, w.error, NEW parts, Len(parts) \in Nat
    PROVE  Flawed(WriteParts(w, parts))
<1> DEFINE n == Len(parts)
<1>1. PICK g : PartsRun(w, parts, n, g) /\ WriteParts(w, parts) = g[n]
  BY PartsAre
<1> HIDE DEF n
<1>2. n \in Nat
  BY DEF n
<1>3. PartsPlaces(w, parts, n, g)
  BY ONLY <1>1, <1>2, PartsRunAt
<1> DEFINE S == {i \in Nat : i <= n => Flawed(g[i])}
<1>4. 0 \in S
  <2>1. g[0] = Left(w, "OK")
    BY <1>3 DEF PartsPlaces
  <2>2. Left(w, "OK").w = w
    BY ONLY LeftFields, Zenon
  <2>3. Flawed(g[0])
    BY <2>1, <2>2, Zenon DEF Flawed
  <2> QED
    BY <2>3
<1>5. ASSUME NEW i \in Nat, i \in S PROVE i + 1 \in S
  <2>1. SUFFICES ASSUME i + 1 <= n PROVE Flawed(g[i + 1])
    OBVIOUS
  <2>2. Flawed(g[i]) /\ i + 1 \in 1 .. n /\ (i + 1) - 1 = i
    BY <1>2, <1>5, <2>1
  <2>3. g[i + 1] = AfterPart(g[i], parts[i + 1])
    BY <1>3, <2>2 DEF PartsPlaces
  <2>4. Flawed(AfterPart(g[i], parts[i + 1]))
    BY ONLY <2>2, FlawedOn
  <2> QED
    BY ONLY <2>3, <2>4
<1> HIDE DEF S
<1>6. \A i \in Nat : i \in S
  BY <1>4, <1>5, 1 \in Nat \ {0}, Data!SetInduction
<1>7. Flawed(g[n])
  BY <1>2, <1>6 DEF S
<1> QED
  BY <1>1, <1>7

(* One call, its error flag clear: what it put is in front, or the flag is *)
(* set now.                                                                *)
LEMMA PutsInFront ==
    ASSUME NEW w, IsWriter(w), ~ w.error, NEW parts, NEW p \in Seq(Byte), Puts(parts, p)
    PROVE  \/ Flawed(WriteParts(w, parts))
           \/ /\ InFront(w, WriteParts(w, parts).w, p)
              /\ WriteParts(w, parts).ret = "OK"
<1>1. PICK r \in Nat, o \in Seq(Byte), e \in BOOLEAN : w = WriterOf(r, o, e) /\ Len(o) <= r
  BY Zenon DEF IsWriter
<1>2. w.room = r /\ w.out = o /\ w.error = e
  <2>1. /\ WriterOf(r, o, e).room = r /\ WriterOf(r, o, e).out = o
        /\ WriterOf(r, o, e).error = e
    BY WriterFields
  <2> DEFINE x == WriterOf(r, o, e)
  <2>2. w = x /\ x.room = r /\ x.out = o /\ x.error = e
    BY <1>1, <2>1
  <2> HIDE DEF x
  <2> QED
    BY ONLY <2>2, Zenon
<1>3. e = FALSE
  <2>1. ASSUME e = TRUE PROVE FALSE
    <3>1. w.error = TRUE
      BY ONLY <1>2, <2>1, Zenon
    <3> QED
      BY ONLY <3>1, ~ w.error, Zenon
  <2>2. e = TRUE \/ e = FALSE
    BY ONLY e \in BOOLEAN
  <2> QED
    BY ONLY <2>1, <2>2, Zenon
<1>4. w = WriterOf(r, o, FALSE)
  BY ONLY <1>1, <1>3, Zenon
<1> DEFINE x == WriteParts(w, parts)
<1>5. Lays(x, p, r, o)
  BY ONLY <1>1, <1>4, Puts(parts, p), r \in Nat, o \in Seq(Byte) DEF Puts
<1> HIDE DEF x
<1>6. CASE x = Went(r, p \o o) /\ Len(p) + Len(o) <= r
  <2> DEFINE z == p \o o
  <2>1. z \in Seq(Byte) /\ Len(z) = Len(p) + Len(o)
    BY Joined
  <2> HIDE DEF z
  <2>2. x = Left(WriterOf(r, z, FALSE), "OK")
    BY ONLY <1>6 DEF z, Went
  <2>3. x.ret = "OK" /\ x.w = WriterOf(r, z, FALSE)
    BY ONLY <2>2, LeftFields, Zenon
  <2>4. WriterOf(r, z, FALSE).room = r /\ WriterOf(r, z, FALSE).out = z
    BY ONLY FlagFields, ZenonT(150)
  <2>5. Len(z) <= r
    BY ONLY <1>6, <2>1
  <2>6. IsWriter(WriterOf(r, z, FALSE))
    <3>1. FALSE \in BOOLEAN
      OBVIOUS
    <3> QED
      BY ONLY <2>1, <2>5, <3>1, r \in Nat, Zenon DEF IsWriter
  <2>7. InFront(w, x.w, p)
    BY ONLY <1>2, <2>3, <2>4, <2>6, IsWriter(w), p \in Seq(Byte) DEF InFront, z
  <2> QED
    BY ONLY <2>3, <2>7 DEF x
<1> QED
  BY <1>5, <1>6 DEF Lays, x

(* Nothing in front.                                                       *)
LEMMA InFrontSelf ==
    ASSUME NEW w, IsWriter(w)
    PROVE  InFront(w, w, <<>>) /\ \A s \in Seq(Byte) : <<>> \o s = s
<1>1. \A s \in Seq(Byte) : <<>> \o s = s
  <2>1. ASSUME NEW s \in Seq(Byte) PROVE <<>> \o s = s
    BY ONLY s \in Seq(Byte)
  <2> QED
    BY <2>1
<1>2. w.out \in Seq(Byte) /\ <<>> \in Seq(Byte)
  BY WriterFacts
<1> QED
  BY <1>1, <1>2 DEF InFront

(* The invariant in the next state.                                        *)
LEMMA LayNext ==
    /\ writer'.error => LayInv'
    /\ ~ whole' => LayInv'
    /\ Laying(frames', writer') => LayInv'
<1>1. LayInv' <=> (~ writer'.error /\ whole' => Laying(frames', writer'))
  BY DEF LayInv
<1> QED
  BY ONLY <1>1, Zenon

(* A call of a writing function.                                           *)
LEMMA WroteLays ==
    ASSUME IsWriter(writer), NEW parts, Len(parts) \in Nat, NEW p \in Seq(Byte), Puts(parts, p),
           NEW gs, Wrote(WriteParts(writer, parts), gs),
           ASSUME ~ writer.error, whole, NEW u, InFront(writer, u, p) PROVE Laying(gs, u)
    PROVE  LayInv'
<1> DEFINE x == WriteParts(writer, parts)
<1>1. writer' = x.w /\ (x.ret = "OK" => frames' = gs)
  BY DEF Wrote
<1>w. CASE ~ whole
  <2>1. whole' = whole
    BY DEF Wrote
  <2>2. ~ whole'
    BY ONLY <1>w, <2>1, Zenon
  <2> QED
    BY <2>2, LayNext
<1>2. CASE Flawed(x)
  <2>1. writer'.error
    BY ONLY <1>1, <1>2, Zenon DEF Flawed
  <2> QED
    BY <2>1, LayNext
<1>3. CASE writer.error
  <2>1. Flawed(x)
    BY <1>3, FlawedParts
  <2> QED
    BY <1>2, <2>1
<1>4. CASE ~ writer.error /\ whole /\ ~ Flawed(x)
  <2>1. InFront(writer, x.w, p) /\ x.ret = "OK"
    BY <1>4, PutsInFront
  <2>2. Laying(gs, x.w)
    BY <1>4, <2>1
  <2>3. Laying(frames', writer')
    BY <1>1, <2>1, <2>2
  <2> QED
    BY <2>3, LayNext
<1> QED
  BY <1>w, <1>2, <1>3, <1>4

(* An output that was written over stays so.                               *)
LEMMA SpoiltLays ==
    ASSUME ~ whole, whole' = whole
    PROVE  LayInv'
<1>1. ~ whole'
  BY Zenon
<1> QED
  BY <1>1, LayNext

(* A writer and containers that did not change.                            *)
LEMMA LaySame ==
    ASSUME LayInv, UNCHANGED <<writer, frames, whole>>
    PROVE  LayInv'
<1>1. ~ writer.error /\ whole => Laying(frames, writer)
  BY DEF LayInv
<1>2. writer' = writer /\ frames' = frames /\ whole' = whole
  OBVIOUS
<1>3. LayInv' <=> (~ writer'.error /\ whole' => Laying(frames', writer'))
  BY DEF LayInv
<1> QED
  BY ONLY <1>1, <1>2, <1>3, Zenon

(* What the invariant says of the writer and of its containers.            *)
LEMMA InvParts ==
    ASSUME DerInv
    PROVE  /\ IsWriter(writer) /\ writer.room \in Rooms
           /\ FramesOk(frames, WriterPos(writer), writer.room)
           /\ IsList(frames) /\ Len(frames) \in Nat /\ Len(frames) > 0
           /\ Len(frames) \in 1 .. Len(frames)
<1>1. /\ IsWriter(writer) /\ writer.room \in Rooms
      /\ FramesOk(frames, WriterPos(writer), writer.room)
  BY DEF DerInv, WriterInv, FramesInv
<1>2. IsList(frames) /\ Len(frames) > 0
  BY <1>1 DEF FramesOk
<1>3. Len(frames) \in Nat
  BY <1>2, ListLen
<1> QED
  BY <1>1, <1>2, <1>3

(* The strings of a call are a list.                                       *)
LEMMA PartsLen ==
    ASSUME NEW parts \in Parts
    PROVE  Len(parts) \in Nat
<1> DEFINE S == Seq(Byte)
<1>1. parts \in Seq(S)
  BY DEF Parts
<1> HIDE DEF S
<1> QED
  BY ONLY <1>1

(* A writing call,                                                         *)
LEMMA WriteLays ==
    ASSUME DerInv, LayInv, NEW v \in Writes, Write(v)
    PROVE  LayInv'
<1>0. IsWriter(writer) /\ FramesOk(frames, WriterPos(writer), writer.room) /\ Writable(v)
  BY DerAssumption, InvParts
<1>n. Len(frames) \in 1 .. Len(frames) /\ Len(frames) >= Len(frames) - 1
  BY InvParts
<1>1. CASE v.kind = "bits" /\ ~ BitStringTaken(v.bytes, v.val)
  <2> DEFINE res == [w |-> writer, ret |-> "BAD_FORMAT"]
  <2>1. Wrote(res, frames)
    BY <1>1 DEF Write
  <2>2. res.w = writer
    OBVIOUS
  <2> HIDE DEF res
  <2>3. writer' = writer /\ frames' = frames /\ whole' = whole
    BY <2>1, <2>2 DEF Wrote
  <2> QED
    BY <2>3, LaySame
<1>2. CASE ~ (v.kind = "bits" /\ ~ BitStringTaken(v.bytes, v.val))
  <2> DEFINE parts == PartsOf(v)
             it == ItemOf(v)
             n == Len(frames)
             old == frames[n].items
             x == <<it>> \o old
             gs == [frames EXCEPT ![n].items = <<it>> \o @]
             hs == [frames EXCEPT ![n].items = x]
  <2>1. Wrote(WriteParts(writer, parts), gs)
    BY <1>2 DEF Write
  <2>2. gs = hs
    OBVIOUS
  <2>3. parts \in Parts
    BY <1>0, <1>2, PartsOfIs
  <2>4. Comes(it, parts)
    BY <1>0, <1>2, ItemComes
  <2>5. Retopped(frames, hs, n, x)
    BY <1>0, RetopItems
  <2> HIDE DEF parts, it, gs, hs, x, old
  <2>6. PICK c : Carries(it, c) /\ Puts(parts, Tlv(it.tag, c))
    BY ONLY <2>4 DEF Comes
  <2> DEFINE p == Tlv(it.tag, c)
  <2>7. p \in Seq(Byte)
    BY <2>6, CarriesIs
  <2>8. ASSUME ~ writer.error, whole, NEW u, InFront(writer, u, p) PROVE Laying(gs, u)
    <3>1. Laying(frames, writer)
      BY <2>8 DEF LayInv
    <3> DEFINE s == Stretch(writer, WriterPos(writer), frames[n].start)
    <3>2. Laid(old, s)
      <4>1. Segment(frames, writer, n)
        BY <1>n, <3>1 DEF Laying
      <4>2. Edge(frames, writer, n) = WriterPos(writer)
        BY DEF Edge
      <4> QED
        BY <4>1, <4>2 DEF Segment, old
    <3> HIDE DEF s
    <3>3. Laid(x, p \o s)
      BY ONLY <2>6, <3>2, LaidAdd DEF x
    <3> HIDE DEF p
    <3>4. Laying(hs, u)
      BY <1>n, <2>5, <2>8, <3>1, <3>3, LayTop DEF s
    <3> QED
      BY <2>2, <3>4
  <2>9. Len(parts) \in Nat
    BY <2>3, PartsLen
  <2> HIDE DEF p
  <2>10. Puts(parts, p)
    BY <2>6 DEF p
  <2> QED
    BY <1>0, <2>1, <2>7, <2>8, <2>9, <2>10, WroteLays
<1> QED
  BY <1>1, <1>2

(* one that got no memory,                                                 *)
LEMMA NoMemoryLays ==
    ASSUME LayInv, NEW v \in Writes, WriteNoMemory(v)
    PROVE  LayInv'
<1> DEFINE res == [w |-> writer, ret |-> "MEM_ALLOCATE_FAIL"]
<1>1. Wrote(res, frames)
  BY DEF WriteNoMemory
<1>2. res.w = writer
  OBVIOUS
<1> HIDE DEF res
<1>3. writer' = writer /\ frames' = frames /\ whole' = whole
  BY <1>1, <1>2 DEF Wrote
<1> QED
  BY <1>3, LaySame

(* the begin functions,                                                    *)
LEMMA BeginLays ==
    ASSUME DerInv, LayInv, NEW tag, Begin(tag)
    PROVE  LayInv'
<1> DEFINE res == [w |-> writer, ret |-> IF writer.error THEN "WRITE_ERROR" ELSE "OK"]
           f == Frame(tag, WriterPos(writer))
           gs == Append(frames, f)
<1>1. Wrote(res, gs)
  BY DEF Begin
<1>2. res.w = writer
  OBVIOUS
<1>r. ~ writer.error => res.ret = "OK"
  BY Zenon
<1>f. f.start = WriterPos(writer) /\ f.items = <<>>
  BY DEF Frame
<1> HIDE DEF res, f
<1>3. writer' = writer /\ (res.ret = "OK" => frames' = gs)
  BY <1>1, <1>2 DEF Wrote
<1>4. CASE writer.error
  <2>1. writer'.error
    BY ONLY <1>3, <1>4, Zenon
  <2> QED
    BY <2>1, LayNext
<1>w. CASE ~ whole
  <2>1. whole' = whole
    BY <1>1 DEF Wrote
  <2>2. ~ whole'
    BY ONLY <1>w, <2>1, Zenon
  <2> QED
    BY <2>2, LayNext
<1>5. CASE ~ writer.error /\ whole
  <2>1. Laying(frames, writer)
    BY <1>5 DEF LayInv
  <2>2. IsWriter(writer)
    BY InvParts
  <2>3. Laying(gs, writer)
    BY <1>f, <2>1, <2>2, LayBegin
  <2>4. Laying(frames', writer')
    BY <1>3, <1>5, <1>r, <2>3
  <2> QED
    BY <2>4, LayNext
<1> QED
  BY <1>4, <1>w, <1>5

(* Containers that differ in their handles.                                *)
SamePlaces(fs, gs) ==
    /\ IsList(gs) /\ Len(gs) = Len(fs)
    /\ \A j \in 1 .. Len(fs) : gs[j].start = fs[j].start /\ gs[j].items = fs[j].items

(* A handle that moved is such a difference.                               *)
LEMMA HandlePlaces ==
    ASSUME NEW fs, NEW pos, NEW room, FramesOk(fs, pos, room), NEW n \in 1 .. Len(fs), NEW y
    PROVE  SamePlaces(fs, [fs EXCEPT ![n].at = y])
<1> DEFINE f == [fs[n] EXCEPT !.at = y]
           gs == [fs EXCEPT ![n] = f]
<1>1. DOMAIN fs[n] = {"tag", "start", "at", "items"} /\ IsList(fs)
  BY DEF FramesOk, FrameOk
<1>2. f.start = fs[n].start /\ f.items = fs[n].items
  BY ONLY <1>1
<1>3. [fs EXCEPT ![n].at = y] = gs
  OBVIOUS
<1> HIDE DEF f
<1>4. ElementSet(fs, n, f)
  BY <1>1, ListSet
<1>5. IsList(gs) /\ Len(gs) = Len(fs) /\ gs[n] = f /\ \A i \in 1 .. Len(fs) : i # n => gs[i] = fs[i]
  BY ONLY <1>4 DEF ElementSet
<1> HIDE DEF gs
<1>6. ASSUME NEW j \in 1 .. Len(fs) PROVE gs[j].start = fs[j].start /\ gs[j].items = fs[j].items
  <2>1. CASE j = n
    BY ONLY <1>2, <1>5, <2>1
  <2>2. CASE j # n
    BY ONLY <1>5, <2>2, j \in 1 .. Len(fs)
  <2> QED
    BY ONLY <2>1, <2>2
<1>7. SamePlaces(fs, gs)
  BY ONLY <1>5, <1>6 DEF SamePlaces
<1> QED
  BY ONLY <1>3, <1>7

(* It leaves what was laid.                                                *)
LEMMA SamePlacesLay ==
    ASSUME NEW fs, NEW gs, NEW w, Laying(fs, w), SamePlaces(fs, gs)
    PROVE  Laying(gs, w)
<1>1. /\ IsList(fs) /\ Len(fs) > 0 /\ fs[1].start = w.room
      /\ \A i \in 1 .. Len(fs) : Segment(fs, w, i)
  BY DEF Laying
<1>2. /\ IsList(gs) /\ Len(gs) = Len(fs) /\ Len(fs) \in Nat
      /\ \A j \in 1 .. Len(fs) : gs[j].start = fs[j].start /\ gs[j].items = fs[j].items
  BY <1>1, ListLen DEF SamePlaces
<1>3. gs[1].start = w.room
  <2>1. 1 \in 1 .. Len(fs)
    BY ONLY <1>1, <1>2
  <2> QED
    BY ONLY <1>1, <1>2, <2>1
<1>4. ASSUME NEW i \in 1 .. Len(fs) PROVE Segment(gs, w, i)
  <2>1. Edge(gs, w, i) = Edge(fs, w, i)
    <3>1. CASE i = Len(fs)
      BY ONLY <1>2, <3>1 DEF Edge
    <3>2. CASE i # Len(fs)
      <4>1. i + 1 \in 1 .. Len(fs)
        BY ONLY <1>2, <3>2, i \in 1 .. Len(fs)
      <4> QED
        BY ONLY <1>2, <3>2, <4>1 DEF Edge
    <3> QED
      BY ONLY <3>1, <3>2
  <2>2. Segment(fs, w, i)
    BY ONLY <1>1, i \in 1 .. Len(fs)
  <2>3. gs[i].start = fs[i].start /\ gs[i].items = fs[i].items
    BY ONLY <1>2, i \in 1 .. Len(fs)
  <2> QED
    BY ONLY <2>1, <2>2, <2>3 DEF Segment
<1>5. \A i \in 1 .. Len(gs) : Segment(gs, w, i)
  BY ONLY <1>2, <1>4
<1> QED
  BY ONLY <1>1, <1>2, <1>3, <1>5 DEF Laying

(* a write through a handle,                                               *)
LEMMA HandleLays ==
    ASSUME DerInv, LayInv, NEW i \in 2 .. Len(frames), NEW b, WriteToHandle(i, b)
    PROVE  LayInv'
<1>1. PICK at, k : Handled(i, at, k)
  BY HandleDoes
<1>2. frames' = [frames EXCEPT ![i].at = at - 1] /\ (whole' => whole /\ writer' = writer)
  BY <1>1, Zenon DEF Handled
<1>w. CASE ~ whole'
  BY <1>w, LayNext
<1>e. CASE writer'.error
  BY <1>e, LayNext
<1>3. CASE whole' /\ ~ writer'.error
  <2>1. writer' = writer /\ whole /\ ~ writer.error
    BY ONLY <1>2, <1>3, Zenon
  <2>2. Laying(frames, writer)
    BY <2>1 DEF LayInv
  <2>3. FramesOk(frames, WriterPos(writer), writer.room) /\ i \in 1 .. Len(frames)
    BY InvParts
  <2>4. SamePlaces(frames, [frames EXCEPT ![i].at = at - 1])
    BY ONLY <2>3, HandlePlaces
  <2>5. SamePlaces(frames, frames')
    BY ONLY <1>2, <2>4
  <2>6. Laying(frames', writer)
    BY ONLY <2>2, <2>5, SamePlacesLay
  <2>7. Laying(frames', writer')
    BY ONLY <2>1, <2>6
  <2> QED
    BY <2>7, LayNext
<1> QED
  BY <1>w, <1>e, <1>3

(* The innermost container, its bytes and those of the one around it.      *)
Inner(n, m, pos, a, b) ==
    /\ n = Len(frames) /\ m = n - 1 /\ n \in 1 .. Len(frames) /\ m \in 1 .. Len(frames)
    /\ m >= Len(frames) - 1
    /\ pos = WriterPos(writer) /\ a = Stretch(writer, pos, frames[n].start)
    /\ b = Stretch(writer, frames[n].start, frames[m].start)
    /\ Laid(frames[n].items, a) /\ Laid(frames[m].items, b)
    /\ a \o b = Stretch(writer, pos, frames[m].start)
    /\ Len(a) = frames[n].start - pos /\ Places(writer, pos, frames[n].start)

(* There is one around it.                                                 *)
LEMMA InnerIs ==
    ASSUME DerInv, Laying(frames, writer), Len(frames) > 1
    PROVE  \E n, m, pos, a, b : Inner(n, m, pos, a, b)
<1> DEFINE n == Len(frames)
           m == n - 1
           pos == WriterPos(writer)
           a == Stretch(writer, pos, frames[n].start)
           b == Stretch(writer, frames[n].start, frames[m].start)
<1>1. /\ n \in 1 .. Len(frames) /\ m \in 1 .. Len(frames) /\ m >= Len(frames) - 1
      /\ m + 1 = n /\ m # n
  BY InvParts, SMTT(60)
<1>2. Edge(frames, writer, n) = pos /\ Edge(frames, writer, m) = frames[n].start
  BY <1>1, ZenonT(60) DEF Edge
<1>3. Segment(frames, writer, n) /\ Segment(frames, writer, m)
  BY <1>1 DEF Laying
<1>4. Places(writer, pos, frames[n].start) /\ Laid(frames[n].items, a)
  BY <1>2, <1>3 DEF Segment
<1>5. Places(writer, frames[n].start, frames[m].start) /\ Laid(frames[m].items, b)
  BY <1>2, <1>3 DEF Segment
<1>6. a \o b = Stretch(writer, pos, frames[m].start)
  BY ONLY <1>4, <1>5, StretchJoin
<1>7. Len(a) = frames[n].start - pos
  BY ONLY <1>4, StretchIs, SMTT(60)
<1> HIDE DEF pos, a, b
<1>8. Inner(n, m, pos, a, b)
  BY <1>1, <1>4, <1>5, <1>6, <1>7, ZenonT(60) DEF Inner, pos, a, b
<1> QED
  BY <1>8

(* An end function that refuses its handle: what was in the container is   *)
(* in the one around it.                                                   *)
LEMMA RefusedLays ==
    ASSUME DerInv, LayInv, End, Top.at # Top.start /\ ~ writer.error, whole
    PROVE  LayInv'
<1> DEFINE outer == Front(frames)
           k == Len(outer)
           F(y) == [outer EXCEPT ![k].items = y]
           x == Top.items \o outer[k].items
<1>1. Len(frames) > 1 /\ frames' = F(x) /\ writer' = writer /\ ~ writer.error
  BY DEF End
<1>2. Laying(frames, writer)
  BY <1>1 DEF LayInv
<1>3. IsWriter(writer) /\ FramesOk(frames, WriterPos(writer), writer.room)
  BY InvParts
<1>4. /\ \A y : Retopped(frames, F(y), Len(frames) - 1, y)
      /\ outer[k] = frames[Len(frames) - 1]
  BY <1>1, <1>3, RetopPopped
<1> HIDE DEF F, outer, k
<1>5. PICK n, m, pos, a, b : Inner(n, m, pos, a, b)
  BY <1>1, <1>2, InnerIs
<1>6. n = Len(frames) /\ m = Len(frames) - 1 /\ pos = WriterPos(writer) /\ m >= Len(frames) - 1
  BY <1>5 DEF Inner
<1>7. x = frames[n].items \o frames[m].items
  BY <1>4, <1>6, SMTT(60) DEF Top
<1>8. Laid(x, a \o b)
  BY <1>5, <1>7, LaidJoin, ZenonT(60) DEF Inner
<1> DEFINE s == Stretch(writer, WriterPos(writer), frames[m].start)
           e == <<>>
<1>9. a \o b = s
  BY <1>5, <1>6 DEF Inner
<1> HIDE DEF x, s, e
<1>10. InFront(writer, writer, e) /\ e \o s = s
  <2>1. s \in Seq(Byte)
    BY <1>8, <1>9, LaidIs
  <2> QED
    BY <1>3, <2>1, InFrontSelf DEF e
<1>11. Laid(x, e \o s)
  BY <1>8, <1>9, <1>10
<1>12. Retopped(frames, frames', m, x)
  BY <1>1, <1>4, <1>6
<1>13. Laying(frames', writer)
  BY <1>2, <1>6, <1>10, <1>11, <1>12, LayTop DEF s
<1>14. Laying(frames', writer')
  BY <1>1, <1>13
<1> QED
  BY <1>14, LayNext

(* What an end function puts closes the container.                         *)
LEMMA EndCloses ==
    ASSUME DerInv, Laying(frames, writer), NEW n, NEW m, NEW pos, NEW a, NEW b,
           Len(frames) > 1, Inner(n, m, pos, a, b)
    PROVE  Closes(Item(frames[n].tag, <<>>, frames[n].items), EndParts(frames[n]), a)
<1> DEFINE f == frames[n]
<1>1. /\ Laid(f.items, a) /\ Len(a) = f.start - WriterPos(writer)
      /\ Places(writer, WriterPos(writer), f.start)
  BY DEF Inner
<1>2. a \in Seq(Byte)
  BY <1>1, LaidIs
<1>3. f.tag \in Containers
  <2>1. n \in 1 .. Len(frames) /\ n > 1
    BY DEF Inner
  <2>2. FrameOk(frames[n], n > 1, WriterPos(writer), writer.room)
    BY <2>1, InvParts DEF FramesOk
  <2> QED
    BY <2>1, <2>2 DEF FrameOk
<1>4. Fits(Len(a))
  <2>1. writer.room \in Rooms /\ IsWriter(writer)
    BY InvParts
  <2>2. Fits(writer.room)
    BY <2>1, DerAssumption
  <2> DEFINE r == writer.room
             l == Len(a)
             p == Power(SizeBytes)
             s == f.start
             o == WriterPos(writer)
  <2>3. SizeBytes \in Nat
    BY Sizes
  <2>4. p \in Nat
    BY <2>3, PowerGrows
  <2>5. r \in Nat /\ r + 1 < p
    BY <2>2 DEF Fits
  <2>6. s \in Nat /\ o \in Nat /\ s <= r /\ l = s - o /\ o <= s
    BY <1>1, <2>1, WriterFacts DEF Places
  <2> HIDE DEF r, l, p, s, o
  <2>7. l \in Nat /\ l + 1 < p
    BY ONLY <2>4, <2>5, <2>6
  <2> QED
    BY <2>7 DEF Fits, l, p
<1> DEFINE e == <<>>
           it == Item(f.tag, e, f.items)
           kids == f.items
           name == f.tag
<1> HIDE DEF f
<1>5. CASE f.tag = "bits"
  <2>1. EndParts(f) = <<<<0>>>> \o Header(Tag["bits"], Len(a) + 1)
    BY <1>1, <1>5 DEF EndParts
  <2> HIDE DEF kids
  <2>2. Closes(Item("bits", <<>>, kids), <<<<0>>>> \o Header(Tag["bits"], Len(a) + 1), a)
    BY <1>1, <1>2, <1>4, BitsClose DEF kids
  <2> QED
    BY <1>5, <2>1, <2>2 DEF f, kids
<1>6. CASE f.tag \in {"sequence", "set"}
  <2>1. EndParts(f) = Header(Tag[name], Len(a))
    BY <1>1, <1>6 DEF EndParts
  <2>2. name \in {"sequence", "set"} /\ Laid(kids, a)
    BY <1>1, <1>6
  <2> HIDE DEF kids, name
  <2>3. Closes(Item(name, <<>>, kids), Header(Tag[name], Len(a)), a)
    BY ONLY <1>2, <1>4, <2>2, BoxCloses
  <2> QED
    BY <2>1, <2>3 DEF f, kids, name
<1> QED
  BY <1>3, <1>5, <1>6 DEF Containers

(* An end function that puts its header in front.                          *)
LEMMA ClosedLays ==
    ASSUME DerInv, LayInv, End, ~ (Top.at # Top.start /\ ~ writer.error), whole
    PROVE  LayInv'
<1> DEFINE outer == Front(frames)
           k == Len(outer)
           F(y) == [outer EXCEPT ![k].items = y]
           it == Item(Top.tag, <<>>, Top.items)
           x == <<it>> \o outer[k].items
           parts == EndParts(Top)
<1>1. Len(frames) > 1 /\ Wrote(WriteParts(writer, parts), F(x))
  BY DEF End
<1>3. IsWriter(writer) /\ FramesOk(frames, WriterPos(writer), writer.room)
  BY InvParts
<1>4. /\ \A y : Retopped(frames, F(y), Len(frames) - 1, y)
      /\ outer[k] = frames[Len(frames) - 1]
  BY <1>1, <1>3, RetopPopped
<1>p. Len(parts) \in Nat
  <2> DEFINE f == Top
             l == f.start - WriterPos(writer)
  <2>1. f.tag = "bits" => parts = <<<<0>>>> \o <<LengthOctets(l + 1), <<Tag.bits>>>>
    BY DEF EndParts, Header
  <2>2. f.tag # "bits" => parts = <<LengthOctets(l), <<Tag[f.tag]>>>>
    BY DEF EndParts, Header
  <2> DEFINE u == LengthOctets(l + 1)
             v == <<Tag.bits>>
             w == LengthOctets(l)
             y == <<Tag[f.tag]>>
             z == <<0>>
  <2>3. (f.tag = "bits" => parts = <<z>> \o <<u, v>>) /\ (f.tag # "bits" => parts = <<w, y>>)
    BY <2>1, <2>2
  <2> HIDE DEF u, v, w, y, z, parts, f, l
  <2>4. <<z>> \o <<u, v>> = <<z, u, v>>
    <3> DEFINE S == {z, u, v}
    <3>1. z \in S /\ u \in S /\ v \in S
      OBVIOUS
    <3> HIDE DEF S
    <3> QED
      BY ONLY <3>1, TwoListed
  <2>5. Len(<<z, u, v>>) = 3 /\ Len(<<w, y>>) = 2
    OBVIOUS
  <2> QED
    BY ONLY <2>3, <2>4, <2>5
<1>5. CASE writer.error
  <2> DEFINE res == WriteParts(writer, parts)
  <2>1. Flawed(res)
    BY <1>5, <1>p, FlawedParts
  <2>2. writer' = res.w
    BY <1>1 DEF Wrote
  <2> HIDE DEF res
  <2>3. writer'.error
    BY ONLY <2>1, <2>2, Zenon DEF Flawed
  <2> QED
    BY <2>3, LayNext
<1>6. CASE ~ writer.error
  <2>2. Laying(frames, writer)
    BY <1>6 DEF LayInv
  <2> HIDE DEF F, outer, k
  <2>5. PICK n, m, pos, a, b : Inner(n, m, pos, a, b)
    BY <1>1, <2>2, InnerIs
  <2>6. /\ n = Len(frames) /\ m = Len(frames) - 1 /\ pos = WriterPos(writer)
        /\ m >= Len(frames) - 1 /\ Top = frames[n]
    BY <2>5 DEF Inner, Top
  <2>7. Closes(it, parts, a)
    BY <1>1, <2>2, <2>5, <2>6, EndCloses
  <2> HIDE DEF it, parts
  <2>8. PICK c, p : /\ Carries(it, c) /\ Tlv(it.tag, c) = p \o a
                    /\ p \in Seq(Byte) /\ Puts(parts, p)
    BY ONLY <2>7 DEF Closes
  <2>9. x = <<it>> \o frames[m].items
    BY <1>4, <2>6
  <2> HIDE DEF x
  <2>10. Laid(x, Tlv(it.tag, c) \o b)
    BY <2>5, <2>8, <2>9, LaidAdd DEF Inner
  <2> DEFINE s == Stretch(writer, WriterPos(writer), frames[m].start)
  <2>11. a \o b = s
    BY <2>5, <2>6 DEF Inner
  <2>12. a \in Seq(Byte) /\ b \in Seq(Byte)
    BY <2>5, LaidIs DEF Inner
  <2> HIDE DEF s
  <2>13. (p \o a) \o b = p \o s
    <3> DEFINE S == Byte
    <3>1. p \in Seq(S) /\ a \in Seq(S) /\ b \in Seq(S)
      BY <2>8, <2>12
    <3> HIDE DEF S
    <3>2. (p \o a) \o b = p \o (a \o b)
      BY ONLY <3>1, ConcatAssociative, SMTT(60)
    <3> QED
      BY ONLY <2>11, <3>2
  <2>14. Laid(x, p \o s)
    BY <2>8, <2>10, <2>13
  <2>15. Retopped(frames, F(x), m, x)
    BY <1>4, <2>6
  <2> DEFINE gs == F(x)
  <2>16. Wrote(WriteParts(writer, parts), gs) /\ Retopped(frames, gs, m, x)
    BY <1>1, <2>15
  <2> HIDE DEF gs
  <2>17. ASSUME ~ writer.error, whole, NEW u, InFront(writer, u, p) PROVE Laying(gs, u)
    <3>1. m >= Len(frames) - 1
      BY ONLY <2>6
    <3>2. Laid(x, p \o Stretch(writer, WriterPos(writer), frames[m].start))
      BY ONLY <2>14 DEF s
    <3>3. Retopped(frames, gs, m, x)
      BY ONLY <2>16
    <3>4. InFront(writer, u, p)
      BY <2>17
    <3> QED
      BY ONLY <2>2, <3>1, <3>2, <3>3, <3>4, LayTop
  <2> QED
    BY <1>3, <1>p, <2>8, <2>16, <2>17, WroteLays
<1> QED
  BY <1>5, <1>6

-----------------------------------------------------------------------------
(* What the reader finds.                                                  *)

(* A stretch of two strings, and its halves.                               *)
Splits(s, i, j, x, y, k) ==
    /\ s \in Seq(Byte) /\ i \in Nat /\ j \in Nat /\ i <= j /\ j <= Len(s)
    /\ x \in Seq(Byte) /\ y \in Seq(Byte) /\ SubSeq(s, i + 1, j) = x \o y /\ k = i + Len(x)

Halves(s, i, j, x, y, k) ==
    /\ k \in Nat /\ i <= k /\ k <= j /\ Len(x) \in Nat /\ Len(y) = j - k
    /\ SubSeq(s, i + 1, k) = x /\ SubSeq(s, k + 1, j) = y

(* They are found where they should be.                                    *)
LEMMA CutSplit ==
    ASSUME NEW s, NEW i, NEW j, NEW x, NEW y, NEW k, Splits(s, i, j, x, y, k)
    PROVE  Halves(s, i, j, x, y, k)
<1>h. /\ s \in Seq(Byte) /\ i \in Nat /\ j \in Nat /\ i <= j /\ j <= Len(s)
      /\ x \in Seq(Byte) /\ y \in Seq(Byte) /\ SubSeq(s, i + 1, j) = x \o y /\ k = i + Len(x)
  BY DEF Splits
<1>n. i \in Nat /\ j \in Nat
  BY ONLY <1>h
<1> DEFINE z == SubSeq(s, i + 1, j)
           a == SubSeq(s, i + 1, k)
           b == SubSeq(s, k + 1, j)
           S == Byte
           m == Len(x)
           n == Len(y)
<1>0. x \in Seq(S) /\ y \in Seq(S)
  BY <1>h
<1>1. i + 1 \in Nat \ {0} /\ i + 1 <= j + 1 /\ (j + 1) - (i + 1) = j - i
  BY ONLY <1>h
<1>2. /\ z \in Seq(Byte) /\ Len(z) = (j + 1) - (i + 1)
      /\ \A q \in 1 .. (j + 1) - (i + 1) : z[q] = s[q + (i + 1) - 1]
  BY ONLY <1>h, <1>1, Cut
<1> HIDE DEF S
<1>3. Len(x) \in Nat /\ Len(y) \in Nat /\ Len(x \o y) = Len(x) + Len(y)
  BY ONLY <1>0, 1 \in Nat \ {0}, Data!ConcatFacts
<1>4. \A q \in 1 .. Len(x) + Len(y) : (x \o y)[q] = IF q <= Len(x) THEN x[q] ELSE y[q - Len(x)]
  BY ONLY <1>0, ConcatProperties
<1>5. z = x \o y
  BY <1>h
<1>6. m \in Nat /\ n \in Nat /\ m + n = j - i /\ k = i + m
  BY ONLY <1>h, <1>1, <1>2, <1>3, <1>5
<1>7. \A q \in 1 .. m + n : z[q] = IF q <= m THEN x[q] ELSE y[q - m]
  BY ONLY <1>4, <1>5
<1> HIDE DEF m, n, z
<1>8. /\ k \in Nat /\ i <= k /\ k <= j /\ n = j - k
      /\ k + 1 \in Nat \ {0} /\ i + 1 <= k + 1 /\ k + 1 <= j + 1
      /\ (k + 1) - (i + 1) = m /\ (j + 1) - (k + 1) = n
  BY ONLY <1>n, <1>6
<1>l. k <= Len(s)
  BY ONLY <1>8, <1>h
<1>9. /\ a \in Seq(Byte) /\ Len(a) = (k + 1) - (i + 1)
      /\ \A q \in 1 .. (k + 1) - (i + 1) : a[q] = s[q + (i + 1) - 1]
  BY ONLY <1>h, <1>1, <1>8, <1>l, Cut, SMTT(60)
<1>10. /\ b \in Seq(Byte) /\ Len(b) = (j + 1) - (k + 1)
       /\ \A q \in 1 .. (j + 1) - (k + 1) : b[q] = s[q + (k + 1) - 1]
  BY ONLY <1>h, <1>8, Cut, SMTT(60)
<1> HIDE DEF a, b
<1>11. a \in Seq(Byte) /\ Len(a) = m /\ b \in Seq(Byte) /\ Len(b) = n
  BY ONLY <1>8, <1>9, <1>10
<1>12. a = x
  <2>1. ASSUME NEW q \in 1 .. m PROVE a[q] = x[q]
    <3>1. q \in 1 .. (k + 1) - (i + 1) /\ q \in 1 .. (j + 1) - (i + 1) /\ q \in 1 .. m + n /\ q <= m
      BY ONLY <1>1, <1>6, <1>8, q \in 1 .. m
    <3>2. a[q] = s[q + (i + 1) - 1] /\ z[q] = s[q + (i + 1) - 1]
      BY <1>2, <1>9, <3>1 DEF z
    <3>3. z[q] = x[q]
      BY ONLY <1>7, <3>1
    <3> QED
      BY ONLY <3>2, <3>3
  <2>2. Len(x) = m
    BY DEF m
  <2> QED
    BY ONLY <1>h, <1>11, <2>1, <2>2, SeqEqual
<1>13. b = y
  <2>1. ASSUME NEW q \in 1 .. n PROVE b[q] = y[q]
    <3> DEFINE p == q + m
    <3>1. /\ q \in 1 .. (j + 1) - (k + 1) /\ p \in 1 .. (j + 1) - (i + 1) /\ p \in 1 .. m + n
          /\ ~ (p <= m) /\ p - m = q /\ q + (k + 1) - 1 = p + (i + 1) - 1
      BY ONLY <1>n, <1>1, <1>6, <1>8, q \in 1 .. n
    <3> HIDE DEF p
    <3>2. b[q] = s[p + (i + 1) - 1]
      BY ONLY <1>10, <3>1
    <3>4. z[p] = s[p + (i + 1) - 1]
      BY <1>2, <3>1 DEF z
    <3>3. z[p] = y[q]
      BY ONLY <1>7, <3>1
    <3> QED
      BY ONLY <3>2, <3>3, <3>4
  <2>2. Len(y) = n
    BY DEF n
  <2> QED
    BY ONLY <1>h, <1>11, <2>1, <2>2, SeqEqual, SMTT(60)
<1> QED
  BY <1>6, <1>8, <1>12, <1>13 DEF a, b, m, n, Halves

(* The first byte of what is between two places.                           *)
Starts(s, i, k, x) ==
    s \in Seq(Byte) /\ i \in Nat /\ k \in Nat /\ i < k /\ k <= Len(s) /\ SubSeq(s, i + 1, k) = x

(* It is there, and the rest has a place.                                  *)
LEMMA FirstByte ==
    ASSUME NEW s, NEW i, NEW k, NEW x, Starts(s, i, k, x)
    PROVE  s[i + 1] = x[1] /\ Len(x) = k - i
<1>h. s \in Seq(Byte) /\ i \in Nat /\ k \in Nat /\ i < k /\ k <= Len(s) /\ SubSeq(s, i + 1, k) = x
  BY DEF Starts
<1>1. i + 1 \in Nat \ {0} /\ i + 1 <= k + 1 /\ (k + 1) - (i + 1) = k - i /\ 1 \in 1 .. k - i
  BY ONLY <1>h
<1>2. /\ Len(SubSeq(s, i + 1, k)) = (k + 1) - (i + 1)
      /\ \A q \in 1 .. (k + 1) - (i + 1) : SubSeq(s, i + 1, k)[q] = s[q + (i + 1) - 1]
  BY ONLY <1>1, <1>h, Cut
<1>3. 1 + (i + 1) - 1 = i + 1
  BY ONLY <1>h
<1>4. x[1] = s[1 + (i + 1) - 1]
  BY ONLY <1>1, <1>2, <1>h
<1> QED
  BY ONLY <1>1, <1>2, <1>3, <1>4, <1>h

(* A reader stands in front of an element with more bytes behind it.       *)
Faces(r, name, c, rest) ==
    /\ Region(r) /\ name \in TagNames /\ Measured(c) /\ rest \in Seq(Byte)
    /\ SubSeq(der, r.pos + 1, r.hi) = Tlv(name, c) \o rest

(* The places of the element: q is in front of its content, e behind it.   *)
Spread(p, hi, name, c, rest, q, e) ==
    /\ p \in Nat /\ q \in Nat /\ e \in Nat /\ hi \in Nat /\ hi <= Len(der) /\ Len(der) \in Nat
    /\ p + 2 <= q /\ q <= e /\ e <= hi /\ Len(c) \in Nat /\ e = q + Len(c)
    /\ p + 1 <= q /\ p + 1 <= Len(der)
    /\ der[p + 1] = Tag[name]
    /\ SubSeq(der, (p + 1) + 1, q) = LengthOctets(Len(c))
    /\ SubSeq(der, q + 1, e) = c /\ SubSeq(der, e + 1, hi) = rest

(* The bytes of a length that is not below Half.                           *)
LongLength(n, w, d) ==
    /\ w \in 1 .. SizeBytes /\ d \in Seq(Byte) /\ Len(d) = w /\ d[1] # 0 /\ FromBE(d) = n
    /\ LengthOctets(n) = <<Half + w>> \o d

(* They are so.                                                            *)
LEMMA LongLengthIs ==
    ASSUME NEW n \in Nat, n < Power(SizeBytes), ~ (n < Half)
    PROVE  \E w, d : LongLength(n, w, d)
<1> DEFINE w == Width(n)
           d == ToBE(n, w)
<1>1. LengthOctets(n) = <<Half + w>> \o d
  BY DEF LengthOctets
<1>2. n # 0 /\ SizeBytes \in Nat
  BY Sizes
<1>3. w \in 0 .. SizeBytes
  BY <1>2, WidthBelow
<1>4. d \in Seq(Byte) /\ Len(d) = w /\ FromBE(d) = n /\ w > 0 /\ d[1] # 0
  BY <1>2, FewestBack
<1> HIDE DEF w, d
<1>5. w \in 1 .. SizeBytes
  BY ONLY <1>2, <1>3, <1>4
<1>6. LongLength(n, w, d)
  BY ONLY <1>1, <1>4, <1>5 DEF LongLength
<1> QED
  BY ONLY <1>6

(* A length takes a byte at least.                                         *)
LEMMA LengthOctetsSome ==
    ASSUME NEW n \in Nat, n < Power(SizeBytes)
    PROVE  Len(LengthOctets(n)) > 0
<1>1. CASE n < Half
  <2>1. LengthOctets(n) = <<n>>
    BY <1>1 DEF LengthOctets
  <2> QED
    BY <2>1
<1>2. CASE ~ (n < Half)
  <2>1. PICK w, d : LongLength(n, w, d)
    BY <1>2, LongLengthIs
  <2>2. d \in Seq(Byte) /\ LengthOctets(n) = <<Half + w>> \o d /\ w \in 1 .. SizeBytes
    BY <2>1 DEF LongLength
  <2>3. Half + w \in Byte
    BY <2>2, Sizes
  <2>4. <<Half + w>> \in Seq(Byte) /\ Len(<<Half + w>>) = 1
    BY ONLY <2>3, Short
  <2>5. Len(<<Half + w>> \o d) = 1 + Len(d) /\ Len(d) \in Nat
    BY ONLY <2>2, <2>4, Joined
  <2> QED
    BY ONLY <2>2, <2>5
<1> QED
  BY <1>1, <1>2

(* They are there.                                                         *)
LEMMA FacesSpread ==
    ASSUME NEW r, NEW name, NEW c, NEW rest, Faces(r, name, c, rest)
    PROVE  \E q, e : Spread(r.pos, r.hi, name, c, rest, q, e)
<1> DEFINE p == r.pos
           hi == r.hi
           l == LengthOctets(Len(c))
           t == <<Tag[name]>>
           S == Byte
<1>1. /\ der \in Seq(Byte) /\ p \in Nat /\ hi \in Nat /\ p <= hi /\ hi <= Len(der) /\ Len(der) \in Nat
  BY DEF Faces, Region
<1>2. c \in Seq(Byte) /\ rest \in Seq(Byte) /\ Len(c) \in Nat /\ Len(c) < Power(SizeBytes)
  BY DEF Faces, Measured
<1>3. Tag[name] \in Byte
  BY TagIs DEF Faces
<1>4. t \in Seq(Byte) /\ Len(t) = 1 /\ t[1] = Tag[name]
  BY ONLY <1>3, Short
<1>5. l \in Seq(Byte) /\ Len(l) > 0 /\ Len(l) \in Nat
  BY <1>2, LengthOctetsSome, LengthOctetsIs
<1>6. SubSeq(der, p + 1, hi) = (t \o (l \o c)) \o rest
  BY DEF Faces, Tlv
<1> HIDE DEF l, t, p, hi
<1>7. SubSeq(der, p + 1, hi) = t \o (l \o (c \o rest))
  <2>1. t \in Seq(S) /\ l \in Seq(S) /\ c \in Seq(S) /\ rest \in Seq(S)
    BY <1>2, <1>4, <1>5
  <2> HIDE DEF S
  <2>2. l \o c \in Seq(S)
    BY ONLY <2>1, 1 \in Nat \ {0}, Data!ConcatFacts
  <2>3. (t \o (l \o c)) \o rest = t \o ((l \o c) \o rest)
    BY ONLY <2>1, <2>2, ConcatAssociative, SMTT(60)
  <2>4. (l \o c) \o rest = l \o (c \o rest)
    BY ONLY <2>1, ConcatAssociative, SMTT(60)
  <2> QED
    BY ONLY <1>6, <2>3, <2>4
<1>8. c \o rest \in Seq(Byte) /\ l \o (c \o rest) \in Seq(Byte)
  <2>1. c \o rest \in Seq(Byte)
    BY ONLY <1>2, Joined
  <2> QED
    BY ONLY <1>5, <2>1, Joined
<1> DEFINE a == p + 1
<1>a. a = p + Len(t)
  BY <1>4
<1>9. /\ a \in Nat /\ p <= a /\ a <= hi
      /\ SubSeq(der, p + 1, a) = t /\ SubSeq(der, a + 1, hi) = l \o (c \o rest)
  <2> HIDE DEF a
  <2>1. Splits(der, p, hi, t, l \o (c \o rest), a)
    BY ONLY <1>1, <1>4, <1>7, <1>8, <1>a DEF Splits
  <2>2. Halves(der, p, hi, t, l \o (c \o rest), a)
    BY ONLY <2>1, CutSplit
  <2> QED
    BY ONLY <2>2 DEF Halves
<1> HIDE DEF a
<1> DEFINE q == a + Len(l)
<1>q. q = a + Len(l)
  OBVIOUS
<1> HIDE DEF q
<1>10. /\ q \in Nat /\ a <= q /\ q <= hi
       /\ SubSeq(der, a + 1, q) = l /\ SubSeq(der, q + 1, hi) = c \o rest
  <2>1. Splits(der, a, hi, l, c \o rest, q)
    BY ONLY <1>1, <1>5, <1>8, <1>9, <1>q DEF Splits
  <2>2. Halves(der, a, hi, l, c \o rest, q)
    BY ONLY <2>1, CutSplit
  <2> QED
    BY ONLY <2>2 DEF Halves
<1> DEFINE e == q + Len(c)
<1>e. e = q + Len(c)
  OBVIOUS
<1> HIDE DEF e
<1>11. /\ e \in Nat /\ q <= e /\ e <= hi
       /\ SubSeq(der, q + 1, e) = c /\ SubSeq(der, e + 1, hi) = rest
  <2>1. Splits(der, q, hi, c, rest, e)
    BY ONLY <1>1, <1>2, <1>10, <1>e DEF Splits
  <2>2. Halves(der, q, hi, c, rest, e)
    BY ONLY <2>1, CutSplit
  <2> QED
    BY ONLY <2>2 DEF Halves
<1>12. a = p + 1
  BY DEF a
<1>13. p < a /\ a <= Len(der)
  BY ONLY <1>1, <1>9, <1>12
<1>14. der[p + 1] = t[1]
  <2>1. Starts(der, p, a, t)
    BY ONLY <1>1, <1>9, <1>13 DEF Starts
  <2> QED
    BY ONLY <2>1, FirstByte
<1>15. der[p + 1] = Tag[name]
  BY <1>4, <1>14
<1>16. p + 2 <= q /\ p + 1 <= q /\ p + 1 <= Len(der) /\ a + 1 = (p + 1) + 1
  BY ONLY <1>1, <1>5, <1>9, <1>10, <1>12, <1>13, <1>q
<1>17. SubSeq(der, (p + 1) + 1, q) = LengthOctets(Len(c))
  BY <1>10, <1>16 DEF l
<1>18. Spread(p, hi, name, c, rest, q, e)
  BY ONLY <1>1, <1>2, <1>10, <1>11, <1>15, <1>16, <1>17, <1>e DEF Spread
<1> QED
  BY <1>18 DEF p, hi

(* The header is read back.                                                *)
LEMMA SpreadRead ==
    ASSUME NEW r, Region(r), NEW name, NEW c, Measured(c), NEW rest, NEW q, NEW e,
           Spread(r.pos, r.hi, name, c, rest, q, e)
    PROVE  ReadTag(r) = Got("OK", q, Tag[name], Len(c))
<1> DEFINE p == r.pos
           hi == r.hi
           n == Len(c)
           b == der[p + 2]
           h == IF b < Half THEN Got("OK", p + 2, der[p + 1], b)
                ELSE IF b - Half \notin 1 .. SizeBytes THEN Got("BAD_LENGTH", p + 2, 0, 0)
                ELSE ReadLength(r, b - Half)
           f == Got("OK", q, Tag[name], n)
<1>0. der \in Seq(Byte)
  BY DEF Region
<1>1. /\ p \in Nat /\ q \in Nat /\ e \in Nat /\ hi \in Nat /\ hi <= Len(der) /\ Len(der) \in Nat
      /\ p + 2 <= q /\ q <= e /\ e <= hi /\ n \in Nat /\ e = q + n
      /\ p + 1 <= q /\ p + 1 <= Len(der)
      /\ der[p + 1] = Tag[name]
      /\ SubSeq(der, (p + 1) + 1, q) = LengthOctets(n)
  BY SMTT(60) DEF Spread
<1>2. n < Power(SizeBytes)
  BY DEF Measured
<1>s. Half \in Nat /\ SizeBytes \in Nat
  BY Sizes
<1>3. ~ (hi - p < 2) /\ p + 1 \in Nat /\ p + 1 < q /\ q <= Len(der) /\ (p + 1) + 1 = p + 2
  BY ONLY <1>1, SMTT(60)
<1>4. ReadTag(r) = IF h.ret = "OK" /\ h.len > hi - h.pos THEN [h EXCEPT !.ret = "TRUNCATED"] ELSE h
  BY <1>3 DEF ReadTag
<1>5. f.ret = "OK" /\ f.pos = q /\ f.len = n /\ ~ (n > hi - q)
  <2>1. f.ret = "OK" /\ f.pos = q /\ f.len = n
    BY GotIs DEF GotFields
  <2> HIDE DEF f, hi, n
  <2>2. ~ (n > hi - q)
    BY ONLY <1>1
  <2> QED
    BY <2>1, <2>2
<1>6. h = f
  <2>1. CASE n < Half
    <3>1. LengthOctets(n) = <<n>>
      BY <2>1 DEF LengthOctets
    <3> DEFINE x == <<n>>
    <3>x. x[1] = n /\ Len(x) = 1
      OBVIOUS
    <3> HIDE DEF x, n, p, hi
    <3>2. SubSeq(der, (p + 1) + 1, q) = x
      BY <1>1, <3>1 DEF x
    <3>3. der[(p + 1) + 1] = x[1] /\ Len(x) = q - (p + 1)
      <4>1. Starts(der, p + 1, q, x)
        BY ONLY <1>0, <1>1, <1>3, <3>2 DEF Starts
      <4> QED
        BY ONLY <4>1, FirstByte
    <3>4. q = p + 2
      <4>1. p \in Nat /\ q \in Nat /\ q - (p + 1) = 1
        BY ONLY <1>1, <3>3, <3>x
      <4> HIDE DEF b, h, f
      <4> QED
        BY ONLY <4>1
    <3>5. b = n
      BY <1>3, <3>3, <3>x
    <3> HIDE DEF b
    <3>6. h = Got("OK", p + 2, der[p + 1], b)
      BY <2>1, <3>5
    <3> QED
      BY <1>1, <3>4, <3>5, <3>6
  <2>2. CASE ~ (n < Half)
    <3>1. \E w, d : LongLength(n, w, d)
      <4> HIDE DEF n
      <4> QED
        BY ONLY <1>1, <1>2, <2>2, LongLengthIs
    <3>2. PICK w, d : LongLength(n, w, d)
      BY ONLY <3>1
    <3>3. /\ w \in 1 .. SizeBytes /\ d \in Seq(Byte) /\ Len(d) = w /\ d[1] # 0 /\ FromBE(d) = n
          /\ LengthOctets(n) = <<Half + w>> \o d
      BY ONLY <3>2 DEF LongLength
    <3> DEFINE x == <<Half + w>>
               k == (p + 1) + 1
    <3>4. Half + w \in Byte
      BY <1>s, <3>3, Sizes
    <3>5. x \in Seq(Byte) /\ Len(x) = 1 /\ x[1] = Half + w
      BY ONLY <3>4, Short
    <3> HIDE DEF x, n, p, hi
    <3>6. SubSeq(der, (p + 1) + 1, q) = x \o d
      BY <1>1, <3>3 DEF x
    <3>k. k = (p + 1) + Len(x)
      BY <3>5
    <3> HIDE DEF k
    <3>7. /\ k <= q /\ w = q - k /\ k \in Nat
          /\ SubSeq(der, (p + 1) + 1, k) = x /\ SubSeq(der, k + 1, q) = d
      <4>1. /\ k \in Nat /\ p + 1 <= k /\ k <= q /\ Len(d) = q - k
            /\ SubSeq(der, (p + 1) + 1, k) = x /\ SubSeq(der, k + 1, q) = d
        <5>1. Splits(der, p + 1, q, x, d, k)
          BY ONLY <1>0, <1>1, <1>3, <3>3, <3>5, <3>6, <3>k DEF Splits
        <5>2. Halves(der, p + 1, q, x, d, k)
          BY ONLY <5>1, CutSplit
        <5> QED
          BY ONLY <5>2 DEF Halves
      <4> QED
        BY <3>3, <4>1
    <3>8. k = p + 2 /\ k < q /\ q = p + 2 + w /\ k + 1 = p + 3 /\ p + 1 < k /\ k <= Len(der)
      <4>1. p \in Nat /\ q \in Nat /\ k \in Nat /\ k = (p + 1) + 1 /\ w \in Nat /\ w >= 1 /\ w = q - k
        BY ONLY <1>1, <1>s, <3>3, <3>5, <3>7, <3>k
      <4>2. Len(der) \in Nat /\ q <= Len(der)
        BY ONLY <1>1, <1>3
      <4> HIDE DEF b, h, f
      <4> QED
        BY ONLY <4>1, <4>2
    <3>9. der[(p + 1) + 1] = x[1]
      <4>1. Starts(der, p + 1, k, x)
        BY ONLY <1>0, <1>1, <1>3, <3>7, <3>8 DEF Starts
      <4> QED
        BY ONLY <4>1, FirstByte
    <3>10. der[k + 1] = d[1]
      <4>1. Starts(der, k, q, d)
        BY ONLY <1>0, <1>1, <1>3, <3>7, <3>8 DEF Starts
      <4> QED
        BY ONLY <4>1, FirstByte
    <3>11. b = Half + w /\ der[p + 3] = d[1]
      BY <1>3, <3>5, <3>8, <3>9, <3>10
    <3> HIDE DEF b
    <3>12. ~ (b < Half) /\ b - Half = w
      BY ONLY <1>s, <3>3, <3>11
    <3>13. h = ReadLength(r, w)
      BY <3>3, <3>12
    <3> HIDE DEF h
    <3>14. ReadLength(r, w) = Got("OK", p + 2 + w, der[p + 1], FromBE(SubSeq(der, p + 3, p + 2 + w)))
      <4>1. ~ (p + 3 > hi) /\ ~ (p + 2 + w > hi)
        BY ONLY <1>1, <3>8, SMTT(60)
      <4>2. der[p + 3] # 0
        BY <3>3, <3>11
      <4>3. ~ (FromBE(SubSeq(der, p + 3, p + 2 + w)) < Half)
        BY ONLY <2>2, <3>3, <3>7, <3>8
      <4> QED
        BY ONLY <4>1, <4>2, <4>3 DEF ReadLength, p, hi
    <3> QED
      BY ONLY <1>1, <3>3, <3>7, <3>8, <3>13, <3>14 DEF f
  <2> QED
    BY <2>1, <2>2
<1> HIDE DEF h, f
<1>7. h.ret = "OK" /\ h.pos = q /\ h.len = n
  BY <1>5, <1>6
<1>8. ~ (h.ret = "OK" /\ h.len > hi - h.pos)
  BY <1>5, <1>7
<1>9. ReadTag(r) = h
  BY ONLY <1>4, <1>8
<1> QED
  BY <1>6, <1>9 DEF f

-----------------------------------------------------------------------------
(* What each reading function returns for what the writer wrote.           *)

(* An answer that is right for an item of the asked type.                  *)
Right(op, room, item, ret, value) ==
    \/ Query(op, room) /\ ret = "OK" /\ Enough(op, value[1], item)
    \/ /\ op \in {"bytes", "words", "oid"} /\ ret = "BUFFER_TOO_SMALL"
       /\ value[1] > room /\ Enough(op, value[1], item)
    \/ op = "u64" /\ ret = "INTEGER_TOO_LARGE" /\ item.val[1] >= Power(U64Bytes)
    \/ ~ Query(op, room) /\ ret = "OK" /\ Given(op, value, item)

(* The header h in front of the content c of item.                         *)
Fronts(item, h, c) == Carries(item, c) /\ h.len = Len(c)

(* The content of an item that has none inside, by its tag.                *)
LEMMA PlainBy ==
    ASSUME NEW it, NEW c, Carries(it, c)
    PROVE  /\ it.tag = "null" => c = <<>>
           /\ it.tag = "boolean" => Len(c) = 1 /\ it.val = <<IF c[1] # 0 THEN 1 ELSE 0>>
           /\ it.tag = "integer" =>
                c # <<>> /\ MinimalInt(c) /\ c[1] < Half /\ it.val = <<FromBE(c)>>
           /\ it.tag \in {"oid", "utf8", "octets"} => it.val = c
           /\ it.tag = "utctime" => \E d \in Date : it.val = <<d>> /\ c = UtcDigits(d)
           /\ it.tag \notin {"gentime"}
BY DEF Carries, Plain, Boxed, Containers

(* The header's length is a length its integer fits in.                    *)
LEMMA BytesEnough ==
    ASSUME NEW it, NEW h, NEW c, Fronts(it, h, c), it.val = <<FromBE(c)>>
    PROVE  /\ Enough("bytes", h.len, it)
           /\ c \in Seq(Byte) /\ Len(c) \in Nat /\ h.len = Len(c) /\ FromBE(c) \in Nat
<1>1. c \in Seq(Byte) /\ Len(c) \in Nat /\ h.len = Len(c)
  BY CarriesIs DEF Fronts, Measured
<1>2. FromBE(c) \in Nat /\ FromBE(c) < Power(Len(c))
  BY <1>1, FromBEBelow
<1>3. it.val[1] < Power(h.len)
  BY <1>1, <1>2
<1> QED
  BY <1>1, <1>2, <1>3 DEF Enough

(* The bytes of an integer.                                                *)
LEMMA BytesRight ==
    ASSUME NEW it, NEW h, NEW c, Fronts(it, h, c), it.tag = "integer", NEW room
    PROVE  Right("bytes", room, it, ToBytes(h, c, room).ret, ToBytes(h, c, room).value)
<1> DEFINE a == ToBytes(h, c, room)
<1>1. c # <<>> /\ MinimalInt(c) /\ it.val = <<FromBE(c)>>
  BY PlainBy DEF Fronts
<1>2. it.val[1] = FromBE(c) /\ Enough("bytes", h.len, it)
  BY <1>1, BytesEnough
<1>l. <<h.len>>[1] = h.len
  OBVIOUS
<1>3. CASE room = NoBuffer
  <2>1. a = Answer("OK", h.pos, <<h.len>>)
    BY <1>1, <1>3 DEF ToBytes
  <2>2. a.ret = "OK" /\ a.value = <<h.len>>
    BY <2>1, AnswerIs
  <2>3. Query("bytes", room)
    BY <1>3 DEF Query, Sized
  <2>4. Enough("bytes", a.value[1], it)
    BY <1>2, <1>l, <2>2
  <2> QED
    BY <2>2, <2>3, <2>4 DEF Right
<1>4. CASE room # NoBuffer /\ h.len > room
  <2>1. a = Answer("BUFFER_TOO_SMALL", h.pos, <<h.len>>)
    BY <1>1, <1>4 DEF ToBytes
  <2>2. a.ret = "BUFFER_TOO_SMALL" /\ a.value = <<h.len>>
    BY <2>1, AnswerIs
  <2>3. Enough("bytes", a.value[1], it) /\ a.value[1] > room
    BY <1>2, <1>4, <1>l, <2>2
  <2> QED
    BY <2>2, <2>3 DEF Right
<1>5. CASE room # NoBuffer /\ ~ (h.len > room)
  <2>1. a = Answer("OK", h.pos + h.len, c)
    BY <1>1, <1>5 DEF ToBytes
  <2>2. a.ret = "OK" /\ a.value = c
    BY <2>1, AnswerIs
  <2>3. ~ Query("bytes", room)
    BY <1>5 DEF Query
  <2>4. Given("bytes", a.value, it)
    BY <1>2, <2>2 DEF Given
  <2> QED
    BY <2>2, <2>3, <2>4 DEF Right
<1> QED
  BY <1>3, <1>4, <1>5

(* t is k zeros and then c.                                                *)
ZerosThen(t, k, c) ==
    /\ t \in Seq(Byte) /\ Len(t) = k + Len(c)
    /\ \A i \in 1 .. k : t[i] = 0
    /\ \A i \in 1 .. Len(c) : t[k + i] = c[i]

(* Zeros in front leave the number.                                        *)
LEMMA LeadingZeros ==
    ASSUME NEW c \in Seq(Byte), NEW k \in Nat, NEW t, ZerosThen(t, k, c)
    PROVE  FromBE(t) = FromBE(c)
<1> DEFINE S == {j \in Nat : \A x : ZerosThen(x, j, c) => FromBE(x) = FromBE(c)}
<1>0. Len(c) \in Nat
  OBVIOUS
<1>1. 0 \in S
  <2>1. SUFFICES ASSUME NEW x, ZerosThen(x, 0, c) PROVE x = c
    OBVIOUS
  <2>2. x \in Seq(Byte) /\ Len(x) = Len(c) /\ \A i \in 1 .. Len(c) : x[i] = c[i]
    BY <1>0, <2>1 DEF ZerosThen
  <2> QED
    BY <2>2, SeqEqual
<1>2. ASSUME NEW j \in Nat, j \in S PROVE j + 1 \in S
  <2>1. SUFFICES ASSUME NEW x, ZerosThen(x, j + 1, c) PROVE FromBE(x) = FromBE(c)
    OBVIOUS
  <2> DEFINE y == Tail(x)
  <2>2. /\ x \in Seq(Byte) /\ Len(x) = (j + 1) + Len(c)
        /\ \A i \in 1 .. j + 1 : x[i] = 0
        /\ \A i \in 1 .. Len(c) : x[(j + 1) + i] = c[i]
    BY <2>1 DEF ZerosThen
  <2>3. Len(x) > 0 /\ x[1] = 0
    BY <1>0, <2>2
  <2>4. y \in Seq(Byte) /\ Len(y) = j + Len(c) /\ \A i \in 1 .. j + Len(c) : y[i] = x[i + 1]
    BY <1>0, <2>2, <2>3
  <2> HIDE DEF y
  <2>5. ASSUME NEW i \in 1 .. j PROVE y[i] = 0
    <3>1. i \in 1 .. j + Len(c) /\ i + 1 \in 1 .. j + 1
      BY <1>0
    <3> QED
      BY <2>2, <2>4, <3>1
  <2>6. ASSUME NEW i \in 1 .. Len(c) PROVE y[j + i] = c[i]
    <3>1. j + i \in 1 .. j + Len(c) /\ (j + i) + 1 = (j + 1) + i
      BY <1>0
    <3> QED
      BY <2>2, <2>4, <3>1
  <2>7. ZerosThen(y, j, c)
    BY <2>4, <2>5, <2>6 DEF ZerosThen
  <2>8. FromBE(y) = FromBE(c)
    BY <1>2, <2>7
  <2> QED
    BY <2>2, <2>3, <2>8, FromBETail DEF y
<1> HIDE DEF S
<1>3. \A j \in Nat : j \in S
  BY <1>1, <1>2, 1 \in Nat \ {0}, Data!SetInduction
<1> QED
  BY <1>3 DEF S

(* The words that n bytes take, and the bytes they have too many.          *)
WordsFor(n, need, offset) ==
    need = (n + WordBytes - 1) \div WordBytes /\ offset = need * WordBytes - n

(* They have room for the bytes.                                           *)
LEMMA WordsForIs ==
    ASSUME NEW n \in Nat \ {0}, NEW need, NEW offset, WordsFor(n, need, offset)
    PROVE  /\ need \in Nat /\ offset \in Nat /\ need * WordBytes \in Nat
           /\ need * WordBytes = offset + n
<1> DEFINE W == WordBytes
           m == n + W - 1
           r == m % W
           t == need * W
<1>1. W \in Nat \ {0} /\ m \in Nat
  BY Sizes
<1>2. need = m \div W /\ offset = t - n
  BY DEF WordsFor
<1>a. m = n + W - 1
  OBVIOUS
<1> HIDE DEF m
<1>3. need \in Nat /\ r \in Nat /\ r < W /\ m = t + r
  BY <1>1, <1>2, Data!DivModSplit
<1> HIDE DEF r
<1>4. t \in Nat
  BY <1>1, <1>3
<1> HIDE DEF t
<1>5. t >= n
  BY ONLY <1>1, <1>3, <1>4, <1>a, n \in Nat
<1>6. offset \in Nat /\ t = offset + n
  BY ONLY <1>2, <1>4, <1>5, n \in Nat
<1> QED
  BY <1>3, <1>4, <1>6 DEF t

(* The byte of c at place p behind as many zeros as offset.                *)
ByteAt(c, offset, p) == IF p < offset THEN 0 ELSE c[p - offset + 1]

(* The words integer_to_words fills with c.                                *)
Filled(c, need, offset) ==
    [w \in 1 .. need |-> FromBE([j \in 1 .. WordBytes |-> ByteAt(c, offset, w * WordBytes - j)])]

(* The place of a byte of the words, counted from either end.              *)
LEMMA FromTheEnd ==
    ASSUME NEW W \in Nat \ {0}, NEW need \in Nat, NEW i \in 1 .. need * W
    PROVE  LET u == (i - 1) \div W
               v == (i - 1) % W
               p == need * W - i
           IN  /\ u \in 0 .. need - 1 /\ v \in 0 .. W - 1 /\ i - 1 = u * W + v
               /\ p \in Nat /\ need - p \div W = u + 1 /\ (p % W) + 1 = W - v
<1> DEFINE u == (i - 1) \div W
           v == (i - 1) % W
           t == need * W
           p == t - i
<1>0. t \in Nat /\ i \in 1 .. t
  OBVIOUS
<1>1. i - 1 \in Nat
  BY <1>0
<1>2. u \in Nat /\ v \in Nat /\ v < W /\ i - 1 = u * W + v
  BY <1>1, Data!DivModSplit
<1> HIDE DEF u, v
<1>3. u < need
  <2> DEFINE x == u * W
  <2>1. x \in Nat
    BY <1>2
  <2>2. x < t
    <3> HIDE DEF x, t
    <3>1. i - 1 = x + v
      BY <1>2 DEF x
    <3> QED
      BY ONLY <1>0, <1>2, <2>1, <3>1
  <2> QED
    BY <1>2, <2>2, Data!MultOrder
<1> DEFINE q == need - 1 - u
           r == W - 1 - v
<1>4. q \in Nat /\ r \in Nat /\ r < W
  BY <1>2, <1>3
<1>5. p = q * W + r
  <2>1. q * W = (need - 1 - u) * W
    OBVIOUS
  <2>2. (need - 1 - u) * W = need * W - W - u * W
    BY <1>2, <1>3
  <2> DEFINE x == u * W
             y == q * W
  <2>3. x \in Nat /\ y \in Nat /\ y = t - W - x /\ i - 1 = x + v
    BY <1>2, <1>4, <2>1, <2>2
  <2> HIDE DEF x, y, t, q
  <2> QED
    BY ONLY <1>0, <1>2, <2>3 DEF y
<1>6. p \in Nat
  BY <1>0
<1> HIDE DEF p
<1>7. need - q = u + 1 /\ r + 1 = W - v
  BY <1>2, <1>3
<1> HIDE DEF q, r
<1>8. p \div W = q /\ p % W = r
  BY <1>4, <1>5, Data!DivMod
<1>9. u \in 0 .. need - 1 /\ v \in 0 .. W - 1
  BY <1>2, <1>3
<1> QED
  BY <1>2, <1>6, <1>7, <1>8, <1>9 DEF u, v, p, t

(* Read from the far end, the bytes of the words are c behind zeros.       *)
LEMMA FilledBack ==
    ASSUME NEW c \in Seq(Byte), NEW need \in Nat, NEW offset \in Nat,
           need * WordBytes = offset + Len(c)
    PROVE  ZerosThen(Reverse(WordsOctets(Filled(c, need, offset))), offset, c)
<1> DEFINE W == WordBytes
           t == need * W
           words == Filled(c, need, offset)
           o == WordsOctets(words)
           T(w) == [j \in 1 .. W |-> ByteAt(c, offset, w * W - j)]
<1>0. W \in Nat \ {0} /\ t \in Nat /\ t = offset + Len(c) /\ Len(c) \in Nat /\ 0 \in Byte
  BY Sizes
<1>1. ASSUME NEW p \in 0 .. t - 1 PROVE ByteAt(c, offset, p) \in Byte
  <2>1. CASE p < offset
    BY <1>0, <2>1 DEF ByteAt
  <2>2. CASE ~ (p < offset)
    <3>1. p - offset + 1 \in 1 .. Len(c)
      <4> HIDE DEF t
      <4> QED
        BY ONLY <1>0, <1>1, <2>2, offset \in Nat
    <3>2. c[p - offset + 1] \in Byte
      BY <3>1
    <3> QED
      BY <2>2, <3>2 DEF ByteAt
  <2> QED
    BY <2>1, <2>2
<1>2. ASSUME NEW w \in 1 .. need
      PROVE  T(w) \in Seq(Byte) /\ Len(T(w)) = W /\ words[w] = FromBE(T(w))
  <2>1. ASSUME NEW j \in 1 .. W PROVE w * W - j \in 0 .. t - 1
    <3>1. w * W <= need * W /\ w * W \in Nat /\ 1 * W <= w * W /\ 1 * W = W
      BY <1>0, Data!MultOrder
    <3> QED
      BY <1>0, <3>1
  <2>2. ASSUME NEW j \in 1 .. W PROVE ByteAt(c, offset, w * W - j) \in Byte
    BY <1>1, <2>1
  <2>3. T(w) \in [1 .. W -> Byte]
    BY <2>2
  <2>4. T(w) \in Seq(Byte) /\ Len(T(w)) = W
    <3> DEFINE f == T(w)
    <3>1. f \in [1 .. W -> Byte]
      BY <2>3
    <3> HIDE DEF f
    <3>2. f \in Seq(Byte) /\ Len(f) = W
      BY <1>0, <3>1, 1 \in Nat \ {0}, Data!TableIsSeq
    <3> QED
      BY <3>2 DEF f
  <2> QED
    BY <2>4 DEF Filled
<1>3. words \in Seq(Nat) /\ Len(words) = need
  <2>1. \A w \in 1 .. need : FromBE(T(w)) \in Nat
    BY <1>2, FromBEBelow
  <2>2. words \in [1 .. need -> Nat]
    BY <2>1 DEF Filled
  <2> HIDE DEF words
  <2> QED
    BY <2>2, 1 \in Nat \ {0}, Data!TableIsSeq
<1> HIDE DEF words
<1>4. ASSUME NEW p \in 1 .. t
      PROVE  o[p] = ToBE(words[need - (p - 1) \div W], W)[((p - 1) % W) + 1]
  BY <1>3, <1>4 DEF WordsOctets
<1>5. o \in Seq(Byte) /\ Len(o) = t
  BY <1>3, WordsOctetsIs
<1> HIDE DEF o
<1> DEFINE z == Reverse(o)
<1>6. ASSUME NEW i \in 1 .. t PROVE z[i] = o[(t - i) + 1]
  BY <1>5, <1>6 DEF Reverse
<1>7. z \in Seq(Byte) /\ Len(z) = t
  <2>1. \A i \in 1 .. t : (t - i) + 1 \in 1 .. t
    <3> HIDE DEF t
    <3> QED
      BY ONLY <1>0
  <2>2. \A i \in 1 .. t : o[(t - i) + 1] \in Byte
    <3> HIDE DEF t
    <3> QED
      BY <1>5, <2>1
  <2>3. z = [i \in 1 .. t |-> o[(t - i) + 1]]
    BY <1>5 DEF Reverse
  <2>4. z \in [1 .. t -> Byte]
    BY <2>2, <2>3
  <2> HIDE DEF z, t
  <2> QED
    BY <1>0, <2>4, 1 \in Nat \ {0}, Data!TableIsSeq
<1> HIDE DEF z
<1>8. ASSUME NEW i \in 1 .. t PROVE z[i] = ByteAt(c, offset, i - 1)
  <2> DEFINE u == (i - 1) \div W
             v == (i - 1) % W
             p == t - i
  <2>1. /\ u \in 0 .. need - 1 /\ v \in 0 .. W - 1 /\ i - 1 = u * W + v
        /\ p \in Nat /\ need - p \div W = u + 1 /\ (p % W) + 1 = W - v
    BY <1>0, <1>8, FromTheEnd
  <2>2. p + 1 \in 1 .. t /\ (p + 1) - 1 = p
    <3> HIDE DEF t
    <3> QED
      BY ONLY <1>0, <1>8 DEF p
  <2>3. z[i] = o[p + 1]
    BY <1>6
  <2> HIDE DEF u, v, p
  <2>4. o[p + 1] = ToBE(words[need - p \div W], W)[(p % W) + 1]
    BY <1>4, <2>2
  <2>5. o[p + 1] = ToBE(words[u + 1], W)[W - v]
    BY <2>1, <2>4
  <2>6. u + 1 \in 1 .. need
    BY <2>1
  <2>7. ToBE(words[u + 1], W) = T(u + 1)
    <3> DEFINE f == T(u + 1)
    <3>1. f \in Seq(Byte) /\ Len(f) = W /\ words[u + 1] = FromBE(f)
      BY <1>2, <2>6
    <3> HIDE DEF f
    <3>2. ToBE(FromBE(f), Len(f)) = f
      BY <3>1, ToBEFromBE
    <3> QED
      BY <3>1, <3>2 DEF f
  <2>8. W - v \in 1 .. W /\ (u + 1) * W - (W - v) = i - 1
    <3>1. (u + 1) * W = u * W + W /\ u * W \in Nat
      BY <1>0, <2>1
    <3> QED
      BY <1>0, <2>1, <3>1
  <2>9. T(u + 1)[W - v] = ByteAt(c, offset, (u + 1) * W - (W - v))
    BY <2>8
  <2> QED
    BY <2>3, <2>5, <2>7, <2>8, <2>9
<1> HIDE DEF t
<1>9. ASSUME NEW i \in 1 .. offset PROVE z[i] = 0
  <2>1. i \in 1 .. t /\ i - 1 < offset
    BY <1>0
  <2> QED
    BY <1>8, <2>1 DEF ByteAt
<1>10. ASSUME NEW i \in 1 .. Len(c) PROVE z[offset + i] = c[i]
  <2>1. offset + i \in 1 .. t /\ ~ ((offset + i) - 1 < offset)
        /\ ((offset + i) - 1) - offset + 1 = i
    BY <1>0
  <2> QED
    BY <1>8, <2>1 DEF ByteAt
<1> QED
  BY <1>0, <1>7, <1>9, <1>10 DEF ZerosThen, z, o, words

(* The words of an integer.                                                *)
LEMMA WordsRight ==
    ASSUME NEW it, NEW h, NEW c, Fronts(it, h, c), it.tag = "integer", NEW room
    PROVE  Right("words", room, it, ToWords(h, c, room).ret, ToWords(h, c, room).value)
<1> DEFINE a == ToWords(h, c, room)
           need == (h.len + WordBytes - 1) \div WordBytes
           offset == need * WordBytes - h.len
           words == Filled(c, need, offset)
<1>1. c # <<>> /\ MinimalInt(c) /\ c[1] < Half /\ it.val = <<FromBE(c)>>
  BY PlainBy DEF Fronts
<1>2. c \in Seq(Byte) /\ Len(c) \in Nat /\ h.len = Len(c) /\ FromBE(c) \in Nat
  BY <1>1, BytesEnough
<1>3. ~ (c[1] >= Half)
  <2>1. c[1] \in Byte
    BY <1>1, <1>2
  <2>2. c[1] \in Nat /\ Half \in Nat
    BY <2>1, ByteIs, Sizes
  <2> QED
    BY ONLY <1>1, <2>2
<1>4. /\ need \in Nat /\ offset \in Nat /\ need * WordBytes \in Nat
      /\ need * WordBytes = offset + Len(c)
  <2>1. h.len \in Nat \ {0}
    BY <1>1, <1>2
  <2>2. WordsFor(h.len, need, offset)
    BY DEF WordsFor
  <2> HIDE DEF need, offset
  <2>3. /\ need \in Nat /\ offset \in Nat /\ need * WordBytes \in Nat
        /\ need * WordBytes = offset + h.len
    BY <2>1, <2>2, WordsForIs
  <2> QED
    BY <1>2, <2>3
<1>a. a = IF room = NoBuffer THEN Answer("OK", h.pos, <<need>>)
          ELSE IF room < need THEN Answer("BUFFER_TOO_SMALL", h.pos, <<need>>)
          ELSE Answer("OK", h.pos + h.len, words)
  BY <1>1, <1>3 DEF ToWords, Filled, ByteAt
<1> HIDE DEF a, need, offset
<1>5. Enough("words", need, it)
  <2>1. FromBE(c) < Power(Len(c)) /\ Power(Len(c)) <= Power(need * WordBytes)
    <3>1. Len(c) <= need * WordBytes
      BY ONLY <1>2, <1>4
    <3> QED
      BY <1>2, <1>4, <3>1, FromBEBelow, PowerOrder
  <2>2. Power(Len(c)) \in Nat /\ Power(need * WordBytes) \in Nat
    BY <1>2, <1>4, PowerGrows
  <2>3. FromBE(c) < Power(need * WordBytes)
    BY ONLY <1>2, <2>1, <2>2
  <2>4. it.val[1] < Power(need * WordBytes)
    BY <1>1, <2>3
  <2> QED
    BY <2>4 DEF Enough
<1>l. <<need>>[1] = need
  OBVIOUS
<1>6. CASE room = NoBuffer
  <2>1. a = Answer("OK", h.pos, <<need>>)
    BY <1>a, <1>6
  <2>2. a.ret = "OK" /\ a.value = <<need>>
    BY <2>1, AnswerIs
  <2>3. Query("words", room)
    BY <1>6 DEF Query, Sized
  <2>4. Enough("words", a.value[1], it)
    BY <1>5, <1>l, <2>2
  <2> QED
    BY <2>2, <2>3, <2>4 DEF Right, a
<1>7. CASE room # NoBuffer /\ room < need
  <2>1. a = Answer("BUFFER_TOO_SMALL", h.pos, <<need>>)
    BY <1>a, <1>7
  <2>2. a.ret = "BUFFER_TOO_SMALL" /\ a.value = <<need>>
    BY <2>1, AnswerIs
  <2>3. Enough("words", a.value[1], it) /\ a.value[1] > room
    BY <1>5, <1>7, <1>l, <2>2
  <2> QED
    BY <2>2, <2>3 DEF Right, a
<1>8. CASE room # NoBuffer /\ ~ (room < need)
  <2>1. a = Answer("OK", h.pos + h.len, words)
    BY <1>a, <1>8
  <2>2. a.ret = "OK" /\ a.value = words
    BY <2>1, AnswerIs
  <2>3. ~ Query("words", room)
    BY <1>8 DEF Query
  <2>4. FromBE(Reverse(WordsOctets(words))) = it.val[1]
    <3> DEFINE z == Reverse(WordsOctets(words))
    <3>1. ZerosThen(z, offset, c)
      BY <1>2, <1>4, FilledBack
    <3> HIDE DEF z
    <3>2. FromBE(z) = FromBE(c)
      BY <1>2, <1>4, <3>1, LeadingZeros
    <3> QED
      BY <1>1, <3>2 DEF z
  <2>5. Given("words", words, it)
    BY <2>4 DEF Given
  <2> QED
    BY <2>2, <2>3, <2>5 DEF Right, a
<1> QED
  BY <1>6, <1>7, <1>8 DEF a

(* An integer that no leading zero makes longer than k bytes.              *)
LEMMA Wide ==
    ASSUME NEW s \in Seq(Byte), NEW k \in Nat, Len(s) > k, s[1] # 0
    PROVE  FromBE(s) >= Power(k)
<1>1. PICK g : NumberTable(s, g)
  BY NumberTables
<1>2. Len(s) \in 1 .. Len(s) /\ Len(s) \in Nat /\ Len(s) > 0 /\ Len(s) - 1 \in Nat /\ k <= Len(s) - 1
  OBVIOUS
<1>3. FromBE(s) >= Power(Len(s) - 1)
  BY <1>1, <1>2, NumberAbove DEF NumberTable
<1>4. Power(k) <= Power(Len(s) - 1)
  BY <1>2, PowerOrder
<1>5. FromBE(s) \in Nat /\ Power(k) \in Nat /\ Power(Len(s) - 1) \in Nat
  BY <1>2, FromBEBelow, PowerGrows
<1> QED
  BY ONLY <1>3, <1>4, <1>5

(* A positive integer that takes more than n bytes is no u64.              *)
LEMMA TooLarge ==
    ASSUME NEW c \in Seq(Byte), c # <<>>, MinimalInt(c), NEW n \in Nat \ {0},
           Len(c) > n + 1 \/ (Len(c) = n + 1 /\ c[1] # 0)
    PROVE  FromBE(c) >= Power(n)
<1>0. Len(c) \in Nat /\ Len(c) > n
  OBVIOUS
<1>1. CASE c[1] # 0
  BY <1>0, <1>1, Wide
<1>2. CASE c[1] = 0
  <2>1. Len(c) > n + 1 /\ Len(c) > 1
    BY <1>2
  <2>2. ~ (c[2] < Half)
    BY <1>2, <2>1 DEF MinimalInt
  <2>3. c[2] \in Byte
    BY <2>1
  <2>4. c[2] # 0
    <3>1. c[2] \in Nat /\ Half \in Nat /\ Half >= 5
      BY <2>3, ByteIs, Sizes
    <3> QED
      BY ONLY <2>2, <3>1
  <2>5. Tail(c) \in Seq(Byte) /\ Len(Tail(c)) > n /\ Tail(c)[1] = c[2]
    BY <1>0, <2>1
  <2>6. FromBE(Tail(c)) >= Power(n)
    BY <2>4, <2>5, Wide
  <2>7. FromBE(Tail(c)) = FromBE(c)
    BY <1>0, <1>2, FromBETail
  <2> QED
    BY <2>6, <2>7
<1> QED
  BY <1>1, <1>2

(* A u64.                                                                  *)
LEMMA U64Right ==
    ASSUME NEW it, NEW h, NEW c, Fronts(it, h, c), it.tag = "integer", NEW room
    PROVE  Right("u64", room, it, ToU64(h, c).ret, ToU64(h, c).value)
<1> DEFINE a == ToU64(h, c)
<1>1. c # <<>> /\ MinimalInt(c) /\ c[1] < Half /\ it.val = <<FromBE(c)>>
  BY PlainBy DEF Fronts
<1>2. it.val[1] = FromBE(c)
  BY <1>1
<1>3. c \in Seq(Byte) /\ h.len = Len(c) /\ Len(c) \in Nat
  BY CarriesIs DEF Fronts, Measured
<1>4. ~ (c[1] >= Half)
  <2>1. c[1] \in Byte
    BY <1>1, <1>3
  <2>2. c[1] \in Nat /\ Half \in Nat
    BY <2>1, ByteIs, Sizes
  <2> QED
    BY ONLY <1>1, <2>2
<1>5. U64Bytes \in Nat \ {0}
  BY DerAssumption
<1>6. CASE h.len > U64Bytes + 1
  <2>1. a = Answer("INTEGER_TOO_LARGE", h.pos, <<>>)
    BY <1>1, <1>6 DEF ToU64
  <2>2. a.ret = "INTEGER_TOO_LARGE"
    BY <2>1, AnswerIs
  <2>3. FromBE(c) >= Power(U64Bytes)
    BY <1>1, <1>3, <1>5, <1>6, TooLarge
  <2> QED
    BY <1>2, <2>2, <2>3 DEF Right
<1>7. CASE ~ (h.len > U64Bytes + 1) /\ h.len = U64Bytes + 1 /\ c[1] # 0
  <2>1. a = Answer("INTEGER_TOO_LARGE", h.pos + h.len, <<>>)
    BY <1>1, <1>4, <1>7 DEF ToU64
  <2>2. a.ret = "INTEGER_TOO_LARGE"
    BY <2>1, AnswerIs
  <2>3. FromBE(c) >= Power(U64Bytes)
    BY <1>1, <1>3, <1>5, <1>7, TooLarge
  <2> QED
    BY <1>2, <2>2, <2>3 DEF Right
<1>8. CASE ~ (h.len > U64Bytes + 1) /\ ~ (h.len = U64Bytes + 1 /\ c[1] # 0)
  <2>1. a = Answer("OK", h.pos + h.len, <<FromBE(c)>>)
    BY <1>1, <1>4, <1>8 DEF ToU64
  <2>2. a.ret = "OK" /\ a.value = it.val
    BY <1>1, <2>1, AnswerIs
  <2>3. ~ Query("u64", room) /\ Given("u64", a.value, it)
    BY <2>2 DEF Query, Sized, Given
  <2> QED
    BY <2>2, <2>3 DEF Right
<1> QED
  BY <1>6, <1>7, <1>8

(* A boolean.                                                              *)
LEMMA BooleanRight ==
    ASSUME NEW it, NEW h, NEW c, Fronts(it, h, c), it.tag = "boolean", NEW room
    PROVE  Right("boolean", room, it, ToBoolean(h, c).ret, ToBoolean(h, c).value)
<1> DEFINE a == ToBoolean(h, c)
<1>1. h.len = 1 /\ it.val = <<IF c[1] # 0 THEN 1 ELSE 0>>
  BY PlainBy DEF Fronts
<1>2. a = Answer("OK", h.pos + 1, it.val)
  BY <1>1 DEF ToBoolean
<1>3. a.ret = "OK" /\ a.value = it.val
  BY <1>2, AnswerIs
<1>4. ~ Query("boolean", room) /\ Given("boolean", a.value, it)
  BY <1>3 DEF Query, Sized, Given
<1> QED
  BY <1>3, <1>4 DEF Right

(* An object identifier.                                                   *)
LEMMA OidRight ==
    ASSUME NEW it, NEW h, NEW c, Fronts(it, h, c), it.tag = "oid", NEW room
    PROVE  Right("oid", room, it, ToOid(h, c, room).ret, ToOid(h, c, room).value)
<1> DEFINE a == ToOid(h, c, room)
<1>1. it.val = c /\ h.len = Len(c)
  BY PlainBy DEF Fronts
<1>l. <<h.len>>[1] = h.len
  OBVIOUS
<1>2. CASE room = NoBuffer
  <2>1. a = Answer("OK", h.pos, <<h.len>>)
    BY <1>2 DEF ToOid
  <2>2. a.ret = "OK" /\ a.value = <<h.len>> /\ Query("oid", room)
    BY <1>2, <2>1, AnswerIs DEF Query, Sized
  <2>3. Enough("oid", a.value[1], it)
    BY <1>1, <1>l, <2>2 DEF Enough
  <2> QED
    BY <2>2, <2>3 DEF Right
<1>3. CASE room # NoBuffer /\ h.len > room
  <2>1. a = Answer("BUFFER_TOO_SMALL", h.pos, <<h.len>>)
    BY <1>3 DEF ToOid
  <2>2. a.ret = "BUFFER_TOO_SMALL" /\ a.value = <<h.len>>
    BY <2>1, AnswerIs
  <2>3. Enough("oid", a.value[1], it) /\ a.value[1] > room
    BY <1>1, <1>3, <1>l, <2>2 DEF Enough
  <2> QED
    BY <2>2, <2>3 DEF Right
<1>4. CASE room # NoBuffer /\ ~ (h.len > room)
  <2>1. a = Answer("OK", h.pos + h.len, c)
    BY <1>4 DEF ToOid
  <2>2. a.ret = "OK" /\ a.value = c
    BY <2>1, AnswerIs
  <2>3. ~ Query("oid", room) /\ Given("oid", a.value, it)
    BY <1>1, <1>4, <2>2 DEF Query, Given
  <2> QED
    BY <2>2, <2>3 DEF Right
<1> QED
  BY <1>2, <1>3, <1>4

(* The strings.                                                            *)
LEMMA TextRight ==
    ASSUME NEW op \in {"utf8", "octets"}, NEW it, NEW h, NEW c, Fronts(it, h, c),
           it.tag = op, NEW room
    PROVE  Right(op, room, it, ToText(h, c, room).ret, ToText(h, c, room).value)
<1> DEFINE a == ToText(h, c, room)
<1>1. it.val = c /\ h.len = Len(c)
  BY PlainBy DEF Fronts
<1>l. <<h.len>>[1] = h.len
  OBVIOUS
<1>2. CASE room = NoBuffer
  <2>1. a = Answer("OK", h.pos, <<h.len>>)
    BY <1>2 DEF ToText
  <2>2. a.ret = "OK" /\ a.value = <<h.len>> /\ Query(op, room)
    BY <1>2, <2>1, AnswerIs DEF Query, Sized
  <2>3. Enough(op, a.value[1], it)
    BY <1>1, <1>l, <2>2 DEF Enough
  <2> QED
    BY <2>2, <2>3 DEF Right
<1>3. CASE room # NoBuffer
  <2>1. a = Answer("OK", h.pos + h.len, c)
    BY <1>3 DEF ToText
  <2>2. a.ret = "OK" /\ a.value = c
    BY <2>1, AnswerIs
  <2>3. ~ Query(op, room) /\ Given(op, a.value, it)
    BY <1>1, <1>3, <2>2 DEF Query, Given
  <2> QED
    BY <2>2, <2>3 DEF Right
<1> QED
  BY <1>2, <1>3

(* A null.                                                                 *)
LEMMA NullRight ==
    ASSUME NEW it, NEW h, NEW c, Fronts(it, h, c), it.tag = "null", NEW room
    PROVE  Right("null", room, it, ToNull(h).ret, ToNull(h).value)
<1>1. h.len = 0
  BY PlainBy DEF Fronts
<1>2. ToNull(h).ret = "OK"
  BY <1>1, AnswerIs DEF ToNull
<1>3. ~ Query("null", room) /\ Given("null", ToNull(h).value, it)
  BY DEF Query, Sized, Given
<1> QED
  BY <1>2, <1>3 DEF Right

(* A container.                                                            *)
LEMMA ContainerRight ==
    ASSUME NEW op \in {"sequence", "set"}, NEW it, NEW room, NEW p, NEW c
    PROVE  Right(op, room, it, Answer("OK", p, c).ret, Answer("OK", p, c).value)
BY AnswerIs DEF Right, Query, Sized, Given

(* What a bit string holds.                                                *)
LEMMA BitsHeld ==
    ASSUME NEW it, NEW c, Carries(it, c), it.tag = "bits"
    PROVE  /\ c # <<>> /\ c \in Seq(Byte) /\ BitStringTaken(Tail(c), Head(c))
           /\ it.kids = <<>> => Tail(c) = it.val
           /\ it.kids # <<>> => Laid(it.kids, Tail(c))
<1>0. c \in Seq(Byte)
  BY DEF Carries, Measured
<1>1. CASE Plain(it, c)
  <2>1. it.kids = <<>> /\ c # <<>> /\ BitStringTaken(Tail(c), Head(c)) /\ it.val = Tail(c)
    BY <1>1 DEF Plain
  <2> QED
    BY <1>0, <2>1
<1>2. CASE \E b : Boxed(it, c, b) /\ Laid(it.kids, b)
  <2>1. PICK b : Boxed(it, c, b) /\ Laid(it.kids, b)
    BY <1>2
  <2>2. it.val = <<>> /\ c = <<0>> \o b
    BY <2>1 DEF Boxed
  <2>3. b \in Seq(Byte) /\ IsList(b)
    <3>1. b \in Seq(Byte)
      BY <2>1, LaidIs
    <3> QED
      BY <3>1 DEF IsList
  <2>4. c # <<>> /\ Head(c) = 0 /\ Tail(c) = b
    BY <2>2, <2>3, ListCons
  <2>5. BitStringTaken(b, 0)
    <3>1. 0 < Bits
      <4>1. Bits \in 1 .. Base - 1 /\ Base \in Nat
        BY DerWriterAssumption
      <4> QED
        BY ONLY <4>1
    <3>2. UnusedClear(b, 0)
      <4>1. SUFFICES ASSUME Len(b) > 0 PROVE b[Len(b)] % 2 ^ 0 = 0
        BY DEF UnusedClear
      <4>2. b[Len(b)] \in Byte
        BY <2>3, <4>1
      <4>3. b[Len(b)] \in Nat
        BY <4>2, ByteIs
      <4>4. 2 ^ 0 = 1
        OBVIOUS
      <4> QED
        BY ONLY <4>3, <4>4
    <3> QED
      BY <3>1, <3>2 DEF BitStringTaken
  <2>6. it.kids = <<>> => b = <<>>
    <3>1. SUFFICES ASSUME it.kids = <<>>, b # <<>> PROVE FALSE
      OBVIOUS
    <3>2. Laid(<<>>, b)
      BY <2>1, <3>1
    <3>3. PICK x, more, d, rest : Begins(<<>>, b, x, more, d, rest)
      BY <3>1, <3>2, LaidBegins
    <3>4. <<>> = <<x>> \o more /\ IsList(more)
      BY <3>3, LaidIs DEF Begins
    <3> QED
      BY ONLY <3>4, ListCons
  <2> QED
    BY <1>0, <2>1, <2>2, <2>4, <2>5, <2>6
<1> QED
  BY <1>1, <1>2 DEF Carries

(* A bit string.                                                           *)
LEMMA BitsRight ==
    ASSUME NEW it, NEW h, NEW c, Fronts(it, h, c), it.tag = "bits", NEW room
    PROVE  Right("bits", room, it, ToBits(h, c).ret, ToBits(h, c).value)
<1> DEFINE a == ToBits(h, c)
<1>1. /\ c # <<>> /\ BitStringTaken(Tail(c), Head(c))
      /\ it.kids = <<>> => Tail(c) = it.val
  BY BitsHeld DEF Fronts
<1>2. a = Answer("OK", h.pos + h.len, Tail(c))
  BY <1>1 DEF ToBits
<1>3. a.ret = "OK" /\ a.value = Tail(c)
  <2> DEFINE t == Tail(c)
             p == h.pos + h.len
  <2>1. a = Answer("OK", p, t)
    BY <1>2
  <2> HIDE DEF a, p, t
  <2>2. a.ret = "OK" /\ a.value = t
    BY ONLY <2>1, AnswerIs
  <2> QED
    BY <2>2 DEF t
<1> HIDE DEF a
<1>4. ~ Query("bits", room) /\ Given("bits", a.value, it)
  BY <1>1, <1>3 DEF Query, Sized, Given
<1> QED
  BY <1>3, <1>4 DEF Right, a

(* The string p spells the first j numbers of ns, two digits each.         *)
Spelled(p, j, ns) ==
    /\ p \in Seq(Byte) /\ j \in Nat /\ Len(p) = 2 * j
    /\ \A i \in 1 .. 2 * j : p[i] \in Nat /\ p[i] <= 9
    /\ \A i \in 1 .. j : p[2 * i - 1] * 10 + p[2 * i] = ns[i]

(* Two decimal digits are their number.                                    *)
LEMMA DigitsBack ==
    ASSUME NEW n \in 0 .. 99
    PROVE  \E x, y \in 0 .. 9 : Digits2(n) = <<x, y>> /\ x * 10 + y = n
<1> DEFINE x == (n \div 10) % 10
           y == n % 10
<1>1. x \in 0 .. 9 /\ y \in 0 .. 9 /\ x * 10 + y = n
  OBVIOUS
<1>2. Digits2(n) = <<x, y>>
  BY DEF Digits2
<1> HIDE DEF x, y
<1> QED
  BY <1>1, <1>2

(* A string and two bytes behind it.                                       *)
TwoMore(p, q, x, y, n, k) ==
    /\ q \in Seq(Byte) /\ k = n + 2 /\ Len(q) = k
    /\ \A i \in 1 .. n : q[i] = p[i]
    /\ q[n + 1] = x /\ q[n + 2] = y

(* They are so.                                                            *)
LEMMA TwoMoreIs ==
    ASSUME NEW p \in Seq(Byte), NEW x \in Byte, NEW y \in Byte, NEW n \in Nat, Len(p) = n
    PROVE  TwoMore(p, p \o <<x, y>>, x, y, n, n + 2)
<1> DEFINE S == Byte
           t == <<x, y>>
           q == p \o t
<1>1. t \in Seq(S) /\ Len(t) = 2 /\ t[1] = x /\ t[2] = y /\ p \in Seq(S)
  OBVIOUS
<1> HIDE DEF S, t
<1>2. /\ q \in Seq(S) /\ Len(q) = Len(p) + Len(t)
      /\ \A i \in 1 .. Len(p) + Len(t) : q[i] = IF i <= Len(p) THEN p[i] ELSE t[i - Len(p)]
  BY ONLY <1>1, ConcatProperties
<1> HIDE DEF q
<1>3. /\ q \in Seq(S) /\ Len(q) = n + 2
      /\ \A i \in 1 .. n + 2 : q[i] = IF i <= n THEN p[i] ELSE t[i - n]
  BY ONLY <1>1, <1>2, Len(p) = n
<1>4. /\ 1 .. n \subseteq 1 .. n + 2 /\ n + 1 \in 1 .. n + 2 /\ n + 2 \in 1 .. n + 2
      /\ ~ (n + 1 <= n) /\ ~ (n + 2 <= n) /\ (n + 1) - n = 1 /\ (n + 2) - n = 2
      /\ \A i \in 1 .. n : i <= n
  BY ONLY n \in Nat
<1>5. (\A i \in 1 .. n : q[i] = p[i]) /\ q[n + 1] = x /\ q[n + 2] = y
  BY ONLY <1>1, <1>3, <1>4
<1>6. q \in Seq(Byte)
  BY <1>3 DEF S
<1>7. TwoMore(p, q, x, y, n, n + 2)
  BY ONLY <1>3, <1>5, <1>6 DEF TwoMore
<1> QED
  BY <1>7 DEF q, t

(* Two more digits spell one more number.                                  *)
LEMMA SpellOn ==
    ASSUME NEW p, NEW j, NEW ns, Spelled(p, j, ns), NEW n, n \in 0 .. 99, ns[j + 1] = n
    PROVE  Spelled(p \o Digits2(n), j + 1, ns)
<1>1. /\ p \in Seq(Byte) /\ j \in Nat /\ Len(p) = 2 * j
      /\ \A i \in 1 .. 2 * j : p[i] \in Nat /\ p[i] <= 9
      /\ \A i \in 1 .. j : p[2 * i - 1] * 10 + p[2 * i] = ns[i]
  BY DEF Spelled
<1>2. PICK x \in 0 .. 9, y \in 0 .. 9 : Digits2(n) = <<x, y>> /\ x * 10 + y = n
  BY DigitsBack
<1>3. x \in Byte /\ y \in Byte
  BY Sizes
<1> DEFINE q == p \o <<x, y>>
           m == 2 * j
<1>4. m \in Nat /\ 2 * (j + 1) = m + 2
  BY <1>1
<1>5. TwoMore(p, q, x, y, m, m + 2)
  BY <1>1, <1>3, <1>4, TwoMoreIs
<1>q. p \o Digits2(n) = q
  BY <1>2
<1> HIDE DEF q, m
<1>6. /\ q \in Seq(Byte) /\ Len(q) = m + 2
      /\ \A i \in 1 .. m : q[i] = p[i]
      /\ q[m + 1] = x /\ q[m + 2] = y
  BY <1>5 DEF TwoMore
<1>7. ASSUME NEW i \in 1 .. m + 2 PROVE q[i] \in Nat /\ q[i] <= 9
  <2>1. i \in 1 .. m \/ i = m + 1 \/ i = m + 2
    BY <1>4
  <2>2. \A k \in 1 .. m : p[k] \in Nat /\ p[k] <= 9
    BY <1>1 DEF m
  <2> QED
    BY ONLY <1>6, <2>1, <2>2, x \in 0 .. 9, y \in 0 .. 9
<1>8. ASSUME NEW i \in 1 .. j + 1 PROVE q[2 * i - 1] * 10 + q[2 * i] = ns[i]
  <2>1. CASE i \in 1 .. j
    <3>1. 2 * i - 1 \in 1 .. m /\ 2 * i \in 1 .. m
      BY <1>1, <2>1 DEF m
    <3>2. q[2 * i - 1] = p[2 * i - 1] /\ q[2 * i] = p[2 * i]
      BY ONLY <1>6, <3>1
    <3> QED
      BY ONLY <1>1, <2>1, <3>2
  <2>2. CASE i = j + 1
    <3>1. 2 * i - 1 = m + 1 /\ 2 * i = m + 2
      BY <1>1, <2>2 DEF m
    <3> QED
      BY ONLY <1>2, <1>6, <2>2, <3>1, ns[j + 1] = n
  <2> QED
    BY <1>1, <2>1, <2>2
<1>9. j + 1 \in Nat
  BY <1>1
<1>10. Spelled(q, j + 1, ns)
  BY ONLY <1>4, <1>6, <1>7, <1>8, <1>9 DEF Spelled
<1> QED
  BY ONLY <1>q, <1>10

(* The first two digits.                                                   *)
LEMMA SpellOne ==
    ASSUME NEW ns, NEW n, n \in 0 .. 99, ns[1] = n
    PROVE  Spelled(Digits2(n), 1, ns)
<1>1. PICK x \in 0 .. 9, y \in 0 .. 9 : Digits2(n) = <<x, y>> /\ x * 10 + y = n
  BY DigitsBack
<1>2. x \in Byte /\ y \in Byte
  BY Sizes
<1> DEFINE t == <<x, y>>
<1>3. t \in Seq(Byte) /\ Len(t) = 2 /\ t[1] = x /\ t[2] = y
  BY <1>2
<1> HIDE DEF t
<1>4. /\ 2 * 1 = 2 /\ 2 * 1 - 1 = 1 /\ 1 .. 2 = {1, 2} /\ 1 .. 1 = {1}
  OBVIOUS
<1>5. /\ \A i \in {1, 2} : t[i] \in Nat /\ t[i] <= 9
      /\ \A i \in {1} : t[2 * i - 1] * 10 + t[2 * i] = ns[i]
  <2>1. \A i \in {1, 2} : t[i] \in Nat /\ t[i] <= 9
    BY ONLY <1>3, x \in 0 .. 9, y \in 0 .. 9
  <2>2. t[2 * 1 - 1] * 10 + t[2 * 1] = ns[1]
    <3>1. t[2 * 1 - 1] = x /\ t[2 * 1] = y
      BY ONLY <1>3, <1>4
    <3> QED
      BY ONLY <1>1, <3>1, ns[1] = n
  <2> QED
    BY ONLY <2>1, <2>2
<1>6. Spelled(t, 1, ns)
  BY ONLY <1>3, <1>4, <1>5 DEF Spelled
<1> QED
  BY <1>1, <1>6 DEF t

(* The longest month.                                                      *)
LEMMA MonthDays ==
    ASSUME NEW y, NEW m \in 1 .. 12
    PROVE  DaysInMonth(y, m) \in 0 .. 31
<1> DEFINE t == <<31, 28, 31, 30, 31, 30, 31, 31, 30, 31, 30, 31>>
<1>1. t[m] \in 0 .. 31
  <2>1. m \in {1, 2, 3, 4, 5, 6, 7, 8, 9, 10, 11, 12}
    OBVIOUS
  <2> QED
    BY ONLY <2>1
<1> HIDE DEF t
<1>2. DaysInMonth(y, m) = IF m = 2 /\ IsLeapYear(y) THEN 29 ELSE t[m]
  BY DEF DaysInMonth, t
<1> QED
  BY <1>1, <1>2

(* The numbers a date is spelled with.                                     *)
Numbers(d) == <<d.y % 100, d.m, d.d, d.h, d.mi, d.s>>

(* A date the readers take has two digits for each.                        *)
LEMMA DateNumbers ==
    ASSUME NEW d \in Date, TimeTaken(d)
    PROVE  /\ d.y % 100 \in 0 .. 99 /\ d.m \in 0 .. 99 /\ d.d \in 0 .. 99
           /\ d.h \in 0 .. 99 /\ d.mi \in 0 .. 99 /\ d.s \in 0 .. 99
<1>1. d.y \in Nat /\ d.m \in Nat /\ d.d \in Nat /\ d.h \in Nat /\ d.mi \in Nat /\ d.s \in Nat
  BY SMTT(60) DEF Date
<1>2. d.m \in 1 .. 12 /\ d.d \in 1 .. DaysInMonth(d.y, d.m) /\ d.h < 24 /\ d.mi < 60 /\ d.s < 60
  BY DEF TimeTaken
<1>3. DaysInMonth(d.y, d.m) \in 0 .. 31
  BY <1>2, MonthDays
<1>4. d.y % 100 \in 0 .. 99
  BY ONLY <1>1
<1> QED
  BY ONLY <1>1, <1>2, <1>3, <1>4, SMTT(60)

(* The digits of a UTCTime, and the Z behind them.                         *)
LEMMA UtcSpelled ==
    ASSUME NEW d \in Date, TimeTaken(d)
    PROVE  \E p : Spelled(p, 6, Numbers(d)) /\ UtcDigits(d) = p \o <<Zed>>
<1> DEFINE ns == Numbers(d)
           a == d.y % 100
           b == d.m
           c == d.d
           e == d.h
           f == d.mi
           g == d.s
<1>1. /\ a \in 0 .. 99 /\ b \in 0 .. 99 /\ c \in 0 .. 99
      /\ e \in 0 .. 99 /\ f \in 0 .. 99 /\ g \in 0 .. 99
  BY DateNumbers
<1>u. UtcDigits(d) = Digits2(a) \o Digits2(b) \o Digits2(c) \o Digits2(e) \o Digits2(f)
                       \o Digits2(g) \o <<Zed>>
  BY DEF UtcDigits
<1> HIDE DEF a, b, c, e, f, g
<1>2. ns[1] = a /\ ns[1 + 1] = b /\ ns[2 + 1] = c /\ ns[3 + 1] = e /\ ns[4 + 1] = f /\ ns[5 + 1] = g
  BY DEF Numbers, a, b, c, e, f, g
<1>3. 1 + 1 = 2 /\ 2 + 1 = 3 /\ 3 + 1 = 4 /\ 4 + 1 = 5 /\ 5 + 1 = 6
  OBVIOUS
<1> HIDE DEF ns
<1> DEFINE pa == Digits2(a)
           pb == pa \o Digits2(b)
           pc == pb \o Digits2(c)
           pe == pc \o Digits2(e)
           pf == pe \o Digits2(f)
           pg == pf \o Digits2(g)
<1>4. Spelled(pa, 1, ns)
  BY ONLY <1>1, <1>2, SpellOne
<1>5. Spelled(pb, 2, ns)
  <2> HIDE DEF pa
  <2>1. Spelled(pb, 1 + 1, ns)
    BY ONLY <1>1, <1>2, <1>4, SpellOn
  <2> QED
    BY ONLY <1>3, <2>1
<1>6. Spelled(pc, 3, ns)
  <2> HIDE DEF pb
  <2>1. Spelled(pc, 2 + 1, ns)
    BY ONLY <1>1, <1>2, <1>5, SpellOn
  <2> QED
    BY ONLY <1>3, <2>1
<1>7. Spelled(pe, 4, ns)
  <2> HIDE DEF pc
  <2>1. Spelled(pe, 3 + 1, ns)
    BY ONLY <1>1, <1>2, <1>6, SpellOn
  <2> QED
    BY ONLY <1>3, <2>1
<1>8. Spelled(pf, 5, ns)
  <2> HIDE DEF pe
  <2>1. Spelled(pf, 4 + 1, ns)
    BY ONLY <1>1, <1>2, <1>7, SpellOn
  <2> QED
    BY ONLY <1>3, <2>1
<1>9. Spelled(pg, 6, ns)
  <2> HIDE DEF pf
  <2>1. Spelled(pg, 5 + 1, ns)
    BY ONLY <1>1, <1>2, <1>8, SpellOn
  <2> QED
    BY ONLY <1>3, <2>1
<1>10. UtcDigits(d) = pg \o <<Zed>>
  BY <1>u
<1> HIDE DEF pg
<1> QED
  BY <1>9, <1>10 DEF ns

(* What is spelled.                                                        *)
LEMMA SpelledSix ==
    ASSUME NEW p, NEW ns, Spelled(p, 6, ns)
    PROVE  /\ p \in Seq(Byte) /\ Len(p) = 12
           /\ \A i \in 1 .. 12 : p[i] \in Nat /\ p[i] <= 9
           /\ \A i \in 1 .. 6 : p[2 * i - 1] * 10 + p[2 * i] = ns[i]
<1>1. 2 * 6 = 12
  OBVIOUS
<1>2. /\ p \in Seq(Byte) /\ Len(p) = 2 * 6
      /\ \A i \in 1 .. 2 * 6 : p[i] \in Nat /\ p[i] <= 9
      /\ \A i \in 1 .. 6 : p[2 * i - 1] * 10 + p[2 * i] = ns[i]
  BY Zenon DEF Spelled
<1> QED
  BY ONLY <1>1, <1>2, Zenon

(* A date the reader should give back, and its bytes.                      *)
Spelt(d, p, c) ==
    /\ d \in Date /\ TimeTaken(d) /\ d.y < 2050
    /\ Spelled(p, 6, Numbers(d)) /\ c = p \o <<Zed>>

(* What the reader makes of such digits.                                   *)
LEMMA SpelledBack ==
    ASSUME NEW d, NEW p, NEW c, Spelt(d, p, c)
    PROVE  UtcTime(c) = d /\ c[13] = Zed /\ \A i \in 1 .. 12 : ~ (c[i] > 9)
<1> DEFINE ns == Numbers(d)
<1>d. d \in Date /\ TimeTaken(d) /\ d.y < 2050 /\ Spelled(p, 6, ns) /\ c = p \o <<Zed>>
  BY DEF Spelt
<1>1. p \in Seq(Byte) /\ Len(p) = 12
  BY <1>d, SpelledSix
<1>s. Spelled(p, 6, ns)
  BY ONLY <1>d
<1> HIDE DEF ns
<1>b. \A i \in 1 .. 6 : p[2 * i - 1] * 10 + p[2 * i] = ns[i]
  BY ONLY <1>s, SpelledSix, ZenonT(60)
<1>2. \A i \in 1 .. 12 : p[i] \in Nat /\ p[i] <= 9
  BY ONLY <1>s, SpelledSix, Zenon
<1>3. /\ p[1] * 10 + p[2] = ns[1] /\ p[3] * 10 + p[4] = ns[2] /\ p[5] * 10 + p[6] = ns[3]
      /\ p[7] * 10 + p[8] = ns[4] /\ p[9] * 10 + p[10] = ns[5] /\ p[11] * 10 + p[12] = ns[6]
  <2>2. /\ 2 * 1 - 1 = 1 /\ 2 * 1 = 2 /\ 2 * 2 - 1 = 3 /\ 2 * 2 = 4 /\ 2 * 3 - 1 = 5 /\ 2 * 3 = 6
        /\ 2 * 4 - 1 = 7 /\ 2 * 4 = 8 /\ 2 * 5 - 1 = 9 /\ 2 * 5 = 10 /\ 2 * 6 - 1 = 11 /\ 2 * 6 = 12
    OBVIOUS
  <2>3. 1 \in 1 .. 6 /\ 2 \in 1 .. 6 /\ 3 \in 1 .. 6 /\ 4 \in 1 .. 6 /\ 5 \in 1 .. 6 /\ 6 \in 1 .. 6
    OBVIOUS
  <2>4. /\ p[2 * 1 - 1] * 10 + p[2 * 1] = ns[1] /\ p[2 * 2 - 1] * 10 + p[2 * 2] = ns[2]
        /\ p[2 * 3 - 1] * 10 + p[2 * 3] = ns[3] /\ p[2 * 4 - 1] * 10 + p[2 * 4] = ns[4]
        /\ p[2 * 5 - 1] * 10 + p[2 * 5] = ns[5] /\ p[2 * 6 - 1] * 10 + p[2 * 6] = ns[6]
    BY ONLY <1>b, <2>3
  <2> QED
    BY ONLY <2>2, <2>4
<1>4. /\ ns[1] = d.y % 100 /\ ns[2] = d.m /\ ns[3] = d.d
      /\ ns[4] = d.h /\ ns[5] = d.mi /\ ns[6] = d.s
  BY DEF ns, Numbers
<1> DEFINE S == Byte
           z == <<Zed>>
<1>5. z \in Seq(S) /\ Len(z) = 1 /\ z[1] = Zed /\ p \in Seq(S) /\ c = p \o z
  BY <1>1, <1>d, DerWriterAssumption
<1> HIDE DEF S, z
<1>6. /\ c \in Seq(S) /\ Len(c) = Len(p) + Len(z)
      /\ \A i \in 1 .. Len(p) + Len(z) : c[i] = IF i <= Len(p) THEN p[i] ELSE z[i - Len(p)]
  BY ONLY <1>5, ConcatProperties
<1>7. c \in Seq(S) /\ Len(c) = 13 /\ c[13] = Zed /\ \A i \in 1 .. 12 : c[i] = p[i]
  <2>1. /\ 12 + 1 = 13 /\ 13 - 12 = 1 /\ 13 \in 1 .. 13 /\ ~ (13 <= 12) /\ 1 .. 12 \subseteq 1 .. 13
        /\ \A i \in 1 .. 12 : i <= 12
    OBVIOUS
  <2> QED
    BY ONLY <1>1, <1>5, <1>6, <2>1, SMTT(60)
<1> DEFINE t == SubSeq(c, 3, 12)
<1>8. \A i \in 1 .. 10 : t[i] = c[i + 2]
  <2>1. 3 \in Nat \ {0} /\ 12 \in Nat /\ 3 <= 12 + 1 /\ 12 <= 13 /\ (12 + 1) - 3 = 10
    OBVIOUS
  <2>2. c \in Seq(Byte) /\ 12 <= Len(c)
    BY <1>7 DEF S
  <2>3. \A k \in 1 .. (12 + 1) - 3 : t[k] = c[k + 3 - 1]
    BY ONLY <2>1, <2>2, Cut
  <2>4. \A i \in 1 .. 10 : i + 3 - 1 = i + 2
    OBVIOUS
  <2> QED
    BY ONLY <2>1, <2>3, <2>4
<1> HIDE DEF t
<1>9. /\ c[1] = p[1] /\ c[2] = p[2] /\ t[1] = p[3] /\ t[2] = p[4] /\ t[3] = p[5] /\ t[4] = p[6]
      /\ t[5] = p[7] /\ t[6] = p[8] /\ t[7] = p[9] /\ t[8] = p[10] /\ t[9] = p[11] /\ t[10] = p[12]
  <2>1. /\ t[1] = c[1 + 2] /\ t[2] = c[2 + 2] /\ t[3] = c[3 + 2] /\ t[4] = c[4 + 2] /\ t[5] = c[5 + 2]
        /\ t[6] = c[6 + 2] /\ t[7] = c[7 + 2] /\ t[8] = c[8 + 2] /\ t[9] = c[9 + 2] /\ t[10] = c[10 + 2]
    BY ONLY <1>8
  <2>2. \A i \in 1 .. 12 : c[i] = p[i]
    BY ONLY <1>7
  <2>3. /\ c[1] = p[1] /\ c[2] = p[2] /\ c[3] = p[3] /\ c[4] = p[4] /\ c[5] = p[5] /\ c[6] = p[6]
        /\ c[7] = p[7] /\ c[8] = p[8] /\ c[9] = p[9] /\ c[10] = p[10] /\ c[11] = p[11] /\ c[12] = p[12]
    BY ONLY <2>2
  <2> QED
    BY ONLY <2>1, <2>3
<1>10. /\ Two(c, 1) = d.y % 100 /\ Two(t, 1) = d.m /\ Two(t, 3) = d.d
       /\ Two(t, 5) = d.h /\ Two(t, 7) = d.mi /\ Two(t, 9) = d.s
  <2>1. /\ c[1] * 10 + c[1 + 1] = d.y % 100 /\ t[1] * 10 + t[1 + 1] = d.m /\ t[3] * 10 + t[3 + 1] = d.d
        /\ t[5] * 10 + t[5 + 1] = d.h /\ t[7] * 10 + t[7 + 1] = d.mi /\ t[9] * 10 + t[9 + 1] = d.s
    <3>1. 1 + 1 = 2 /\ 3 + 1 = 4 /\ 5 + 1 = 6 /\ 7 + 1 = 8 /\ 9 + 1 = 10
      OBVIOUS
    <3> QED
      BY ONLY <1>3, <1>4, <1>9, <3>1
  <2> QED
    BY ONLY <2>1 DEF Two
<1> DEFINE y == (IF Two(c, 1) >= 50 THEN 1900 ELSE 2000) + Two(c, 1)
<1>11. y = d.y
  <2> DEFINE u == d.y
  <2>1. u \in 1970 .. 9999 /\ u < 2050
    BY <1>d, SMTT(60) DEF TimeTaken
  <2>2. y = (IF u % 100 >= 50 THEN 1900 ELSE 2000) + (u % 100)
    BY <1>10
  <2> HIDE DEF u, y
  <2>3. y = u
    <3>1. CASE u < 2000
      <4>1. u = 19 * 100 + (u - 1900) /\ u - 1900 \in Nat /\ u - 1900 < 100
        BY ONLY <2>1, <3>1
      <4>2. u % 100 = u - 1900
        BY ONLY <2>1, <4>1
      <4> QED
        BY ONLY <2>1, <2>2, <3>1, <4>2, SMTT(60)
    <3>2. CASE ~ (u < 2000)
      <4>2. u % 100 = u - 2000
        BY ONLY <2>1, <3>2
      <4> QED
        BY ONLY <2>1, <2>2, <3>2, <4>2, SMTT(60)
    <3> QED
      BY ONLY <3>1, <3>2
  <2> QED
    BY <2>3, SMTT(60) DEF u
<1>12. UtcTime(c) = [y |-> d.y, m |-> d.m, d |-> d.d, h |-> d.h, mi |-> d.mi, s |-> d.s]
  <2>1. UtcTime(c) = TimeOf(y, t)
    BY DEF UtcTime, t
  <2> HIDE DEF y
  <2> QED
    BY ONLY <1>10, <1>11, <2>1 DEF TimeOf
<1>13. d = [y |-> d.y, m |-> d.m, d |-> d.d, h |-> d.h, mi |-> d.mi, s |-> d.s]
  BY <1>d DEF Date
<1>14. ASSUME NEW i \in 1 .. 12 PROVE ~ (c[i] > 9)
  <2>1. c[i] = p[i] /\ p[i] \in Nat /\ p[i] <= 9
    BY ONLY <1>2, <1>7
  <2> QED
    BY ONLY <2>1
<1> QED
  BY ONLY <1>7, <1>12, <1>13, <1>14

(* A UTCTime.                                                              *)
LEMMA UtcRight ==
    ASSUME NEW it, NEW h, NEW c, Fronts(it, h, c), it.tag = "utctime",
           TimeTaken(it.val[1]), it.val[1].y < 2050, NEW room
    PROVE  Right("utctime", room, it, ToTime(h, c, 13, UtcTime(c)).ret,
                 ToTime(h, c, 13, UtcTime(c)).value)
<1>1. PICK d \in Date : it.val = <<d>> /\ c = UtcDigits(d)
  BY PlainBy DEF Fronts
<1>2. it.val[1] = d
  BY <1>1
<1>3. TimeTaken(d) /\ d.y < 2050
  BY <1>2
<1>4. h.len = 13
  BY <1>1, UtcLength DEF Fronts
<1>5. PICK p : Spelled(p, 6, Numbers(d)) /\ UtcDigits(d) = p \o <<Zed>>
  BY <1>3, UtcSpelled
<1>6. UtcTime(c) = d /\ c[13] = Zed /\ \A i \in 1 .. 12 : ~ (c[i] > 9)
  <2>1. Spelt(d, p, c)
    BY <1>1, <1>3, <1>5 DEF Spelt
  <2> QED
    BY ONLY <2>1, SpelledBack
<1> DEFINE u == UtcTime(c)
           a == ToTime(h, c, 13, u)
<1>7. u = d
  BY <1>6
<1> HIDE DEF u
<1>8. a = Answer("OK", h.pos + 13, <<u>>)
  <2>1. 13 - 1 = 12
    OBVIOUS
  <2>2. ~ (c[13] # Zed \/ (\E i \in 1 .. 13 - 1 : c[i] > 9) \/ ~ TimeTaken(u))
    BY ONLY <1>3, <1>6, <1>7, <2>1
  <2> QED
    BY ONLY <1>4, <2>2 DEF ToTime
<1>9. a.ret = "OK" /\ a.value = <<u>>
  BY <1>8, AnswerIs
<1>10. a.value = it.val
  BY <1>1, <1>7, <1>9
<1> HIDE DEF a
<1>11. Right("utctime", room, it, a.ret, a.value)
  <2>1. ~ Query("utctime", room) /\ Given("utctime", a.value, it)
    BY <1>10 DEF Query, Sized, Given
  <2> QED
    BY <1>9, <2>1 DEF Right
<1> QED
  BY <1>11 DEF a, u

(* What a call on an item should answer.                                   *)
Told(op, room, item, ret, value) ==
    /\ op \in DOMAIN Asks /\ Asks[op] # item.tag => ret = "BAD_TAG"
    /\ Means(op, item) => Right(op, room, item, ret, value)

(* An answer of data is behind the content.                                *)
Passed(op, room, h, a) == a.ret = "OK" /\ ~ Query(op, room) => a.pos = h.pos + h.len

(* The content of a container that was read.                               *)
Grown(op, it, c, a) ==
    op \in Containers /\ a.ret = "OK" /\ it.kids # <<>> =>
        Laid(it.kids, a.value) /\ (a.value = c \/ (c # <<>> /\ a.value = Tail(c)))

(* The tags are different numbers.                                         *)
LEMMA TagOnce ==
    ASSUME NEW n \in TagNames, NEW m \in TagNames, Tag[n] = Tag[m]
    PROVE  n = m
<1>1. n \in DOMAIN Tag /\ m \in DOMAIN Tag
  BY DerAssumption DEF TagNames
<1>2. \A i, j \in DOMAIN Tag : Tag[i] = Tag[j] => i = j
  BY DerWriterAssumption
<1> QED
  BY ONLY <1>1, <1>2, Tag[n] = Tag[m]

(* What each function asks for is a tag.                                   *)
LEMMA AsksIs ==
    /\ \A op \in Ops : op # "skip" => op \in DOMAIN Asks /\ Asks[op] \in TagNames
    /\ "skip" \notin DOMAIN Asks
    /\ Asks["bytes"] = "integer" /\ Asks["words"] = "integer" /\ Asks["u64"] = "integer"
    /\ Asks["boolean"] = "boolean" /\ Asks["oid"] = "oid" /\ Asks["utf8"] = "utf8"
    /\ Asks["octets"] = "octets" /\ Asks["bits"] = "bits" /\ Asks["null"] = "null"
    /\ Asks["utctime"] = "utctime" /\ Asks["gentime"] = "gentime"
    /\ Asks["sequence"] = "sequence" /\ Asks["set"] = "set"
<1>1. DOMAIN Asks = {"bytes", "words", "u64", "boolean", "oid", "utf8", "octets", "bits", "null",
                     "utctime", "gentime", "sequence", "set"}
  BY DEF Asks
<1>2. /\ Asks["bytes"] = "integer" /\ Asks["words"] = "integer" /\ Asks["u64"] = "integer"
      /\ Asks["boolean"] = "boolean" /\ Asks["oid"] = "oid" /\ Asks["utf8"] = "utf8"
      /\ Asks["octets"] = "octets" /\ Asks["bits"] = "bits" /\ Asks["null"] = "null"
      /\ Asks["utctime"] = "utctime" /\ Asks["gentime"] = "gentime"
      /\ Asks["sequence"] = "sequence" /\ Asks["set"] = "set"
  BY DEF Asks
<1>3. ASSUME NEW op \in Ops, op # "skip" PROVE op \in DOMAIN Asks /\ Asks[op] \in TagNames
  <2>1. op \in DOMAIN Asks
    BY <1>3 DEF Ops
  <2> QED
    BY ONLY <1>1, <1>2, <2>1 DEF TagNames
<1> QED
  BY ONLY <1>1, <1>2, <1>3

(* A call in front of a header that was read.                              *)
Calls(op, room, it, h, c, a) ==
    /\ op \in Ops /\ Fronts(it, h, c) /\ it.tag \in TagNames
    /\ h.ret = "OK" /\ h.tag = Tag[it.tag] /\ h.pos \in Nat /\ h.len \in Nat
    /\ h = ReadTag(readers[Len(readers)]) /\ c = SubSeq(der, h.pos + 1, h.pos + h.len)
    /\ a = Read(op, room)

(* A call for another tag.                                                 *)
LEMMA OtherTold ==
    ASSUME NEW op, NEW room, NEW it, NEW h, NEW c, NEW a, Calls(op, room, it, h, c, a),
           op # "skip", Asks[op] # it.tag
    PROVE  Told(op, room, it, a.ret, a.value) /\ Passed(op, room, h, a)
<1>1. op \in Ops /\ it.tag \in TagNames /\ h.ret = "OK" /\ h.tag = Tag[it.tag]
  BY DEF Calls
<1>2. Asks[op] \in TagNames
  BY <1>1, AsksIs
<1>3. h.tag # Tag[Asks[op]]
  BY <1>1, <1>2, TagOnce
<1>4. h = ReadTag(readers[Len(readers)]) /\ a = Read(op, room)
  BY SMTT(60) DEF Calls
<1>5. a = Answer("BAD_TAG", h.pos, <<>>)
  BY <1>1, <1>3, <1>4 DEF Read
<1>6. a.ret = "BAD_TAG"
  BY <1>5, AnswerIs
<1>7. ~ Means(op, it)
  BY DEF Means
<1> QED
  BY <1>6, <1>7 DEF Told, Passed

(* A call that skips the element.                                          *)
LEMMA SkipTold ==
    ASSUME NEW room, NEW it, NEW h, NEW c, NEW a, Calls("skip", room, it, h, c, a)
    PROVE  Told("skip", room, it, a.ret, a.value) /\ Passed("skip", room, h, a)
<1>1. h.ret = "OK" /\ h = ReadTag(readers[Len(readers)]) /\ a = Read("skip", room)
  BY DEF Calls
<1>2. a = Answer("OK", h.pos + h.len, <<>>)
  BY <1>1 DEF Read
<1>3. a.pos = h.pos + h.len
  BY <1>2, AnswerIs
<1>4. "skip" \notin DOMAIN Asks
  BY AsksIs
<1> QED
  BY <1>3, <1>4 DEF Told, Passed, Means

(* What a call for the tag that is there computes.                         *)
LEMMA SameRead ==
    ASSUME NEW op, NEW room, NEW it, NEW h, NEW c, NEW a, Calls(op, room, it, h, c, a),
           op # "skip", Asks[op] = it.tag
    PROVE  /\ op = "bytes" => a = ToBytes(h, c, room)
           /\ op = "words" => a = ToWords(h, c, room)
           /\ op = "u64" => a = ToU64(h, c)
           /\ op = "boolean" => a = ToBoolean(h, c)
           /\ op = "oid" => a = ToOid(h, c, room)
           /\ op \in {"utf8", "octets"} => a = ToText(h, c, room)
           /\ op = "bits" => a = ToBits(h, c)
           /\ op = "null" => a = ToNull(h)
           /\ op = "utctime" => a = ToTime(h, c, 13, UtcTime(c))
           /\ op \in {"sequence", "set"} => a = Answer("OK", h.pos + h.len, c)
<1>1. /\ h.ret = "OK" /\ h = ReadTag(readers[Len(readers)]) /\ a = Read(op, room)
      /\ h.tag = Tag[Asks[op]] /\ c = SubSeq(der, h.pos + 1, h.pos + h.len)
  BY DEF Calls
<1>2. ASSUME op = "bytes" PROVE a = ToBytes(h, c, room)
  BY <1>1, <1>2 DEF Read
<1>3. ASSUME op = "words" PROVE a = ToWords(h, c, room)
  BY <1>1, <1>3 DEF Read
<1>4. ASSUME op = "u64" PROVE a = ToU64(h, c)
  BY <1>1, <1>4 DEF Read
<1>5. ASSUME op = "boolean" PROVE a = ToBoolean(h, c)
  BY <1>1, <1>5 DEF Read
<1>6. ASSUME op = "oid" PROVE a = ToOid(h, c, room)
  BY <1>1, <1>6, SMTT(60) DEF Read
<1>7. ASSUME op \in {"utf8", "octets"} PROVE a = ToText(h, c, room)
  BY <1>1, <1>7 DEF Read
<1>8. ASSUME op = "bits" PROVE a = ToBits(h, c)
  BY <1>1, <1>8 DEF Read
<1>9. ASSUME op = "null" PROVE a = ToNull(h)
  BY <1>1, <1>9, SMTT(60) DEF Read
<1>10. ASSUME op = "utctime" PROVE a = ToTime(h, c, 13, UtcTime(c))
  BY <1>1, <1>10 DEF Read
<1>11. ASSUME op \in {"sequence", "set"} PROVE a = Answer("OK", h.pos + h.len, c)
  BY <1>1, <1>11 DEF Read
<1> QED
  BY ONLY <1>2, <1>3, <1>4, <1>5, <1>6, <1>7, <1>8, <1>9, <1>10, <1>11, SMTT(60)

(* Where the calls that Accepted says nothing of leave the reader.         *)
LEMMA BytesPassed ==
    ASSUME NEW h, NEW c, NEW room
    PROVE  Passed("bytes", room, h, ToBytes(h, c, room))
BY DEF Passed, ToBytes, Answer, Query, Sized

(* Of the words of an integer.                                             *)
LEMMA WordsPassed ==
    ASSUME NEW h, NEW c, NEW room
    PROVE  Passed("words", room, h, ToWords(h, c, room))
BY DEF Passed, ToWords, Answer, Query, Sized

(* Of a boolean.                                                           *)
LEMMA BooleanPassed ==
    ASSUME NEW h, NEW c, NEW room
    PROVE  Passed("boolean", room, h, ToBoolean(h, c))
BY DEF Passed, ToBoolean, Answer

(* Of a UTCTime.                                                           *)
LEMMA UtcPassed ==
    ASSUME NEW h, NEW c, NEW date, NEW room
    PROVE  Passed("utctime", room, h, ToTime(h, c, 13, date))
BY DEF Passed, ToTime, Answer

(* Of the others.                                                          *)
LEMMA OtherPassed ==
    ASSUME NEW op \in {"u64", "oid", "utf8", "octets", "bits", "null", "sequence", "set"},
           NEW room, NEW h, NEW c, NEW a, Accepted(op, room, h, c, a)
    PROVE  Passed(op, room, h, a)
BY DEF Accepted, Passed, Query, Sized

(* A right answer is one that is told.                                     *)
LEMMA RightTold ==
    ASSUME NEW op, NEW room, NEW it, NEW ret, NEW value, Asks[op] = it.tag,
           Right(op, room, it, ret, value)
    PROVE  Told(op, room, it, ret, value)
BY DEF Told

(* A call for the tag that is there.                                       *)
LEMMA SameTold ==
    ASSUME NEW op, NEW room, NEW it, NEW h, NEW c, NEW a, Calls(op, room, it, h, c, a),
           op # "skip", Asks[op] = it.tag
    PROVE  Told(op, room, it, a.ret, a.value) /\ Passed(op, room, h, a)
<1>1. /\ op \in Ops /\ Fronts(it, h, c) /\ h.ret = "OK" /\ h.pos \in Nat /\ h.len \in Nat
      /\ h = ReadTag(readers[Len(readers)]) /\ c = SubSeq(der, h.pos + 1, h.pos + h.len)
      /\ a = Read(op, room) /\ Carries(it, c)
  BY DEF Calls, Fronts
<1>2. Accepted(op, room, h, c, a)
  <2>1. h.ret = "OK" => h.len \in Nat
    BY <1>1
  <2>2. ReadIs(op, room, h, c, Read(op, room))
    BY <1>1, <2>1, ReadFacts
  <2> QED
    BY <1>1, <2>2 DEF ReadIs
<1>3. CASE op = "bytes"
  <2>1. a = ToBytes(h, c, room) /\ it.tag = "integer"
    BY <1>3, SameRead, AsksIs
  <2>2. Right(op, room, it, a.ret, a.value)
    BY ONLY <1>1, <1>3, <2>1, BytesRight
  <2> QED
    BY <1>3, <2>1, <2>2, RightTold, BytesPassed
<1>4. CASE op = "words"
  <2>1. a = ToWords(h, c, room) /\ it.tag = "integer"
    BY <1>4, SameRead, AsksIs
  <2>2. Right(op, room, it, a.ret, a.value)
    BY ONLY <1>1, <1>4, <2>1, WordsRight
  <2> QED
    BY <1>4, <2>1, <2>2, RightTold, WordsPassed
<1>5. CASE op = "u64"
  <2>1. a = ToU64(h, c) /\ it.tag = "integer"
    BY <1>5, SameRead, AsksIs
  <2>2. Right(op, room, it, a.ret, a.value)
    BY ONLY <1>1, <1>5, <2>1, U64Right
  <2> QED
    BY <1>2, <1>5, <2>2, RightTold, OtherPassed
<1>6. CASE op = "boolean"
  <2>1. a = ToBoolean(h, c) /\ it.tag = "boolean"
    BY <1>6, SameRead, AsksIs
  <2>2. Right(op, room, it, a.ret, a.value)
    BY ONLY <1>1, <1>6, <2>1, BooleanRight
  <2> QED
    BY <1>6, <2>1, <2>2, RightTold, BooleanPassed
<1>7. CASE op = "oid"
  <2>1. a = ToOid(h, c, room) /\ it.tag = "oid"
    BY <1>7, SameRead, AsksIs
  <2>2. Right(op, room, it, a.ret, a.value)
    BY ONLY <1>1, <1>7, <2>1, OidRight
  <2> QED
    BY <1>2, <1>7, <2>2, RightTold, OtherPassed
<1>8. CASE op \in {"utf8", "octets"}
  <2>1. a = ToText(h, c, room) /\ it.tag = op
    BY <1>8, SameRead, AsksIs, SMTT(60)
  <2>2. Right(op, room, it, a.ret, a.value)
    BY ONLY <1>1, <1>8, <2>1, TextRight
  <2> QED
    BY <1>2, <1>8, <2>2, RightTold, OtherPassed
<1>9. CASE op = "bits"
  <2>1. a = ToBits(h, c) /\ it.tag = "bits"
    BY <1>9, SameRead, AsksIs
  <2>2. Right(op, room, it, a.ret, a.value)
    BY ONLY <1>1, <1>9, <2>1, BitsRight, SMTT(60)
  <2> QED
    BY <1>2, <1>9, <2>2, RightTold, OtherPassed
<1>10. CASE op = "null"
  <2>1. a = ToNull(h) /\ it.tag = "null"
    BY <1>10, SameRead, AsksIs
  <2>2. Right(op, room, it, a.ret, a.value)
    BY ONLY <1>1, <1>10, <2>1, NullRight
  <2> QED
    BY <1>2, <1>10, <2>2, RightTold, OtherPassed
<1>11. CASE op = "utctime"
  <2>1. a = ToTime(h, c, 13, UtcTime(c)) /\ it.tag = "utctime"
    BY <1>11, SameRead, AsksIs
  <2>2. Passed(op, room, h, a)
    BY <1>11, <2>1, UtcPassed
  <2>3. CASE TimeTaken(it.val[1]) /\ it.val[1].y < 2050
    <3>0. TimeTaken(it.val[1]) /\ it.val[1].y < 2050 /\ it.tag = "utctime" /\ Fronts(it, h, c)
      BY ONLY <1>1, <2>1, <2>3
    <3> DEFINE z == ToTime(h, c, 13, UtcTime(c))
    <3>1. Right("utctime", room, it, z.ret, z.value)
      BY ONLY <3>0, UtcRight
    <3>2. a = z /\ op = "utctime"
      BY <1>11, <2>1
    <3> HIDE DEF z
    <3>3. Right(op, room, it, a.ret, a.value)
      BY ONLY <3>1, <3>2
    <3> QED
      BY <2>2, <3>3, RightTold, SMTT(60)
  <2>4. CASE ~ (TimeTaken(it.val[1]) /\ it.val[1].y < 2050)
    <3>1. ~ Means(op, it)
      BY <2>1, <2>4 DEF Means
    <3> QED
      BY <2>2, <3>1 DEF Told
  <2> QED
    BY <2>3, <2>4
<1>12. CASE op = "gentime"
  <2>1. it.tag = "gentime"
    BY <1>12, AsksIs
  <2> QED
    BY ONLY <1>1, <2>1, PlainBy
<1>13. CASE op \in {"sequence", "set"}
  <2>1. a = Answer("OK", h.pos + h.len, c)
    BY <1>13, SameRead
  <2>2. Right(op, room, it, a.ret, a.value)
    BY ONLY <1>13, <2>1, ContainerRight
  <2> QED
    BY <1>2, <1>13, <2>2, RightTold, OtherPassed
<1>14. op \in {"bytes", "words", "u64", "boolean", "oid", "utf8", "octets", "bits", "null",
               "utctime", "gentime", "sequence", "set", "skip"}
  BY <1>1, OpsAre
<1> QED
  BY <1>3, <1>4, <1>5, <1>6, <1>7, <1>8, <1>9, <1>10, <1>11, <1>12, <1>13, <1>14, SMTT(60)

(* What is in a container that was read.                                   *)
LEMMA SameGrown ==
    ASSUME NEW op, NEW room, NEW it, NEW h, NEW c, NEW a, Calls(op, room, it, h, c, a),
           op # "skip", Asks[op] = it.tag
    PROVE  Grown(op, it, c, a)
<1>1. Carries(it, c)
  BY DEF Calls, Fronts
<1>2. CASE op \in {"sequence", "set"} /\ it.kids # <<>>
  <2>1. a = Answer("OK", h.pos + h.len, c) /\ it.tag = op
    BY <1>2, SameRead, AsksIs
  <2>2. a.value = c
    BY <2>1, AnswerIs
  <2>3. PICK b : Boxed(it, c, b) /\ Laid(it.kids, b)
    BY <1>1, <1>2 DEF Carries, Plain
  <2>4. b = c
    BY <1>2, <2>1, <2>3 DEF Boxed
  <2> QED
    BY <2>2, <2>3, <2>4 DEF Grown
<1>3. CASE op = "bits" /\ it.kids # <<>>
  <2>1. a = ToBits(h, c) /\ it.tag = "bits"
    BY <1>3, SameRead, AsksIs
  <2>2. /\ c # <<>> /\ BitStringTaken(Tail(c), Head(c)) /\ Laid(it.kids, Tail(c))
    BY <1>1, <1>3, <2>1, BitsHeld
  <2> DEFINE t == Tail(c)
             p == h.pos + h.len
  <2>3. a = Answer("OK", p, t)
    BY <2>1, <2>2 DEF ToBits
  <2> HIDE DEF t, p
  <2>4. a.value = t
    BY ONLY <2>3, AnswerIs
  <2> QED
    BY <2>2, <2>4 DEF Grown, t
<1> QED
  BY <1>2, <1>3 DEF Grown, Containers

(* Every call on an item.                                                  *)
LEMMA CallTold ==
    ASSUME NEW op, NEW room, NEW it, NEW h, NEW c, NEW a, Calls(op, room, it, h, c, a)
    PROVE  Told(op, room, it, a.ret, a.value) /\ Passed(op, room, h, a) /\ Grown(op, it, c, a)
<1>1. CASE op = "skip"
  <2>1. Told(op, room, it, a.ret, a.value) /\ Passed(op, room, h, a)
    BY <1>1, SkipTold
  <2>2. Grown(op, it, c, a)
    BY <1>1 DEF Grown, Containers
  <2> QED
    BY <2>1, <2>2
<1>2. CASE op # "skip" /\ Asks[op] # it.tag
  <2>1. Told(op, room, it, a.ret, a.value) /\ Passed(op, room, h, a)
    BY <1>2, OtherTold
  <2>2. Grown(op, it, c, a)
    <3>1. op \in Containers => a.ret = "BAD_TAG"
      <4>1. op \in DOMAIN Asks
        BY <1>2, AsksIs DEF Calls
      <4> QED
        BY <1>2, <2>1, <4>1 DEF Told
    <3> QED
      BY <3>1 DEF Grown
  <2> QED
    BY <2>1, <2>2
<1>3. CASE op # "skip" /\ Asks[op] = it.tag
  BY <1>3, SameTold, SameGrown
<1> QED
  BY <1>1, <1>2, <1>3

-----------------------------------------------------------------------------
(* A reader in front of what was written.                                  *)

(* The bytes in front of a reader.                                         *)
Ahead(r) == SubSeq(der, r.pos + 1, r.hi)

(* There are as many as the region has left.                               *)
LEMMA AheadIs ==
    ASSUME NEW r, Region(r)
    PROVE  Ahead(r) \in Seq(Byte) /\ (r.pos = r.hi <=> Ahead(r) = <<>>)
<1> DEFINE i == r.pos + 1
           j == r.hi
           s == SubSeq(der, i, j)
<1>0. der \in Seq(Byte) /\ r.pos \in Nat /\ r.hi \in Nat /\ r.pos <= r.hi /\ r.hi <= Len(der)
  BY DEF Region
<1>1. i \in Nat \ {0} /\ j \in Nat /\ i <= j + 1 /\ j <= Len(der) /\ (j + 1) - i = j - r.pos
  BY <1>0
<1> HIDE DEF i, j
<1>2. s \in Seq(Byte) /\ Len(s) = (j + 1) - i
  BY ONLY <1>0, <1>1, Cut
<1> HIDE DEF s
<1>3. s = <<>> <=> Len(s) = 0
  BY ONLY <1>2
<1>4. (r.pos = j) <=> (j - r.pos = 0)
  BY <1>0 DEF j
<1> QED
  BY <1>1, <1>2, <1>3, <1>4 DEF Ahead, s, i, j

(* The first item in front of a reader.                                    *)
Shown(r, it, more, c, rest) ==
    /\ Head(r.items) = it /\ Tail(r.items) = more /\ r.items # <<>>
    /\ Laid(more, rest) /\ Carries(it, c) /\ Faces(r, it.tag, c, rest)

(* There are items as long as there are bytes.                             *)
LEMMA SoundShown ==
    ASSUME NEW r, Region(r), Laid(r.items, Ahead(r))
    PROVE  \/ r.items = <<>> /\ Ahead(r) = <<>>
           \/ \E it, more, c, rest : Shown(r, it, more, c, rest)
<1> DEFINE its == r.items
           s == Ahead(r)
<1>1. Laid(its, s)
  OBVIOUS
<1>2. \/ its = <<>> /\ s = <<>>
      \/ \E it, more, c, rest : Begins(its, s, it, more, c, rest)
  <2> HIDE DEF its, s
  <2> QED
    BY ONLY <1>1, LaidBegins
<1>3. ASSUME NEW it, NEW more, NEW c, NEW rest, Begins(its, s, it, more, c, rest)
      PROVE  Shown(r, it, more, c, rest)
  <2>1. its = <<it>> \o more /\ s = Tlv(it.tag, c) \o rest /\ Laid(more, rest) /\ Carries(it, c)
    BY ONLY <1>3 DEF Begins
  <2>2. IsList(more) /\ rest \in Seq(Byte)
    BY ONLY <2>1, LaidIs
  <2>3. its # <<>> /\ Head(its) = it /\ Tail(its) = more
    BY ONLY <2>1, <2>2, ListCons
  <2>4. it.tag \in TagNames /\ Measured(c)
    BY ONLY <2>1, CarriesIs
  <2>5. Faces(r, it.tag, c, rest)
    BY <2>1, <2>2, <2>4 DEF Faces, Ahead
  <2> QED
    BY <2>1, <2>3, <2>5 DEF Shown
<1> QED
  BY <1>2, <1>3

(* What a reader in front of an item reads first.                          *)
Met(r, it, c, rest, h) ==
    /\ h.ret = "OK" /\ h.tag = Tag[it.tag] /\ h.pos \in Nat /\ h.len \in Nat /\ h.len = Len(c)
    /\ c = SubSeq(der, h.pos + 1, h.pos + h.len) /\ rest = SubSeq(der, (h.pos + h.len) + 1, r.hi)
    /\ r.pos < r.hi /\ der[r.pos + 1] = Tag[it.tag]

(* It is the header of that item.                                          *)
LEMMA ShownMet ==
    ASSUME NEW r, Region(r), NEW it, NEW more, NEW c, NEW rest, Shown(r, it, more, c, rest)
    PROVE  Met(r, it, c, rest, ReadTag(r))
<1> DEFINE h == ReadTag(r)
<1>1. Faces(r, it.tag, c, rest)
  BY DEF Shown
<1>2. Measured(c)
  BY <1>1 DEF Faces
<1>3. PICK q, e : Spread(r.pos, r.hi, it.tag, c, rest, q, e)
  BY ONLY <1>1, FacesSpread
<1>4. h = Got("OK", q, Tag[it.tag], Len(c))
  BY <1>2, <1>3, SpreadRead
<1> HIDE DEF h
<1>5. h.ret = "OK" /\ h.pos = q /\ h.tag = Tag[it.tag] /\ h.len = Len(c)
  BY ONLY <1>4, GotIs DEF GotFields
<1>6. /\ r.pos \in Nat /\ q \in Nat /\ e \in Nat /\ r.hi \in Nat
      /\ r.pos + 2 <= q /\ q <= e /\ e <= r.hi /\ Len(c) \in Nat /\ e = q + Len(c)
      /\ der[r.pos + 1] = Tag[it.tag]
      /\ SubSeq(der, q + 1, e) = c /\ SubSeq(der, e + 1, r.hi) = rest
  BY ONLY <1>3 DEF Spread
<1>7. r.pos < r.hi
  <2> DEFINE p == r.pos
             t == r.hi
  <2>1. p \in Nat /\ q \in Nat /\ e \in Nat /\ t \in Nat /\ p + 2 <= q /\ q <= e /\ e <= t
    BY <1>6
  <2> HIDE DEF p, t
  <2>2. p < t
    BY ONLY <2>1
  <2> QED
    BY <2>2 DEF p, t
<1>8. h.pos \in Nat /\ h.len \in Nat /\ h.pos + h.len = e
  BY ONLY <1>5, <1>6
<1> QED
  BY <1>5, <1>6, <1>7, <1>8 DEF Met, h

(* A reader is at its end just when nothing more was written there.        *)
LEMMA SoundEnd ==
    ASSUME NEW r, Region(r), Laid(r.items, Ahead(r))
    PROVE  r.pos = r.hi <=> r.items = <<>>
<1>1. CASE r.items = <<>> /\ Ahead(r) = <<>>
  BY <1>1, AheadIs
<1>2. ASSUME NEW it, NEW more, NEW c, NEW rest, Shown(r, it, more, c, rest)
      PROVE  r.pos # r.hi /\ r.items # <<>>
  <2>1. Met(r, it, c, rest, ReadTag(r))
    BY <1>2, ShownMet
  <2>2. r.pos < r.hi /\ r.pos \in Nat /\ r.hi \in Nat
    BY <2>1 DEF Met, Region
  <2> QED
    BY <1>2, <2>2 DEF Shown
<1> QED
  BY <1>1, <1>2, SoundShown

(* What is behind the first byte of a piece.                               *)
LEMMA CutTail ==
    ASSUME NEW s \in Seq(Byte), NEW i \in Nat \ {0}, NEW j \in Nat, i <= j, j <= Len(s)
    PROVE  Tail(SubSeq(s, i, j)) = SubSeq(s, i + 1, j)
<1> DEFINE a == SubSeq(s, i, j)
           b == SubSeq(s, i + 1, j)
           n == (j + 1) - i
<1>0. /\ i + 1 \in Nat \ {0} /\ i <= j + 1 /\ i + 1 <= j + 1 /\ n \in Nat /\ n > 0
      /\ (j + 1) - (i + 1) = n - 1
  OBVIOUS
<1>1. /\ a \in Seq(Byte) /\ Len(a) = n /\ \A k \in 1 .. n : a[k] = s[(i + k) - 1]
  BY ONLY <1>0, s \in Seq(Byte), i \in Nat \ {0}, j \in Nat, j <= Len(s), Cut
<1>2. /\ b \in Seq(Byte) /\ Len(b) = n - 1 /\ \A k \in 1 .. n - 1 : b[k] = s[((i + 1) + k) - 1]
  BY ONLY <1>0, s \in Seq(Byte), i \in Nat \ {0}, j \in Nat, j <= Len(s), Cut
<1> HIDE DEF a, b, n
<1>3. a # <<>>
  BY ONLY <1>0, <1>1
<1>4. /\ Tail(a) \in Seq(Byte) /\ Len(Tail(a)) = n - 1
      /\ \A k \in 1 .. Len(Tail(a)) : Tail(a)[k] = a[k + 1]
  BY ONLY <1>1, <1>3, HeadTailProperties
<1>5. \A k \in 1 .. n - 1 : k + 1 \in 1 .. n /\ (i + (k + 1)) - 1 = ((i + 1) + k) - 1
  BY ONLY <1>0, i \in Nat \ {0}
<1>6. \A k \in 1 .. n - 1 : Tail(a)[k] = b[k]
  BY ONLY <1>1, <1>2, <1>4, <1>5, ZenonT(60)
<1>7. Tail(a) = b
  BY ONLY <1>2, <1>4, <1>6, SeqEqual
<1> QED
  BY <1>7 DEF a, b

(* The content of a container ends where the reader is.                    *)
Ends(h, c, a) ==
    /\ der \in Seq(Byte) /\ h.pos \in Nat /\ h.len \in Nat /\ h.len = Len(c)
    /\ c \in Seq(Byte) /\ c = SubSeq(der, h.pos + 1, h.pos + h.len) /\ h.pos + h.len <= Len(der)
    /\ a.pos = h.pos + h.len /\ (a.value = c \/ (c # <<>> /\ a.value = Tail(c)))

Ended(a) ==
    /\ a.value \in Seq(Byte) /\ a.pos - Len(a.value) \in Nat
    /\ a.value = SubSeq(der, (a.pos - Len(a.value)) + 1, a.pos)

(* Whether it was given whole or without its first byte.                   *)
LEMMA EndsEnded ==
    ASSUME NEW h, NEW c, NEW a, Ends(h, c, a)
    PROVE  Ended(a)
<1> DEFINE p == h.pos
           l == h.len
           e == a.pos
           v == a.value
<1>1. /\ der \in Seq(Byte) /\ p \in Nat /\ l \in Nat /\ l = Len(c) /\ c \in Seq(Byte)
      /\ c = SubSeq(der, p + 1, p + l) /\ p + l <= Len(der) /\ e = p + l
      /\ (v = c \/ (c # <<>> /\ v = Tail(c)))
  BY DEF Ends
<1> HIDE DEF p, l, e, v
<1>2. CASE v = c
  <2>1. e - l = p
    BY ONLY <1>1
  <2>2. v \in Seq(Byte) /\ e - Len(v) \in Nat /\ v = SubSeq(der, (e - Len(v)) + 1, e)
    BY ONLY <1>1, <1>2, <2>1
  <2> QED
    BY <2>2 DEF Ended, e, v
<1>3. CASE c # <<>> /\ v = Tail(c)
  <2>1. Tail(c) \in Seq(Byte) /\ Len(Tail(c)) = l - 1 /\ l > 0
    <3> DEFINE S == Byte
    <3>1. c \in Seq(S)
      BY <1>1
    <3> HIDE DEF S
    <3>2. Tail(c) \in Seq(S) /\ Len(Tail(c)) = Len(c) - 1 /\ Len(c) > 0
      BY ONLY <1>3, <3>1
    <3> QED
      BY <1>1, <3>2 DEF S
  <2>2. /\ p + 1 \in Nat \ {0} /\ p + l \in Nat /\ p + 1 <= p + l
        /\ e - (l - 1) = p + 1 /\ p + 1 \in Nat
    <3>1. p \in Nat /\ l \in Nat /\ l > 0 /\ e = p + l
      BY ONLY <1>1, <2>1
    <3> QED
      BY ONLY <3>1
  <2>3. Tail(SubSeq(der, p + 1, p + l)) = SubSeq(der, (p + 1) + 1, p + l)
    BY ONLY <1>1, <2>2, CutTail
  <2>4. v \in Seq(Byte) /\ e - Len(v) \in Nat /\ v = SubSeq(der, (e - Len(v)) + 1, e)
    BY ONLY <1>1, <1>3, <2>1, <2>2, <2>3
  <2> QED
    BY <2>4 DEF Ended, e, v
<1> QED
  BY <1>1, <1>2, <1>3

(* What a call on a reader in front of an item answers and leaves.         *)
Heard(op, room, r, a) ==
    /\ Told(op, room, Head(r.items), a.ret, a.value)
    /\ a.ret = "OK" /\ ~ Query(op, room) => Laid(Tail(r.items), SubSeq(der, a.pos + 1, r.hi))
    /\ op \in Containers /\ a.ret = "OK" /\ Head(r.items).kids # <<>> =>
         Laid(Head(r.items).kids, a.value) /\ Ended(a)

(* Every call answers with that item, or stays, or goes behind it.         *)
LEMMA ReadHeard ==
    ASSUME NEW op \in Ops, NEW room, NEW r, r = readers[Len(readers)], Region(r),
           Laid(r.items, Ahead(r)), r.items # <<>>, NEW a, a = Read(op, room)
    PROVE  Heard(op, room, r, a)
<1>1. PICK it, more, c, rest : Shown(r, it, more, c, rest)
  BY SoundShown
<1> DEFINE h == ReadTag(r)
<1>2. Met(r, it, c, rest, h)
  BY <1>1, ShownMet
<1>3. h = ReadTag(readers[Len(readers)])
  OBVIOUS
<1>r. TagRead(r, h)
  BY ReadTagIs
<1> HIDE DEF h
<1>4. /\ h.ret = "OK" /\ h.tag = Tag[it.tag] /\ h.pos \in Nat /\ h.len \in Nat /\ h.len = Len(c)
      /\ c = SubSeq(der, h.pos + 1, h.pos + h.len) /\ rest = SubSeq(der, (h.pos + h.len) + 1, r.hi)
  BY ONLY <1>2 DEF Met
<1>5. /\ Head(r.items) = it /\ Tail(r.items) = more /\ Laid(more, rest) /\ Carries(it, c)
      /\ Faces(r, it.tag, c, rest)
  BY ONLY <1>1 DEF Shown
<1>6. it.tag \in TagNames /\ c \in Seq(Byte)
  BY ONLY <1>5 DEF Faces, Measured
<1>7. Fronts(it, h, c)
  BY ONLY <1>4, <1>5 DEF Fronts
<1>8. Calls(op, room, it, h, c, a)
  BY ONLY <1>3, <1>4, <1>6, <1>7, op \in Ops, a = Read(op, room) DEF Calls
<1>9. Told(op, room, it, a.ret, a.value) /\ Passed(op, room, h, a) /\ Grown(op, it, c, a)
  BY ONLY <1>8, CallTold
<1>10. a.ret = "OK" /\ ~ Query(op, room) => Laid(Tail(r.items), SubSeq(der, a.pos + 1, r.hi))
  <2>1. SUFFICES ASSUME a.ret = "OK", ~ Query(op, room)
        PROVE  Laid(Tail(r.items), SubSeq(der, a.pos + 1, r.hi))
    OBVIOUS
  <2>2. a.pos = h.pos + h.len
    BY ONLY <1>9, <2>1 DEF Passed
  <2>3. Laid(more, SubSeq(der, a.pos + 1, r.hi))
    BY ONLY <1>4, <1>5, <2>2
  <2> QED
    BY ONLY <1>5, <2>3
<1>11. op \in Containers /\ a.ret = "OK" /\ Head(r.items).kids # <<>> =>
         Laid(Head(r.items).kids, a.value) /\ Ended(a)
  <2>1. SUFFICES ASSUME op \in Containers, a.ret = "OK", it.kids # <<>>
        PROVE  Laid(it.kids, a.value) /\ Ended(a)
    BY <1>5
  <2>2. Laid(it.kids, a.value) /\ (a.value = c \/ (c # <<>> /\ a.value = Tail(c)))
    BY ONLY <1>9, <2>1 DEF Grown
  <2>3. ~ Query(op, room)
    BY <2>1 DEF Query, Sized, Containers
  <2>4. a.pos = h.pos + h.len
    BY ONLY <1>9, <2>1, <2>3 DEF Passed
  <2>5. der \in Seq(Byte) /\ h.pos + h.len <= Len(der)
    <3> DEFINE p == h.pos
               l == h.len
               t == r.hi
               z == Len(der)
    <3>1. der \in Seq(Byte) /\ t \in Nat /\ t <= z
      BY DEF Region
    <3>2. l <= t - p /\ p \in Nat /\ l \in Nat
      BY <1>r, <1>4, SMTT(60) DEF TagRead
    <3>0. z \in Nat
      BY <3>1
    <3> HIDE DEF p, l, t, z
    <3>3. p + l <= z
      BY ONLY <3>0, <3>1, <3>2
    <3> QED
      BY <3>1, <3>3 DEF p, l, z
  <2>6. Ends(h, c, a)
    BY ONLY <1>4, <1>6, <2>2, <2>4, <2>5 DEF Ends
  <2>7. Ended(a)
    BY ONLY <2>6, EndsEnded
  <2> QED
    BY <2>2, <2>7
<1> QED
  BY <1>5, <1>9, <1>10, <1>11 DEF Heard

-----------------------------------------------------------------------------
(* The invariant of the readers.                                           *)

(* In front of every reader that was answered with data so far is what was *)
(* written there.                                                          *)
LaidAll(rs, d) ==
    \A i \in 1 .. Len(rs) :
        rs[i].sound => Laid(rs[i].items, SubSeq(d, rs[i].pos + 1, rs[i].hi))

(* What Enter goes into is what was written in the container.              *)
GrownAt(l, rs, d) ==
    LET p == rs[Len(rs)].pos
    IN  l.op \in Containers /\ l.ret = "OK" /\ l.value # <<>> /\ l.expect # <<>>
            /\ Head(l.expect).kids # <<>> =>
          Laid(Head(l.expect).kids, SubSeq(d, (p - Len(l.value)) + 1, p))

(* The last call answered with the item that was there.                    *)
ToldAt(l) == l.expect # <<>> => Told(l.op, l.room, Head(l.expect), l.ret, l.value)

BackInv == LayInv /\ LaidAll(readers, der) /\ GrownAt(last, readers, der) /\ ToldAt(last)

(* The same in the next state.                                             *)
LEMMA BackNext ==
    ASSUME LayInv', LaidAll(readers', der'), GrownAt(last', readers', der'), ToldAt(last')
    PROVE  BackInv'
<1>1. LaidAll(readers, der)' <=> LaidAll(readers', der')
  BY DEF LaidAll
<1>2. GrownAt(last, readers, der)' <=> GrownAt(last', readers', der')
  BY DEF GrownAt
<1>3. ToldAt(last)' <=> ToldAt(last')
  BY DEF ToldAt
<1> QED
  BY <1>1, <1>2, <1>3 DEF BackInv

(* A call that is no reading one answers with nothing.                     *)
LEMMA NothingTold ==
    ASSUME NEW l, l.expect = <<>>, NEW rs, NEW d
    PROVE  GrownAt(l, rs, d) /\ ToldAt(l)
BY DEF GrownAt, ToldAt

(* What is expected after a writing call.                                  *)
LEMMA WriteExpects ==
    ASSUME NEW ret
    PROVE  /\ [Nothing EXCEPT !.op = "write", !.ret = ret].expect = <<>>
           /\ [Nothing EXCEPT !.op = "write"].expect = <<>>
           /\ Nothing.expect = <<>>
<1>1. DOMAIN Nothing = {"op", "ret", "room", "value", "at", "expect"} /\ Nothing.expect = <<>>
  BY DEF Nothing
<1>2. [Nothing EXCEPT !.op = "write", !.ret = ret].expect = <<>>
  BY ONLY <1>1, Zenon
<1>3. [Nothing EXCEPT !.op = "write"].expect = <<>>
  BY ONLY <1>1, Zenon
<1> QED
  BY <1>1, <1>2, <1>3

(* A step of the writer leaves the readers.                                *)
LEMMA WriterBack ==
    ASSUME BackInv, LayInv', UNCHANGED <<der, readers>>, last'.expect = <<>>
    PROVE  BackInv'
<1>1. LaidAll(readers', der')
  BY DEF BackInv
<1>2. GrownAt(last', readers', der') /\ ToldAt(last')
  BY NothingTold
<1> QED
  BY <1>1, <1>2, BackNext

(* A step of the reader leaves the writer.                                 *)
LEMMA ReaderBack ==
    ASSUME BackInv, UNCHANGED <<writer, frames, whole, der>>, LaidAll(readers', der),
           GrownAt(last', readers', der), ToldAt(last')
    PROVE  BackInv'
<1>1. LayInv'
  BY LaySame DEF BackInv
<1>2. LaidAll(readers', der') /\ GrownAt(last', readers', der')
  OBVIOUS
<1> QED
  BY <1>1, <1>2, BackNext

(* The writer's calls.                                                     *)
LEMMA WroteBack ==
    ASSUME BackInv, LayInv', NEW res, NEW fs, Wrote(res, fs)
    PROVE  BackInv'
<1>1. UNCHANGED <<der, readers>> /\ last' = [Nothing EXCEPT !.op = "write", !.ret = res.ret]
  BY DEF Wrote
<1>2. last'.expect = <<>>
  BY <1>1, WriteExpects
<1> QED
  BY <1>1, <1>2, WriterBack

(* The writer's steps keep the invariant.                                  *)
LEMMA WritesBack ==
    ASSUME DerInv, BackInv,
           \/ \E v \in Writes : Write(v) \/ WriteNoMemory(v)
           \/ \E tag \in {"sequence", "set", "bits"} : Begin(tag)
           \/ \E i \in 2 .. Len(frames), b \in Damage : WriteToHandle(i, b)
           \/ End
    PROVE  BackInv'
<1>0. LayInv
  BY DEF BackInv
<1>1. ASSUME NEW v \in Writes, Write(v) PROVE BackInv'
  <2>1. LayInv'
    BY <1>0, <1>1, WriteLays
  <2> QED
    BY <1>1, <2>1, WroteBack DEF Write
<1>2. ASSUME NEW v \in Writes, WriteNoMemory(v) PROVE BackInv'
  <2>1. LayInv'
    BY <1>0, <1>2, NoMemoryLays
  <2> QED
    BY <1>2, <2>1, WroteBack DEF WriteNoMemory
<1>3. ASSUME NEW tag \in {"sequence", "set", "bits"}, Begin(tag) PROVE BackInv'
  <2>1. LayInv'
    BY <1>0, <1>3, BeginLays
  <2> QED
    BY <1>3, <2>1, WroteBack, SMTT(60) DEF Begin
<1>4. ASSUME NEW i \in 2 .. Len(frames), NEW b \in Damage, WriteToHandle(i, b) PROVE BackInv'
  <2>1. LayInv'
    BY <1>0, <1>4, HandleLays
  <2>2. UNCHANGED <<der, readers>> /\ last' = [Nothing EXCEPT !.op = "write"]
    BY <1>4 DEF WriteToHandle
  <2>3. last'.expect = <<>>
    BY <2>2, WriteExpects
  <2> QED
    BY <2>1, <2>2, <2>3, WriterBack
<1>5. CASE End
  <2>1. CASE Top.at # Top.start /\ ~ writer.error
    <3>1. LayInv'
      <4>1. CASE whole
        BY <1>0, <1>5, <2>1, <4>1, RefusedLays
      <4>2. CASE ~ whole
        BY <1>5, <2>1, <4>2, SpoiltLays DEF End
      <4> QED
        BY <4>1, <4>2
    <3>2. /\ UNCHANGED <<der, readers>>
          /\ last' = [Nothing EXCEPT !.op = "write", !.ret = "INVALID_PARAM"]
      BY <1>5, <2>1 DEF End
    <3>3. last'.expect = <<>>
      BY <3>2, WriteExpects
    <3> QED
      BY <3>1, <3>2, <3>3, WriterBack
  <2>2. CASE ~ (Top.at # Top.start /\ ~ writer.error)
    <3>1. LayInv'
      <4>1. CASE whole
        BY <1>0, <1>5, <2>2, <4>1, ClosedLays, SMTT(60)
      <4>2. CASE ~ whole
        BY <1>5, <2>2, <4>2, SpoiltLays DEF End, Wrote
      <4> QED
        BY <4>1, <4>2
    <3>2. \E res, fs : Wrote(res, fs)
      BY <1>5, <2>2 DEF End
    <3> QED
      BY <3>1, <3>2, WroteBack
  <2> QED
    BY <2>1, <2>2
<1> QED
  BY <1>1, <1>2, <1>3, <1>4, <1>5

(* The writer handed over: it starts afresh, and what it gave is what was  *)
(* written in no container.                                                *)
LEMMA DoneLays ==
    ASSUME DerInv, LayInv, WriterDone
    PROVE  /\ LayInv' /\ last'.expect = <<>> /\ writer.out \in Seq(Byte)
           /\ whole => Laid(Top.items, writer.out)
<1>0. writer.room \in Rooms /\ IsWriter(writer)
  BY DEF DerInv, WriterInv
<1>1. /\ writer' = [room |-> writer.room, out |-> <<>>, error |-> FALSE]
      /\ frames' = <<Frame("top", writer.room)>> /\ last' = Nothing /\ Len(frames) = 1
      /\ ~ writer.error
  BY DEF WriterDone
<1>2. IsWriter(writer') /\ writer'.room = writer.room /\ WriterPos(writer') = writer.room
  BY <1>0, <1>1, FreshWriter
<1>3. Laying(frames', writer')
  <2> DEFINE u == writer'
  <2>1. IsWriter(u) /\ WriterPos(u) = u.room /\ frames' = <<Frame("top", u.room)>>
    BY <1>1, <1>2
  <2> HIDE DEF u
  <2>2. Laying(frames', u)
    BY ONLY <2>1, LayFresh
  <2> QED
    BY <2>2 DEF u
<1>4. LayInv'
  BY <1>3, LayNext
<1>5. last'.expect = <<>>
  BY <1>1, WriteExpects
<1>6. Top = frames[1]
  BY <1>1 DEF Top
<1>7. ASSUME whole PROVE Laid(frames[1].items, writer.out)
  <2>1. Laying(frames, writer)
    BY <1>1, <1>7 DEF LayInv
  <2>2. Segment(frames, writer, 1) /\ frames[1].start = writer.room
    BY <1>1, <2>1 DEF Laying
  <2>3. Edge(frames, writer, 1) = WriterPos(writer)
    BY <1>1 DEF Edge
  <2>4. Laid(frames[1].items, Stretch(writer, WriterPos(writer), writer.room))
    BY <2>2, <2>3 DEF Segment
  <2> QED
    BY <1>0, <2>4, StretchAll
<1>8. writer.out \in Seq(Byte)
  BY <1>0, WriterFacts
<1> QED
  BY <1>4, <1>5, <1>6, <1>7, <1>8

(* The fields of a fresh reader.                                           *)
LEMMA ReaderHas ==
    ASSUME NEW lo, NEW hi, NEW items, NEW sound
    PROVE  /\ Reader(lo, hi, items, sound).pos = lo /\ Reader(lo, hi, items, sound).hi = hi
           /\ Reader(lo, hi, items, sound).items = items
           /\ Reader(lo, hi, items, sound).sound = sound
BY Zenon DEF Reader

(* The only reader.                                                        *)
LEMMA LaidOne ==
    ASSUME NEW r, NEW d, r.sound => Laid(r.items, SubSeq(d, r.pos + 1, r.hi))
    PROVE  LaidAll(<<r>>, d)
<1> DEFINE t == <<r>>
<1>1. Len(t) = 1 /\ t[1] = r
  BY ListOne
<1> HIDE DEF t
<1>2. ASSUME NEW i \in 1 .. Len(t), t[i].sound
      PROVE  Laid(t[i].items, SubSeq(d, t[i].pos + 1, t[i].hi))
  <2>1. i = 1
    BY <1>1
  <2> QED
    BY <1>1, <1>2, <2>1
<1> QED
  BY <1>2 DEF LaidAll, t

(* All the bytes.                                                          *)
LEMMA WholeSeq ==
    ASSUME NEW s \in Seq(Byte)
    PROVE  SubSeq(s, 0 + 1, Len(s)) = s
<1> DEFINE S == Byte
<1>1. s \in Seq(S)
  OBVIOUS
<1> HIDE DEF S
<1> QED
  BY ONLY <1>1

(* A reader over what was written,                                         *)
LEMMA ReaderInitBack ==
    ASSUME DerInv, BackInv, ReaderInit
    PROVE  BackInv'
<1>1. WriterDone /\ LayInv
  BY DEF ReaderInit, BackInv
<1>2. /\ LayInv' /\ last'.expect = <<>> /\ writer.out \in Seq(Byte)
      /\ whole => Laid(Top.items, writer.out)
  BY <1>1, DoneLays
<1> DEFINE s == writer.out
           its == Top.items
           r == Reader(0, Len(s), its, whole)
<1>3. der' = s /\ readers' = <<r>>
  BY DEF ReaderInit
<1>4. r.pos = 0 /\ r.hi = Len(s) /\ r.items = its /\ r.sound = whole
  <2> HIDE DEF its, s
  <2> QED
    BY ReaderHas
<1> HIDE DEF r, its, s
<1>5. SubSeq(s, 0 + 1, Len(s)) = s
  BY <1>2, WholeSeq DEF s
<1>6. whole => Laid(its, s)
  BY <1>2 DEF its, s
<1>7. ASSUME r.sound PROVE Laid(r.items, SubSeq(s, r.pos + 1, r.hi))
  <2>1. whole
    BY ONLY <1>4, <1>7, Zenon
  <2> QED
    BY ONLY <1>4, <1>5, <1>6, <2>1
<1>8. LaidAll(<<r>>, s)
  BY ONLY <1>7, LaidOne
<1>9. LaidAll(readers', der')
  BY ONLY <1>3, <1>8
<1>10. GrownAt(last', readers', der') /\ ToldAt(last')
  BY <1>2, NothingTold
<1> QED
  BY <1>2, <1>9, <1>10, BackNext

(* and one over bytes that were changed, of which nothing is expected,     *)
LEMMA ReaderInitDamagedBack ==
    ASSUME DerInv, BackInv, ReaderInitDamaged
    PROVE  BackInv'
<1>1. WriterDone /\ LayInv
  BY DEF ReaderInitDamaged, BackInv
<1>2. LayInv' /\ last'.expect = <<>>
  BY <1>1, DoneLays
<1> DEFINE n == Len(der')
           R(x) == Reader(0, n, <<>>, x)
<1>3. readers' = <<R(FALSE)>>
  BY DEF ReaderInitDamaged
<1>4. \A x : R(x).sound = x
  BY ReaderHas
<1> HIDE DEF R
<1>5. R(FALSE).sound = FALSE
  BY ONLY <1>4
<1>6. ~ R(FALSE).sound
  BY ONLY <1>5, Zenon
<1> DEFINE r == R(FALSE)
<1>7. ~ r.sound
  BY ONLY <1>6, Zenon
<1>8. readers' = <<r>>
  BY ONLY <1>3, Zenon
<1> HIDE DEF r
<1>9. LaidAll(<<r>>, der')
  BY ONLY <1>7, LaidOne
<1>10. LaidAll(readers', der')
  BY ONLY <1>8, <1>9
<1>11. GrownAt(last', readers', der') /\ ToldAt(last')
  BY <1>2, NothingTold
<1> QED
  BY <1>2, <1>10, <1>11, BackNext

(* the reader of a container let go,                                       *)
LEMMA LeaveBack ==
    ASSUME DerInv, BackInv, Leave
    PROVE  BackInv'
<1>1. /\ Len(readers) > 1 /\ readers' = Front(readers) /\ last' = Nothing
      /\ UNCHANGED <<writer, frames, whole, der>>
  BY DEF Leave
<1>2. last'.expect = <<>>
  BY <1>1, WriteExpects
<1>3. IsList(readers) /\ Len(readers) \in Nat
  BY ListLen DEF DerInv, ReadersInv, ReadersOk
<1>4. Dropped(readers)
  BY <1>1, <1>3, ListFront
<1> DEFINE m == Len(readers)
           t == Front(readers)
<1>5. Len(t) = m - 1 /\ \A i \in 1 .. m - 1 : t[i] = readers[i]
  BY <1>4 DEF Dropped
<1> HIDE DEF t
<1>6. ASSUME NEW i \in 1 .. Len(t), t[i].sound
      PROVE  Laid(t[i].items, SubSeq(der, t[i].pos + 1, t[i].hi))
  <2>1. i \in 1 .. m - 1 /\ i \in 1 .. Len(readers)
    BY <1>3, <1>5
  <2>2. t[i] = readers[i]
    BY <1>5, <2>1
  <2>3. readers[i].sound => Laid(readers[i].items, SubSeq(der, readers[i].pos + 1, readers[i].hi))
    BY <2>1 DEF BackInv, LaidAll
  <2> QED
    BY <1>6, <2>2, <2>3
<1>7. LaidAll(t, der)
  BY <1>6 DEF LaidAll
<1>8. LaidAll(readers', der)
  BY <1>1, <1>7 DEF t
<1>9. GrownAt(last', readers', der) /\ ToldAt(last')
  BY <1>2, NothingTold
<1> QED
  BY <1>1, <1>8, <1>9, ReaderBack

(* and one that goes into a container just read.                           *)
LEMMA EnterBack ==
    ASSUME DerInv, BackInv, Enter
    PROVE  BackInv'
<1> DEFINE m == Len(readers)
           r == readers[m]
           k == Len(last.value)
           kids == IF last.expect = <<>> THEN <<>> ELSE Head(last.expect).kids
           Q(x) == Reader(r.pos - k, r.pos, kids, x)
           some == kids # <<>>
           q == Q(some)
           t == Append(readers, q)
<1>1. /\ readers' = t /\ last' = Nothing /\ UNCHANGED <<writer, frames, whole, der>>
      /\ last.op \in Containers /\ last.ret = "OK" /\ last.value # <<>>
  BY DEF Enter, Containers
<1>2. last'.expect = <<>>
  BY <1>1, WriteExpects
<1>3. IsList(readers) /\ Len(readers) \in Nat
  BY ListLen DEF DerInv, ReadersInv, ReadersOk
<1>4. /\ q.pos = r.pos - k /\ q.hi = r.pos /\ q.items = kids /\ q.sound = some
  <2> HIDE DEF r, k, kids, some
  <2> QED
    BY ReaderHas
<1> HIDE DEF q
<1>5. Appended(readers, q)
  BY <1>3, ListAppend
<1>6. Len(t) = m + 1 /\ t[m + 1] = q /\ \A i \in 1 .. m : t[i] = readers[i]
  BY <1>5 DEF Appended
<1>7. ASSUME q.sound PROVE Laid(q.items, SubSeq(der, q.pos + 1, q.hi))
  <2>1. some
    BY ONLY <1>4, <1>7, Zenon
  <2>2. last.expect # <<>> /\ kids = Head(last.expect).kids /\ kids # <<>>
    BY <2>1
  <2>3. GrownAt(last, readers, der)
    BY DEF BackInv
  <2>4. Laid(kids, SubSeq(der, (r.pos - k) + 1, r.pos))
    BY ONLY <1>1, <2>2, <2>3 DEF GrownAt
  <2> QED
    BY <1>4, <2>4
<1> HIDE DEF t
<1>8. ASSUME NEW i \in 1 .. Len(t), t[i].sound
      PROVE  Laid(t[i].items, SubSeq(der, t[i].pos + 1, t[i].hi))
  <2>1. i \in 1 .. m \/ i = m + 1
    BY <1>3, <1>6
  <2>2. CASE i \in 1 .. m
    <3>1. t[i] = readers[i]
      BY <1>6, <2>2
    <3>2. readers[i].sound => Laid(readers[i].items, SubSeq(der, readers[i].pos + 1, readers[i].hi))
      BY <2>2 DEF BackInv, LaidAll
    <3> QED
      BY <1>8, <3>1, <3>2
  <2>3. CASE i = m + 1
    BY <1>6, <1>7, <1>8, <2>3
  <2> QED
    BY <2>1, <2>2, <2>3
<1>9. LaidAll(t, der)
  BY <1>8 DEF LaidAll
<1>10. GrownAt(last', readers', der) /\ ToldAt(last')
  BY <1>2, NothingTold
<1> QED
  BY <1>1, <1>9, <1>10, ReaderBack

(* The innermost reader, and the region it is in.                          *)
LEMMA Innermost ==
    ASSUME DerInv, readers # <<>>
    PROVE  /\ IsList(readers) /\ Len(readers) \in Nat /\ Len(readers) \in 1 .. Len(readers)
           /\ DOMAIN readers[Len(readers)] = ReaderFields /\ Region(readers[Len(readers)])
<1> DEFINE n == Len(readers)
           r == readers[n]
<1>1. ReadersOk(readers, Len(der)) /\ n \in Nat /\ der \in Seq(Byte) /\ Len(der) \in Nat
  BY ListLen DEF DerInv, ReadersInv, ReadersOk
<1>2. n > 0 /\ n \in 1 .. n
  BY <1>1, ListLen DEF ReadersOk
<1>3. ReaderOk(r, Around(readers, Len(der), n))
  BY <1>1, <1>2 DEF ReadersOk
<1>4. r.hi <= Len(der)
  BY <1>1, <1>2, RegionInside
<1>5. r.pos \in Nat /\ r.hi \in Nat /\ r.pos <= r.hi /\ DOMAIN r = ReaderFields
  BY <1>3 DEF ReaderOk
<1>6. Region(r)
  BY <1>1, <1>4, <1>5 DEF Region
<1> QED
  BY <1>1, <1>2, <1>5, <1>6 DEF ReadersOk

(* Looking at the next tag tells it.                                       *)
LEMMA ExpectTold ==
    ASSUME NEW name \in {"null", "sequence"}, NEW r, Region(r), Laid(r.items, Ahead(r)),
           r.items # <<>>, NEW room
    PROVE  Told(name, room, Head(r.items), ExpectTag(r, name), <<>>)
<1>1. PICK it, more, c, rest : Shown(r, it, more, c, rest)
  BY SoundShown
<1> DEFINE h == ReadTag(r)
<1>2. Met(r, it, c, rest, h)
  BY <1>1, ShownMet
<1> HIDE DEF h
<1>3. r.pos < r.hi /\ der[r.pos + 1] = Tag[it.tag]
  BY ONLY <1>2 DEF Met
<1>4. ~ (r.pos >= r.hi)
  BY <1>3 DEF Region
<1>5. ExpectTag(r, name) = IF Tag[it.tag] # Tag[name] THEN "BAD_TAG" ELSE "OK"
  BY ONLY <1>3, <1>4 DEF ExpectTag
<1>6. Head(r.items) = it /\ it.tag \in TagNames
  BY ONLY <1>1 DEF Shown, Faces
<1>7. Asks[name] = name /\ name \in TagNames /\ name \in DOMAIN Asks
  BY AsksIs DEF TagNames, Asks
<1>8. CASE it.tag = name
  <2>1. ExpectTag(r, name) = "OK"
    BY ONLY <1>5, <1>8
  <2>2. Right(name, room, it, "OK", <<>>)
    BY DEF Right, Query, Sized, Given
  <2> QED
    BY <1>6, <1>7, <1>8, <2>1, <2>2 DEF Told
<1>9. CASE it.tag # name
  <2>1. Tag[it.tag] # Tag[name]
    BY <1>6, <1>7, <1>9, TagOnce
  <2>2. ExpectTag(r, name) = "BAD_TAG"
    BY ONLY <1>5, <2>1
  <2>3. ~ Means(name, it)
    BY <1>7, <1>9 DEF Means
  <2> QED
    BY <1>6, <2>2, <2>3 DEF Told
<1> QED
  BY <1>8, <1>9

(* Looking at the next tag keeps the invariant.                            *)
LEMMA ExpectBack ==
    ASSUME DerInv, BackInv, NEW name \in {"null", "sequence"}, Expect(name)
    PROVE  BackInv'
<1> DEFINE r == readers[Len(readers)]
           ret == ExpectTag(r, name)
           x == IF r.sound THEN r.items ELSE <<>>
<1>1. /\ UNCHANGED <<writer, frames, whole, der, readers>> /\ readers # <<>>
      /\ last' = [op |-> name, ret |-> ret, room |-> NoBuffer, value |-> <<>>, at |-> r.pos,
                  expect |-> x]
  BY DEF Expect, Reading
<1>2. Len(readers) \in 1 .. Len(readers) /\ Region(r)
  BY <1>1, Innermost
<1>3. LaidAll(readers, der) /\ GrownAt(last, readers, der)
  BY DEF BackInv
<1>4. r.sound => Laid(r.items, Ahead(r))
  BY <1>2, <1>3 DEF LaidAll, Ahead
<1>5. x # <<>> => Told(name, NoBuffer, Head(x), ret, <<>>)
  <2>1. SUFFICES ASSUME x # <<>> PROVE Told(name, NoBuffer, Head(x), ret, <<>>)
    OBVIOUS
  <2>2. r.sound /\ x = r.items
    BY <2>1
  <2> QED
    BY <1>2, <1>4, <2>1, <2>2, ExpectTold
<1> HIDE DEF x, ret, r
<1>6. /\ last'.op = name /\ last'.ret = ret /\ last'.room = NoBuffer /\ last'.value = <<>>
      /\ last'.expect = x
  BY ONLY <1>1
<1>7. ToldAt(last')
  BY ONLY <1>5, <1>6 DEF ToldAt
<1>8. GrownAt(last', readers', der)
  BY ONLY <1>6 DEF GrownAt
<1>9. LaidAll(readers', der)
  BY <1>1, <1>3
<1> QED
  BY <1>1, <1>7, <1>8, <1>9, ReaderBack

(* A call on a reader at its end is not answered with data.                *)
LEMMA ReadEnd ==
    ASSUME NEW op, NEW room, NEW r, r = readers[Len(readers)], Region(r), r.pos = r.hi
    PROVE  Read(op, room).ret # "OK"
<1> DEFINE h == ReadTag(r)
           e == Got("TRUNCATED", r.hi, 0, 0)
<1>1. r.hi - r.pos < 2
  BY DEF Region
<1>2. h = e
  BY ONLY <1>1 DEF ReadTag
<1>3. e.ret = "TRUNCATED"
  BY GotIs DEF GotFields
<1> HIDE DEF e
<1>4. h.ret # "OK"
  BY ONLY <1>2, <1>3
<1>5. h = ReadTag(readers[Len(readers)])
  OBVIOUS
<1> HIDE DEF h
<1>6. Read(op, room) = Answer(h.ret, h.pos, <<>>)
  BY ONLY <1>4, <1>5 DEF Read
<1>7. Read(op, room).ret = h.ret
  BY ONLY <1>6, AnswerIs
<1> QED
  BY ONLY <1>4, <1>7, SMTT(60)

(* The readers after the innermost one was moved.                          *)
LEMMA LaidSet ==
    ASSUME NEW rs, IsList(rs), Len(rs) \in 1 .. Len(rs), NEW d, LaidAll(rs, d), NEW q,
           q.sound => Laid(q.items, SubSeq(d, q.pos + 1, q.hi))
    PROVE  LaidAll([rs EXCEPT ![Len(rs)] = q], d)
<1> DEFINE n == Len(rs)
           t == [rs EXCEPT ![n] = q]
<1>1. ElementSet(rs, n, q)
  BY ListSet
<1>2. Len(t) = n /\ t[n] = q /\ \A i \in 1 .. n : i # n => t[i] = rs[i]
  BY <1>1 DEF ElementSet
<1> HIDE DEF t
<1>3. ASSUME NEW i \in 1 .. Len(t), t[i].sound
      PROVE  Laid(t[i].items, SubSeq(d, t[i].pos + 1, t[i].hi))
  <2>1. CASE i = n
    BY <1>2, <1>3, <2>1
  <2>2. CASE i # n
    <3>1. t[i] = rs[i] /\ i \in 1 .. Len(rs)
      BY <1>2, <2>2
    <3>2. rs[i].sound => Laid(rs[i].items, SubSeq(d, rs[i].pos + 1, rs[i].hi))
      BY <3>1 DEF LaidAll
    <3> QED
      BY <1>3, <3>1, <3>2
  <2> QED
    BY <2>1, <2>2
<1> QED
  BY <1>3 DEF LaidAll, t

(* The places of a reading step: the innermost reader r, the answer a, the *)
(* reader q it leaves, x what was expected.                                *)
Steps(op, room, r, a, sound, q, x) ==
    /\ readers # <<>> /\ r = readers[Len(readers)] /\ a = Read(op, room)
    /\ x = IF r.sound THEN r.items ELSE <<>>
    /\ sound <=> (r.sound /\ a.ret = "OK" /\ ~ Query(op, room))
    /\ q.pos = a.pos /\ q.hi = r.hi /\ (q.sound <=> sound)
    /\ sound => q.items = Tail(r.items)
    /\ readers' = [readers EXCEPT ![Len(readers)] = q]
    /\ last'.op = op /\ last'.ret = a.ret /\ last'.value = a.value /\ last'.room = room
    /\ last'.expect = x
    /\ UNCHANGED <<writer, frames, whole, der>>

(* Every reading step has them.                                            *)
LEMMA ReadSteps ==
    ASSUME DerInv, NEW op \in Ops, NEW room, ReadStep(op, room)
    PROVE  \E r, a, sound, q, x : Steps(op, room, r, a, sound, q, x)
<1> DEFINE n == Len(readers)
           r == readers[n]
           a == Read(op, room)
           sound == r.sound /\ a.ret = "OK" /\ ~ Query(op, room)
           y == IF sound THEN Tail(r.items) ELSE r.items
           q == [r EXCEPT !.pos = a.pos, !.sound = sound, !.items = y]
           x == IF r.sound THEN r.items ELSE <<>>
<1>1. readers # <<>>
  BY DEF ReadStep, Reading
<1>2. DOMAIN r = ReaderFields
  BY <1>1, Innermost
<1>3. /\ readers' = [readers EXCEPT ![n] = q]
      /\ last' = [op |-> op, ret |-> a.ret, room |-> room, value |-> a.value, at |-> r.pos,
                  expect |-> x]
      /\ UNCHANGED <<writer, frames, whole, der>>
  BY DEF ReadStep
<1>4. /\ last'.op = op /\ last'.ret = a.ret /\ last'.value = a.value /\ last'.room = room
      /\ last'.expect = x
  BY <1>3
<1>5. q.pos = a.pos /\ q.hi = r.hi /\ q.sound = sound /\ q.items = y
  <2> DEFINE p == a.pos
  <2> HIDE DEF y, sound, p, r
  <2>2. q = [r EXCEPT !.pos = p, !.sound = sound, !.items = y]
    BY Zenon DEF p
  <2> HIDE DEF q
  <2>3. MovedTo(r, p, q)
    BY ONLY <1>2, <2>2, ReaderMoved, Zenon
  <2>4. q.sound = sound /\ q.items = y
    <3>1. DOMAIN r = {"lo", "pos", "hi", "items", "sound"}
      BY <1>2 DEF ReaderFields
    <3>2. q.sound = sound
      BY ONLY <3>1, <2>2, Zenon
    <3>3. q.items = y
      BY ONLY <3>1, <2>2, Zenon
    <3> QED
      BY <3>2, <3>3
  <2> QED
    BY <2>3, <2>4, SMTT(60) DEF MovedTo, p
<1>6. sound <=> (r.sound /\ a.ret = "OK" /\ ~ Query(op, room))
  OBVIOUS
<1>7. sound => y = Tail(r.items)
  OBVIOUS
<1>8. x = IF r.sound THEN r.items ELSE <<>>
  OBVIOUS
<1>9. r = readers[Len(readers)] /\ a = Read(op, room)
  OBVIOUS
<1> HIDE DEF q, y, sound, x, a, r
<1>10. q.sound <=> sound
  BY ONLY <1>5, Zenon
<1>11. readers' = [readers EXCEPT ![Len(readers)] = q]
  BY ONLY <1>3
<1>12. Steps(op, room, r, a, sound, q, x)
  BY ONLY <1>1, <1>3, <1>4, <1>5, <1>6, <1>7, <1>8, <1>9, <1>10, <1>11, ZenonT(60) DEF Steps
<1> QED
  BY ONLY <1>12

(* What is told of a call on a reader that knows what is in front of it.   *)
LEMMA StepHeard ==
    ASSUME DerInv, BackInv, NEW op \in Ops, NEW room, NEW r, NEW a, NEW sound, NEW q, NEW x,
           Steps(op, room, r, a, sound, q, x), r.sound
    PROVE  (r.items = <<>> => a.ret # "OK") /\ (r.items # <<>> => Heard(op, room, r, a))
<1>1. readers # <<>> /\ r = readers[Len(readers)] /\ a = Read(op, room)
  BY DEF Steps
<1>2. Len(readers) \in 1 .. Len(readers) /\ Region(r)
  BY <1>1, Innermost
<1>3. LaidAll(readers, der)
  BY DEF BackInv
<1>4. Laid(r.items, Ahead(r))
  BY <1>1, <1>2, <1>3 DEF LaidAll, Ahead
<1>5. r.items = <<>> => a.ret # "OK"
  BY <1>1, <1>2, <1>4, SoundEnd, ReadEnd
<1>6. r.items # <<>> => Heard(op, room, r, a)
  BY <1>1, <1>2, <1>4, ReadHeard
<1> QED
  BY <1>5, <1>6

(* A reading call keeps the invariant.                                     *)
LEMMA ReadStepBack ==
    ASSUME DerInv, BackInv, NEW op \in Ops, NEW room, ReadStep(op, room)
    PROVE  BackInv'
<1>1. PICK r, a, sound, q, x : Steps(op, room, r, a, sound, q, x)
  BY ReadSteps
<1>2. /\ readers # <<>> /\ r = readers[Len(readers)] /\ a = Read(op, room)
      /\ x = IF r.sound THEN r.items ELSE <<>>
      /\ sound <=> (r.sound /\ a.ret = "OK" /\ ~ Query(op, room))
      /\ q.pos = a.pos /\ q.hi = r.hi /\ (q.sound <=> sound)
      /\ sound => q.items = Tail(r.items)
      /\ readers' = [readers EXCEPT ![Len(readers)] = q]
      /\ last'.op = op /\ last'.ret = a.ret /\ last'.value = a.value /\ last'.room = room
      /\ last'.expect = x
      /\ UNCHANGED <<writer, frames, whole, der>>
  BY <1>1, Zenon DEF Steps
<1>3. r.sound => (r.items = <<>> => a.ret # "OK") /\ (r.items # <<>> => Heard(op, room, r, a))
  BY <1>1, StepHeard
<1>4. IsList(readers) /\ Len(readers) \in 1 .. Len(readers)
  BY <1>2, Innermost
<1>5. LaidAll(readers, der)
  BY DEF BackInv
<1>6. ASSUME q.sound PROVE Laid(q.items, SubSeq(der, q.pos + 1, q.hi))
  <2>1. r.sound /\ a.ret = "OK" /\ ~ Query(op, room) /\ q.items = Tail(r.items)
    BY ONLY <1>2, <1>6, Zenon
  <2>2. Heard(op, room, r, a)
    BY ONLY <1>3, <2>1, Zenon
  <2>3. Laid(Tail(r.items), SubSeq(der, a.pos + 1, r.hi))
    BY ONLY <2>1, <2>2 DEF Heard
  <2>4. q.pos = a.pos /\ q.hi = r.hi
    BY ONLY <1>2
  <2> QED
    BY ONLY <2>1, <2>3, <2>4
<1>7. LaidAll(readers', der)
  <2>1. LaidAll([readers EXCEPT ![Len(readers)] = q], der)
    BY ONLY <1>4, <1>5, <1>6, LaidSet
  <2> QED
    BY ONLY <1>2, <2>1
<1>8. x # <<>> => x = r.items /\ Heard(op, room, r, a)
  <2>1. SUFFICES ASSUME x # <<>> PROVE x = r.items /\ Heard(op, room, r, a)
    OBVIOUS
  <2>2. r.sound /\ x = r.items
    BY ONLY <1>2, <2>1
  <2> QED
    BY ONLY <1>3, <2>1, <2>2
<1>9. ToldAt(last')
  <2>1. x # <<>> => Told(op, room, Head(x), a.ret, a.value)
    <3>1. SUFFICES ASSUME x # <<>> PROVE Told(op, room, Head(x), a.ret, a.value)
      OBVIOUS
    <3> QED
      BY ONLY <1>8, <3>1 DEF Heard
  <2>2. /\ last'.op = op /\ last'.ret = a.ret /\ last'.value = a.value /\ last'.room = room
        /\ last'.expect = x
    BY ONLY <1>2
  <2> QED
    BY ONLY <2>1, <2>2 DEF ToldAt
<1>10. GrownAt(last', readers', der)
  <2>1. SUFFICES ASSUME op \in Containers, a.ret = "OK", x # <<>>, Head(x).kids # <<>>
        PROVE  Laid(Head(x).kids, SubSeq(der, (a.pos - Len(a.value)) + 1, a.pos))
    <3>1. ElementSet(readers, Len(readers), q)
      BY ONLY <1>4, ListSet
    <3>2. Len(readers') = Len(readers) /\ readers'[Len(readers)] = q
      BY ONLY <1>2, <3>1 DEF ElementSet
    <3>3. readers'[Len(readers')].pos = a.pos
      BY ONLY <1>2, <3>2
    <3>4. last'.op = op /\ last'.ret = a.ret /\ last'.value = a.value /\ last'.expect = x
      BY ONLY <1>2
    <3> QED
      BY ONLY <2>1, <3>3, <3>4 DEF GrownAt
  <2>2. Laid(Head(x).kids, a.value) /\ Ended(a)
    BY ONLY <1>8, <2>1 DEF Heard
  <2>3. a.value = SubSeq(der, (a.pos - Len(a.value)) + 1, a.pos)
    BY ONLY <2>2 DEF Ended
  <2> QED
    BY ONLY <2>2, <2>3
<1> QED
  BY <1>2, <1>7, <1>9, <1>10, ReaderBack

-----------------------------------------------------------------------------
(* The theorem.                                                            *)

(* The invariant holds at first,                                           *)
LEMMA BackInitInv == Init => BackInv
<1>1. SUFFICES ASSUME Init PROVE BackInv
  OBVIOUS
<1>2. PICK room \in Rooms : writer = [room |-> room, out |-> <<>>, error |-> FALSE]
  BY <1>1 DEF Init
<1>3. IsWriter(writer) /\ writer.room = room /\ WriterPos(writer) = room
  BY <1>2, FreshWriter
<1>4. frames = <<Frame("top", writer.room)>> /\ readers = <<>> /\ last = Nothing
  BY <1>1 DEF Init
<1>5. LayInv
  <2>1. Laying(<<Frame("top", writer.room)>>, writer)
    BY <1>3, LayFresh
  <2> QED
    BY <1>4, <2>1 DEF LayInv
<1>6. LaidAll(readers, der)
  BY <1>4 DEF LaidAll
<1>7. GrownAt(last, readers, der) /\ ToldAt(last)
  <2>1. last.expect = <<>>
    BY <1>4, WriteExpects
  <2> QED
    BY <2>1, NothingTold
<1> QED
  BY <1>5, <1>6, <1>7 DEF BackInv

(* every step keeps it,                                                    *)
LEMMA BackStepInv ==
    ASSUME DerInv, BackInv, [Next]_vars
    PROVE  BackInv'
<1>1. ASSUME NEW v \in Writes, Write(v) \/ WriteNoMemory(v) PROVE BackInv'
  BY <1>1, WritesBack
<1>2. ASSUME NEW tag \in {"sequence", "set", "bits"}, Begin(tag) PROVE BackInv'
  BY <1>2, WritesBack
<1>3. CASE (\E i \in 2 .. Len(frames), b \in Damage : WriteToHandle(i, b)) \/ End
  BY <1>3, WritesBack
<1>4. CASE ReaderInit
  BY <1>4, ReaderInitBack
<1>5. CASE ReaderInitDamaged
  BY <1>5, ReaderInitDamagedBack
<1>6. ASSUME NEW op \in DOMAIN Asks \cup {"skip"}, NEW room \in ReadRooms \cup {NoBuffer},
             ReadStep(op, room)
      PROVE  BackInv'
  BY <1>6, ReadStepBack DEF Ops
<1>7. ASSUME NEW name \in {"null", "sequence"}, Expect(name) PROVE BackInv'
  BY <1>7, ExpectBack
<1>8. CASE Enter
  BY <1>8, EnterBack
<1>9. CASE Leave
  BY <1>9, LeaveBack
<1>10. CASE UNCHANGED vars
  <2>1. /\ UNCHANGED <<writer, frames, whole, der>> /\ readers' = readers /\ last' = last
    BY <1>10 DEF vars
  <2>2. LaidAll(readers', der) /\ GrownAt(last', readers', der) /\ ToldAt(last')
    BY <2>1 DEF BackInv
  <2> QED
    BY <2>1, <2>2, ReaderBack
<1> QED
  BY <1>1, <1>2, <1>3, <1>4, <1>5, <1>6, <1>7, <1>8, <1>9, <1>10, SMTT(60) DEF Next

(* and it is what ReadsBack says of the calls and of the reader.           *)
LEMMA BackHolds ==
    ASSUME DerInv, BackInv
    PROVE  ReadsBack
<1> DEFINE r == readers[Len(readers)]
<1>1. readers # <<>> /\ r.sound => (r.pos = r.hi <=> r.items = <<>>)
  <2>1. SUFFICES ASSUME readers # <<>>, r.sound PROVE r.pos = r.hi <=> r.items = <<>>
    OBVIOUS
  <2>2. Len(readers) \in 1 .. Len(readers) /\ Region(r)
    BY <2>1, Innermost
  <2>3. LaidAll(readers, der)
    BY DEF BackInv
  <2>4. Laid(r.items, Ahead(r))
    BY <2>1, <2>2, <2>3 DEF LaidAll, Ahead
  <2> QED
    BY <2>2, <2>4, SoundEnd
<1>2. last.expect # <<>> => Told(last.op, last.room, Head(last.expect), last.ret, last.value)
  BY DEF BackInv, ToldAt
<1> HIDE DEF r
<1>3. last.expect # <<>> =>
        /\ last.op \in DOMAIN Asks /\ Asks[last.op] # Head(last.expect).tag => last.ret = "BAD_TAG"
        /\ Means(last.op, Head(last.expect)) =>
             Right(last.op, last.room, Head(last.expect), last.ret, last.value)
  BY ONLY <1>2 DEF Told
<1> QED
  BY ONLY <1>1, <1>3 DEF ReadsBack, Right, r

(* ReadsBack, for every buffer, every values written, every nesting of     *)
(* containers and every sequence of calls: what the reader gives for the   *)
(* writer's bytes is what was written, and an output whose error flag is   *)
(* clear has no trace of the calls that failed on the way to it.           *)
THEOREM DerReadsBack == Spec => []ReadsBack
<1>1. DerInv /\ BackInv => ReadsBack
  BY BackHolds
<1>2. DerInv /\ BackInv /\ [Next]_vars => (DerInv /\ BackInv)'
  BY DerStepInv, BackStepInv
<1> QED
  BY <1>1, <1>2, DerInitInv, BackInitInv, PTL DEF Spec
=============================================================================
