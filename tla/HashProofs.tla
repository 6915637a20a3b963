---------------------------- MODULE HashProofs -----------------------------
(***************************************************************************)
(* The hash contexts for every block size, rate, length field and word     *)
(* width: between two calls a context holds exactly the bytes fed, its     *)
(* final compresses the padded message, a squeeze continues the stream,    *)
(* and so HashApi implements HashMsg.  On the same lemmas rest HMAC and    *)
(* PBKDF2 (Kdf), at the end.                                               *)
(***************************************************************************)
EXTENDS HashApi, Kdf, SequenceTheorems, FiniteSetTheorems, TLAPS

(* The lemmas on naturals and sequences; no block of theirs is at issue.   *)
Data == INSTANCE DataLemmas WITH BlockSize <- 1

(* The algorithms these proofs are about.                                  *)
MdAlg == {a \in Alg : a.kind = "md" /\ a.lenField < a.block}

(* What a context holds: the bytes compressed, then the bytes buffered.    *)
Held(c) == c.state \o SubSeq(c.buffer, 1, c.len)

(* Only whole blocks have been compressed.                                 *)
Aligned(a, c) == Len(c.state) % a.block = 0

-----------------------------------------------------------------------------
(* Division and remainder by any block size.                               *)
LEMMA DivFacts ==
    ASSUME NEW B \in Nat \ {0}, NEW n \in Nat
    PROVE  /\ n \div B \in Nat
           /\ (n \div B) * B \in Nat
           /\ (n \div B) * B <= n
           /\ n < (n \div B) * B + B
           /\ n % B = n - (n \div B) * B
OBVIOUS

(* Quotient and remainder are unique.                                      *)
LEMMA DivUnique ==
    ASSUME NEW B \in Nat \ {0}, NEW q \in Nat, NEW r \in 0 .. B - 1
    PROVE  (q * B + r) % B = r /\ (q * B + r) \div B = q
OBVIOUS

(* Whole blocks in front do not change a remainder.                        *)
LEMMA ModAdd ==
    ASSUME NEW B \in Nat \ {0}, NEW s \in Nat, s % B = 0, NEW y \in Nat
    PROVE  (s + y) % B = y % B
<1> DEFINE q == s \div B
           p == y \div B
           r == y % B
<1>1. /\ q \in Nat /\ p \in Nat /\ r \in 0 .. B - 1
      /\ s = q * B /\ y = p * B + r /\ r = y % B
  BY DivFacts
<1> HIDE DEF q, p, r
<1>2. s + y = (q + p) * B + r
  BY <1>1
<1>3. ((q + p) * B + r) % B = r
  <2>1. q + p \in Nat
    BY <1>1
  <2> QED
    BY <1>1, <2>1, DivUnique
<1> QED
  BY <1>1, <1>2, <1>3

(* The whole blocks of n bytes leave less than a block.                    *)
LEMMA WholeFacts ==
    ASSUME NEW B \in Nat \ {0}, NEW n \in Nat
    PROVE  /\ (n \div B) * B \in 0 .. n
           /\ n - (n \div B) * B < B
           /\ ((n \div B) * B) % B = 0
<1>1. n \div B \in Nat /\ 0 \in 0 .. B - 1
  BY DivFacts
<1>2. ((n \div B) * B + 0) % B = 0
  BY <1>1, DivUnique
<1>3. (n \div B) * B \in 0 .. n /\ n - (n \div B) * B < B
  BY DivFacts
<1>4. (n \div B) * B + 0 = (n \div B) * B
  BY <1>3
<1> QED
  BY <1>2, <1>3, <1>4

(* A table over 1 .. n is a sequence of length n.                          *)
LEMMA TableIsSeq ==
    ASSUME NEW S, NEW n \in Nat, NEW f \in [1 .. n -> S]
    PROVE  f \in Seq(S) /\ Len(f) = n
OBVIOUS

(* Concatenation of byte strings.                                          *)
LEMMA ConcatFacts ==
    ASSUME NEW S, NEW s \in Seq(S), NEW t \in Seq(S)
    PROVE  /\ s \o t \in Seq(S)
           /\ Len(s \o t) = Len(s) + Len(t)
           /\ s \o <<>> = s /\ <<>> \o s = s
OBVIOUS

(* Concatenation associates.                                               *)
LEMMA ConcatAssoc ==
    ASSUME NEW S, NEW s \in Seq(S), NEW t \in Seq(S), NEW u \in Seq(S)
    PROVE  (s \o t) \o u = s \o (t \o u)
OBVIOUS

(* A byte string known by its two parts.                                   *)
LEMMA ConcatIs ==
    ASSUME NEW S, NEW s \in Seq(S), NEW t \in Seq(S), NEW u \in Seq(S),
           Len(u) = Len(s) + Len(t),
           \A i \in 1 .. Len(s) : u[i] = s[i],
           \A i \in 1 .. Len(t) : u[Len(s) + i] = t[i]
    PROVE  s \o t = u
BY SMTT(60)

(* A byte string cut in two.                                               *)
LEMMA CutFacts ==
    ASSUME NEW S, NEW s \in Seq(S), NEW m \in 0 .. Len(s)
    PROVE  /\ SubSeq(s, 1, m) \in Seq(S)
           /\ Len(SubSeq(s, 1, m)) = m
           /\ SubSeq(s, m + 1, Len(s)) \in Seq(S)
           /\ Len(SubSeq(s, m + 1, Len(s))) = Len(s) - m
           /\ SubSeq(s, 1, m) \o SubSeq(s, m + 1, Len(s)) = s
           /\ SubSeq(s, 1, 0) = <<>>
<1>1. /\ SubSeq(s, 1, m) \in Seq(S) /\ Len(SubSeq(s, 1, m)) = m
      /\ SubSeq(s, m + 1, Len(s)) \in Seq(S)
      /\ Len(SubSeq(s, m + 1, Len(s))) = Len(s) - m
      /\ SubSeq(s, 1, 0) = <<>>
  OBVIOUS
<1>2. SubSeq(s, 1, m) \o SubSeq(s, m + 1, Len(s)) = SubSeq(s, 1, Len(s))
  <2>1. 1 \in 1 .. Len(s) + 1 /\ m \in 1 - 1 .. Len(s) /\ Len(s) \in m .. Len(s)
    OBVIOUS
  <2> QED
    BY <2>1, ConcatAdjacentSubSeq
<1>3. SubSeq(s, 1, Len(s)) = s
  BY SubSeqFull
<1> QED
  BY <1>1, <1>2, <1>3, ZenonT(60)

(* memcpy behind the first at bytes of a buffer appends to them.           *)
LEMMA CopyFacts ==
    ASSUME NEW S, NEW B \in Nat \ {0}, NEW buf \in [1 .. B -> S], NEW at \in 0 .. B,
           NEW d \in Seq(S), at + Len(d) <= B
    PROVE  /\ CopyInto(buf, at, d) \in [1 .. B -> S]
           /\ SubSeq(CopyInto(buf, at, d), 1, at + Len(d)) = SubSeq(buf, 1, at) \o d
<1> DEFINE c == CopyInto(buf, at, d)
<1>1. c \in [1 .. B -> S]
  BY DEF CopyInto
<1>2. buf \in Seq(S) /\ Len(buf) = B /\ c \in Seq(S) /\ Len(c) = B
  BY <1>1, TableIsSeq
<1>3. \A i \in 1 .. at : c[i] = buf[i]
  BY DEF CopyInto
<1>4. \A i \in 1 .. Len(d) : c[at + i] = d[i]
  BY DEF CopyInto
<1> HIDE DEF c
<1>5. /\ SubSeq(c, 1, at + Len(d)) \in Seq(S)
      /\ Len(SubSeq(c, 1, at + Len(d))) = at + Len(d)
      /\ \A i \in 1 .. at + Len(d) : SubSeq(c, 1, at + Len(d))[i] = c[i]
  BY <1>2
<1>6. /\ SubSeq(buf, 1, at) \in Seq(S) /\ Len(SubSeq(buf, 1, at)) = at
      /\ \A i \in 1 .. at : SubSeq(buf, 1, at)[i] = buf[i]
  BY <1>2
<1>7. SubSeq(c, 1, at + Len(d)) = SubSeq(buf, 1, at) \o d
  BY <1>3, <1>4, <1>5, <1>6, SMTT(60)
<1> QED
  BY <1>1, <1>7 DEF c
-----------------------------------------------------------------------------
(* The contexts over any set of bytes; HMAC hashes more of them than those *)
(* of HashData.                                                            *)
MdCtxOver(S, a) == [state  : Seq(S),
                    buffer : [1 .. a.block -> S],
                    len    : 0 .. a.block - 1,
                    count  : Nat \X Nat]

(* A context by its fields.                                                *)
MdRec(st, buf, n, ct) == [state |-> st, buffer |-> buf, len |-> n, count |-> ct]

(* A record with these four fields is no more than they are.               *)
LEMMA RecByFields ==
    ASSUME NEW e, DOMAIN e = {"state", "buffer", "len", "count"},
           e = [x \in DOMAIN e |-> e[x]]
    PROVE  e = MdRec(e.state, e.buffer, e.len, e.count)
BY DEF MdRec

(* What a read of a field gives.                                           *)
LEMMA RecReads ==
    ASSUME NEW st, NEW buf, NEW n, NEW ct
    PROVE  /\ MdRec(st, buf, n, ct).state = st
           /\ MdRec(st, buf, n, ct).buffer = buf
           /\ MdRec(st, buf, n, ct).len = n
           /\ MdRec(st, buf, n, ct).count = ct
BY DEF MdRec

(* What an assignment to one field does.                                   *)
LEMMA RecWrites ==
    ASSUME NEW st, NEW buf, NEW n, NEW ct, NEW x
    PROVE  /\ [MdRec(st, buf, n, ct) EXCEPT !.len = x] = MdRec(st, buf, x, ct)
           /\ [MdRec(st, buf, n, ct) EXCEPT !.count = x] = MdRec(st, buf, n, x)
           /\ [MdRec(st, buf, n, ct) EXCEPT !.buffer = x] = MdRec(st, x, n, ct)
BY DEF MdRec

(* What compressing a block does.                                          *)
LEMMA RecTransform ==
    ASSUME NEW st, NEW buf, NEW n, NEW ct, NEW x
    PROVE  Transform(MdRec(st, buf, n, ct), x) = MdRec(st \o x, buf, n, ct)
<1> DEFINE e == [MdRec(st, buf, n, ct) EXCEPT !.state = @ \o x]
<1>1. /\ DOMAIN e = {"state", "buffer", "len", "count"} /\ e = [i \in DOMAIN e |-> e[i]]
      /\ e.state = st \o x /\ e.buffer = buf /\ e.len = n /\ e.count = ct
  BY DEF MdRec
<1> HIDE DEF e
<1>2. e = MdRec(st \o x, buf, n, ct)
  BY <1>1, RecByFields
<1> QED
  BY <1>2 DEF e, Transform

(* A context's fields have their types.                                    *)
LEMMA CtxFields ==
    ASSUME NEW S, NEW a \in MdAlg, NEW c \in MdCtxOver(S, a)
    PROVE  /\ a.block \in Nat \ {0} /\ c.len \in 0 .. a.block - 1
           /\ c.state \in Seq(S) /\ Len(c.state) \in Nat
           /\ c.buffer \in [1 .. a.block -> S]
           /\ c.buffer \in Seq(S) /\ Len(c.buffer) = a.block
           /\ SubSeq(c.buffer, 1, c.len) \in Seq(S)
           /\ Held(c) \in Seq(S)
           /\ c = MdRec(c.state, c.buffer, c.len, c.count)
           /\ c.count \in Nat \X Nat
<1>1. /\ a.block \in Nat \ {0} /\ c.len \in 0 .. a.block - 1
      /\ c.state \in Seq(S) /\ c.buffer \in [1 .. a.block -> S]
      /\ c = MdRec(c.state, c.buffer, c.len, c.count)
      /\ c.count \in Nat \X Nat
  BY DEF MdAlg, Alg, MdCtxOver, MdRec
<1>2. c.buffer \in Seq(S) /\ Len(c.buffer) = a.block
  BY <1>1, TableIsSeq
<1>3. SubSeq(c.buffer, 1, c.len) \in Seq(S)
  BY <1>1, <1>2, CutFacts
<1> QED
  BY <1>1, <1>2, <1>3, ConcatFacts DEF Held

(* What filling the buffer does.                                           *)
LEMMA FillCtx ==
    ASSUME NEW S, NEW a \in MdAlg, NEW c \in MdCtxOver(S, a), NEW x, NEW y
    PROVE  [c EXCEPT !.buffer = x, !.len = y] = MdRec(c.state, x, y, c.count)
<1> DEFINE e == [c EXCEPT !.buffer = x, !.len = y]
<1>1. DOMAIN e = {"state", "buffer", "len", "count"} /\ e = [i \in DOMAIN e |-> e[i]]
  BY DEF MdCtxOver
<1>2. e.state = c.state /\ e.buffer = x /\ e.len = y /\ e.count = c.count
  BY DEF MdCtxOver
<1> HIDE DEF e
<1>3. e = MdRec(c.state, x, y, c.count)
  BY <1>1, <1>2, RecByFields
<1> QED
  BY <1>3 DEF e

(* What setting the bit count does.                                        *)
LEMMA CountCtx ==
    ASSUME NEW S, NEW a \in MdAlg, NEW c \in MdCtxOver(S, a), NEW x
    PROVE  [c EXCEPT !.count = x] = MdRec(c.state, c.buffer, c.len, x)
<1> DEFINE e == [c EXCEPT !.count = x]
<1>1. DOMAIN e = {"state", "buffer", "len", "count"} /\ e = [i \in DOMAIN e |-> e[i]]
  BY DEF MdCtxOver
<1>2. e.state = c.state /\ e.buffer = c.buffer /\ e.len = c.len /\ e.count = x
  BY DEF MdCtxOver
<1> HIDE DEF e
<1>3. e = MdRec(c.state, c.buffer, c.len, x)
  BY <1>1, <1>2, RecByFields
<1> QED
  BY <1>3 DEF e

(* A record of such fields is a context.                                   *)
LEMMA RecIsCtx ==
    ASSUME NEW S, NEW a \in MdAlg, NEW st \in Seq(S), NEW buf \in [1 .. a.block -> S],
           NEW n \in 0 .. a.block - 1, NEW ct \in Nat \X Nat
    PROVE  MdRec(st, buf, n, ct) \in MdCtxOver(S, a)
BY DEF MdCtxOver, MdRec

(* A context that may be fed d, and what the parts of an update leave.     *)
Feedable(S, a, c, d) ==
    a \in MdAlg /\ c \in MdCtxOver(S, a) /\ Aligned(a, c) /\ d \in Seq(S)

ToppedUp(S, a, c, d, t) ==
    /\ t.ctx \in MdCtxOver(S, a) /\ t.rest \in Seq(S)
    /\ Aligned(a, t.ctx)
    /\ Held(t.ctx) \o t.rest = Held(c) \o d
    /\ t.ctx.count = c.count
    /\ t.rest # <<>> => t.ctx.len = 0

Appended(S, a, c, d, u) ==
    u \in MdCtxOver(S, a) /\ Aligned(a, u) /\ Held(u) = Held(c) \o d

(* An update fills up the block begun; what is left of the data then meets *)
(* an empty buffer.                                                        *)
LEMMA TopUpFacts ==
    ASSUME NEW S, NEW a, NEW c, NEW d, Feedable(S, a, c, d), NEW t, t = MdTopUp(a, c, d)
    PROVE  ToppedUp(S, a, c, d, t)
<1>h. a \in MdAlg /\ c \in MdCtxOver(S, a) /\ Aligned(a, c) /\ d \in Seq(S)
  BY DEF Feedable
<1> USE <1>h DEF ToppedUp
<1> DEFINE B    == a.block
           room == B - c.len
           want == IF c.len = 0 THEN 0 ELSE IF room > Len(d) THEN Len(d) ELSE room
           cut  == SubSeq(d, 1, want)
           rest == SubSeq(d, want + 1, Len(d))
           buf  == CopyInto(c.buffer, c.len, cut)
           held == SubSeq(c.buffer, 1, c.len)
           filled == [c EXCEPT !.buffer = buf, !.len = @ + want]
<1>1. /\ B \in Nat \ {0} /\ c.len \in 0 .. B - 1
      /\ c.state \in Seq(S) /\ Len(c.state) \in Nat
      /\ c.buffer \in [1 .. B -> S] /\ held \in Seq(S)
      /\ c = MdRec(c.state, c.buffer, c.len, c.count)
      /\ c.count \in Nat \X Nat /\ Len(d) \in Nat
  BY CtxFields
<1>2. /\ want \in 0 .. Len(d) /\ c.len + want \in 0 .. B
      /\ c.len + want # B /\ want # Len(d) => c.len + want = 0
  BY <1>1, SMTT(60)
<1>3. /\ t.rest = rest
      /\ t.ctx = IF c.len + want = B THEN MdRec(c.state \o buf, buf, 0, c.count)
                 ELSE MdRec(c.state, buf, c.len + want, c.count)
  <2>1. /\ t.rest = rest
        /\ t.ctx = IF filled.len = B
                   THEN [Transform(filled, filled.buffer) EXCEPT !.len = 0] ELSE filled
    BY DEF MdTopUp
  <2> HIDE DEF buf, want, rest, B
  <2>2. filled = MdRec(c.state, buf, c.len + want, c.count)
    BY FillCtx
  <2> HIDE DEF filled
  <2>3. filled.len = c.len + want /\ filled.buffer = buf
    BY <2>2, RecReads
  <2>4. Transform(filled, buf) = MdRec(c.state \o buf, buf, c.len + want, c.count)
    BY <2>2, RecTransform
  <2>5. [Transform(filled, buf) EXCEPT !.len = 0] = MdRec(c.state \o buf, buf, 0, c.count)
    BY <2>4, RecWrites
  <2> QED
    BY <2>1, <2>2, <2>3, <2>5
<1> HIDE DEF want, filled
<1>4. /\ cut \in Seq(S) /\ Len(cut) = want /\ rest \in Seq(S)
      /\ Len(rest) = Len(d) - want /\ cut \o rest = d
  BY <1>2, CutFacts, ZenonT(60)
<1> HIDE DEF cut, rest, B
<1>5. /\ buf \in [1 .. B -> S]
      /\ SubSeq(buf, 1, c.len + want) = held \o cut
  <2>1. c.len \in 0 .. B /\ c.len + Len(cut) <= B
    BY <1>1, <1>2, <1>4
  <2>2. c.len + Len(cut) = c.len + want
    BY <1>4
  <2> QED
    <3> DEFINE w == c.buffer
               at == c.len
    <3>0. /\ B \in Nat \ {0} /\ w \in [1 .. B -> S] /\ at \in 0 .. B /\ cut \in Seq(S)
          /\ at + Len(cut) <= B
      BY <1>1, <1>4, <2>1
    <3> HIDE DEF w, at
    <3>3. /\ CopyInto(w, at, cut) \in [1 .. B -> S]
          /\ SubSeq(CopyInto(w, at, cut), 1, at + Len(cut)) = SubSeq(w, 1, at) \o cut
      BY ONLY <3>0, CopyFacts
    <3>1. SubSeq(buf, 1, c.len + Len(cut)) = held \o cut
      BY <3>3 DEF w, at
    <3>2. buf \in [1 .. B -> S]
      BY <3>3 DEF w, at
    <3> QED
      BY <2>2, <3>1, <3>2
<1> HIDE DEF buf, held
<1>6. buf \in Seq(S) /\ Len(buf) = B
  BY <1>1, <1>5, TableIsSeq
<1>7. (c.state \o (held \o cut)) \o rest = Held(c) \o d
  <2> DEFINE s == c.state
             sh == s \o held
  <2>0. s \in Seq(S) /\ held \in Seq(S) /\ cut \in Seq(S) /\ rest \in Seq(S)
    BY <1>1, <1>4
  <2> HIDE DEF s
  <2>1. (s \o held) \o cut = s \o (held \o cut)
    BY ONLY <2>0, ConcatAssoc, SMTT(60)
  <2>2. sh \in Seq(S)
    BY <2>0, ConcatFacts
  <2> HIDE DEF sh
  <2>3. (sh \o cut) \o rest = sh \o (cut \o rest)
    <3>1. sh \in Seq(S) /\ cut \in Seq(S) /\ rest \in Seq(S)
      BY <2>0, <2>2
    <3> QED
      BY ONLY <3>1, ConcatAssoc, SMTT(60)
  <2>4. Held(c) = c.state \o held
    BY DEF Held, held
  <2> QED
    BY <1>4, <2>1, <2>3, <2>4 DEF s, sh
<1>8. CASE c.len + want = B
  <2> DEFINE st == c.state \o buf
  <2>1. st \in Seq(S) /\ Len(st) = Len(c.state) + B
    BY <1>1, <1>6, ConcatFacts
  <2>2. t.ctx = MdRec(st, buf, 0, c.count)
    BY <1>3, <1>8
  <2> HIDE DEF st
  <2>3. t.ctx.state = st /\ t.ctx.buffer = buf /\ t.ctx.len = 0 /\ t.ctx.count = c.count
    BY <2>2, RecReads
  <2>4. t.ctx \in MdCtxOver(S, a)
    <3>1. buf \in [1 .. a.block -> S] /\ 0 \in 0 .. a.block - 1
      BY <1>1, <1>5 DEF B
    <3> DEFINE ct == c.count
    <3>2. ct \in Nat \X Nat
      BY <1>1
    <3> HIDE DEF ct
    <3>3. MdRec(st, buf, 0, ct) \in MdCtxOver(S, a)
      BY ONLY a \in MdAlg, <2>1, <3>1, <3>2, RecIsCtx
    <3> QED
      BY <2>2, <3>3 DEF ct
  <2>5. (Len(c.state) + B) % B = 0
    <3>1. (Len(c.state) + B) % B = B % B
      BY <1>1, ModAdd DEF Aligned, B
    <3>2. B % B = 0
      BY <1>1
    <3> QED
      BY <3>1, <3>2
  <2>6. SubSeq(buf, 1, B) = buf /\ SubSeq(buf, 1, 0) = <<>>
    BY <1>6, SubSeqFull, CutFacts
  <2>7. Held(t.ctx) = c.state \o (held \o cut)
    <3>1. Held(t.ctx) = st \o <<>>
      BY <2>3, <2>6 DEF Held
    <3>2. st \o <<>> = st
      BY <2>1, ConcatFacts
    <3>3. buf = held \o cut
      BY <1>5, <1>8, <2>6
    <3> QED
      BY <3>1, <3>2, <3>3 DEF st
  <2> QED
    BY <1>3, <1>4, <1>7, <2>1, <2>3, <2>4, <2>5, <2>7 DEF Aligned, B
<1>9. CASE c.len + want # B
  <2>1. /\ t.ctx = MdRec(c.state, buf, c.len + want, c.count)
        /\ t.ctx.state = c.state /\ t.ctx.buffer = buf /\ t.ctx.len = c.len + want
        /\ t.ctx.count = c.count
    BY <1>3, <1>9, RecReads
  <2>2. c.len + want \in 0 .. B - 1
    BY <1>1, <1>2, <1>9
  <2>3. t.ctx \in MdCtxOver(S, a)
    <3>1. buf \in [1 .. a.block -> S] /\ c.len + want \in 0 .. a.block - 1
      BY <1>1, <1>5, <2>2 DEF B
    <3> QED
      BY <1>1, <2>1, <3>1, RecIsCtx, SMTT(60)
  <2>4. Held(t.ctx) = c.state \o (held \o cut)
    <3>1. Held(t.ctx) = c.state \o SubSeq(buf, 1, c.len + want)
      BY <2>1 DEF Held
    <3> QED
      BY <1>5, <3>1
  <2>5. rest # <<>> => c.len + want = 0
    BY <1>2, <1>4, <1>9
  <2> QED
    BY <1>3, <1>4, <1>7, <2>1, <2>3, <2>4, <2>5 DEF Aligned
<1> QED
  BY <1>8, <1>9

(* The whole blocks are compressed as they are, the rest is buffered.      *)
LEMMA BlocksFacts ==
    ASSUME NEW S, NEW a \in MdAlg, NEW c \in MdCtxOver(S, a), Aligned(a, c), NEW d \in Seq(S),
           Len(d) = 0 \/ c.len = 0, NEW u, u = MdBlocks(a, c, d)
    PROVE  /\ u \in MdCtxOver(S, a) /\ Aligned(a, u)
           /\ Held(u) = Held(c) \o d
           /\ u.count = c.count
<1>0. d # <<>> => c.len = 0
  OBVIOUS
<1> DEFINE B    == a.block
           full == (Len(d) \div B) * B
           head == SubSeq(d, 1, full)
           rest == SubSeq(d, full + 1, Len(d))
           done == Transform(c, head)
           st   == c.state \o head
           buf  == CopyInto(c.buffer, 0, rest)
<1>1. /\ B \in Nat \ {0} /\ c.len \in 0 .. B - 1
      /\ c.state \in Seq(S) /\ Len(c.state) \in Nat
      /\ c.buffer \in [1 .. B -> S] /\ c.buffer \in Seq(S) /\ Len(c.buffer) = B
      /\ c = MdRec(c.state, c.buffer, c.len, c.count) /\ Held(c) \in Seq(S)
      /\ c.count \in Nat \X Nat /\ Len(d) \in Nat
  BY CtxFields
<1> HIDE DEF B
<1>2. full \in 0 .. Len(d) /\ Len(d) - full < B
  BY <1>1, WholeFacts
<1>3. full % B = 0
  BY <1>1, WholeFacts
<1>4. u = IF rest = <<>> THEN done
          ELSE [done EXCEPT !.buffer = CopyInto(@, 0, rest), !.len = Len(rest)]
  BY DEF MdBlocks, B
<1> HIDE DEF full
<1>5. /\ head \in Seq(S) /\ Len(head) = full /\ rest \in Seq(S)
      /\ Len(rest) = Len(d) - full /\ head \o rest = d
  BY <1>2, CutFacts
<1> HIDE DEF head, rest
<1>6. st \in Seq(S) /\ Len(st) % B = 0
  <2>1. st \in Seq(S) /\ Len(st) = Len(c.state) + full
    BY <1>1, <1>5, ConcatFacts, ZenonT(60)
  <2>2. (Len(c.state) + full) % B = full % B
    <3>1. Len(c.state) % B = 0
      BY DEF Aligned, B
    <3>2. B \in Nat \ {0} /\ Len(c.state) \in Nat /\ full \in Nat
      BY <1>1, <1>2
    <3> DEFINE m == Len(c.state)
    <3> HIDE DEF m
    <3>3. m \in Nat /\ m % B = 0
      BY <3>1, <3>2 DEF m
    <3>4. (m + full) % B = full % B
      BY <3>2, <3>3, ModAdd
    <3> QED
      BY <3>4 DEF m
  <2> QED
    BY <1>3, <2>1, <2>2
<1>7. done = MdRec(st, c.buffer, c.len, c.count)
  BY <1>1, RecTransform
<1>8. SubSeq(c.buffer, 1, 0) = <<>>
  BY <1>1, CutFacts
<1>9. CASE d = <<>>
  <2>1. head = <<>> /\ rest = <<>>
    BY <1>2, <1>5, <1>9
  <2>2. st = c.state
    BY <1>1, <2>1, ConcatFacts
  <2>3. u = c
    BY <1>1, <1>4, <1>7, <2>1, <2>2
  <2>4. Held(c) \o <<>> = Held(c)
    BY <1>1, ConcatFacts
  <2> QED
    BY <1>9, <2>3, <2>4
<1> HIDE DEF done, st
<1>10. CASE d # <<>> /\ rest = <<>>
  <2>1. u = MdRec(st, c.buffer, 0, c.count)
    BY <1>0, <1>4, <1>7, <1>10
  <2>2. u.state = st /\ u.buffer = c.buffer /\ u.len = 0 /\ u.count = c.count
    BY <2>1, RecReads
  <2>3. head = d
    BY <1>5, <1>10, ConcatFacts
  <2>4. Held(u) = st /\ Held(c) = c.state
    BY <1>0, <1>1, <1>6, <1>8, <1>10, <2>2, ConcatFacts DEF Held
  <2>5. u \in MdCtxOver(S, a)
    <3>1. c.buffer \in [1 .. a.block -> S] /\ 0 \in 0 .. a.block - 1
      BY <1>1 DEF B
    <3>2. st \in Seq(S) /\ c.count \in Nat \X Nat
      BY <1>1, <1>6
    <3>3. MdRec(st, c.buffer, 0, c.count) \in MdCtxOver(S, a)
      BY <3>1, <3>2, RecIsCtx
    <3> QED
      BY <2>1, <3>3
  <2> QED
    BY <1>6, <2>2, <2>3, <2>4, <2>5 DEF Aligned, st, B
<1>11. CASE d # <<>> /\ rest # <<>>
  <2>1. done \in MdCtxOver(S, a)
    <3>1. c.buffer \in [1 .. a.block -> S] /\ c.len \in 0 .. a.block - 1
      BY <1>1 DEF B
    <3> QED
      BY <1>1, <1>6, <1>7, <3>1, RecIsCtx
  <2>2. done.buffer = c.buffer /\ done.state = st /\ done.count = c.count
    BY <1>7, RecReads
  <2>3. u = MdRec(st, buf, Len(rest), c.count)
    <3>1. u = [done EXCEPT !.buffer = CopyInto(@, 0, rest), !.len = Len(rest)]
      BY <1>4, <1>11
    <3>2. u = MdRec(done.state, CopyInto(done.buffer, 0, rest), Len(rest), done.count)
      BY <2>1, <3>1, FillCtx
    <3> QED
      BY <2>2, <3>2
  <2>4. buf \in [1 .. B -> S] /\ SubSeq(buf, 1, Len(rest)) = rest
    <3>1. 0 \in 0 .. B /\ 0 + Len(rest) <= B /\ 0 + Len(rest) = Len(rest)
      BY <1>1, <1>2, <1>5, SMTT(60)
    <3>2. SubSeq(buf, 1, 0 + Len(rest)) = SubSeq(c.buffer, 1, 0) \o rest
      <4> DEFINE z == 0
                 w == c.buffer
      <4>1. /\ z \in 0 .. B /\ z + Len(rest) <= B /\ B \in Nat \ {0}
            /\ w \in [1 .. B -> S] /\ rest \in Seq(S)
        BY <1>1, <1>5, <3>1
      <4> HIDE DEF z, w
      <4>2. SubSeq(CopyInto(w, z, rest), 1, z + Len(rest)) = SubSeq(w, 1, z) \o rest
        BY <4>1, CopyFacts, SMTT(60)
      <4> QED
        BY <4>2 DEF z, w, buf
    <3>3. buf \in [1 .. B -> S]
      BY <1>1, <1>5, <3>1, CopyFacts
    <3> QED
      BY <1>5, <1>8, <3>1, <3>2, <3>3, ConcatFacts
  <2> HIDE DEF buf
  <2>5. u.state = st /\ u.buffer = buf /\ u.len = Len(rest) /\ u.count = c.count
    BY <2>3, RecReads
  <2>6. u \in MdCtxOver(S, a)
    <3>1. Len(rest) \in 0 .. a.block - 1 /\ buf \in [1 .. a.block -> S]
      BY <1>1, <1>2, <1>5, <2>4, SMTT(60) DEF B
    <3> QED
      BY <1>1, <1>6, <2>3, <3>1, RecIsCtx, SMTT(60)
  <2>7. Held(u) = st \o rest /\ Held(c) = c.state
    BY <1>0, <1>1, <1>8, <1>11, <2>4, <2>5, ConcatFacts DEF Held
  <2>8. st \o rest = c.state \o d
    <3>1. (c.state \o head) \o rest = c.state \o (head \o rest)
      <4> DEFINE s == c.state
      <4>1. s \in Seq(S) /\ head \in Seq(S) /\ rest \in Seq(S)
        BY <1>1, <1>5
      <4> HIDE DEF s
      <4>2. (s \o head) \o rest = s \o (head \o rest)
        BY ONLY <4>1, ConcatAssoc, SMTT(60)
      <4> QED
        BY <4>2 DEF s
    <3> QED
      BY <1>5, <3>1 DEF st
  <2> QED
    BY <1>6, <2>5, <2>6, <2>7, <2>8 DEF Aligned, B
<1> QED
  BY <1>9, <1>10, <1>11

(* One update call appends its data to what the context holds.             *)
LEMMA UpdateFacts ==
    ASSUME NEW S, NEW a, NEW c, NEW d, Feedable(S, a, c, d),
           NEW k \in Nat \X Nat, k = CountAfter(a, c.count, Len(d)),
           NEW u, u = MdUpdate(a, c, d)
    PROVE  Appended(S, a, c, d, u) /\ u.count = k
<1>h. a \in MdAlg /\ c \in MdCtxOver(S, a) /\ Aligned(a, c) /\ d \in Seq(S)
  BY DEF Feedable
<1> USE <1>h DEF Appended
<1> DEFINE e == MdRec(c.state, c.buffer, c.len, k)
           t == MdTopUp(a, e, d)
<1>1. /\ c = MdRec(c.state, c.buffer, c.len, c.count) /\ Held(c) \in Seq(S)
      /\ c.state \in Seq(S) /\ c.buffer \in [1 .. a.block -> S]
      /\ c.len \in 0 .. a.block - 1
  BY CtxFields
<1>2. u = MdBlocks(a, t.ctx, t.rest)
  <2>1. [c EXCEPT !.count = CountAfter(a, @, Len(d))] = [c EXCEPT !.count = k]
    BY DEF MdCtxOver
  <2>2. [c EXCEPT !.count = k] = e
    BY CountCtx, SMTT(60)
  <2> HIDE DEF e
  <2> QED
    BY <2>1, <2>2 DEF MdUpdate
<1>3. e \in MdCtxOver(S, a)
  BY <1>1, RecIsCtx
<1>4. e.state = c.state /\ e.buffer = c.buffer /\ e.len = c.len /\ e.count = k
  BY RecReads
<1> HIDE DEF e
<1>5. Aligned(a, e) /\ Held(e) = Held(c)
  BY <1>4 DEF Aligned, Held
<1> HIDE DEF t
<1>6. /\ t.ctx \in MdCtxOver(S, a) /\ t.rest \in Seq(S) /\ Aligned(a, t.ctx)
      /\ Held(t.ctx) \o t.rest = Held(e) \o d
      /\ t.ctx.count = e.count
      /\ t.rest # <<>> => t.ctx.len = 0
  <2>1. t = MdTopUp(a, e, d) /\ Feedable(S, a, e, d)
    BY <1>3, <1>5 DEF t, Feedable
  <2>2. ToppedUp(S, a, e, d, t)
    BY ONLY <2>1, TopUpFacts
  <2> QED
    BY ONLY <2>2 DEF ToppedUp
<1>7. /\ u \in MdCtxOver(S, a) /\ Aligned(a, u)
      /\ Held(u) = Held(t.ctx) \o t.rest
      /\ u.count = t.ctx.count
  <2> DEFINE x == t.ctx
             y == t.rest
  <2>1. /\ x \in MdCtxOver(S, a) /\ y \in Seq(S) /\ Aligned(a, x)
        /\ Len(y) = 0 \/ x.len = 0
        /\ u = MdBlocks(a, x, y)
    BY <1>2, <1>6
  <2> HIDE DEF x, y
  <2>2. /\ u \in MdCtxOver(S, a) /\ Aligned(a, u)
        /\ Held(u) = Held(x) \o y
        /\ u.count = x.count
    BY <2>1, BlocksFacts, SMTT(150)
  <2> QED
    BY <2>2 DEF x, y
<1> QED
  BY <1>4, <1>5, <1>6, <1>7

(* The bit count follows the bytes fed, also when the low word wraps.      *)
LEMMA CountFacts ==
    ASSUME NEW a \in MdAlg, NEW f \in Nat, NEW n \in Nat, CallFits(a, f + n, n)
    PROVE  /\ CountAfter(a, BitCount(a, f), n) = BitCount(a, f + n)
           /\ BitCount(a, f + n) \in Nat \X Nat
<1> DEFINE W    == WordMod
           high == (8 * f) \div W
           low  == (8 * f) % W
           bits == 8 * n
           sum  == 8 * (f + n)
<1>1. W \in Nat \ {0} /\ bits \in Nat /\ sum \in Nat /\ 8 * f \in Nat /\ sum = 8 * f + bits
  BY WordAssumption
<1>2. /\ bits < W /\ a.words \in {1, 2}
      /\ a.words = 1 => sum < W
      /\ a.words = 2 => sum < W * W
  BY DEF CallFits, MdAlg, Alg, IsMd
<1>3. high \in Nat /\ low \in 0 .. W - 1 /\ 8 * f = high * W + low
  <2> DEFINE g == 8 * f
  <2>1. g \in Nat /\ W \in Nat \ {0}
    BY <1>1
  <2> HIDE DEF g, W
  <2>2. /\ g \div W \in Nat /\ (g \div W) * W \in Nat /\ (g \div W) * W <= g
        /\ g < (g \div W) * W + W /\ g % W = g - (g \div W) * W
    BY <2>1, DivFacts
  <2>3. g \div W \in Nat /\ g % W \in 0 .. W - 1 /\ g = ((g \div W) * W) + (g % W)
    BY <2>1, <2>2
  <2> QED
    BY <2>3 DEF g, W
<1>4. bits % W = bits
  BY <1>1, <1>2
<1>5. /\ CountAfter(a, BitCount(a, f), n)
           = <<(low + (bits % W)) % W,
               IF a.words = 2 /\ (low + (bits % W)) % W < (bits % W)
               THEN (high + 1) % W ELSE high>>
      /\ BitCount(a, f + n) = <<sum % W, sum \div W>>
  <2>1. BitCount(a, f) = <<low, high>> /\ BitCount(a, f + n) = <<sum % W, sum \div W>>
    BY DEF BitCount
  <2> HIDE DEF low, high, sum
  <2>2. CountAfter(a, <<low, high>>, n)
           = <<(low + (bits % W)) % W,
               IF a.words = 2 /\ (low + (bits % W)) % W < (bits % W)
               THEN (high + 1) % W ELSE high>>
    BY DEF CountAfter
  <2> QED
    BY <2>1, <2>2
<1> HIDE DEF W, high, low, bits, sum
<1>6. CASE low + bits < W
  <2>1. sum = high * W + (low + bits) /\ low + bits \in 0 .. W - 1
    BY <1>1, <1>3, <1>6
  <2>2. sum % W = low + bits /\ sum \div W = high
    <3> DEFINE r == low + bits
    <3>1. sum = high * W + r /\ r \in 0 .. W - 1
      BY <2>1
    <3> HIDE DEF r
    <3>2. (high * W + r) % W = r /\ (high * W + r) \div W = high
      BY <1>1, <1>3, <3>1, DivUnique
    <3> QED
      BY <3>1, <3>2 DEF r
  <2>3. (low + bits) % W = low + bits /\ ~ (low + bits < bits)
    BY <1>1, <1>3, <1>6
  <2> QED
    BY <1>1, <1>3, <1>4, <1>5, <2>1, <2>2, <2>3
<1>7. CASE low + bits >= W
  <2> DEFINE r == low + bits - W
  <2>1. r \in 0 .. W - 1 /\ r < bits /\ high + 1 \in Nat
    BY <1>1, <1>2, <1>3, <1>7
  <2>2. sum = (high + 1) * W + r
    BY <1>1, <1>3
  <2>3. low + bits = 1 * W + r
    BY <1>1, <1>3
  <2> HIDE DEF r
  <2>4. sum % W = r /\ sum \div W = high + 1
    <3> DEFINE q == high + 1
    <3>1. sum = q * W + r /\ q \in Nat
      BY <2>1, <2>2
    <3> HIDE DEF q
    <3>2. (q * W + r) % W = r /\ (q * W + r) \div W = q
      BY <1>1, <2>1, <3>1, DivUnique
    <3> QED
      BY <3>1, <3>2 DEF q
  <2>5. (low + bits) % W = r
    <3>1. 1 \in Nat
      OBVIOUS
    <3>2. (1 * W + r) % W = r
      BY <1>1, <2>1, <3>1, DivUnique
    <3> QED
      BY <2>3, <3>2
  <2>6. sum >= W
    BY <1>1, <1>3, <1>7
  <2>7. a.words = 2 /\ sum < W * W
    BY <1>1, <1>2, <2>6
  <2>8. high + 1 < W
    <3>1. (high + 1) * W < W * W
      BY <1>1, <2>1, <2>2, <2>7
    <3>2. SUFFICES ASSUME high + 1 >= W PROVE FALSE
      BY <1>1, <2>1
    <3>3. (high + 1) * W >= W * W
      BY <1>1, <2>1, <3>2
    <3> QED
      BY <1>1, <2>1, <3>1, <3>3
  <2>9. (high + 1) % W = high + 1
    BY <1>1, <2>1, <2>8
  <2> QED
    BY <1>1, <1>4, <1>5, <2>1, <2>4, <2>5, <2>7, <2>9
<1> QED
  BY <1>1, <1>2, <1>3, <1>6, <1>7

(* The bytes fed so far and those of a call are the bytes fed after it.    *)
LEMMA FedFacts ==
    ASSUME NEW f \in Nat, NEW n \in Nat, NEW d, d = [i \in 1 .. n |-> MsgByte(f + i)]
    PROVE  /\ d \in Seq(Byte) /\ Len(d) = n
           /\ MsgOf(f) \o d = MsgOf(f + n)
<1>1. \A i \in Nat : MsgByte(i) \in Byte
  BY DEF MsgByte, Byte
<1>2. d \in [1 .. n -> Byte]
  BY <1>1
<1>3. MsgOf(f) \in [1 .. f -> Byte] /\ MsgOf(f + n) \in [1 .. f + n -> Byte]
  BY <1>1 DEF MsgOf
<1>4. /\ d \in Seq(Byte) /\ Len(d) = n
      /\ MsgOf(f) \in Seq(Byte) /\ Len(MsgOf(f)) = f
      /\ MsgOf(f + n) \in Seq(Byte) /\ Len(MsgOf(f + n)) = f + n
  BY <1>2, <1>3, TableIsSeq, SMTT(60)
<1>5. /\ \A i \in 1 .. f : MsgOf(f)[i] = MsgByte(i)
      /\ \A i \in 1 .. n : d[i] = MsgByte(f + i)
      /\ \A i \in 1 .. f + n : MsgOf(f + n)[i] = MsgByte(i)
  BY DEF MsgOf
<1>6. MsgOf(f) \o d = MsgOf(f + n)
  <2> DEFINE x == MsgOf(f)
             y == MsgOf(f + n)
  <2>1. \A i \in 1 .. f : i \in 1 .. f + n
    OBVIOUS
  <2>2. \A i \in 1 .. n : f + i \in 1 .. f + n
    OBVIOUS
  <2>3. /\ x \in Seq(Byte) /\ d \in Seq(Byte) /\ y \in Seq(Byte)
        /\ Len(y) = Len(x) + Len(d)
        /\ \A i \in 1 .. Len(x) : y[i] = x[i]
        /\ \A i \in 1 .. Len(d) : y[Len(x) + i] = d[i]
    BY <1>4, <1>5, <2>1, <2>2
  <2> HIDE DEF x, y
  <2>4. x \o d = y
    BY <2>3, ConcatIs
  <2> QED
    BY <2>4 DEF x, y
<1> QED
  BY <1>4, <1>6
-----------------------------------------------------------------------------
(* Algorithms that are compiled in and of the "md" kind.                   *)
LEMMA MdOfAlgs ==
    ASSUME NEW a \in Algs, IsMd(a)
    PROVE  a \in MdAlg
BY AlgsAssumption DEF MdAlg, IsMd

(* A context to which the bytes m have been fed.                           *)
MdHolds(S, a, c, m) ==
    /\ Byte \subseteq S /\ m \in Seq(S)
    /\ a \in MdAlg /\ c \in MdCtxOver(S, a) /\ Aligned(a, c)
    /\ Held(c) = m /\ c.count = BitCount(a, Len(m))

(* A context fresh from its init holds nothing.                            *)
LEMMA InitFacts ==
    ASSUME NEW S, Byte \subseteq S, NEW a \in MdAlg, NEW c, c = MdInit(a)
    PROVE  MdHolds(S, a, c, <<>>)
<1> DEFINE B == a.block
           buf == [i \in 1 .. B |-> Stale]
<1>1. B \in Nat \ {0}
  BY DEF MdAlg, Alg
<1>2. Stale \in S
  <2>1. Stale \in Byte
    BY DEF Stale, Byte
  <2> QED
    BY <2>1
<1>3. buf \in [1 .. B -> S]
  BY <1>2
<1>4. c = MdRec(<<>>, buf, 0, <<0, 0>>)
  BY DEF MdInit, MdRec
<1> HIDE DEF buf
<1>5. c.state = <<>> /\ c.buffer = buf /\ c.len = 0 /\ c.count = <<0, 0>>
  BY <1>4, RecReads
<1>6. c \in MdCtxOver(S, a)
  <2>1. /\ <<>> \in Seq(S) /\ buf \in [1 .. a.block -> S]
        /\ 0 \in 0 .. a.block - 1 /\ <<0, 0>> \in Nat \X Nat
    BY <1>1, <1>3
  <2>2. MdRec(<<>>, buf, 0, <<0, 0>>) \in MdCtxOver(S, a)
    BY <2>1, RecIsCtx
  <2> QED
    BY <1>4, <2>2
<1>7. Aligned(a, c)
  <2>1. Len(c.state) = 0
    BY <1>5
  <2>2. 0 % B = 0
    BY <1>1
  <2> QED
    BY <2>1, <2>2 DEF Aligned
<1>8. Held(c) = <<>>
  <2>1. buf \in Seq(S)
    BY <1>1, <1>3, TableIsSeq
  <2>2. SubSeq(buf, 1, 0) = <<>>
    BY <2>1
  <2>3. Held(c) = <<>> \o SubSeq(buf, 1, 0)
    BY <1>5 DEF Held
  <2>4. <<>> \o <<>> = <<>>
    OBVIOUS
  <2> QED
    BY <2>2, <2>3, <2>4
<1>9. BitCount(a, 0) = <<0, 0>> /\ <<>> \in Seq(S) /\ Len(<<>>) = 0
  BY WordAssumption DEF BitCount
<1> QED
  BY <1>5, <1>6, <1>7, <1>8, <1>9 DEF MdHolds

-----------------------------------------------------------------------------
(* The end of a message.                                                   *)
Mark == XorMark(Zero, 128)

(* They are bytes.                                                         *)
LEMMA MarkIsByte == Mark \in Byte /\ Zero \in Byte
<1>1. Mark = [src |-> "mark", at |-> <<>> \o <<128>>]
  BY DEF Mark, XorMark, Zero
<1>2. <<>> \o <<128>> \in Seq(Nat)
  OBVIOUS
<1> QED
  BY <1>1, <1>2 DEF Zero, Byte

(* The bytes of a padding are bytes.                                       *)
LEMMA PaddingBytes ==
    ASSUME NEW S, Byte \subseteq S, NEW a \in Alg, NEW count \in Nat \X Nat, NEW n \in Nat
    PROVE  /\ Mark \in S /\ Zero \in S
           /\ <<Mark>> \in Seq(S) /\ Len(<<Mark>>) = 1
           /\ Zeros(n) \in Seq(S) /\ Len(Zeros(n)) = n
           /\ LenField(a, count) \in Seq(S) /\ Len(LenField(a, count)) = a.lenField
<1>1. Zero \in S
  BY MarkIsByte
<1>2. Mark \in S
  BY MarkIsByte
<1>3. Zeros(n) \in [1 .. n -> S]
  BY <1>1 DEF Zeros
<1>4. LenField(a, count) \in [1 .. a.lenField -> S] /\ a.lenField \in Nat
  <2>1. /\ a.lenField \in Nat /\ count[1] \in Nat /\ count[2] \in Nat
    BY DEF Alg
  <2>2. \A i \in 1 .. a.lenField : [src |-> "len", at |-> <<count[1], count[2], i>>] \in Byte
    BY <2>1 DEF Byte
  <2> QED
    BY <2>1, <2>2 DEF LenField
<1>5. Zeros(n) \in Seq(S) /\ Len(Zeros(n)) = n
  BY <1>3, TableIsSeq
<1>6. LenField(a, count) \in Seq(S) /\ Len(LenField(a, count)) = a.lenField
  BY <1>4, TableIsSeq
<1> QED
  BY <1>1, <1>2, <1>5, <1>6

(* Zeros behind zeros.                                                     *)
LEMMA ZerosJoin ==
    ASSUME NEW m \in Nat, NEW n \in Nat
    PROVE  Zeros(m) \o Zeros(n) = Zeros(m + n)
<1> DEFINE x == Zeros(m)
           y == Zeros(n)
           z == Zeros(m + n)
<1>1. Zero \in Byte
  BY DEF Zero, Byte
<1>2. x \in [1 .. m -> Byte] /\ y \in [1 .. n -> Byte] /\ z \in [1 .. m + n -> Byte]
  BY <1>1 DEF Zeros
<1>3. /\ x \in Seq(Byte) /\ Len(x) = m /\ y \in Seq(Byte) /\ Len(y) = n
      /\ z \in Seq(Byte) /\ Len(z) = m + n
  BY <1>2, TableIsSeq
<1>4. /\ \A i \in 1 .. m : x[i] = Zero /\ z[i] = Zero
      /\ \A i \in 1 .. n : y[i] = Zero /\ z[m + i] = Zero
  BY DEF Zeros
<1> HIDE DEF x, y, z
<1>5. /\ Len(z) = Len(x) + Len(y)
      /\ \A i \in 1 .. Len(x) : z[i] = x[i]
      /\ \A i \in 1 .. Len(y) : z[Len(x) + i] = y[i]
  BY <1>3, <1>4
<1>6. x \o y = z
  BY <1>3, <1>5, ConcatIs
<1> QED
  BY <1>6 DEF x, y, z

(* One number below the block size completes a remainder.                  *)
LEMMA OneFill ==
    ASSUME NEW B \in Nat \ {0}, NEW x \in Nat, NEW j \in 0 .. B - 1, NEW k \in 0 .. B - 1,
           (x + j) % B = 0, (x + k) % B = 0
    PROVE  j = k
<1> DEFINE p == (x + j) \div B
           q == (x + k) \div B
<1>1. p \in Nat /\ q \in Nat /\ x + j = p * B /\ x + k = q * B
  <2> DEFINE s == x + j
             t == x + k
  <2>1. s \in Nat /\ t \in Nat /\ s % B = 0 /\ t % B = 0
    OBVIOUS
  <2> HIDE DEF s, t
  <2>2. s \div B \in Nat /\ (s \div B) * B \in Nat /\ s % B = s - (s \div B) * B
    BY <2>1, DivFacts
  <2>3. t \div B \in Nat /\ (t \div B) * B \in Nat /\ t % B = t - (t \div B) * B
    BY <2>1, DivFacts
  <2> QED
    BY <2>1, <2>2, <2>3 DEF s, t
<1> HIDE DEF p, q
<1>2. p = q
  <2>1. ASSUME p < q PROVE FALSE
    <3>1. p + 1 <= q
      BY <1>1, <2>1
    <3>2. (p + 1) * B <= q * B
      BY <1>1, <3>1
    <3>3. (p + 1) * B = p * B + B
      BY <1>1
    <3> QED
      BY <1>1, <3>2, <3>3
  <2>2. ASSUME q < p PROVE FALSE
    <3>1. q + 1 <= p
      BY <1>1, <2>2
    <3>2. (q + 1) * B <= p * B
      BY <1>1, <3>1
    <3>3. (q + 1) * B = q * B + B
      BY <1>1
    <3> QED
      BY <1>1, <3>2, <3>3
  <2> QED
    BY <1>1, <2>1, <2>2
<1> QED
  BY <1>1, <1>2

(* The zeros that the padding of a message needs, however they are found.  *)
LEMMA FillIs ==
    ASSUME NEW a \in MdAlg, NEW n \in Nat, NEW k \in 0 .. a.block - 1,
           (n + 1 + k + a.lenField) % a.block = 0
    PROVE  MdFill(a, n) = k
<1> DEFINE B == a.block
           x == n + 1 + a.lenField
<1>1. B \in Nat \ {0} /\ a.lenField \in Nat /\ x \in Nat
  BY DEF MdAlg, Alg
<1> DEFINE j == MdFill(a, n)
<1>2. j \in 0 .. B - 1 /\ (n + 1 + j + a.lenField) % B = 0
  BY DEF MdFill
<1> HIDE DEF j
<1>3. /\ n + 1 + j + a.lenField = x + j /\ n + 1 + k + a.lenField = x + k
  BY <1>1, <1>2
<1> HIDE DEF x, B
<1>4. (x + j) % B = 0 /\ (x + k) % B = 0 /\ k \in 0 .. B - 1
  BY <1>2, <1>3 DEF B
<1>5. j = k
  BY <1>1, <1>2, <1>4, OneFill
<1> QED
  BY <1>5 DEF j

(* The blocks of the final call: with the length field, up to the mark     *)
(* alone, and with nothing but the length field.                           *)
ClosedBlock(B, buf, len, field) ==
    CopyInto(ZeroFill(CopyInto(buf, len, <<Mark>>), len + 1, B - Len(field)),
             B - Len(field), field)
MarkedBlock(B, buf, len) == ZeroFill(CopyInto(buf, len, <<Mark>>), len + 1, B)
FieldBlock(B, x, field) == CopyInto(ZeroFill(x, 0, B - Len(field)), B - Len(field), field)

(* A buffer that the mark and the length field fit in; what it is closed   *)
(* to, with the field and up to the mark alone.                            *)
Closable(S, B, buf, len, field) ==
    /\ Byte \subseteq S /\ B \in Nat \ {0} /\ buf \in [1 .. B -> S]
    /\ len \in Nat /\ field \in Seq(S) /\ len + 1 + Len(field) <= B

ClosedAs(S, B, buf, len, field) ==
    /\ ClosedBlock(B, buf, len, field) \in [1 .. B -> S]
    /\ ClosedBlock(B, buf, len, field)
         = ((SubSeq(buf, 1, len) \o <<Mark>>) \o Zeros(B - Len(field) - len - 1)) \o field

MarkedAs(S, B, buf, len) ==
    /\ MarkedBlock(B, buf, len) \in [1 .. B -> S]
    /\ MarkedBlock(B, buf, len) = (SubSeq(buf, 1, len) \o <<Mark>>) \o Zeros(B - len - 1)

(* A buffer closed by the length field: what was in it, the mark, zeros    *)
(* and the field.                                                          *)
LEMMA ClosedBlockIs ==
    ASSUME NEW S, NEW B, NEW buf, NEW len, NEW field, Closable(S, B, buf, len, field)
    PROVE  ClosedAs(S, B, buf, len, field)
<1>h. /\ Byte \subseteq S /\ B \in Nat \ {0} /\ buf \in [1 .. B -> S]
      /\ len \in Nat /\ field \in Seq(S) /\ len + 1 + Len(field) <= B
  BY DEF Closable
<1> USE <1>h
<1> DEFINE m == Mark
           w == ClosedBlock(B, buf, len, field)
           f == Len(field)
           e == B - f
           k == e - len - 1
           s == SubSeq(buf, 1, len)
           z == Zeros(k)
<1>1. f \in Nat /\ e \in Nat /\ k \in Nat /\ len + 1 + k = e /\ e + f = B
  OBVIOUS
<1>2. /\ w \in [1 .. B -> S]
      /\ \A i \in 1 .. len : w[i] = buf[i]
      /\ w[len + 1] = m
      /\ \A i \in 1 .. k : w[len + 1 + i] = Zero
      /\ \A i \in 1 .. f : w[e + i] = field[i]
  <2>1. Zero \in S /\ m \in S
    BY MarkIsByte
  <2>2. w = [i \in 1 .. B |->
               IF i > e /\ i <= e + f THEN field[i - e]
               ELSE IF i > len + 1 /\ i <= e THEN Zero
               ELSE IF i > len /\ i <= len + 1 THEN <<m>>[i - len] ELSE buf[i]]
    BY DEF ClosedBlock, CopyInto, ZeroFill
  <2>3. \A i \in 1 .. f : field[i] \in S
    OBVIOUS
  <2>4. \A i \in 1 .. B : i > len /\ i <= len + 1 => i - len = 1
    OBVIOUS
  <2>5. <<m>>[1] = m
    OBVIOUS
  <2> HIDE DEF e, f, k, m, w
  <2>6. \A i \in 1 .. B : i > e /\ i <= e + f => i - e \in 1 .. f
    BY <1>1
  <2>7. w \in [1 .. B -> S]
    BY <2>1, <2>2, <2>3, <2>4, <2>5, <2>6
  <2>8. \A i \in 1 .. len : w[i] = buf[i]
    <3>1. SUFFICES ASSUME NEW i \in 1 .. len PROVE w[i] = buf[i]
      OBVIOUS
    <3>2. i \in 1 .. B /\ ~ (i > e) /\ ~ (i > len + 1) /\ ~ (i > len)
      BY <1>1
    <3> QED
      BY <2>2, <3>2
  <2>9. w[len + 1] = m
    BY <1>1, <2>2
  <2>10. \A i \in 1 .. k : w[len + 1 + i] = Zero
    BY <1>1, <2>2
  <2>11. \A i \in 1 .. f : w[e + i] = field[i]
    <3>1. SUFFICES ASSUME NEW i \in 1 .. f PROVE w[e + i] = field[i]
      OBVIOUS
    <3>2. /\ e + i \in 1 .. B /\ e + i > e /\ e + i <= e + f /\ (e + i) - e = i
      BY <1>1
    <3> QED
      BY <2>2, <3>2
  <2> QED
    BY <2>7, <2>8, <2>9, <2>10, <2>11
<1> HIDE DEF w, m
<1>3. w \in Seq(S) /\ Len(w) = B /\ buf \in Seq(S) /\ Len(buf) = B
  BY <1>2, TableIsSeq
<1>4. s \in Seq(S) /\ Len(s) = len /\ \A i \in 1 .. len : s[i] = buf[i]
  BY <1>3
<1>5. z \in Seq(S) /\ Len(z) = k /\ \A i \in 1 .. k : z[i] = Zero
  <2>1. Zero \in S
    BY MarkIsByte
  <2>2. z \in [1 .. k -> S]
    BY <2>1 DEF Zeros
  <2>3. k \in Nat
    BY <1>1
  <2> HIDE DEF k, z
  <2>4. z \in Seq(S) /\ Len(z) = k
    BY <2>2, <2>3, TableIsSeq
  <2> QED
    BY <2>4 DEF Zeros, z
<1>6. <<m>> \in Seq(S) /\ Len(<<m>>) = 1 /\ <<m>>[1] = m
  BY MarkIsByte DEF m
<1> HIDE DEF s, z, k, e, f
<1> DEFINE sm == s \o <<m>>
           smz == sm \o z
<1>7. /\ sm \in Seq(S) /\ Len(sm) = len + 1
      /\ \A i \in 1 .. len : sm[i] = s[i]
      /\ sm[len + 1] = m
  BY <1>4, <1>6
<1> HIDE DEF sm
<1>8. /\ smz \in Seq(S) /\ Len(smz) = e
      /\ \A i \in 1 .. len + 1 : smz[i] = sm[i]
      /\ \A i \in 1 .. k : smz[len + 1 + i] = z[i]
  <2>1. smz \in Seq(S) /\ Len(smz) = Len(sm) + Len(z)
    BY <1>5, <1>7, ConcatFacts
  <2>2. /\ \A i \in 1 .. Len(sm) : smz[i] = sm[i]
        /\ \A i \in 1 .. Len(z) : smz[Len(sm) + i] = z[i]
    BY <1>5, <1>7, Data!ConcatAt
  <2> QED
    BY <1>1, <1>5, <1>7, <2>1, <2>2
<1> HIDE DEF smz
<1>9. \A i \in 1 .. e : w[i] = smz[i]
  <2>1. SUFFICES ASSUME NEW i \in 1 .. e PROVE w[i] = smz[i]
    OBVIOUS
  <2>2. CASE i <= len
    <3>1. i \in 1 .. len /\ i \in 1 .. len + 1
      BY <2>2
    <3>2. w[i] = buf[i] /\ s[i] = buf[i] /\ sm[i] = s[i] /\ smz[i] = sm[i]
      BY <1>2, <1>4, <1>7, <1>8, <3>1
    <3> QED
      BY <3>2
  <2>3. CASE i = len + 1
    BY <1>1, <1>2, <1>7, <1>8, <2>3
  <2>4. CASE i > len + 1
    <3> DEFINE j == i - (len + 1)
    <3>1. j \in 1 .. k /\ i = len + 1 + j
      BY <1>1, <2>4
    <3> HIDE DEF j
    <3> QED
      BY <1>2, <1>5, <1>8, <3>1
  <2> QED
    BY <1>1, <2>2, <2>3, <2>4
<1>10. smz \o field = w
  <2>1. /\ Len(w) = Len(smz) + Len(field)
        /\ \A i \in 1 .. Len(smz) : w[i] = smz[i]
        /\ \A i \in 1 .. Len(field) : w[Len(smz) + i] = field[i]
    BY <1>1, <1>2, <1>3, <1>8, <1>9 DEF f
  <2>2. w \in Seq(S) /\ smz \in Seq(S) /\ field \in Seq(S)
    BY <1>3, <1>8
  <2> QED
    BY ONLY <2>1, <2>2, ConcatIs
<1> QED
  BY <1>2, <1>3, <1>10 DEF ClosedAs, smz, sm, s, z, k, e, f, m, w

(* A block that the mark only just reaches is filled with zeros.           *)
LEMMA MarkedBlockIs ==
    ASSUME NEW S, NEW B, NEW buf, NEW len, Closable(S, B, buf, len, <<>>)
    PROVE  MarkedAs(S, B, buf, len)
<1>h. /\ Byte \subseteq S /\ B \in Nat \ {0} /\ buf \in [1 .. B -> S] /\ len \in 0 .. B - 1
  BY DEF Closable
<1> USE <1>h
<1> DEFINE w  == MarkedBlock(B, buf, len)
           zs == Zeros(B - len - 1)
           sm == SubSeq(buf, 1, len) \o <<Mark>>
<1>1. DOMAIN w = 1 .. B /\ w = [i \in 1 .. B |-> w[i]]
  BY DEF MarkedBlock, ZeroFill, CopyInto
<1>2. CopyInto(w, B, <<>>) = w
  <2> HIDE DEF w
  <2>1. \A i \in 1 .. B : ~ (i > B)
    OBVIOUS
  <2>2. CopyInto(w, B, <<>>) = [i \in 1 .. B |-> w[i]]
    BY <1>1, <2>1 DEF CopyInto
  <2> QED
    BY <1>1, <2>2
<1>3. <<>> \in Seq(S) /\ Len(<<>>) = 0 /\ len \in Nat /\ len + 1 + 0 <= B /\ B - 0 = B
  OBVIOUS
<1>4. ClosedBlock(B, buf, len, <<>>) = w
  <2>1. B - Len(<<>>) = B
    BY <1>3
  <2>2. ClosedBlock(B, buf, len, <<>>) = CopyInto(w, B, <<>>)
    BY <2>1 DEF ClosedBlock, MarkedBlock
  <2> QED
    BY <1>2, <2>2
<1>5. w \in [1 .. B -> S] /\ w = (sm \o Zeros(B - 0 - len - 1)) \o <<>>
  <2> HIDE DEF w, sm
  <2>1. ClosedAs(S, B, buf, len, <<>>)
    BY ClosedBlockIs
  <2> QED
    BY <1>3, <1>4, <2>1 DEF ClosedAs, sm
<1>6. B - 0 - len - 1 = B - len - 1 /\ B - len - 1 \in Nat
  OBVIOUS
<1>7. (sm \o zs) \o <<>> = sm \o zs
  <2>1. sm \in Seq(S)
    <3>1. buf \in Seq(S) /\ Len(buf) = B
      BY TableIsSeq
    <3>2. SubSeq(buf, 1, len) \in Seq(S) /\ <<Mark>> \in Seq(S)
      BY <3>1, MarkIsByte
    <3> QED
      BY <3>2, ConcatFacts
  <2>2. zs \in Seq(S)
    <3>1. zs \in [1 .. B - len - 1 -> S]
      BY MarkIsByte DEF Zeros
    <3> QED
      BY <1>6, <3>1, TableIsSeq
  <2> HIDE DEF sm, zs
  <2>3. sm \o zs \in Seq(S)
    BY <2>1, <2>2, ConcatFacts
  <2> QED
    BY <2>3, ConcatFacts
<1> QED
  BY <1>5, <1>6, <1>7 DEF MarkedAs

(* The block that has nothing but zeros and the length field.              *)
LEMMA FieldBlockIs ==
    ASSUME NEW S, Byte \subseteq S, NEW B \in Nat \ {0}, NEW x, DOMAIN x = 1 .. B,
           NEW field \in Seq(S), Len(field) <= B
    PROVE  /\ FieldBlock(B, x, field) \in [1 .. B -> S]
           /\ FieldBlock(B, x, field) = Zeros(B - Len(field)) \o field
<1> DEFINE w == FieldBlock(B, x, field)
           f == Len(field)
           e == B - f
           z == Zeros(e)
<1>1. f \in Nat /\ e \in Nat /\ e + f = B
  OBVIOUS
<1>2. w = [i \in 1 .. B |->
             IF i > e /\ i <= e + f THEN field[i - e]
             ELSE IF i > 0 /\ i <= e THEN Zero ELSE x[i]]
  BY DEF FieldBlock, CopyInto, ZeroFill
<1>3. Zero \in S
  BY MarkIsByte
<1>4. z \in [1 .. e -> S] /\ \A i \in 1 .. e : z[i] = Zero
  BY <1>3 DEF Zeros
<1>5. \A i \in 1 .. f : field[i] \in S
  OBVIOUS
<1> HIDE DEF e, f, z, w
<1>6. /\ \A i \in 1 .. e : i \in 1 .. B /\ ~ (i > e) /\ i > 0
      /\ \A i \in 1 .. f : e + i \in 1 .. B /\ e + i > e /\ e + i <= e + f /\ (e + i) - e = i
      /\ \A i \in 1 .. B : i <= e \/ (i > e /\ i <= e + f /\ i - e \in 1 .. f)
  BY <1>1
<1>7. \A i \in 1 .. e : w[i] = Zero
  BY <1>2, <1>6
<1>8. \A i \in 1 .. f : w[e + i] = field[i]
  BY <1>2, <1>6
<1>9. w \in [1 .. B -> S]
  BY <1>2, <1>3, <1>5, <1>6
<1>10. w \in Seq(S) /\ Len(w) = B /\ z \in Seq(S) /\ Len(z) = e
  BY <1>1, <1>4, <1>9, TableIsSeq
<1>11. z \o field = w
  <2>1. /\ Len(w) = Len(z) + Len(field)
        /\ \A i \in 1 .. Len(z) : w[i] = z[i]
        /\ \A i \in 1 .. Len(field) : w[Len(z) + i] = field[i]
    BY <1>1, <1>4, <1>7, <1>8, <1>10 DEF f
  <2> QED
    BY ONLY <1>10, <2>1, field \in Seq(S), ConcatIs
<1> QED
  BY <1>9, <1>11 DEF w, z, e, f

(* The two spellings of "the length field does not fit" say the same.      *)
LEMMA SpillsIs ==
    ASSUME NEW a \in MdAlg, NEW len \in 0 .. a.block - 1
    PROVE  Spills(a, len) <=> len + 1 + a.lenField > a.block
<1>1. a.block \in Nat /\ a.lenField \in Nat /\ len \in Nat
  BY DEF MdAlg, Alg
<1> QED
  BY <1>1 DEF Spills

(* The parts of a padded message: in a row, and behind the compressed ones *)
(* (s) as one last block and as two.                                       *)
InRow(s, h, m, z, f)        == (((s \o h) \o m) \o z) \o f
OneBlock(s, h, m, z, f)     == s \o (((h \o m) \o z) \o f)
TwoBlocks(s, h, m, z, y, f) == (s \o ((h \o m) \o z)) \o (y \o f)

(* The last block holds what the row ends in.                              *)
LEMMA RegroupOne ==
    ASSUME NEW S, NEW s, NEW h, NEW m, NEW z, NEW f,
           s \in Seq(S), h \in Seq(S), m \in Seq(S), z \in Seq(S),
           f \in Seq(S)
    PROVE  OneBlock(s, h, m, z, f) = InRow(s, h, m, z, f)
<1> DEFINE hm == h \o m
           hmz == hm \o z
           sh == s \o h
           shm == sh \o m
           shmz == shm \o z
<1>1. hm \in Seq(S) /\ sh \in Seq(S)
  BY ConcatFacts
<1>2. sh \o m = s \o hm
  BY ONLY s \in Seq(S), h \in Seq(S), m \in Seq(S), ConcatAssoc, SMTT(60)
<1> HIDE DEF hm, sh
<1>3. hmz \in Seq(S) /\ shm \in Seq(S)
  BY <1>1, ConcatFacts
<1>4. (s \o hm) \o z = s \o hmz
  BY ONLY <1>1, s \in Seq(S), z \in Seq(S), ConcatAssoc, SMTT(60)
<1>5. shmz = s \o hmz
  BY <1>2, <1>4
<1> HIDE DEF hmz
<1>6. (s \o hmz) \o f = s \o (hmz \o f)
  BY ONLY <1>3, s \in Seq(S), f \in Seq(S), ConcatAssoc, SMTT(60)
<1> QED
  BY ONLY <1>5, <1>6 DEF hmz, hm, shm, sh, shmz, OneBlock, InRow

(* The same for two blocks.                                                *)
LEMMA RegroupTwo ==
    ASSUME NEW S, NEW s, NEW h, NEW m, NEW z, NEW y, NEW f,
           s \in Seq(S), h \in Seq(S), m \in Seq(S), z \in Seq(S),
           y \in Seq(S), f \in Seq(S)
    PROVE  TwoBlocks(s, h, m, z, y, f) = InRow(s, h, m, z \o y, f)
<1> DEFINE zy  == z \o y
           hm  == h \o m
           x   == s \o (hm \o z)
           shm == (s \o h) \o m
<1>1. hm \in Seq(S) /\ zy \in Seq(S)
  BY ConcatFacts
<1>2. shm = s \o hm
  BY ONLY s \in Seq(S), h \in Seq(S), m \in Seq(S), ConcatAssoc, SMTT(60)
<1> HIDE DEF hm
<1>3. x = (s \o hm) \o z
  BY ONLY <1>1, s \in Seq(S), z \in Seq(S), ConcatAssoc, SMTT(60)
<1>4. shm \in Seq(S)
  BY <1>1, <1>2, ConcatFacts
<1> HIDE DEF shm
<1>5. x = shm \o z
  BY <1>2, <1>3
<1>6. x \in Seq(S)
  BY <1>4, <1>5, ConcatFacts
<1>7. x \o y = shm \o zy
  BY ONLY <1>4, <1>5, z \in Seq(S), y \in Seq(S), ConcatAssoc, SMTT(60)
<1> HIDE DEF x, zy
<1>8. (x \o y) \o f = x \o (y \o f)
  BY ONLY <1>6, y \in Seq(S), f \in Seq(S), ConcatAssoc
<1> QED
  BY ONLY <1>7, <1>8 DEF x, zy, hm, shm, TwoBlocks, InRow

(* Feeding d appends it, if the bit count has the range.                   *)
LEMMA MdHoldsUpdate ==
    ASSUME NEW S, NEW a, NEW c, NEW m, MdHolds(S, a, c, m), NEW d \in Seq(S), IsMd(a),
           CallFits(a, Len(m) + Len(d), Len(d)), NEW u, u = MdUpdate(a, c, d)
    PROVE  MdHolds(S, a, u, m \o d)
<1> DEFINE f == Len(m)
           n == Len(d)
           k == BitCount(a, f + n)
<1>1. /\ Byte \subseteq S /\ a \in MdAlg /\ c \in MdCtxOver(S, a) /\ Aligned(a, c)
      /\ m \in Seq(S) /\ Held(c) = m /\ c.count = BitCount(a, f)
  BY DEF MdHolds
<1>2. m \o d \in Seq(S) /\ Len(m \o d) = f + n /\ f \in Nat /\ n \in Nat
  BY <1>1, ConcatFacts
<1>3. CallFits(a, f + n, n)
  OBVIOUS
<1> HIDE DEF f
<1>4. k = CountAfter(a, c.count, n) /\ k \in Nat \X Nat
  BY <1>1, <1>2, <1>3, CountFacts
<1>5. Feedable(S, a, c, d)
  BY <1>1 DEF Feedable
<1> HIDE DEF k
<1>6. Appended(S, a, c, d, u) /\ u.count = k
  BY <1>4, <1>5, UpdateFacts
<1> QED
  BY <1>1, <1>2, <1>6 DEF Appended, MdHolds, k

(* The final call compresses the padded message.                           *)
LEMMA FinalFacts ==
    ASSUME NEW S, NEW a, NEW c, NEW m, MdHolds(S, a, c, m), NEW u, u = MdFinal(a, c)
    PROVE  u \in MdCtxOver(S, a) /\ u.state = MdPadded(a, m)
<1>h. /\ Byte \subseteq S /\ a \in MdAlg /\ c \in MdCtxOver(S, a) /\ Aligned(a, c)
      /\ m \in Seq(S) /\ Held(c) = m /\ c.count = BitCount(a, Len(m))
  BY DEF MdHolds
<1> USE <1>h
<1> DEFINE B      == a.block
           f      == a.lenField
           len    == c.len
           st     == c.state
           mk     == <<Mark>>
           buf    == c.buffer
           ct     == c.count
           field  == LenField(a, ct)
           held   == SubSeq(buf, 1, len)
           marked == CopyInto(buf, len, <<Mark>>)
           front  == MarkedBlock(B, buf, len)
           spill  == Spills(a, len)
           first  == IF spill THEN Transform(c, front) ELSE c
           i      == IF spill THEN 0 ELSE len + 1
           last   == CopyInto(ZeroFill(marked, i, B - f), B - f, field)
           k      == IF spill THEN B - len - 1 + (B - f) ELSE B - f - len - 1
<1>1. /\ a \in Alg /\ B \in Nat \ {0} /\ f \in Nat /\ f < B /\ len \in 0 .. B - 1
      /\ st \in Seq(S) /\ Len(st) \in Nat /\ Len(st) % B = 0
      /\ buf \in [1 .. B -> S] /\ ct \in Nat \X Nat
      /\ buf \in Seq(S) /\ Len(buf) = B
      /\ c = MdRec(st, buf, len, ct)
  BY CtxFields, SMTT(60) DEF MdAlg, Alg, Aligned
<1>0. ct = BitCount(a, Len(m))
  OBVIOUS
<1>2. /\ Mark \in S /\ mk \in Seq(S) /\ Len(mk) = 1
      /\ field \in Seq(S) /\ Len(field) = f
  <2>1. 0 \in Nat
    OBVIOUS
  <2> QED
    BY <1>1, <2>1, PaddingBytes, MarkIsByte
<1>3. held \in Seq(S) /\ Len(held) = len /\ m = st \o held
  <2>1. len \in 0 .. Len(buf)
    BY <1>1
  <2>2. m = st \o held
    BY DEF Held
  <2> QED
    BY <1>1, <2>1, <2>2, CutFacts
<1>4. spill <=> len + 1 + f > B
  BY <1>1, SpillsIs
<1>5. u = [Transform(first, last) EXCEPT !.buffer = last]
  BY DEF MdFinal, Mark, MarkedBlock
<1> HIDE DEF B, f, len, st, mk, buf, ct, field, held, marked, front, spill, first, i, last
<1>6. k \in 0 .. B - 1
  BY <1>1, <1>4
<1>7. MdFill(a, Len(m)) = k
  <2> DEFINE t == IF spill THEN 2 ELSE 1
  <2>1. Len(m) = Len(st) + len
    BY <1>1, <1>3, ConcatFacts, ZenonT(60)
  <2>2. Len(m) + 1 + k + f = Len(st) + t * B
    <3>1. CASE spill
      <4>1. k = B - len - 1 + (B - f) /\ t * B = B + B
        BY <1>1, <3>1
      <4> HIDE DEF k, t
      <4> QED
        BY <1>1, <2>1, <4>1
    <3>2. CASE ~ spill
      <4>1. k = B - f - len - 1 /\ t * B = B
        BY <1>1, <3>2
      <4> HIDE DEF k, t
      <4> QED
        BY <1>1, <2>1, <4>1
    <3> QED
      BY <3>1, <3>2
  <2>3. (Len(st) + t * B) % B = 0
    <3>1. t \in Nat /\ t * B \in Nat
      BY <1>1
    <3>2. (t * B) % B = 0
      <4>1. 0 \in 0 .. B - 1
        BY <1>1
      <4>2. (t * B + 0) % B = 0
        <5> HIDE DEF t
        <5> QED
          BY <1>1, <3>1, <4>1, DivUnique, ZenonT(60)
      <4>3. t * B + 0 = t * B
        BY <3>1
      <4> QED
        BY <4>2, <4>3
    <3> HIDE DEF t
    <3> DEFINE y == t * B
    <3>3. y \in Nat /\ y % B = 0
      BY <3>1, <3>2
    <3> HIDE DEF y
    <3>4. (Len(st) + y) % B = y % B
      BY <1>1, <3>3, ModAdd, ZenonT(60)
    <3> QED
      BY <3>3, <3>4 DEF y
  <2> HIDE DEF k, t
  <2>4. Len(m) \in Nat
    BY <1>1, <2>1
  <2>5. (Len(m) + 1 + k + a.lenField) % a.block = 0 /\ k \in 0 .. a.block - 1
    BY <1>6, <2>2, <2>3 DEF B, f
  <2> QED
    BY <2>4, <2>5, FillIs
<1>8. /\ last \in [1 .. B -> S] /\ last \in Seq(S)
      /\ ~ spill => last = ((held \o mk) \o Zeros(k)) \o field
      /\ spill => last = Zeros(B - f) \o field
  <2>1. CASE ~ spill
    <3>1. last = ClosedBlock(B, buf, len, field)
      BY <1>2, <2>1 DEF last, i, marked, ClosedBlock
    <3>2. Closable(S, B, buf, len, field)
      BY <1>1, <1>2, <1>4, <2>1 DEF Closable
    <3>3. /\ ClosedBlock(B, buf, len, field) \in [1 .. B -> S]
          /\ ClosedBlock(B, buf, len, field)
                = ((SubSeq(buf, 1, len) \o mk) \o Zeros(B - Len(field) - len - 1))
                      \o field
      <4>1. ClosedAs(S, B, buf, len, field)
        BY ONLY <3>2, ClosedBlockIs
      <4> QED
        BY ONLY <4>1 DEF ClosedAs, mk
    <3>4. k = B - Len(field) - len - 1
      BY <1>2, <2>1
    <3> QED
      BY <1>1, <2>1, <3>1, <3>3, <3>4, TableIsSeq DEF held
  <2>2. CASE spill
    <3>1. last = FieldBlock(B, marked, field)
      BY <1>2, <2>2 DEF last, i, FieldBlock
    <3>2. /\ B \in Nat \ {0} /\ field \in Seq(S)
          /\ DOMAIN marked = 1 .. B /\ Len(field) <= B /\ Byte \subseteq S
      BY <1>1, <1>2 DEF marked, CopyInto
    <3>3. /\ FieldBlock(B, marked, field) \in [1 .. B -> S]
          /\ FieldBlock(B, marked, field) = Zeros(B - Len(field)) \o field
      BY ONLY <3>2, FieldBlockIs
    <3> QED
      BY <1>1, <1>2, <2>2, <3>1, <3>3, TableIsSeq
  <2> QED
    BY <2>1, <2>2
<1> DEFINE st1 == IF spill THEN st \o front ELSE st
           st2 == st1 \o last
<1>9. spill => /\ front \in Seq(S)
               /\ front = (held \o mk) \o Zeros(B - len - 1)
  <2>1. /\ MarkedBlock(B, buf, len) \in [1 .. B -> S]
        /\ MarkedBlock(B, buf, len)
             = (SubSeq(buf, 1, len) \o mk) \o Zeros(B - len - 1)
    <3>1. Closable(S, B, buf, len, <<>>)
      BY <1>1 DEF Closable
    <3>2. MarkedAs(S, B, buf, len)
      BY ONLY <3>1, MarkedBlockIs
    <3> QED
      BY ONLY <3>2 DEF MarkedAs, mk
  <2> QED
    BY <1>1, <2>1, TableIsSeq DEF held, front
<1>10. u = MdRec(st2, last, len, ct)
  <2>1. first = MdRec(st1, buf, len, ct)
    <3>1. Transform(MdRec(st, buf, len, ct), front)
              = MdRec(st \o front, buf, len, ct)
      BY RecTransform
    <3> QED
      BY <1>1, <3>1 DEF first
  <2> HIDE DEF st1
  <2>2. Transform(first, last) = MdRec(st2, buf, len, ct)
    BY <2>1, RecTransform
  <2> DEFINE tf == Transform(first, last)
  <2> HIDE DEF st2, tf
  <2>3. [tf EXCEPT !.buffer = last] = MdRec(st2, last, len, ct)
    <3>1. tf = MdRec(st2, buf, len, ct)
      BY <2>2 DEF tf
    <3>2. [MdRec(st2, buf, len, ct) EXCEPT !.buffer = last] = MdRec(st2, last, len, ct)
      BY ONLY TRUE DEF MdRec
    <3> QED
      BY ONLY <3>1, <3>2
  <2> QED
    BY <1>5, <2>3 DEF tf
<1>11. st2 \in Seq(S)
  <2>1. st1 \in Seq(S)
    BY <1>1, <1>9, ConcatFacts
  <2> HIDE DEF st1
  <2> QED
    BY <1>8, <2>1, ConcatFacts
<1>12. st2 = ((m \o mk) \o Zeros(k)) \o field
  <2>1. Zeros(k) \in Seq(S)
    <3> HIDE DEF k
    <3>1. k \in Nat
      BY <1>1, <1>6
    <3> QED
      BY <1>1, <3>1, PaddingBytes
  <2>2. CASE ~ spill
    <3>1. st2 = st \o (((held \o mk) \o Zeros(k)) \o field)
      BY <1>8, <2>2
    <3> HIDE DEF k, st1, st2
    <3>2. st \o (((held \o mk) \o Zeros(k)) \o field)
              = (((st \o held) \o mk) \o Zeros(k)) \o field
      <4>1. /\ st \in Seq(S) /\ held \in Seq(S) /\ mk \in Seq(S)
            /\ Zeros(k) \in Seq(S) /\ field \in Seq(S)
        BY <1>1, <1>2, <1>3, <2>1
      <4>2. OneBlock(st, held, mk, Zeros(k), field) = InRow(st, held, mk, Zeros(k), field)
        BY ONLY <4>1, RegroupOne
      <4> QED
        BY ONLY <4>2 DEF OneBlock, InRow
    <3> QED
      BY <1>3, <3>1, <3>2
  <2>3. CASE spill
    <3> DEFINE x == B - len - 1
               y == B - f
    <3>1. x \in Nat /\ y \in Nat /\ k = x + y
      BY <1>1, <2>3
    <3>2. st2 = (st \o ((held \o mk) \o Zeros(x))) \o (Zeros(y) \o field)
      BY <1>8, <1>9, <2>3
    <3> HIDE DEF x, y, k, st1, st2
    <3>3. Zeros(x) \in Seq(S) /\ Zeros(y) \in Seq(S) /\ Zeros(x) \o Zeros(y) = Zeros(k)
      BY <1>1, <3>1, PaddingBytes, ZerosJoin
    <3>4. (st \o ((held \o mk) \o Zeros(x))) \o (Zeros(y) \o field)
              = (((st \o held) \o mk) \o (Zeros(x) \o Zeros(y))) \o field
      <4>1. /\ st \in Seq(S) /\ held \in Seq(S) /\ mk \in Seq(S)
            /\ Zeros(x) \in Seq(S) /\ Zeros(y) \in Seq(S) /\ field \in Seq(S)
        BY <1>1, <1>2, <1>3, <3>3
      <4>2. TwoBlocks(st, held, mk, Zeros(x), Zeros(y), field)
                = InRow(st, held, mk, Zeros(x) \o Zeros(y), field)
        BY ONLY <4>1, RegroupTwo
      <4> QED
        BY ONLY <4>2 DEF TwoBlocks, InRow
    <3> QED
      BY <1>3, <3>2, <3>3, <3>4
  <2> QED
    BY <2>2, <2>3
<1>13. u.state = st2
  <2> HIDE DEF st2
  <2> QED
    BY <1>10, RecReads
<1>14. u \in MdCtxOver(S, a)
  <2> HIDE DEF st2, st1, k
  <2>1. st2 \in Seq(S) /\ last \in [1 .. a.block -> S] /\ len \in 0 .. a.block - 1
    BY <1>1, <1>8, <1>11 DEF B
  <2>2. MdRec(st2, last, len, ct) \in MdCtxOver(S, a)
    BY <1>1, <2>1, RecIsCtx
  <2> QED
    BY <1>10, <2>2
<1>15. MdPadded(a, m) = ((m \o mk) \o Zeros(k)) \o field
  <2> HIDE DEF k, st1, st2
  <2> QED
    BY <1>0, <1>7 DEF MdPadded, Mark, mk, field
<1> QED
  BY <1>12, <1>13, <1>14, <1>15

-----------------------------------------------------------------------------
(* The sponges (SHA-3, SHAKE).                                             *)
SpongeAlg == {a \in Alg : a.kind # "md" /\ a.hashLen <= a.block}

(* A context by its fields.                                                *)
SpRec(in, perms, buf, n) ==
    [state |-> [in |-> in, perms |-> perms], buffer |-> buf, buf_len |-> n]

(* What it has absorbed, then what it has buffered.                        *)
Absorbed(c) == c.state.in \o SubSeq(c.buffer, 1, c.buf_len)

(* A context between two calls while it absorbs.                           *)
Absorbing(a, c) ==
    c \in SpongeCtx(a) /\ c.buf_len < a.block /\ Len(c.state.in) % a.block = 0

(* What a read of a field gives.                                           *)
LEMMA SpReads ==
    ASSUME NEW in, NEW perms, NEW buf, NEW n
    PROVE  /\ SpRec(in, perms, buf, n).state.in = in
           /\ SpRec(in, perms, buf, n).state.perms = perms
           /\ SpRec(in, perms, buf, n).buffer = buf
           /\ SpRec(in, perms, buf, n).buf_len = n
BY DEF SpRec

(* A record of such fields is a context.                                   *)
LEMMA SpIsCtx ==
    ASSUME NEW a, NEW in, NEW perms, NEW buf, NEW n,
           in \in Seq(Byte), perms \in Nat, buf \in [1 .. a.block -> Byte],
           n \in 0 .. a.block
    PROVE  SpRec(in, perms, buf, n) \in SpongeCtx(a)
BY DEF SpongeCtx, SpRec

(* A context's fields have their types.                                    *)
LEMMA SpFields ==
    ASSUME NEW a \in SpongeAlg, NEW c \in SpongeCtx(a)
    PROVE  /\ a \in Alg /\ a.block \in Nat \ {0} /\ c.buf_len \in 0 .. a.block
           /\ c.state.in \in Seq(Byte) /\ Len(c.state.in) \in Nat /\ c.state.perms \in Nat
           /\ c.buffer \in [1 .. a.block -> Byte]
           /\ c.buffer \in Seq(Byte) /\ Len(c.buffer) = a.block
           /\ SubSeq(c.buffer, 1, c.buf_len) \in Seq(Byte)
           /\ Len(SubSeq(c.buffer, 1, c.buf_len)) = c.buf_len
           /\ c = SpRec(c.state.in, c.state.perms, c.buffer, c.buf_len)
<1>1. /\ a \in Alg /\ a.block \in Nat \ {0}
  BY DEF SpongeAlg, Alg
<1>2. /\ c.buf_len \in 0 .. a.block /\ c.buffer \in [1 .. a.block -> Byte]
      /\ c.state \in [in : Seq(Byte), perms : Nat]
      /\ c = [state |-> c.state, buffer |-> c.buffer, buf_len |-> c.buf_len]
  BY DEF SpongeCtx
<1>3. /\ c.state.in \in Seq(Byte) /\ c.state.perms \in Nat
      /\ c.state = [in |-> c.state.in, perms |-> c.state.perms]
  BY <1>2
<1>4. Len(c.state.in) \in Nat
  BY <1>3
<1>5. c.buffer \in Seq(Byte) /\ Len(c.buffer) = a.block
  BY <1>1, <1>2, TableIsSeq
<1>6. /\ SubSeq(c.buffer, 1, c.buf_len) \in Seq(Byte)
      /\ Len(SubSeq(c.buffer, 1, c.buf_len)) = c.buf_len
  BY <1>2, <1>5, CutFacts
<1>7. c = SpRec(c.state.in, c.state.perms, c.buffer, c.buf_len)
  BY <1>2, <1>3 DEF SpRec
<1> QED
  BY <1>1, <1>2, <1>3, <1>4, <1>5, <1>6, <1>7

(* What an iteration assigns.                                              *)
Taken(c, x, y, z) == [c EXCEPT !.buffer = x, !.state.in = y, !.buf_len = z]

(* The permutation count stays as it is.                                   *)
LEMMA SpWrites ==
    ASSUME NEW in, NEW perms, NEW buf, NEW n, NEW x, NEW y, NEW z
    PROVE  Taken(SpRec(in, perms, buf, n), x, y, z) = SpRec(y, perms, x, z)
<1> DEFINE st == [in |-> in, perms |-> perms]
           e  == [[state |-> st, buffer |-> buf, buf_len |-> n]
                     EXCEPT !.buffer = x, !.state.in = y, !.buf_len = z]
           s  == [st EXCEPT !.in = y]
<1>1. s = [in |-> y, perms |-> perms]
  OBVIOUS
<1>2. /\ DOMAIN e = {"state", "buffer", "buf_len"} /\ e = [i \in DOMAIN e |-> e[i]]
      /\ e.state = s /\ e.buffer = x /\ e.buf_len = z
  OBVIOUS
<1> HIDE DEF e, s
<1>3. e = [state |-> s, buffer |-> x, buf_len |-> z]
  BY <1>2
<1>4. e = [state |-> [in |-> y, perms |-> perms], buffer |-> x, buf_len |-> z]
  BY <1>1, <1>3
<1> QED
  BY <1>4 DEF e, SpRec, Taken

(* An iteration of keccak_absorb takes a byte at least, and what it takes  *)
(* is appended.                                                            *)
LEMMA ChunkFacts ==
    ASSUME NEW a \in SpongeAlg, NEW c, Absorbing(a, c), NEW d \in Seq(Byte), d # <<>>
    PROVE  LET t == AbsorbChunk(a, c, d) IN
           /\ Absorbing(a, t.ctx) /\ t.rest \in Seq(Byte)
           /\ Len(t.rest) < Len(d)
           /\ Absorbed(t.ctx) \o t.rest = Absorbed(c) \o d
<1> DEFINE B     == a.block
           bl    == c.buf_len
           in    == c.state.in
           old   == c.buffer
           perms == c.state.perms
           room  == B - bl
           chunk == IF room > Len(d) THEN Len(d) ELSE room
           held  == SubSeq(old, 1, bl)
           cut   == SubSeq(d, 1, chunk)
           rest  == SubSeq(d, chunk + 1, Len(d))
           buf   == [i \in 1 .. B |-> IF i > bl /\ i <= bl + chunk THEN d[i - bl] ELSE old[i]]
           t     == AbsorbChunk(a, c, d)
<1>1. /\ B \in Nat \ {0} /\ bl \in 0 .. B - 1 /\ in \in Seq(Byte) /\ Len(in) \in Nat
      /\ perms \in Nat /\ Len(in) % B = 0
      /\ old \in [1 .. B -> Byte] /\ held \in Seq(Byte) /\ Len(held) = bl
      /\ c = SpRec(in, perms, old, bl)
  BY SpFields DEF Absorbing
<1>2. Len(d) \in Nat \ {0}
  OBVIOUS
<1>3. chunk \in 1 .. Len(d) /\ bl + chunk \in 1 .. B
  BY <1>1, <1>2
<1>4. t = [ctx  |-> IF bl + chunk = B THEN SpRec(in \o buf, perms, buf, 0)
                    ELSE SpRec(in, perms, buf, bl + chunk),
           rest |-> rest]
  <2>1. t = [ctx  |-> [c EXCEPT !.buffer   = buf,
                                !.state.in = IF bl + chunk = B THEN @ \o buf ELSE @,
                                !.buf_len  = IF bl + chunk = B THEN 0 ELSE @ + chunk],
             rest |-> rest]
    BY DEF AbsorbChunk
  <2> HIDE DEF buf, rest, chunk, t, B
  <2>2. CASE bl + chunk = B
    <3>1. [c EXCEPT !.buffer = buf, !.state.in = in \o buf, !.buf_len = 0]
             = SpRec(in \o buf, perms, buf, 0)
      <4> HIDE DEF bl, in, perms, old
      <4>1. Taken(SpRec(in, perms, old, bl), buf, in \o buf, 0)
              = SpRec(in \o buf, perms, buf, 0)
        BY ONLY SpWrites
      <4>2. Taken(c, buf, in \o buf, 0) = SpRec(in \o buf, perms, buf, 0)
        BY <1>1, <4>1
      <4> QED
        BY <4>2 DEF Taken
    <3> QED
      BY <2>1, <2>2, <3>1
  <2>3. CASE bl + chunk # B
    <3>1. [c EXCEPT !.buffer = buf, !.state.in = in, !.buf_len = bl + chunk]
             = SpRec(in, perms, buf, bl + chunk)
      <4> HIDE DEF bl, in, perms, old
      <4>1. Taken(SpRec(in, perms, old, bl), buf, in, bl + chunk)
              = SpRec(in, perms, buf, bl + chunk)
        BY ONLY SpWrites
      <4>2. Taken(c, buf, in, bl + chunk) = SpRec(in, perms, buf, bl + chunk)
        BY <1>1, <4>1
      <4> QED
        BY <4>2 DEF Taken
    <3> QED
      BY <2>1, <2>3, <3>1
  <2> QED
    BY <2>2, <2>3
<1>5. /\ cut \in Seq(Byte) /\ Len(cut) = chunk
      /\ rest \in Seq(Byte) /\ Len(rest) = Len(d) - chunk /\ cut \o rest = d
      /\ \A i \in 1 .. chunk : cut[i] = d[i]
  <2> HIDE DEF chunk
  <2>1. chunk \in 0 .. Len(d)
    BY <1>2, <1>3
  <2>2. \A i \in 1 .. chunk : cut[i] = d[i]
    BY <1>2, <1>3
  <2> QED
    BY <2>1, <2>2, CutFacts
<1>6. buf = CopyInto(old, bl, cut)
  <2> HIDE DEF chunk, cut, B, bl, old
  <2>1. DOMAIN old = 1 .. B
    BY <1>1
  <2>2. \A i \in 1 .. B : i > bl /\ i <= bl + chunk => i - bl \in 1 .. chunk
    BY <1>1, <1>3
  <2>3. CopyInto(old, bl, cut)
           = [i \in 1 .. B |-> IF i > bl /\ i <= bl + chunk THEN cut[i - bl] ELSE old[i]]
    BY <1>5, <2>1 DEF CopyInto
  <2>4. \A i \in 1 .. B : i > bl /\ i <= bl + chunk => cut[i - bl] = d[i - bl]
    BY <1>5, <2>2
  <2> QED
    BY <2>3, <2>4
<1> HIDE DEF chunk, cut, rest, buf, B, bl, in, old, perms, t
<1>7. buf \in [1 .. B -> Byte] /\ SubSeq(buf, 1, bl + chunk) = held \o cut
  <2>1. /\ bl \in 0 .. B /\ bl + Len(cut) <= B /\ bl + Len(cut) = bl + chunk
    BY <1>1, <1>3, <1>5
  <2>2. B \in Nat \ {0} /\ old \in [1 .. B -> Byte] /\ cut \in Seq(Byte)
    BY <1>1, <1>5
  <2>3. /\ CopyInto(old, bl, cut) \in [1 .. B -> Byte]
        /\ SubSeq(CopyInto(old, bl, cut), 1, bl + Len(cut)) = SubSeq(old, 1, bl) \o cut
    BY ONLY <2>1, <2>2, CopyFacts
  <2> QED
    BY <1>6, <2>1, <2>3 DEF held
<1>8. buf \in Seq(Byte) /\ Len(buf) = B
  BY <1>1, <1>7, TableIsSeq
<1>9. (in \o (held \o cut)) \o rest = Absorbed(c) \o d
  <2>1. Absorbed(c) = in \o held
    BY DEF Absorbed, in, held, old, bl
  <2>h. /\ in \in Seq(Byte) /\ held \in Seq(Byte)
        /\ cut \in Seq(Byte) /\ rest \in Seq(Byte)
    BY <1>1, <1>5
  <2> HIDE DEF held
  <2>2. (in \o held) \o cut = in \o (held \o cut)
    BY ONLY <2>h, ConcatAssoc, SMTT(60)
  <2>3. in \o held \in Seq(Byte)
    BY <1>1, ConcatFacts
  <2>4. ((in \o held) \o cut) \o rest = (in \o held) \o (cut \o rest)
    BY ONLY <2>h, <2>3, ConcatAssoc, SMTT(60)
  <2> QED
    BY <1>5, <2>1, <2>2, <2>4
<1> HIDE DEF held
<1>10. ASSUME bl + chunk = B
       PROVE  Absorbing(a, t.ctx) /\ Absorbed(t.ctx) \o t.rest = Absorbed(c) \o d
  <2> DEFINE st == in \o buf
  <2>1. st \in Seq(Byte) /\ Len(st) = Len(in) + B
    BY <1>1, <1>8, ConcatFacts, ZenonT(60)
  <2>2. (Len(in) + B) % B = 0
    <3>1. B % B = 0
      BY <1>1
    <3>2. (Len(in) + B) % B = B % B
      BY <1>1, ModAdd
    <3> QED
      BY <3>1, <3>2
  <2>3. t.ctx = SpRec(st, perms, buf, 0) /\ t.rest = rest
    BY <1>4, <1>10
  <2>4. buf = held \o cut /\ SubSeq(buf, 1, 0) = <<>>
    BY <1>7, <1>8, <1>10, SubSeqFull, CutFacts, SMTT(60)
  <2>5. st \o <<>> = in \o (held \o cut)
    BY <2>1, <2>4, ConcatFacts
  <2> HIDE DEF st
  <2>6. /\ t.ctx.state.in = st /\ t.ctx.buffer = buf /\ t.ctx.buf_len = 0
    BY <2>3, SpReads
  <2>7. Absorbing(a, t.ctx)
    <3>1. SpRec(st, perms, buf, 0) \in SpongeCtx(a)
      <4>1. /\ st \in Seq(Byte) /\ perms \in Nat /\ buf \in [1 .. a.block -> Byte]
            /\ 0 \in 0 .. a.block
        BY <1>1, <1>7, <2>1 DEF B
      <4> QED
        BY ONLY <4>1, SpIsCtx
    <3> QED
      BY <1>1, <2>1, <2>2, <2>3, <2>6, <3>1, SMTT(60) DEF Absorbing, B
  <2>8. Absorbed(t.ctx) = in \o (held \o cut)
    BY <2>4, <2>5, <2>6 DEF Absorbed
  <2> QED
    BY <1>9, <2>3, <2>7, <2>8
<1>11. ASSUME bl + chunk # B
       PROVE  Absorbing(a, t.ctx) /\ Absorbed(t.ctx) \o t.rest = Absorbed(c) \o d
  <2>1. t.ctx = SpRec(in, perms, buf, bl + chunk) /\ t.rest = rest
    BY <1>4, <1>11
  <2>2. t.ctx.state.in = in /\ t.ctx.buffer = buf /\ t.ctx.buf_len = bl + chunk
    BY <2>1, SpReads
  <2>3. Absorbing(a, t.ctx)
    <3>1. SpRec(in, perms, buf, bl + chunk) \in SpongeCtx(a)
      <4>1. /\ in \in Seq(Byte) /\ perms \in Nat /\ buf \in [1 .. a.block -> Byte]
            /\ bl + chunk \in 0 .. a.block
        BY <1>1, <1>3, <1>7 DEF B
      <4> QED
        BY ONLY <4>1, SpIsCtx
    <3>2. bl + chunk < a.block
      <4>1. bl + chunk < B
        BY <1>1, <1>3, <1>11
      <4> QED
        BY <4>1 DEF B
    <3> QED
      BY <1>1, <2>1, <2>2, <3>1, <3>2 DEF Absorbing, B
  <2>4. Absorbed(t.ctx) = in \o (held \o cut)
    BY <1>7, <2>2 DEF Absorbed
  <2> QED
    BY <1>9, <2>1, <2>3, <2>4
<1>12. t.rest = rest /\ Len(rest) < Len(d)
  BY <1>2, <1>3, <1>4, <1>5
<1> QED
  BY <1>5, <1>10, <1>11, <1>12 DEF t

(* The iterations of keccak_absorb.                                        *)
AbsorbStep(a, x) == IF x.rest = <<>> THEN x ELSE AbsorbChunk(a, x.ctx, x.rest)

AbsorbRun(a, c, d, n, f) ==
    f = [k \in 0 .. n |-> IF k = 0 THEN [ctx |-> c, rest |-> d] ELSE AbsorbStep(a, f[k - 1])]

(* There is a run of every length.                                         *)
LEMMA AbsorbRuns ==
    ASSUME NEW a, NEW c, NEW d
    PROVE  \A n \in Nat : \E f : AbsorbRun(a, c, d, n, f)
<1> DEFINE S == {n \in Nat : \E f : AbsorbRun(a, c, d, n, f)}
           start == [ctx |-> c, rest |-> d]
<1>1. 0 \in S
  <2> DEFINE f == [k \in 0 .. 0 |-> start]
  <2>1. f = [k \in 0 .. 0 |-> IF k = 0 THEN start ELSE AbsorbStep(a, f[k - 1])]
    <3>1. \A k \in 0 .. 0 : k = 0
      OBVIOUS
    <3> QED
      BY <3>1
  <2> QED
    BY <2>1 DEF AbsorbRun
<1>2. ASSUME NEW n \in Nat, n \in S PROVE n + 1 \in S
  <2>1. PICK f : AbsorbRun(a, c, d, n, f)
    BY <1>2
  <2> DEFINE g == [k \in 0 .. n + 1 |-> IF k <= n THEN f[k] ELSE AbsorbStep(a, f[n])]
  <2>2. \A k \in 0 .. n : f[k] = IF k = 0 THEN start ELSE AbsorbStep(a, f[k - 1])
    BY <2>1 DEF AbsorbRun
  <2>3. ASSUME NEW k \in 0 .. n + 1
        PROVE  g[k] = IF k = 0 THEN start ELSE AbsorbStep(a, g[k - 1])
    <3>1. CASE k = 0
      BY <2>2, <3>1
    <3>2. CASE k \in 1 .. n
      <4>1. g[k] = f[k] /\ g[k - 1] = f[k - 1] /\ k # 0 /\ k \in 0 .. n
        BY <3>2
      <4> QED
        BY <2>2, <4>1
    <3>3. CASE k = n + 1
      <4>1. g[k] = AbsorbStep(a, f[n]) /\ g[k - 1] = f[n] /\ k # 0
        BY <3>3
      <4> QED
        BY <4>1
    <3> QED
      BY <3>1, <3>2, <3>3
  <2>4. g = [k \in 0 .. n + 1 |-> IF k = 0 THEN start ELSE AbsorbStep(a, g[k - 1])]
    <3>1. g = [k \in 0 .. n + 1 |-> g[k]]
      OBVIOUS
    <3> HIDE DEF g
    <3> QED
      BY <2>3, <3>1
  <2>5. AbsorbRun(a, c, d, n + 1, g)
    BY <2>4 DEF AbsorbRun
  <2> QED
    BY <2>5
<1> HIDE DEF S
<1>3. \A n \in Nat : n \in S
  BY <1>1, <1>2, Data!SetInduction
<1> QED
  BY <1>3 DEF S

(* Absorb ends a run.                                                      *)
LEMMA AbsorbEnds ==
    ASSUME NEW a, NEW c, NEW d, Len(d) \in Nat
    PROVE  \E f : AbsorbRun(a, c, d, Len(d), f) /\ Absorb(a, c, d) = f[Len(d)].ctx
<1> DEFINE n == Len(d)
           f == CHOOSE g : g = [k \in 0 .. n |-> IF k = 0 THEN [ctx |-> c, rest |-> d]
                                                 ELSE AbsorbStep(a, g[k - 1])]
<1>1. AbsorbRun(a, c, d, n, f)
  BY AbsorbRuns, SMTT(60) DEF AbsorbRun
<1>2. Absorb(a, c, d) = f[n].ctx
  BY DEF Absorb, AbsorbStep
<1> QED
  BY <1>1, <1>2

(* After k iterations what is taken and what is left make the whole, and   *)
(* at most so much is left.                                                *)
Taking(a, c, d, k, x) ==
    /\ Absorbing(a, x.ctx) /\ x.rest \in Seq(Byte) /\ Len(x.rest) <= Len(d) - k
    /\ Absorbed(x.ctx) \o x.rest = Absorbed(c) \o d

(* keccak_absorb appends its data to what the context holds, whatever the  *)
(* length of the data and the fill of the buffer.                          *)
LEMMA AbsorbFacts ==
    ASSUME NEW a \in SpongeAlg, NEW c, Absorbing(a, c), NEW d \in Seq(Byte)
    PROVE  /\ Absorbing(a, Absorb(a, c, d))
           /\ Absorbed(Absorb(a, c, d)) = Absorbed(c) \o d
<1> DEFINE n == Len(d)
           Good(k, x) == Taking(a, c, d, k, x)
<1>1. n \in Nat
  OBVIOUS
<1>2. PICK f : AbsorbRun(a, c, d, n, f) /\ Absorb(a, c, d) = f[n].ctx
  BY <1>1, AbsorbEnds
<1> DEFINE S == {k \in Nat : k <= n => Good(k, f[k])}
<1>3. 0 \in S
  <2>1. f[0] = [ctx |-> c, rest |-> d]
    BY <1>1, <1>2 DEF AbsorbRun
  <2>2. Len(d) <= n - 0
    BY <1>1
  <2> HIDE DEF n
  <2>3. Taking(a, c, d, 0, f[0])
    BY <2>1, <2>2 DEF Taking, n
  <2> QED
    BY <2>3
<1>4. ASSUME NEW k \in Nat, k \in S PROVE k + 1 \in S
  <2> SUFFICES ASSUME k + 1 <= n PROVE Good(k + 1, f[k + 1])
    OBVIOUS
  <2> DEFINE x == f[k]
  <2>1. f[k + 1] = AbsorbStep(a, x)
    BY <1>1, <1>2 DEF AbsorbRun
  <2>2. Taking(a, c, d, k, x)
    BY <1>1, <1>4
  <2>5. /\ Absorbing(a, x.ctx) /\ x.rest \in Seq(Byte) /\ Len(x.rest) <= n - k
        /\ Absorbed(x.ctx) \o x.rest = Absorbed(c) \o d
    BY <2>2 DEF Taking
  <2> HIDE DEF x, n
  <2>3. CASE x.rest = <<>>
    <3>1. f[k + 1] = x /\ Len(x.rest) = 0
      BY <2>1, <2>3 DEF AbsorbStep
    <3>2. Len(x.rest) <= n - (k + 1)
      BY <1>1, <3>1
    <3> QED
      BY <2>5, <3>1, <3>2 DEF Taking, n
  <2>4. CASE x.rest # <<>>
    <3> DEFINE e == x.ctx
               r == x.rest
               t == AbsorbChunk(a, e, r)
    <3>1. f[k + 1] = t
      BY <2>1, <2>4 DEF AbsorbStep
    <3>2. Absorbing(a, e) /\ r \in Seq(Byte) /\ r # <<>> /\ Len(r) \in Nat
      BY <2>4, <2>5
    <3>3. /\ Absorbing(a, t.ctx) /\ t.rest \in Seq(Byte) /\ Len(t.rest) < Len(r)
          /\ Absorbed(t.ctx) \o t.rest = Absorbed(e) \o r
      <4> HIDE DEF e, r
      <4> QED
        BY <3>2, ChunkFacts
    <3>4. Len(t.rest) <= n - (k + 1)
      <4>1. Len(r) <= n - k /\ Len(t.rest) \in Nat
        BY <2>5, <3>3
      <4> HIDE DEF t, r
      <4> QED
        BY <1>1, <3>2, <3>3, <4>1
    <3>5. Absorbed(t.ctx) \o t.rest = Absorbed(c) \o d
      BY <2>5, <3>3
    <3> HIDE DEF t
    <3> QED
      BY <3>1, <3>3, <3>4, <3>5 DEF Taking, n
  <2> QED
    BY <2>3, <2>4
<1> HIDE DEF S
<1>5. n \in S
  BY <1>1, <1>3, <1>4, Data!SetInduction
<1>6. /\ Absorbing(a, f[n].ctx) /\ f[n].rest \in Seq(Byte) /\ Len(f[n].rest) <= n - n
      /\ Absorbed(f[n].ctx) \o f[n].rest = Absorbed(c) \o d
  <2>1. Taking(a, c, d, n, f[n])
    BY <1>1, <1>5 DEF S
  <2> QED
    BY <2>1 DEF Taking
<1> DEFINE y == f[n]
<1>7. y.rest = <<>>
  BY <1>1, <1>6
<1> HIDE DEF y, n
<1>8. Absorbed(y.ctx) \o <<>> = Absorbed(y.ctx)
  <2> DEFINE e == y.ctx
  <2>1. e \in SpongeCtx(a)
    BY <1>6 DEF y, Absorbing
  <2> HIDE DEF e
  <2>2. e.state.in \in Seq(Byte) /\ SubSeq(e.buffer, 1, e.buf_len) \in Seq(Byte)
    BY <2>1, SpFields
  <2>3. Absorbed(e) \in Seq(Byte)
    BY <2>2, ConcatFacts DEF Absorbed
  <2>4. Absorbed(e) \o <<>> = Absorbed(e)
    BY <2>3, ConcatFacts
  <2> QED
    BY <2>4 DEF e
<1> QED
  BY <1>2, <1>6, <1>7, <1>8 DEF y

(* A mark on a byte is a byte.                                             *)
LEMMA XorMarkByte ==
    ASSUME NEW b \in Byte, NEW v \in Nat
    PROVE  XorMark(b, v) \in Byte
<1>1. b.at \in Seq(Nat) /\ <<v>> \in Seq(Nat)
  BY DEF Byte
<1>2. b.at \o <<v>> \in Seq(Nat)
  BY <1>1
<1> QED
  BY <1>2 DEF XorMark, Byte

(* The padding behind the bytes of a last block of which q are free.       *)
SpongeTail(pad, q) ==
    IF q = 1 THEN <<XorMark(XorMark(Zero, pad), 128)>>
    ELSE <<XorMark(Zero, pad)>> \o Zeros(q - 2) \o <<XorMark(Zero, 128)>>

(* Its bytes: two marks and zeros between them, or both marks in one byte. *)
LEMMA TailFacts ==
    ASSUME NEW pad \in Nat, NEW q \in Nat \ {0}
    PROVE  /\ SpongeTail(pad, q) \in Seq(Byte) /\ Len(SpongeTail(pad, q)) = q
           /\ q = 1 => SpongeTail(pad, q)[1] = XorMark(XorMark(Zero, pad), 128)
           /\ q # 1 => /\ SpongeTail(pad, q)[1] = XorMark(Zero, pad)
                       /\ SpongeTail(pad, q)[q] = XorMark(Zero, 128)
                       /\ \A i \in 2 .. q - 1 : SpongeTail(pad, q)[i] = Zero
<1> DEFINE p == XorMark(Zero, pad)
           e == XorMark(Zero, 128)
           b == XorMark(XorMark(Zero, pad), 128)
<1>1. p \in Byte /\ e \in Byte /\ b \in Byte
  BY MarkIsByte, XorMarkByte
<1> HIDE DEF p, e, b
<1>2. CASE q = 1
  <2>1. SpongeTail(pad, q) = <<b>>
    BY <1>2 DEF SpongeTail, b
  <2>2. <<b>> \in Seq(Byte) /\ Len(<<b>>) = 1 /\ <<b>>[1] = b
    BY <1>1
  <2>3. b = XorMark(XorMark(Zero, pad), 128)
    BY DEF b
  <2> QED
    BY <1>2, <2>1, <2>2, <2>3
<1>3. CASE q # 1
  <2> DEFINE z == Zeros(q - 2)
             x == <<p>> \o z
             t == x \o <<e>>
  <2>1. SpongeTail(pad, q) = t
    BY <1>3 DEF SpongeTail, p, e
  <2>2. q - 2 \in Nat
    BY <1>3
  <2>3. z \in Seq(Byte) /\ Len(z) = q - 2 /\ \A i \in 1 .. q - 2 : z[i] = Zero
    <3>1. z \in [1 .. q - 2 -> Byte] /\ \A i \in 1 .. q - 2 : z[i] = Zero
      BY MarkIsByte DEF Zeros
    <3> QED
      BY <2>2, <3>1, TableIsSeq
  <2> HIDE DEF z
  <2>4. /\ x \in Seq(Byte) /\ Len(x) = q - 1 /\ x[1] = p
        /\ \A i \in 1 .. q - 2 : x[1 + i] = Zero
    <3>1. <<p>> \in Seq(Byte) /\ Len(<<p>>) = 1 /\ <<p>>[1] = p /\ 1 \in 1 .. 1
      BY <1>1
    <3>2. /\ \A i \in 1 .. Len(<<p>>) : x[i] = <<p>>[i]
          /\ \A i \in 1 .. Len(z) : x[Len(<<p>>) + i] = z[i]
      BY <2>3, <3>1, Data!ConcatAt
    <3>3. x \in Seq(Byte) /\ Len(x) = Len(<<p>>) + Len(z)
      BY <2>3, <3>1, ConcatFacts
    <3> DEFINE one == <<p>>
    <3>4. Len(one) = 1 /\ one[1] = p
      BY <3>1
    <3>5. /\ \A i \in 1 .. Len(one) : x[i] = one[i]
          /\ \A i \in 1 .. Len(z) : x[Len(one) + i] = z[i]
          /\ x \in Seq(Byte) /\ Len(x) = Len(one) + Len(z)
      BY <3>2, <3>3
    <3> HIDE DEF x, one
    <3>6. \A i \in 1 .. q - 2 : x[1 + i] = Zero
      BY <2>3, <3>4, <3>5
    <3>7. Len(x) = q - 1
      BY <2>2, <2>3, <3>4, <3>5
    <3>8. x[1] = p
      BY <3>4, <3>5
    <3> QED
      BY <3>5, <3>6, <3>7, <3>8
  <2> HIDE DEF x
  <2>5. /\ t \in Seq(Byte) /\ Len(t) = q /\ t[q] = e
        /\ \A i \in 1 .. q - 1 : t[i] = x[i]
    <3>1. <<e>> \in Seq(Byte) /\ Len(<<e>>) = 1 /\ <<e>>[1] = e /\ 1 \in 1 .. 1
      BY <1>1
    <3>2. /\ \A i \in 1 .. Len(x) : t[i] = x[i]
          /\ \A i \in 1 .. Len(<<e>>) : t[Len(x) + i] = <<e>>[i]
      BY <2>4, <3>1, Data!ConcatAt
    <3>3. t \in Seq(Byte) /\ Len(t) = Len(x) + Len(<<e>>)
      BY <2>4, <3>1, ConcatFacts
    <3> HIDE DEF t
    <3> QED
      BY <2>2, <2>4, <3>1, <3>2, <3>3
  <2> HIDE DEF t
  <2>6. ASSUME NEW i \in 2 .. q - 1 PROVE t[i] = Zero
    <3> DEFINE j == i - 1
    <3>1. j \in 1 .. q - 2 /\ 1 + j = i /\ i \in 1 .. q - 1
      OBVIOUS
    <3> HIDE DEF j
    <3> QED
      BY <2>4, <2>5, <3>1
  <2>7. t[1] = p
    <3>1. 1 \in 1 .. q - 1
      BY <1>3
    <3> QED
      BY <2>4, <2>5, <3>1
  <2> QED
    BY <1>3, <2>1, <2>5, <2>6, <2>7 DEF p, e
<1> QED
  BY <1>2, <1>3

(* keccak_finalize absorbs the padding and starts the output.              *)
LEMMA FinalizeFacts ==
    ASSUME NEW a \in SpongeAlg, NEW c, Absorbing(a, c), NEW m, m = Absorbed(c)
    PROVE  /\ Finalize(a, c) = SpRec(SpongePadded(a, m), 0, Squeezed(a, 0), 0)
           /\ SpongePadded(a, m) \in Seq(Byte)
<1> DEFINE B     == a.block
           bl    == c.buf_len
           in    == c.state.in
           old   == c.buffer
           pad   == a.pad
           held  == SubSeq(old, 1, bl)
           q     == B - bl
           tail  == SpongeTail(pad, q)
           clear == [i \in 1 .. B |-> IF i > bl THEN Zero ELSE old[i]]
           begun == [clear EXCEPT ![bl + 1] = XorMark(@, pad)]
           last  == [begun EXCEPT ![B] = XorMark(@, 128)]
<1>1. /\ B \in Nat \ {0} /\ bl \in 0 .. B - 1 /\ in \in Seq(Byte) /\ Len(in) \in Nat
      /\ Len(in) % B = 0 /\ pad \in Nat
      /\ old \in [1 .. B -> Byte] /\ old \in Seq(Byte) /\ Len(old) = B
      /\ held \in Seq(Byte) /\ Len(held) = bl
  BY SpFields DEF Absorbing, Alg
<1>2. m = in \o held
  BY DEF Absorbed
<1>3. Finalize(a, c) = SpRec(in \o last, 0, Squeezed(a, 0), 0)
  BY DEF Finalize, SpRec
<1>4. SpongePadded(a, m) = m \o tail
  <2>1. Len(m) % B = bl
    <3>1. Len(m) = Len(in) + bl
      BY <1>1, <1>2, ConcatFacts
    <3>2. bl \in Nat /\ bl < B
      BY <1>1
    <3>4. bl % B = bl
      BY ONLY <1>1, <3>2, Data!SmallMod
    <3> HIDE DEF B, bl, in
    <3>3. (Len(in) + bl) % B = bl % B
      BY <1>1, <3>2, ModAdd, ZenonT(60)
    <3> QED
      BY <3>1, <3>3, <3>4
  <2> QED
    BY <2>1 DEF SpongePadded, SpongeTail
<1>5. \A i \in 1 .. bl : i \in 1 .. B /\ i # B /\ i # bl + 1 /\ ~ (i > bl) /\ held[i] = old[i]
  BY <1>1, SMTT(60)
<1>6. q \in Nat \ {0} /\ bl + q = B
  BY <1>1
<1>7. /\ tail \in Seq(Byte) /\ Len(tail) = q
      /\ q = 1 => tail[1] = XorMark(XorMark(Zero, pad), 128)
      /\ q # 1 => /\ tail[1] = XorMark(Zero, pad)
                  /\ tail[q] = XorMark(Zero, 128)
                  /\ \A i \in 2 .. q - 1 : tail[i] = Zero
  <2> HIDE DEF q, pad
  <2> QED
    BY <1>1, <1>6, TailFacts, SMTT(60)
<1> HIDE DEF q, tail, held, B, bl, in, old, pad
<1>8. last = [i \in 1 .. B |->
                IF i = B THEN XorMark(begun[B], 128) ELSE begun[i]]
  <2>1. B \in 1 .. B
    BY <1>1
  <2> QED
    BY <2>1
<1>9. begun = [i \in 1 .. B |->
                 IF i = bl + 1 THEN XorMark(clear[bl + 1], pad) ELSE clear[i]]
  <2>1. bl + 1 \in 1 .. B
    BY <1>1
  <2> QED
    BY <2>1
<1>10. \A i \in 1 .. bl : last[i] = held[i]
  <2>1. SUFFICES ASSUME NEW i \in 1 .. bl PROVE last[i] = held[i]
    OBVIOUS
  <2>2. i \in 1 .. B /\ i # B /\ i # bl + 1 /\ ~ (i > bl) /\ held[i] = old[i]
    BY <1>5
  <2>3. clear[i] = old[i]
    BY <2>2
  <2> HIDE DEF clear
  <2>4. begun[i] = clear[i]
    BY <1>9, <2>2
  <2> HIDE DEF begun
  <2>5. last[i] = begun[i]
    BY <1>8, <2>2
  <2> QED
    BY <2>2, <2>3, <2>4, <2>5
<1>11. \A i \in 1 .. q : last[bl + i] = tail[i]
  <2>1. SUFFICES ASSUME NEW i \in 1 .. q PROVE last[bl + i] = tail[i]
    OBVIOUS
  <2>2. bl + i \in 1 .. B /\ bl + i > bl /\ (bl + i = B <=> i = q) /\ (bl + i = bl + 1 <=> i = 1)
    BY <1>1, <1>6
  <2>3. /\ B \in 1 .. B /\ bl + 1 \in 1 .. B /\ B > bl /\ bl + 1 > bl /\ (B = bl + 1 <=> q = 1)
    BY <1>1, <1>6
  <2>4. clear[bl + i] = Zero /\ clear[bl + 1] = Zero /\ clear[B] = Zero
    BY <2>2, <2>3
  <2> HIDE DEF clear
  <2>5. begun[bl + i] = IF i = 1 THEN XorMark(Zero, pad) ELSE Zero
    BY <1>9, <2>2, <2>4
  <2>6. begun[B] = IF q = 1 THEN XorMark(Zero, pad) ELSE Zero
    BY <1>9, <2>3, <2>4
  <2> HIDE DEF begun
  <2>7. last[bl + i] = IF i = q THEN XorMark(begun[B], 128) ELSE begun[bl + i]
    BY <1>8, <2>2
  <2> HIDE DEF last
  <2>8. CASE q = 1
    <3>1. i = 1 /\ i = q
      BY <2>8
    <3> QED
      BY <1>7, <2>6, <2>7, <2>8, <3>1
  <2>9. CASE q # 1 /\ i = 1
    BY <1>7, <2>5, <2>7, <2>9
  <2>10. CASE q # 1 /\ i = q
    BY <1>7, <2>6, <2>7, <2>10
  <2>11. CASE q # 1 /\ i # 1 /\ i # q
    <3>1. i \in 2 .. q - 1
      BY <1>6, <2>11
    <3> QED
      BY <1>7, <2>5, <2>7, <2>11, <3>1
  <2> QED
    BY <2>8, <2>9, <2>10, <2>11
<1>12. last \in [1 .. B -> Byte]
  <2>1. ASSUME NEW i \in 1 .. B PROVE last[i] \in Byte
    <3>1. CASE i \in 1 .. bl
      <4> HIDE DEF last
      <4>1. last[i] = old[i] /\ old[i] \in Byte
        BY <1>1, <1>5, <1>10, <3>1
      <4> QED
        BY <4>1
    <3>2. CASE i \notin 1 .. bl
      <4> DEFINE j == i - bl
      <4>1. j \in 1 .. q /\ bl + j = i
        BY <1>1, <1>6, <3>2
      <4> HIDE DEF j, last
      <4>2. last[i] = tail[j] /\ tail[j] \in Byte
        BY <1>7, <1>11, <4>1
      <4> QED
        BY <4>2
    <3> QED
      BY <3>1, <3>2
  <2> HIDE DEF begun
  <2> QED
    BY <1>8, <2>1
<1> HIDE DEF last
<1>13. last \in Seq(Byte) /\ Len(last) = B
  BY <1>1, <1>12, TableIsSeq
<1>14. held \o tail = last
  <2>1. /\ held \in Seq(Byte) /\ tail \in Seq(Byte) /\ last \in Seq(Byte)
        /\ Len(last) = Len(held) + Len(tail)
        /\ \A i \in 1 .. Len(held) : last[i] = held[i]
        /\ \A i \in 1 .. Len(tail) : last[Len(held) + i] = tail[i]
    BY <1>1, <1>6, <1>7, <1>10, <1>11, <1>13
  <2> QED
    BY ONLY <2>1, ConcatIs
<1>15. (in \o held) \o tail = in \o last
  <2>1. in \in Seq(Byte) /\ held \in Seq(Byte) /\ tail \in Seq(Byte)
    BY <1>1, <1>7
  <2>2. (in \o held) \o tail = in \o (held \o tail)
    BY ONLY <2>1, ConcatAssoc
  <2> QED
    BY <1>14, <2>2
<1>16. in \o last \in Seq(Byte)
  BY <1>1, <1>13, ConcatFacts
<1> QED
  BY <1>2, <1>3, <1>4, <1>15, <1>16

-----------------------------------------------------------------------------
(* A sponge that gives output stands p bytes into its stream: the buffer   *)
(* is the last permutation written out, and bytes of it are used up.       *)
GivenOut(a, c, in, p) ==
    /\ c \in SpongeCtx(a) /\ c.state.in = in
    /\ c.buffer = Squeezed(a, c.state.perms)
    /\ p = c.state.perms * a.block + c.buf_len

(* Bytes p + 1 .. p + n of the stream.                                     *)
StreamPart(a, p, n) == [j \in 1 .. n |-> StreamByte(a, p + j)]

(* The permuted state written out is a buffer.                             *)
LEMMA SqueezedType ==
    ASSUME NEW a \in SpongeAlg, NEW perms \in Nat
    PROVE  Squeezed(a, perms) \in [1 .. a.block -> Byte]
<1>1. a.block \in Nat
  BY DEF SpongeAlg, Alg
<1>2. \A i \in 1 .. a.block : [src |-> "squeezed", at |-> <<perms, i>>] \in Byte
  BY <1>1 DEF Byte
<1> QED
  BY <1>2 DEF Squeezed

(* Byte i of the output after perms permutations.                          *)
LEMMA StreamAt ==
    ASSUME NEW a \in SpongeAlg, NEW perms \in Nat, NEW i \in 1 .. a.block
    PROVE  StreamByte(a, perms * a.block + i) = <<perms, i>>
<1> DEFINE B == a.block
           r == i - 1
           j == perms * B + i
<1>1. B \in Nat \ {0} /\ r \in Nat /\ r < B /\ r + 1 = i /\ perms * B \in Nat
  BY DEF SpongeAlg, Alg
<1>2. j - 1 = perms * B + r
  BY <1>1
<1> HIDE DEF B, r
<1>3. (perms * B + r) \div B = perms /\ (perms * B + r) % B = r
  BY <1>1, Data!DivMod
<1>4. a.kind # "md"
  BY DEF SpongeAlg
<1> HIDE DEF j
<1>5. (j - 1) \div B = perms /\ (j - 1) % B = r
  BY <1>2, <1>3
<1>6. StreamByte(a, j) = <<(j - 1) \div B, ((j - 1) % B) + 1>>
  BY <1>4 DEF StreamByte, B
<1> QED
  BY <1>1, <1>5, <1>6 DEF j, B

(* A used-up buffer is permuted and written out before the next byte.      *)
LEMMA RefillFacts ==
    ASSUME NEW a \in SpongeAlg, NEW c, NEW in, NEW p, GivenOut(a, c, in, p)
    PROVE  GivenOut(a, Refill(a, c), in, p) /\ Refill(a, c).buf_len < a.block
<1> DEFINE B  == a.block
           k  == c.state.perms
           bl == c.buf_len
           u  == Refill(a, c)
<1>1. /\ B \in Nat \ {0} /\ bl \in 0 .. B /\ in \in Seq(Byte) /\ k \in Nat
      /\ c \in SpongeCtx(a) /\ c = SpRec(in, k, c.buffer, bl)
      /\ c.buffer = Squeezed(a, k) /\ p = k * B + bl /\ c.state.in = in
  BY SpFields DEF GivenOut
<1>2. CASE bl = B
  <2>1. u = SpRec(in, k + 1, Squeezed(a, k + 1), 0)
    <3>1. u = [c EXCEPT !.state.perms = @ + 1, !.buffer = Squeezed(a, k + 1),
                        !.buf_len = 0]
      BY <1>2 DEF Refill
    <3> HIDE DEF u, k, bl, B
    <3>2. c.state = [in |-> in, perms |-> k]
      BY <1>1 DEF SpRec
    <3> DEFINE s == [c.state EXCEPT !.perms = k + 1]
    <3>3. s = [in |-> in, perms |-> k + 1]
      BY <3>2
    <3>4. /\ DOMAIN u = {"state", "buffer", "buf_len"} /\ u = [i \in DOMAIN u |-> u[i]]
          /\ u.state = s /\ u.buffer = Squeezed(a, k + 1) /\ u.buf_len = 0
      BY <1>1, <3>1 DEF SpongeCtx, k
    <3> HIDE DEF s
    <3>5. u = [state |-> s, buffer |-> Squeezed(a, k + 1), buf_len |-> 0]
      BY <3>4
    <3> QED
      BY <3>3, <3>5 DEF SpRec
  <2> HIDE DEF u, k, bl
  <2>2. /\ u.state.in = in /\ u.state.perms = k + 1 /\ u.buffer = Squeezed(a, k + 1)
        /\ u.buf_len = 0
    BY <2>1, SpReads
  <2>3. u \in SpongeCtx(a)
    <3>1. k + 1 \in Nat
      BY <1>1
    <3>2. /\ in \in Seq(Byte) /\ k + 1 \in Nat /\ Squeezed(a, k + 1) \in [1 .. a.block -> Byte]
          /\ 0 \in 0 .. a.block
      BY <1>1, <3>1, SqueezedType
    <3> QED
      BY ONLY <2>1, <3>2, SpIsCtx
  <2>4. (k + 1) * B + 0 = k * B + B
    BY <1>1, SMTT(60)
  <2> QED
    BY <1>1, <1>2, <2>2, <2>3, <2>4, SMTT(60) DEF GivenOut, u
<1>3. CASE bl # B
  <2>1. u = c
    BY <1>3 DEF Refill
  <2> QED
    BY <1>1, <1>3, <2>1
<1> QED
  BY <1>2, <1>3

(* An iteration of keccak_squeeze gives a byte at least, the next ones.    *)
LEMMA SqueezeChunkFacts ==
    ASSUME NEW a \in SpongeAlg, NEW c, NEW in, NEW p, GivenOut(a, c, in, p),
           NEW n \in Nat \ {0}
    PROVE  \E m \in 1 .. n :
             /\ SqueezeChunk(a, c, n).out = StreamPart(a, p, m)
             /\ GivenOut(a, SqueezeChunk(a, c, n).ctx, in, p + m)
<1> DEFINE B     == a.block
           e     == Refill(a, c)
           k     == e.state.perms
           bl    == e.buf_len
           room  == B - bl
           m     == IF room > n THEN n ELSE room
           s     == SqueezeChunk(a, c, n)
<1>1. GivenOut(a, e, in, p) /\ bl < B
  BY RefillFacts
<1>2. /\ B \in Nat \ {0} /\ bl \in 0 .. B - 1 /\ in \in Seq(Byte) /\ k \in Nat
      /\ e \in SpongeCtx(a) /\ e = SpRec(in, k, e.buffer, bl)
      /\ e.buffer = Squeezed(a, k) /\ p = k * B + bl /\ k * B \in Nat
  <2> HIDE DEF e
  <2> QED
    BY <1>1, SpFields, SMTT(60) DEF GivenOut
<1>3. m \in 1 .. n /\ bl + m \in 0 .. B
  BY <1>2, SMTT(60)
<1>4. /\ s.out = [j \in 1 .. m |-> e.buffer[bl + j].at]
      /\ s.ctx = [e EXCEPT !.buf_len = bl + m]
  BY DEF SqueezeChunk
<1> HIDE DEF s, e, m, B
<1>5. s.out = StreamPart(a, p, m)
  <2>1. ASSUME NEW j \in 1 .. m PROVE e.buffer[bl + j].at = StreamByte(a, p + j)
    <3> DEFINE i == bl + j
    <3>1. i \in 1 .. B
      BY <1>2, <1>3, SMTT(60)
    <3>4. p + j = k * B + i
      <4> DEFINE kB == k * B
      <4>1. kB \in Nat /\ bl \in Nat /\ j \in Nat /\ p = kB + bl
        BY <1>2, <1>3
      <4> HIDE DEF kB, bl, k
      <4>2. p + j = kB + (bl + j)
        BY ONLY <4>1
      <4> QED
        BY <4>2 DEF kB
    <3> HIDE DEF i, k
    <3>2. StreamByte(a, k * B + i) = <<k, i>>
      BY <1>2, <3>1, StreamAt DEF B
    <3>3. Squeezed(a, k)[i] = [src |-> "squeezed", at |-> <<k, i>>]
      BY <3>1 DEF Squeezed, B
    <3> QED
      BY <1>2, <3>1, <3>2, <3>3, <3>4 DEF i
  <2> QED
    BY <1>4, <2>1 DEF StreamPart
<1>6. GivenOut(a, s.ctx, in, p + m)
  <2> HIDE DEF k, bl
  <2> DEFINE eb == e.buffer
             x  == bl + m
  <2>1. s.ctx = SpRec(in, k, e.buffer, bl + m)
    <3>1. e = SpRec(in, k, eb, bl)
      BY <1>2
    <3>2. s.ctx = [e EXCEPT !.buf_len = x]
      BY <1>4
    <3> HIDE DEF eb, x
    <3>3. [SpRec(in, k, eb, bl) EXCEPT !.buf_len = x] = SpRec(in, k, eb, x)
      BY ONLY DEF SpRec
    <3>4. s.ctx = SpRec(in, k, eb, x)
      BY <3>1, <3>2, <3>3
    <3> QED
      BY <3>4 DEF eb, x
  <2> HIDE DEF eb, x
  <2>2. /\ s.ctx.state.in = in /\ s.ctx.state.perms = k /\ s.ctx.buffer = e.buffer
        /\ s.ctx.buf_len = bl + m
    BY <2>1, SpReads
  <2>3. s.ctx \in SpongeCtx(a)
    <3>1. /\ in \in Seq(Byte) /\ k \in Nat /\ e.buffer \in [1 .. a.block -> Byte]
          /\ bl + m \in 0 .. a.block
      BY <1>2, <1>3, SqueezedType DEF B
    <3> QED
      BY ONLY <2>1, <3>1, SpIsCtx
  <2>4. p + m = k * B + (bl + m)
    BY <1>2, <1>3
  <2> QED
    BY <1>2, <2>2, <2>3, <2>4 DEF GivenOut, B
<1> QED
  BY <1>3, <1>5, <1>6 DEF s

(* The iterations of keccak_squeeze.                                       *)
SqueezeStep(a, n, x) ==
    IF Len(x.out) = n THEN x
    ELSE [ctx |-> SqueezeChunk(a, x.ctx, n - Len(x.out)).ctx,
          out |-> x.out \o SqueezeChunk(a, x.ctx, n - Len(x.out)).out]

SqueezeRun(a, c, n, m, f) ==
    f = [k \in 0 .. m |-> IF k = 0 THEN [ctx |-> c, out |-> <<>>]
                          ELSE SqueezeStep(a, n, f[k - 1])]

(* There is a run of every length.                                         *)
LEMMA SqueezeRuns ==
    ASSUME NEW a, NEW c, NEW n
    PROVE  \A m \in Nat : \E f : SqueezeRun(a, c, n, m, f)
<1> DEFINE S == {m \in Nat : \E f : SqueezeRun(a, c, n, m, f)}
           start == [ctx |-> c, out |-> <<>>]
<1>1. 0 \in S
  <2> DEFINE f == [k \in 0 .. 0 |-> start]
  <2>1. f = [k \in 0 .. 0 |-> IF k = 0 THEN start ELSE SqueezeStep(a, n, f[k - 1])]
    <3>1. \A k \in 0 .. 0 : k = 0
      OBVIOUS
    <3> QED
      BY <3>1
  <2> QED
    BY <2>1 DEF SqueezeRun
<1>2. ASSUME NEW m \in Nat, m \in S PROVE m + 1 \in S
  <2>1. PICK f : SqueezeRun(a, c, n, m, f)
    BY <1>2
  <2> DEFINE g == [k \in 0 .. m + 1 |-> IF k <= m THEN f[k] ELSE SqueezeStep(a, n, f[m])]
  <2>2. \A k \in 0 .. m : f[k] = IF k = 0 THEN start ELSE SqueezeStep(a, n, f[k - 1])
    BY <2>1 DEF SqueezeRun
  <2>3. ASSUME NEW k \in 0 .. m + 1
        PROVE  g[k] = IF k = 0 THEN start ELSE SqueezeStep(a, n, g[k - 1])
    <3>1. CASE k = 0
      BY <2>2, <3>1
    <3>2. CASE k \in 1 .. m
      <4>1. g[k] = f[k] /\ g[k - 1] = f[k - 1] /\ k # 0 /\ k \in 0 .. m
        BY <3>2
      <4> QED
        BY <2>2, <4>1
    <3>3. CASE k = m + 1
      <4>1. g[k] = SqueezeStep(a, n, f[m]) /\ g[k - 1] = f[m] /\ k # 0
        BY <3>3
      <4> QED
        BY <4>1
    <3> QED
      BY <3>1, <3>2, <3>3
  <2>4. g = [k \in 0 .. m + 1 |-> IF k = 0 THEN start ELSE SqueezeStep(a, n, g[k - 1])]
    <3>1. g = [k \in 0 .. m + 1 |-> g[k]]
      OBVIOUS
    <3> HIDE DEF g
    <3> QED
      BY <2>3, <3>1
  <2>5. SqueezeRun(a, c, n, m + 1, g)
    BY <2>4 DEF SqueezeRun
  <2> QED
    BY <2>5
<1> HIDE DEF S
<1>3. \A m \in Nat : m \in S
  BY <1>1, <1>2, Data!SetInduction
<1> QED
  BY <1>3 DEF S

(* Squeeze ends a run.                                                     *)
LEMMA SqueezeEnds ==
    ASSUME NEW a, NEW c, NEW n \in Nat
    PROVE  \E f : SqueezeRun(a, c, n, n, f) /\ Squeeze(a, c, n) = f[n]
<1> DEFINE f == CHOOSE g : g = [k \in 0 .. n |-> IF k = 0 THEN [ctx |-> c, out |-> <<>>]
                                                 ELSE SqueezeStep(a, n, g[k - 1])]
<1>1. SqueezeRun(a, c, n, n, f)
  <2>1. PICK g : SqueezeRun(a, c, n, n, g)
    BY ONLY SqueezeRuns, n \in Nat
  <2>2. g = [k \in 0 .. n |-> IF k = 0 THEN [ctx |-> c, out |-> <<>>]
                              ELSE SqueezeStep(a, n, g[k - 1])]
    BY ONLY <2>1 DEF SqueezeRun
  <2>3. f = [k \in 0 .. n |-> IF k = 0 THEN [ctx |-> c, out |-> <<>>]
                              ELSE SqueezeStep(a, n, f[k - 1])]
    BY ONLY <2>2, Zenon
  <2> QED
    BY ONLY <2>3 DEF SqueezeRun
<1>2. Squeeze(a, c, n) = f[n]
  BY DEF Squeeze, SqueezeStep
<1> QED
  BY <1>1, <1>2

(* Bytes q + 1 .. q + m of a stream continue its first q bytes from p.     *)
LEMMA PartsJoin ==
    ASSUME NEW a \in Alg, NEW p \in Nat, NEW q \in Nat, NEW m \in Nat
    PROVE  /\ StreamPart(a, p, q) \o StreamPart(a, p + q, m) = StreamPart(a, p, q + m)
           /\ Len(StreamPart(a, p, q)) = q
<1> DEFINE s == StreamPart(a, p, q)
           t == StreamPart(a, p + q, m)
           u == StreamPart(a, p, q + m)
<1>1. /\ DOMAIN s = 1 .. q /\ DOMAIN t = 1 .. m /\ DOMAIN u = 1 .. q + m
      /\ \A j \in 1 .. q : s[j] = StreamByte(a, p + j)
      /\ \A j \in 1 .. m : t[j] = StreamByte(a, p + q + j)
      /\ \A j \in 1 .. q + m : u[j] = StreamByte(a, p + j)
  BY DEF StreamPart
<1>2. Len(s) = q /\ Len(t) = m
  BY DEF StreamPart
<1>3. s \o t = [j \in 1 .. q + m |-> IF j <= q THEN s[j] ELSE t[j - q]]
  <2>1. s \o t = [j \in 1 .. Len(s) + Len(t) |-> IF j <= Len(s) THEN s[j] ELSE t[j - Len(s)]]
    BY DEF StreamPart
  <2> QED
    BY <1>2, <2>1
<1> HIDE DEF s, t
<1>4. ASSUME NEW j \in 1 .. q + m
      PROVE  (IF j <= q THEN s[j] ELSE t[j - q]) = StreamByte(a, p + j)
  <2>1. CASE j <= q
    <3>1. j \in 1 .. q
      BY <2>1
    <3> QED
      BY <1>1, <2>1, <3>1
  <2>2. CASE ~ (j <= q)
    <3> DEFINE i == j - q
    <3>1. i \in 1 .. m /\ p + q + i = p + j
      BY <2>2
    <3> HIDE DEF i
    <3>2. t[i] = StreamByte(a, p + j)
      BY <1>1, <3>1
    <3> QED
      BY <2>2, <3>2 DEF i
  <2> QED
    BY <2>1, <2>2
<1>5. s \o t = u
  BY <1>3, <1>4 DEF StreamPart
<1> QED
  BY <1>2, <1>5 DEF s, t

(* What PartsJoin says, as one fact.                                       *)
PartsMeet(a, p, q, m) ==
    StreamPart(a, p, q) \o StreamPart(a, p + q, m) = StreamPart(a, p, q + m)

(* Two neighbouring parts of a stream make one.                            *)
LEMMA PartsMeetAlways ==
    ASSUME NEW a \in Alg, NEW p \in Nat, NEW q \in Nat, NEW m \in Nat
    PROVE  PartsMeet(a, p, q, m)
BY PartsJoin, ZenonT(60) DEF PartsMeet

(* After k iterations all n bytes are out, or k of them at least.          *)
Giving(a, in, p, n, k, x) ==
    \E q \in 0 .. n : /\ x.out = StreamPart(a, p, q) /\ GivenOut(a, x.ctx, in, p + q)
                      /\ q = n \/ q >= k

(* An iteration gives a byte more, until there are n.                      *)
LEMMA GivingStep ==
    ASSUME NEW a \in SpongeAlg, NEW in, NEW p \in Nat, NEW n \in Nat, NEW k \in Nat,
           NEW x, Giving(a, in, p, n, k, x)
    PROVE  Giving(a, in, p, n, k + 1, SqueezeStep(a, n, x))
<1>1. PICK q \in 0 .. n : /\ x.out = StreamPart(a, p, q) /\ GivenOut(a, x.ctx, in, p + q)
                          /\ q = n \/ q >= k
  BY DEF Giving
<1>2. a \in Alg /\ q \in Nat /\ p + q \in Nat
  BY DEF SpongeAlg
<1>3. Len(x.out) = q
  <2>1. Len(StreamPart(a, p, q)) = q
    BY <1>2, PartsJoin
  <2> QED
    BY <1>1, <2>1
<1>4. CASE q = n
  <2>1. SqueezeStep(a, n, x) = x
    BY <1>3, <1>4 DEF SqueezeStep
  <2> QED
    BY <1>1, <1>4, <2>1 DEF Giving
<1>5. CASE q # n
  <2> DEFINE e == x.ctx
             r == n - q
             s == SqueezeChunk(a, e, r)
             y == SqueezeStep(a, n, x)
             pq == p + q
  <2>1. r \in Nat \ {0}
    BY <1>1, <1>5
  <2>2. y = [ctx |-> s.ctx, out |-> x.out \o s.out]
    BY <1>3, <1>5 DEF SqueezeStep
  <2>3. GivenOut(a, e, in, pq)
    BY <1>1
  <2> HIDE DEF e, r, pq
  <2>4. PICK m \in 1 .. r : s.out = StreamPart(a, pq, m) /\ GivenOut(a, s.ctx, in, pq + m)
    BY ONLY <2>1, <2>3, SqueezeChunkFacts, a \in SpongeAlg
  <2> HIDE DEF s, y
  <2>5. m \in Nat /\ q + m \in 0 .. n /\ pq + m = p + (q + m) /\ q + m >= k + 1
    BY <1>1, <1>5, <2>1 DEF r, pq
  <2>6. y.out = StreamPart(a, p, q + m)
    <3>1. a \in Alg /\ p \in Nat /\ q \in Nat /\ m \in Nat
      BY <1>2, <2>5
    <3>2. StreamPart(a, p, q) \o StreamPart(a, p + q, m) = StreamPart(a, p, q + m)
      <4>1. PartsMeet(a, p, q, m)
        BY ONLY <3>1, PartsMeetAlways
      <4> QED
        BY ONLY <4>1 DEF PartsMeet
    <3>3. y.out = x.out \o s.out
      BY ONLY <2>2
    <3>4. x.out = StreamPart(a, p, q) /\ s.out = StreamPart(a, p + q, m)
      BY ONLY <1>1, <2>4 DEF pq
    <3> QED
      BY ONLY <3>2, <3>3, <3>4
  <2>7. GivenOut(a, y.ctx, in, p + (q + m))
    BY <2>2, <2>4, <2>5
  <2>8. Giving(a, in, p, n, k + 1, y)
    BY <2>5, <2>6, <2>7 DEF Giving
  <2> QED
    BY <2>8 DEF y
<1> QED
  BY <1>4, <1>5

(* keccak_squeeze gives the next n bytes of the stream, however the calls  *)
(* before cut it and whatever is left in the buffer.                       *)
LEMMA SqueezeFacts ==
    ASSUME NEW a \in SpongeAlg, NEW c, NEW in, NEW p, GivenOut(a, c, in, p), NEW n \in Nat
    PROVE  /\ Squeeze(a, c, n).out = StreamPart(a, p, n)
           /\ GivenOut(a, Squeeze(a, c, n).ctx, in, p + n)
<1>1. p \in Nat
  <2> DEFINE u == c.state.perms
             b == a.block
             l == c.buf_len
  <2>1. u \in Nat /\ b \in Nat /\ l \in Nat /\ p = u * b + l
    BY SpFields DEF GivenOut
  <2> HIDE DEF u, b, l
  <2> QED
    BY ONLY <2>1
<1>2. PICK f : SqueezeRun(a, c, n, n, f) /\ Squeeze(a, c, n) = f[n]
  BY SqueezeEnds
<1> DEFINE S == {k \in Nat : k <= n => Giving(a, in, p, n, k, f[k])}
<1>3. 0 \in S
  <2> DEFINE y == f[0]
  <2>1. y = [ctx |-> c, out |-> <<>>]
    BY <1>2 DEF SqueezeRun
  <2>2. StreamPart(a, p, 0) = <<>>
    BY DEF StreamPart
  <2>3. p + 0 = p /\ 0 \in 0 .. n
    BY <1>1
  <2> HIDE DEF y
  <2>4. y.out = StreamPart(a, p, 0) /\ GivenOut(a, y.ctx, in, p + 0) /\ 0 >= 0
    BY <2>1, <2>2, <2>3
  <2>5. Giving(a, in, p, n, 0, y)
    BY <2>3, <2>4 DEF Giving
  <2> QED
    BY <2>5 DEF y
<1>4. ASSUME NEW k \in Nat, k \in S PROVE k + 1 \in S
  <2> SUFFICES ASSUME k + 1 <= n PROVE Giving(a, in, p, n, k + 1, f[k + 1])
    OBVIOUS
  <2> DEFINE x == f[k]
  <2>1. f[k + 1] = SqueezeStep(a, n, x)
    BY <1>2 DEF SqueezeRun
  <2>2. Giving(a, in, p, n, k, x)
    BY <1>4
  <2> HIDE DEF x
  <2>3. Giving(a, in, p, n, k + 1, SqueezeStep(a, n, x))
    BY <1>1, <2>2, GivingStep
  <2> QED
    BY <2>1, <2>3
<1>5. n \in S
  <2> HIDE DEF S
  <2> QED
    BY <1>3, <1>4, Data!SetInduction
<1> DEFINE y == f[n]
<1>6. Giving(a, in, p, n, n, y)
  BY <1>5
<1> HIDE DEF y
<1>7. PICK q \in 0 .. n : y.out = StreamPart(a, p, q) /\ GivenOut(a, y.ctx, in, p + q)
                          /\ (q = n \/ q >= n)
  BY <1>6 DEF Giving
<1>8. q = n
  BY <1>7
<1> QED
  BY <1>2, <1>7, <1>8 DEF y

(* The first n bytes of the stream are the output of that length.          *)
LEMMA OutputIsPart ==
    ASSUME NEW a, NEW n \in Nat
    PROVE  StreamPart(a, 0, n) = OutputOf(a, n)
<1>1. \A j \in 1 .. n : 0 + j = j
  OBVIOUS
<1> QED
  BY <1>1 DEF StreamPart, OutputOf

(* A stream's bytes are pairs of naturals.                                 *)
LEMMA OutputType ==
    ASSUME NEW a \in Alg, NEW n \in Nat
    PROVE  OutputOf(a, n) \in Seq(Nat \X Nat) /\ Len(OutputOf(a, n)) = n
<1>1. a.block \in Nat \ {0}
  BY DEF Alg
<1>2. ASSUME NEW j \in 1 .. n PROVE StreamByte(a, j) \in Nat \X Nat
  <2> DEFINE r == j - 1
             B == a.block
  <2>1. r \in Nat /\ B \in Nat \ {0}
    BY <1>1
  <2> HIDE DEF r, B
  <2>2. r \div B \in Nat /\ (r % B) + 1 \in Nat
    BY <2>1, DivFacts
  <2>3. StreamByte(a, j) = IF a.kind = "md" THEN <<0, j>> ELSE <<r \div B, (r % B) + 1>>
    BY DEF StreamByte, r, B
  <2> QED
    BY <2>2, <2>3
<1>3. OutputOf(a, n) \in [1 .. n -> Nat \X Nat]
  BY <1>2 DEF OutputOf
<1> QED
  BY <1>3, TableIsSeq

-----------------------------------------------------------------------------
(* What one call gives.                                                    *)

(* The output of a finalized sponge is the digest of its padded message.   *)
LEMMA SpongeOutIs ==
    ASSUME NEW a \in SpongeAlg, a.hashLen <= a.block, NEW in, NEW n
    PROVE  SpongeOut(a, SpRec(in, 0, Squeezed(a, 0), n)) = Digest(in, OutputOf(a, a.hashLen))
<1> DEFINE c == SpRec(in, 0, Squeezed(a, 0), n)
           b == Squeezed(a, 0)
           h == a.hashLen
<1>1. c.state.in = in /\ c.buffer = b
  BY SpReads
<1>2. a.block \in Nat /\ h \in Nat /\ h <= a.block
  BY DEF SpongeAlg, Alg
<1> HIDE DEF c, h
<1>3. ASSUME NEW j \in 1 .. h PROVE b[j].at = StreamByte(a, j)
  <2>1. j \in 1 .. a.block
    BY <1>2
  <2>2. b[j] = [src |-> "squeezed", at |-> <<0, j>>]
    BY <2>1 DEF Squeezed
  <2>3. StreamByte(a, 0 * a.block + j) = <<0, j>>
    BY <2>1, StreamAt
  <2>4. 0 * a.block + j = j
    BY <1>2, <2>1
  <2> HIDE DEF b
  <2> QED
    BY <2>2, <2>3, <2>4
<1> HIDE DEF b
<1>4. [j \in 1 .. h |-> c.buffer[j].at] = OutputOf(a, h)
  BY <1>1, <1>3 DEF OutputOf
<1> QED
  BY <1>1, <1>4 DEF SpongeOut, c, h

(* The other algorithms compiled in are sponges.                           *)
LEMMA SpOfAlgs ==
    ASSUME NEW a \in Algs, ~ IsMd(a)
    PROVE  a \in SpongeAlg
BY AlgsAssumption DEF SpongeAlg, IsMd

(* A context between init and final, to which n bytes have been fed.       *)
HoldsFed(a, c, n) ==
    IF IsMd(a) THEN MdHolds(Byte, a, c, MsgOf(n))
    ELSE Absorbing(a, c) /\ Absorbed(c) = MsgOf(n)

(* The contexts of an algorithm.                                           *)
CtxOf(a) == IF IsMd(a) THEN MdCtx(a) ELSE SpongeCtx(a)

(* The message is a byte string.                                           *)
LEMMA MsgFacts ==
    ASSUME NEW n \in Nat
    PROVE  MsgOf(n) \in Seq(Byte) /\ Len(MsgOf(n)) = n
<1>1. \A i \in 1 .. n : MsgByte(i) \in Byte
  BY DEF MsgByte, Byte
<1>2. MsgOf(n) \in [1 .. n -> Byte]
  BY <1>1 DEF MsgOf
<1> QED
  BY <1>2, TableIsSeq

(* Nothing has been fed to a fresh context.                                *)
LEMMA HoldsInit ==
    ASSUME NEW a \in Algs
    PROVE  HoldsFed(a, InitCtx(a), 0)
<1>1. CASE IsMd(a)
  <2>1. a \in MdAlg
    BY <1>1, MdOfAlgs
  <2> DEFINE c == MdInit(a)
  <2>2. MdHolds(Byte, a, c, <<>>)
    BY <2>1, InitFacts
  <2>3. MsgOf(0) = <<>>
    BY DEF MsgOf
  <2> QED
    BY <1>1, <2>2, <2>3 DEF InitCtx, HoldsFed
<1>2. CASE ~ IsMd(a)
  <2> DEFINE z == Zeros(a.block)
             c == SpongeInit(a)
  <2>1. a \in SpongeAlg
    BY <1>2, SpOfAlgs
  <2>2. a.block \in Nat \ {0}
    BY <2>1 DEF SpongeAlg, Alg
  <2>3. z \in [1 .. a.block -> Byte]
    <3>1. Zero \in Byte
      BY MarkIsByte
    <3> QED
      BY <3>1 DEF Zeros
  <2>4. c = SpRec(<<>>, 0, z, 0)
    BY DEF SpongeInit, SpRec
  <2> HIDE DEF z, c
  <2>5. c.state.in = <<>> /\ c.buffer = z /\ c.buf_len = 0
    BY <2>4, SpReads
  <2>6. c \in SpongeCtx(a)
    <3>1. /\ <<>> \in Seq(Byte) /\ 0 \in Nat /\ z \in [1 .. a.block -> Byte]
          /\ 0 \in 0 .. a.block
      BY <2>2, <2>3
    <3> QED
      BY ONLY <2>4, <3>1, SpIsCtx
  <2>7. Len(c.state.in) % a.block = 0
    <3>1. Len(<<>>) = 0 /\ 0 % a.block = 0
      BY <2>2
    <3> QED
      BY <2>5, <3>1
  <2>8. Absorbed(c) = MsgOf(0)
    <3>1. z \in Seq(Byte)
      BY <2>2, <2>3, TableIsSeq
    <3>2. SubSeq(z, 1, 0) = <<>>
      BY <3>1
    <3>3. MsgOf(0) = <<>> /\ <<>> \o <<>> = <<>>
      BY DEF MsgOf
    <3> QED
      BY <2>5, <3>2, <3>3 DEF Absorbed
  <2>9. HoldsFed(a, c, 0)
    BY <1>2, <2>2, <2>5, <2>6, <2>7, <2>8 DEF HoldsFed, Absorbing
  <2> QED
    BY <1>2, <2>9 DEF InitCtx, c
<1> QED
  BY <1>1, <1>2

(* An update call feeds its bytes.                                         *)
LEMMA HoldsUpdate ==
    ASSUME NEW a \in Algs, NEW f \in Nat, NEW n \in Nat, CallFits(a, f + n, n),
           NEW c, HoldsFed(a, c, f), NEW d, d = [i \in 1 .. n |-> MsgByte(f + i)]
    PROVE  HoldsFed(a, UpdateCtx(a, c, d), f + n)
<1>1. d \in Seq(Byte) /\ Len(d) = n /\ MsgOf(f) \o d = MsgOf(f + n)
  BY FedFacts
<1>2. CASE IsMd(a)
  <2> DEFINE u == MdUpdate(a, c, d)
  <2>1. a \in MdAlg /\ MdHolds(Byte, a, c, MsgOf(f)) /\ Len(MsgOf(f)) = f
    BY <1>2, MdOfAlgs, MsgFacts DEF HoldsFed
  <2>2. CallFits(a, Len(MsgOf(f)) + Len(d), Len(d))
    BY <1>1, <2>1
  <2> DEFINE x == MsgOf(f)
  <2>3. /\ MdHolds(Byte, a, c, x) /\ d \in Seq(Byte) /\ IsMd(a)
        /\ CallFits(a, Len(x) + Len(d), Len(d))
    BY <1>1, <1>2, <2>1, <2>2
  <2>4. MdHolds(Byte, a, u, x \o d)
    <3> HIDE DEF x, u
    <3>1. u = MdUpdate(a, c, d)
      BY DEF u
    <3> QED
      BY ONLY <2>3, <3>1, MdHoldsUpdate
  <2> QED
    BY <1>1, <1>2, <2>4 DEF UpdateCtx, HoldsFed
<1>3. CASE ~ IsMd(a)
  <2> DEFINE u == Absorb(a, c, d)
  <2>1. a \in SpongeAlg /\ Absorbing(a, c) /\ Absorbed(c) = MsgOf(f)
    BY <1>3, SpOfAlgs DEF HoldsFed
  <2>2. Absorbing(a, u) /\ Absorbed(u) = Absorbed(c) \o d
    BY <1>1, <2>1, AbsorbFacts
  <2> HIDE DEF u
  <2>3. HoldsFed(a, u, f + n)
    BY <1>1, <1>3, <2>1, <2>2 DEF HoldsFed
  <2> QED
    BY <1>3, <2>3 DEF UpdateCtx, u
<1> QED
  BY <1>2, <1>3

(* A final call gives the digest of the bytes fed.                         *)
LEMMA HoldsFinal ==
    ASSUME NEW a \in Algs, NEW n \in Nat, NEW c, HoldsFed(a, c, n)
    PROVE  /\ FinalCtx(a, c) \in CtxOf(a)
           /\ OutOf(a, FinalCtx(a, c)) = Digest(PaddedMsg(a, MsgOf(n)), OutputOf(a, a.hashLen))
<1> DEFINE m == MsgOf(n)
<1>1. m \in Seq(Byte) /\ Len(m) = n
  BY MsgFacts
<1>2. CASE IsMd(a)
  <2> DEFINE u == MdFinal(a, c)
  <2>1. a \in MdAlg
    BY <1>2, MdOfAlgs
  <2>2. MdHolds(Byte, a, c, m)
    BY <1>2 DEF HoldsFed
  <2> HIDE DEF m
  <2>3. u \in MdCtx(a) /\ u.state = MdPadded(a, m)
    BY <2>2, FinalFacts DEF MdCtx, MdCtxOver
  <2> HIDE DEF u
  <2>4. FinalCtx(a, c) = u /\ PaddedMsg(a, m) = MdPadded(a, m)
    BY <1>2 DEF FinalCtx, PaddedMsg, IsMd, u
  <2>5. OutOf(a, u) = Digest(PaddedMsg(a, m), OutputOf(a, a.hashLen))
    BY <1>2, <2>3, <2>4 DEF OutOf, MdOut
  <2> QED
    BY <1>2, <2>3, <2>4, <2>5 DEF CtxOf, m
<1>3. CASE ~ IsMd(a)
  <2> DEFINE p == SpongePadded(a, m)
             b == Squeezed(a, 0)
             u == SpRec(p, 0, b, 0)
  <2>1. a \in SpongeAlg /\ Absorbing(a, c) /\ m = Absorbed(c) /\ a.hashLen <= a.block
    BY <1>3, SpOfAlgs DEF HoldsFed, SpongeAlg
  <2> HIDE DEF m
  <2>2. Finalize(a, c) = u /\ p \in Seq(Byte)
    BY <2>1, FinalizeFacts
  <2>3. FinalCtx(a, c) = u /\ PaddedMsg(a, m) = p
    BY <1>3, <2>2 DEF FinalCtx, PaddedMsg, IsMd
  <2>4. u \in SpongeCtx(a)
    <3>1. /\ p \in Seq(Byte) /\ 0 \in Nat /\ b \in [1 .. a.block -> Byte] /\ 0 \in 0 .. a.block
      <4>1. a.block \in Nat
        BY <2>1 DEF SpongeAlg, Alg
      <4> QED
        BY <2>1, <2>2, <4>1, SqueezedType
    <3> HIDE DEF b, p
    <3> QED
      BY ONLY <3>1, SpIsCtx
  <2>5. SpongeOut(a, u) = Digest(p, OutputOf(a, a.hashLen))
    <3> HIDE DEF p
    <3> QED
      BY <2>1, SpongeOutIs
  <2> HIDE DEF u, p
  <2> QED
    BY <1>3, <2>3, <2>4, <2>5 DEF OutOf, CtxOf, m
<1> QED
  BY <1>2, <1>3

(* The final of SHAKE opens the stream of the bytes fed.                   *)
LEMMA HoldsShake ==
    ASSUME NEW a \in Algs, a.kind = "shake", NEW n \in Nat, NEW c, HoldsFed(a, c, n)
    PROVE  GivenOut(a, Finalize(a, c), PaddedMsg(a, MsgOf(n)), 0)
<1> DEFINE p == SpongePadded(a, MsgOf(n))
           b == Squeezed(a, 0)
           u == SpRec(p, 0, b, 0)
<1>1. a \in SpongeAlg /\ Absorbing(a, c) /\ MsgOf(n) = Absorbed(c) /\ ~ IsMd(a)
  BY SpOfAlgs DEF HoldsFed, IsMd
<1>2. Finalize(a, c) = u /\ p \in Seq(Byte)
  BY <1>1, FinalizeFacts
<1>3. PaddedMsg(a, MsgOf(n)) = p
  BY DEF PaddedMsg
<1>4. a.block \in Nat
  BY <1>1 DEF SpongeAlg, Alg
<1> HIDE DEF p
<1>5. u \in SpongeCtx(a)
  <2>1. /\ p \in Seq(Byte) /\ 0 \in Nat /\ b \in [1 .. a.block -> Byte] /\ 0 \in 0 .. a.block
    BY <1>1, <1>2, <1>4, SqueezedType
  <2> HIDE DEF b
  <2> QED
    BY ONLY <2>1, SpIsCtx
<1> HIDE DEF u
<1>6. u.state.in = p /\ u.state.perms = 0 /\ u.buffer = Squeezed(a, 0) /\ u.buf_len = 0
  BY SpReads DEF u
<1>7. 0 = 0 * a.block + 0
  BY <1>4
<1>8. GivenOut(a, u, p, 0)
  BY <1>5, <1>6, <1>7 DEF GivenOut
<1> QED
  BY <1>2, <1>3, <1>8

-----------------------------------------------------------------------------
(* A context that SHAKE's output is read from stands as many bytes into    *)
(* the stream of the bytes fed as have been given out.                     *)
StandsAt(p) ==
    /\ alg.kind = "shake" /\ out = OutputOf(alg, p)
    /\ GivenOut(alg, ctx, PaddedMsg(alg, MsgOf(fed)), p)

(* The inductive invariant of the hash contexts.                           *)
HashInv ==
    /\ alg \in Algs /\ ctx \in CtxOf(alg) /\ fed \in 0 .. MaxMsg
    /\ stage \in {"none", "open", "squeezing", "closed"}
    /\ result.rc \in {"none", "OK", "BUFFER_TOO_SMALL"}
    /\ stage = "open" => HoldsFed(alg, ctx, fed)
    /\ stage = "squeezing" => \E p \in 0 .. MaxOut : StandsAt(p)
    /\ stage # "squeezing" => out = <<>>

(* A context that holds a message, or gives output, has its type.          *)
LEMMA HoldsType ==
    ASSUME NEW a \in Algs, NEW c, NEW n, HoldsFed(a, c, n)
    PROVE  c \in CtxOf(a)
<1>1. CASE IsMd(a)
  BY <1>1 DEF HoldsFed, CtxOf, MdHolds, MdCtx, MdCtxOver
<1>2. CASE ~ IsMd(a)
  BY <1>2 DEF HoldsFed, CtxOf, Absorbing
<1> QED
  BY <1>1, <1>2

(* The results have a return code each.                                    *)
LEMMA Results ==
    ASSUME NEW x, NEW y, NEW a
    PROVE  /\ Digest(x, y).rc = "OK" /\ TooSmall(a).rc = "BUFFER_TOO_SMALL"
           /\ NoResult.rc = "none"
BY DEF Digest, TooSmall, NoResult

(* The invariant holds at the start.                                       *)
LEMMA HashInvInit == Init => HashInv
<1> SUFFICES ASSUME Init PROVE HashInv
  OBVIOUS
<1>1. /\ alg \in Algs /\ ctx = InitCtx(alg) /\ stage = "none" /\ fed = 0
      /\ out = <<>> /\ result = NoResult
  BY DEF Init
<1>2. HoldsFed(alg, ctx, 0)
  BY <1>1, HoldsInit
<1>3. ctx \in CtxOf(alg)
  BY <1>1, <1>2, HoldsType
<1> QED
  BY <1>1, <1>3, Results, BoundsAssumption DEF HashInv

(* An init call, also in the middle of a message.                          *)
LEMMA HashInvStart ==
    ASSUME NEW a \in Algs, HashInit(a)
    PROVE  HashInv'
<1>1. /\ alg' = a /\ ctx' = InitCtx(a) /\ stage' = "open" /\ fed' = 0
      /\ out' = <<>> /\ result' = NoResult
  BY DEF HashInit
<1>2. HoldsFed(a, InitCtx(a), 0)
  BY HoldsInit
<1>3. InitCtx(a) \in CtxOf(a)
  BY <1>2, HoldsType
<1> QED
  BY <1>1, <1>2, <1>3, Results, BoundsAssumption DEF HashInv

(* An update call.                                                         *)
LEMMA HashInvUpdate ==
    ASSUME HashInv, NEW n \in 0 .. MaxMsg - fed, HashUpdate(n)
    PROVE  HashInv'
<1> DEFINE d == [i \in 1 .. n |-> MsgByte(fed + i)]
           u == UpdateCtx(alg, ctx, d)
<1>1. /\ alg \in Algs /\ alg' = alg /\ stage = "open" /\ stage' = "open"
      /\ fed \in Nat /\ n \in Nat /\ fed' = fed + n /\ fed' \in 0 .. MaxMsg
      /\ ctx' = u /\ out' = out /\ result' = result
  BY BoundsAssumption DEF HashInv, HashUpdate
<1>2. CallFits(alg, fed + n, n) /\ HoldsFed(alg, ctx, fed)
  BY <1>1 DEF HashUpdate, HashInv
<1>3. HoldsFed(alg, u, fed + n)
  <2> HIDE DEF d
  <2>1. d = [i \in 1 .. n |-> MsgByte(fed + i)]
    BY DEF d
  <2> QED
    BY <1>1, <1>2, <2>1, HoldsUpdate
<1> HIDE DEF u
<1>4. u \in CtxOf(alg)
  BY <1>1, <1>3, HoldsType
<1> QED
  BY <1>1, <1>3, <1>4 DEF HashInv

(* A final call gives the digest of the bytes fed, or asks for more room.  *)
LEMMA FinalCall ==
    ASSUME HashInv, NEW room, HashFinal(room)
    PROVE  /\ HashInv'
           /\ stage = "open" /\ alg.kind # "shake"
           /\ \/ /\ stage' = "closed"
                 /\ result' = Digest(PaddedMsg(alg, MsgOf(fed)), OutputOf(alg, alg.hashLen))
              \/ stage' = stage /\ ctx' = ctx /\ result' = TooSmall(alg)
           /\ alg' = alg /\ fed' = fed /\ out' = out /\ out = <<>>
<1>1. /\ stage = "open" /\ alg.kind # "shake" /\ alg' = alg /\ fed' = fed /\ out' = out
      /\ \/ stage' = stage /\ ctx' = ctx /\ result' = TooSmall(alg)
         \/ /\ ctx' = FinalCtx(alg, ctx) /\ stage' = "closed"
            /\ result' = OutOf(alg, ctx')
  BY DEF HashFinal
<1>2. alg \in Algs /\ fed \in Nat /\ HoldsFed(alg, ctx, fed) /\ out = <<>>
  BY <1>1, BoundsAssumption DEF HashInv
<1> DEFINE u == FinalCtx(alg, ctx)
           r == Digest(PaddedMsg(alg, MsgOf(fed)), OutputOf(alg, alg.hashLen))
<1>3. u \in CtxOf(alg) /\ OutOf(alg, u) = r
  BY <1>2, HoldsFinal
<1> HIDE DEF u
<1>4. r.rc = "OK" /\ TooSmall(alg).rc = "BUFFER_TOO_SMALL"
  BY Results
<1>5. CASE stage' = stage /\ ctx' = ctx /\ result' = TooSmall(alg)
  BY <1>1, <1>2, <1>4, <1>5 DEF HashInv
<1>6. CASE ctx' = u /\ stage' = "closed" /\ result' = OutOf(alg, ctx')
  <2>1. result' = r
    BY <1>3, <1>6
  <2> HIDE DEF r
  <2>2. HashInv'
    BY <1>1, <1>2, <1>3, <1>4, <1>6, <2>1 DEF HashInv
  <2> QED
    BY <1>1, <1>2, <1>6, <2>1, <2>2 DEF r
<1> QED
  BY <1>1, <1>5, <1>6 DEF u

(* A one-shot call gives the digest of its message, or asks for more room. *)
LEMMA OnceCall ==
    ASSUME HashInv, NEW a \in Algs, NEW n \in 0 .. MaxMsg, NEW room, HashOnce(a, n, room)
    PROVE  /\ HashInv'
           /\ result' \in {Digest(PaddedMsg(a, MsgOf(n)), OutputOf(a, a.hashLen)), TooSmall(a)}
           /\ UNCHANGED <<alg, ctx, stage, fed, out>>
<1> DEFINE d == MsgOf(n)
           c == InitCtx(a)
           u == UpdateCtx(a, c, d)
           r == Digest(PaddedMsg(a, MsgOf(n)), OutputOf(a, a.hashLen))
<1>1. /\ CallFits(a, n, n) /\ UNCHANGED <<alg, ctx, stage, fed, out>>
      /\ result' = TooSmall(a) \/ result' = OutOf(a, FinalCtx(a, u))
  BY DEF HashOnce
<1>2. n \in Nat /\ 0 + n = n
  BY BoundsAssumption
<1>3. HoldsFed(a, c, 0)
  BY HoldsInit
<1>4. d = [i \in 1 .. n |-> MsgByte(0 + i)]
  <2>1. \A i \in 1 .. n : 0 + i = i
    OBVIOUS
  <2> QED
    BY <2>1 DEF MsgOf
<1>5. HoldsFed(a, u, n)
  <2> HIDE DEF c, d
  <2>1. CallFits(a, 0 + n, n) /\ 0 \in Nat
    BY <1>1, <1>2
  <2>2. HoldsFed(a, u, 0 + n)
    BY <1>2, <1>3, <1>4, <2>1, HoldsUpdate
  <2> HIDE DEF u
  <2> QED
    BY <1>2, <2>2
<1> HIDE DEF u
<1>6. OutOf(a, FinalCtx(a, u)) = r
  BY <1>2, <1>5, HoldsFinal
<1>7. r.rc = "OK" /\ TooSmall(a).rc = "BUFFER_TOO_SMALL"
  BY Results
<1>8. result' = r \/ result' = TooSmall(a)
  BY <1>1, <1>6
<1>9. /\ alg' = alg /\ ctx' = ctx /\ stage' = stage /\ fed' = fed /\ out' = out
      /\ result'.rc \in {"OK", "BUFFER_TOO_SMALL"}
  BY <1>1, <1>7, <1>8
<1> HIDE DEF r
<1>10. HashInv'
  BY <1>9 DEF HashInv, StandsAt
<1> QED
  BY <1>1, <1>8, <1>10 DEF r

(* SHAKE's final call puts the context at the start of the stream.         *)
LEMMA ShakeCall ==
    ASSUME HashInv, ShakeFinal
    PROVE  /\ HashInv'
           /\ stage = "open" /\ alg.kind = "shake" /\ stage' = "squeezing"
           /\ ctx'.state.in = PaddedMsg(alg, MsgOf(fed))
           /\ alg' = alg /\ fed' = fed /\ out' = out /\ result' = result
<1> DEFINE u == Finalize(alg, ctx)
           m == PaddedMsg(alg, MsgOf(fed))
<1>1. /\ stage = "open" /\ alg.kind = "shake" /\ stage' = "squeezing" /\ ctx' = u
      /\ alg' = alg /\ fed' = fed /\ out' = out /\ result' = result
  BY DEF ShakeFinal
<1>2. alg \in Algs /\ fed \in Nat /\ HoldsFed(alg, ctx, fed) /\ out = <<>>
  BY <1>1, BoundsAssumption DEF HashInv
<1>3. GivenOut(alg, u, m, 0)
  BY <1>1, <1>2, HoldsShake
<1> HIDE DEF u
<1>4. u \in CtxOf(alg) /\ u.state.in = m
  BY <1>1, <1>3 DEF GivenOut, CtxOf, IsMd
<1>5. out = OutputOf(alg, 0)
  BY <1>2 DEF OutputOf
<1>6. StandsAt(0)' /\ 0 \in 0 .. MaxOut
  BY <1>1, <1>3, <1>5, BoundsAssumption DEF StandsAt
<1>7. HashInv'
  BY <1>1, <1>2, <1>4, <1>6 DEF HashInv
<1> QED
  BY <1>1, <1>4, <1>7

(* A squeeze gives the next bytes of that stream.                          *)
LEMMA SqueezeCall ==
    ASSUME HashInv, NEW n \in 0 .. MaxOut - Len(out), ShakeSqueeze(n)
    PROVE  /\ HashInv'
           /\ stage = "squeezing" /\ stage' = stage
           /\ \E q \in Len(out) .. MaxOut : out' = OutputOf(alg, q)
           /\ ctx'.state.in = ctx.state.in
           /\ alg' = alg /\ fed' = fed /\ result' = result
<1> DEFINE m == PaddedMsg(alg, MsgOf(fed))
           s == Squeeze(alg, ctx, n)
<1>1. /\ stage = "squeezing" /\ stage' = stage /\ ctx' = s.ctx /\ out' = out \o s.out
      /\ alg' = alg /\ fed' = fed /\ result' = result
  BY DEF ShakeSqueeze
<1>2. PICK p \in 0 .. MaxOut : StandsAt(p)
  BY <1>1 DEF HashInv
<1>3. alg \in Algs /\ alg.kind = "shake" /\ out = OutputOf(alg, p) /\ GivenOut(alg, ctx, m, p)
  BY <1>2 DEF HashInv, StandsAt
<1>4. alg \in SpongeAlg /\ alg \in Alg
  BY <1>3, SpOfAlgs DEF IsMd, SpongeAlg
<1>5. p \in Nat /\ Len(out) = p
  BY <1>3, <1>4, OutputType, BoundsAssumption
<1>6. n \in Nat /\ p + n \in p .. MaxOut /\ 0 + p = p
  BY <1>5, BoundsAssumption
<1> HIDE DEF m
<1>7. s.out = StreamPart(alg, p, n) /\ GivenOut(alg, s.ctx, m, p + n)
  BY <1>3, <1>4, <1>6, SqueezeFacts
<1> HIDE DEF s
<1>8. out' = OutputOf(alg, p + n)
  <2>1. /\ alg \in Alg /\ p \in Nat /\ n \in Nat /\ 0 \in Nat /\ p + n \in Nat
    BY <1>4, <1>5, <1>6
  <2>2. StreamPart(alg, 0, p) \o StreamPart(alg, 0 + p, n) = StreamPart(alg, 0, p + n)
    BY ONLY <2>1, PartsJoin, ZenonT(150)
  <2>3. StreamPart(alg, 0, p) = OutputOf(alg, p) /\ StreamPart(alg, 0, p + n) = OutputOf(alg, p + n)
    BY ONLY <2>1, OutputIsPart
  <2> QED
    BY <1>1, <1>3, <1>6, <1>7, <2>2, <2>3
<1>9. s.ctx \in CtxOf(alg) /\ s.ctx.state.in = m /\ ctx.state.in = m
  BY <1>3, <1>7 DEF GivenOut, CtxOf, IsMd
<1>10. StandsAt(p + n)'
  BY <1>1, <1>3, <1>7, <1>8 DEF StandsAt, m
<1>11. p + n \in 0 .. MaxOut
  BY <1>5, <1>6
<1>12. HashInv'
  BY <1>1, <1>9, <1>10, <1>11 DEF HashInv
<1> QED
  BY <1>1, <1>5, <1>6, <1>8, <1>9, <1>12

(* Every call keeps the invariant.                                         *)
LEMMA HashInvNext == HashInv /\ [Next]_vars => HashInv'
<1> SUFFICES ASSUME HashInv, [Next]_vars PROVE HashInv'
  OBVIOUS
<1>1. ASSUME NEW a \in Algs, HashInit(a) PROVE HashInv'
  BY <1>1, HashInvStart
<1>2. ASSUME NEW n \in 0 .. MaxMsg - fed, HashUpdate(n) PROVE HashInv'
  BY <1>2, HashInvUpdate
<1>3. ASSUME NEW room, HashFinal(room) PROVE HashInv'
  BY <1>3, FinalCall
<1>4. ASSUME NEW a \in Algs, NEW n \in 0 .. MaxMsg, NEW room, HashOnce(a, n, room)
      PROVE  HashInv'
  BY <1>4, OnceCall
<1>5. CASE ShakeFinal
  BY <1>5, ShakeCall
<1>6. ASSUME NEW n \in 0 .. MaxOut - Len(out), ShakeSqueeze(n) PROVE HashInv'
  BY <1>6, SqueezeCall
<1>7. CASE UNCHANGED vars
  BY <1>7 DEF vars, HashInv, StandsAt
<1> QED
  BY <1>1, <1>2, <1>3, <1>4, <1>5, <1>6, <1>7 DEF Next

(* It says what Positions says.                                            *)
LEMMA HashInvPositions == HashInv => Positions
<1> SUFFICES ASSUME HashInv, stage = "open", IsMd(alg)
             PROVE  /\ ctx.len < alg.block
                    /\ Len(ctx.state) % alg.block = 0
                    /\ ctx.state \o SubSeq(ctx.buffer, 1, ctx.len) = MsgOf(fed)
                    /\ ctx.count = BitCount(alg, fed)
  BY DEF Positions
<1>1. /\ ctx \in MdCtxOver(Byte, alg) /\ Aligned(alg, ctx) /\ Held(ctx) = MsgOf(fed)
      /\ ctx.count = BitCount(alg, fed)
  <2>1. fed \in Nat
    BY BoundsAssumption DEF HashInv
  <2>2. MdHolds(Byte, alg, ctx, MsgOf(fed)) /\ Len(MsgOf(fed)) = fed
    BY <2>1, MsgFacts DEF HashInv, HoldsFed
  <2> QED
    BY <2>2 DEF MdHolds
<1>2. alg \in MdAlg
  BY MdOfAlgs DEF HashInv
<1>3. alg.block \in Nat \ {0} /\ ctx.len \in 0 .. alg.block - 1
  BY <1>1, <1>2, CtxFields
<1>4. ctx.state \o SubSeq(ctx.buffer, 1, ctx.len) = MsgOf(fed)
  BY <1>1 DEF Held
<1>5. Len(ctx.state) % alg.block = 0
  BY <1>1 DEF Aligned
<1>6. ctx.len < alg.block
  BY <1>3
<1> QED
  BY <1>1, <1>4, <1>5, <1>6

(* And the types of the variables follow from it.                          *)
LEMMA HashInvType == HashInv => TypeOK
<1> SUFFICES ASSUME HashInv PROVE TypeOK
  OBVIOUS
<1>1. /\ alg \in Algs /\ ctx \in CtxOf(alg) /\ fed \in 0 .. MaxMsg
      /\ stage \in {"none", "open", "squeezing", "closed"}
      /\ result.rc \in {"none", "OK", "BUFFER_TOO_SMALL"}
  BY DEF HashInv
<1>2. out \in Seq(Nat \X Nat)
  <2>1. CASE stage = "squeezing"
    <3>1. PICK p \in 0 .. MaxOut : StandsAt(p)
      BY <2>1 DEF HashInv
    <3>2. alg \in Alg /\ p \in Nat
      BY <1>1, AlgsAssumption, BoundsAssumption
    <3>3. OutputOf(alg, p) \in Seq(Nat \X Nat)
      BY <3>2, OutputType
    <3> QED
      BY <3>1, <3>3 DEF StandsAt
  <2>2. CASE stage # "squeezing"
    <3>1. out = <<>>
      BY <2>2 DEF HashInv
    <3> QED
      BY <3>1
  <2> QED
    BY <2>1, <2>2
<1>3. ctx \in (IF IsMd(alg) THEN MdCtx(alg) ELSE SpongeCtx(alg))
  BY <1>1 DEF CtxOf
<1> QED
  BY <1>1, <1>2, <1>3 DEF TypeOK

(* HashInv is an invariant.                                                *)
LEMMA HashInvAlways == Spec => []HashInv
<1>1. Init => HashInv
  BY HashInvInit
<1>2. HashInv /\ [Next]_vars => HashInv'
  BY HashInvNext
<1> QED
  BY <1>1, <1>2, PTL DEF Spec

(* Every variable has its type: the buffers and counters of the contexts   *)
(* stay in their bounds for every block size, rate and field width.        *)
THEOREM HashTypeOK == Spec => []TypeOK
<1>1. Spec => []HashInv
  BY HashInvAlways
<1>2. HashInv => TypeOK
  BY HashInvType
<1> QED
  BY <1>1, <1>2, PTL

(* For every block size, length field and word width: whatever the sizes   *)
(* of the update calls, a SHA-2 or SM3 context holds exactly the bytes fed *)
(* since init, the compressed ones in whole blocks, and counts their bits. *)
THEOREM HashPositions == Spec => []Positions
<1>1. Spec => []HashInv
  BY HashInvAlways
<1>2. HashInv => Positions
  BY HashInvPositions
<1> QED
  BY <1>1, <1>2, PTL

-----------------------------------------------------------------------------
(* The promise's terms are this module's.                                  *)
LEMMA MsgTerms ==
    ASSUME NEW a, NEW n
    PROVE  /\ Msg!DigestOf(a, n) = Digest(PaddedMsg(a, MsgOf(n)), OutputOf(a, a.hashLen))
           /\ Msg!PaddedMsg(a, Msg!MsgOf(n)) = PaddedMsg(a, MsgOf(n))
           /\ Msg!OutputOf(a, n) = OutputOf(a, n)
           /\ Msg!TooSmall(a) = TooSmall(a)
           /\ Msg!NoResult = NoResult
<1>1. \A k : Msg!Zeros(k) = Zeros(k)
  BY DEF Msg!Zeros, Zeros, Msg!Zero, Zero
<1>2. \A k : Msg!MsgOf(k) = MsgOf(k)
  BY DEF Msg!MsgOf, MsgOf, Msg!MsgByte, MsgByte
<1>3. \A b, v : Msg!XorMark(b, v) = XorMark(b, v)
  BY DEF Msg!XorMark, XorMark
<1>4. Msg!Zero = Zero
  BY DEF Msg!Zero, Zero
<1>5. \A m : Msg!MdPadded(a, m) = MdPadded(a, m)
  <2>1. \A k : Msg!MdFill(a, k) = MdFill(a, k)
    BY DEF Msg!MdFill, MdFill
  <2>2. \A k : Msg!BitCount(a, k) = BitCount(a, k)
    BY DEF Msg!BitCount, BitCount
  <2>3. \A k : Msg!LenField(a, k) = LenField(a, k)
    BY DEF Msg!LenField, LenField
  <2> QED
    BY <1>1, <1>3, <1>4, <2>1, <2>2, <2>3 DEF Msg!MdPadded, MdPadded
<1>6. \A m : Msg!SpongePadded(a, m) = SpongePadded(a, m)
  BY <1>1, <1>3, <1>4 DEF Msg!SpongePadded, SpongePadded
<1>7. \A m : Msg!PaddedMsg(a, m) = PaddedMsg(a, m)
  BY <1>5, <1>6 DEF Msg!PaddedMsg, PaddedMsg
<1>8. \A k : Msg!OutputOf(a, k) = OutputOf(a, k)
  BY DEF Msg!OutputOf, OutputOf, Msg!StreamByte, StreamByte
<1>9. Msg!TooSmall(a) = TooSmall(a) /\ Msg!NoResult = NoResult
  BY DEF Msg!TooSmall, TooSmall, Msg!NoResult, NoResult
<1>10. \A x, y : Msg!Digest(x, y) = Digest(x, y)
  BY DEF Msg!Digest, Digest
<1> QED
  BY <1>2, <1>7, <1>8, <1>9, <1>10 DEF Msg!DigestOf

(* What the promise reads as the source of SHAKE's output.                 *)
Source == IF stage = "squeezing" THEN ctx.state.in ELSE <<>>

(* Every call does what the promise allows, or nothing it speaks of.       *)
LEMMA HashStep == HashInv /\ [Next]_vars => [Msg!AbsNext]_(Msg!absVars)
<1> SUFFICES ASSUME HashInv, [Next]_vars PROVE [Msg!AbsNext]_(Msg!absVars)
  OBVIOUS
<1>1. ASSUME NEW a \in Algs, HashInit(a) PROVE Msg!AbsNext
  <2>1. /\ alg' = a /\ stage' = "open" /\ fed' = 0
        /\ out' = <<>> /\ result' = NoResult
    BY <1>1 DEF HashInit
  <2>2. Source' = <<>>
    BY <2>1 DEF Source
  <2>3. Msg!AbsStart
    BY <2>1, <2>2, MsgTerms DEF Msg!AbsStart, Source
  <2> QED
    BY <2>3 DEF Msg!AbsNext
<1>2. ASSUME NEW n \in 0 .. MaxMsg - fed, HashUpdate(n) PROVE Msg!AbsNext
  <2>1. /\ stage = "open" /\ stage' = stage /\ alg' = alg /\ out' = out /\ result' = result
        /\ fed' \in fed .. MaxMsg
    BY <1>2, BoundsAssumption DEF HashUpdate, HashInv
  <2>2. Source = <<>> /\ Source' = <<>>
    BY <2>1 DEF Source
  <2>3. Msg!AbsFeed
    BY <2>1, <2>2 DEF Msg!AbsFeed, Source
  <2> QED
    BY <2>3 DEF Msg!AbsNext
<1>3. ASSUME NEW room, HashFinal(room) PROVE Msg!AbsNext
  <2>1. /\ stage = "open" /\ alg.kind # "shake"
        /\ \/ /\ stage' = "closed"
              /\ result' = Digest(PaddedMsg(alg, MsgOf(fed)), OutputOf(alg, alg.hashLen))
           \/ stage' = stage /\ ctx' = ctx /\ result' = TooSmall(alg)
        /\ alg' = alg /\ fed' = fed /\ out' = out
    BY <1>3, FinalCall
  <2>2. Source = <<>> /\ Source' = <<>>
    BY <2>1 DEF Source
  <2>3. \/ stage' = "closed" /\ result' = Msg!DigestOf(alg, fed)
        \/ stage' = stage /\ result' = Msg!TooSmall(alg)
    BY <2>1, MsgTerms
  <2>4. Msg!AbsFinal
    BY <2>1, <2>2, <2>3 DEF Msg!AbsFinal, Source
  <2> QED
    BY <2>4 DEF Msg!AbsNext
<1>4. ASSUME NEW a \in Algs, NEW n \in 0 .. MaxMsg, NEW room, HashOnce(a, n, room)
      PROVE  Msg!AbsNext
  <2>1. /\ result' \in {Digest(PaddedMsg(a, MsgOf(n)), OutputOf(a, a.hashLen)), TooSmall(a)}
        /\ alg' = alg /\ ctx' = ctx /\ stage' = stage /\ fed' = fed /\ out' = out
    BY <1>4, OnceCall
  <2>2. Source' = Source
    BY <2>1 DEF Source
  <2>3. result' \in {Msg!DigestOf(a, n), Msg!TooSmall(a)}
    BY <2>1, MsgTerms
  <2>4. Msg!AbsOnce
    BY <2>1, <2>2, <2>3 DEF Msg!AbsOnce, Source
  <2> QED
    BY <2>4 DEF Msg!AbsNext
<1>5. CASE ShakeFinal
  <2>1. /\ stage = "open" /\ alg.kind = "shake" /\ stage' = "squeezing"
        /\ ctx'.state.in = PaddedMsg(alg, MsgOf(fed))
        /\ alg' = alg /\ fed' = fed /\ out' = out /\ result' = result
    BY <1>5, ShakeCall
  <2>2. Source' = Msg!PaddedMsg(alg, Msg!MsgOf(fed))
    BY <2>1, MsgTerms DEF Source
  <2>3. Msg!AbsShakeFinal
    BY <2>1, <2>2 DEF Msg!AbsShakeFinal, Source
  <2> QED
    BY <2>3 DEF Msg!AbsNext
<1>6. ASSUME NEW n \in 0 .. MaxOut - Len(out), ShakeSqueeze(n) PROVE Msg!AbsNext
  <2>1. /\ stage = "squeezing" /\ stage' = stage
        /\ \E q \in Len(out) .. MaxOut : out' = OutputOf(alg, q)
        /\ ctx'.state.in = ctx.state.in
        /\ alg' = alg /\ fed' = fed /\ result' = result
    BY <1>6, SqueezeCall
  <2>2. Source' = Source
    BY <2>1 DEF Source
  <2>3. \E q \in Len(out) .. MaxOut : out' = Msg!OutputOf(alg, q)
    BY <2>1, MsgTerms
  <2>4. Msg!AbsSqueeze
    BY <2>1, <2>2, <2>3 DEF Msg!AbsSqueeze, Source
  <2> QED
    BY <2>4 DEF Msg!AbsNext
<1>7. CASE UNCHANGED vars
  BY <1>7 DEF vars, Msg!absVars
<1> QED
  BY <1>1, <1>2, <1>3, <1>4, <1>5, <1>6, <1>7 DEF Next

(* For every set of algorithms, every cut of a message into update calls   *)
(* and of an output into squeezes: each digest, one-shot or not, is that   *)
(* of the concatenation, each SHAKE output a piece of its one stream, and  *)
(* a buffer too small changes nothing.                                     *)
THEOREM HashImplementsHash == Spec => ImplementsHash
<1>1. Init => Msg!AbsInit
  <2> SUFFICES ASSUME Init PROVE Msg!AbsInit
    OBVIOUS
  <2>1. Source = <<>>
    BY DEF Init, Source
  <2> QED
    BY <2>1, MsgTerms DEF Init, Msg!AbsInit, Source
<1>2. HashInv /\ [Next]_vars => [Msg!AbsNext]_(Msg!absVars)
  BY HashStep
<1>3. Spec => []HashInv
  BY HashInvAlways
<1> QED
  BY <1>1, <1>2, <1>3, PTL DEF Spec, ImplementsHash, Msg!AbsSpec

-----------------------------------------------------------------------------
(* HMAC and PBKDF2: the SHA-256 contexts under them, whatever bytes they   *)
(* are fed.                                                                *)

(* A string of n bytes.                                                    *)
Str(d, n) == n \in Nat /\ d = [i \in 1 .. n |-> d[i]]

(* A string is a sequence over the set of its bytes.                       *)
LEMMA StrFacts ==
    ASSUME NEW d, NEW n, Str(d, n)
    PROVE  n \in Nat /\ DOMAIN d = 1 .. n /\ Len(d) = n /\ d \in Seq({d[i] : i \in 1 .. n})
<1> DEFINE S == {d[i] : i \in 1 .. n}
<1>1. n \in Nat /\ d = [i \in 1 .. n |-> d[i]]
  BY DEF Str
<1>2. d \in [1 .. n -> S]
  <2>1. \A i \in 1 .. n : d[i] \in S
    OBVIOUS
  <2> HIDE DEF S
  <2> QED
    BY <1>1, <2>1
<1>3. DOMAIN d = 1 .. n
  BY <1>2
<1> HIDE DEF S
<1>4. d \in Seq(S) /\ Len(d) = n
  BY <1>1, <1>2, TableIsSeq
<1> QED
  BY <1>1, <1>3, <1>4 DEF S

(* And a sequence is a string.                                             *)
LEMMA SeqIsStr ==
    ASSUME NEW S, NEW d \in Seq(S)
    PROVE  Str(d, Len(d))
BY DEF Str

(* A table is one.                                                         *)
LEMMA TableIsStr ==
    ASSUME NEW n \in Nat, NEW d, DOMAIN d = 1 .. n, d = [i \in DOMAIN d |-> d[i]]
    PROVE  Str(d, n)
BY DEF Str

(* A larger set of bytes does no harm.                                     *)
LEMMA SeqWider ==
    ASSUME NEW S, NEW T, S \subseteq T, NEW d \in Seq(S)
    PROVE  d \in Seq(T)
<1>1. Len(d) \in Nat /\ d \in [1 .. Len(d) -> S]
  OBVIOUS
<1>2. d \in [1 .. Len(d) -> T]
  BY <1>1
<1> QED
  BY <1>1, <1>2, TableIsSeq

(* Two strings in a row.                                                   *)
Joined(d, n, e, k) ==
    /\ Str(d \o e, n + k) /\ Len(d \o e) = n + k
    /\ \A i \in 1 .. n : (d \o e)[i] = d[i]
    /\ \A i \in 1 .. k : (d \o e)[n + i] = e[i]

LEMMA StrJoined ==
    ASSUME NEW d, NEW n, Str(d, n), NEW e, NEW k, Str(e, k)
    PROVE  Joined(d, n, e, k)
<1> DEFINE S == {d[i] : i \in 1 .. n}
           T == {e[i] : i \in 1 .. k}
<1>1. n \in Nat /\ Len(d) = n /\ d \in Seq(S)
  BY StrFacts
<1>2. k \in Nat /\ Len(e) = k /\ e \in Seq(T)
  BY StrFacts
<1> HIDE DEF S, T
<1> DEFINE U == S \cup T
<1>3. d \in Seq(U) /\ e \in Seq(U)
  <2>1. S \subseteq U /\ T \subseteq U
    OBVIOUS
  <2> HIDE DEF U
  <2> QED
    BY <1>1, <1>2, <2>1, SeqWider
<1> HIDE DEF U
<1>4. d \o e \in Seq(U) /\ Len(d \o e) = n + k
  BY <1>1, <1>2, <1>3, ConcatFacts
<1>5. /\ \A i \in 1 .. Len(d) : (d \o e)[i] = d[i]
      /\ \A i \in 1 .. Len(e) : (d \o e)[Len(d) + i] = e[i]
  BY <1>3, Data!ConcatAt
<1>6. Str(d \o e, n + k)
  BY <1>4, SeqIsStr
<1> QED
  BY <1>1, <1>2, <1>4, <1>5, <1>6 DEF Joined

LEMMA StrConcat ==
    ASSUME NEW d, NEW n, Str(d, n), NEW e, NEW k, Str(e, k)
    PROVE  Str(d \o e, n + k) /\ Len(d \o e) = n + k
BY StrJoined DEF Joined

(* Concatenation of strings associates, and has a unit.                    *)
LEMMA StrAssoc ==
    ASSUME NEW d, NEW n, Str(d, n), NEW e, NEW k, Str(e, k), NEW f, NEW l, Str(f, l)
    PROVE  (d \o e) \o f = d \o (e \o f)
<1> DEFINE S == {d[i] : i \in 1 .. n}
           T == {e[i] : i \in 1 .. k}
           V == {f[i] : i \in 1 .. l}
           U == (S \cup T) \cup V
<1>1. d \in Seq(S) /\ e \in Seq(T) /\ f \in Seq(V)
  BY StrFacts
<1>2. S \subseteq U /\ T \subseteq U /\ V \subseteq U
  OBVIOUS
<1> HIDE DEF S, T, V, U
<1>3. d \in Seq(U) /\ e \in Seq(U) /\ f \in Seq(U)
  BY <1>1, <1>2, SeqWider
<1> QED
  BY ONLY <1>3, ConcatAssoc

(* Nothing in front, nothing behind.                                       *)
LEMMA StrUnit ==
    ASSUME NEW d, NEW n, Str(d, n)
    PROVE  d \o <<>> = d /\ <<>> \o d = d
<1> DEFINE S == {d[i] : i \in 1 .. n}
<1>1. d \in Seq(S) /\ <<>> \in Seq(S)
  BY StrFacts
<1> HIDE DEF S
<1> QED
  BY ONLY <1>1, ConcatFacts

(* The algorithm that HMAC is built on.                                    *)
LEMMA ShaFacts ==
    /\ Sha \in MdAlg /\ IsMd(Sha) /\ Sha.words = 1
    /\ Sha.block \in Nat \ {0} /\ Sha.hashLen \in 1 .. Sha.block
BY KdfAssumption DEF MdAlg, Alg, IsMd

(* A context over some bytes is one over more of them.                     *)
LEMMA MdHoldsWider ==
    ASSUME NEW S, NEW T, S \subseteq T, NEW c, NEW m, MdHolds(S, Sha, c, m)
    PROVE  MdHolds(T, Sha, c, m)
<1>1. /\ Byte \subseteq S /\ m \in Seq(S)
      /\ Sha \in MdAlg /\ c \in MdCtxOver(S, Sha) /\ Aligned(Sha, c)
      /\ Held(c) = m /\ c.count = BitCount(Sha, Len(m))
  BY DEF MdHolds
<1>2. Byte \subseteq T /\ m \in Seq(T)
  BY <1>1, SeqWider
<1>3. /\ c.state \in Seq(S) /\ c.buffer \in [1 .. Sha.block -> S]
      /\ c.len \in 0 .. Sha.block - 1 /\ c.count \in Nat \X Nat
      /\ c = MdRec(c.state, c.buffer, c.len, c.count)
  BY <1>1, CtxFields
<1>4. c.state \in Seq(T) /\ c.buffer \in [1 .. Sha.block -> T]
  <2>1. c.state \in Seq(T)
    BY <1>3, SeqWider
  <2>2. c.buffer \in [1 .. Sha.block -> T]
    BY <1>3
  <2> QED
    BY <2>1, <2>2
<1>5. MdRec(c.state, c.buffer, c.len, c.count) \in MdCtxOver(T, Sha)
  BY <1>1, <1>3, <1>4, RecIsCtx
<1> QED
  BY <1>1, <1>2, <1>3, <1>5 DEF MdHolds

(* A SHA-256 context to which the string m has been fed.                   *)
ShaHolds(c, m) == \E S : MdHolds(S, Sha, c, m)

(* A fresh one has been fed nothing.                                       *)
LEMMA ShaInit == ShaHolds(MdInit(Sha), <<>>)
<1> DEFINE c == MdInit(Sha)
<1>1. Sha \in MdAlg /\ Byte \subseteq Byte
  BY ShaFacts
<1>2. MdHolds(Byte, Sha, c, <<>>)
  BY <1>1, InitFacts
<1> QED
  BY <1>2 DEF ShaHolds

(* Feeding a string appends it.                                            *)
LEMMA ShaUpdate ==
    ASSUME NEW c, NEW m, ShaHolds(c, m), NEW d, NEW n, Str(d, n), Fits(Len(m) + n)
    PROVE  ShaHolds(Updated(c, d), m \o d) /\ Str(m, Len(m))
<1>1. PICK S : MdHolds(S, Sha, c, m)
  BY DEF ShaHolds
<1> DEFINE D == {d[i] : i \in 1 .. n}
           T == S \cup D
           u == Updated(c, d)
<1>2. n \in Nat /\ Len(d) = n /\ d \in Seq(D)
  BY StrFacts
<1>3. S \subseteq T /\ D \subseteq T
  OBVIOUS
<1> HIDE DEF D, T
<1>4. MdHolds(T, Sha, c, m)
  BY <1>1, <1>3, MdHoldsWider
<1>5. d \in Seq(T)
  BY <1>2, <1>3, SeqWider
<1>6. m \in Seq(S)
  BY <1>1 DEF MdHolds
<1>7. Len(m) \in Nat /\ Str(m, Len(m))
  BY <1>6, SeqIsStr
<1>8. IsMd(Sha) /\ CallFits(Sha, Len(m) + Len(d), Len(d))
  <2>1. 8 * (Len(m) + n) < WordMod
    BY DEF Fits
  <2>2. 8 * n < WordMod
    BY <1>2, <1>7, <2>1, WordAssumption
  <2> QED
    BY <1>2, <2>1, <2>2, ShaFacts DEF CallFits
<1>9. u = MdUpdate(Sha, c, d)
  BY DEF Updated
<1> HIDE DEF u
<1>10. MdHolds(T, Sha, u, m \o d)
  BY ONLY <1>4, <1>5, <1>8, <1>9, MdHoldsUpdate
<1> QED
  BY <1>7, <1>10 DEF ShaHolds, u

(* The final hashes what was fed.                                          *)
LEMMA ShaFinal ==
    ASSUME NEW c, NEW m, ShaHolds(c, m)
    PROVE  HashBytes(MdFinal(Sha, c).state) = H(m)
<1>1. PICK S : MdHolds(S, Sha, c, m)
  BY DEF ShaHolds
<1> DEFINE u == MdFinal(Sha, c)
<1>2. u.state = MdPadded(Sha, m)
  <2>1. u = MdFinal(Sha, c)
    OBVIOUS
  <2> HIDE DEF u
  <2> QED
    BY ONLY <1>1, <2>1, FinalFacts
<1> QED
  BY <1>2 DEF H

(* A digest has its length, whatever was hashed.                           *)
LEMMA HashStr ==
    ASSUME NEW m
    PROVE  Str(HashBytes(m), Sha.hashLen)
<1>1. Sha.hashLen \in Nat
  BY ShaFacts
<1> QED
  BY <1>1 DEF HashBytes, Str

(* A string hashed in one call.                                            *)
LEMMA ShaOfIs ==
    ASSUME NEW d, NEW n, Str(d, n), Fits(n)
    PROVE  ShaOf(d) = H(d)
<1>1. ShaHolds(MdInit(Sha), <<>>) /\ Len(<<>>) = 0 /\ n \in Nat
  BY ShaInit, StrFacts
<1>2. Fits(Len(<<>>) + n)
  BY <1>1
<1> DEFINE u == Updated(MdInit(Sha), d)
           e == <<>>
           c == MdInit(Sha)
<1>3. ShaHolds(u, <<>> \o d)
  <2>1. ShaHolds(c, e) /\ Fits(Len(e) + n)
    BY <1>1, <1>2
  <2> HIDE DEF c, e
  <2>2. ShaHolds(Updated(c, d), e \o d)
    BY <2>1, ShaUpdate
  <2> QED
    BY <2>2 DEF c, e
<1>4. <<>> \o d = d
  BY StrUnit
<1> HIDE DEF u
<1>5. ShaHolds(u, d)
  BY <1>3, <1>4
<1>6. HashBytes(MdFinal(Sha, u).state) = H(d)
  BY <1>5, ShaFinal
<1> QED
  BY <1>6 DEF ShaOf, u

(* The key of RFC 2104, filled up to a block.                              *)
RefKey(key) == Filled(IF Len(key) > Sha.block THEN H(key) ELSE key)

(* Filling up gives a block.                                               *)
LEMMA FilledStr ==
    ASSUME NEW d, NEW n, Str(d, n), n <= Sha.block
    PROVE  Str(Filled(d), Sha.block)
<1> DEFINE k == Sha.block - n
           z == Zeros(k)
<1>0. n \in Nat /\ Len(d) = n
  BY StrFacts
<1>1. n \in Nat /\ Len(d) = n /\ k \in Nat /\ n + k = Sha.block
  BY <1>0, ShaFacts
<1>2. Str(z, k)
  BY <1>1 DEF Zeros, Str
<1> HIDE DEF k, z
<1>3. Str(d \o z, n + k)
  BY <1>2, StrConcat
<1>4. Filled(d) = d \o z
  BY <1>1 DEF Filled, z, k
<1> QED
  BY <1>1, <1>3, <1>4

(* So does the addition of a pad.                                          *)
LEMMA XorPadStr ==
    ASSUME NEW d, NEW n, Str(d, n), NEW pad
    PROVE  Str(XorPad(d, pad), n)
<1>1. n \in Nat /\ DOMAIN d = 1 .. n
  BY StrFacts
<1> QED
  BY <1>1 DEF XorPad, Str

(* The code's key block is RFC 2104's.                                     *)
LEMMA KeyBlockIs ==
    ASSUME NEW key, NEW n, Str(key, n), Fits(n)
    PROVE  KeyBlock(key) = RefKey(key) /\ Str(RefKey(key), Sha.block)
<1>1. n \in Nat /\ Len(key) = n
  BY StrFacts
<1>2. ShaOf(key) = H(key)
  BY ShaOfIs
<1>3. KeyBlock(key) = RefKey(key)
  BY <1>2 DEF KeyBlock, RefKey
<1>4. CASE n > Sha.block
  <2> DEFINE h == H(key)
             l == Sha.hashLen
  <2>1. Str(h, l) /\ l <= Sha.block
    BY HashStr, ShaFacts DEF H
  <2>2. RefKey(key) = Filled(h)
    BY <1>1, <1>4 DEF RefKey
  <2> HIDE DEF h, l
  <2>3. Str(Filled(h), Sha.block)
    BY <2>1, FilledStr
  <2> QED
    BY <1>3, <2>2, <2>3
<1>5. CASE ~ (n > Sha.block)
  <2>1. RefKey(key) = Filled(key) /\ n <= Sha.block
    BY <1>1, <1>5, ShaFacts DEF RefKey
  <2>2. Str(Filled(key), Sha.block)
    BY <2>1, FilledStr
  <2> QED
    BY <1>3, <2>1, <2>2
<1> QED
  BY <1>4, <1>5

(* An HMAC context to which data has been fed under a key.                 *)
HmacHolds(x, key, data) ==
    /\ ShaHolds(x.inner, XorPad(RefKey(key), Ipad) \o data)
    /\ x = [inner |-> x.inner, opad |-> XorPad(RefKey(key), Opad)]

(* The padded key takes one block, in front of the data.                   *)
LEMMA InnerStr ==
    ASSUME NEW key, NEW n, Str(key, n), Fits(n), NEW data, NEW k, Str(data, k)
    PROVE  /\ Str(XorPad(RefKey(key), Ipad), Sha.block)
           /\ Str(XorPad(RefKey(key), Opad), Sha.block)
           /\ Str(XorPad(RefKey(key), Ipad) \o data, Sha.block + k)
           /\ Len(XorPad(RefKey(key), Ipad) \o data) = Sha.block + k
<1> DEFINE p == XorPad(RefKey(key), Ipad)
<1>1. Str(RefKey(key), Sha.block)
  BY KeyBlockIs
<1>2. Str(p, Sha.block) /\ Str(XorPad(RefKey(key), Opad), Sha.block)
  BY <1>1, XorPadStr
<1> HIDE DEF p
<1>3. Str(p \o data, Sha.block + k) /\ Len(p \o data) = Sha.block + k
  BY <1>2, StrConcat
<1> QED
  BY <1>2, <1>3 DEF p

(* A fresh one has been fed nothing.                                       *)
LEMMA HmacInitIs ==
    ASSUME NEW key, NEW n, Str(key, n), Fits(n), Fits(Sha.block)
    PROVE  HmacHolds(HmacInit(key), key, <<>>)
<1> DEFINE p == XorPad(RefKey(key), Ipad)
           o == XorPad(RefKey(key), Opad)
           c == MdInit(Sha)
           e == <<>>
<1>1. KeyBlock(key) = RefKey(key) /\ Str(RefKey(key), Sha.block)
  BY KeyBlockIs
<1>2. Str(p, Sha.block)
  BY <1>1, XorPadStr
<1>3. ShaHolds(c, e) /\ Len(e) = 0 /\ 0 + Sha.block = Sha.block
  BY ShaInit, ShaFacts
<1>4. HmacInit(key) = [inner |-> Updated(c, p), opad |-> o]
  BY <1>1 DEF HmacInit
<1>5. e \o p = p /\ p \o <<>> = p
  <2> HIDE DEF p
  <2> QED
    BY <1>2, StrUnit
<1> HIDE DEF p, o, c, e
<1>6. ShaHolds(Updated(c, p), e \o p)
  BY <1>2, <1>3, ShaUpdate
<1>7. ShaHolds(Updated(c, p), p \o <<>>)
  BY <1>5, <1>6
<1>8. HmacInit(key).inner = Updated(c, p)
  BY <1>4
<1> QED
  BY <1>4, <1>7, <1>8 DEF HmacHolds, p, o

(* Feeding a string appends it.                                            *)
LEMMA HmacUpdateIs ==
    ASSUME NEW key, NEW n, Str(key, n), Fits(n), NEW data, NEW k, Str(data, k),
           NEW x, HmacHolds(x, key, data),
           NEW d, NEW l, Str(d, l), Fits(Sha.block + k + l)
    PROVE  HmacHolds(HmacUpdate(x, d), key, data \o d)
<1> DEFINE p == XorPad(RefKey(key), Ipad)
           o == XorPad(RefKey(key), Opad)
           m == p \o data
           u == Updated(x.inner, d)
<1>1. Str(p, Sha.block) /\ Len(m) = Sha.block + k
  BY InnerStr
<1>2. ShaHolds(x.inner, m) /\ x = [inner |-> x.inner, opad |-> o]
  BY DEF HmacHolds
<1>3. (p \o data) \o d = p \o (data \o d)
  <2> HIDE DEF p
  <2> QED
    BY <1>1, StrAssoc
<1> HIDE DEF p, o, m
<1>4. ShaHolds(u, m \o d)
  <2>1. Fits(Len(m) + l)
    BY <1>1
  <2> QED
    BY <1>2, <2>1, ShaUpdate
<1>5. HmacUpdate(x, d) = [inner |-> u, opad |-> o]
  <2>1. [[inner |-> x.inner, opad |-> o] EXCEPT !.inner = Updated(@, d)] = [inner |-> u, opad |-> o]
    BY DEF u
  <2> QED
    BY <1>2, <2>1 DEF HmacUpdate
<1> HIDE DEF u
<1>6. HmacUpdate(x, d).inner = u
  BY <1>5
<1>7. m \o d = p \o (data \o d)
  BY <1>3 DEF m
<1> QED
  BY <1>4, <1>5, <1>6, <1>7 DEF HmacHolds, p, o

(* The final gives RFC 2104's code.                                        *)
LEMMA HmacFinalIs ==
    ASSUME NEW key, NEW n, Str(key, n), Fits(n), NEW data, NEW x, HmacHolds(x, key, data),
           Fits(Sha.block + Sha.hashLen)
    PROVE  HmacFinal(x) = HmacOf(key, data) /\ Str(HmacFinal(x), Sha.hashLen)
<1> DEFINE p == XorPad(RefKey(key), Ipad)
           o == XorPad(RefKey(key), Opad)
           h == H(p \o data)
           c == MdInit(Sha)
           e == <<>>
<1>1. Str(o, Sha.block)
  <2>1. Str(RefKey(key), Sha.block)
    BY KeyBlockIs
  <2> QED
    BY <2>1, XorPadStr
<1>2. HashBytes(MdFinal(Sha, x.inner).state) = h /\ x.opad = o
  <2>1. ShaHolds(x.inner, p \o data) /\ x = [inner |-> x.inner, opad |-> o]
    BY DEF HmacHolds
  <2> HIDE DEF p, o
  <2>2. x.opad = o
    BY <2>1
  <2> QED
    BY <2>1, <2>2, ShaFinal
<1>3. Str(h, Sha.hashLen)
  BY HashStr DEF H
<1>4. /\ ShaHolds(c, e) /\ Len(e) = 0 /\ 0 + Sha.block = Sha.block
      /\ Fits(Sha.block)
  <2>1. 8 * Sha.block < WordMod
    BY ShaFacts, WordAssumption DEF Fits
  <2> QED
    BY <2>1, ShaInit, ShaFacts DEF Fits
<1>5. HmacOf(key, data) = H(o \o h)
  BY DEF HmacOf, RefKey
<1>6. HmacFinal(x) = HashBytes(MdFinal(Sha, Updated(Updated(c, o), h)).state)
  BY <1>2 DEF HmacFinal
<1> HIDE DEF p, o, h, c, e
<1> DEFINE u == Updated(c, o)
           v == Updated(u, h)
<1>7. ShaHolds(u, e \o o) /\ Len(e \o o) = Sha.block
  <2>1. ShaHolds(u, e \o o)
    BY <1>1, <1>4, ShaUpdate
  <2>2. e \o o = o /\ Len(o) = Sha.block
    BY <1>1, StrUnit, StrFacts DEF e
  <2> QED
    BY <2>1, <2>2
<1> HIDE DEF u
<1>8. ShaHolds(v, (e \o o) \o h)
  BY <1>3, <1>7, ShaUpdate
<1>9. e \o o = o
  BY <1>1, StrUnit DEF e
<1> HIDE DEF v
<1>10. HashBytes(MdFinal(Sha, v).state) = H(o \o h)
  BY <1>8, <1>9, ShaFinal
<1>11. HmacFinal(x) = H(o \o h)
  BY <1>6, <1>10 DEF u, v
<1>12. Str(H(o \o h), Sha.hashLen)
  BY HashStr DEF H
<1> QED
  BY <1>5, <1>11, <1>12

(* While an HMAC is open its context holds what was fed under its key.     *)
HmacInv ==
    /\ \/ given = Unused
       \/ /\ given \in [key : KeyLens, data : 0 .. MaxData]
          /\ HmacHolds(hmac, KeyOf(given.key), MsgOf(given.data))
    /\ HmacExact

(* Keys, salts and the bytes fed are strings within the limit.             *)
LEMMA KeyStr ==
    ASSUME NEW n \in KeyLens
    PROVE  Str(KeyOf(n), n) /\ Fits(n)
BY KdfAssumption, LengthAssumption DEF KeyOf, Str

LEMMA MsgStr ==
    ASSUME NEW n \in Nat
    PROVE  Str(MsgOf(n), n)
BY DEF MsgOf, Str

(* What fits leaves room for less.                                         *)
LEMMA FitsLess ==
    ASSUME NEW n \in Nat, NEW k \in 0 .. n, Fits(n)
    PROVE  Fits(k)
BY WordAssumption DEF Fits

(* Every step keeps the invariant.                                         *)
LEMMA HmacInvInit == KdfInit => HmacInv
BY DEF KdfInit, HmacInv, HmacExact, NoResultYet

LEMMA HmacInvStart ==
    ASSUME NEW n \in KeyLens, StartHmac(n)
    PROVE  HmacInv'
<1>1. Str(KeyOf(n), n) /\ Fits(n) /\ Fits(Sha.block)
  <2>1. Fits(Sha.block + MaxData) /\ MaxData \in Nat /\ Sha.block \in Nat
    BY KdfAssumption, LengthAssumption, ShaFacts
  <2>2. Fits(Sha.block)
    <3>1. Sha.block \in 0 .. Sha.block + MaxData
      BY <2>1
    <3> QED
      BY <2>1, <3>1, FitsLess
  <2> QED
    BY <2>2, KeyStr
<1>2. HmacHolds(HmacInit(KeyOf(n)), KeyOf(n), <<>>)
  BY <1>1, HmacInitIs
<1>3. hmac' = HmacInit(KeyOf(n)) /\ given' = [key |-> n, data |-> 0] /\ derived' = NoResultYet
  BY DEF StartHmac
<1>4. given' \in [key : KeyLens, data : 0 .. MaxData] /\ given'.key = n /\ given'.data = 0
  BY <1>3, KdfAssumption
<1>5. MsgOf(0) = <<>>
  BY DEF MsgOf
<1>6. HmacHolds(hmac', KeyOf(given'.key), MsgOf(given'.data))
  BY <1>2, <1>3, <1>4, <1>5
<1>7. HmacExact'
  BY <1>3 DEF HmacExact, NoResultYet
<1> QED
  BY <1>4, <1>6, <1>7 DEF HmacInv, HmacHolds, ShaHolds, MdHolds

LEMMA HmacInvFeed ==
    ASSUME HmacInv, NEW n \in 0 .. MaxData, FeedHmac(n)
    PROVE  HmacInv'
<1> DEFINE key  == KeyOf(given.key)
           k    == given.data
           data == MsgOf(k)
           d    == [i \in 1 .. n |-> MsgByte(k + i)]
<1>1. /\ given \in [key : KeyLens, data : 0 .. MaxData]
      /\ HmacHolds(hmac, key, data)
      /\ hmac' = HmacUpdate(hmac, d)
      /\ given' = [given EXCEPT !.data = @ + n] /\ derived' = derived
      /\ k + n <= MaxData
  BY DEF HmacInv, FeedHmac, Open, Unused
<1>2. k \in Nat /\ n \in Nat /\ k + n \in 0 .. MaxData /\ given.key \in KeyLens
  BY <1>1, KdfAssumption
<1>3. /\ given' \in [key : KeyLens, data : 0 .. MaxData]
      /\ given'.key = given.key /\ given'.data = k + n
  BY <1>1, <1>2
<1>4. Str(key, given.key) /\ Fits(given.key) /\ Str(data, k)
  BY <1>2, KeyStr, MsgStr
<1>5. Str(d, n) /\ data \o d = MsgOf(k + n)
  <2>1. d \in Seq(Byte) /\ Len(d) = n /\ data \o d = MsgOf(k + n)
    BY <1>2, FedFacts
  <2> HIDE DEF d
  <2> QED
    BY <2>1, SeqIsStr
<1>6. Fits(Sha.block + k + n)
  <2>1. Fits(Sha.block + MaxData) /\ Sha.block + MaxData \in Nat
    BY KdfAssumption, LengthAssumption, ShaFacts
  <2>2. Sha.block + k + n \in 0 .. Sha.block + MaxData
    BY <1>2, ShaFacts, KdfAssumption
  <2> QED
    BY <2>1, <2>2, FitsLess
<1> HIDE DEF key, k, data, d
<1>7. HmacHolds(HmacUpdate(hmac, d), key, data \o d)
  BY <1>1, <1>4, <1>5, <1>6, HmacUpdateIs
<1>8. HmacHolds(hmac', KeyOf(given'.key), MsgOf(given'.data))
  BY <1>1, <1>3, <1>5, <1>7 DEF key
<1>9. HmacExact'
  BY <1>1 DEF HmacInv, HmacExact
<1> QED
  BY <1>3, <1>8, <1>9 DEF HmacInv, HmacHolds, ShaHolds, MdHolds

LEMMA HmacInvEnd ==
    ASSUME HmacInv, EndHmac
    PROVE  HmacInv'
<1> DEFINE key  == KeyOf(given.key)
           data == MsgOf(given.data)
<1>1. /\ given \in [key : KeyLens, data : 0 .. MaxData] /\ HmacHolds(hmac, key, data)
      /\ given' = Unused
      /\ derived' = [NoResultYet EXCEPT !.of = "hmac", !.key = given.key,
                                        !.data = given.data, !.out = HmacFinal(hmac)]
  BY DEF HmacInv, EndHmac, Open, Unused
<1>2. Str(key, given.key) /\ Fits(given.key)
  BY <1>1, KeyStr
<1>3. Fits(Sha.block + Sha.hashLen)
  BY LengthAssumption
<1> HIDE DEF key, data
<1>4. HmacFinal(hmac) = HmacOf(key, data)
  BY <1>1, <1>2, <1>3, HmacFinalIs
<1>5. /\ derived'.of = "hmac" /\ derived'.key = given.key
      /\ derived'.data = given.data /\ derived'.out = HmacFinal(hmac)
  BY <1>1 DEF NoResultYet
<1>6. derived'.out = HmacOf(KeyOf(derived'.key), MsgOf(derived'.data))
  BY <1>4, <1>5 DEF key, data
<1>7. HmacExact'
  BY <1>6 DEF HmacExact
<1> QED
  BY <1>1, <1>7 DEF HmacInv

LEMMA HmacInvNext == HmacInv /\ [KdfNext]_kdfVars => HmacInv'
<1> SUFFICES ASSUME HmacInv, [KdfNext]_kdfVars PROVE HmacInv'
  OBVIOUS
<1>1. ASSUME NEW n \in KeyLens, StartHmac(n) PROVE HmacInv'
  BY <1>1, HmacInvStart
<1>2. ASSUME NEW n \in 0 .. MaxData, FeedHmac(n) PROVE HmacInv'
  BY <1>2, HmacInvFeed
<1>3. CASE EndHmac
  BY <1>3, HmacInvEnd
<1>4. ASSUME NEW p, NEW s, NEW c, NEW n, Derive(p, s, c, n) PROVE HmacInv'
  <2>1. hmac' = hmac /\ given' = given /\ derived'.of = "pbkdf2"
    BY <1>4 DEF Derive
  <2> QED
    BY <2>1 DEF HmacInv, HmacExact, HmacHolds, ShaHolds, MdHolds
<1>5. CASE UNCHANGED kdfVars
  BY <1>5 DEF kdfVars, HmacInv, HmacExact, HmacHolds, ShaHolds, MdHolds
<1> QED
  BY <1>1, <1>2, <1>3, <1>4, <1>5 DEF KdfNext

(* sdc_hmac_sha256_init, _update and _final give RFC 2104's code of all    *)
(* the bytes fed, for every key, however the data is cut.                  *)
THEOREM HmacIsExact == KdfSpec => []HmacExact
<1>1. HmacInv => HmacExact
  BY DEF HmacInv
<1> QED
  BY <1>1, HmacInvInit, HmacInvNext, PTL DEF KdfSpec

(* A code of one piece of data.                                            *)
LEMMA HmacIs ==
    ASSUME NEW key, NEW n, Str(key, n), Fits(n), NEW d, NEW k, Str(d, k),
           Fits(Sha.block + k), Fits(Sha.block + Sha.hashLen)
    PROVE  Hmac(key, d) = HmacOf(key, d) /\ Str(Hmac(key, d), Sha.hashLen)
<1> DEFINE x == HmacInit(key)
           y == HmacUpdate(x, d)
           e == <<>>
<1>1. k \in Nat /\ Fits(Sha.block) /\ Str(e, 0) /\ Sha.block + 0 + k = Sha.block + k
  <2>1. k \in Nat
    BY StrFacts
  <2>2. Sha.block + k \in Nat /\ Sha.block \in 0 .. Sha.block + k
    BY <2>1, ShaFacts
  <2>3. Fits(Sha.block)
    BY <2>2, FitsLess
  <2>4. Str(e, 0)
    BY DEF Str
  <2> QED
    BY <2>1, <2>3, <2>4, ShaFacts
<1>2. HmacHolds(x, key, e)
  BY <1>1, HmacInitIs
<1>3. e \o d = d
  BY StrUnit
<1>4. Hmac(key, d) = HmacFinal(y)
  BY DEF Hmac
<1> HIDE DEF x, e
<1>5. Fits(Sha.block + 0 + k)
  BY <1>1
<1>6. HmacHolds(y, key, e \o d)
  BY <1>1, <1>2, <1>5, HmacUpdateIs
<1>7. HmacHolds(y, key, d)
  BY <1>3, <1>6
<1> HIDE DEF y
<1>8. HmacFinal(y) = HmacOf(key, d) /\ Str(HmacFinal(y), Sha.hashLen)
  BY <1>7, HmacFinalIs
<1> QED
  BY <1>4, <1>8

(* U_1 is the code of the salt and the block's number.                     *)
LEMMA FirstUIs ==
    ASSUME NEW key, NEW n, Str(key, n), Fits(n), NEW salt, NEW k, Str(salt, k), NEW b,
           Fits(Sha.block + k + 4), Fits(Sha.block + Sha.hashLen)
    PROVE  /\ FirstU(key, salt, b) = HmacOf(key, salt \o Store32(b))
           /\ Str(FirstU(key, salt, b), Sha.hashLen)
<1> DEFINE x == HmacInit(key)
           y == HmacUpdate(x, salt)
           z == HmacUpdate(y, Store32(b))
           e == <<>>
<1>1. /\ k \in Nat /\ Fits(Sha.block) /\ Str(e, 0)
      /\ Fits(Sha.block + k) /\ Sha.block + 0 + k = Sha.block + k
  <2>1. k \in Nat
    BY StrFacts
  <2>2. /\ Sha.block + k + 4 \in Nat /\ Sha.block \in 0 .. Sha.block + k + 4
        /\ Sha.block + k \in 0 .. Sha.block + k + 4
    BY <2>1, ShaFacts
  <2>3. Fits(Sha.block) /\ Fits(Sha.block + k)
    BY <2>2, FitsLess
  <2>4. Str(e, 0)
    BY DEF Str
  <2> QED
    BY <2>1, <2>3, <2>4, ShaFacts
<1>2. HmacHolds(x, key, e)
  BY <1>1, HmacInitIs
<1>3. e \o salt = salt
  BY StrUnit
<1>4. FirstU(key, salt, b) = HmacFinal(z)
  BY DEF FirstU
<1> HIDE DEF x, e
<1>5. Fits(Sha.block + 0 + k)
  BY <1>1
<1>6. HmacHolds(y, key, e \o salt)
  BY <1>1, <1>2, <1>5, HmacUpdateIs
<1>7. HmacHolds(y, key, salt)
  BY <1>3, <1>6
<1> HIDE DEF y
<1>8. Str(Store32(b), 4)
  <2>1. 4 \in Nat
    OBVIOUS
  <2> QED
    BY <2>1 DEF Store32, Str
<1>9. HmacHolds(z, key, salt \o Store32(b))
  BY <1>7, <1>8, HmacUpdateIs
<1> HIDE DEF z
<1>10. HmacFinal(z) = HmacOf(key, salt \o Store32(b)) /\ Str(HmacFinal(z), Sha.hashLen)
  BY <1>9, HmacFinalIs
<1> QED
  BY <1>4, <1>10

-----------------------------------------------------------------------------
(* The sum of strings.                                                     *)

(* What is in a sum: what an odd number of the strings have there.         *)
LEMMA InSum ==
    ASSUME NEW u, IsFiniteSet(DOMAIN u), NEW k, NEW x
    PROVE  x \in SumAt(u, k) <=> Cardinality({i \in DOMAIN u : u[i][k] = x}) % 2 = 1
<1> DEFINE A == {i \in DOMAIN u : u[i][k] = x}
<1>1. ASSUME Cardinality(A) % 2 = 1 PROVE x \in {u[i][k] : i \in DOMAIN u}
  <2>1. A # {}
    <3>1. Cardinality({}) = 0 /\ 0 % 2 = 0
      BY FS_EmptySet
    <3> HIDE DEF A
    <3> QED
      BY <1>1, <3>1
  <2> QED
    BY <2>1
<1> QED
  BY <1>1 DEF SumAt

(* One string more is added to the sum.                                    *)
LEMMA SumStep ==
    ASSUME NEW n \in Nat, NEW u, DOMAIN u = 1 .. n + 1, NEW v, v = [i \in 1 .. n |-> u[i]],
           NEW k
    PROVE  SumAt(u, k) = SymDiff(SumAt(v, k), {u[n + 1][k]})
<1>1. IsFiniteSet(1 .. n) /\ IsFiniteSet(1 .. n + 1)
  BY FS_Interval
<1>2. ASSUME NEW x
      PROVE  x \in SumAt(u, k) <=> ~ (x \in SumAt(v, k) <=> x = u[n + 1][k])
  <2> DEFINE A == {i \in 1 .. n : u[i][k] = x}
             C == {i \in 1 .. n + 1 : u[i][k] = x}
  <2>1. /\ x \in SumAt(v, k) <=> Cardinality(A) % 2 = 1
        /\ x \in SumAt(u, k) <=> Cardinality(C) % 2 = 1
    <3>1. DOMAIN v = 1 .. n /\ \A i \in 1 .. n : v[i] = u[i]
      OBVIOUS
    <3>2. {i \in DOMAIN v : v[i][k] = x} = A /\ {i \in DOMAIN u : u[i][k] = x} = C
      BY <3>1
    <3> HIDE DEF A, C
    <3>3. x \in SumAt(v, k) <=> Cardinality({i \in DOMAIN v : v[i][k] = x}) % 2 = 1
      BY <1>1, <3>1, InSum
    <3>4. x \in SumAt(u, k) <=> Cardinality({i \in DOMAIN u : u[i][k] = x}) % 2 = 1
      BY <1>1, InSum
    <3> QED
      BY <3>2, <3>3, <3>4
  <2>2. IsFiniteSet(A)
    <3>1. A \subseteq 1 .. n
      OBVIOUS
    <3> QED
      BY <1>1, <3>1, FS_Subset
  <2>3. Cardinality(A) \in Nat
    BY <2>2, FS_CardinalityType
  <2>4. CASE u[n + 1][k] = x
    <3>1. C = A \cup {n + 1} /\ n + 1 \notin A
      BY <2>4
    <3> HIDE DEF A, C
    <3>2. Cardinality(C) = Cardinality(A) + 1
      BY <2>2, <3>1, FS_AddElement
    <3>3. Cardinality(C) % 2 = 1 <=> ~ (Cardinality(A) % 2 = 1)
      BY <2>3, <3>2
    <3> QED
      BY <2>1, <2>4, <3>3
  <2>5. CASE u[n + 1][k] # x
    <3>1. C = A
      BY <2>5
    <3> QED
      BY <2>1, <2>5, <3>1
  <2> QED
    BY <2>4, <2>5
<1> QED
  BY <1>2 DEF SymDiff

(* The sum of one string is its bytes.                                     *)
LEMMA SumOne ==
    ASSUME NEW u, DOMAIN u = 1 .. 1, NEW k
    PROVE  SumAt(u, k) = {u[1][k]}
<1> DEFINE v == [i \in 1 .. 0 |-> u[i]]
<1>1. SumAt(v, k) = {}
  <2>1. DOMAIN v = {}
    OBVIOUS
  <2> HIDE DEF v
  <2> QED
    BY <2>1 DEF SumAt
<1>2. 0 \in Nat /\ 0 + 1 = 1
  OBVIOUS
<1> HIDE DEF v
<1>3. SumAt(u, k) = SymDiff(SumAt(v, k), {u[0 + 1][k]})
  BY <1>2, SumStep, ZenonT(60) DEF v
<1> QED
  BY <1>1, <1>2, <1>3 DEF SymDiff

-----------------------------------------------------------------------------
(* The runs of PBKDF2: the strings of RFC 8018, and the code's loop.       *)
USteps(p, s, b, j, g) == HmacOf(p, IF j = 1 THEN s \o Store32(b) ELSE g[j - 1])
URun(p, s, b, n, g)   == g = [j \in 1 .. n |-> USteps(p, s, b, j, g)]

RSteps(p, s, b, i, g) ==
    IF i = 1 THEN FirstSum(FirstU(p, s, b)) ELSE Iterated(p, g[i - 1])
RRun(p, s, b, n, g)   == g = [i \in 1 .. n |-> RSteps(p, s, b, i, g)]

(* There are runs of every length.                                         *)
LEMMA URuns ==
    ASSUME NEW p, NEW s, NEW b
    PROVE  \A n \in Nat : \E g : URun(p, s, b, n, g)
<1> DEFINE S == {n \in Nat : \E g : URun(p, s, b, n, g)}
<1>1. 0 \in S
  <2> DEFINE f == [j \in 1 .. 0 |-> 0]
  <2>1. f = [j \in 1 .. 0 |-> USteps(p, s, b, j, f)]
    OBVIOUS
  <2> QED
    BY <2>1 DEF URun
<1>2. ASSUME NEW n \in Nat, n \in S PROVE n + 1 \in S
  <2>1. PICK f : URun(p, s, b, n, f)
    BY <1>2
  <2> DEFINE g == [j \in 1 .. n + 1 |-> IF j <= n THEN f[j] ELSE USteps(p, s, b, n + 1, f)]
  <2>2. \A j \in 1 .. n : f[j] = USteps(p, s, b, j, f)
    BY <2>1 DEF URun
  <2>3. ASSUME NEW j \in 1 .. n + 1 PROVE g[j] = USteps(p, s, b, j, g)
    <3>1. j = 1 \/ g[j - 1] = f[j - 1]
      OBVIOUS
    <3>2. USteps(p, s, b, j, g) = USteps(p, s, b, j, f)
      <4> HIDE DEF g
      <4> QED
        BY <3>1 DEF USteps
    <3>3. CASE j \in 1 .. n
      BY <2>2, <3>2, <3>3
    <3>4. CASE j = n + 1
      BY <3>2, <3>4
    <3> QED
      BY <3>3, <3>4
  <2>4. g = [j \in 1 .. n + 1 |-> g[j]]
    OBVIOUS
  <2> HIDE DEF g
  <2>5. URun(p, s, b, n + 1, g)
    BY <2>3, <2>4 DEF URun
  <2> QED
    BY <2>5
<1> HIDE DEF S
<1>3. \A n \in Nat : n \in S
  BY <1>1, <1>2, Data!SetInduction
<1> QED
  BY <1>3 DEF S

LEMMA RRuns ==
    ASSUME NEW p, NEW s, NEW b
    PROVE  \A n \in Nat : \E g : RRun(p, s, b, n, g)
<1> DEFINE S == {n \in Nat : \E g : RRun(p, s, b, n, g)}
<1>1. 0 \in S
  <2> DEFINE f == [j \in 1 .. 0 |-> 0]
  <2>1. f = [j \in 1 .. 0 |-> RSteps(p, s, b, j, f)]
    OBVIOUS
  <2> QED
    BY <2>1 DEF RRun
<1>2. ASSUME NEW n \in Nat, n \in S PROVE n + 1 \in S
  <2>1. PICK f : RRun(p, s, b, n, f)
    BY <1>2
  <2> DEFINE g == [j \in 1 .. n + 1 |-> IF j <= n THEN f[j] ELSE RSteps(p, s, b, n + 1, f)]
  <2>2. \A j \in 1 .. n : f[j] = RSteps(p, s, b, j, f)
    BY <2>1 DEF RRun
  <2>3. ASSUME NEW j \in 1 .. n + 1 PROVE g[j] = RSteps(p, s, b, j, g)
    <3>1. j = 1 \/ g[j - 1] = f[j - 1]
      OBVIOUS
    <3>2. RSteps(p, s, b, j, g) = RSteps(p, s, b, j, f)
      <4> HIDE DEF g
      <4> QED
        BY <3>1 DEF RSteps
    <3>3. CASE j \in 1 .. n
      BY <2>2, <3>2, <3>3
    <3>4. CASE j = n + 1
      BY <3>2, <3>4
    <3> QED
      BY <3>3, <3>4
  <2>4. g = [j \in 1 .. n + 1 |-> g[j]]
    OBVIOUS
  <2> HIDE DEF g
  <2>5. RRun(p, s, b, n + 1, g)
    BY <2>3, <2>4 DEF RRun
  <2> QED
    BY <2>5
<1> HIDE DEF S
<1>3. \A n \in Nat : n \in S
  BY <1>1, <1>2, Data!SetInduction
<1> QED
  BY <1>3 DEF S

(* The strings of RFC 8018 are one, the code's loop is the other.          *)
LEMMA UsIsRun ==
    ASSUME NEW p, NEW s, NEW b, NEW n \in Nat
    PROVE  URun(p, s, b, n, Us(p, s, b, n))
BY URuns, SMTT(60) DEF URun, USteps, Us

Loop(p, s, b, n) ==
    CHOOSE g : g = [i \in 1 .. n |->
                      IF i = 1 THEN FirstSum(FirstU(p, s, b)) ELSE Iterated(p, g[i - 1])]

LEMMA BlockIsRun ==
    ASSUME NEW p, NEW s, NEW b, NEW n \in Nat
    PROVE  RRun(p, s, b, n, Loop(p, s, b, n)) /\ BlockOf(p, s, n, b) = Loop(p, s, b, n)[n].t
<1>1. RRun(p, s, b, n, Loop(p, s, b, n))
  <2>1. PICK g : RRun(p, s, b, n, g)
    BY RRuns
  <2>2. g = [i \in 1 .. n |-> IF i = 1 THEN FirstSum(FirstU(p, s, b)) ELSE Iterated(p, g[i - 1])]
    BY ONLY <2>1 DEF RRun, RSteps
  <2> DEFINE r == Loop(p, s, b, n)
  <2>3. r = [i \in 1 .. n |-> IF i = 1 THEN FirstSum(FirstU(p, s, b)) ELSE Iterated(p, r[i - 1])]
    BY ONLY <2>2, Zenon DEF Loop
  <2> QED
    BY ONLY <2>3 DEF RRun, RSteps
<1>2. BlockOf(p, s, n, b) = Loop(p, s, b, n)[n].t
  BY DEF BlockOf, Loop
<1> QED
  BY <1>1, <1>2

(* The first i strings.                                                    *)
Upto(u, i) == [j \in 1 .. i |-> u[j]]

(* What the loop has after the iteration i.                                *)
LoopAt(p, s, b, c, i) ==
    LET u == Us(p, s, b, c)
        x == Loop(p, s, b, c)[i]
    IN  /\ x.u = u[i] /\ Str(u[i], Sha.hashLen)
        /\ x.t = [j \in 1 .. Sha.hashLen |-> SumAt(Upto(u, i), j)]

(* It starts with U_1.                                                     *)
LEMMA LoopStarts ==
    ASSUME NEW p, NEW n, Str(p, n), Fits(n), NEW s, NEW k, Str(s, k),
           Fits(Sha.block + k + 4), Fits(Sha.block + Sha.hashLen), NEW b, NEW c \in Nat, c >= 1
    PROVE  LoopAt(p, s, b, c, 1)
<1> DEFINE u  == Us(p, s, b, c)
           x  == Loop(p, s, b, c)[1]
           u1 == FirstU(p, s, b)
<1>1. 1 \in 1 .. c
  OBVIOUS
<1>2. x = FirstSum(u1)
  BY <1>1, BlockIsRun DEF RRun, RSteps
<1>3. u[1] = HmacOf(p, s \o Store32(b))
  BY <1>1, UsIsRun DEF URun, USteps
<1>4. u1 = HmacOf(p, s \o Store32(b)) /\ Str(u1, Sha.hashLen)
  BY FirstUIs
<1> HIDE DEF u, x, u1
<1>5. x.u = u1 /\ x.t = [j \in 1 .. Sha.hashLen |-> {u1[j]}]
  BY <1>2 DEF FirstSum
<1>6. ASSUME NEW j PROVE SumAt(Upto(u, 1), j) = {u1[j]}
  <2> DEFINE v == Upto(u, 1)
  <2>1. DOMAIN v = 1 .. 1 /\ v[1] = u[1]
    BY DEF Upto
  <2> HIDE DEF v
  <2>2. SumAt(v, j) = {v[1][j]}
    BY <2>1, SumOne
  <2> QED
    BY <1>3, <1>4, <2>1, <2>2 DEF v
<1> QED
  BY <1>3, <1>4, <1>5, <1>6 DEF LoopAt, u, x

(* Each iteration goes on to the next string and adds it.                  *)
LEMMA LoopGoesOn ==
    ASSUME NEW p, NEW n, Str(p, n), Fits(n), Fits(Sha.block + Sha.hashLen),
           NEW s, NEW b, NEW c \in Nat, NEW i \in Nat, i >= 1, i + 1 <= c,
           LoopAt(p, s, b, c, i)
    PROVE  LoopAt(p, s, b, c, i + 1)
<1> DEFINE u == Us(p, s, b, c)
           x == Loop(p, s, b, c)[i]
           y == Loop(p, s, b, c)[i + 1]
           d == u[i]
           e == u[i + 1]
<1>1. i + 1 \in 1 .. c /\ (i + 1) - 1 = i /\ i + 1 # 1
  OBVIOUS
<1>2. y = Iterated(p, x)
  <2>1. RRun(p, s, b, c, Loop(p, s, b, c))
    BY BlockIsRun
  <2>2. y = RSteps(p, s, b, i + 1, Loop(p, s, b, c))
    BY <1>1, <2>1 DEF RRun
  <2> QED
    BY <1>1, <2>2 DEF RSteps
<1>3. e = HmacOf(p, d)
  <2>1. URun(p, s, b, c, u)
    BY UsIsRun
  <2>2. e = USteps(p, s, b, i + 1, u)
    BY <1>1, <2>1 DEF URun
  <2> QED
    BY <1>1, <2>2 DEF USteps
<1>4. /\ x.u = d /\ Str(d, Sha.hashLen)
      /\ x.t = [j \in 1 .. Sha.hashLen |-> SumAt(Upto(u, i), j)]
  BY DEF LoopAt
<1> HIDE DEF u, x, y, d, e
<1>5. Hmac(p, d) = e /\ Str(e, Sha.hashLen)
  BY <1>3, <1>4, HmacIs
<1>6. y.u = e /\ y.t = Xored(x.t, e)
  BY <1>2, <1>4, <1>5 DEF Iterated
<1>7. ASSUME NEW j PROVE SumAt(Upto(u, i + 1), j) = SymDiff(SumAt(Upto(u, i), j), {e[j]})
  <2> DEFINE v == Upto(u, i)
             w == Upto(u, i + 1)
  <2>1. DOMAIN w = 1 .. i + 1 /\ v = [l \in 1 .. i |-> w[l]] /\ w[i + 1] = e
    BY DEF Upto, e
  <2> HIDE DEF v, w
  <2>2. SumAt(w, j) = SymDiff(SumAt(v, j), {w[i + 1][j]})
    BY <2>1, SumStep
  <2> QED
    BY <2>1, <2>2 DEF v, w
<1>8. y.t = [j \in 1 .. Sha.hashLen |-> SumAt(Upto(u, i + 1), j)]
  BY <1>4, <1>6, <1>7 DEF Xored
<1> QED
  BY <1>5, <1>6, <1>8 DEF LoopAt, u, y, e

(* So a block is the sum of its strings.                                   *)
LEMMA BlockIs ==
    ASSUME NEW p, NEW n, Str(p, n), Fits(n), NEW s, NEW k, Str(s, k),
           Fits(Sha.block + k + 4), Fits(Sha.block + Sha.hashLen), NEW b, NEW c \in Nat, c >= 1
    PROVE  BlockOf(p, s, c, b) = [j \in 1 .. Sha.hashLen |-> SumAt(Us(p, s, b, c), j)]
<1> DEFINE S == {i \in Nat : i + 1 <= c => LoopAt(p, s, b, c, i + 1)}
<1>1. 0 \in S
  <2>1. LoopAt(p, s, b, c, 1) /\ 0 + 1 = 1
    BY LoopStarts
  <2> QED
    BY <2>1
<1>2. ASSUME NEW i \in Nat, i \in S PROVE i + 1 \in S
  <2>1. ASSUME (i + 1) + 1 <= c PROVE LoopAt(p, s, b, c, (i + 1) + 1)
    <3>1. i + 1 \in Nat /\ i + 1 >= 1 /\ i + 1 <= c
      BY <2>1
    <3>2. LoopAt(p, s, b, c, i + 1)
      BY <1>2, <3>1
    <3> DEFINE l == i + 1
    <3>3. l \in Nat /\ l >= 1 /\ l + 1 <= c /\ LoopAt(p, s, b, c, l)
      BY <2>1, <3>1, <3>2
    <3> HIDE DEF l
    <3>4. LoopAt(p, s, b, c, l + 1)
      BY <3>3, LoopGoesOn
    <3> QED
      BY <3>4 DEF l
  <2> QED
    BY <2>1
<1> HIDE DEF S
<1>3. c - 1 \in S
  <2>1. \A i \in Nat : i \in S
    BY <1>1, <1>2, Data!SetInduction
  <2> QED
    BY <2>1
<1>4. LoopAt(p, s, b, c, c)
  <2>1. c - 1 + 1 = c /\ c - 1 + 1 <= c
    OBVIOUS
  <2> QED
    BY <1>3, <2>1 DEF S
<1> DEFINE u == Us(p, s, b, c)
<1>5. Upto(u, c) = u
  <2>1. URun(p, s, b, c, u)
    BY UsIsRun
  <2> HIDE DEF u
  <2>2. u = [j \in 1 .. c |-> u[j]]
    BY <2>1 DEF URun
  <2> QED
    BY <2>2 DEF Upto
<1>6. BlockOf(p, s, c, b) = Loop(p, s, b, c)[c].t
  BY BlockIsRun
<1> QED
  BY <1>4, <1>5, <1>6 DEF LoopAt

-----------------------------------------------------------------------------
(* The blocks in a row.                                                    *)
FlatSteps(q, i, g) == IF i = 1 THEN q[i] ELSE g[i - 1] \o q[i]
FlatRun(q, n, g)   == g = [i \in 1 .. n |-> FlatSteps(q, i, g)]

(* There is a run of every length.                                         *)
LEMMA FlatRuns ==
    ASSUME NEW q
    PROVE  \A n \in Nat : \E g : FlatRun(q, n, g)
<1> DEFINE S == {n \in Nat : \E g : FlatRun(q, n, g)}
<1>1. 0 \in S
  <2> DEFINE f == [j \in 1 .. 0 |-> 0]
  <2>1. f = [j \in 1 .. 0 |-> FlatSteps(q, j, f)]
    OBVIOUS
  <2> QED
    BY <2>1 DEF FlatRun
<1>2. ASSUME NEW n \in Nat, n \in S PROVE n + 1 \in S
  <2>1. PICK f : FlatRun(q, n, f)
    BY <1>2
  <2> DEFINE g == [j \in 1 .. n + 1 |-> IF j <= n THEN f[j] ELSE FlatSteps(q, n + 1, f)]
  <2>2. \A j \in 1 .. n : f[j] = FlatSteps(q, j, f)
    BY <2>1 DEF FlatRun
  <2>3. ASSUME NEW j \in 1 .. n + 1 PROVE g[j] = FlatSteps(q, j, g)
    <3>1. j = 1 \/ g[j - 1] = f[j - 1]
      OBVIOUS
    <3>2. FlatSteps(q, j, g) = FlatSteps(q, j, f)
      <4> HIDE DEF g
      <4> QED
        BY <3>1 DEF FlatSteps
    <3>3. CASE j \in 1 .. n
      BY <2>2, <3>2, <3>3
    <3>4. CASE j = n + 1
      BY <3>2, <3>4
    <3> QED
      BY <3>3, <3>4
  <2>4. g = [j \in 1 .. n + 1 |-> g[j]]
    OBVIOUS
  <2> HIDE DEF g
  <2>5. FlatRun(q, n + 1, g)
    BY <2>3, <2>4 DEF FlatRun
  <2> QED
    BY <2>5
<1> HIDE DEF S
<1>3. \A n \in Nat : n \in S
  BY <1>1, <1>2, Data!SetInduction
<1> QED
  BY <1>3 DEF S

(* Where a byte of a block is among the bytes of all.                      *)
LEMMA PlaceFacts ==
    ASSUME NEW h \in Nat, NEW i \in Nat, NEW b \in 1 .. i, NEW k \in 1 .. h
    PROVE  /\ (b - 1) * h \in Nat /\ i * h \in Nat /\ (i + 1) * h = (i * h) + h
           /\ ((b - 1) * h) + k \in 1 .. i * h
<1> DEFINE x == (b - 1) * h
           y == (i - b) * h
           z == i * h
<1>1. b - 1 \in Nat /\ i - b \in Nat
  OBVIOUS
<1>2. x \in Nat /\ y \in Nat /\ z \in Nat
  BY <1>1
<1>3. z = x + y + h /\ (i + 1) * h = z + h
  BY <1>1
<1>4. x + k \in 1 .. z
  <2> HIDE DEF x, y, z
  <2> QED
    BY <1>2, <1>3
<1> QED
  BY <1>2, <1>3, <1>4

(* The first i blocks in a row.                                            *)
RowOf(q, h, i, x) ==
    /\ Str(x, i * h)
    /\ \A b \in 1 .. i, k \in 1 .. h : x[((b - 1) * h) + k] = q[b][k]

(* One block more.                                                         *)
LEMMA RowStep ==
    ASSUME NEW q, NEW h \in Nat, NEW i \in Nat, NEW x, RowOf(q, h, i, x), Str(q[i + 1], h)
    PROVE  RowOf(q, h, i + 1, x \o q[i + 1])
<1> DEFINE y == q[i + 1]
           w == x \o y
           n == i * h
<1>1. n \in Nat /\ (i + 1) * h = n + h
  OBVIOUS
<1>2. Str(x, n) /\ Str(y, h)
  BY DEF RowOf
<1> HIDE DEF y, n
<1>3. /\ Str(w, n + h)
      /\ \A j \in 1 .. n : w[j] = x[j]
      /\ \A j \in 1 .. h : w[n + j] = y[j]
  <2>1. Joined(x, n, y, h)
    BY ONLY <1>2, StrJoined
  <2> QED
    BY ONLY <2>1 DEF Joined
<1> HIDE DEF w
<1>4. ASSUME NEW b \in 1 .. i + 1, NEW k \in 1 .. h
      PROVE  w[((b - 1) * h) + k] = q[b][k]
  <2>1. CASE b \in 1 .. i
    <3> DEFINE j == ((b - 1) * h) + k
    <3>1. j \in 1 .. n
      BY <2>1, PlaceFacts DEF n
    <3>2. x[j] = q[b][k]
      BY <2>1 DEF RowOf
    <3> HIDE DEF j
    <3>3. w[j] = q[b][k]
      BY <1>3, <3>1, <3>2
    <3> QED
      BY <3>3 DEF j
  <2>2. CASE b = i + 1
    <3>1. (b - 1) * h = n
      BY <2>2 DEF n
    <3>2. w[n + k] = y[k]
      BY <1>3
    <3> QED
      BY <2>2, <3>1, <3>2 DEF y
  <2> QED
    BY <2>1, <2>2
<1>5. Str(w, (i + 1) * h)
  BY <1>1, <1>3
<1> QED
  BY <1>4, <1>5 DEF RowOf, w, y

(* FlattenSeq puts blocks of one length in a row.                          *)
LEMMA FlattenIs ==
    ASSUME NEW n \in Nat, n >= 1, NEW h \in Nat, NEW q, Str(q, n),
           \A b \in 1 .. n : Str(q[b], h)
    PROVE  RowOf(q, h, n, FlattenSeq(q))
<1> DEFINE g == CHOOSE f : f = [i \in 1 .. n |-> IF i = 1 THEN q[i] ELSE f[i - 1] \o q[i]]
<1>1. FlatRun(q, n, g)
  <2>1. PICK f : FlatRun(q, n, f)
    BY FlatRuns
  <2>2. f = [i \in 1 .. n |-> IF i = 1 THEN q[i] ELSE f[i - 1] \o q[i]]
    BY ONLY <2>1 DEF FlatRun, FlatSteps
  <2>3. g = [i \in 1 .. n |-> IF i = 1 THEN q[i] ELSE g[i - 1] \o q[i]]
    BY ONLY <2>2, Zenon
  <2> HIDE DEF g
  <2> QED
    BY ONLY <2>3 DEF FlatRun, FlatSteps
<1>2. FlattenSeq(q) = g[n]
  <2>1. Len(q) = n
    BY ONLY Str(q, n), StrFacts
  <2> QED
    BY <2>1 DEF FlattenSeq
<1> HIDE DEF g
<1> DEFINE S == {i \in Nat : i + 1 <= n => RowOf(q, h, i + 1, g[i + 1])}
<1>3. 0 \in S
  <2>1. g[1] = q[1] /\ Str(q[1], h) /\ 1 * h = h
    BY <1>1 DEF FlatRun, FlatSteps
  <2>2. ASSUME NEW b \in 1 .. 1, NEW k \in 1 .. h PROVE q[1][((b - 1) * h) + k] = q[b][k]
    <3>1. b = 1 /\ ((1 - 1) * h) + k = k
      OBVIOUS
    <3> QED
      BY <3>1
  <2>3. RowOf(q, h, 1, g[1])
    BY <2>1, <2>2 DEF RowOf
  <2>4. 0 + 1 = 1
    OBVIOUS
  <2> QED
    BY <2>3, <2>4
<1>4. ASSUME NEW i \in Nat, i \in S PROVE i + 1 \in S
  <2>1. ASSUME (i + 1) + 1 <= n PROVE RowOf(q, h, (i + 1) + 1, g[(i + 1) + 1])
    <3> DEFINE l == i + 1
    <3>1. l \in Nat /\ l <= n /\ l + 1 \in 1 .. n /\ l + 1 # 1 /\ (l + 1) - 1 = l
      BY <2>1
    <3>2. RowOf(q, h, l, g[l])
      BY <1>4, <3>1
    <3> HIDE DEF l
    <3>3. g[l + 1] = g[l] \o q[l + 1] /\ Str(q[l + 1], h)
      <4>1. g[l + 1] = FlatSteps(q, l + 1, g)
        BY <1>1, <3>1 DEF FlatRun
      <4> QED
        BY <3>1, <4>1 DEF FlatSteps
    <3>4. RowOf(q, h, l + 1, g[l] \o q[l + 1])
      BY <3>1, <3>2, <3>3, RowStep
    <3> QED
      BY <3>3, <3>4 DEF l
  <2> QED
    BY <2>1
<1> HIDE DEF S
<1>5. n - 1 \in S
  <2>1. \A i \in Nat : i \in S
    BY <1>3, <1>4, Data!SetInduction
  <2> QED
    BY <2>1
<1>6. RowOf(q, h, n, g[n])
  <2>1. n - 1 + 1 = n /\ n - 1 + 1 <= n
    OBVIOUS
  <2> QED
    BY <1>5, <2>1 DEF S
<1> QED
  BY <1>2, <1>6

(* Where byte j of the output comes from, and how many blocks it takes.    *)
OutputAt(h, l, j) ==
    LET n == (l + h - 1) \div h
        b == ((j - 1) \div h) + 1
        k == ((j - 1) % h) + 1
    IN  b \in 1 .. n /\ k \in 1 .. h /\ ((b - 1) * h) + k = j

LEMMA OutputPlace ==
    ASSUME NEW h \in Nat \ {0}, NEW l \in Nat, NEW j \in 1 .. l
    PROVE  OutputAt(h, l, j)
<1> SUFFICES ASSUME NEW n, n = (l + h - 1) \div h,
                    NEW b, b = ((j - 1) \div h) + 1, NEW k, k = ((j - 1) % h) + 1
             PROVE  b \in 1 .. n /\ k \in 1 .. h /\ ((b - 1) * h) + k = j
  BY DEF OutputAt
<1> DEFINE i == j - 1
           d == i \div h
           r == i % h
           m == l + h - 1
<1>1. i \in Nat /\ i < l /\ m \in Nat
  OBVIOUS
<1>2. b = d + 1 /\ k = r + 1 /\ n = m \div h
  OBVIOUS
<1> HIDE DEF i, m
<1>3. d \in Nat /\ d * h \in Nat /\ d * h <= i /\ i < d * h + h /\ r = i - d * h
  BY <1>1, DivFacts
<1>4. n \in Nat /\ n * h \in Nat /\ m < n * h + h
  BY <1>1, <1>2, DivFacts
<1>5. l <= n * h
  <2> DEFINE x == n * h
  <2>1. x \in Nat /\ m < x + h
    BY <1>4
  <2> HIDE DEF x
  <2>2. l <= x
    BY <2>1 DEF m
  <2> QED
    BY <2>2 DEF x
<1> HIDE DEF d, r
<1>6. d < n
  <2>1. SUFFICES ASSUME n <= d PROVE FALSE
    BY <1>3, <1>4
  <2>2. d - n \in Nat
    BY <1>3, <1>4, <2>1
  <2>3. (d - n) * h \in Nat /\ d * h = n * h + (d - n) * h
    BY <1>3, <1>4, <2>2
  <2> DEFINE x == n * h
             y == d * h
             z == (d - n) * h
  <2>4. x \in Nat /\ y \in Nat /\ z \in Nat /\ y = x + z /\ y <= i /\ i < l /\ l <= x
    BY <1>1, <1>3, <1>4, <1>5, <2>3
  <2> HIDE DEF x, y, z
  <2> QED
    BY <1>1, <2>4
<1>7. ((b - 1) * h) + k = j /\ k \in 1 .. h
  <2>1. b - 1 = d
    BY <1>2, <1>3
  <2> DEFINE y == d * h
  <2>2. y \in Nat /\ y <= i /\ i < y + h /\ r = i - y /\ (b - 1) * h = y
    BY <1>3, <2>1
  <2> HIDE DEF y
  <2> QED
    BY <1>1, <1>2, <2>2 DEF i
<1> QED
  BY <1>2, <1>3, <1>4, <1>6, <1>7

(* What is derived: of each block the sum of its strings, cut to length.   *)
LEMMA Pbkdf2Is ==
    ASSUME NEW p, NEW n, Str(p, n), Fits(n), NEW s, NEW k, Str(s, k),
           Fits(Sha.block + k + 4), Fits(Sha.block + Sha.hashLen),
           NEW c \in Nat, c >= 1, NEW l \in Nat, l >= 1,
           NEW o, o = Pbkdf2(p, s, c, l)
    PROVE  /\ Len(o) = l /\ DOMAIN o = 1 .. l
           /\ \A j \in 1 .. l :
                o[j] = SumAt(Us(p, s, ((j - 1) \div Sha.hashLen) + 1, c),
                             ((j - 1) % Sha.hashLen) + 1)
<1> DEFINE h == Sha.hashLen
           blocks == (l + h - 1) \div h
           q == [b \in 1 .. blocks |-> BlockOf(p, s, c, b)]
           f == FlattenSeq(q)
<1>1. h \in Nat \ {0} /\ l # 0 /\ c # 0
  BY ShaFacts
<1>2. o = SubSeq(f, 1, l)
  BY <1>1 DEF Pbkdf2
<1> HIDE DEF h
<1>3. blocks \in Nat /\ blocks >= 1 /\ l <= blocks * h
  <2> DEFINE b == ((l - 1) \div h) + 1
             e == ((l - 1) % h) + 1
  <2>1. l \in 1 .. l
    OBVIOUS
  <2>2. b \in 1 .. blocks /\ e \in 1 .. h /\ ((b - 1) * h) + e = l
    BY <1>1, <2>1, OutputPlace DEF OutputAt
  <2>3. blocks \in Nat
    <3> DEFINE m == l + h - 1
    <3>1. m \in Nat
      BY <1>1
    <3> HIDE DEF m
    <3>2. m \div h \in Nat
      BY <1>1, <3>1, DivFacts
    <3> QED
      BY <3>2 DEF m
  <2> HIDE DEF b, e, blocks
  <2>4. ((b - 1) * h) + e \in 1 .. blocks * h
    BY <1>1, <2>2, <2>3, PlaceFacts
  <2>5. blocks * h \in Nat
    BY <1>1, <2>3
  <2> QED
    BY <2>2, <2>3, <2>4, <2>5
<1>4. /\ Str(q, blocks)
      /\ \A b \in 1 .. blocks :
            Str(q[b], h) /\ q[b] = [j \in 1 .. h |-> SumAt(Us(p, s, b, c), j)]
  <2>1. ASSUME NEW b \in 1 .. blocks
        PROVE  Str(q[b], h) /\ q[b] = [j \in 1 .. h |-> SumAt(Us(p, s, b, c), j)]
    <3>1. q[b] = BlockOf(p, s, c, b)
      OBVIOUS
    <3>2. BlockOf(p, s, c, b) = [j \in 1 .. h |-> SumAt(Us(p, s, b, c), j)]
      BY BlockIs DEF h
    <3> HIDE DEF q, blocks
    <3> QED
      BY <1>1, <3>1, <3>2 DEF Str
  <2>2. Str(q, blocks)
    <3> HIDE DEF blocks
    <3> QED
      BY <1>3 DEF Str
  <2> QED
    BY <2>1, <2>2
<1> HIDE DEF q, f
<1>5. RowOf(q, h, blocks, f)
  <2> HIDE DEF blocks
  <2>1. /\ blocks \in Nat /\ blocks >= 1 /\ h \in Nat /\ Str(q, blocks)
        /\ \A b \in 1 .. blocks : Str(q[b], h)
    BY <1>1, <1>3, <1>4
  <2> QED
    BY ONLY <2>1, FlattenIs DEF f
<1>6. Len(o) = l /\ DOMAIN o = 1 .. l /\ \A j \in 1 .. l : o[j] = f[j]
  <2> DEFINE m == blocks * h
             S == {f[i] : i \in 1 .. m}
  <2>1. m \in Nat /\ Len(f) = m /\ f \in Seq(S)
    BY <1>5, StrFacts, ZenonT(60) DEF RowOf
  <2>2. l <= m
    BY <1>3
  <2> HIDE DEF m, S
  <2> QED
    BY <1>2, <2>1, <2>2
<1>7. ASSUME NEW j \in 1 .. l
      PROVE  o[j] = SumAt(Us(p, s, ((j - 1) \div h) + 1, c), ((j - 1) % h) + 1)
  <2> DEFINE b == ((j - 1) \div h) + 1
             e == ((j - 1) % h) + 1
  <2>1. b \in 1 .. blocks /\ e \in 1 .. h /\ ((b - 1) * h) + e = j
    BY <1>1, OutputPlace DEF OutputAt
  <2> HIDE DEF b, e, blocks
  <2>2. f[((b - 1) * h) + e] = q[b][e]
    BY <1>5, <2>1 DEF RowOf
  <2>3. q[b][e] = SumAt(Us(p, s, b, c), e)
    BY <1>4, <2>1
  <2> QED
    BY <1>6, <2>1, <2>2, <2>3 DEF b, e
<1> QED
  BY <1>6, <1>7 DEF h

(* A derivation is exact.                                                  *)
LEMMA DeriveIsExact ==
    ASSUME NEW p \in KeyLens, NEW s \in SaltLens, NEW c \in Iterations, NEW l \in OutLens,
           Derive(p, s, c, l)
    PROVE  DerivedExact'
<1> DEFINE o == Pbkdf2(KeyOf(p), SaltOf(s), c, l)
<1>1. /\ derived'.of = "pbkdf2" /\ derived'.key = p /\ derived'.data = l
      /\ derived'.salt = s /\ derived'.iterations = c /\ derived'.out = o
  BY DEF Derive
<1>2. /\ Str(KeyOf(p), p) /\ Fits(p) /\ Str(SaltOf(s), s)
      /\ Fits(Sha.block + s + 4) /\ Fits(Sha.block + Sha.hashLen)
      /\ c \in Nat /\ l \in Nat
  <2>1. Str(SaltOf(s), s)
    BY KdfAssumption DEF SaltOf, Str
  <2> QED
    BY <2>1, KeyStr, KdfAssumption, LengthAssumption
<1>3. CASE c = 0 \/ l = 0
  <2>1. o = <<>>
    BY <1>3 DEF Pbkdf2
  <2>2. Len(o) = 0 /\ DOMAIN o = {}
    BY <2>1
  <2> QED
    BY <1>1, <1>3, <2>2 DEF DerivedExact
<1>4. CASE c # 0 /\ l # 0
  <2>1. c >= 1 /\ l >= 1
    BY <1>2, <1>4
  <2>2. /\ Len(o) = l /\ DOMAIN o = 1 .. l
        /\ \A j \in 1 .. l :
             o[j] = SumAt(Us(KeyOf(p), SaltOf(s), ((j - 1) \div Sha.hashLen) + 1, c),
                          ((j - 1) % Sha.hashLen) + 1)
    BY <1>2, <2>1, Pbkdf2Is
  <2> HIDE DEF o
  <2> QED
    BY <1>1, <1>4, <2>2 DEF DerivedExact
<1> QED
  BY <1>3, <1>4

(* sdc_kdf_pbkdf2_sha256 derives RFC 8018's bytes, for every number of     *)
(* iterations and every length of password, salt and output.               *)
THEOREM Pbkdf2IsExact == KdfSpec => []DerivedExact
<1>1. KdfInit => DerivedExact
  BY DEF KdfInit, NoResultYet, DerivedExact
<1>2. DerivedExact /\ [KdfNext]_kdfVars => DerivedExact'
  <2> SUFFICES ASSUME DerivedExact, [KdfNext]_kdfVars PROVE DerivedExact'
    OBVIOUS
  <2>1. ASSUME NEW n \in KeyLens, StartHmac(n) PROVE DerivedExact'
    BY <2>1 DEF StartHmac, NoResultYet, DerivedExact
  <2>2. ASSUME NEW n \in 0 .. MaxData, FeedHmac(n) PROVE DerivedExact'
    BY <2>2 DEF FeedHmac, DerivedExact
  <2>3. CASE EndHmac
    <3>1. derived'.of = "hmac"
      BY <2>3 DEF EndHmac, NoResultYet
    <3> QED
      BY <3>1 DEF DerivedExact
  <2>4. ASSUME NEW p \in KeyLens, NEW s \in SaltLens, NEW c \in Iterations, NEW l \in OutLens,
               Derive(p, s, c, l)
        PROVE  DerivedExact'
    BY <2>4, DeriveIsExact
  <2>5. CASE UNCHANGED kdfVars
    BY <2>5 DEF kdfVars, DerivedExact
  <2> QED
    BY <2>1, <2>2, <2>3, <2>4, <2>5 DEF KdfNext
<1> QED
  BY <1>1, <1>2, PTL DEF KdfSpec
=============================================================================
