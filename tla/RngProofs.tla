----------------------------- MODULE RngProofs ------------------------------
(***************************************************************************)
(* The generators for any number of threads, requests of any size and any  *)
(* behaviour of the device: no descriptor is lost, no byte is given twice, *)
(* and the bytes of a stream are given in its order.                       *)
(***************************************************************************)
EXTENDS Rng, ChaChaProofs, FiniteSetTheorems

(* DescriptorsClosed for any number of threads.  Readers are the threads   *)
(* between open and close; every action moves at most one of them.         *)
Readers == {t \in Threads : call[t].at = "read"}

CallRec == [for : {"none", "init", "caller"}, at : {"idle", "open", "read"},
            want : Nat, got : Seq(Nat)]

ReadersInv == call \in [Threads -> CallRec] /\ drawn \in Nat /\ DescriptorsClosed

(* One thread entering or leaving the read loop counts for one.            *)
LEMMA ReadersCount ==
    /\ IsFiniteSet(Readers) /\ Cardinality(Readers) \in Nat
    /\ \A t \in Threads : IF t \in Readers
                          THEN Cardinality(Readers \ {t}) = Cardinality(Readers) - 1
                          ELSE Cardinality(Readers \cup {t}) = Cardinality(Readers) + 1
<1>1. IsFiniteSet(Readers)
  BY RngAssumption, FS_Subset DEF Readers
<1> QED
  BY <1>1, FS_AddElement, FS_RemoveElement, FS_CardinalityType

(* The bytes a read gives are new draws.                                   *)
LEMMA FreshType ==
    ASSUME drawn \in Nat, NEW n \in Nat
    PROVE  Fresh(n) \in Seq(Nat)
BY DEF Fresh

(* A step that moves no thread in or out of the loop.                      *)
LEMMA ReadersSame ==
    ASSUME ReadersInv, call' \in [Threads -> CallRec], drawn' \in Nat, opened' = opened,
           \A t \in Threads : call'[t].at = "read" <=> call[t].at = "read"
    PROVE  ReadersInv'
BY DEF ReadersInv, DescriptorsClosed

(* A call that begins is not yet in the loop.                              *)
LEMMA BeginReaders ==
    ASSUME ReadersInv, NEW t \in Threads, call[t] = Idle, NEW r \in CallRec, r.at = "open",
           call' = [call EXCEPT ![t] = r], drawn' = drawn, opened' = opened
    PROVE  ReadersInv'
<1>1. call' \in [Threads -> CallRec] /\ drawn' \in Nat
  BY DEF ReadersInv
<1>2. \A u \in Threads : call'[u].at = "read" <=> call[u].at = "read"
  BY DEF ReadersInv, Idle
<1> QED
  BY <1>1, <1>2, ReadersSame

(* The open succeeds or fails.                                             *)
LEMMA OpenedReaders ==
    ASSUME ReadersInv, NEW t \in Threads, NEW ok \in BOOLEAN, Opened(t, ok)
    PROVE  ReadersInv'
<1>1. call \in [Threads -> CallRec] /\ call[t].at = "open" /\ drawn' = drawn /\ drawn \in Nat
  BY DEF ReadersInv, Opened
<1>2. CASE ok
  <2>1. call' = [call EXCEPT ![t].at = "read"] /\ opened' = opened + 1
    BY <1>2 DEF Opened
  <2>2. call' \in [Threads -> CallRec] /\ call'[t].at = "read"
    BY <1>1, <2>1 DEF CallRec
  <2>3. \A u \in Threads : u # t => call'[u] = call[u]
    BY <1>1, <2>1
  <2>4. Readers' = Readers \cup {t} /\ t \notin Readers
    BY <1>1, <2>2, <2>3 DEF Readers
  <2>5. opened' = Cardinality(Readers')
    BY <2>1, <2>4, ReadersCount DEF ReadersInv, DescriptorsClosed, Readers
  <2> QED
    BY <1>1, <2>2, <2>5 DEF ReadersInv, DescriptorsClosed, Readers
<1>3. CASE ~ok
  <2>1. call' = [call EXCEPT ![t] = Idle] /\ opened' = opened
    BY <1>3 DEF Opened, Return
  <2>2. call' \in [Threads -> CallRec]
    BY <1>1, <2>1 DEF CallRec, Idle
  <2>3. \A u \in Threads : call'[u].at = "read" <=> call[u].at = "read"
    BY <1>1, <2>1 DEF Idle
  <2> QED
    BY <1>1, <2>1, <2>2, <2>3, ReadersSame
<1> QED
  BY <1>2, <1>3

(* A read takes new bytes and stays in the loop.                           *)
LEMMA ReadReaders ==
    ASSUME ReadersInv, NEW t \in Threads, NEW n \in 1 .. call[t].want, Read(t, n)
    PROVE  ReadersInv'
<1>1. call \in [Threads -> CallRec] /\ drawn \in Nat /\ call[t] \in CallRec
  BY DEF ReadersInv
<1>2. n \in Nat
  BY <1>1 DEF CallRec
<1>3. /\ call' = [call EXCEPT ![t].got = @ \o Fresh(n)]
      /\ drawn' = drawn + n /\ opened' = opened
  BY DEF Read
<1>4. call[t].got \o Fresh(n) \in Seq(Nat)
  BY <1>1, <1>2, FreshType DEF CallRec
<1>5. call' \in [Threads -> CallRec] /\ \A u \in Threads : call'[u].at = call[u].at
  BY <1>1, <1>3, <1>4 DEF CallRec
<1> QED
  BY <1>1, <1>2, <1>3, <1>5, ReadersSame

(* Every way out of the loop closes the descriptor.                        *)
LEMMA CloseReaders ==
    ASSUME ReadersInv, NEW t \in Threads, NEW ok \in BOOLEAN, call[t].at = "read", Close(t, ok)
    PROVE  ReadersInv'
<1>1. call \in [Threads -> CallRec] /\ drawn' = drawn /\ drawn \in Nat
  BY DEF ReadersInv, Close
<1>2. call' = [call EXCEPT ![t] = Idle] /\ opened' = opened - 1
  BY DEF Close, Return
<1>3. call' \in [Threads -> CallRec] /\ call'[t].at = "idle"
  BY <1>1, <1>2 DEF CallRec, Idle
<1>4. \A u \in Threads : u # t => call'[u] = call[u]
  BY <1>1, <1>2
<1>5. Readers' = Readers \ {t} /\ t \in Readers
  BY <1>3, <1>4 DEF Readers
<1>6. opened' = Cardinality(Readers')
  BY <1>2, <1>5, ReadersCount DEF ReadersInv, DescriptorsClosed, Readers
<1> QED
  BY <1>1, <1>3, <1>6 DEF ReadersInv, DescriptorsClosed, Readers

(* Every step keeps the count, one step per action.                        *)
LEMMA ReadersStep ==
    ASSUME ReadersInv, [Next]_vars
    PROVE  ReadersInv'
<1>1. ASSUME UNCHANGED <<call, drawn, opened>> PROVE ReadersInv'
  BY <1>1 DEF ReadersInv, DescriptorsClosed
<1>2. ASSUME NEW g, SetSeedGenerator(g) PROVE ReadersInv'
  BY <1>1, <1>2 DEF SetSeedGenerator
<1>3. ASSUME NEW d, DeviceChanges(d) PROVE ReadersInv'
  BY <1>1, <1>3 DEF DeviceChanges
<1>4. ASSUME NEW t \in Threads, InitSystem(t) PROVE ReadersInv'
  BY <1>1, <1>4 DEF InitSystem
<1>5. ASSUME NEW t \in Threads, InitDefault(t) PROVE ReadersInv'
  <2>1. [for |-> "init", at |-> "open", want |-> NonceLen, got |-> <<>>] \in CallRec
    BY RngAssumption DEF CallRec
  <2> QED
    BY <1>5, <2>1, BeginReaders DEF InitDefault
<1>6. ASSUME NEW t \in Threads, NEW ok \in BOOLEAN, InitCustom(t, ok) PROVE ReadersInv'
  BY <1>6, ReadersSame, RngAssumption DEF InitCustom, ReadersInv
<1>7. ASSUME NEW t \in Threads, NEW n \in Requests, GenerateChaCha(t, n) PROVE ReadersInv'
  BY <1>1, <1>7 DEF GenerateChaCha
<1>8. ASSUME NEW t \in Threads, NEW n \in Requests, GenerateSystem(t, n) PROVE ReadersInv'
  <2>1. [for |-> "caller", at |-> "open", want |-> n, got |-> <<>>] \in CallRec
    BY RngAssumption DEF CallRec
  <2> QED
    BY <1>8, <2>1, BeginReaders DEF GenerateSystem, MayAsk
<1>9. ASSUME NEW t \in Threads, InCall(t) PROVE ReadersInv'
  BY <1>9, OpenedReaders, ReadReaders, CloseReaders DEF InCall, ReadFails, ReadEnds, ReadDone
<1>10. CASE UNCHANGED vars
  BY <1>1, <1>10 DEF vars
<1> QED
  BY <1>2, <1>3, <1>4, <1>5, <1>6, <1>7, <1>8, <1>9, <1>10 DEF Next

(* system_rng_generate: for any number of threads, requests of any size    *)
(* and any short read, end of file or error, no descriptor is lost.        *)
THEOREM RngDescriptorsClosed == Spec => []DescriptorsClosed
<1>1. Init => ReadersInv
  <2>1. SUFFICES ASSUME Init PROVE ReadersInv
    OBVIOUS
  <2>2. call = [t \in Threads |-> Idle] /\ opened = 0 /\ drawn = 0
    BY <2>1 DEF Init
  <2>3. call \in [Threads -> CallRec]
    BY <2>2 DEF CallRec, Idle
  <2>4. Readers = {}
    BY <2>2 DEF Readers, Idle
  <2> QED
    BY <2>2, <2>3, <2>4, FS_EmptySet DEF ReadersInv, DescriptorsClosed, Readers
<1>2. ReadersInv /\ [Next]_vars => ReadersInv'
  BY ReadersStep
<1>3. ReadersInv => DescriptorsClosed
  BY DEF ReadersInv
<1> QED
  BY <1>1, <1>2, <1>3, PTL DEF Spec

-----------------------------------------------------------------------------
(* What a thread holds: the draws in its nonce, in its buffer and in what  *)
(* its caller was given.                                                   *)
Elems(s) == {s[i] : i \in DOMAIN s}

GivenDraws(g) == {k \in Nat : \E i \in DOMAIN g : k \in Elems(g[i].from)}

Held(r, c, g) == Elems(r.nonce) \cup Elems(c.got) \cup GivenDraws(g)

(* The bytes of one stream among the first n given.                        *)
Places(from, g, n) == {j \in 1 .. n : g[j].from = from}

Count(from, g, n) == Cardinality(Places(from, g, n))

(* The place of byte j of a stream: its block and its offset there.        *)
PlaceOf(j) == <<j \div StreamBlock, j % StreamBlock>>

OrderedAt(g, i) ==
    Len(g[i].from) > 1 => g[i].at = PlaceOf(Count(g[i].from, g, i - 1))

(* A stream byte is the next of its stream, a system byte is given once.   *)
GivenInv(g) ==
    \A i \in 1 .. Len(g) :
        /\ g[i].from # <<>>
        /\ OrderedAt(g, i)
        /\ Len(g[i].from) = 1 => \A j \in 1 .. Len(g) : j # i => g[j].from # g[i].from

CallInv(c, g) ==
    /\ Len(c.got) <= c.want
    /\ c.for = "init" => c.want = NonceLen
    /\ c.for = "caller" => Len(g) + c.want <= MaxGiven
    /\ Len(g) <= MaxGiven

(* A context that may be asked has a nonce, and is as far in its stream as *)
(* the caller was given of it.                                             *)
StreamInv(r, g) ==
    /\ r.stream.v \in WideVariants
    /\ r.nonce # <<>> => /\ Len(r.nonce) = NonceLen
                         /\ StreamAt(r.stream, 0, Count(r.nonce, g, Len(g)))
    /\ r.ready /\ r.ops = "chacha" => r.nonce # <<>>

(* What is being read is new: all of it is different and none is in use.   *)
DrawInv(r, c, g, d) ==
    /\ Held(r, c, g) \subseteq 1 .. d
    /\ \A i, j \in 1 .. Len(c.got) : c.got[i] = c.got[j] => i = j
    /\ Elems(c.got) \cap (Elems(r.nonce) \cup GivenDraws(g)) = {}

ThreadInv(r, c, g, d) ==
    /\ r \in Context /\ c \in CallRec /\ g \in Seq(RngByte) /\ d \in Nat
    /\ CallInv(c, g)
    /\ GivenInv(g)
    /\ StreamInv(r, g)
    /\ DrawInv(r, c, g, d)

(* The inductive invariant: each thread by itself, and no draw held by two *)
(* of them.                                                                *)
RngInv ==
    /\ generator \in {"default", "custom"} /\ device \in {"ok", "eof", "broken"}
    /\ rng \in [Threads -> Context] /\ call \in [Threads -> CallRec]
    /\ given \in [Threads -> Seq(RngByte)] /\ drawn \in Nat
    /\ \A t \in Threads : ThreadInv(rng[t], call[t], given[t], drawn)
    /\ \A t, u \in Threads : t # u => Held(rng[t], call[t], given[t])
                                          \cap Held(rng[u], call[u], given[u]) = {}

-----------------------------------------------------------------------------
(* A step of one thread that holds, besides what it held, only new draws.  *)
LEMMA OneThread ==
    ASSUME RngInv, NEW t \in Threads, NEW r, NEW c, NEW g, NEW d \in Nat,
           rng' = [rng EXCEPT ![t] = r], call' = [call EXCEPT ![t] = c],
           given' = [given EXCEPT ![t] = g], drawn' = d, drawn <= d,
           generator' = generator, device' = device,
           ThreadInv(r, c, g, d),
           Held(r, c, g) \subseteq Held(rng[t], call[t], given[t]) \cup (drawn + 1 .. d)
    PROVE  RngInv'
<1>1. /\ rng \in [Threads -> Context] /\ call \in [Threads -> CallRec]
      /\ given \in [Threads -> Seq(RngByte)] /\ drawn \in Nat
      /\ \A u \in Threads : ThreadInv(rng[u], call[u], given[u], drawn)
  BY DEF RngInv
<1>2. r \in Context /\ c \in CallRec /\ g \in Seq(RngByte)
  BY DEF ThreadInv
<1>3. /\ rng' \in [Threads -> Context] /\ call' \in [Threads -> CallRec]
      /\ given' \in [Threads -> Seq(RngByte)] /\ drawn' \in Nat
  BY <1>1, <1>2
<1>4. rng'[t] = r /\ call'[t] = c /\ given'[t] = g
  BY <1>1
<1>5. \A u \in Threads : u # t => rng'[u] = rng[u] /\ call'[u] = call[u] /\ given'[u] = given[u]
  BY <1>1
<1>6. \A u \in Threads : Held(rng[u], call[u], given[u]) \subseteq 1 .. drawn
  BY <1>1 DEF ThreadInv, DrawInv
<1>7. ASSUME NEW u \in Threads PROVE ThreadInv(rng'[u], call'[u], given'[u], drawn')
  <2>1. CASE u = t
    BY <1>4, <2>1
  <2>2. CASE u # t
    <3>1. ThreadInv(rng[u], call[u], given[u], drawn)
      BY <1>1
    <3>2. 1 .. drawn \subseteq 1 .. d
      BY <1>1
    <3>3. ThreadInv(rng[u], call[u], given[u], d)
      BY <3>1, <3>2 DEF ThreadInv, DrawInv
    <3> QED
      BY <1>5, <2>2, <3>3
  <2> QED
    BY <2>1, <2>2
<1> DEFINE H(u)  == Held(rng[u], call[u], given[u])
           Hn(u) == Held(rng'[u], call'[u], given'[u])
<1>8. /\ Hn(t) \subseteq H(t) \cup (drawn + 1 .. d)
      /\ \A u \in Threads : u # t => Hn(u) = H(u)
      /\ \A u \in Threads : H(u) \subseteq 1 .. drawn
      /\ \A u, w \in Threads : u # w => H(u) \cap H(w) = {}
  BY <1>4, <1>5, <1>6 DEF RngInv
<1>9. \A u, w \in Threads : u # w => Hn(u) \cap Hn(w) = {}
  <2> HIDE DEF H, Hn
  <2>1. (1 .. drawn) \cap (drawn + 1 .. d) = {}
    BY <1>1
  <2>2. \A w \in Threads : w # t => Hn(t) \cap Hn(w) = {}
    BY <1>8, <2>1
  <2> QED
    BY <1>8, <2>2
<1> QED
  BY <1>3, <1>7, <1>9 DEF RngInv

(* A step of one thread that draws nothing.                                *)
LEMMA OneThreadNoDraw ==
    ASSUME RngInv, NEW t \in Threads, NEW r, NEW c, NEW g,
           rng' = [rng EXCEPT ![t] = r], call' = [call EXCEPT ![t] = c],
           given' = [given EXCEPT ![t] = g], drawn' = drawn,
           generator' = generator, device' = device,
           ThreadInv(r, c, g, drawn),
           Held(r, c, g) \subseteq Held(rng[t], call[t], given[t])
    PROVE  RngInv'
<1>1. drawn \in Nat /\ drawn <= drawn
  BY DEF RngInv
<1>2. Held(r, c, g) \subseteq Held(rng[t], call[t], given[t]) \cup (drawn + 1 .. drawn)
  OBVIOUS
<1> QED
  BY <1>1, <1>2, OneThread

-----------------------------------------------------------------------------
(* Counting the bytes of a stream.                                         *)
LEMMA PlacesFacts ==
    ASSUME NEW from, NEW g, NEW n \in Nat
    PROVE  /\ IsFiniteSet(Places(from, g, n))
           /\ Count(from, g, n) \in Nat /\ Count(from, g, n) <= n
           /\ \A m \in 0 .. n : Count(from, g, m) <= Count(from, g, n)
<1>1. IsFiniteSet(1 .. n) /\ Cardinality(1 .. n) = n
  BY FS_Interval
<1>2. Places(from, g, n) \subseteq 1 .. n
  BY DEF Places
<1>3. /\ IsFiniteSet(Places(from, g, n))
      /\ Count(from, g, n) \in Nat /\ Count(from, g, n) <= n
  BY <1>1, <1>2, FS_Subset, FS_CardinalityType DEF Count
<1>4. ASSUME NEW m \in 0 .. n PROVE Count(from, g, m) <= Count(from, g, n)
  <2>1. Places(from, g, m) \subseteq Places(from, g, n)
    BY DEF Places
  <2> QED
    BY <1>3, <2>1, FS_Subset DEF Count
<1> QED
  BY <1>3, <1>4

(* A byte of the stream at place j counts behind it.                       *)
LEMMA CountsBehind ==
    ASSUME NEW from, NEW g, NEW j \in Nat \ {0}, g[j].from = from, NEW i \in Nat, j < i
    PROVE  Count(from, g, j - 1) < Count(from, g, i - 1)
<1>1. j - 1 \in Nat /\ i - 1 \in Nat /\ j \in 0 .. i - 1
  OBVIOUS
<1>2. Places(from, g, j) = Places(from, g, j - 1) \cup {j} /\ j \notin Places(from, g, j - 1)
  BY <1>1 DEF Places
<1>3. Count(from, g, j) = Count(from, g, j - 1) + 1
  BY <1>1, <1>2, PlacesFacts, FS_AddElement, ZenonT(60) DEF Count
<1>4. Count(from, g, j) <= Count(from, g, i - 1)
  BY <1>1, PlacesFacts
<1>5. Count(from, g, j - 1) \in Nat /\ Count(from, g, j) \in Nat /\ Count(from, g, i - 1) \in Nat
  BY <1>1, PlacesFacts
<1> QED
  BY <1>3, <1>4, <1>5

(* What is given later does not change a count.                            *)
LEMMA CountPrefix ==
    ASSUME NEW from, NEW g \in Seq(RngByte), NEW h \in Seq(RngByte), NEW n \in 0 .. Len(g)
    PROVE  Count(from, g \o h, n) = Count(from, g, n)
<1>1. \A j \in 1 .. n : (g \o h)[j] = g[j]
  BY ConcatAt
<1>2. Places(from, g \o h, n) = Places(from, g, n)
  BY <1>1 DEF Places
<1> QED
  BY <1>2 DEF Count

(* A run of n bytes all of one stream, or none of it.                      *)
LEMMA CountRun ==
    ASSUME NEW from, NEW g \in Seq(RngByte), NEW h \in Seq(RngByte), NEW n \in 0 .. Len(h)
    PROVE  /\ (\A i \in 1 .. n : h[i].from = from)
                => Count(from, g \o h, Len(g) + n) = Count(from, g, Len(g)) + n
           /\ (\A i \in 1 .. n : h[i].from # from)
                => Count(from, g \o h, Len(g) + n) = Count(from, g, Len(g))
<1> DEFINE L == Len(g)
           old == Places(from, g \o h, L)
           all == Places(from, g \o h, L + n)
<1>1. /\ L \in Nat /\ n \in Nat /\ g \o h \in Seq(RngByte)
      /\ Count(from, g \o h, L) = Count(from, g, L)
  BY CountPrefix
<1>2. \A i \in 1 .. n : (g \o h)[L + i] = h[i]
  BY ConcatAt
<1>3. \A j \in L + 1 .. L + n : j - L \in 1 .. n /\ j = L + (j - L)
  BY <1>1
<1>4. \A j \in L + 1 .. L + n : (g \o h)[j] = h[j - L]
  BY <1>2, <1>3
<1>5. 1 .. L + n = (1 .. L) \cup (L + 1 .. L + n)
  BY <1>1
<1>6. ASSUME \A i \in 1 .. n : h[i].from = from
      PROVE  Count(from, g \o h, L + n) = Count(from, g, L) + n
  <2>1. all = old \cup (L + 1 .. L + n)
    BY <1>3, <1>4, <1>5, <1>6 DEF Places
  <2>2. old \cap (L + 1 .. L + n) = {}
    BY <1>1 DEF Places
  <2>3. IsFiniteSet(L + 1 .. L + n) /\ Cardinality(L + 1 .. L + n) = n
    <3>1. L + 1 \in Int /\ L + n \in Int
      BY <1>1
    <3>2. IsFiniteSet(L + 1 .. L + n)
      BY <3>1, FS_Interval
    <3>3. Cardinality(L + 1 .. L + n) = IF L + 1 > L + n THEN 0 ELSE (L + n) - (L + 1) + 1
      BY <3>1, FS_Interval
    <3> HIDE DEF L
    <3> QED
      BY <1>1, <3>2, <3>3
  <2>4. IsFiniteSet(old) /\ Cardinality(old) \in Nat
    BY <1>1, PlacesFacts, FS_CardinalityType
  <2>5. Cardinality(all) = Cardinality(old) + n
    <3>1. Cardinality(old \cup (L + 1 .. L + n))
            = Cardinality(old) + Cardinality(L + 1 .. L + n)
                - Cardinality(old \cap (L + 1 .. L + n))
      BY <2>3, <2>4, FS_Union
    <3>2. Cardinality(old \cap (L + 1 .. L + n)) = 0
      BY <2>2, FS_EmptySet
    <3> HIDE DEF old, all, L
    <3> QED
      BY <1>1, <2>1, <2>3, <2>4, <3>1, <3>2
  <2> QED
    BY <1>1, <2>5 DEF Count
<1>7. ASSUME \A i \in 1 .. n : h[i].from # from
      PROVE  Count(from, g \o h, L + n) = Count(from, g, L)
  <2>1. all = old
    BY <1>3, <1>4, <1>5, <1>7 DEF Places
  <2> QED
    BY <1>1, <2>1 DEF Count
<1> QED
  BY <1>6, <1>7

-----------------------------------------------------------------------------
(* Places of a stream shorter than its counter's range are different.      *)
LEMMA PlaceOfFacts ==
    /\ \A j, k \in Nat : PlaceOf(j) = PlaceOf(k) => j = k
    /\ \A j \in Nat : PlaceOf(j) \in KsByte
    /\ \A v \in WideVariants, j \in Nat :
          j < WordMod * WordMod * StreamBlock => StreamByte(v, 0, j) = PlaceOf(j)
<1>1. StreamBlock \in Nat \ {0} /\ WordMod \in Nat \ {0}
  BY ChaChaAssumption
<1>2. ASSUME NEW j \in Nat, NEW k \in Nat, PlaceOf(j) = PlaceOf(k) PROVE j = k
  <2>1. j \div StreamBlock = k \div StreamBlock /\ j % StreamBlock = k % StreamBlock
    BY <1>2 DEF PlaceOf
  <2> QED
    BY <1>1, <2>1, DivModSplit
<1>3. ASSUME NEW j \in Nat PROVE PlaceOf(j) \in KsByte
  BY <1>1, DivModSplit DEF PlaceOf, KsByte
<1>4. ASSUME NEW v \in WideVariants, NEW j \in Nat, j < WordMod * WordMod * StreamBlock
      PROVE  StreamByte(v, 0, j) = PlaceOf(j)
  <2> DEFINE R == WordMod * WordMod
             b == j \div StreamBlock
  <2>1. R \in Nat \ {0}
    <3>1. \A x, y \in Nat \ {0} : x * y \in Nat \ {0}
      OBVIOUS
    <3> QED
      BY <1>1, <3>1
  <2>2. b \in Nat /\ b * StreamBlock <= j
    <3>1. b \in Nat /\ j % StreamBlock \in Nat /\ j = b * StreamBlock + (j % StreamBlock)
      BY <1>1, DivModSplit
    <3>2. b * StreamBlock \in Nat
      BY <1>1, <3>1, MultOrder
    <3> QED
      BY <3>1, <3>2
  <2>3. b < R
    <3>1. b * StreamBlock \in Nat /\ R * StreamBlock \in Nat
      BY <1>1, <2>1, <2>2, MultOrder
    <3>2. b * StreamBlock < R * StreamBlock
      BY <1>4, <2>2, <3>1
    <3> HIDE DEF b, R
    <3> QED
      BY <1>1, <2>1, <2>2, <3>2, MultOrder
  <2>4. CounterRange(v) = R
    BY DEF CounterRange, WideVariants
  <2>5. (0 + b) % R = b
    <3> HIDE DEF b, R
    <3>1. 0 + b = b
      BY <2>2
    <3> QED
      BY <2>1, <2>2, <2>3, <3>1, SmallMod
  <2> QED
    BY <2>4, <2>5 DEF StreamByte, PlaceOf
<1> QED
  BY <1>2, <1>3, <1>4

(* What was given stays in order when more is given, provided the bytes of *)
(* system_rng_generate among the new ones are new.                         *)
LEMMA GivenPrefix ==
    ASSUME NEW g \in Seq(RngByte), NEW h \in Seq(RngByte), GivenInv(g),
           \A i \in 1 .. Len(h) :
              /\ h[i].from # <<>>
              /\ OrderedAt(g \o h, Len(g) + i)
              /\ \A j \in 1 .. Len(g) : h[i].from = g[j].from => Len(h[i].from) # 1
              /\ \A j \in 1 .. Len(h) : h[i].from = h[j].from /\ i # j => Len(h[i].from) # 1
    PROVE  GivenInv(g \o h)
<1> DEFINE L == Len(g)
           M == Len(h)
           b == g \o h
<1>1. L \in Nat /\ M \in Nat /\ b \in Seq(RngByte) /\ Len(b) = L + M
  BY ConcatFacts
<1>2. /\ \A i \in 1 .. L : b[i] = g[i]
      /\ \A i \in 1 .. M : b[L + i] = h[i]
  BY ConcatAt
<1>3. ASSUME NEW i \in 1 .. L PROVE OrderedAt(b, i)
  <2>1. i - 1 \in 0 .. Len(g) /\ i \in 1 .. Len(g)
    BY <1>1
  <2>2. Count(g[i].from, b, i - 1) = Count(g[i].from, g, i - 1)
    BY <2>1, CountPrefix
  <2> QED
    BY <1>2, <2>1, <2>2 DEF GivenInv, OrderedAt
<1>4. \A i \in 1 .. L + M : i \in 1 .. L \/ (i - L \in 1 .. M /\ i = L + (i - L))
  BY <1>1
<1>5. ASSUME NEW i \in 1 .. Len(b) PROVE b[i].from # <<>> /\ OrderedAt(b, i)
  <2>1. CASE i \in 1 .. L
    BY <1>2, <1>3, <2>1 DEF GivenInv
  <2>2. CASE i - L \in 1 .. M /\ i = L + (i - L)
    <3>1. b[i] = h[i - L]
      BY <1>2, <2>2
    <3>2. OrderedAt(g \o h, Len(g) + (i - L))
      BY <2>2
    <3> QED
      BY <2>2, <3>1, <3>2
  <2> QED
    BY <1>1, <1>4, <2>1, <2>2
<1>6. ASSUME NEW i \in 1 .. Len(b), NEW j \in 1 .. Len(b), j # i, b[j].from = b[i].from
      PROVE  Len(b[i].from) # 1
  <2>1. CASE i \in 1 .. L /\ j \in 1 .. L
    BY <1>2, <1>6, <2>1 DEF GivenInv
  <2>2. CASE i \in 1 .. L /\ j - L \in 1 .. M /\ j = L + (j - L)
    <3>1. b[i] = g[i] /\ b[j] = h[j - L]
      BY <1>2, <2>2
    <3> QED
      BY <1>6, <2>2, <3>1
  <2>3. CASE j \in 1 .. L /\ i - L \in 1 .. M /\ i = L + (i - L)
    <3>1. b[j] = g[j] /\ b[i] = h[i - L]
      BY <1>2, <2>3
    <3> QED
      BY <1>6, <2>3, <3>1
  <2>4. CASE /\ i - L \in 1 .. M /\ i = L + (i - L)
             /\ j - L \in 1 .. M /\ j = L + (j - L)
    <3>1. b[j] = h[j - L] /\ b[i] = h[i - L] /\ i - L # j - L
      BY <1>2, <1>6, <2>4
    <3> QED
      BY <1>6, <2>4, <3>1
  <2> QED
    BY <1>1, <1>4, <2>1, <2>2, <2>3, <2>4
<1> QED
  BY <1>5, <1>6 DEF GivenInv

-----------------------------------------------------------------------------
(* The draws in a longer list of bytes given.                              *)
LEMMA GivenDrawsGrow ==
    ASSUME NEW g \in Seq(RngByte), NEW h \in Seq(RngByte)
    PROVE  GivenDraws(g \o h) \subseteq GivenDraws(g) \cup GivenDraws(h)
<1> SUFFICES ASSUME NEW k \in GivenDraws(g \o h) PROVE k \in GivenDraws(g) \cup GivenDraws(h)
  OBVIOUS
<1>1. k \in Nat /\ \E i \in DOMAIN (g \o h) : k \in Elems((g \o h)[i].from)
  BY DEF GivenDraws
<1>2. PICK i \in DOMAIN (g \o h) : k \in Elems((g \o h)[i].from)
  BY <1>1
<1>3. i \in 1 .. Len(g) + Len(h) /\ Len(g) \in Nat /\ Len(h) \in Nat
  BY ConcatFacts
<1>4. CASE i \in 1 .. Len(g)
  <2>1. (g \o h)[i] = g[i] /\ i \in DOMAIN g
    BY <1>4, ConcatAt
  <2> QED
    BY <1>1, <1>2, <2>1 DEF GivenDraws
<1>5. CASE i - Len(g) \in 1 .. Len(h) /\ i = Len(g) + (i - Len(g))
  <2>1. (g \o h)[i] = h[i - Len(g)] /\ i - Len(g) \in DOMAIN h
    BY <1>5, ConcatAt
  <2> QED
    BY <1>1, <1>2, <2>1 DEF GivenDraws
<1> QED
  BY <1>3, <1>4, <1>5

(* A thread outside system_rng_generate holds nothing in a buffer.         *)
LEMMA IdleFacts ==
    /\ Idle \in CallRec /\ Idle.for = "none" /\ Idle.got = <<>> /\ Elems(Idle.got) = {}
    /\ \A g \in Seq(RngByte) : Len(g) <= MaxGiven => CallInv(Idle, g)
<1>1. Idle \in CallRec /\ Idle.for = "none" /\ Idle.got = <<>> /\ Idle.want = 0
  BY DEF Idle, CallRec
<1>2. Elems(Idle.got) = {}
  BY <1>1 DEF Elems
<1>3. ASSUME NEW g \in Seq(RngByte), Len(g) <= MaxGiven PROVE CallInv(Idle, g)
  BY <1>1, <1>3 DEF CallInv
<1> QED
  BY <1>1, <1>2, <1>3

(* Leaving system_rng_generate, or a failed init, loses what was read.     *)
LEMMA LosesBuffer ==
    ASSUME NEW r, NEW c, NEW g, NEW d, ThreadInv(r, c, g, d)
    PROVE  /\ ThreadInv(r, Idle, g, d)
           /\ Held(r, Idle, g) \subseteq Held(r, c, g)
<1>1. Held(r, Idle, g) \subseteq Held(r, c, g)
  BY IdleFacts DEF Held
<1>2. CallInv(Idle, g)
  BY IdleFacts DEF ThreadInv, CallInv
<1>3. DrawInv(r, Idle, g, d)
  BY <1>1, IdleFacts DEF ThreadInv, DrawInv
<1> QED
  BY <1>1, <1>2, <1>3, IdleFacts DEF ThreadInv

(* A call that begins, with an empty buffer.                               *)
LEMMA BeginsCall ==
    ASSUME NEW r, NEW g, NEW d, ThreadInv(r, Idle, g, d),
           NEW c \in CallRec, c.got = <<>>, CallInv(c, g)
    PROVE  ThreadInv(r, c, g, d) /\ Held(r, c, g) \subseteq Held(r, Idle, g)
<1>1. Elems(c.got) = {} /\ Len(c.got) = 0
  BY DEF Elems
<1>2. Held(r, c, g) \subseteq Held(r, Idle, g)
  BY <1>1 DEF Held
<1>3. DrawInv(r, c, g, d)
  BY <1>1, <1>2 DEF ThreadInv, DrawInv
<1> QED
  BY <1>2, <1>3 DEF ThreadInv

(* The operations of a context change, which keeps its stream; a context   *)
(* of chacha_ops is not ready before it is seeded.                         *)
LEMMA NewOps ==
    ASSUME NEW r, NEW c, NEW g, NEW d, ThreadInv(r, c, g, d),
           NEW o \in {"system", "chacha"}, NEW y \in BOOLEAN, o = "chacha" => ~y
    PROVE  /\ ThreadInv([r EXCEPT !.ops = o, !.ready = y], c, g, d)
           /\ Held([r EXCEPT !.ops = o, !.ready = y], c, g) = Held(r, c, g)
<1> DEFINE s == [r EXCEPT !.ops = o, !.ready = y]
<1>1. r \in Context
  BY DEF ThreadInv
<1>2. /\ s \in Context /\ s.nonce = r.nonce /\ s.stream = r.stream
      /\ s.ops = o /\ s.ready = y
  BY <1>1 DEF Context
<1>3. Held(s, c, g) = Held(r, c, g)
  BY <1>2 DEF Held
<1>4. StreamInv(s, g)
  BY <1>2 DEF ThreadInv, StreamInv
<1>5. DrawInv(s, c, g, d)
  BY <1>2, <1>3 DEF ThreadInv, DrawInv
<1> QED
  BY <1>2, <1>3, <1>4, <1>5 DEF ThreadInv

(* A seeded context is at the beginning of a stream of which its caller    *)
(* was given nothing.                                                      *)
LEMMA SeededInv ==
    ASSUME NEW r, NEW c, NEW g, NEW d, ThreadInv(r, c, g, d),
           NEW nonce \in Seq(Nat), Len(nonce) = NonceLen,
           NEW e \in Nat, d <= e, Elems(nonce) \subseteq 1 .. e,
           Elems(nonce) \cap GivenDraws(g) = {}
    PROVE  /\ ThreadInv(Seeded(r, nonce), Idle, g, e)
           /\ Held(Seeded(r, nonce), Idle, g) \subseteq GivenDraws(g) \cup Elems(nonce)
<1> DEFINE s == Seeded(r, nonce)
<1>1. /\ r \in Context /\ g \in Seq(RngByte) /\ d \in Nat /\ r.stream.v \in WideVariants
      /\ GivenInv(g) /\ Len(g) <= MaxGiven /\ GivenDraws(g) \subseteq 1 .. d
  BY DEF ThreadInv, StreamInv, CallInv, DrawInv, Held
<1>2. r.stream.v \in Variant
  BY <1>1 DEF WideVariants
<1>3. /\ StreamAt(ChaChaInit(r.stream.v, 0), 0, 0)
      /\ ChaChaInit(r.stream.v, 0).v = r.stream.v
  BY <1>2, InitStream DEF ChaChaInit
<1>4. ChaChaInit(r.stream.v, 0) \in ChaChaCtx
  BY <1>3 DEF StreamAt
<1>5. /\ s \in Context /\ s.nonce = nonce /\ s.stream = ChaChaInit(r.stream.v, 0)
      /\ s.ready = TRUE
  BY <1>1, <1>4 DEF Seeded, Context
<1>6. Held(s, Idle, g) \subseteq GivenDraws(g) \cup Elems(nonce)
  BY <1>5, IdleFacts DEF Held
<1>7. Count(nonce, g, Len(g)) = 0
  <2>1. \A i \in 1 .. Len(g) : g[i].from # nonce
    <3> SUFFICES ASSUME NEW i \in 1 .. Len(g), g[i].from = nonce PROVE FALSE
      OBVIOUS
    <3>1. 1 \in DOMAIN nonce /\ nonce[1] \in Nat /\ i \in DOMAIN g
      BY <1>1, RngAssumption
    <3>2. nonce[1] \in Elems(nonce)
      BY <3>1 DEF Elems
    <3>3. nonce[1] \in GivenDraws(g)
      BY <3>1, <3>2 DEF GivenDraws
    <3> QED
      BY <3>2, <3>3
  <2>2. Places(nonce, g, Len(g)) = {}
    BY <2>1 DEF Places
  <2> QED
    BY <2>2, FS_EmptySet DEF Count
<1>8. StreamInv(s, g)
  BY <1>1, <1>3, <1>5, <1>7, RngAssumption DEF StreamInv
<1>9. DrawInv(s, Idle, g, e)
  <2>1. 1 .. d \subseteq 1 .. e
    BY <1>1
  <2> QED
    BY <1>1, <1>6, <2>1, IdleFacts DEF DrawInv
<1> HIDE DEF s
<1> QED
  BY <1>1, <1>5, <1>6, <1>8, <1>9, IdleFacts DEF ThreadInv, s

-----------------------------------------------------------------------------
(* sdc_rng_generate of the ChaCha20 generator: the next n of its stream.   *)
SpentBy(r, n) == [r EXCEPT !.stream = Crypt(r.stream, n).ctx]

ChunkOf(r, n) == [i \in 1 .. n |-> [from |-> r.nonce, at |-> Crypt(r.stream, n).ks[i]]]

(* A stream gives its next n bytes: all of them behind those it gave.      *)
LEMMA GivesStream ==
    ASSUME NEW r, NEW g, NEW d, ThreadInv(r, Idle, g, d), r.nonce # <<>>,
           NEW n \in Nat, Len(g) + n <= MaxGiven
    PROVE  /\ ThreadInv(SpentBy(r, n), Idle, g \o ChunkOf(r, n), d)
           /\ Held(SpentBy(r, n), Idle, g \o ChunkOf(r, n)) \subseteq Held(r, Idle, g)
<1> DEFINE s == SpentBy(r, n)
           b == g \o ChunkOf(r, n)
           h == ChunkOf(r, n)
           L == Len(g)
           p == Count(r.nonce, g, L)
<1>1. /\ r \in Context /\ g \in Seq(RngByte) /\ d \in Nat /\ GivenInv(g)
      /\ r.stream.v \in WideVariants /\ Len(r.nonce) = NonceLen
      /\ StreamAt(r.stream, 0, p) /\ r.nonce \in Seq(Nat)
  BY DEF ThreadInv, StreamInv, Context
<1>2. L \in Nat /\ p \in Nat /\ p <= L
  BY <1>1, PlacesFacts
<1>3. /\ StreamAt(Crypt(r.stream, n).ctx, 0, p + n)
      /\ Crypt(r.stream, n).ctx.v = r.stream.v
      /\ Crypt(r.stream, n).ks = Stream(r.stream.v, 0, p, n)
  <2>1. p \in Nat /\ 0 \in Nat /\ StreamAt(r.stream, 0, p) /\ n \in Nat
    BY <1>1, <1>2
  <2> HIDE DEF p
  <2>2. StreamAt(Crypt(r.stream, n).ctx, 0, p + n)
    BY ONLY <2>1, CryptStream
  <2>3. Crypt(r.stream, n).ctx.v = r.stream.v
    BY ONLY <2>1, CryptStream, SMTT(60)
  <2>4. Crypt(r.stream, n).ks = Stream(r.stream.v, 0, p, n)
    BY ONLY <2>1, CryptStream, SMTT(60)
  <2> QED
    BY <2>2, <2>3, <2>4
<1>4. ASSUME NEW i \in 1 .. n
      PROVE  h[i].from = r.nonce /\ h[i].at = PlaceOf(p + (i - 1)) /\ h[i].at \in KsByte
  <2>1. h[i].from = r.nonce /\ h[i].at = Crypt(r.stream, n).ks[i]
    BY DEF ChunkOf
  <2>2. Crypt(r.stream, n).ks[i] = StreamByte(r.stream.v, 0, p + (i - 1))
    BY <1>3 DEF Stream
  <2>3. p + (i - 1) \in Nat /\ p + (i - 1) < WordMod * WordMod * StreamBlock
    <3>1. MaxGiven \in Nat /\ MaxGiven <= WordMod * WordMod * StreamBlock
      BY RngAssumption
    <3>2. WordMod * WordMod * StreamBlock \in Nat
      <4>1. \A x, y \in Nat : x * y \in Nat
        OBVIOUS
      <4> QED
        BY <4>1, ChaChaAssumption
    <3>3. L + n <= MaxGiven
      OBVIOUS
    <3> HIDE DEF p, L
    <3>4. \A x \in Nat : x >= MaxGiven => p + (i - 1) \in Nat /\ p + (i - 1) < x
      BY <1>2, <3>1, <3>3
    <3> QED
      BY <3>1, <3>2, <3>4
  <2> QED
    BY <1>1, <2>1, <2>2, <2>3, PlaceOfFacts
<1>5. h \in Seq(RngByte) /\ Len(h) = n
  <2>1. \A i \in 1 .. n : h[i] \in RngByte
    <3> SUFFICES ASSUME NEW i \in 1 .. n PROVE h[i] \in RngByte
      OBVIOUS
    <3>1. h[i] = [from |-> r.nonce, at |-> h[i].at]
      BY DEF ChunkOf
    <3> QED
      BY <1>1, <1>4, <3>1 DEF RngByte
  <2>2. h \in [1 .. n -> RngByte]
    BY <2>1 DEF ChunkOf
  <2> HIDE DEF h
  <2> QED
    BY <2>2, TableIsSeq
<1>6. b = g \o h /\ b \in Seq(RngByte) /\ Len(b) = L + n
  <2>1. b = g \o h
    OBVIOUS
  <2> HIDE DEF h
  <2>2. g \o h \in Seq(RngByte) /\ Len(g \o h) = Len(g) + Len(h)
    BY <1>1, <1>5, ConcatFacts, ZenonT(60)
  <2> QED
    BY <1>5, <2>1, <2>2
<1>7. ASSUME NEW m \in 0 .. n PROVE Count(r.nonce, b, L + m) = p + m
  <2>1. m \in 0 .. Len(h) /\ \A i \in 1 .. m : h[i].from = r.nonce
    BY <1>4, <1>5
  <2>2. Count(r.nonce, g \o h, Len(g) + m) = Count(r.nonce, g, Len(g)) + m
    <3> HIDE DEF h
    <3> QED
      BY <1>1, <1>5, <2>1, CountRun
  <2> QED
    BY <1>6, <2>2
<1>8. GivenInv(b)
  <2>1. ASSUME NEW i \in 1 .. n
        PROVE  /\ h[i].from # <<>> /\ Len(h[i].from) # 1
               /\ OrderedAt(b, L + i)
    <3>1. h[i].from = r.nonce /\ Len(r.nonce) # 1
      BY <1>1, <1>4, RngAssumption
    <3>2. b[L + i] = h[i]
      BY <1>1, <1>5, <1>6, ConcatAt, SMTT(60)
    <3>3. Count(r.nonce, b, (L + i) - 1) = p + (i - 1)
      <4>1. i - 1 \in 0 .. n /\ (L + i) - 1 = L + (i - 1)
        BY <1>2
      <4> HIDE DEF p, L
      <4> QED
        BY <1>7, <4>1
    <3> QED
      BY <1>4, <3>1, <3>2, <3>3 DEF OrderedAt
  <2> HIDE DEF h
  <2> QED
    BY <1>1, <1>5, <1>6, <2>1, GivenPrefix
<1>9. s \in Context /\ s.nonce = r.nonce /\ s.stream = Crypt(r.stream, n).ctx
  <2>1. Crypt(r.stream, n).ctx \in ChaChaCtx
    BY <1>3 DEF StreamAt
  <2> QED
    BY <1>1, <2>1 DEF Context, SpentBy
<1>10. StreamInv(s, b)
  <2>1. s.ready = r.ready /\ s.ops = r.ops /\ s.stream.v = r.stream.v
    BY <1>1, <1>3, <1>9 DEF Context, SpentBy
  <2>2. Count(s.nonce, b, Len(b)) = p + n
    BY <1>6, <1>7, <1>9
  <2> QED
    BY <1>1, <1>3, <1>9, <2>1, <2>2 DEF StreamInv
<1>11. GivenDraws(h) \subseteq Elems(r.nonce)
  BY <1>4, <1>5 DEF GivenDraws
<1>12. Held(s, Idle, b) \subseteq Held(r, Idle, g)
  <2>1. GivenDraws(b) \subseteq GivenDraws(g) \cup GivenDraws(h)
    BY <1>1, <1>5, <1>6, GivenDrawsGrow
  <2> QED
    BY <1>9, <1>11, <2>1 DEF Held
<1>13. DrawInv(s, Idle, b, d)
  BY <1>12, IdleFacts DEF ThreadInv, DrawInv
<1>14. CallInv(Idle, b)
  BY <1>6, IdleFacts
<1> QED
  BY <1>1, <1>6, <1>8, <1>9, <1>10, <1>12, <1>13, <1>14, IdleFacts DEF ThreadInv

(* What system_rng_generate read is given to the caller: bytes no one had. *)
SystemChunk(got) == [i \in DOMAIN got |-> SystemByte(got[i])]

(* The system generator gives draws nobody was given before.               *)
LEMMA GivesSystem ==
    ASSUME NEW r, NEW c, NEW g, NEW d, ThreadInv(r, c, g, d), c.for = "caller",
           NEW b, b = g \o SystemChunk(c.got)
    PROVE  /\ ThreadInv(r, Idle, b, d)
           /\ Held(r, Idle, b) \subseteq Held(r, c, g)
<1> DEFINE h == SystemChunk(c.got)
           L == Len(g)
           n == Len(c.got)
<1>1. /\ r \in Context /\ g \in Seq(RngByte) /\ d \in Nat /\ GivenInv(g) /\ StreamInv(r, g)
      /\ c.got \in Seq(Nat) /\ c.want \in Nat /\ n <= c.want /\ Len(g) + c.want <= MaxGiven
      /\ \A i, j \in 1 .. n : c.got[i] = c.got[j] => i = j
      /\ Elems(c.got) \cap (Elems(r.nonce) \cup GivenDraws(g)) = {}
      /\ Held(r, c, g) \subseteq 1 .. d
  BY DEF ThreadInv, CallRec, CallInv, DrawInv
<1>2. L \in Nat /\ n \in Nat
  BY <1>1
<1>3. ASSUME NEW i \in 1 .. n
      PROVE  /\ h[i] = SystemByte(c.got[i]) /\ h[i].from = <<c.got[i]>> /\ h[i] \in RngByte
             /\ c.got[i] \in Nat /\ c.got[i] \in Elems(c.got)
  <2>1. i \in DOMAIN c.got /\ c.got[i] \in Nat
    BY <1>1
  <2>2. <<c.got[i]>> \in Seq(Nat) /\ <<0, 0>> \in KsByte
    BY <2>1 DEF KsByte
  <2> QED
    BY <2>1, <2>2 DEF SystemChunk, SystemByte, RngByte, Elems
<1>4. h \in Seq(RngByte) /\ Len(h) = n
  <2>1. DOMAIN c.got = 1 .. n
    BY <1>1
  <2>2. h \in [1 .. n -> RngByte]
    BY <1>3, <2>1 DEF SystemChunk
  <2> HIDE DEF h, n
  <2> QED
    BY <1>2, <2>2, TableIsSeq
<1>5. b = g \o h /\ b \in Seq(RngByte) /\ Len(b) = L + n
  <2>1. b = g \o h
    OBVIOUS
  <2> HIDE DEF h
  <2>2. g \o h \in Seq(RngByte) /\ Len(g \o h) = Len(g) + Len(h)
    <3>1. g \in Seq(RngByte) /\ h \in Seq(RngByte)
      BY <1>1, <1>4
    <3> QED
      BY ONLY <3>1, ConcatFacts
  <2> QED
    BY <1>4, <2>1, <2>2
<1>6. GivenInv(b)
  <2>1. ASSUME NEW i \in 1 .. n, NEW j \in 1 .. L PROVE h[i].from # g[j].from
    <3> SUFFICES ASSUME h[i].from = g[j].from PROVE FALSE
      OBVIOUS
    <3>1. g[j].from = <<c.got[i]>> /\ j \in DOMAIN g
      BY <1>1, <1>3, SMTT(60)
    <3>2. c.got[i] \in Elems(g[j].from)
      BY <3>1 DEF Elems
    <3>3. c.got[i] \in GivenDraws(g)
      BY <1>3, <3>1, <3>2 DEF GivenDraws
    <3> QED
      BY <1>1, <1>3, <3>3
  <2>2. ASSUME NEW i \in 1 .. n, NEW j \in 1 .. n, i # j PROVE h[i].from # h[j].from
    BY <1>1, <1>3, <2>2
  <2>3. ASSUME NEW i \in 1 .. n PROVE h[i].from # <<>> /\ OrderedAt(b, L + i)
    <3>1. b[L + i] = h[i]
      BY <1>1, <1>4, <1>5, ConcatAt, SMTT(60)
    <3>2. b[L + i].from = <<c.got[i]>> /\ Len(<<c.got[i]>>) = 1
      BY <1>3, <3>1
    <3>3. ~ (Len(b[L + i].from) > 1)
      BY ONLY <3>2
    <3>4. OrderedAt(b, L + i)
      BY ONLY <3>3 DEF OrderedAt
    <3>5. h[i].from # <<>>
      <4>1. h[i].from = <<c.got[i]>> /\ <<c.got[i]>> # <<>>
        BY <1>3
      <4> QED
        BY ONLY <4>1
    <3> QED
      BY <3>4, <3>5
  <2> HIDE DEF h
  <2> QED
    BY <1>1, <1>4, <1>5, <2>1, <2>2, <2>3, GivenPrefix
<1>7. StreamInv(r, b)
  <2> SUFFICES ASSUME r.nonce # <<>> PROVE Count(r.nonce, b, Len(b)) = Count(r.nonce, g, L)
    BY <1>1 DEF StreamInv
  <2>1. \A i \in 1 .. n : h[i].from # r.nonce
    <3>1. Len(r.nonce) = NonceLen /\ NonceLen # 1
      BY <1>1, RngAssumption DEF StreamInv
    <3>2. ASSUME NEW i \in 1 .. n PROVE h[i].from = <<c.got[i]>> /\ Len(<<c.got[i]>>) = 1
      BY <1>3
    <3> QED
      BY <3>1, <3>2
  <2>2. n \in 0 .. Len(h)
    BY <1>2, <1>4
  <2>3. Count(r.nonce, g \o h, Len(g) + n) = Count(r.nonce, g, Len(g))
    <3>1. /\ g \in Seq(RngByte) /\ h \in Seq(RngByte) /\ n \in 0 .. Len(h)
          /\ \A i \in 1 .. n : h[i].from # r.nonce
      BY <1>1, <1>4, <2>1, <2>2
    <3> HIDE DEF h, n
    <3> QED
      BY ONLY <3>1, CountRun
  <2> QED
    BY <1>5, <2>3
<1>8. GivenDraws(h) \subseteq Elems(c.got)
  BY <1>3, <1>4 DEF GivenDraws, Elems
<1>9. Held(r, Idle, b) \subseteq Held(r, c, g)
  <2>1. GivenDraws(b) \subseteq GivenDraws(g) \cup GivenDraws(h)
    BY <1>1, <1>4, <1>5, GivenDrawsGrow
  <2> QED
    BY <1>8, <2>1, IdleFacts DEF Held
<1>10. DrawInv(r, Idle, b, d)
  BY <1>1, <1>9, IdleFacts DEF DrawInv
<1>11. CallInv(Idle, b)
  <2>1. Len(b) <= MaxGiven /\ b \in Seq(RngByte)
    <3>1. L + c.want <= MaxGiven /\ MaxGiven \in Nat
      BY <1>1, RngAssumption
    <3> HIDE DEF L, n
    <3> QED
      BY <1>1, <1>2, <1>5, <3>1
  <2> QED
    BY <2>1, IdleFacts
<1> QED
  BY <1>1, <1>5, <1>6, <1>7, <1>9, <1>10, <1>11, IdleFacts DEF ThreadInv

-----------------------------------------------------------------------------
(* The draws of a read are new and all different.                          *)
LEMMA FreshDraws ==
    ASSUME drawn \in Nat, NEW n \in Nat
    PROVE  /\ Fresh(n) \in Seq(Nat) /\ Len(Fresh(n)) = n
           /\ Elems(Fresh(n)) \subseteq drawn + 1 .. drawn + n
           /\ \A i, j \in 1 .. n : Fresh(n)[i] = Fresh(n)[j] => i = j
BY DEF Fresh, Elems

(* One read: what it puts behind the bytes read so far is new.             *)
LEMMA ReadsInv ==
    ASSUME NEW r, NEW c, NEW g, ThreadInv(r, c, g, drawn),
           NEW n \in Nat, n <= c.want - Len(c.got),
           NEW e, e = [c EXCEPT !.got = @ \o Fresh(n)]
    PROVE  /\ ThreadInv(r, e, g, drawn + n)
           /\ Held(r, e, g) \subseteq Held(r, c, g) \cup (drawn + 1 .. drawn + n)
<1> DEFINE f == Fresh(n)
           L == Len(c.got)
<1>1. /\ c \in CallRec /\ c.got \in Seq(Nat) /\ c.want \in Nat /\ drawn \in Nat
      /\ CallInv(c, g) /\ Held(r, c, g) \subseteq 1 .. drawn
      /\ \A i, j \in 1 .. L : c.got[i] = c.got[j] => i = j
      /\ Elems(c.got) \cap (Elems(r.nonce) \cup GivenDraws(g)) = {}
  BY DEF ThreadInv, DrawInv, CallRec
<1>2. /\ f \in Seq(Nat) /\ Len(f) = n /\ Elems(f) \subseteq drawn + 1 .. drawn + n
      /\ \A i, j \in 1 .. n : f[i] = f[j] => i = j
  BY <1>1, FreshDraws
<1>3. /\ e.got = c.got \o f /\ e.want = c.want /\ e.for = c.for
  BY <1>1 DEF CallRec
<1> HIDE DEF f
<1>4. L \in Nat /\ c.got \o f \in Seq(Nat) /\ Len(c.got \o f) = L + n
  BY <1>1, <1>2, ConcatFacts, ZenonT(60)
<1>5. e \in CallRec
  <2>1. e = [for |-> c.for, at |-> c.at, want |-> c.want, got |-> c.got \o f]
    BY <1>1 DEF CallRec, f
  <2>2. /\ c.for \in {"none", "init", "caller"} /\ c.at \in {"idle", "open", "read"}
        /\ c.want \in Nat
    BY <1>1 DEF CallRec
  <2> QED
    BY ONLY <1>4, <2>1, <2>2 DEF CallRec
<1>6. /\ \A i \in 1 .. L : e.got[i] = c.got[i]
      /\ \A i \in 1 .. n : e.got[L + i] = f[i]
  <2>1. c.got \in Seq(Nat) /\ f \in Seq(Nat)
    BY <1>1, <1>2
  <2>2. \A i \in 1 .. Len(c.got) : (c.got \o f)[i] = c.got[i]
    BY ONLY <2>1, ConcatAt
  <2>3. \A i \in 1 .. Len(f) : (c.got \o f)[Len(c.got) + i] = f[i]
    BY ONLY <2>1, ConcatAt
  <2> QED
    BY <1>2, <1>3, <2>2, <2>3
<1>7. \A i \in 1 .. L + n : i \in 1 .. L \/ (i - L \in 1 .. n /\ i = L + (i - L))
  <2>1. L \in Nat /\ n \in Nat
    BY <1>4
  <2> HIDE DEF L
  <2> QED
    BY ONLY <2>1, SMTT(60)
<1>8. \A i \in 1 .. L : c.got[i] \in Elems(c.got) /\ c.got[i] \in 1 .. drawn
  BY <1>1 DEF Elems, Held
<1>9. \A i \in 1 .. n : f[i] \in Elems(f) /\ f[i] \in drawn + 1 .. drawn + n
  BY <1>2 DEF Elems
<1>10. (1 .. drawn) \cap (drawn + 1 .. drawn + n) = {}
  BY <1>1
<1>11. Elems(e.got) \subseteq Elems(c.got) \cup Elems(f)
  <2>1. DOMAIN e.got = 1 .. L + n
    BY <1>3, <1>4
  <2>2. \A i \in 1 .. L + n : e.got[i] \in Elems(c.got) \cup Elems(f)
    BY <1>6, <1>7, <1>8, <1>9
  <2> QED
    BY <2>1, <2>2 DEF Elems
<1>12. Held(r, e, g) \subseteq Held(r, c, g) \cup (drawn + 1 .. drawn + n)
  BY <1>2, <1>11 DEF Held
<1>13. ASSUME NEW i \in 1 .. Len(e.got), NEW j \in 1 .. Len(e.got), e.got[i] = e.got[j]
       PROVE  i = j
  <2>1. i \in 1 .. L + n /\ j \in 1 .. L + n
    BY <1>3, <1>4
  <2>2. CASE i \in 1 .. L /\ j \in 1 .. L
    BY <1>1, <1>6, <1>13, <2>2
  <2>3. CASE i \in 1 .. L /\ j - L \in 1 .. n /\ j = L + (j - L)
    <3>1. e.got[i] \in 1 .. drawn /\ e.got[j] \in drawn + 1 .. drawn + n
      BY <1>6, <1>8, <1>9, <2>3
    <3> QED
      BY <1>10, <1>13, <3>1
  <2>4. CASE j \in 1 .. L /\ i - L \in 1 .. n /\ i = L + (i - L)
    <3>1. e.got[j] \in 1 .. drawn /\ e.got[i] \in drawn + 1 .. drawn + n
      BY <1>6, <1>8, <1>9, <2>4
    <3> QED
      BY <1>10, <1>13, <3>1
  <2>5. CASE /\ i - L \in 1 .. n /\ i = L + (i - L)
             /\ j - L \in 1 .. n /\ j = L + (j - L)
    <3>1. e.got[i] = f[i - L] /\ e.got[j] = f[j - L]
      BY <1>6, <2>5
    <3>2. i - L = j - L
      BY <1>2, <1>13, <2>5, <3>1
    <3> QED
      BY <1>4, <2>1, <3>2, SMTT(60)
  <2> QED
    BY <1>7, <2>1, <2>2, <2>3, <2>4, <2>5
<1>14. Elems(e.got) \cap (Elems(r.nonce) \cup GivenDraws(g)) = {}
  <2>1. Elems(r.nonce) \cup GivenDraws(g) \subseteq 1 .. drawn
    BY <1>1 DEF Held
  <2> QED
    BY <1>1, <1>2, <1>10, <1>11, <2>1
<1>15. DrawInv(r, e, g, drawn + n)
  <2>1. 1 .. drawn \subseteq 1 .. drawn + n /\ drawn + 1 .. drawn + n \subseteq 1 .. drawn + n
    BY <1>1
  <2> QED
    BY <1>1, <1>12, <1>13, <1>14, <2>1 DEF DrawInv
<1>16. CallInv(e, g)
  <2>1. Len(e.got) <= e.want
    <3>1. Len(e.got) = L + n
      BY <1>3, <1>4
    <3> HIDE DEF L
    <3> QED
      BY <1>1, <1>3, <1>4, <3>1 DEF L
  <2> QED
    BY <1>1, <1>3, <2>1 DEF CallInv
<1>17. r \in Context /\ g \in Seq(RngByte) /\ GivenInv(g) /\ StreamInv(r, g)
  BY DEF ThreadInv
<1>18. drawn + n \in Nat
  BY <1>1
<1> QED
  BY ONLY <1>5, <1>12, <1>15, <1>16, <1>17, <1>18 DEF ThreadInv

-----------------------------------------------------------------------------
(* The invariant through each kind of step, one lemma per action.          *)
LEMMA ThreadTypes ==
    ASSUME RngInv, NEW t \in Threads
    PROVE  /\ ThreadInv(rng[t], call[t], given[t], drawn)
           /\ rng \in [Threads -> Context] /\ call \in [Threads -> CallRec]
           /\ given \in [Threads -> Seq(RngByte)] /\ drawn \in Nat
           /\ rng[t] \in Context /\ call[t] \in CallRec /\ given[t] \in Seq(RngByte)
BY DEF RngInv

(* A function updated with the value it has.                               *)
LEMMA UpdateSame ==
    ASSUME NEW S, NEW T, NEW f \in [S -> T], NEW t \in S
    PROVE  f = [f EXCEPT ![t] = f[t]]
OBVIOUS

(* A context becomes the system generator's: nonce and stream stay.        *)
LEMMA InitSystemInv ==
    ASSUME RngInv, NEW t \in Threads, InitSystem(t)
    PROVE  RngInv'
<1> DEFINE s == [rng[t] EXCEPT !.ops = "system", !.ready = TRUE]
<1>1. /\ ThreadInv(s, call[t], given[t], drawn)
      /\ Held(s, call[t], given[t]) = Held(rng[t], call[t], given[t])
  <2>1. ThreadInv(rng[t], call[t], given[t], drawn)
    BY ThreadTypes
  <2>2. ThreadInv(s, call[t], given[t], drawn)
    BY ONLY <2>1, NewOps
  <2>3. Held(s, call[t], given[t]) = Held(rng[t], call[t], given[t])
    BY ONLY <2>1, NewOps, ZenonT(60)
  <2> QED
    BY <2>2, <2>3
<1>2. rng' = [rng EXCEPT ![t] = s]
  BY ThreadTypes DEF InitSystem
<1>3. call' = [call EXCEPT ![t] = call[t]] /\ given' = [given EXCEPT ![t] = given[t]]
  BY ThreadTypes, UpdateSame DEF InitSystem
<1>4. drawn \in Nat /\ drawn' = drawn /\ generator' = generator /\ device' = device
  BY ThreadTypes DEF InitSystem
<1> HIDE DEF s
<1> QED
  BY <1>1, <1>2, <1>3, <1>4, OneThreadNoDraw

(* A seeding by a user's generator, successful or not.                     *)
LEMMA InitCustomInv ==
    ASSUME RngInv, NEW t \in Threads, NEW ok \in BOOLEAN, InitCustom(t, ok)
    PROVE  RngInv'
<1> DEFINE s == [rng[t] EXCEPT !.ops = "chacha", !.ready = FALSE]
           z == IF ok THEN Seeded(s, Fresh(NonceLen)) ELSE s
           d == IF ok THEN drawn + NonceLen ELSE drawn
<1>1. /\ ThreadInv(s, call[t], given[t], drawn)
      /\ Held(s, call[t], given[t]) = Held(rng[t], call[t], given[t])
  <2>1. ThreadInv(rng[t], call[t], given[t], drawn)
    BY ThreadTypes
  <2>2. ThreadInv(s, call[t], given[t], drawn)
    BY ONLY <2>1, NewOps
  <2>3. Held(s, call[t], given[t]) = Held(rng[t], call[t], given[t])
    BY ONLY <2>1, NewOps, ZenonT(150)
  <2> QED
    BY <2>2, <2>3
<1>2. call[t] = Idle /\ generator' = generator /\ device' = device
  BY DEF InitCustom
<1>3. rng' = [rng EXCEPT ![t] = z] /\ drawn' = d
  BY DEF InitCustom
<1>4. call' = [call EXCEPT ![t] = call[t]] /\ given' = [given EXCEPT ![t] = given[t]]
  BY ThreadTypes, UpdateSame DEF InitCustom
<1>5. drawn \in Nat /\ NonceLen \in Nat /\ d \in Nat /\ drawn <= d
  BY ThreadTypes, RngAssumption
<1>6. /\ ThreadInv(z, call[t], given[t], d)
      /\ Held(z, call[t], given[t])
            \subseteq Held(rng[t], call[t], given[t]) \cup (drawn + 1 .. d)
  <2>1. CASE ~ok
    BY <1>1, <2>1
  <2>2. CASE ok
    <3> DEFINE f == Fresh(NonceLen)
    <3>1. /\ f \in Seq(Nat) /\ Len(f) = NonceLen
          /\ Elems(f) \subseteq drawn + 1 .. drawn + NonceLen
      BY <1>5, FreshDraws
    <3>2. GivenDraws(given[t]) \subseteq 1 .. drawn
      BY ThreadTypes DEF ThreadInv, DrawInv, Held
    <3>3. Elems(f) \cap GivenDraws(given[t]) = {} /\ Elems(f) \subseteq 1 .. d
      <4>1. (1 .. drawn) \cap (drawn + 1 .. drawn + NonceLen) = {}
        BY <1>5
      <4>2. drawn + 1 .. drawn + NonceLen \subseteq 1 .. d
        BY <1>5, <2>2
      <4> QED
        BY <3>1, <3>2, <4>1, <4>2
    <3>4. z = Seeded(s, f) /\ d = drawn + NonceLen
      BY <2>2
    <3> HIDE DEF s, f, z, d
    <3>5. ThreadInv(z, Idle, given[t], d)
      BY <1>1, <1>5, <3>1, <3>3, <3>4, SeededInv
    <3>6. Held(z, Idle, given[t]) \subseteq GivenDraws(given[t]) \cup Elems(f)
      BY <1>1, <1>5, <3>1, <3>3, <3>4, SeededInv
    <3> QED
      BY <1>2, <3>1, <3>4, <3>5, <3>6 DEF Held
  <2> QED
    BY <2>1, <2>2
<1> HIDE DEF z, d
<1> QED
  BY <1>2, <1>3, <1>4, <1>5, <1>6, OneThread

(* A seeding by the system generator begins.                               *)
LEMMA InitDefaultInv ==
    ASSUME RngInv, NEW t \in Threads, InitDefault(t)
    PROVE  RngInv'
<1> DEFINE s == [rng[t] EXCEPT !.ops = "chacha", !.ready = FALSE]
           c == [for |-> "init", at |-> "open", want |-> NonceLen, got |-> <<>>]
<1>1. /\ ThreadInv(s, call[t], given[t], drawn)
      /\ Held(s, call[t], given[t]) = Held(rng[t], call[t], given[t])
  <2>1. ThreadInv(rng[t], call[t], given[t], drawn)
    BY ThreadTypes
  <2>2. ThreadInv(s, call[t], given[t], drawn)
    BY ONLY <2>1, NewOps
  <2>3. Held(s, call[t], given[t]) = Held(rng[t], call[t], given[t])
    BY ONLY <2>1, NewOps, ZenonT(60)
  <2> QED
    BY <2>2, <2>3
<1>2. /\ call[t] = Idle /\ generator' = generator /\ device' = device /\ drawn' = drawn
      /\ call' = [call EXCEPT ![t] = c]
  BY DEF InitDefault
<1>3. rng' = [rng EXCEPT ![t] = s] /\ given' = [given EXCEPT ![t] = given[t]] /\ drawn \in Nat
  BY ThreadTypes, UpdateSame DEF InitDefault
<1>4. c \in CallRec /\ c.got = <<>> /\ CallInv(c, given[t])
  <2>1. c \in CallRec /\ c.got = <<>> /\ Len(c.got) <= c.want
    BY RngAssumption DEF CallRec
  <2>2. Len(given[t]) <= MaxGiven
    BY ThreadTypes DEF ThreadInv, CallInv
  <2> QED
    BY <2>1, <2>2 DEF CallInv
<1> HIDE DEF s, c
<1>5. ThreadInv(s, c, given[t], drawn) /\ Held(s, c, given[t]) \subseteq Held(s, Idle, given[t])
  BY <1>1, <1>2, <1>4, BeginsCall
<1> QED
  BY <1>1, <1>2, <1>3, <1>5, OneThreadNoDraw

(* A ChaCha20 context gives the next bytes of its stream.                  *)
LEMMA GenerateChaChaInv ==
    ASSUME RngInv, NEW t \in Threads, NEW n \in Requests, GenerateChaCha(t, n)
    PROVE  RngInv'
<1> DEFINE s == SpentBy(rng[t], n)
           b == given[t] \o ChunkOf(rng[t], n)
<1>1. /\ call[t] = Idle /\ rng[t].ready /\ rng[t].ops = "chacha"
      /\ Len(given[t]) + n <= MaxGiven /\ n \in Nat
      /\ generator' = generator /\ device' = device /\ drawn' = drawn
  BY RngAssumption DEF GenerateChaCha, MayAsk
<1>2. rng[t].nonce # <<>> /\ drawn \in Nat
  BY <1>1, ThreadTypes DEF ThreadInv, StreamInv
<1>3. rng' = [rng EXCEPT ![t] = s]
  BY ThreadTypes DEF GenerateChaCha, SpentBy
<1>4. given' = [given EXCEPT ![t] = b]
  BY ThreadTypes DEF GenerateChaCha, ChunkOf
<1>5. call' = [call EXCEPT ![t] = call[t]]
  BY ThreadTypes, UpdateSame DEF GenerateChaCha
<1>6. ThreadInv(rng[t], Idle, given[t], drawn)
  BY <1>1, ThreadTypes
<1>7. ThreadInv(s, Idle, b, drawn)
  BY <1>1, <1>2, <1>6, GivesStream
<1>8. Held(s, Idle, b) \subseteq Held(rng[t], Idle, given[t])
  <2>1. /\ ThreadInv(rng[t], Idle, given[t], drawn) /\ rng[t].nonce # <<>>
        /\ n \in Nat /\ Len(given[t]) + n <= MaxGiven
    BY <1>1, <1>2, <1>6
  <2> QED
    BY ONLY <2>1, GivesStream
<1> HIDE DEF s, b
<1> QED
  BY <1>1, <1>2, <1>3, <1>4, <1>5, <1>7, <1>8, OneThreadNoDraw

(* A caller's request to the system generator begins.                      *)
LEMMA GenerateSystemInv ==
    ASSUME RngInv, NEW t \in Threads, NEW n \in Requests, GenerateSystem(t, n)
    PROVE  RngInv'
<1> DEFINE c == [for |-> "caller", at |-> "open", want |-> n, got |-> <<>>]
<1>1. /\ call[t] = Idle /\ Len(given[t]) + n <= MaxGiven /\ n \in Nat
      /\ call' = [call EXCEPT ![t] = c]
      /\ generator' = generator /\ device' = device /\ drawn' = drawn
  BY RngAssumption DEF GenerateSystem, MayAsk
<1>2. /\ rng' = [rng EXCEPT ![t] = rng[t]] /\ given' = [given EXCEPT ![t] = given[t]]
      /\ drawn \in Nat
  BY ThreadTypes, UpdateSame DEF GenerateSystem
<1>3. c \in CallRec /\ c.got = <<>> /\ CallInv(c, given[t])
  <2>1. c \in CallRec /\ c.got = <<>> /\ Len(c.got) <= c.want /\ c.want = n /\ c.for = "caller"
    BY <1>1 DEF CallRec
  <2>2. Len(given[t]) <= MaxGiven
    BY ThreadTypes DEF ThreadInv, CallInv
  <2> QED
    BY <1>1, <2>1, <2>2 DEF CallInv
<1>4. ThreadInv(rng[t], Idle, given[t], drawn)
  BY <1>1, ThreadTypes
<1> HIDE DEF c
<1>5. /\ ThreadInv(rng[t], c, given[t], drawn)
      /\ Held(rng[t], c, given[t]) \subseteq Held(rng[t], Idle, given[t])
  BY <1>3, <1>4, BeginsCall
<1> QED
  BY <1>1, <1>2, <1>5, OneThreadNoDraw

(* Leaving without an answer: the open or a read failed.                   *)
LEMMA FailsInv ==
    ASSUME RngInv, NEW t \in Threads, Return(t, FALSE), drawn' = drawn,
           generator' = generator, device' = device
    PROVE  RngInv'
<1>1. call' = [call EXCEPT ![t] = Idle]
  BY DEF Return
<1>2. rng' = [rng EXCEPT ![t] = rng[t]] /\ given' = [given EXCEPT ![t] = given[t]]
  BY ThreadTypes, UpdateSame DEF Return
<1>3. ThreadInv(rng[t], call[t], given[t], drawn)
  BY ThreadTypes
<1>4. ThreadInv(rng[t], Idle, given[t], drawn)
  BY ONLY <1>3, LosesBuffer
<1>5. Held(rng[t], Idle, given[t]) \subseteq Held(rng[t], call[t], given[t])
  BY ONLY <1>3, LosesBuffer
<1> QED
  BY <1>1, <1>2, <1>4, <1>5, OneThreadNoDraw

(* Leaving with all that was asked for: a nonce or the caller's bytes.     *)
LEMMA AnswersInv ==
    ASSUME RngInv, NEW t \in Threads, Return(t, TRUE), Remaining(t) = 0, drawn' = drawn,
           generator' = generator, device' = device
    PROVE  RngInv'
<1> DEFINE c == call[t]
           r == rng[t]
           g == given[t]
<1>1. /\ ThreadInv(r, c, g, drawn) /\ c \in CallRec /\ c.got \in Seq(Nat)
      /\ c.want \in Nat /\ c.want = Len(c.got) /\ drawn \in Nat
  <2>1. ThreadInv(r, c, g, drawn) /\ c \in CallRec /\ drawn \in Nat
    BY ThreadTypes
  <2>2. c.got \in Seq(Nat) /\ c.want \in Nat
    BY <2>1 DEF CallRec
  <2>3. c.want - Len(c.got) = 0 /\ Len(c.got) \in Nat
    BY <2>2 DEF Remaining
  <2> QED
    BY <2>1, <2>2, <2>3
<1>2. c.got \o [i \in 1 .. c.want - Len(c.got) |-> 0] = c.got
  <2>1. [i \in 1 .. c.want - Len(c.got) |-> 0] = <<>>
    BY <1>1
  <2> QED
    BY <1>1, <2>1
<1>3. call' = [call EXCEPT ![t] = Idle]
  BY DEF Return
<1>4. CASE c.for = "init"
  <2>1. rng' = [rng EXCEPT ![t] = Seeded(r, c.got)]
    BY <1>2, <1>4 DEF Return
  <2>2. given' = [given EXCEPT ![t] = g]
    BY <1>4, ThreadTypes, UpdateSame DEF Return
  <2>3. /\ Len(c.got) = NonceLen /\ Elems(c.got) \subseteq 1 .. drawn
        /\ Elems(c.got) \cap GivenDraws(g) = {}
    BY <1>1, <1>4 DEF ThreadInv, CallInv, DrawInv, Held
  <2>4. drawn <= drawn
    BY <1>1
  <2> HIDE DEF c, r, g
  <2>5. ThreadInv(Seeded(r, c.got), Idle, g, drawn)
    BY ONLY <1>1, <2>3, <2>4, SeededInv
  <2>6. Held(Seeded(r, c.got), Idle, g) \subseteq GivenDraws(g) \cup Elems(c.got)
    BY ONLY <1>1, <2>3, <2>4, SeededInv
  <2>7. Held(Seeded(r, c.got), Idle, g) \subseteq Held(r, c, g)
    BY <2>6 DEF Held
  <2> USE DEF c, r, g
  <2> QED
    BY <1>3, <2>1, <2>2, <2>5, <2>7, OneThreadNoDraw
<1>5. CASE c.for = "caller"
  <2>1. rng' = [rng EXCEPT ![t] = r]
    BY <1>5, ThreadTypes, UpdateSame DEF Return
  <2>2. given' = [given EXCEPT ![t] = g \o SystemChunk(c.got)]
    BY <1>2, <1>5 DEF Return, SystemChunk
  <2>3. ThreadInv(r, Idle, g \o SystemChunk(c.got), drawn)
    BY ONLY <1>1, <1>5, GivesSystem
  <2>4. Held(r, Idle, g \o SystemChunk(c.got)) \subseteq Held(r, c, g)
    BY ONLY <1>1, <1>5, GivesSystem
  <2> QED
    BY <1>3, <2>1, <2>2, <2>3, <2>4, OneThreadNoDraw
<1>6. CASE c.for \notin {"init", "caller"}
  <2>1. rng' = [rng EXCEPT ![t] = r] /\ given' = [given EXCEPT ![t] = g]
    BY <1>6, ThreadTypes, UpdateSame DEF Return
  <2>2. ThreadInv(r, Idle, g, drawn)
    BY ONLY <1>1, LosesBuffer
  <2>3. Held(r, Idle, g) \subseteq Held(r, c, g)
    BY ONLY <1>1, LosesBuffer
  <2> QED
    BY <1>3, <2>1, <2>2, <2>3, OneThreadNoDraw
<1> QED
  BY <1>4, <1>5, <1>6

(* The device was opened, or was not and the call fails.                   *)
LEMMA OpenedInv ==
    ASSUME RngInv, NEW t \in Threads, NEW ok \in BOOLEAN, Opened(t, ok)
    PROVE  RngInv'
<1>1. CASE ok
  <2> DEFINE e == [call[t] EXCEPT !.at = "read"]
  <2>1. /\ call' = [call EXCEPT ![t] = e] /\ drawn' = drawn
        /\ generator' = generator /\ device' = device
    BY <1>1, ThreadTypes DEF Opened
  <2>2. rng' = [rng EXCEPT ![t] = rng[t]] /\ given' = [given EXCEPT ![t] = given[t]]
    BY <1>1, ThreadTypes, UpdateSame DEF Opened
  <2>3. /\ e \in CallRec /\ e.got = call[t].got /\ e.want = call[t].want
        /\ e.for = call[t].for
    BY ThreadTypes DEF CallRec
  <2> HIDE DEF e
  <2>4. Held(rng[t], e, given[t]) = Held(rng[t], call[t], given[t])
    BY <2>3 DEF Held
  <2>5. CallInv(e, given[t])
    BY <2>3, ThreadTypes DEF ThreadInv, CallInv
  <2>6. DrawInv(rng[t], e, given[t], drawn)
    BY <2>3, <2>4, ThreadTypes DEF ThreadInv, DrawInv
  <2>7. ThreadInv(rng[t], e, given[t], drawn)
    BY <2>3, <2>5, <2>6, ThreadTypes DEF ThreadInv
  <2> QED
    BY <2>1, <2>2, <2>4, <2>7, OneThreadNoDraw
<1>2. CASE ~ok
  BY <1>2, FailsInv DEF Opened
<1> QED
  BY <1>1, <1>2

(* A read of n bytes: they are draws no thread holds.                      *)
LEMMA ReadInv ==
    ASSUME RngInv, NEW t \in Threads, NEW n \in 1 .. call[t].want, Read(t, n)
    PROVE  RngInv'
<1> DEFINE e == [call[t] EXCEPT !.got = @ \o Fresh(n)]
<1>1. /\ drawn' = drawn + n /\ generator' = generator /\ device' = device
      /\ call' = [call EXCEPT ![t] = e]
  BY ThreadTypes DEF Read
<1>2. rng' = [rng EXCEPT ![t] = rng[t]] /\ given' = [given EXCEPT ![t] = given[t]]
  BY ThreadTypes, UpdateSame DEF Read
<1>3. /\ ThreadInv(rng[t], call[t], given[t], drawn) /\ drawn \in Nat /\ n \in Nat
      /\ n <= call[t].want - Len(call[t].got)
  BY ThreadTypes DEF Read, Remaining, CallRec
<1>4. ThreadInv(rng[t], e, given[t], drawn + n)
  BY ONLY <1>3, ReadsInv
<1>5. Held(rng[t], e, given[t])
        \subseteq Held(rng[t], call[t], given[t]) \cup (drawn + 1 .. drawn + n)
  BY ONLY <1>3, ReadsInv, ZenonT(60)
<1>6. drawn + n \in Nat /\ drawn <= drawn + n
  BY <1>3
<1> HIDE DEF e
<1> QED
  BY <1>1, <1>2, <1>4, <1>5, <1>6, OneThread

(* Every step keeps the invariant, one step per action.                    *)
LEMMA RngStep ==
    ASSUME RngInv, [Next]_vars
    PROVE  RngInv'
<1>1. ASSUME NEW g \in {"default", "custom"}, SetSeedGenerator(g) PROVE RngInv'
  BY <1>1 DEF SetSeedGenerator, RngInv
<1>2. ASSUME NEW d \in {"ok", "eof", "broken"}, DeviceChanges(d) PROVE RngInv'
  BY <1>2 DEF DeviceChanges, RngInv
<1>3. ASSUME NEW t \in Threads, InCall(t) PROVE RngInv'
  <2>1. ASSUME NEW ok \in BOOLEAN, Opened(t, ok) PROVE RngInv'
    BY <2>1, OpenedInv
  <2>2. ASSUME NEW n \in 1 .. call[t].want, Read(t, n) PROVE RngInv'
    BY <2>2, ReadInv
  <2>3. CASE ReadFails(t)
    BY <2>3, FailsInv DEF ReadFails, Close
  <2>4. CASE ReadEnds(t)
    BY <2>4, FailsInv DEF ReadEnds, Close
  <2>5. CASE ReadDone(t)
    BY <2>5, AnswersInv DEF ReadDone, Close
  <2> QED
    BY <1>3, <2>1, <2>2, <2>3, <2>4, <2>5 DEF InCall
<1>4. CASE UNCHANGED vars
  BY <1>4 DEF vars, RngInv
<1> QED
  BY <1>1, <1>2, <1>3, <1>4, InitSystemInv, InitDefaultInv, InitCustomInv,
     GenerateChaChaInv, GenerateSystemInv DEF Next

(* Nothing is drawn or given at first.                                     *)
LEMMA RngStart ==
    ASSUME Init
    PROVE  RngInv
<1>1. PICK v \in Builds :
          rng = [t \in Threads |-> [ops |-> "none", ready |-> FALSE, nonce |-> <<>>,
                                    stream |-> ChaChaInit(v, 0)]]
  BY DEF Init
<1>2. v \in WideVariants /\ v \in Variant
  BY RngAssumption DEF WideVariants
<1>3. ChaChaInit(v, 0) \in ChaChaCtx /\ ChaChaInit(v, 0).v = v
  BY <1>2, InitStream DEF StreamAt
<1>4. /\ call = [t \in Threads |-> Idle] /\ given = [t \in Threads |-> <<>>] /\ drawn = 0
      /\ generator = "default" /\ device = "ok"
  BY DEF Init
<1> DEFINE r == [ops |-> "none", ready |-> FALSE, nonce |-> <<>>, stream |-> ChaChaInit(v, 0)]
<1>5. r \in Context /\ r.nonce = <<>> /\ r.stream.v = v /\ r.ops = "none"
  <2>1. <<>> \in Seq(Nat)
    OBVIOUS
  <2> QED
    BY <1>3, <2>1 DEF Context
<1>6. <<>> \in Seq(RngByte) /\ Len(<<>>) = 0
  OBVIOUS
<1> HIDE DEF r
<1>7. Held(r, Idle, <<>>) = {}
  BY <1>5, IdleFacts DEF Held, Elems, GivenDraws
<1>8. ThreadInv(r, Idle, <<>>, 0)
  <2>1. GivenInv(<<>>)
    BY DEF GivenInv
  <2>2. CallInv(Idle, <<>>)
    <3>1. <<>> \in Seq(RngByte) /\ Len(<<>>) <= MaxGiven
      BY <1>6, RngAssumption
    <3> QED
      BY ONLY <3>1, IdleFacts
  <2>3. StreamInv(r, <<>>)
    BY <1>2, <1>5 DEF StreamInv
  <2>4. DrawInv(r, Idle, <<>>, 0)
    BY <1>7, IdleFacts DEF DrawInv
  <2> QED
    BY <1>5, <1>6, <2>1, <2>2, <2>3, <2>4, IdleFacts DEF ThreadInv
<1>9. \A t \in Threads : rng[t] = r /\ call[t] = Idle /\ given[t] = <<>>
  BY <1>1, <1>4 DEF r
<1>10. /\ rng \in [Threads -> Context] /\ call \in [Threads -> CallRec]
       /\ given \in [Threads -> Seq(RngByte)]
  BY <1>1, <1>4, <1>5, <1>6, IdleFacts DEF r
<1> QED
  BY <1>4, <1>7, <1>8, <1>9, <1>10 DEF RngInv

(* The invariant holds in every state.                                     *)
LEMMA RngInvariant == Spec => []RngInv
<1>1. Init => RngInv
  BY RngStart
<1>2. RngInv /\ [Next]_vars => RngInv'
  BY RngStep
<1> QED
  BY <1>1, <1>2, PTL DEF Spec

-----------------------------------------------------------------------------
(* Every variable keeps its type, whatever the threads and the device do.  *)
THEOREM RngTypeOK == Spec => []TypeOK
<1>1. RngInv /\ DescriptorsClosed => TypeOK
  <2> SUFFICES ASSUME RngInv, DescriptorsClosed PROVE TypeOK
    OBVIOUS
  <2>1. opened \in Nat
    <3>1. IsFiniteSet({t \in Threads : call[t].at = "read"})
      BY RngAssumption, FS_Subset
    <3> QED
      BY <3>1, FS_CardinalityType DEF DescriptorsClosed
  <2>2. ASSUME NEW t \in Threads
        PROVE  /\ call[t].for \in {"none", "init", "caller"}
               /\ call[t].at \in {"idle", "open", "read"}
               /\ Remaining(t) >= 0 /\ given[t] \in Seq(RngByte)
    <3>1. /\ call[t] \in CallRec /\ Len(call[t].got) <= call[t].want
          /\ given[t] \in Seq(RngByte)
      BY ThreadTypes DEF ThreadInv, CallInv
    <3> QED
      BY <3>1 DEF CallRec, Remaining
  <2> QED
    BY <2>1, <2>2 DEF TypeOK, RngInv
<1> QED
  BY <1>1, RngInvariant, RngDescriptorsClosed, PTL

(* chacha20_rng.c: however the requests are cut, the bytes of one stream   *)
(* are given in its order, none skipped.                                   *)
THEOREM RngInStreamOrder == Spec => []InStreamOrder
<1>1. RngInv => InStreamOrder
  <2> SUFFICES ASSUME RngInv, NEW t \in Threads, NEW i \in DOMAIN given[t],
                      Len(given[t][i].from) > 1
               PROVE  given[t][i].at = PlaceOf(Count(given[t][i].from, given[t], i - 1))
    BY DEF InStreamOrder, PlaceOf, Count, Places
  <2>1. GivenInv(given[t]) /\ i \in 1 .. Len(given[t])
    BY ThreadTypes DEF ThreadInv
  <2> QED
    BY <2>1 DEF GivenInv, OrderedAt
<1> QED
  BY <1>1, RngInvariant, PTL

(* No byte is given twice, by one context or by two with the same seed, in *)
(* whatever order they are seeded, fail to be and are seeded again.        *)
THEOREM RngNoRepeat == Spec => []NoRepeat
<1>1. RngInv => NoRepeat
  <2> SUFFICES ASSUME RngInv, NEW t \in Threads, NEW u \in Threads,
                      NEW i \in DOMAIN given[t], NEW j \in DOMAIN given[u],
                      given[t][i] = given[u][j]
               PROVE  t = u /\ i = j
    BY DEF NoRepeat
  <2>1. /\ given[t] \in Seq(RngByte) /\ given[u] \in Seq(RngByte)
        /\ GivenInv(given[t]) /\ GivenInv(given[u])
        /\ i \in 1 .. Len(given[t]) /\ j \in 1 .. Len(given[u])
    BY ThreadTypes DEF ThreadInv
  <2> DEFINE from == given[t][i].from
  <2>2. from \in Seq(Nat) /\ from # <<>> /\ from = given[u][j].from
    <3>1. given[t][i] \in RngByte
      BY <2>1
    <3>2. from \in Seq(Nat)
      BY <3>1 DEF RngByte
    <3>3. from # <<>>
      BY <2>1 DEF GivenInv
    <3> QED
      BY <3>2, <3>3
  <2>3. t = u
    <3>1. 1 \in DOMAIN from /\ from[1] \in Nat
      BY <2>2
    <3>2. from[1] \in Elems(given[t][i].from) /\ from[1] \in Elems(given[u][j].from)
      BY <2>2, <3>1 DEF Elems
    <3>3. from[1] \in GivenDraws(given[t]) /\ from[1] \in GivenDraws(given[u])
      BY <3>1, <3>2 DEF GivenDraws
    <3>4. /\ from[1] \in Held(rng[t], call[t], given[t])
          /\ from[1] \in Held(rng[u], call[u], given[u])
      BY <3>3 DEF Held
    <3> QED
      BY <3>4 DEF RngInv
  <2>4. CASE Len(from) = 1
    BY <2>1, <2>2, <2>3, <2>4 DEF GivenInv
  <2>5. CASE Len(from) > 1
    <3> DEFINE g == given[t]
    <3>1. /\ g[i].at = PlaceOf(Count(from, g, i - 1))
          /\ g[j].at = PlaceOf(Count(from, g, j - 1))
      BY <2>1, <2>2, <2>3, <2>5 DEF GivenInv, OrderedAt
    <3>2. i - 1 \in Nat /\ j - 1 \in Nat /\ i \in Nat \ {0} /\ j \in Nat \ {0}
      BY <2>1
    <3>3. Count(from, g, i - 1) \in Nat /\ Count(from, g, j - 1) \in Nat
      BY <3>2, PlacesFacts
    <3>4. Count(from, g, i - 1) = Count(from, g, j - 1)
      BY <2>3, <3>1, <3>3, PlaceOfFacts
    <3>5. g[i].from = from /\ g[j].from = from
      BY <2>2, <2>3
    <3> HIDE DEF g, from
    <3>6. ~ (i < j)
      BY <3>2, <3>3, <3>4, <3>5, CountsBehind
    <3>7. ~ (j < i)
      BY <3>2, <3>3, <3>4, <3>5, CountsBehind
    <3> QED
      BY <2>3, <3>2, <3>6, <3>7
  <2>6. Len(from) = 1 \/ Len(from) > 1
    <3>1. from \in Seq(Nat) /\ from # <<>>
      BY <2>2
    <3> HIDE DEF from
    <3>2. Len(from) \in Nat /\ Len(from) # 0
      BY ONLY <3>1
    <3>3. \A x \in Nat : x # 0 => x = 1 \/ x > 1
      OBVIOUS
    <3> QED
      BY <3>2, <3>3
  <2> QED
    BY <2>3, <2>4, <2>5, <2>6
<1> QED
  BY <1>1, RngInvariant, PTL

=============================================================================
