# A verification of slim-data-crypt

slim-data-crypt is a C99 cryptography library (`src/include/sdcrypt`,
`src/src`). This directory holds TLA+ models of it, TLC configurations that
check them, and theorems checked by TLAPS. Paths below are relative to the
repository.

There are two kinds of model. The *streaming* models (GCM, AEAD, hashes, RNG,
HMAC, block modes, PKCS#1, DER) are about control and position: which bytes meet
which keystream bytes, which bytes a MAC absorbs and in which order, what a
context remembers between two calls, what happens when a call fails or is
interrupted. There a block cipher, a compression function, a keystream round and
a MAC's multiplication are free functions, equal on equal arguments and on no
others. The *arithmetic* models (integers, primes, RSA, the two curves) compute:
the code's algorithms at small word and limb widths, against plain numbers. AES
and SM4 (`Ciphers`) are modelled at full width.

## 1. Inventory

| Component | Source | State | Operations | Hard parts | What makes it correct |
|---|---|---|---|---|---|
| GCM mode | `gcm/gcm.c` | counter block, unspent keystream, lengths, phase | `init_ex`, `aad_update`, `encrypt/decrypt_update`, `..._final` | calls of any size, bulk path beside single-block path, in-place buffers | output, tag and verdict do not depend on the cut; no counter used twice |
| GHASH | `gcm/ghash*.c` | accumulator, partial block, lengths, phase; process-wide dispatch pointer | `init`, `aad`, `update`, `final` | three backends with different buffers | same blocks in the same order in each backend |
| AES-GCM, SM4-GCM | `aes/aes_gcm.c`, `sm4/sm4_gcm.c` | none kept | one-shot | | a fixed sequence of GCM calls |
| ChaCha20 keystreams | `aead/chacha20*.c`, `xchacha20.c` | counters per lane, keystream buffer, bytes used | `init`, `crypt` | 1 or 5 blocks per refill, 32-bit words of a 64-bit counter | bytes in stream order, none twice |
| Poly1305 | `aead/poly1305_{32,64}.c` | accumulator, partial block | `init`, `update`, `final` | block boundary | MAC of the concatenation |
| ChaCha20-Poly1305 AEAD | `aead/aead.c` | keystream and MAC contexts, lengths, verified flag | `init`, `encrypt_*`, `auth_*`, `decrypt_*` | two passes of a receiver, failed verification | RFC 8439; nothing released unverified |
| ASN.1 time | `asn1/asn1time.c` | process-wide cache of days per year, injected time | `to_timestamp`, `now`, `set_current`, `cache_refresh`, `get_cache_range` | stale cache, moving or failing clock | the calendar, whatever the cache holds |
| ASN.1 reader and writer | `asn1/asn1parse.c`, `asn1write.c` | position in a buffer, latched error | read and write of each type, nested writers | reverse writing, length queries, capacity | what is written reads back |
| RNG | `rng/*` | ops, nonce and keystream of a context; process-wide seed generator | `init`, `generate`, `set_seed_generator` | threads, short reads, EINTR, failed seeding | no byte twice, no leak, every call returns |
| Block modes | `block_cipher.c` | none kept | CTR, CBC | batches, in-place buffers | SP 800-38A |
| AES, SM4 | `aes/*`, `sm4/*` | key schedule | block functions | | permutation and its inverse |
| CPU detection | `cpu.c` | process-wide feature record | `cpu_get` | lazy fill without lock | result does not change any output |
| Hashes | `sha/*`, `sm3/*`, `hash.c` | chaining state, partial block, bit count | `init`, `update`, `final`, `squeeze` | padding boundary, buffer-size convention | hash of the concatenation |
| HMAC, PBKDF2 | `kdf/*` | inner and outer hash | `init`, `update`, `final` | long keys, last output block | RFC 2104, RFC 8018 |
| Integers, primes | `integer/*` | none kept | word arithmetic, Montgomery, prime search | carries, attempt limit | integer arithmetic |
| RSA | `rsa/*` | key structures over one allocation | `keypair`, `privkey_init`, PKCS#1 v1.5 | failure paths, prime order, blinding | key relations, inverse operations |
| X25519, Ed25519 | `ec/curve25519/*` | none kept | key exchange, signature | field arithmetic | test vectors |
| Memory, helpers, OIDs | `mem.c`, `utils.c`, `oid.c` | allocator pointers | | | |

How they interact. Everything is a direct call on the caller's thread; there are
no callbacks but the block-cipher functions given to GCM, the allocator and the
seed generator. GCM drives GHASH and a block cipher through pointers and
assumes, without saying so, that GHASH's partial block and its own unspent
keystream are two halves of the same block. AEAD drives a keystream and a
Poly1305 context. The ChaCha20 generator drives the raw keystream and takes its
nonce through the seed generator, by default the system generator. The
ASN.1 readers and writers call the time conversion, which shares one cache in
the process. RSA draws from an RNG context.

`PROJECT.json` lists the hazards line by line, with the properties that would
catch each, and for those that none covers the reason.

## 2. Modules

```
Bytes <- Ghash <- GcmData <- GcmMsg                what one message promises
                     ^----- Gcm (refines GcmMsg)
Bytes <- ChaCha <- AeadMsg <- Aead (refines AeadMsg)
            ^-- Rng
AsnTime <- MCAsnTime <-.
DerWriter <- Der <---- MCAsn1
    ^------- Pkcs1 <-.
WordInt <- Rsa <- MCRsa <----------------.
    ^----- Arithmetic <- MCArithmetic <- MCPublicKey
Curve25519 <--'  '-> INSTANCE Limbs
HashData <- HashMsg
    ^------ MdStream, Sponge <- HashApi (refines HashMsg) <-.
               '<- Kdf <------------ MCSymmetric -> BlockModes, CpuDispatch, Ciphers

Proofs:  Bytes <- DataLemmas <- GcmProofs (Ghash, Gcm)
                     ^-------- ChaChaProofs (ChaCha) <- AeadProofs (Aead)
                                      ^---------------- RngProofs (Rng)
                     ^-------- HashProofs (MdStream, Sponge, HashApi, Kdf)
                     ^-------- PartProofs (BlockModes, CpuDispatch, Pkcs1, Rsa, AsnTime)
                     ^-------- DerProofs (DerWriter, Der)
```

**Bytes.** A byte is a record: where it comes from (`src`, `at`) and the set of
keystream bytes XORed onto it (`ks`). XOR is symmetric difference, so applying
the same keystream byte again takes it off, and a byte masked with the wrong
keystream is different from the right one. Encrypting, decrypting in place and
hashing the wrong buffer are thereby distinguishable without any arithmetic.

**Ghash.** The context of the backends as a record (`state` is the sequence of
bytes absorbed) with one operator per entry of the vtable. `GhUpdate` is the
whole of `s_update`, `x86_update`, `p_update`: flush of the AAD remainder on the
first data, top-up of the buffer, whole blocks, new remainder. The PCLMULQDQ
backend's AAD buffer flush is its own branch of `FlushAad`. The remainder lies in an array of
one block or of eight (`Room`), and where it is padded it is copied into one block, in both cases
unchecked: `AadFits`, `DataFits` and `FinalFits` say whether a copy stays inside.

**Gcm.** `ctx` and `gh` are the fields of `sdc_gcm_ctx`. `InitEx`, `AadUpdate`,
`EncryptUpdate`/`DecryptUpdate` (entry into an update call), `EncryptBulk`,
`EncryptBlock`, `DecryptBulk`, `DecryptBlock` (one iteration of its loop),
`EncryptFinal`, `DecryptFinal`. The caller's side is in `job` (direction,
in place or not, bulk encryptor or not, a byte changed on the way), `out`,
`verdict`, and `todo`, what the running call has left. A call whose copy into or out of the GHASH
remainder would leave an array takes `Overrun` instead: what C does then is undefined, and the
behaviour ends in a stage of its own. A decrypting caller offers the tag
of any sent message of nearby lengths.

**GcmMsg** is the abstract specification: a message of which bytes are
appended to the AAD, then to the text, and a final step gives the one tag that
SP 800-38D defines for what was fed. No buffers, no counters, no blocks.

**ChaCha, Aead, AeadMsg** do the same for the AEAD: `Crypt` is the
loop of `sdc_*_crypt` (refill when empty, use what is buffered), `Advance` the
per-lane counter step with its carry test, `Pad16` the padding. `AeadMsg` is
RFC 8439 for one message, with the receiver's order: authenticate, check, release.

**AsnTime.** `Filled` is `init_cache`, `Stamp` is
`sdc_asn1_time_to_timestamp` with the cache lookup in `DaysBeforeYear`;
`ClockMoves` is the outside world. The reference is the closed formula of the
Gregorian calendar (`ExactStamp`). `WriteThenRead` composes the UTCTime writer
and reader. `AsnTime` and `Der` each have a copy of the two calendar helpers, as
`asn1time.c` and `asn1write.c` do.

**DerWriter, Der.** `DerWriter` is what each writing function puts in front of
the output: `WriteParts` lays parts down from the end and latches the error in the
middle of a value when the buffer is full. `Der` is the caller: it writes a tree
(`Write`, containers begun and ended), and may write a byte through the handle of an open
container (`WriteToHandle`). A handle keeps the place where its container began (`at`), so such a byte goes over
what the writer has laid there since, and `end` refuses a handle that moved; `whole` is history and
says that no handle has changed a written byte. Then it reads with a stack of readers
(`ReadStep`, `Expect`, `Enter`, `Leave`), or reads bytes changed or cut on the way
(`ReaderInitDamaged`). The history `items` of a reader are the successful writes, and `sound` says that every
call on it was answered with data: a refused call or a length query leaves the reader
inside a value (`asn1parse.c:148`), and no document promises that it may be repeated there.

**WordInt.** `integer.c` function by function over sequences of words; the
masks are the numbers 0 and 1. Carry and borrow loops are recursive functions of the word
index or folds. Of `prime.c` it has trial division, one Miller-Rabin base (`PassesBase`) and
`IsPrime` with its two lists of bases.

**Limbs.** The field files: ten signed limbs of 26 and 25 bits
(`fe.c`, `fe32.c`) and five unsigned ones of 51 (`fe64.c`), by the widths they are
given: the products with their folding, the carries in the order of each file, byte conversions,
small multiples and the comparison value. **Curve25519** is the addition chains of `fe_invert` and
`fe_pow22523` at their full 255 bits on the exponents, known by their residues for 18 primes whose
product exceeds 2^269; the ladder, the point formulas, the
tables, signing and verifying, over a prime of 15 bits: a field element there is a
value *and* a size, the number of times a product's limb bound its limbs
reach, and `FeMul` of an operand larger than what the code's multiplication takes
yields `Torn`; and the scalars of `sc.c`: the limb schedule of `sc_reduce` and
`sc_muladd` with the order as folding polynomial. **Arithmetic** makes one call after another on the operands of the
configuration and keeps operands and result in `call`. A Miller-Rabin test is a probabilistic
one, and the reference says so: `PrimesExact` asks for exactly the strong probable primes to the bases used,
hence for every prime, and for composites only where they are that.

**Rsa.** `pub`, `priv`, `heap` (allocations less frees per block) and the call
under way. Generation goes through its allocations, two prime searches and checks one
step at a time, each of which may fail; `PrivkeyInit` takes primes in both orders and
the CRT values computed or supplied; the private operation redraws its blinding
(`DrawRp`, `DrawRq`) until it is usable, adds the carry of the blinded exponents to one word
as the code does, then recombines. **Pkcs1** is the padding
around it: `Encrypt`, `SignHash`, what changes on the way, `Decrypt`, `VerifyHash`,
with the DigestInfo made by `DerWriter`.

**Rng.** A thread is idle or inside `system_rng_generate`, whose `open`, `read`
and `close` are separate steps that interleave with the other threads, with the
device changing (fine, at its end, broken) and with the seed generator pointer
being replaced. `InitCustom` is a seeding by a user's generator, `InitDefault`
one by the system generator.

**HashData, MdStream, Sponge, HashApi, HashMsg.** An algorithm is a record of the
numbers its source file fixes (block or rate, length field, words of the bit
count, first padding byte, digest length). A chaining state is the bytes
compressed so far, so two digests are equal exactly if the padded messages are.
`MdStream` has the update and final functions of SHA-2 and SM3, which share one
shape: `MdTopUp` fills a block begun, `MdBlocks` takes whole blocks from the
caller, `Spills` is the padding test in the two spellings of the sources.
`Sponge` is `keccak_absorb`, `keccak_finalize` and `keccak_squeeze`, loops
included; output bytes are named by the permutation that made them and
their offset. `HashApi` is `hash.c` over both, with SHAKE's own entry points,
and `HashMsg` promises the digest of the concatenation. The padded message of
the reference (`MdPadded`, `SpongePadded`) is written from the standards' definition, not
from the buffers.

**Kdf.** HMAC over two contexts of `MdStream`, fed in calls of any size, and
the PBKDF2 loop. **BlockModes.** CTR and CBC with one trip round the loop per step, over
memory in which input and output may be one buffer: what a trip reads is what
earlier trips wrote. **CpuDispatch.** The feature record of `cpu.c` and the table
pointer of `ghash.c`, every shared read and write a step; the stores of `detect()`
and of the ready flag reach other threads in any order, since the C code asks for none.
**Ciphers.** The key schedules and block functions of AES (portable, AES-NI, ARMv8)
and SM4 (by table and bit-sliced), with their batches; a byte is the set of its bits.
The processor's AES instructions are external, defined from how the code uses them.

## 3. Runs

| Run | Instance | Shows |
|---|---|---|
| `gcm_stream` | blocks of 3 bytes, bulk of 2 blocks, up to 4 bytes of AAD and 9 of text, 2 backends | `TypeOK`, `Lockstep`, `AadStaysInside`, `KeystreamFresh`, refinement of `GcmMsg`, every call returns |
| `gcm_aad_split` | the same with three backends and AAD calls cut anywhere | **violation** of `TagCoversAad` |
| `aead_session` | MAC blocks of 2, keystream blocks of 4 bytes, words of 0..7, up to 33 bytes, all variants | `TypeOK`, `Positions`, `KeystreamFresh`, `DecryptedIsSent`, refinement of `AeadMsg` |
| `asn1` (`Der`) | bytes of 4 bits, so that 8 content bytes take the long form; up to four writing calls, two reading calls; outputs of up to two calls also with a byte changed or cut anywhere | `TypeOK`, `ReadsBack`, `Canonical` |
| `asn1` (`AsnTime`) | the code's 30-year cache, three clocks, five injected times, 19 dates | `TimeTypeOK`, `ConversionsExact`, `InjectedRules`, `UtcRoundTrip` |
| `asn1_time_early` | clocks before 2000 or unreadable | **violation** of `EpochIsZero` |
| `rng_streams` | two threads, nonces of 2 bytes, words of 0..5, 8 bytes handed out per thread | `TypeOK`, `NoRepeat`, `InStreamOrder`, `DescriptorsClosed`, `CallReturns` |
| `symmetric` (`HashApi`) | SHA-256, SM3, SHA-512, SHA3-256 and SHAKE128 shapes with blocks of 3 to 5 bytes, bit count words of 0..95, up to 13 bytes in and 8 out | `TypeOK`, `Positions`, refinement of `HashMsg` |
| `symmetric` (the others) | SHA-256 with blocks of 4 and digests of 2 bytes; modes with blocks of 2 bytes and batches of 2; two threads; the ciphers at full width | `HmacExact`, `DerivedExact`, `ModesExact`, `OneBackend`, `CiphersExact` |
| `public_key` (`Arithmetic`) | words of 3 bits, numbers of one to four words; fields of 26 and 20 bits in 4 and 5 limbs; curves over 32749 with a subgroup of prime order 4127 | `IntegersExact`, `PrimesExact`, `FieldsExact`, `CurvesExact` |
| `public_key` (`Rsa`, `Pkcs1`) | primes of two words of three bits; moduli of 8 to 24 bytes for the padding | `NothingLeft`, `KeysWork`, `PaddingExact` |
| `rsa_digestinfo` | the keys and the padding alone | **violation** of `DigestInfoOrder` |
| `rsa_blinding_carry` | the same | **violation** of `BlindingFull` |
| `rsa_import_order` | the same | **violation** of `SuppliedWork` |
| `rsa_decrypt_size` | the same | **violation** of `DecryptTellsSize` |

Why the bounds are enough. In `gcm_stream` nine bytes are three blocks: a bulk
call, then a full and a partial block, in each order, and AAD of 4 bytes is a
full block and a remainder. The counter's range is 5, so that the longest
message nearly exhausts it. In `aead_session` 33 bytes are nine keystream
blocks of four bytes: the counter, which starts at 1, passes the low word's wrap
at 8 and the message still has a block after it, and a five-lane build refills twice. The IETF variant's message is kept below
its counter's range, as RFC 8439 demands. In `asn1` the dates lie before,
at, inside, at the end of and behind the cached years of every clock, and around
the leap-year rules; a day has two seconds because only the day number is
looked up. `LastYear` is behind every year a date or a cache may have there. In `rng_streams` eight bytes from words of six cross the wrap and a
five-lane refill. For the hashes, eleven to thirteen bytes are two or three blocks, so every
number of buffered bytes meets every call size and the padding spills and does
not spill; the bit count of a one-word algorithm bounds its message at eleven
bytes, that of the two-word one carries at twelve; eight bytes of output
permute twice more.

For `Der` the two buffer sizes make every kind of value fit, not fit, and run
out between its content and its tag; two levels of containers and a sibling fit in four
calls, and so does a value written over through its container's handle. For `Arithmetic`, three-bit words reach every carry and borrow, the top-word
carry of a Montgomery product and the early ends of the loops, with all pairs of
numbers of up to two words. Numbers of several words are tested for primality with base 2
only, and among them are the strong pseudoprimes 2047, 3277 and 4033, of which `gen_prime` takes the last two:
so the test does go wrong within the bounds, and exactly as the reference says. The limbs are taken at the extremes of their bounds,
and the field strings lie around multiples of the moduli and the ignored top bit. The
signed field keeps the code's shape: wide and narrow limbs in turn, each limb within its
half width plus four, limb 1 with the slack (`SSlack`, the code's 0.01 * 2^24)
that the second carry of limb 0 adds. Points
offered as public keys include those of small order, non-canonical ones and ones on
the twist. For `Rsa`, the primes 53, 59 and 61 are all that two words of three bits with the top
two bits set allow; the blinding values include multiples of a prime less one and ones whose sum carries into the high half, and one, 8, whose next word is then all ones for
61 and `e` = 7, so that the carry is lost. The padding's moduli admit no message, a message of one
byte, and longer ones, and two of them are smaller than some padded message. HMAC's
keys are empty, shorter than a block, a block, and one and several bytes more; up to
five bytes are derived, two whole digests and a half; buffers of nine bytes hold two
batches and a half block; the ciphers get FIPS-197's three keys and one of a wrong length,
GB/T 32907's example, and nine blocks, a batch of eight and one.

`asn1`, `symmetric` and `public_key` put models side by side that share no state: a behaviour is one of
one of them, picked in its first state (`part`), and the others rest. Their behaviours end when the calls of the
bound are used up, so these runs do not check deadlock.

Each property of a passing run was also checked against a mutated
definition (the operators marked *Mutant of* in the modules): with the mutation
in place TLC finds the property violated under the same configuration. The
type invariants are among them, so a bound that hid the case would show.

## 4. Fairness

`Gcm!FairSpec` asks weak fairness of `Loop`, the iterations of a running update
call: the loop runs on the caller's thread without waiting for anything, so an
enabled iteration is taken. Nothing is assumed of the caller: it may never call
again. `Rng!FairSpec` asks weak fairness of each thread inside
`system_rng_generate`. Interruption (`EINTR`, `system.c:56`) is a stuttering
step, so this says that `read` on `/dev/urandom` is not interrupted for ever and
does not block for ever, which the device guarantees. No other liveness is
claimed: the AEAD and time functions have no loop whose end depends on state, and
the searches of `prime.c:170` and the redrawn blinding of `rsa_inner.c:160` end
only with probability one, which no fairness of the code's scheduling gives.

## 5. Proofs

`GcmProofs!GcmLockstep`: if `AnyAadSplit = FALSE`, then
`Spec => []TypeOK /\ []Lockstep`, for every block size, bulk width, counter range, message bound and set of backends.

*Why it matters.* The bulk path of `gcm.c` is entered on `ks_pos == 0` alone.
That this is safe rests on a fact no line of the code states: once data has
begun, GHASH holds back exactly as many bytes as the current keystream block
has spent. Then `ks_pos == 0` implies an empty GHASH buffer, the two lengths
in the two contexts agree, and the closing length block is right.

*The argument.* The inductive invariant is `IInv == TypeOK /\ Lockstep`; `TypeOK`
alone does not bound the buffer and `Lockstep` alone does not give the
arithmetic its types. The first part of
`GcmProofs` has one lemma per operator of `Ghash`: what
`Process`, `TopUp`, `FlushAad`, `GhUpdate` return when the buffer is shorter than
a block (types, lengths, phase, and the remainder modulo the block size).
The second adds that an iteration that spends `k` keystream bytes moves
both halves by `k` (`IterationKeeps`), that the single-block and the bulk step
are such iterations (`BlockStepFacts`, `BulkStepFacts`), and one step of the
proof per action of `Next`.

*From which assumptions.* `BlockSizeAssumption`, `GcmAssumption`
(the message stays below the counter's range: SP 800-38D's limit; the code has
no guard), `CallerAssumption`, and `AnyAadSplit = FALSE`: an AAD call that is followed
by another one ends on a block boundary. Without the last one the theorem is
false: an AAD call overtakes what the last one left. Under the same assumption
`GcmProofs!GcmStaysInside`, `Spec => []AadStaysInside`: a remainder shorter than a block and what one more
call leaves over are copied only where there is room, and nothing longer than a block is ever padded. It follows from the
same `IInv`, whose `Lockstep` has the remainder below a block in every open context.

`GcmProofs!GcmKeystreamFresh`: `Spec => []KeystreamFresh`, for every block size, bulk
width, counter range and set of backends, and for callers that split the message and
the AAD as they like.

*Why it matters.* A keystream byte used twice gives away the XOR of two plaintext
bytes. The counter is advanced in two places of `gcm.c`, once per block and by four per
bulk batch, and a batch is only right when no block is in use.

*The argument.* `CounterInv` says that the message so far and the rest of the current
block make `b` whole blocks with the counter at `J0 + b` (`CounterAt`), and that an
encrypted byte met the keystream byte `KsOf` gives for its place. A block
iteration and a bulk iteration both spend the bytes of their places and leave
such a counter (`IterationCounter`, from `BlockSpends` and `BulkSpends`);
`KsOf` is injective below the counter's range and never in block `J0` (`KsOfDistinct`).
The invariant does not mention GHASH, so the theorem needs neither `Lockstep` nor
`AnyAadSplit = FALSE`; it does need `GcmAssumption`, the message limit
the code leaves to its caller.

`GcmProofs!GcmTypeOK`: `Spec => []TypeOK`, for every caller. `TypeOK` bounds what a
call has left (`todo`) by what it was given, keeps each half of the context a byte string, and
what GHASH holds back within the array of the backend in use (`Room`). It speaks of the steps whose
copies stay inside: for callers who split the AAD anywhere the array is overrun (finding 1), and there the model
stops. That this does not happen to others is `GcmStaysInside`.

`GcmProofs!GcmImplementsMsg`: if `AnyAadSplit = FALSE`, then `Spec => ImplementsMsg`, for every block size,
bulk width, counter range, message bound and set of backends.

*Why it matters.* The tag of a message depends on what `update` put into GHASH at every earlier call, and the text on
where the counter stood; the caller chooses the cuts. The refinement says that no cut shows: every call is a step of
SP 800-38D for one message, which appends to the AAD or the text or gives the one tag, or a step
nobody sees (an iteration of the block or the bulk loop). It includes the receiver's verdict: accepted if and only if
AAD, ciphertext and tag are those sent.

*The argument.* `GhHolds` says that state and buffer of GHASH together are the padded AAD and the text so far; `GhAadBytes`,
`GhUpdateBytes` (through `TopUpBytes` and `ProcessBytes`) and `GhFinalBytes` say that each entry of the vtable appends exactly its
argument. `MsgInv` joins this to the message: the text that GHASH holds is the ciphertext of the
positions done, whichever of the buffers of an in-place call it was read from. With `IInv` (the lockstep, for the closing length
block) and `CounterInv` (which keystream byte met which position) this is `GcmInv`, which every action keeps, one
lemma each (`AadUpdateMsg` ... `DecryptFinalMsg`). The verdict is `DataLemmas!EncodingInjective`: the encoding that GHASH is
given, padding and length block, determines AAD and ciphertext. `AnyAadSplit = FALSE` cannot be dropped: run
`gcm_aad_split` violates the refinement without it.

`HashProofs`: `Spec => []P` for `TypeOK` and `Positions` of `HashApi`, and `HashImplementsHash`:
`Spec => ImplementsHash`. For every set of algorithms, every block size, rate, length field and
word size, messages and outputs of any length, any cut into calls.

*Why it matters.* The update functions of `sha256.c`, `sha512.c` and `sm3.c` keep
three facts apart that only together make the digest that of the concatenation:
the compressed bytes are whole blocks, the buffer holds what came after
them, and the bit count, carried by hand over two words in `sha512.c:119`, is
eight times their number. The padding of the final call trusts all three, and decides by two spellings of
one comparison whether it needs a second block. The Keccak context of `sha3.c` has one buffer for
both directions: the bytes before `buf_len` are input not yet absorbed or output already given, and a full
buffer means "permute" before a squeeze and never occurs before an absorb. The refinement says in one sentence
what all of it is for: the digest of the concatenation, one stream read in pieces.

*The argument.* `HashInv` says of an open context that it holds the bytes fed (`HoldsFed`): for SHA-2 and SM3
`Held(c)`, state and buffer together, is the message, the state is whole blocks and the count is right; for
Keccak `Absorbed(c)` is the message. Of a context that gives output it says that it stands as many bytes into the
stream of the padded message as were given out (`StandsAt`). `Positions` alone is not inductive, since it
says nothing of the bit count's and the buffer's types, and nothing of the sponge.

- `TopUpFacts`, `BlocksFacts`, `UpdateFacts`, `MdHoldsUpdate`: the two halves of an update append their data to `Held`, and data
  left after the first meets an empty buffer, which the second would overwrite; `CountFacts` is the carry.
- `FinalFacts`: `MdFinal` compresses `MdPadded`. `FillIs` finds the number of zeros the reference chooses, in the
  same block or the next, `SpillsIs` that both spellings of the test choose the right one, and `ClosedBlockIs`,
  `MarkedBlockIs` and `FieldBlockIs` what is in the blocks, also where the caller's old bytes were.
- `AbsorbFacts`, `FinalizeFacts`, `SqueezeFacts`: the loops of `sha3.c`, by induction on the iterations
  (`SetInduction`), and its padding, whose two marks meet in one byte when one byte is free.
- `FinalCall`, `OnceCall`, `ShakeCall`, `SqueezeCall` and the rest: one lemma per action, for the invariant and for
  what the caller sees; `HashStep` reads the steps of `HashMsg` off them.

*From which assumptions.* `WordAssumption`; `AlgsAssumption` (a block has room for the length field and one
byte more, a digest of a sponge is no longer than its rate); `CallFits` (section 7).

`HashProofs!HmacIsExact` and `Pbkdf2IsExact`: `KdfSpec => []HmacExact` and `KdfSpec => []DerivedExact`, for
every block and digest size, every length of key, password, salt, data and output, any cut of the data into
calls, and any number of iterations.

*Why it matters.* The two contexts under an HMAC are continued from a block that the caller never sees, and
PBKDF2 runs thousands of HMACs whose outputs are summed in place, each over the buffer it writes to (`pbkdf2.c:52`). A key
block filled wrongly at one length, an iteration too many, or a last block cut at the wrong place still gives bytes that
look like a key, and a test sees only the lengths of its vectors.

*The argument.* `MdHolds`, the hash part's invariant of one context, is stated over any set of bytes, since the outer hash
is fed digests. `ShaHolds(c, m)` says that there is such a set; `ShaInit`, `ShaUpdate` and `ShaFinal` are its three calls.
`HmacHolds` says that the inner context holds the padded key and then the data, and `opad` the other padded
key; `KeyBlockIs` is the choice at `hmac.c:31`. `HmacInv`, that an open HMAC holds what was fed under its key, is
the strengthening of `HmacExact`. For PBKDF2 `LoopStarts` and
`LoopGoesOn` follow the loop: after the iteration i it has U_i and the sum of U_1 to U_i (`SumStep`), and `BlockIs` is the
induction; `FlattenIs` and `OutputPlace` say which byte of which block a byte of the output is.

*From which assumptions.* `KdfAssumption`: a block has room for the length field, a digest fits a block, one word
counts the bits. `LengthAssumption`: no hashed message reaches 2^64 bits, where FIPS 180-4 defines no digest.

`PartProofs!BlockModesExact`: `ModesSpec => []ModesExact`, for any buffers, block length,
batch and message length.

*Why it matters.* A caller may give one buffer as input and output, and each trip of
a loop then reads what earlier trips have overwritten. CTR and CBC encryption
survive this, since a trip reads only ahead of what is written and carries the ciphertext along;
CBC decryption reads the ciphertext again after writing over it, and survives for one block only
(`Supported`). A counter taken one too far by a batch, or a block short of the end, is the same
kind of slip, and shows only in messages longer than a batch.

*The argument.* `ModesInv` says of a call that memory is what it was when the call was made, but for
the first `off` bytes of the output, which are the mode's result (`MadeUpTo`); and that a call
with more to do stands at the start of a block, with the counter at its number or the ciphertext block
before it at hand (`Standing`, `Chained`). `ReadBlock`: what is ahead of `off` is the input's still, also in
place. `EncryptBlock` and `DecryptBlock` unroll the reference by one block, `BatchKey` places a batch
in the keystream, `MoreMade` is a store. An unsupported call keeps only its shape.

*From which assumptions.* `ModesAssumption`: block length and batch are not 0. That the block
cipher can be inverted is used nowhere: decryption is whatever `Dec` makes of a block, and only its length matters.

`PartProofs!CpuOneBackend`: `CpuSpec => []OneBackend`, for any number of threads and
any set of processor features.

*Why it matters.* `ghash.c` publishes its table through a plain pointer, and `cpu.c`
clears the shared feature flags before it sets them: without a warm-up a thread may
catch the flags half set, choose the scalar table, and a context is then initialised
by one backend and updated by another, whose states differ. No call obliges
the user to `sdc_aes_init`, whose only line says "warm the cache"; the theorem says that
one such call before the threads start is enough.

*The argument.* `CpuInv` adds two parts to the types. `InStep`: a thread carries a
table exactly between resolving and initialising, and the shared pointer is set only
after some thread has come so far, so that at the moment of warming nothing chosen early is
left. `Settled`: from then on the features are those of the hardware, nobody
detects again, and every table in sight is the one these features give. `OneBackend`
alone is not inductive: it says nothing of the pointer and of the tables on the way.

`PartProofs!RsaNothingLeft`: `RsaSpec => []NothingLeft`, for keys of any length, any
exponents, any sequence of calls.

*Why it matters.* `sdc_rsa_keypair` allocates three blocks and fails through two labels, of which
one falls into the other; `sdc_rsa_privkey_init` frees by hand on each of its ways out and leaves its pointers
standing; `sdc_rsa_free_keypair` decides by `pub->n` and `_block_start` alone what to free. A
clean-up skipped leaks private key material, one too many frees twice, and a test
would have to make each allocation fail in turn.

*The argument.* `RsaInv` gives the heap at every step: the key's block while the key names it, the temporary
block at the steps of `WithTmp`, the modulus's while `pub.n` is there. Of a key that names its block it says that it
has a modulus, since `sdc_rsa_pubkey_init` may be given that modulus and `sdc_rsa_free_keypair` asks whether it is there; and this
rests on the arithmetic, of which only the number of words matters: a prime has its words (`PrimeWords`), so a product has
some (`MulFacts`, by induction on the rows of `IntMul`), in whichever order the primes are (`OrderedFacts`, `DerivedFacts`).

*From which assumptions.* `RsaAssumption`, of which only that a prime has a word.

`PartProofs!Pkcs1PaddingExact`: `PkcsSpec => []PaddingExact`, for any moduli, messages, hash functions and digests, and
for any number of bytes of a padded message changed on its way.

*Why it matters.* `unpad_pkcs1v15` decides in one pass over the block, without a branch on what it finds: masks
collect the place of the first zero, whether the padding in front of it is right and at least eight bytes
long, and whether the message fits. A length computed in 16 bits, a mask that forgets one byte or a
separator one place off accepts blocks nobody padded, or refuses good ones, and a test would have to find
the one block in many where it shows.

*The argument.* `EncodesAt` says the same of a padded message twice: as the four parts joined and byte by
byte (`Shaped`). In the second form the place of the separator is unique (`ShapedOnce`), so a block encodes one message and
one type (`EncodesOnce`); `UnpadCipherGives` and `UnpadSignatureSays` show that the code looks for just that shape.
For signatures `DigestInfoIs` follows `build_digestinfo` through the backwards writer to the bytes it leaves, and
`DigestInfoOnce` reads digest and OID back from them: two hashes never share a DigestInfo, whatever the order of its parts (finding 3).
`PaddingExact` speaks of answers; `PkcsInv` adds what leads to them: the padding drawn so far has no zero
and leaves room for the message (`Filling`), what is sealed encodes the caller's message (`Filled`), and while nothing is
damaged the block in transit is the encoding of what its sender meant, below the modulus (`Undamaged`). One lemma per action.

*From which assumptions.* `PkcsAssumption`: bytes of eight bits; moduli of at most 32768 bytes, since the code takes bit 15 of
the padding's length for a sign and would refuse longer paddings; OID and digest short enough that every length in the DigestInfo is one byte, as
`pkcs1v15.c:350` says.

`RngProofs!RngDescriptorsClosed`: `Spec => []DescriptorsClosed`, for any finite set of threads,
any sizes of requests and of reads.

*Why it matters.* `system_rng_generate` has four ways out, and between `open` and
`close` other threads open and close too: a leak on the path of an end of file
exhausts the process's descriptors, and every later seeding fails.

*The argument.* `ReadersInv` gives `call` its type and says that `opened` counts the
threads between `open` and `close`; each action moves at most one thread in or out of that
set (`ReadersCount`). It rests on `RngAssumption`, of which only that the threads are
finitely many and that lengths are naturals.

`ChaChaProofs!CryptStream`: on a context that is `p` bytes into its stream, `Crypt(c, n)`
gives bytes `p .. p + n - 1` of the stream and leaves the context `p + n` bytes
into it, for every word size, block size, counter width and number of lanes.

*Why it matters.* `crypt` is where a caller's cut meets the refills: one or five blocks
at a time, each lane with its own counter, whose carry into the high word is a
comparison with the number of lanes (`chacha20raw.c`, `xchacha20.c`). A lane that misses
a carry repeats the keystream of 2^32 blocks before, and no test gets that far.

*The argument.* `StreamAt(c, first, p)` says that either the buffer is spent and the lanes
hold the numbers of the next blocks (`Spent`), or the buffer holds the blocks around byte `p`
and the lanes those after them (`Filled`). `AdvanceCounts` is the carry, `ReadyStream` a
refill, `ByteStream` one byte. `Crypt` is a recursive function, so the theorem is an induction
on `n`: `SetInduction` of `DataLemmas` (every nonempty set of naturals has a least element)
takes the set of the `n` for which the claim holds.

`AeadProofs`: `Spec => []P` for `TypeOK`, `Positions`, `KeystreamFresh` and `DecryptedIsSent`
of `Aead`, and `AeadImplementsMsg`: `Spec => ImplementsMsg`. For every set of variants, every word, MAC
block and keystream block size, any limits of AAD and message, any cut into calls.

*Why it matters.* A receiver passes over the ciphertext twice, first to authenticate and then
to decrypt, and the two passes are cut differently. That what the second releases is what the
first has authenticated rests on two lengths counted in one field (`total_len`), a flag, and the MAC's
partial block, in functions none of which sees the whole. The refinement says it in one sentence: every call
is a step of RFC 8439 for one message, or a step nobody sees.

*The argument.* `AeadInv` has four parts. `ShapeInv`: types, and the output is what `OutOf` says
of its length. `MacInv`: state and partial block of the MAC together (`Fed`) are the padded AAD and the
ciphertext so far. `StreamInv`: the keystream stands at the output's length after block 0
(`StreamAt`, by `CryptStream`). `ReleaseInv`: a receiver whose tag was accepted, or who has released
anything, has a tag that matched and holds the sender's bytes (`Genuine`). The last part needs
`DataLemmas!EncodingInjective`: two (AAD, ciphertext) pairs whose encodings are the same are the same. With a MAC that is
a free function of its input this is all there is to show of the padding and the length block of RFC 8439 (and of
SP 800-38D, which GCM shares); its hardness is no matter of this code. One lemma per action (`EncryptUpdateStep` ...) shows
that the invariant is kept and that the step is one of `AeadMsg` or a stutter.

*From which assumptions.* `ChaChaAssumption`; `AeadAssumption`, of which the proofs use that a keystream block
gives the MAC key two blocks' worth of bytes; `MsgLimit`, RFC 8439's limit for the 32-bit counter, which
the code leaves to its caller.

`RngProofs`: `Spec => []P` for `TypeOK`, `InStreamOrder` and `NoRepeat` of `Rng`, for any finite set of threads,
any requests, any builds.

*Why it matters.* Threads share the device and the pointer to the seed generator, and both change while a
seeding is under way. A nonce filled by two short reads, a failed seeding that leaves part of one in place, a context
seeded again: each may give out bytes that were given before.

*The argument.* Bytes of the system generator and nonces are draws, numbered in the order the device or a user's generator
gives them. `RngInv` says of one thread (`ThreadInv`): types; the bytes of a call under way
are draws nobody was given (`CallInv`); bytes given are distinct and each stream's in its order (`GivenInv`);
the stream of a seeded context stands behind the last byte given from it (`StreamInv`); what the thread holds was drawn
and is held once (`DrawInv`). Between threads it says only that no two hold the same draw. An action
changes one thread and adds draws no one has had (`OneThread`, `FreshDraws`), so each of its lemmas is about that thread.

*From which assumptions.* `RngAssumption`: finitely many threads; a nonce of two bytes or more, so that it is not mistaken for a
byte of the system generator; and that no one is given more than a stream has (`MaxGiven`), 2^64 blocks, since
the code's counter then starts over.

`PartProofs`, on time: `TimeSpec => []P` for `TimeTypeOK` and `InjectedRules` of `AsnTime`, and, if `LateTimes`,
for `ConversionsExact` and `UtcRoundTrip`. For any length of day, any size of cache, any sets of clock
values, injected times and dates.

*Why it matters.* `asn1time.c` counts days in four ways: from 1970 when it fills the cache, from a slot when a
year is cached, from 1970 again when it is not, and down from a timestamp when it divides one into a
date. Slips hide on the boundaries between them: the last cached year, the end of February, 2049. A test
fixes one clock and a few dates; the cache may have been filled for another year.

*The argument.* First the calendar. `LeapCount` and `YearDaysIs` turn the loop over the years into the rule
`YearStart` (`LeapsTo(y) - LeapsTo(y - 1)` is 1 exactly in leap years, so the count of a range telescopes),
`MonthDaysIs` does it for the months, and `YearOfDay`, `MonthOfDay` and `DateFacts` say that the division of a
timestamp finds the one year and month it lies in: the bounds `DateOf` searches hold it, since a year has 365 or 366 days.
Then the cache. `Faithful(c)` says that every slot of `c` holds the start of its year; `FilledFacts` that `init_cache`
makes such a cache if its first year is not before 1970. `LateInv` adds it to the two properties, which alone say nothing of the
slots no conversion has looked at. `AsnInv` ties the start of a filled cache to the injected time. One lemma per action.

*From which assumptions.* `TimeAssumption`: no year looked at is later than `LastYear`. `LateTimes`: the clock works, and neither
it nor an injected time is before 1970 + `CacheRange`, the year 2000 in the code. That is no convenience: without it
`init_cache` counts the years before the epoch into every slot, which is finding 2. `AsnInjectedRules` and `AsnTimeTypeOK` do
without it.

`DerProofs`: `Spec => []P` for `TypeOK`, `Canonical` and `ReadsBack` of `Der`, for any base, any buffers, any values a
caller writes in any order, any damage to the bytes and any number of calls.

*Why it matters.* The reader computes with lengths the input claims. `TypeOK` says that no reader ever stands
outside its region, nor a region outside what the reader around it has passed, also after refused calls,
which leave a reader in the middle of a value. `Canonical` says that the reader takes one encoding of a value
only, the one the writer makes: a second form of a length or an integer that slips through lets two different
certificates mean the same, and a test would have to think of that form. `ReadsBack` says that the two halves
fit: the reader gives what was written, in order and in its container, and the calls that
were refused or failed on the way leave nothing in an output whose error flag is
clear and that no handle wrote over. A length that is asked for is one its value fits in, and the words that
`integer_to_words` fills, in the order opposite to `integer_from_words`, are the integer's.

*The argument.* `DerInv` has four parts. `WriterInv`: the writer is in its buffer, also when it latched an
error in the middle of a value. `FramesInv`: each container was begun where the writer was then, so that
the length `EndParts` takes is never negative. `ReadersInv`: the readers and their regions lie one in the other. `LastInv`: what `Enter`
goes into has just been passed. `PartsRuns` follows a list of writes part by part, `ReadFacts` says of each
reading function where it leaves the reader. Then `Canonical`: `ReadLengthIs` and `ReadTagIs` show that an accepted header is the
tag and the one length the writer would make (`LengthOctets` of a number is unique since `NumberSplit` and `WidthOnce` give a number one
row of bytes without a leading zero), `WholeElement` that what was passed is such a header and its content, `AgainInt` that an
integer the reader calls minimal is what `IntegerParts` makes of its value, and `TlvWritten` and `SignedWritten` that a writer
with room lays down just these bytes.

`ReadsBack` relates bytes to a tree of items of any depth, which asks for an induction over trees. `Laid(its, s)` ("the bytes
`s` are the items `its`") does without: it says that some set of pairs of items and bytes holds the
pair and is closed, in that with each pair it holds the pair behind the first item and the one inside it (`Grove`). Sets of
this kind are joined (`GroveUnion`), so items are put in front (`LaidAdd`), lists put together (`LaidJoin`) and first items taken off
(`LaidBegins`) without ever going down a tree. `BackInv` then has a half for each side.
- The writer, `LayInv`: while the error flag is clear and no handle has written over anything, the stretch of the buffer from the beginning of each open
  container to the next one is laid with what was written in that container. A place counts from the buffer's
  beginning, so writing in front moves nothing. `WriteLays`: a call that puts all its parts adds one item (`ItemComes`, one
  case per function), a call refused
  before it writes (bit string, memory) none, and one that fails in writing has latched the error. `ClosedLays`: an
  `end` makes one item of the innermost container; `RefusedLays`: a refused `end` leaves its items to the container around it.
- The reader, `LaidAll`: in front of each reader that was answered with data so far lie the items it still
  expects; `GrownAt`: what `Enter` goes into is laid with the items of that container; `ToldAt`: the last answer was the
  right one. `FacesSpread` and `SpreadRead` read back the header of the element in front, whatever the form of its length, one lemma per
  reading function (`U64Right`, `BitsRight`, `UtcRight`...) shows that it undoes the writing one, and `OtherTold` that every other is told `BAD_TAG`.

The proof needs a year before 2050 in `Means`: `sdc_asn1_write_utctime` puts the last two digits of any
year (`asn1write.c:395`), so a later one comes back a hundred years earlier. No line of the repository says what it owes
such a year.

*From which assumptions.* `DerWriterAssumption`: the numbers of the code, a base of 2^`Bits` with fewer bits
than the base has values. `DerAssumption`: a caller's sizes and one byte more fit `size_t` (`Fits`), and the tags
named in the code have values.

Only model-checked: what the arithmetic models compute (that RSA keys work among it) and
the block ciphers at full width (`CiphersExact`); and both liveness properties. Liveness and `ENABLED` are out of the prover's
reach. Recursive functions are not: `SetInduction` serves where the library's induction theorems, which
take an operator, cannot. The arithmetic
models stay with TLC because their claims multiply what the recursions run over, which neither prover decides.

## 6. What the runs found

1. **AAD in several calls** (`gcm_aad_split`). `gcm.h:67` offers "Feed additional
   authenticated data" on an incremental context. `s_aad`, `x86_aad` and `p_aad`
   hand each call to the block loop without completing the block the previous
   call left: the new call's whole blocks overtake the old remainder, and the tag
   is not that of the concatenated AAD. The data path tops the buffer up. One AAD
   call, or calls of whole blocks, give the right tag (`gcm_stream`). Nor does the remainder
   stay in its array: it is copied
   behind the last one's unchecked (`ghash_scalar.c:103`: 16 bytes; 128 in
   `ghash_x86.c:203` and `ghash_pmull.c:182`), and padding copies all of it into one block of 16
   (`ghash_scalar.c:126`, `ghash_x86.c:267`, `ghash_pmull.c:208`). Two calls that leave 15 bytes each
   do it; `AadStaysInside`, which `gcm_stream` checks for callers of whole blocks, is violated with
   `AnyAadSplit = TRUE`.
2. **A cache for an early year** (`asn1_time_early`). `init_cache` starts thirty
   years before the current year and, when that is before 1970, counts the years
   before the epoch into every slot. With an unreadable clock, for which it takes
   1970, the epoch of `tests/test_asn1time.c:23` converts to thirty years of
   seconds.
3. **The DigestInfo of a signature** (`rsa_digestinfo`). `pkcs1v15.c:314` says
   `SEQUENCE { SEQUENCE { OID, NULL }, OCTET STRING }`. The writer fills its buffer
   backwards and `build_digestinfo` writes the AlgorithmIdentifier before the octet string,
   which therefore ends up in front of it. `verify_hash` builds the same bytes, so the
      repository's own test signs and verifies; other implementations would refuse the signature.
4. **The blinding's carry** (`rsa_blinding_carry`). `rsa_inner.c:168` says
   `dp_blind = dp + rp * (p - 1)`, "full 2*len1 words". The carry of the low half is added to one word
   (182, 189), and lost when that word is all ones: the private operation is then wrong. Once in
   2^(word bits) blindings or so, which is why it stayed unseen.
5. **The order of imported primes** (`rsa_import_order`). `rsa.h:129-133` describes `p`, `q`, `dp`, `dq`
   and `qinv` without asking for p > q. `keypair.c:106` exchanges the primes and
   112-115 do not exchange the caller's CRT values: the import succeeds with a key that does not work.
6. **The size of a decryption** (`rsa_decrypt_size`). `rsa.h:38-40` promises `SDC_ERR_BUFFER_TOO_SMALL` and
   the required size, of every function with an `out_len`. `sdc_rsaes_pkcs1v15_decrypt` answers
   `SDC_ERR_KEY_INVALID` and leaves the length, on purpose (`pkcs1v15.c:182`, 295): the header is what is wrong.

Remarks, which no run shows. `prime.c:73` calls the bases 2 to 17 sufficient for numbers of one
word. They are so below 341550071728321; a word has 64 bits, and
14688059738864848381 = 2709987061 * 5419974121 is a strong pseudoprime to all seven, with its top two bits set
and no small factor, so that `gen_prime` of one word would take it. With more words the test is probabilistic by design
(`prime.c:74`), and the bases are fixed. `keypair.c:76` looks for the parity of the big-endian `d` in its first byte, `d[0]`, so
an import refuses about half of the good private exponents. `keypair.c:254` never tests that
`e` and phi are coprime. `pkcs1v15.c:243` leaves the padded message in `out` when the
allocation behind it fails. `ge.c` feeds `fe_add` and `fe_sub` operands beyond the
1.1 * 2^25 their comments ask for, but what reaches `fe_mul` stays within its
1.65 * 2^26 (`CurvesExact` checks exactly this). The SM3 entry of `oid.c` ends in bytes 83 51, where
1.2.156.10197.1.401 is encoded as 83 11.

## 7. Assumptions about callers

These are duties the headers or the standards give the caller, and the models
take them as given: one context is used by one thread; `auth_final` is called
once per message and the ciphertext authenticated is the ciphertext then
decrypted; counter limits of SP 800-38D and RFC 8439 are respected; AAD is cut
on block boundaries (in `gcm_stream`, `GcmLockstep`, `GcmStaysInside` and `GcmImplementsMsg`: finding 1); the IV of GCM has 12
bytes; an RNG context is used after a successful `init`; a user's seed
generator gives fresh bytes; a hash update has fewer than 2^61 bytes and a
message no more bits than its length field holds (`CallFits`, `LengthAssumption`); a hash context is
not fed after its final; hours, minutes and seconds are not negative. A caller of the DER writer
offers sizes that leave `size_t` a byte to spare (`Fits`). An RSA
modulus has an even number of words and a prime no fewer words than the blinding
(`keypair.c` splits an odd number unevenly, `rsa_inner.c:157` copies the
blinding into the prime's length), and it has at most 32768 bytes (`PkcsAssumption`). `KeysWork` alone is
for `e` and phi that are coprime, and leaves findings 4 and 5 out: no carry lost in the blinding, no CRT values supplied
with the smaller prime first.

Three properties are claimed only where the code can keep them, though no header says so, and a
caller should know: an SM4 key is used in the direction it was set for (`CiphersExact`; one schedule does not do both, `sm4.c:152`);
CBC decryption in place is given at most one block, and input and output of a mode are the same buffer or
disjoint (`ModesExact`; from the second block on it chains with plaintext, `block_cipher.c:72`); and a
multi-threaded program calls `sdc_aes_init`, whose comment only says "warm the cache", before it starts its threads (`OneBackend`:
two threads that detect at the same time can resolve different tables). `PROJECT.json` lists
the three as hazards without a property.

## 8. Abstractions

What a reader who compares the modules with the code should know.

- *Limbs.* The width of the machine words enters only through bounds on the
  limbs; that products of limbs within the bounds fit 64 or 128 bits is the arithmetic of
  the comments in `fe.c` and is not repeated. The precomputed tables of
  `precomp_data.h` are compared as what they stand for, multiples of the base point.
- *Random candidates.* The attempts of `gen_prime` are collapsed to their outcome: a prime,
  a failing generator, or no attempts left.
- *Padding.* The public and the private operation undo each other below the modulus (`KeysWork`),
  so a ciphertext or signature in `Pkcs1` stands for the block the other side recovers; one
  message per behaviour, at most two bytes of it changed. `_sign` and `_verify` hash first
  and are the `_hash` functions after that.
- *Hashes.* A digest byte is a free function of the padded message in `MdStream` and `Kdf`.
  A permutation of `BlockModes` satisfies D(E(x)) = x and nothing else.
- *Sums.* A byte of PBKDF2's output is the set of the digest bytes it is the sum of, so a byte added twice
  is gone; the reference (`SumAt`) counts how often a byte occurs and takes those of an odd count.
- *Counters.* The 32-bit counters of CTR, PBKDF2 and GCM (`gcm.c:18`) do not wrap in any
  instance: it takes 2^32 blocks, and the code has no guard a model could check.
- *CPU features.* Two features stand for the four that are detected.
- *Clean-up.* Wiping is modelled where a wiped context is used again, and
  nowhere else.

## 9. Plan

Every component with state or control of its own has a module. What remains, in this order.

1. The limb arithmetic of Poly1305 on the pattern of `Limbs`, HChaCha20 and the
   ChaCha20 round at full width, on the pattern of `Ciphers`.
2. The year cache under threads (`asn1time.c:106`), if the repository comes to share it.

## 10. Not modelled

The compression functions of the hashes, Keccak-f, the ChaCha20 round and HChaCha20, the
multiplications of GHASH and Poly1305: straight-line arithmetic on words with no
state between calls, decided by test vectors. `mem.c`, `utils.c`, `oid.c`: an
allocator's pair of pointers, two byte loops, constants. The Windows branch of
`system.c`. The IV lengths other than 12 bytes that `gcm.h:59` mentions: `init_ex`
ignores the length. The one-shot wrappers' dropped key-schedule result
(`aes_gcm.c:32`): `Ciphers` has the refusal, that the wrapper goes on is read off
the line. A reader after a call that asked for a length or was refused, but for its place (`TypeOK`)
and what it then accepts (`Canonical`). A second `auth_final` on a context. Timing, and the time a secret stays in
memory. Two threads on one context, and the data race on the year cache.
