----------------------------- MODULE MCSymmetric -----------------------------
(***************************************************************************)
(* The hash functions on small blocks, HMAC and PBKDF2, the block modes,   *)
(* the block ciphers and the choice of their backends, checked side by     *)
(* side: a behaviour is one of one part, the others rest.                  *)
(***************************************************************************)
EXTENDS HashApi, Kdf, BlockModes, CpuDispatch, Ciphers

VARIABLE part

(* Every residue of a message's length by the block occurs, with and       *)
(* without room for the length field.                                      *)
MCAlgs ==
    { [name |-> "sha256", kind |-> "md", block |-> 4, lenField |-> 1,
       words |-> 1, pad |-> 128, hashLen |-> 3],
      [name |-> "sm3", kind |-> "md", block |-> 4, lenField |-> 2,
       words |-> 1, pad |-> 128, hashLen |-> 3],
      [name |-> "sha512", kind |-> "md", block |-> 5, lenField |-> 2,
       words |-> 2, pad |-> 128, hashLen |-> 4],
      [name |-> "sha3_256", kind |-> "sha3", block |-> 4, lenField |-> 0,
       words |-> 1, pad |-> 6, hashLen |-> 2],
      [name |-> "shake128", kind |-> "shake", block |-> 3, lenField |-> 0,
       words |-> 1, pad |-> 31, hashLen |-> 0] }

(* The SHA-256 HMAC and PBKDF2 use.                                        *)
MCSha == [name |-> "sha256", kind |-> "md", block |-> 4, lenField |-> 1, words |-> 1,
          pad |-> 128, hashLen |-> 2]

AllImpls == {<<"aes", "scalar">>, <<"aes", "aesni">>, <<"aes", "armce">>,
             <<"sm4", "table">>, <<"sm4", "ct">>}

SampleKeys == {<<"aes", CountUp(n)>> : n \in {15, 16, 24, 32}} \cup {<<"sm4", Sm4Sample>>}

(* The samples of the standards, and a batch of eight and one block more.  *)
Samples == {<<Nibbles>>, <<Sm4Sample>>,
            [i \in 1 .. 9 |-> [j \in 1 .. 16 |-> (i * (j + 40)) % 256]]}

Resting(p) ==
    CASE p = "hash"    -> Init /\ alg = CHOOSE a \in Algs : TRUE
      [] p = "kdf"     -> KdfInit
      [] p = "modes"   -> ModesInit
      [] p = "cpu"     -> CpuInit /\ hw = [f \in Features |-> FALSE]
      [] p = "ciphers" -> ckey = NoKey /\ blocks = <<>> /\ plain = <<>> /\ done = <<>>

Rest(ps) == \A p \in ps : Resting(p)

MCInit ==
    \/ part = "hash"    /\ Init        /\ Rest({"kdf", "modes", "cpu", "ciphers"})
    \/ part = "kdf"     /\ KdfInit     /\ Rest({"hash", "modes", "cpu", "ciphers"})
    \/ part = "modes"   /\ ModesInit   /\ Rest({"hash", "kdf", "cpu", "ciphers"})
    \/ part = "cpu"     /\ CpuInit     /\ Rest({"hash", "kdf", "modes", "ciphers"})
    \/ part = "ciphers" /\ CiphersInit /\ Rest({"hash", "kdf", "modes", "cpu"})

MCNext ==
    \/ /\ part = "hash" /\ Next
       /\ UNCHANGED <<part, kdfVars, modesVars, cpuVars, ciphersVars>>
    \/ /\ part = "kdf" /\ KdfNext
       /\ UNCHANGED <<part, vars, modesVars, cpuVars, ciphersVars>>
    \/ /\ part = "modes" /\ ModesNext
       /\ UNCHANGED <<part, vars, kdfVars, cpuVars, ciphersVars>>
    \/ /\ part = "cpu" /\ CpuNext
       /\ UNCHANGED <<part, vars, kdfVars, modesVars, ciphersVars>>
    \/ /\ part = "ciphers" /\ CiphersNext
       /\ UNCHANGED <<part, vars, kdfVars, modesVars, cpuVars>>

MCSpec ==
    MCInit /\ [][MCNext]_<<part, vars, kdfVars, modesVars, cpuVars, ciphersVars>>
=============================================================================
