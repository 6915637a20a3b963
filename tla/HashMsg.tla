------------------------------ MODULE HashMsg -------------------------------
(***************************************************************************)
(* What a hash context promises: the digest of the bytes fed since init,   *)
(* whatever the sizes of the calls; a buffer too small costs nothing but   *)
(* a retry; and the output of SHAKE is one stream, read in pieces.         *)
(***************************************************************************)
EXTENDS HashData

CONSTANTS Algs, MaxMsg, MaxOut

VARIABLES stage,    \* "none", "open", "squeezing" (SHAKE) or "closed"
          alg,      \* the algorithm chosen at init
          fed,      \* bytes fed since init
          source,   \* what SHAKE's output is a function of
          out,      \* SHAKE bytes given out
          result    \* what the last final or one-shot call gave

absVars == <<stage, alg, fed, source, out, result>>

DigestOf(a, n) == Digest(PaddedMsg(a, MsgOf(n)), OutputOf(a, a.hashLen))

TooSmall(a) == [rc |-> "BUFFER_TOO_SMALL", of |-> <<>>, at |-> <<a.hashLen>>]

-----------------------------------------------------------------------------
AbsInit ==
    /\ stage = "none" /\ alg \in Algs /\ fed = 0
    /\ source = <<>> /\ out = <<>> /\ result = NoResult

AbsStart ==
    /\ stage' = "open" /\ alg' \in Algs /\ fed' = 0
    /\ source' = <<>> /\ out' = <<>> /\ result' = NoResult

AbsFeed ==
    /\ stage = "open"
    /\ fed' \in fed .. MaxMsg
    /\ UNCHANGED <<stage, alg, source, out, result>>

AbsFinal ==
    /\ stage = "open" /\ alg.kind # "shake"
    /\ \/ stage' = "closed" /\ result' = DigestOf(alg, fed)
       \/ UNCHANGED stage /\ result' = TooSmall(alg)
    /\ UNCHANGED <<alg, fed, source, out>>

AbsOnce ==
    /\ \E a \in Algs, n \in 0 .. MaxMsg : result' \in {DigestOf(a, n), TooSmall(a)}
    /\ UNCHANGED <<stage, alg, fed, source, out>>

AbsShakeFinal ==
    /\ stage = "open" /\ alg.kind = "shake"
    /\ stage' = "squeezing"
    /\ source' = PaddedMsg(alg, MsgOf(fed))
    /\ UNCHANGED <<alg, fed, out, result>>

AbsSqueeze ==
    /\ stage = "squeezing"
    /\ \E n \in Len(out) .. MaxOut : out' = OutputOf(alg, n)
    /\ UNCHANGED <<stage, alg, fed, source, result>>

AbsNext == AbsStart \/ AbsFeed \/ AbsFinal \/ AbsOnce \/ AbsShakeFinal \/ AbsSqueeze

AbsSpec == AbsInit /\ [][AbsNext]_absVars
=============================================================================
