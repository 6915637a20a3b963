----------------------------- MODULE MCPublicKey ----------------------------
(***************************************************************************)
(* The calls of Arithmetic and the keys and padding of MCRsa, side by      *)
(* side: a behaviour is one of one of them, the other rests.               *)
(***************************************************************************)
EXTENDS MCRsa, MCArithmetic

VARIABLE part

Unasked == arg = [kind |-> "none", v |-> <<>>] /\ call = None

PublicInit ==
    \/ part = "arithmetic" /\ Init /\ RsaInit /\ PkcsInit
          /\ modulus = Modulus(8, <<128>>) /\ em = Nothing
    \/ part = "rsa" /\ MCInit /\ Unasked

PublicNext ==
    \/ part = "arithmetic" /\ Next /\ UNCHANGED <<part, rsaVars, pkcsVars>>
    \/ part = "rsa" /\ MCNext /\ UNCHANGED <<part, vars>>

PublicSpec == PublicInit /\ [][PublicNext]_<<part, vars, rsaVars, pkcsVars>>
=============================================================================
