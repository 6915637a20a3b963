------------------------------- MODULE GcmMsg -------------------------------
(***************************************************************************)
(* What sdc_gcm_* promises of one message, whatever the sizes of the       *)
(* update calls it arrives in: the output is the input XORed with the CTR  *)
(* keystream of the byte's position, an encryption's tag covers exactly    *)
(* the AAD and the ciphertext, and a decryption accepts exactly the        *)
(* message the sender sealed.  Gcm is shown to implement this module.      *)
(***************************************************************************)
EXTENDS GcmData

VARIABLES stage,    \* "none": no context yet; "open"; "closed": final called
          job,      \* what the caller fixed at init (see Job)
          aad,      \* number of AAD bytes taken so far
          sealed,   \* has an update or final call closed the AAD?
          out,      \* output bytes written so far
          verdict   \* what the final call returned

absVars == <<stage, job, aad, sealed, out, verdict>>

-----------------------------------------------------------------------------
AbsInit ==
    /\ stage = "none" /\ aad = 0 /\ sealed = FALSE /\ out = <<>>
    /\ verdict = NoVerdict
    /\ job \in Job

AbsStart ==
    /\ stage' = "open" /\ aad' = 0 /\ sealed' = FALSE /\ out' = <<>>
    /\ verdict' = NoVerdict
    /\ job' \in Job

AbsAad(n) ==
    /\ stage = "open" /\ ~sealed
    /\ aad' = aad + n
    /\ UNCHANGED <<stage, job, sealed, out, verdict>>

AbsCrypt(n) ==
    /\ stage = "open"
    /\ sealed' = TRUE
    /\ out' = OutOf(job, Len(out) + n)
    /\ UNCHANGED <<stage, job, aad, verdict>>

AbsEncryptFinal ==
    /\ stage = "open" /\ job.mode = "enc"
    /\ stage' = "closed" /\ sealed' = TRUE
    /\ verdict' = Sealed(GhashOf(AadOf(aad), SentOf(Len(out))))
    /\ UNCHANGED <<job, aad, out>>

(* The tag presented is the one a sender made for sentAad bytes of AAD and *)
(* the first sentMsg bytes of the message.                                 *)
AbsDecryptFinal(sentAad, sentMsg) ==
    /\ stage = "open" /\ job.mode = "dec"
    /\ stage' = "closed" /\ sealed' = TRUE
    /\ verdict' = Checked(aad = sentAad /\ AuthOf(job, Len(out)) = SentOf(sentMsg),
                          sentAad, sentMsg)
    /\ UNCHANGED <<job, aad, out>>

AbsNext ==
    \/ AbsStart
    \/ \E n \in 1 .. MaxAad : AbsAad(n)
    \/ \E n \in 0 .. MaxMsg : AbsCrypt(n)
    \/ AbsEncryptFinal
    \/ \E a \in 0 .. MaxAad, m \in 0 .. MaxMsg : AbsDecryptFinal(a, m)

AbsSpec == AbsInit /\ [][AbsNext]_absVars
=============================================================================
