----------------------------- MODULE CpuDispatch -----------------------------
(***************************************************************************)
(* src/src/cpu.c and src/src/gcm/ghash.c: the features of the processor,   *)
(* detected once into a shared record, and the GHASH table resolved from   *)
(* them into a shared pointer, both without a lock.  Threads interleave at *)
(* every read and write of shared memory; the plain stores of detect() and *)
(* of the flag that follows them may reach the others in any order, except *)
(* that each location sees its own stores in order.                        *)
(***************************************************************************)
EXTENDS Naturals

CONSTANTS Thread, Features

ASSUME CpuAssumption == "pclmul" \in Features

VARIABLES hw,       \* what the processor has
          feat,     \* g_feat
          ready,    \* g_feat_ready
          vt,       \* g_vt
          warmed,   \* sdc_aes_init was called before the threads started
          pc,       \* where each thread is
          stores,   \* the stores of cpu_get a thread has still to perform
          resolved, \* the table a thread has in a register
          made,     \* the backend that initialised a thread's GHASH context
          used      \* the backends the later calls on it went to

cpuVars == <<hw, feat, ready, vt, warmed, pc, stores, resolved, made, used>>

NoTable == "none"

CpuInit ==
    /\ hw \in [Features -> BOOLEAN]
    /\ feat = [f \in Features |-> FALSE]
    /\ ready = FALSE /\ vt = NoTable /\ warmed = FALSE
    /\ pc = [p \in Thread |-> "idle"]
    /\ stores = [p \in Thread |-> {}]
    /\ resolved = [p \in Thread |-> NoTable]
    /\ made = [p \in Thread |-> NoTable]
    /\ used = [p \in Thread |-> {}]

Goes(p, where) == pc' = [pc EXCEPT ![p] = where]

(* Mutant of Undetected: the flag is not looked at.                        *)
UndetectedAlways == TRUE

Undetected == ~ready

(* detect(): every flag is cleared, then those of the processor are set;   *)
(* the caller's flag is raised.                                            *)
Detection == {<<"clear", f>> : f \in Features}
             \cup {<<"set", f>> : f \in {g \in Features : hw[g]}}
             \cup {<<"ready", "">>}

-----------------------------------------------------------------------------
(* sdc_aes_init, with no other thread running.                             *)
AesInit ==
    /\ \A p \in Thread : pc[p] = "idle" /\ made[p] = NoTable
    /\ ~warmed
    /\ feat' = hw /\ ready' = TRUE /\ warmed' = TRUE
    /\ UNCHANGED <<hw, vt, pc, stores, resolved, made, used>>

(* sdc_ghash_init: if (!g_vt)                                              *)
GhashInit(p) ==
    /\ pc[p] = "idle"
    /\ IF vt = NoTable THEN Goes(p, "get") ELSE Goes(p, "init")
    /\ resolved' = [resolved EXCEPT ![p] = vt]
    /\ made' = [made EXCEPT ![p] = NoTable]
    /\ used' = [used EXCEPT ![p] = {}]
    /\ UNCHANGED <<hw, feat, ready, vt, warmed, stores>>

(* sdc_cpu_get: if (!g_feat_ready)                                         *)
CpuGet(p) ==
    /\ pc[p] = "get"
    /\ IF Undetected THEN Goes(p, "detect") /\ stores' = [stores EXCEPT ![p] = Detection]
       ELSE Goes(p, "resolve") /\ UNCHANGED stores
    /\ UNCHANGED <<hw, feat, ready, vt, warmed, resolved, made, used>>

Store(p, s) ==
    /\ pc[p] = "detect" /\ s \in stores[p]
    /\ s[1] = "set" => <<"clear", s[2]>> \notin stores[p]
    /\ stores' = [stores EXCEPT ![p] = @ \ {s}]
    /\ IF s[1] = "ready" THEN ready' = TRUE /\ UNCHANGED feat
       ELSE feat' = [feat EXCEPT ![s[2]] = s[1] = "set"] /\ UNCHANGED ready
    /\ IF stores[p] = {s} THEN Goes(p, "resolve") ELSE UNCHANGED pc
    /\ UNCHANGED <<hw, vt, warmed, resolved, made, used>>

(* resolve_vt reads the flag.                                              *)
ResolveVt(p) ==
    /\ pc[p] = "resolve"
    /\ resolved' = [resolved EXCEPT ![p] = IF feat["pclmul"] THEN "pclmul" ELSE "scalar"]
    /\ Goes(p, "publish")
    /\ UNCHANGED <<hw, feat, ready, vt, warmed, stores, made, used>>

Publish(p) ==
    /\ pc[p] = "publish"
    /\ vt' = resolved[p]
    /\ Goes(p, "init")
    /\ UNCHANGED <<hw, feat, ready, warmed, stores, resolved, made, used>>

(* g_vt->init: the pointer is read again, or the register is used.         *)
VtInit(p) ==
    /\ pc[p] = "init"
    /\ \E v \in {vt, resolved[p]} : made' = [made EXCEPT ![p] = v]
    /\ resolved' = [resolved EXCEPT ![p] = NoTable]
    /\ Goes(p, "idle")
    /\ UNCHANGED <<hw, feat, ready, vt, warmed, stores, used>>

(* sdc_ghash_aad, _update, _final: the backend is not kept in the context. *)
GhashCall(p) ==
    /\ pc[p] = "idle" /\ made[p] # NoTable
    /\ used' = [used EXCEPT ![p] = @ \cup {vt}]
    /\ UNCHANGED <<hw, feat, ready, vt, warmed, pc, stores, resolved, made>>

CpuNext ==
    \/ AesInit
    \/ \E p \in Thread :
        \/ GhashInit(p)
        \/ CpuGet(p)
        \/ \E s \in stores[p] : Store(p, s)
        \/ ResolveVt(p)
        \/ Publish(p)
        \/ VtInit(p)
        \/ GhashCall(p)

CpuSpec == CpuInit /\ [][CpuNext]_cpuVars

-----------------------------------------------------------------------------
(* sdc_aes_init ("warm the cache"), sdc_cpu_get, sdc_ghash_*: once the     *)
(* features were detected before the threads start, no thread ever sees    *)
(* them otherwise than they are, and every call on a GHASH context goes to *)
(* the backend that laid it out, whatever the other threads resolve.       *)
OneBackend ==
    warmed =>
        /\ feat = hw
        /\ \A p \in Thread : used[p] \subseteq {made[p]}
        /\ vt # NoTable => vt = IF hw["pclmul"] THEN "pclmul" ELSE "scalar"
=============================================================================
