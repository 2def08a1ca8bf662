---------------------------- MODULE AgentRuntime ----------------------------
(***************************************************************************)
(* The agent plugin beside its attestations (internal/spire): Configure    *)
(* decodes, validates and builds under a mutex and stores the new runtime; *)
(* AidAttestation loads one snapshot and keeps it.  Building does no I/O,  *)
(* and nothing is retired.  A runtime is known by its Configure call.  The *)
(* operator goes on editing the configuration in the meantime.             *)
(***************************************************************************)
EXTENDS ConfigEdits

CONSTANTS
    Configures,  \* Configure calls
    Handlers,    \* AidAttestation calls
    None

ASSUME AgentRuntimeAssumption == None \notin Configures

VARIABLES
    lock,       \* configureMu: its holder, or None
    published,  \* runtime: the runtime AidAttestation loads, or None
    cpc,        \* Configure call -> where it is
    request,    \* Configure call -> the request it was given
    runtimes,   \* Configure call -> the configuration it built a runtime of
    reply,      \* Configure call -> what it returned
    hpc,        \* AidAttestation call -> where it is
    using       \* AidAttestation call -> its snapshot, or None

attestVars == <<hpc, using>>
agentVars == <<lock, published, cpc, request, runtimes, reply, attestVars>>
vars == <<configVars, agentVars>>

Init ==
    /\ ConfigInit
    /\ lock = None
    /\ published = None
    /\ cpc = [c \in Configures |-> "idle"]
    /\ request = [c \in Configures |-> Absent]
    /\ runtimes = [c \in Configures |-> Absent]
    /\ reply = [c \in Configures |-> "none"]
    /\ hpc = [h \in Handlers |-> "idle"]
    /\ using = [h \in Handlers |-> None]

-----------------------------------------------------------------------------
(* Configure.                                                              *)

Goes(c, stage) == cpc' = [cpc EXCEPT ![c] = stage]

(* return: the deferred Unlock runs with it.                               *)
Returns(c, answer) ==
    /\ Goes(c, "done")
    /\ reply' = [reply EXCEPT ![c] = answer]
    /\ lock' = None

(* SPIRE configures the plugin with what the operator wrote.               *)
Call(c) ==
    /\ plugin = "agent"
    /\ cpc[c] = "idle"
    /\ request' = [request EXCEPT ![c] = req]
    /\ Goes(c, "entry")
    /\ UNCHANGED <<lock, published, runtimes, reply, attestVars>>

Lock(c) ==
    /\ cpc[c] = "entry"
    /\ lock = None
    /\ lock' = c
    /\ Goes(c, "build")
    /\ UNCHANGED <<published, request, runtimes, reply, attestVars>>

(* A nil request, decodeValidAgent, and buildAgentRuntime, which validates *)
(* once more; agent.New refuses no configuration that is valid.            *)
Build(c) ==
    /\ cpc[c] = "build"
    /\ \/ /\ AgentRequestValid(request[c])
          /\ runtimes' = [runtimes EXCEPT ![c] = DecodeValidAgent(request[c])]
          /\ Goes(c, "store")
          /\ UNCHANGED <<lock, reply>>
       \/ /\ ~AgentRequestValid(request[c])
          /\ Returns(c, "invalid")
          /\ UNCHANGED runtimes
    /\ UNCHANGED <<published, request, attestVars>>

(* Mutant: the runtime is stored by its first Configure only.              *)
StoreOnce(c) == published' = IF published = None THEN c ELSE published

StoreRuntime(c) == published' = c

Store(c) ==
    /\ cpc[c] = "store"
    /\ StoreRuntime(c)
    /\ Goes(c, "return")
    /\ UNCHANGED <<lock, request, runtimes, reply, attestVars>>

Return(c) ==
    /\ cpc[c] = "return"
    /\ Returns(c, "ok")
    /\ UNCHANGED <<published, request, runtimes, attestVars>>

-----------------------------------------------------------------------------
(* AidAttestation.                                                         *)

Arrive(h) ==
    /\ plugin = "agent"
    /\ hpc[h] = "idle"
    /\ hpc' = [hpc EXCEPT ![h] = "entry"]
    /\ UNCHANGED <<lock, published, cpc, request, runtimes, reply, using>>

(* A nil runtime is FailedPrecondition.                                    *)
LoadRuntime(h) ==
    /\ hpc[h] = "entry"
    /\ using' = [using EXCEPT ![h] = published]
    /\ hpc' = [hpc EXCEPT ![h] = IF published = None THEN "done" ELSE "run"]
    /\ UNCHANGED <<lock, published, cpc, request, runtimes, reply>>

Finish(h) ==
    /\ hpc[h] = "run"
    /\ hpc' = [hpc EXCEPT ![h] = "done"]
    /\ UNCHANGED <<lock, published, cpc, request, runtimes, reply, using>>

ConfigureStep(c) == Build(c) \/ Store(c) \/ Return(c)

AgentStep ==
    \/ \E c \in Configures : Call(c) \/ Lock(c) \/ ConfigureStep(c)
    \/ \E h \in Handlers : Arrive(h) \/ LoadRuntime(h) \/ Finish(h)

Next ==
    \/ Operate /\ UNCHANGED agentVars
    \/ AgentStep /\ UNCHANGED configVars

Spec == Init /\ [][Next]_vars
-----------------------------------------------------------------------------
(* Properties.                                                             *)

Register == INSTANCE RuntimeRegister WITH
    value  <- published,
    writes <- [c \in Configures |->
                 CASE cpc[c] = "idle"   -> "idle"
                   [] cpc[c] = "return" -> "applied"
                   [] cpc[c] = "done"   -> IF reply[c] = "ok" THEN "ok" ELSE "failed"
                   [] OTHER             -> "called"],
    reads  <- [h \in Handlers |->
                 CASE hpc[h] = "idle"  -> "idle"
                   [] hpc[h] = "entry" -> "begun"
                   [] OTHER            -> "read"],
    got    <- using

(* Concurrent Configure and AidAttestation calls see the agent's runtime   *)
(* as one register: a refused configuration leaves no trace, and no        *)
(* attestation runs on a runtime older than the last acknowledged one when *)
(* it began.                                                               *)
AgentImplementsRegister == Register!Spec

(* Every attestation of the agent has a runtime that Validate would have   *)
(* accepted, with time to poll.                                            *)
AgentRuntimesServiceable ==
    \A h \in Handlers : using[h] # None =>
        /\ AgentRequestValid(request[using[h]])
        /\ runtimes[using[h]].pollTimeout > 0
=============================================================================
