------------------------- MODULE AgentRuntimeProofs -------------------------
(***************************************************************************)
(* For any number of Configure and AidAttestation calls and any edits of   *)
(* the configuration: an attestation of the agent only ever has a runtime  *)
(* that was validated, and the agent's runtime is one register.            *)
(***************************************************************************)
EXTENDS AgentRuntime, TLAPS

Stages == {"idle", "entry", "build", "store", "return", "done"}

AgentTypes ==
    /\ lock \in Configures \cup {None}
    /\ published \in Configures \cup {None}
    /\ cpc \in [Configures -> Stages]
    /\ DOMAIN request = Configures /\ request = [c \in Configures |-> request[c]]
    /\ DOMAIN runtimes = Configures /\ runtimes = [c \in Configures |-> runtimes[c]]
    /\ reply \in [Configures -> {"none", "ok", "invalid"}]
    /\ hpc \in [Handlers -> {"idle", "entry", "run", "done"}]
    /\ using \in [Handlers -> Configures \cup {None}]

(* configureMu is held by the one call that is inside, so that the Unlock  *)
(* in Returns is always the holder's.                                      *)
AgentLockInv == \A c \in Configures : lock = c <=> cpc[c] \in {"build", "store", "return"}

(* A call that got past Build, and one whose runtime was stored.           *)
Built(c) == cpc[c] \in {"store", "return"} \/ (cpc[c] = "done" /\ reply[c] = "ok")
Stored(c) == cpc[c] = "return" \/ (cpc[c] = "done" /\ reply[c] = "ok")

(* The runtime of a call that got past Build is the validated request's.   *)
BuildInv ==
    \A c \in Configures : Built(c) =>
        /\ AgentRequestValid(request[c])
        /\ runtimes[c] = DecodeValidAgent(request[c])

(* What is in force, and what an attestation holds, was stored.            *)
StoredInv ==
    /\ published # None => Stored(published)
    /\ \A h \in Handlers : using[h] # None => Stored(using[h])

AgentInv == AgentTypes /\ AgentLockInv /\ BuildInv /\ StoredInv

-----------------------------------------------------------------------------
(* The plugin starts in the invariant.                                     *)
LEMMA AgentInit == Init => AgentInv
<1> SUFFICES ASSUME Init PROVE AgentInv
  OBVIOUS
<1>1. AgentTypes
  BY DEF Init, AgentTypes, Stages
<1> QED
  BY <1>1, AgentRuntimeAssumption DEF Init, AgentInv, AgentLockInv, BuildInv, StoredInv, Built

(* A Configure step concerns its own call: what was stored stays stored,   *)
(* and what was built stays as it was built.                               *)
LEMMA AgentConfigurePreserves ==
    ASSUME AgentInv, NEW c \in Configures, Call(c) \/ Lock(c) \/ ConfigureStep(c)
    PROVE  AgentInv'
<1> USE DEF AgentInv, attestVars
<1>1. CASE Call(c)
  <2>1. AgentTypes'
    BY <1>1 DEF AgentTypes, Call, Goes, Stages
  <2>2. \A d \in Configures : /\ Built(d)' <=> Built(d) /\ d # c
                              /\ Stored(d)' <=> Stored(d)
                              /\ d # c => request'[d] = request[d]
    BY <1>1 DEF AgentTypes, Call, Goes, Stages, Built, Stored
  <2> QED
    BY <1>1, <2>1, <2>2, AgentRuntimeAssumption DEF AgentTypes, AgentLockInv, BuildInv, StoredInv, Call, Goes
<1>2. CASE Lock(c)
  <2>1. AgentTypes'
    BY <1>2 DEF AgentTypes, Lock, Goes, Stages
  <2>2. \A d \in Configures : (Built(d)' <=> Built(d)) /\ (Stored(d)' <=> Stored(d))
    BY <1>2 DEF AgentTypes, Lock, Goes, Stages, Built, Stored
  <2> QED
    BY <1>2, <2>1, <2>2, AgentRuntimeAssumption DEF AgentTypes, AgentLockInv, BuildInv, StoredInv, Lock, Goes
<1>3. CASE Build(c)
  <2>1. AgentTypes'
    BY <1>3 DEF AgentTypes, Build, Returns, Goes, Stages
  <2>2. \A d \in Configures \ {c} : /\ Built(d)' <=> Built(d)
                                    /\ Stored(d)' <=> Stored(d)
                                    /\ runtimes'[d] = runtimes[d]
    BY <1>3 DEF AgentTypes, Build, Returns, Goes, Stages, Built, Stored
  <2>3. ~Stored(c) /\ request' = request
    BY <1>3 DEF Build, Stored
  <2>4. Built(c)' => AgentRequestValid(request[c]) /\ runtimes'[c] = DecodeValidAgent(request[c])
    BY <1>3 DEF AgentTypes, Build, Returns, Goes, Stages, Built
  <2>5. AgentLockInv'
    BY <1>3, AgentRuntimeAssumption DEF AgentTypes, AgentLockInv, Build, Returns, Goes
  <2>6. BuildInv'
    BY <2>2, <2>3, <2>4 DEF BuildInv
  <2>7. StoredInv'
    BY <1>3, <2>2, <2>3, AgentRuntimeAssumption DEF StoredInv, AgentTypes, Build
  <2> QED
    BY <2>1, <2>5, <2>6, <2>7
<1>4. CASE Store(c)
  <2>1. AgentTypes'
    BY <1>4 DEF AgentTypes, Store, StoreRuntime, Goes, Stages
  <2>2. \A d \in Configures : (Built(d)' <=> Built(d)) /\ (Stored(d)' <=> Stored(d) \/ d = c)
    BY <1>4 DEF AgentTypes, Store, Goes, Stages, Built, Stored
  <2> QED
    BY <1>4, <2>1, <2>2, AgentRuntimeAssumption
       DEF AgentTypes, AgentLockInv, BuildInv, StoredInv, Store, StoreRuntime, Goes
<1>5. CASE Return(c)
  <2>1. AgentTypes'
    BY <1>5 DEF AgentTypes, Return, Returns, Goes, Stages
  <2>2. \A d \in Configures : (Built(d)' <=> Built(d)) /\ (Stored(d)' <=> Stored(d))
    BY <1>5 DEF AgentTypes, Return, Returns, Goes, Stages, Built, Stored
  <2> QED
    BY <1>5, <2>1, <2>2, AgentRuntimeAssumption
       DEF AgentTypes, AgentLockInv, BuildInv, StoredInv, Return, Returns, Goes
<1> QED
  BY <1>1, <1>2, <1>3, <1>4, <1>5 DEF ConfigureStep

(* An attestation takes what is in force, and changes nothing else.        *)
LEMMA AgentAttestPreserves ==
    ASSUME AgentInv, NEW h \in Handlers, Arrive(h) \/ LoadRuntime(h) \/ Finish(h)
    PROVE  AgentInv'
<1> USE DEF AgentInv
<1>1. UNCHANGED <<lock, published, cpc, request, runtimes, reply>>
  BY DEF Arrive, LoadRuntime, Finish
<1>2. AgentTypes'
  BY <1>1 DEF AgentTypes, Arrive, LoadRuntime, Finish
<1>3. AgentLockInv' /\ BuildInv'
  BY <1>1 DEF AgentLockInv, BuildInv, Built
<1>4. StoredInv'
  BY <1>1 DEF StoredInv, Stored, AgentTypes, Arrive, LoadRuntime, Finish
<1> QED
  BY <1>2, <1>3, <1>4

(* Every step keeps it.                                                    *)
LEMMA AgentStepPreserves == AgentInv /\ [Next]_vars => AgentInv'
<1> SUFFICES ASSUME AgentInv, [Next]_vars PROVE AgentInv'
  OBVIOUS
<1>1. CASE UNCHANGED agentVars
  BY <1>1 DEF agentVars, attestVars, AgentInv, AgentTypes, AgentLockInv, BuildInv, StoredInv, Built, Stored
<1>2. CASE AgentStep
  BY <1>2, AgentConfigurePreserves, AgentAttestPreserves DEF AgentStep
<1> QED
  BY <1>1, <1>2 DEF Next, vars

(* So it holds throughout.                                                 *)
LEMMA AgentInvariance == Spec => []AgentInv
BY AgentInit, AgentStepPreserves, PTL DEF Spec

(* decodeValidAgent and ValidateAgent: an accepted configuration polls for *)
(* a positive time.                                                        *)
LEMMA ValidPolls ==
    ASSUME NEW r, AgentRequestValid(r)
    PROVE  DecodeValidAgent(r).pollTimeout > 0
BY DEF AgentRequestValid, DecodeValidAgent, ValidateAgent, RequirePositive

(* Configure stores after it validated, AidAttestation loads one snapshot: *)
(* whatever the operator writes and however the calls interleave, an       *)
(* attestation runs on a configuration that is valid and can poll.         *)
THEOREM AgentServiceable == Spec => []AgentRuntimesServiceable
<1>1. AgentInv => AgentRuntimesServiceable
  <2> SUFFICES ASSUME AgentInv, NEW h \in Handlers, using[h] # None
               PROVE  /\ AgentRequestValid(request[using[h]])
                      /\ runtimes[using[h]].pollTimeout > 0
    BY DEF AgentRuntimesServiceable
  <2>1. using[h] \in Configures /\ Built(using[h])
    BY DEF AgentInv, AgentTypes, StoredInv, Stored, Built
  <2>2. /\ AgentRequestValid(request[using[h]])
        /\ runtimes[using[h]] = DecodeValidAgent(request[using[h]])
    BY <2>1 DEF AgentInv, BuildInv
  <2> QED
    BY <2>2, ValidPolls
<1> QED
  BY <1>1, AgentInvariance, PTL

-----------------------------------------------------------------------------
(* The register.  How far a Configure call has come for it, and how far an *)
(* attestation has.                                                        *)
WriteStage(c) ==
    CASE cpc[c] = "idle"   -> "idle"
      [] cpc[c] = "return" -> "applied"
      [] cpc[c] = "done"   -> IF reply[c] = "ok" THEN "ok" ELSE "failed"
      [] OTHER             -> "called"

ReadStage(h) ==
    CASE hpc[h] = "idle"  -> "idle"
      [] hpc[h] = "entry" -> "begun"
      [] OTHER            -> "read"

WriteStages == [c \in Configures |-> WriteStage(c)]
ReadStages == [h \in Handlers |-> ReadStage(h)]

(* What a Configure step does to the register: a configuration that is     *)
(* refused leaves the one in force, and nothing touches the attestations.  *)
LEMMA AgentConfigureMoves ==
    ASSUME AgentTypes, NEW c \in Configures, Call(c) \/ Lock(c) \/ ConfigureStep(c)
    PROVE  /\ UNCHANGED <<ReadStages, using>>
           /\ WriteStages' = [WriteStages EXCEPT ![c] = WriteStage(c)']
           /\ \/ WriteStage(c)' = WriteStage(c) /\ published' = published
              \/ WriteStage(c) = "idle" /\ WriteStage(c)' = "called" /\ published' = published
              \/ WriteStage(c) = "called" /\ WriteStage(c)' = "failed" /\ published' = published
              \/ WriteStage(c) = "called" /\ WriteStage(c)' = "applied" /\ published' = c
              \/ WriteStage(c) = "applied" /\ WriteStage(c)' = "ok" /\ published' = published
<1>1. UNCHANGED <<hpc, using>> /\ \A d \in Configures \ {c} : cpc'[d] = cpc[d] /\ reply'[d] = reply[d]
  BY DEF ConfigureStep, Call, Lock, Build, Store, Return, Returns, Goes, attestVars, AgentTypes
<1>2. \A d \in Configures \ {c} : WriteStage(d)' = WriteStage(d)
  BY <1>1 DEF WriteStage
<1>3. UNCHANGED <<ReadStages, using>> /\ WriteStages' = [WriteStages EXCEPT ![c] = WriteStage(c)']
  BY <1>1, <1>2 DEF ReadStages, ReadStage, WriteStages
<1> DEFINE Move ==
      \/ WriteStage(c)' = WriteStage(c) /\ published' = published
      \/ WriteStage(c) = "idle" /\ WriteStage(c)' = "called" /\ published' = published
      \/ WriteStage(c) = "called" /\ WriteStage(c)' = "failed" /\ published' = published
      \/ WriteStage(c) = "called" /\ WriteStage(c)' = "applied" /\ published' = c
      \/ WriteStage(c) = "applied" /\ WriteStage(c)' = "ok" /\ published' = published
<1>4. ASSUME Call(c) \/ Lock(c) PROVE Move
  BY <1>4 DEF Call, Lock, Goes, AgentTypes, WriteStage
<1>5. ASSUME Build(c) PROVE Move
  BY <1>5 DEF Build, Returns, Goes, AgentTypes, WriteStage
<1>6. ASSUME Store(c) PROVE Move
  BY <1>6 DEF Store, StoreRuntime, Goes, AgentTypes, WriteStage
<1>7. ASSUME Return(c) PROVE Move
  BY <1>7 DEF Return, Returns, Goes, AgentTypes, WriteStage
<1> QED
  BY <1>3, <1>4, <1>5, <1>6, <1>7 DEF ConfigureStep

(* An attestation begins, reads the register once, and is done with it.    *)
LEMMA AgentAttestMoves ==
    ASSUME AgentTypes, NEW h \in Handlers, Arrive(h) \/ LoadRuntime(h) \/ Finish(h)
    PROVE  /\ UNCHANGED <<WriteStages, published>>
           /\ ReadStages' = [ReadStages EXCEPT ![h] = ReadStage(h)']
           /\ \/ ReadStage(h)' = ReadStage(h) /\ using' = using
              \/ ReadStage(h) = "idle" /\ ReadStage(h)' = "begun" /\ using' = using
              \/ /\ ReadStage(h) = "begun" /\ ReadStage(h)' = "read"
                 /\ using' = [using EXCEPT ![h] = published]
<1>1. UNCHANGED <<cpc, reply, published>> /\ \A g \in Handlers \ {h} : hpc'[g] = hpc[g]
  BY DEF Arrive, LoadRuntime, Finish, AgentTypes
<1>2. \A g \in Handlers \ {h} : ReadStage(g)' = ReadStage(g)
  BY <1>1 DEF ReadStage
<1>3. UNCHANGED <<WriteStages, published>> /\ ReadStages' = [ReadStages EXCEPT ![h] = ReadStage(h)']
  BY <1>1, <1>2 DEF WriteStages, WriteStage, ReadStages
<1> QED
  BY <1>3 DEF Arrive, LoadRuntime, Finish, AgentTypes, ReadStage

(* The register's actions in the terms of the stages.                      *)
LEMMA AgentRegisterActions ==
    /\ \A c \in Configures : \A from, to :
        Register!Write(c, from, to) <=>
            /\ WriteStages[c] = from
            /\ WriteStages' = [WriteStages EXCEPT ![c] = to]
            /\ UNCHANGED <<ReadStages, using>>
    /\ \A h \in Handlers :
        Register!Begin(h) <=>
            /\ ReadStages[h] = "idle"
            /\ ReadStages' = [ReadStages EXCEPT ![h] = "begun"]
            /\ UNCHANGED <<published, WriteStages, using>>
    /\ \A h \in Handlers :
        Register!Read(h) <=>
            /\ ReadStages[h] = "begun"
            /\ ReadStages' = [ReadStages EXCEPT ![h] = "read"]
            /\ using' = [using EXCEPT ![h] = published]
            /\ UNCHANGED <<published, WriteStages>>
    /\ UNCHANGED Register!vars <=> UNCHANGED <<published, WriteStages, ReadStages, using>>
BY DEF Register!Write, Register!Begin, Register!Read, Register!vars,
       WriteStages, WriteStage, ReadStages, ReadStage

(* Configure and AidAttestation on one atomic pointer: for any number of   *)
(* calls, every step of the plugin is a step of the register or leaves it  *)
(* alone.                                                                  *)
THEOREM AgentRegister == Spec => AgentImplementsRegister
<1>1. Init => Register!Init
  BY DEF Init, Register!Init
<1>2. AgentTypes /\ [Next]_vars => [Register!Next]_(Register!vars)
  <2> SUFFICES ASSUME AgentTypes, [Next]_vars
               PROVE  Register!Next \/ UNCHANGED Register!vars
    OBVIOUS
  <2>1. ASSUME NEW c \in Configures, Call(c) \/ Lock(c) \/ ConfigureStep(c)
        PROVE  Register!Next \/ UNCHANGED Register!vars
    <3>1. WriteStages[c] = WriteStage(c) /\ WriteStages = [WriteStages EXCEPT ![c] = WriteStage(c)]
      BY DEF WriteStages
    <3>2. CASE WriteStage(c)' = WriteStage(c) /\ published' = published
      BY <2>1, <3>1, <3>2, AgentConfigureMoves, AgentRegisterActions
    <3>3. CASE WriteStage(c) = "idle" /\ WriteStage(c)' = "called" /\ published' = published
      <4>1. Register!Call(c)
        BY <2>1, <3>1, <3>3, AgentConfigureMoves, AgentRegisterActions DEF Register!Call
      <4> QED
        BY <4>1 DEF Register!Next
    <3>4. CASE WriteStage(c) = "called" /\ WriteStage(c)' = "failed" /\ published' = published
      <4>1. Register!Fail(c)
        BY <2>1, <3>1, <3>4, AgentConfigureMoves, AgentRegisterActions DEF Register!Fail
      <4> QED
        BY <4>1 DEF Register!Next
    <3>5. CASE WriteStage(c) = "called" /\ WriteStage(c)' = "applied" /\ published' = c
      <4>1. Register!TakeEffect(c)
        BY <2>1, <3>1, <3>5, AgentConfigureMoves, AgentRegisterActions DEF Register!TakeEffect
      <4> QED
        BY <4>1 DEF Register!Next
    <3>6. CASE WriteStage(c) = "applied" /\ WriteStage(c)' = "ok" /\ published' = published
      <4>1. Register!Succeed(c)
        BY <2>1, <3>1, <3>6, AgentConfigureMoves, AgentRegisterActions DEF Register!Succeed
      <4> QED
        BY <4>1 DEF Register!Next
    <3> QED
      BY <2>1, <3>2, <3>3, <3>4, <3>5, <3>6, AgentConfigureMoves
  <2>2. ASSUME NEW h \in Handlers, Arrive(h) \/ LoadRuntime(h) \/ Finish(h)
        PROVE  Register!Next \/ UNCHANGED Register!vars
    <3>1. ReadStages[h] = ReadStage(h) /\ ReadStages = [ReadStages EXCEPT ![h] = ReadStage(h)]
      BY DEF ReadStages
    <3>2. CASE ReadStage(h)' = ReadStage(h) /\ using' = using
      BY <2>2, <3>1, <3>2, AgentAttestMoves, AgentRegisterActions
    <3>3. CASE ReadStage(h) = "idle" /\ ReadStage(h)' = "begun" /\ using' = using
      <4>1. Register!Begin(h)
        BY <2>2, <3>1, <3>3, AgentAttestMoves, AgentRegisterActions
      <4> QED
        BY <4>1 DEF Register!Next
    <3>4. CASE /\ ReadStage(h) = "begun" /\ ReadStage(h)' = "read"
               /\ using' = [using EXCEPT ![h] = published]
      <4>1. Register!Read(h)
        BY <2>2, <3>1, <3>4, AgentAttestMoves, AgentRegisterActions
      <4> QED
        BY <4>1 DEF Register!Next
    <3> QED
      BY <2>2, <3>2, <3>3, <3>4, AgentAttestMoves
  <2>3. CASE UNCHANGED agentVars
    BY <2>3 DEF agentVars, attestVars, Register!vars
  <2> QED
    BY <2>1, <2>2, <2>3 DEF Next, AgentStep, vars
<1>3. AgentInv => AgentTypes
  BY DEF AgentInv
<1> QED
  BY <1>1, <1>2, <1>3, AgentInvariance, PTL DEF Spec, AgentImplementsRegister, Register!Spec
=============================================================================
