------------------------- MODULE AgentAttestProofs --------------------------
(***************************************************************************)
(* For every guest, every server and all timings: the agent reads and      *)
(* answers with nothing but what the challenge protocol allows, and a poll *)
(* that times out did not overlook a value for longer than one wait.       *)
(***************************************************************************)
EXTENDS AgentAttest, TLAPS

(* What is sent was validated before.                                      *)
PayloadInv ==
    /\ offered = [a \in Attempts |-> offered[a]]
    /\ \A a \in Attempts : stage[a] = "payload" => ValidateClaims(gathered[a])

(* What is polled for is a key NewConfigKey accepted.                      *)
AskInv ==
    \A a \in Attempts :
        /\ stage[a] \in {"poll", "wait"} => asked[a] \in Keys
        /\ reads[a] \subseteq Keys

(* The wait is capped; while all reads are prompt, time goes unobserved    *)
(* only in the wait under way.                                             *)
PollInv ==
    \A a \in Attempts :
        /\ delay[a] <= MaxPollDelay
        /\ missed[a] <= elapsed[a]
        /\ ~flaky[a] => /\ missed[a] <= MaxPollDelay
                        /\ stage[a] = "wait" => missed[a] + left[a] <= delay[a]

AgentInv == AgentTypeOK /\ PayloadInv /\ AskInv /\ PollInv

-----------------------------------------------------------------------------
(* A parsed UUID is canonical, or "".                                      *)
LEMMA ParsedUUID ==
    ASSUME NEW raw PROVE NewInstanceUUID(raw) \in UUIDs \cup {""}
BY UUIDAssumption DEF NewInstanceUUID, UUIDs

(* The agents start in the invariant.                                      *)
LEMMA AgentInitInv == Init => AgentInv
<1> SUFFICES ASSUME Init PROVE AgentInv
  OBVIOUS
<1>0. /\ PollTimeout \in Nat
      /\ InitialPollDelay \in Nat /\ MaxPollDelay \in Nat /\ InitialPollDelay <= MaxPollDelay
  BY AgentAssumption
<1>a. 0 \in 0 .. PollTimeout
  BY <1>0
<1>b. [NoClaims EXCEPT !.project = ProjectHint] \in Gathered
  <2>1. NoClaims \in Gathered
    BY DEF NoClaims, Gathered
  <2> QED
    BY <2>1, AgentAssumption DEF Gathered
<1>1. guest \in [Attempts -> Guest]
  BY GuestsAssumption DEF Init
<1>2. AgentTypeOK
  BY <1>0, <1>a, <1>b, <1>1 DEF Init, AgentInit, AgentTypeOK, Stages, Outcomes
<1>3. PayloadInv /\ AskInv
  BY DEF Init, AgentInit, PayloadInv, AskInv
<1>4. PollInv
  BY <1>0 DEF Init, AgentInit, PollInv
<1> QED
  BY <1>2, <1>3, <1>4 DEF AgentInv

(* Reading a source of claims keeps their types.                           *)
LEMMA GatheredUpdates ==
    ASSUME NEW g \in Gathered, NEW e \in Guest, NEW id \in UUIDs \cup {""}
    PROVE  /\ [g EXCEPT !.type = e.type, !.location = e.location] \in Gathered
           /\ [g EXCEPT !.name = e.name, !.cloudInitID = e.cloudInitID] \in Gathered
           /\ [g EXCEPT !.uuid = id] \in Gathered
<1>1. [g EXCEPT !.type = e.type, !.location = e.location] \in Gathered
  BY DEF Gathered, Guest
<1>2. [g EXCEPT !.name = e.name, !.cloudInitID = e.cloudInitID] \in Gathered
  BY DEF Gathered, Guest
<1>3. [g EXCEPT !.uuid = id] \in Gathered
  BY DEF Gathered
<1> QED
  BY <1>1, <1>2, <1>3

(* The claims are read; they are validated as the last of them arrives.    *)
LEMMA ClaimsPreserve ==
    ASSUME AgentInv, NEW a \in Attempts, UNCHANGED guest,
           ReadInfo(a) \/ ReadMetadata(a) \/ ReadProductUUID(a) \/ ClaimsFail(a)
    PROVE  AgentInv'
<1> USE DEF AgentInv, sentVars, pollVars
<1>0. UNCHANGED <<guest, stream, offered, asked, answered, delay, left, elapsed, missed, flaky, reads>>
  BY DEF ReadInfo, ReadMetadata, ReadProductUUID, ClaimsFail
<1>1. /\ stage' = [stage EXCEPT ![a] = stage'[a]]
      /\ stage'[a] \in {"meta", "dmi", "payload", "done"}
      /\ outcome' \in [Attempts -> Outcomes]
  BY DEF AgentTypeOK, ReadInfo, ReadMetadata, ReadProductUUID, ClaimsFail, Proceed, Return, StreamEnds, Outcomes
<1>2. /\ \A b \in Attempts \ {a} : gathered'[b] = gathered[b]
      /\ gathered' \in [Attempts -> Gathered]
  <2>1. guest[a] \in Guest /\ NewInstanceUUID(guest[a].uuid) \in UUIDs \cup {""}
    BY ParsedUUID DEF AgentTypeOK
  <2> DEFINE id == NewInstanceUUID(guest[a].uuid)
             g == gathered[a]
  <2>a. /\ [g EXCEPT !.type = guest[a].type, !.location = guest[a].location] \in Gathered
        /\ [g EXCEPT !.name = guest[a].name, !.cloudInitID = guest[a].cloudInitID] \in Gathered
        /\ [g EXCEPT !.uuid = id] \in Gathered
    BY <2>1, GatheredUpdates DEF AgentTypeOK
  <2>2. CASE ReadInfo(a)
    <3>1. gathered' = [gathered EXCEPT ![a] = [g EXCEPT !.type = guest[a].type, !.location = guest[a].location]]
      BY <2>2 DEF AgentTypeOK, ReadInfo
    <3> QED
      BY <2>a, <3>1 DEF AgentTypeOK
  <2>3. CASE ReadMetadata(a)
    <3>1. gathered' = [gathered EXCEPT ![a] = [g EXCEPT !.name = guest[a].name, !.cloudInitID = guest[a].cloudInitID]]
      BY <2>3 DEF AgentTypeOK, ReadMetadata
    <3> QED
      BY <2>a, <3>1 DEF AgentTypeOK
  <2>4. CASE ReadProductUUID(a)
    <3>1. gathered' = [gathered EXCEPT ![a] = [g EXCEPT !.uuid = id]]
      BY <2>4 DEF ReadProductUUID
    <3> QED
      BY <2>a, <3>1 DEF AgentTypeOK
  <2>5. CASE ClaimsFail(a)
    BY <2>5 DEF AgentTypeOK, ClaimsFail
  <2> QED
    BY <2>2, <2>3, <2>4, <2>5
<1>3. stage'[a] = "payload" => ValidateClaims(gathered'[a])
  BY DEF AgentTypeOK, ReadInfo, ReadMetadata, ReadProductUUID, ClaimsFail, Proceed, Return
<1>4. AgentTypeOK'
  <2>1. stage' \in [Attempts -> Stages]
    BY <1>1 DEF AgentTypeOK, Stages
  <2> QED
    BY <1>0, <1>1, <1>2, <2>1 DEF AgentTypeOK
<1>5. PayloadInv'
  BY <1>0, <1>1, <1>2, <1>3 DEF AgentTypeOK, PayloadInv
<1>6. AskInv' /\ PollInv'
  BY <1>0, <1>1 DEF AgentTypeOK, AskInv, PollInv
<1> QED
  BY <1>4, <1>5, <1>6

(* The payload that is sent decodes on the other side.                     *)
LEMMA PayloadPreserves ==
    ASSUME AgentInv, NEW a \in Attempts, UNCHANGED guest, SendPayload(a)
    PROVE  AgentInv'
<1> USE DEF AgentInv, pollVars
<1>1. /\ stage' = [stage EXCEPT ![a] = stage'[a]]
      /\ stage'[a] \in {"challenge", "done"}
      /\ outcome' \in [Attempts -> Outcomes]
      /\ UNCHANGED <<guest, stream, gathered, asked, answered, delay, left, elapsed, missed, flaky, reads>>
  BY DEF AgentTypeOK, SendPayload, Proceed, Return, Outcomes
<1>2. DecodablePayload(EncodePayload(gathered[a]))
  <2>1. gathered[a] \in Gathered /\ ValidateClaims(gathered[a])
    BY DEF AgentTypeOK, PayloadInv, SendPayload
  <2> QED
    BY <2>1, AgentAssumption DEF Gathered, ValidateClaims, DecodablePayload, EncodePayload,
                                 RequireVirtualMachine, InstanceTypeVirtualMachine
<1>3. /\ offered' = [b \in Attempts |-> offered'[b]]
      /\ \A b \in Attempts : offered'[b] # Absent => DecodablePayload(offered'[b])
  BY <1>2 DEF AgentTypeOK, PayloadInv, SendPayload
<1>4. AgentTypeOK'
  BY <1>1, <1>3 DEF AgentTypeOK, Stages
<1>5. PayloadInv' /\ AskInv' /\ PollInv'
  BY <1>1, <1>3 DEF AgentTypeOK, PayloadInv, AskInv, PollInv
<1> QED
  BY <1>4, <1>5

(* A challenge is taken up only for a key of the challenge grammar.        *)
LEMMA ChallengePreserves ==
    ASSUME AgentInv, NEW a \in Attempts, UNCHANGED guest,
           \/ \E msg \in ConfigKeys \cup {Absent} : ReceiveChallenge(a, msg)
           \/ ChallengeFails(a)
           \/ CancelStream(a)
    PROVE  AgentInv'
<1> USE DEF AgentInv, pollVars, sentVars
<1>1. CASE CancelStream(a)
  BY <1>1 DEF CancelStream, AgentTypeOK, PayloadInv, AskInv, PollInv
<1>2. CASE ChallengeFails(a)
  <2>1. /\ stage' = [stage EXCEPT ![a] = "done"]
        /\ outcome' \in [Attempts -> Outcomes]
        /\ UNCHANGED <<guest, stream, gathered, offered, asked, answered, delay, left, elapsed, missed,
                       flaky, reads>>
    BY <1>2 DEF AgentTypeOK, ChallengeFails, Proceed, Return, Outcomes
  <2> QED
    BY <2>1 DEF AgentTypeOK, Stages, PayloadInv, AskInv, PollInv
<1>3. ASSUME NEW msg \in ConfigKeys \cup {Absent}, ReceiveChallenge(a, msg)
      PROVE  AgentInv'
  <2>1. /\ stage' = [stage EXCEPT ![a] = stage'[a]]
        /\ stage'[a] \in {"poll", "done"}
        /\ asked' \in [Attempts -> ConfigKeys \cup {Absent}]
        /\ stage'[a] = "poll" => asked'[a] \in Keys
        /\ \A b \in Attempts \ {a} : asked'[b] = asked[b]
        /\ outcome' \in [Attempts -> Outcomes]
        /\ UNCHANGED <<guest, stream, gathered, offered, answered, delay, left, elapsed, missed, flaky, reads>>
    BY <1>3 DEF AgentTypeOK, ReceiveChallenge, NewConfigKey, Proceed, Return, Outcomes
  <2>2. AgentTypeOK'
    BY <2>1 DEF AgentTypeOK, Stages
  <2>3. PayloadInv' /\ AskInv' /\ PollInv'
    BY <2>1 DEF AgentTypeOK, PayloadInv, AskInv, PollInv
  <2> QED
    BY <2>2, <2>3
<1> QED
  BY <1>1, <1>2, <1>3

(* The doubled wait is within the cap again.                               *)
LEMMA CappedDelay ==
    ASSUME NEW d \in Nat PROVE NextPollDelay(d) \in Nat /\ NextPollDelay(d) <= MaxPollDelay
<1>1. MaxPollDelay \in Nat
  BY AgentAssumption
<1> QED
  BY <1>1 DEF NextPollDelay

(* A read of the challenged key: what it adds to the history.              *)
LEMMA ReadsStayKeys ==
    ASSUME AgentInv, NEW a \in Attempts, ReadConfig(a)
    PROVE  /\ asked[a] \in Keys
           /\ reads' \in [Attempts -> SUBSET ConfigKeys]
           /\ \A b \in Attempts : reads'[b] \subseteq Keys
<1>1. asked[a] \in Keys
  BY DEF AgentInv, AskInv, ReadConfig
<1>2. reads' = [reads EXCEPT ![a] = @ \cup {asked[a]}]
  BY DEF ReadConfig
<1> QED
  BY <1>1, <1>2 DEF AgentInv, AgentTypeOK, AskInv, ConfigKeys

(* A read finds the value, or fails for good, or the poll context ends:    *)
(* the attempt is over, with a nonce or with none.                         *)
LEMMA PollOverPreserves ==
    ASSUME AgentInv, NEW a \in Attempts, UNCHANGED guest,
           ConfigFound(a) \/ ConfigReadFails(a, "permanent") \/ PollGivesUp(a)
    PROVE  AgentInv'
<1> USE DEF AgentInv, pollVars, sentVars
<1>1. /\ stage' = [stage EXCEPT ![a] = "done"]
      /\ outcome' \in [Attempts -> Outcomes]
      /\ answered' \in [Attempts -> Nonces \cup {Absent}]
      /\ UNCHANGED <<guest, stream, gathered, offered, asked, delay, left, elapsed, missed, flaky>>
  <2>1. CASE ConfigFound(a)
    BY <2>1 DEF ConfigFound, AgentTypeOK, Proceed, Return, Outcomes
  <2>2. CASE ConfigReadFails(a, "permanent")
    BY <2>2 DEF ConfigReadFails, AgentTypeOK, Proceed, Return, Outcomes
  <2>3. CASE PollGivesUp(a)
    BY <2>3 DEF PollGivesUp, PollEnds, StreamEnds, AgentTypeOK, Proceed, Return, Outcomes
  <2> QED
    BY <2>1, <2>2, <2>3
<1>2. reads' \in [Attempts -> SUBSET ConfigKeys] /\ \A b \in Attempts : reads'[b] \subseteq Keys
  <2>1. CASE ReadConfig(a)
    BY <2>1, ReadsStayKeys
  <2>2. CASE reads' = reads
    BY <2>2 DEF AgentTypeOK, AskInv
  <2> QED
    BY <2>1, <2>2 DEF ConfigFound, ConfigReadFails, PollGivesUp
<1>3. AgentTypeOK'
  BY <1>1, <1>2 DEF AgentTypeOK, Stages
<1>4. PayloadInv' /\ AskInv' /\ PollInv'
  BY <1>1, <1>2 DEF AgentTypeOK, PayloadInv, AskInv, PollInv
<1> QED
  BY <1>3, <1>4

(* A read that finds nothing has observed that nothing was missed; one     *)
(* that fails makes the attempt flaky.  Either way a whole wait begins.    *)
LEMMA WaitPreserves ==
    ASSUME AgentInv, NEW a \in Attempts, UNCHANGED guest,
           ConfigNotFound(a) \/ ConfigReadFails(a, "transient")
    PROVE  AgentInv'
<1> USE DEF AgentInv
<1>1. /\ stage' = [stage EXCEPT ![a] = "wait"]
      /\ left' = [left EXCEPT ![a] = delay[a]]
      /\ UNCHANGED <<guest, stream, gathered, offered, asked, answered, outcome, delay, elapsed>>
  BY DEF ConfigNotFound, ConfigReadFails, StartWait, Proceed
<1>2. asked[a] \in Keys /\ reads' \in [Attempts -> SUBSET ConfigKeys] /\ \A b \in Attempts : reads'[b] \subseteq Keys
  BY ReadsStayKeys DEF ConfigNotFound, ConfigReadFails
<1>3. /\ \/ missed' = [missed EXCEPT ![a] = 0] /\ flaky' = flaky
         \/ missed' = missed /\ flaky' = [flaky EXCEPT ![a] = TRUE]
  BY DEF ConfigNotFound, ConfigReadFails
<1>4. PollTimeout \in Nat /\ MaxPollDelay \in Nat
  BY AgentAssumption
<1>5. missed' \in [Attempts -> 0 .. PollTimeout] /\ flaky' \in [Attempts -> BOOLEAN]
  <2>1. missed' \in [Attempts -> 0 .. PollTimeout]
    BY <1>3, <1>4 DEF AgentTypeOK
  <2>2. flaky' \in [Attempts -> BOOLEAN]
    BY <1>3, Zenon DEF AgentTypeOK
  <2> QED
    BY <2>1, <2>2
<1>6. AgentTypeOK'
  BY <1>1, <1>2, <1>5 DEF AgentTypeOK, Stages
<1>7. PayloadInv' /\ AskInv'
  BY <1>1, <1>2 DEF AgentTypeOK, PayloadInv, AskInv
<1>8. PollInv'
  BY <1>1, <1>3, <1>4 DEF AgentTypeOK, PollInv
<1> QED
  BY <1>6, <1>7, <1>8

(* Time passes in a wait, or in a read that is slow.                       *)
LEMMA TimePreserves ==
    ASSUME AgentInv, NEW a \in Attempts, UNCHANGED guest, Tick(a) \/ SlowRead(a)
    PROVE  AgentInv'
<1> USE DEF AgentInv, sentVars
<1>0. PollTimeout \in Nat /\ MaxPollDelay \in Nat
  BY AgentAssumption
<1>1. /\ elapsed' = [elapsed EXCEPT ![a] = elapsed[a] + 1]
      /\ elapsed[a] \in 0 .. PollTimeout /\ elapsed[a] < PollTimeout
      /\ missed' = [missed EXCEPT ![a] = missed'[a]]
      /\ missed'[a] \in {0, missed[a] + 1}
      /\ UNCHANGED <<guest, stage, stream, gathered, offered, asked, answered, reads, outcome, delay>>
  <2>1. TimePasses(a) /\ elapsed[a] # PollTimeout /\ elapsed[a] \in 0 .. PollTimeout
    BY DEF Tick, SlowRead, TimePasses, PollExpired, AgentTypeOK
  <2>2. elapsed' = [elapsed EXCEPT ![a] = elapsed[a] + 1] /\ elapsed'[a] - elapsed[a] = 1
    BY <1>0, <2>1 DEF TimePasses, AgentTypeOK
  <2>3. missed' = [missed EXCEPT ![a] = missed'[a]] /\ missed'[a] \in {0, missed[a] + 1}
    BY <2>1, <2>2 DEF TimePasses, AgentTypeOK
  <2> QED
    BY <1>0, <2>1, <2>2, <2>3 DEF Tick, SlowRead
<1>2. \/ /\ stage[a] = "wait" /\ left[a] > 0
         /\ left' = [left EXCEPT ![a] = left[a] - 1]
         /\ flaky' = flaky
      \/ /\ stage[a] = "poll"
         /\ flaky' = [flaky EXCEPT ![a] = TRUE]
         /\ left' = left
  BY DEF Tick, SlowRead
<1>3. /\ elapsed' \in [Attempts -> 0 .. PollTimeout]
      /\ missed' \in [Attempts -> 0 .. PollTimeout]
      /\ \A b \in Attempts : missed'[b] <= elapsed'[b]
  BY <1>0, <1>1 DEF AgentTypeOK, PollInv
<1>4. left' \in [Attempts -> Nat] /\ flaky' \in [Attempts -> BOOLEAN]
  <2>1. left' \in [Attempts -> Nat]
    BY <1>2 DEF AgentTypeOK
  <2>2. flaky' \in [Attempts -> BOOLEAN]
    BY <1>2, Zenon DEF AgentTypeOK
  <2> QED
    BY <2>1, <2>2
<1>5. AgentTypeOK'
  BY <1>1, <1>3, <1>4 DEF AgentTypeOK
<1>6. PayloadInv' /\ AskInv'
  BY <1>1 DEF PayloadInv, AskInv
<1>7. PollInv'
  BY <1>0, <1>1, <1>2, <1>3 DEF AgentTypeOK, PollInv
<1> QED
  BY <1>5, <1>6, <1>7

(* A wait is over; the next one is longer, up to the cap.                  *)
LEMMA WakePreserves ==
    ASSUME AgentInv, NEW a \in Attempts, UNCHANGED guest, WaitEnds(a)
    PROVE  AgentInv'
<1> USE DEF AgentInv, sentVars
<1>1. /\ stage' = [stage EXCEPT ![a] = "poll"] /\ stage[a] = "wait"
      /\ delay' = [delay EXCEPT ![a] = NextPollDelay(delay[a])]
      /\ UNCHANGED <<guest, stream, gathered, offered, asked, answered, left, elapsed, missed, flaky, reads, outcome>>
  BY DEF WaitEnds, Proceed
<1>2. NextPollDelay(delay[a]) \in Nat /\ NextPollDelay(delay[a]) <= MaxPollDelay
  BY CappedDelay DEF AgentTypeOK
<1>3. AgentTypeOK'
  BY <1>1, <1>2 DEF AgentTypeOK, Stages
<1>4. PayloadInv' /\ AskInv' /\ PollInv'
  BY <1>1, <1>2 DEF AgentTypeOK, PayloadInv, AskInv, PollInv
<1> QED
  BY <1>3, <1>4

(* The host concerns the guest only.                                       *)
LEMMA HostPreserves ==
    ASSUME AgentInv, NEW a \in Attempts, HostWrites(a), UNCHANGED agentVars
    PROVE  AgentInv'
<1> USE DEF AgentInv, agentVars, sentVars, pollVars
<1>1. guest' \in [Attempts -> Guest]
  <2>0. guest[a] \in Guest /\ guest[a].config \in Config
    BY DEF AgentTypeOK, Guest
  <2>1. ASSUME NEW k \in ConfigKeys, NEW v \in Values \cup Nonces \cup {Absent},
               guest' = [guest EXCEPT ![a].config[k] = v]
        PROVE  guest' \in [Attempts -> Guest]
    <3> DEFINE c == [guest[a].config EXCEPT ![k] = v]
    <3>1. c \in Config
      BY <2>0 DEF Config
    <3>2. guest' = [guest EXCEPT ![a] = [guest[a] EXCEPT !.config = c]]
      BY <2>1 DEF AgentTypeOK
    <3> HIDE DEF c
    <3>3. [guest[a] EXCEPT !.config = c] \in Guest
      BY <2>0, <3>1 DEF Guest
    <3> QED
      BY <3>2, <3>3 DEF AgentTypeOK
  <2>2. ASSUME NEW loc \in Locations, guest' = [guest EXCEPT ![a].location = loc]
        PROVE  guest' \in [Attempts -> Guest]
    <3>1. [guest[a] EXCEPT !.location = loc] \in Guest
      BY <2>0 DEF Guest
    <3>2. guest' = [guest EXCEPT ![a] = [guest[a] EXCEPT !.location = loc]]
      BY <2>2 DEF AgentTypeOK
    <3> QED
      BY <3>1, <3>2 DEF AgentTypeOK
  <2> QED
    BY <2>1, <2>2 DEF HostWrites
<1> QED
  BY <1>1 DEF AgentTypeOK, PayloadInv, AskInv, PollInv

(* Every step of an agent, of its guest API and of time keeps it.          *)
LEMMA AgentStepInv == AgentInv /\ [Next]_vars => AgentInv'
<1> SUFFICES ASSUME AgentInv, [Next]_vars PROVE AgentInv'
  OBVIOUS
<1>1. ASSUME NEW a \in Attempts, AgentStep(a), UNCHANGED guest PROVE AgentInv'
  <2>1. ASSUME NEW err \in RequestErrors, ConfigReadFails(a, err) PROVE AgentInv'
    BY <1>1, <2>1, PollOverPreserves, WaitPreserves DEF RequestErrors
  <2> QED
    BY <1>1, <2>1, ClaimsPreserve, PayloadPreserves, ChallengePreserves, PollOverPreserves, WaitPreserves,
       TimePreserves, WakePreserves DEF AgentStep
<1>2. ASSUME NEW a \in Attempts, CancelStream(a), UNCHANGED guest PROVE AgentInv'
  BY <1>2, ChallengePreserves
<1>3. ASSUME NEW a \in Attempts, NEW msg \in ConfigKeys \cup {Absent}, ReceiveChallenge(a, msg), UNCHANGED guest
      PROVE  AgentInv'
  BY <1>3, ChallengePreserves
<1>4. ASSUME NEW a \in Attempts, HostWrites(a), UNCHANGED agentVars PROVE AgentInv'
  BY <1>4, HostPreserves
<1>5. CASE UNCHANGED vars
  BY <1>5 DEF vars, agentVars, sentVars, pollVars, AgentInv, AgentTypeOK, PayloadInv, AskInv, PollInv
<1> QED
  BY <1>1, <1>2, <1>3, <1>4, <1>5 DEF Next

(* So it holds throughout.                                                 *)
LEMMA AgentInvariance == Spec => []AgentInv
BY AgentInitInv, AgentStepInv, PTL DEF Spec

(* Attest of the agent: in particular every payload it sends decodes at    *)
(* the server, and polling never goes on past poll_timeout.                *)
THEOREM AgentTypes == Spec => []AgentTypeOK
<1>1. AgentInv => AgentTypeOK
  BY DEF AgentInv
<1> QED
  BY <1>1, AgentInvariance, PTL

(* DecodeChallenge before pollConfig, ParseNonce before EncodeResponse:    *)
(* whatever server asks and whatever the host writes, the agent reads      *)
(* challenge keys only and answers with a nonce or not at all.             *)
THEOREM AgentDisclosure == Spec => []DisclosesOnlyNonces
<1>1. AgentInv => DisclosesOnlyNonces
  BY DEF AgentInv, AgentTypeOK, AskInv, DisclosesOnlyNonces
<1> QED
  BY <1>1, AgentInvariance, PTL

(* nextPollDelay's cap and pollConfig's loop, for any initial delay, cap   *)
(* and timeout: a value overlooked until the deadline was visible for no   *)
(* longer than the longest wait, if the reads were prompt.                 *)
THEOREM AgentTimeouts == Spec => []TimeoutMeansLate
<1>1. AgentInv => TimeoutMeansLate
  BY DEF AgentInv, PollInv, TimeoutMeansLate
<1> QED
  BY <1>1, AgentInvariance, PTL
=============================================================================
