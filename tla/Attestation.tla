---------------------------- MODULE Attestation -----------------------------
(***************************************************************************)
(* Agents and the server together: each attempt is one agent of            *)
(* AgentAttest in a VM, talking to one handler of ServerAttest over its    *)
(* stream.  The payload, the challenge and the response are delivered      *)
(* after any delay, or never.  What the guest reads is what Incus stores   *)
(* for its VM.  The agents follow the code: no other peer exists here.     *)
(***************************************************************************)
EXTENDS ServerAttest

CONSTANTS
    Home,             \* attempt -> the UUID of the VM its agent runs in
    ProjectHint,
    InitialPollDelay,
    MaxPollDelay,
    PollTimeout

ASSUME HomeAssumption ==
    /\ Home \in [Attempts -> UUIDs]
    /\ ProjectHint \in Projects \cup {""}
    /\ Absent \notin Projects \cup {""}

(* Every payload that an agent in the home of a could send.                *)
AgentPayloads(a) ==
    [project     : {IF ProjectHint = "" THEN Absent ELSE ProjectHint},
     name        : Names \ {""},
     uuid        : {Home[a]},
     type        : {InstanceTypeVirtualMachine},
     location    : (Locations \cup {StandaloneLocation}) \ {""},
     cloudInitID : CloudInitIDs \ {""}]

(* The handlers are open to the agents.                                    *)
ASSUME PeersAssumption == \A a \in Attempts : AgentPayloads(a) \subseteq Payloads

VARIABLES
    stage, stream, gathered, offered, asked, delay, left, elapsed, reads,
    missed, flaky, answered, outcome,
    challenge,        \* attempt -> the challenge on its way, or Absent
    uprooted          \* history: attempts whose VM changed its identity

agentSide == <<stage, stream, gathered, offered, asked, delay, left, elapsed, reads,
               missed, flaky, answered, outcome>>

allVars == <<vars, agentSide, challenge, uprooted>>

HomeSlots(a) ==
    {slot \in Slots : Present(slot) /\ NewInstanceUUID(instances[slot].uuid) = Home[a]}

(* A guest on a standalone server is told the server's name.               *)
GuestView(slot) ==
    LET rec == instances[slot] IN
    [name        |-> slot[2],
     uuid        |-> rec.uuid,
     type        |-> rec.type,
     location    |-> IF rec.location = "none" THEN StandaloneLocation ELSE rec.location,
     cloudInitID |-> rec.cloudInitID,
     config      |-> ExpandedConfig(rec)]

Running(a) == HomeSlots(a) # {}

(* What the guest API of each attempt's VM answers now.                    *)
guest == [a \in Attempts |->
            IF Running(a) THEN GuestView(CHOOSE s \in HomeSlots(a) : TRUE) ELSE Absent]

Agent == INSTANCE AgentAttest WITH Guests <- {}

AttestationInit ==
    /\ Init
    /\ Agent!AgentInit
    /\ challenge = [a \in Attempts |-> Absent]
    /\ uprooted = {}

-----------------------------------------------------------------------------
(* The agent's own steps, while its VM exists.                             *)
AgentMoves(a) ==
    /\ Running(a)
    /\ Agent!AgentStep(a)
    /\ UNCHANGED <<vars, challenge, uprooted>>

AgentCanceled(a) ==
    /\ "cancel" \in Disturbances
    /\ Agent!CancelStream(a)
    /\ UNCHANGED <<vars, challenge, uprooted>>

DeliverPayload(a) ==
    /\ offered[a] # Absent
    /\ PayloadReceived(a, offered[a])
    /\ UNCHANGED <<agentSide, challenge, uprooted>>

(* The stream breaks before the payload.                                   *)
PayloadLost(a) ==
    /\ PayloadRejected(a)
    /\ result'[a] = "other"
    /\ UNCHANGED <<agentSide, challenge, uprooted>>

ChallengeLeaves(a) ==
    /\ SendChallenge(a)
    /\ challenge' = IF pc'[a] = "recv" THEN [challenge EXCEPT ![a] = key[a]] ELSE challenge
    /\ UNCHANGED <<agentSide, uprooted>>

DeliverChallenge(a) ==
    /\ Running(a)
    /\ challenge[a] # Absent
    /\ Agent!ReceiveChallenge(a, challenge[a])
    /\ UNCHANGED <<vars, challenge, uprooted>>

DeliverResponse(a) ==
    /\ answered[a] # Absent
    /\ ReceiveResponse(a, Home[a], answered[a])
    /\ UNCHANGED <<agentSide, challenge, uprooted>>

ResponseLost(a) ==
    /\ ResponseFails(a)
    /\ result'[a] # "invalid"
    /\ UNCHANGED <<agentSide, challenge, uprooted>>

(* The handler's steps that exchange no message with the agent.            *)
HandlerMoves(a) ==
    /\ \/ Lookup(a) \/ Resolve(a) \/ LookupFails(a)
       \/ \E k \in Keys, n \in Nonces : ReadRandomPair(a, k, n)
       \/ RandomFails(a)
       \/ SetNonceStep(a) \/ SetNonceGivesUp(a) \/ SetNonceReturns(a)
       \/ UnsetNonceStep(a) \/ UnsetNonceGivesUp(a) \/ CleanupReturns(a)
       \/ SendAttributes(a)
       \/ Cancel(a)
    /\ UNCHANGED <<agentSide, challenge, uprooted>>

(* Where the VM is and what identifies it, to its guest and to the server. *)
Identity(a) ==
    {<<slot, [GuestView(slot) EXCEPT !.config = Absent]>> : slot \in HomeSlots(a)}

Elsewhere ==
    /\ Crash \/ Foreign
    /\ uprooted' = uprooted \cup {a \in Attempts : Identity(a)' # Identity(a)}
    /\ UNCHANGED <<agentSide, challenge>>

AttestationNext ==
    \/ \E a \in Attempts :
          \/ AgentMoves(a) \/ AgentCanceled(a)
          \/ DeliverPayload(a) \/ PayloadLost(a)
          \/ ChallengeLeaves(a) \/ DeliverChallenge(a)
          \/ DeliverResponse(a) \/ ResponseLost(a)
          \/ HandlerMoves(a)
    \/ Elsewhere

AttestationSpec == AttestationInit /\ [][AttestationNext]_allVars
-----------------------------------------------------------------------------
(* Properties.                                                             *)

(* What the server assumes of a peer, an agent does: its payload is one of *)
(* the messages the handlers are checked against, and its response is a    *)
(* nonce its own VM could read.  So all that holds of ServerAttest holds   *)
(* of the composition.                                                     *)
AgentsFitServer == Init /\ [][Next]_vars

(* An agent is denied only if its VM was migrated, renamed, moved or       *)
(* deleted meanwhile: otherwise what its guest reads and what the server   *)
(* reads agree in whatever order they read, and an attempt ends in success *)
(* or in a failure of the transport, a timeout or a cancellation.  It is   *)
(* never found malformed.                                                  *)
HonestNeverDenied ==
    \A a \in Attempts :
        /\ result[a] # "invalid"
        /\ result[a] = "denied" => a \in uprooted

(* A grant implies that the agent finished and sent the attempt's nonce,   *)
(* and that the identity granted is the one of the VM it runs in, even if  *)
(* VMs are renamed, replaced or migrated around it.                        *)
GrantedToHome ==
    \A a \in Attempts : attrs[a] # Absent =>
        /\ attrs[a].agentID = Home[a]
        /\ outcome[a] = "ok"
        /\ answered[a] = nonce[a]

(* A deployment in which the agents can be attested: no project is listed  *)
(* twice, every record can be mapped, UUIDs are unique, each agent's VM is *)
(* in an allowed project that its hint does not contradict, and the        *)
(* attributes of any VM fit their limits.                                  *)
Deployable ==
    /\ \A i, j \in DOMAIN AllowList : AllowList[i] = AllowList[j] => i = j
    /\ Locations \cap {"", "none"} = {}
    /\ \A i \in Snapshot : ValidateInstance(i) => Attributable(i)
    /\ \A pop \in InitialInstances, s \in Slots : pop[s] # Absent =>
          /\ Mappable(pop[s])
          /\ \A t \in Slots : pop[t] # Absent /\ t # s =>
                NewInstanceUUID(pop[t].uuid) # NewInstanceUUID(pop[s].uuid)
          /\ \A a \in Attempts : NewInstanceUUID(pop[s].uuid) = Home[a] =>
                /\ \E i \in DOMAIN AllowList : AllowList[i] = s[1]
                /\ ProjectHint \in {"", s[1]}
=============================================================================
