------------------------- MODULE AttestationProofs --------------------------
(***************************************************************************)
(* For every instance of the constants: agents and handlers together       *)
(* behave as the handlers do with the peers of ServerAttest, a grant is to *)
(* the VM of the agent that answered, and an agent whose VM keeps its      *)
(* identity is not denied.                                                 *)
(*                                                                         *)
(* The argument.  An agent's claims are what its VM's records said, so     *)
(* its payload is one the handlers are open to; it answers with what it    *)
(* read under the challenged key, which its VM's configuration has held.   *)
(* So each step is a step of ServerAttest or leaves the handlers alone,    *)
(* and every theorem about ServerAttest holds of the composition.  While   *)
(* the VM keeps its identity, the guest and the server read the same.      *)
(***************************************************************************)
EXTENDS Attestation, ServerContractProofs

(* The slot an agent's guest API answers for.                              *)
HomeOf(a) == CHOOSE s \in HomeSlots(a) : TRUE

View(a) == GuestView(HomeOf(a))

(* The attempts whose claims are complete.                                 *)
Claimed == {"payload", "challenge", "poll", "wait"}

PeerTypes ==
    /\ stage \in [Attempts -> Agent!Stages]
    /\ gathered \in [Attempts -> Agent!Gathered]
    /\ DOMAIN offered = Attempts
    /\ asked \in [Attempts -> Keys \cup {Absent}]
    /\ answered \in [Attempts -> Nonces \cup {Absent}]
    /\ outcome \in [Attempts -> Agent!Outcomes]
    /\ challenge \in [Attempts -> Keys \cup {Absent}]

(* What an agent claims, and what it has sent, is about its own VM.        *)
ClaimInv ==
    \A a \in Attempts :
        /\ gathered[a].project = ProjectHint
        /\ stage[a] \in Claimed \/ offered[a] # Absent =>
              ValidateClaims(gathered[a]) /\ gathered[a].uuid = Home[a]
        /\ offered[a] # Absent =>
              /\ offered[a] = Agent!EncodePayload(gathered[a])
              /\ stage[a] \notin {"info", "meta", "dmi", "payload"}

(* The challenge and the key the agent polls are the attempt's own.        *)
AskInv ==
    \A a \in Attempts :
        /\ challenge[a] \in {key[a], Absent}
        /\ asked[a] \in {key[a], Absent}
        /\ stage[a] \in {"poll", "wait"} => asked[a] # Absent

(* An answer is the attempt's nonce, read in the agent's VM, and the last  *)
(* thing the agent does.                                                   *)
AnswerInv ==
    \A a \in Attempts : answered[a] # Absent =>
        /\ stage[a] = "done" /\ outcome[a] = "ok"
        /\ <<Home[a], answered[a]>> \in exposed
        /\ key[a] # Absent /\ answered[a] = nonce[a]

(* Only the agent answers.                                                 *)
ResponderInv ==
    \A a \in Attempts : responder[a] # Absent =>
        responder[a] = Home[a] /\ answered[a] # Absent

PeerInv == PeerTypes /\ ClaimInv /\ AskInv /\ AnswerInv /\ ResponderInv

-----------------------------------------------------------------------------
(* The guest's view of its VM.                                             *)

(* What the guest API says of a running VM is what Incus stores for it: an *)
(* instance with the home's UUID, whose challenge keys have been exposed.  *)
LEMMA ViewOfHome ==
    ASSUME SafeTypes, NEW a \in Attempts, Running(a)
    PROVE  /\ HomeOf(a) \in HomeSlots(a)
           /\ HomeOf(a) \in Slots /\ Present(HomeOf(a))
           /\ instances[HomeOf(a)] \in Record
           /\ View(a).name \in Names
           /\ NewInstanceUUID(View(a).uuid) = Home[a]
           /\ View(a).type \in Types
           /\ View(a).location \in Locations \cup {StandaloneLocation, ""}
           /\ View(a).cloudInitID \in CloudInitIDs \cup {""}
           /\ \A k \in Keys : View(a).config[k] = instances[HomeOf(a)].config[k]
<1>1. HomeOf(a) \in HomeSlots(a)
  BY DEF Running, HomeOf
<1>2. HomeOf(a) \in Slots /\ Present(HomeOf(a)) /\ NewInstanceUUID(instances[HomeOf(a)].uuid) = Home[a]
  BY <1>1 DEF HomeSlots
<1>3. PICK rec \in Record : rec = instances[HomeOf(a)]
  BY <1>2 DEF SafeTypes, TypeOK, IncusTypeOK, Present
<1>4. /\ View(a).name = HomeOf(a)[2]
      /\ View(a).uuid = rec.uuid
      /\ View(a).type = rec.type
      /\ View(a).location = (IF rec.location = "none" THEN StandaloneLocation ELSE rec.location)
      /\ View(a).cloudInitID = rec.cloudInitID
      /\ View(a).config = ExpandedConfig(rec)
  BY <1>3 DEF View, GuestView
<1>5. HomeOf(a)[2] \in Names
  BY <1>2 DEF Slots
<1>6. /\ rec.type \in Types /\ rec.location \in Locations \cup {"", "none"}
      /\ rec.cloudInitID \in CloudInitIDs \cup {""}
  BY DEF Record
<1>7. \A k \in Keys : ExpandedConfig(rec)[k] = rec.config[k]
  BY KeyAssumption DEF ExpandedConfig, ConfigKeys
<1> QED
  BY <1>1, <1>2, <1>3, <1>4, <1>5, <1>6, <1>7

(* The agent's reads, in terms of that view.                               *)
LEMMA AgentReads ==
    ASSUME PeerTypes, NEW a \in Attempts, Running(a)
    PROVE  /\ Agent!ReadInfo(a) =>
                 gathered' = [gathered EXCEPT ![a] =
                    [gathered[a] EXCEPT !.type = View(a).type, !.location = View(a).location]]
           /\ Agent!ReadMetadata(a) =>
                 gathered' = [gathered EXCEPT ![a] =
                    [gathered[a] EXCEPT !.name = View(a).name, !.cloudInitID = View(a).cloudInitID]]
           /\ Agent!ReadProductUUID(a) =>
                 gathered' = [gathered EXCEPT ![a] =
                                [gathered[a] EXCEPT !.uuid = NewInstanceUUID(View(a).uuid)]]
           /\ Agent!ConfigFound(a) => 
                 /\ stage[a] = "poll"
                 /\ View(a).config[asked[a]] # Absent
                 /\ \/ UNCHANGED answered
                    \/ /\ View(a).config[asked[a]] \in Nonces
                       /\ answered' = [answered EXCEPT ![a] = View(a).config[asked[a]]]
                       /\ stage' = [stage EXCEPT ![a] = "done"]
                       /\ outcome' = [outcome EXCEPT ![a] = "ok"]
<1>1. guest[a] = View(a)
  BY DEF guest, View, HomeOf
<1>2. \A r : Agent!NewInstanceUUID(r) = NewInstanceUUID(r)
  BY DEF Agent!NewInstanceUUID, NewInstanceUUID
<1>3. DOMAIN gathered = Attempts
  BY DEF PeerTypes
<1>4. /\ Agent!ReadInfo(a) =>
            gathered' = [gathered EXCEPT ![a] =
               [gathered[a] EXCEPT !.type = View(a).type, !.location = View(a).location]]
      /\ Agent!ReadMetadata(a) =>
            gathered' = [gathered EXCEPT ![a] =
               [gathered[a] EXCEPT !.name = View(a).name, !.cloudInitID = View(a).cloudInitID]]
  BY <1>1, <1>3 DEF Agent!ReadInfo, Agent!ReadMetadata
<1> QED
  BY <1>1, <1>2, <1>4 DEF Agent!ReadProductUUID, Agent!ConfigFound,
     Agent!ReadConfig, Agent!Visible, Agent!Return, Agent!Proceed

-----------------------------------------------------------------------------
(* The agent's steps.                                                      *)

(* A step of the agent of attempt a alone.                                 *)
LEMMA OneAgent ==
    ASSUME PeerInv, PeerTypes', UNCHANGED <<vars, challenge>>, NEW a \in Attempts,
           \A b \in Attempts : b # a =>
              /\ stage'[b] = stage[b] /\ gathered'[b] = gathered[b] /\ offered'[b] = offered[b]
              /\ asked'[b] = asked[b] /\ answered'[b] = answered[b] /\ outcome'[b] = outcome[b],
           gathered'[a].project = ProjectHint,
           stage'[a] \in Claimed \/ offered'[a] # Absent =>
              ValidateClaims(gathered'[a]) /\ gathered'[a].uuid = Home[a],
           offered'[a] # Absent =>
              /\ offered'[a] = Agent!EncodePayload(gathered'[a])
              /\ stage'[a] \notin {"info", "meta", "dmi", "payload"},
           asked'[a] \in {key[a], Absent},
           stage'[a] \in {"poll", "wait"} => asked'[a] # Absent,
           answered[a] # Absent => answered'[a] = answered[a],
           answered'[a] # Absent =>
              /\ stage'[a] = "done" /\ outcome'[a] = "ok"
              /\ <<Home[a], answered'[a]>> \in exposed
              /\ key[a] # Absent /\ answered'[a] = nonce[a]
    PROVE  PeerInv'
<1>1. UNCHANGED <<key, nonce, exposed, responder, challenge>>
  BY DEF vars, localVars, incusVars
<1>2. ClaimInv'
  BY DEF PeerInv, ClaimInv
<1>3. AskInv'
  BY <1>1 DEF PeerInv, AskInv
<1>4. AnswerInv' /\ ResponderInv'
  BY <1>1 DEF PeerInv, AnswerInv, ResponderInv
<1> QED
  BY <1>2, <1>3, <1>4 DEF PeerInv

(* Reading claims, up to the parsed UUID.                                  *)
LEMMA ReadingKeeps ==
    ASSUME SafeTypes, PeerInv, NEW a \in Attempts, Running(a), UNCHANGED <<vars, challenge>>,
           Agent!ReadInfo(a) \/ Agent!ReadMetadata(a) \/ Agent!ReadProductUUID(a)
    PROVE  PeerInv'
<1>1. /\ stage[a] \in {"info", "meta", "dmi"}
      /\ UNCHANGED <<offered, asked, answered>>
      /\ \/ stage' = [stage EXCEPT ![a] = "meta"] /\ outcome' = outcome
         \/ stage' = [stage EXCEPT ![a] = "dmi"] /\ outcome' = outcome
         \/ stage' = [stage EXCEPT ![a] = "payload"] /\ outcome' = outcome
         \/ /\ stage' = [stage EXCEPT ![a] = "done"]
            /\ \E class \in Agent!Outcomes : outcome' = [outcome EXCEPT ![a] = class]
  BY DEF Agent!ReadInfo, Agent!ReadMetadata, Agent!ReadProductUUID, Agent!Proceed, Agent!Return,
     Agent!sentVars, Agent!Outcomes
<1>2. PICK g \in Agent!Gathered : g = gathered[a]
  BY DEF PeerInv, PeerTypes
<1>3. \A c : Agent!ValidateClaims(c) = ValidateClaims(c)
  BY DEF Agent!ValidateClaims, ValidateClaims, Agent!RequireVirtualMachine, RequireVirtualMachine,
     Agent!InstanceTypeVirtualMachine, InstanceTypeVirtualMachine, Agent!NewInstanceUUID,
     NewInstanceUUID
<1>w. /\ View(a).type \in Types /\ View(a).location \in Locations \cup {StandaloneLocation, ""}
      /\ View(a).name \in Names /\ View(a).cloudInitID \in CloudInitIDs \cup {""}
      /\ NewInstanceUUID(View(a).uuid) = Home[a] /\ Home[a] \in UUIDs
  BY ViewOfHome, HomeAssumption
<1>v. PICK t \in Types, l \in Locations \cup {StandaloneLocation, ""},
           n \in Names, c \in CloudInitIDs \cup {""}, u \in UUIDs :
        /\ t = View(a).type /\ l = View(a).location
        /\ n = View(a).name /\ c = View(a).cloudInitID
        /\ u = Home[a] /\ u = NewInstanceUUID(View(a).uuid)
  BY <1>w, Zenon
<1>k. /\ \E h \in Agent!Gathered : /\ h = [g EXCEPT !.type = t, !.location = l]
                                   /\ h.project = g.project
      /\ \E h \in Agent!Gathered : /\ h = [g EXCEPT !.name = n, !.cloudInitID = c]
                                   /\ h.project = g.project
      /\ \E h \in Agent!Gathered : /\ h = [g EXCEPT !.uuid = u]
                                   /\ h.project = g.project /\ h.uuid = u
  <2>1. Agent!UUIDs = UUIDs /\ Agent!Types = Types
    BY DEF Agent!UUIDs, UUIDs, Agent!Types, Types, Agent!InstanceTypeVirtualMachine,
       InstanceTypeVirtualMachine
  <2>2. /\ [g EXCEPT !.type = t, !.location = l] \in Agent!Gathered
        /\ [g EXCEPT !.type = t, !.location = l].project = g.project
    BY <2>1 DEF Agent!Gathered
  <2>3. /\ [g EXCEPT !.name = n, !.cloudInitID = c] \in Agent!Gathered
        /\ [g EXCEPT !.name = n, !.cloudInitID = c].project = g.project
    BY <2>1 DEF Agent!Gathered
  <2>4. /\ [g EXCEPT !.uuid = u] \in Agent!Gathered
        /\ [g EXCEPT !.uuid = u].project = g.project /\ [g EXCEPT !.uuid = u].uuid = u
    BY <2>1 DEF Agent!Gathered
  <2> QED
    BY <2>2, <2>3, <2>4
<1>4. PICK h \in Agent!Gathered :
        /\ gathered' = [gathered EXCEPT ![a] = h]
        /\ h.project = g.project
        /\ stage'[a] = "payload" => ValidateClaims(h) /\ h.uuid = Home[a]
  <2>1. CASE Agent!ReadInfo(a)
    <3>1. PICK h \in Agent!Gathered :
             h = [g EXCEPT !.type = t, !.location = l] /\ h.project = g.project
      BY <1>k
    <3>2. gathered' = [gathered EXCEPT ![a] = h]
      BY <1>2, <1>v, <2>1, <3>1, AgentReads, Zenon DEF PeerInv
    <3>3. stage'[a] = "meta"
      BY <2>1 DEF Agent!ReadInfo, Agent!Proceed, PeerInv, PeerTypes
    <3> QED
      BY <3>1, <3>2, <3>3
  <2>2. CASE Agent!ReadMetadata(a)
    <3>1. PICK h \in Agent!Gathered :
             h = [g EXCEPT !.name = n, !.cloudInitID = c] /\ h.project = g.project
      BY <1>k
    <3>2. gathered' = [gathered EXCEPT ![a] = h]
      BY <1>2, <1>v, <2>2, <3>1, AgentReads, Zenon DEF PeerInv
    <3>3. stage'[a] = "dmi"
      BY <2>2 DEF Agent!ReadMetadata, Agent!Proceed, PeerInv, PeerTypes
    <3> QED
      BY <3>1, <3>2, <3>3
  <2>3. CASE Agent!ReadProductUUID(a)
    <3>1. PICK h \in Agent!Gathered :
             h = [g EXCEPT !.uuid = u] /\ h.project = g.project /\ h.uuid = u
      BY <1>k
    <3>2. gathered' = [gathered EXCEPT ![a] = h]
      <4>1. gathered' = [gathered EXCEPT ![a] =
               [gathered[a] EXCEPT !.uuid = NewInstanceUUID(View(a).uuid)]]
        BY <2>3, AgentReads, Zenon DEF PeerInv
      <4> QED
        BY <1>2, <1>v, <3>1, <4>1, Zenon
    <3>3. stage'[a] = "payload" => Agent!ValidateClaims(gathered'[a])
      BY <2>3 DEF Agent!ReadProductUUID, Agent!Proceed, Agent!Return, PeerInv, PeerTypes
    <3>4. gathered'[a] = h
      BY <3>2 DEF PeerInv, PeerTypes
    <3> QED
      BY <1>3, <1>v, <3>1, <3>2, <3>3, <3>4
  <2> QED
    BY <2>1, <2>2, <2>3
<1>5. PeerTypes'
  <2>1. stage' \in [Attempts -> Agent!Stages]
    BY <1>1 DEF PeerInv, PeerTypes, Agent!Stages
  <2>2. outcome' \in [Attempts -> Agent!Outcomes]
    BY <1>1 DEF PeerInv, PeerTypes
  <2>3. gathered' \in [Attempts -> Agent!Gathered]
    BY <1>4 DEF PeerInv, PeerTypes
  <2> QED
    BY <1>1, <2>1, <2>2, <2>3 DEF PeerInv, PeerTypes
<1>6. /\ offered'[a] = Absent /\ answered'[a] = Absent
      /\ stage'[a] \in {"meta", "dmi", "payload", "done"}
  BY <1>1 DEF PeerInv, PeerTypes, ClaimInv, AnswerInv
<1>7. gathered'[a] = h /\ gathered'[a].project = ProjectHint
  BY <1>2, <1>4 DEF PeerInv, PeerTypes, ClaimInv
<1>8. asked'[a] \in {key[a], Absent}
  BY <1>1 DEF PeerInv, AskInv
<1>9. \A b \in Attempts : b # a =>
         /\ stage'[b] = stage[b] /\ gathered'[b] = gathered[b] /\ outcome'[b] = outcome[b]
  BY <1>1, <1>4 DEF PeerInv, PeerTypes
<1> QED
  BY <1>1, <1>4, <1>5, <1>6, <1>7, <1>8, <1>9, OneAgent DEF Claimed

(* Going on polling, returning, and steps of time or of the stream.        *)
LEMMA QuietKeeps ==
    ASSUME PeerInv, NEW a \in Attempts,
           UNCHANGED <<vars, challenge, gathered, offered, asked, answered>>,
           \/ UNCHANGED <<stage, outcome>>
           \/ /\ stage[a] # "done"
              /\ \E s \in Agent!Stages : /\ stage' = [stage EXCEPT ![a] = s]
                                         /\ s = "done" \/ {s, stage[a]} \subseteq {"poll", "wait"}
              /\ \/ outcome' = outcome
                 \/ \E class \in Agent!Outcomes : outcome' = [outcome EXCEPT ![a] = class]
    PROVE  PeerInv'
<1>1. PeerTypes'
  BY DEF PeerInv, PeerTypes
<1>2. answered[a] # Absent => stage'[a] = "done" /\ UNCHANGED <<stage, outcome>>
  BY DEF PeerInv, AnswerInv
<1>3. \A b \in Attempts : b # a => stage'[b] = stage[b] /\ outcome'[b] = outcome[b]
  BY DEF PeerInv, PeerTypes
<1>4. stage'[a] \in {stage[a], "done"} \/ {stage'[a], stage[a]} \subseteq {"poll", "wait"}
  BY DEF PeerInv, PeerTypes
<1>5. stage'[a] \in Claimed \/ offered'[a] # Absent =>
         ValidateClaims(gathered'[a]) /\ gathered'[a].uuid = Home[a]
  BY <1>4 DEF PeerInv, ClaimInv, Claimed
<1>6. /\ gathered'[a].project = ProjectHint
      /\ offered'[a] # Absent =>
            /\ offered'[a] = Agent!EncodePayload(gathered'[a])
            /\ stage'[a] \notin {"info", "meta", "dmi", "payload"}
  BY <1>4 DEF PeerInv, ClaimInv
<1>7. /\ asked'[a] \in {key[a], Absent}
      /\ stage'[a] \in {"poll", "wait"} => asked'[a] # Absent
  BY <1>4 DEF PeerInv, AskInv
<1>8. answered'[a] # Absent =>
         /\ stage'[a] = "done" /\ outcome'[a] = "ok"
         /\ <<Home[a], answered'[a]>> \in exposed
         /\ key[a] # Absent /\ answered'[a] = nonce[a]
  BY <1>2 DEF PeerInv, AnswerInv
<1> QED
  BY <1>1, <1>3, <1>5, <1>6, <1>7, <1>8, OneAgent

(* Sending the payload.                                                    *)
LEMMA SendingKeeps ==
    ASSUME PeerInv, NEW a \in Attempts, UNCHANGED <<vars, challenge>>, Agent!SendPayload(a)
    PROVE  PeerInv'
<1>1. /\ stage[a] = "payload"
      /\ UNCHANGED <<gathered, asked, answered>>
      /\ \/ /\ offered' = [offered EXCEPT ![a] = Agent!EncodePayload(gathered[a])]
            /\ stage' = [stage EXCEPT ![a] = "challenge"]
            /\ outcome' = outcome
         \/ /\ UNCHANGED offered
            /\ stage' = [stage EXCEPT ![a] = "done"]
            /\ outcome' = [outcome EXCEPT ![a] = "other"]
  BY DEF Agent!SendPayload, Agent!Proceed, Agent!Return
<1>2. CASE UNCHANGED offered /\ stage' = [stage EXCEPT ![a] = "done"]
  BY <1>1, <1>2, QuietKeeps DEF Agent!Stages, Agent!Outcomes
<1>3. CASE /\ offered' = [offered EXCEPT ![a] = Agent!EncodePayload(gathered[a])]
           /\ stage' = [stage EXCEPT ![a] = "challenge"]
           /\ outcome' = outcome
  <2>1. PeerTypes'
    BY <1>1, <1>3 DEF PeerInv, PeerTypes, Agent!Stages
  <2>2. /\ offered'[a] = Agent!EncodePayload(gathered'[a])
        /\ stage'[a] = "challenge" /\ answered'[a] = Absent
        /\ ValidateClaims(gathered'[a]) /\ gathered'[a].uuid = Home[a]
        /\ gathered'[a].project = ProjectHint
        /\ asked'[a] \in {key[a], Absent}
    BY <1>1, <1>3 DEF PeerInv, PeerTypes, ClaimInv, AskInv, AnswerInv, Claimed
  <2>3. \A b \in Attempts : b # a => stage'[b] = stage[b] /\ offered'[b] = offered[b]
    BY <1>3 DEF PeerInv, PeerTypes
  <2> QED
    BY <1>1, <1>3, <2>1, <2>2, <2>3, OneAgent
<1> QED
  BY <1>1, <1>2, <1>3

(* Answering: what the agent reads under its attempt's key is its          *)
(* attempt's nonce, which its own VM's configuration holds.                *)
LEMMA FindingKeeps ==
    ASSUME SafeTypes, ConfigInv, DistinctInv, RevealedInv, PeerInv,
           NEW a \in Attempts, Running(a), UNCHANGED <<vars, challenge>>, Agent!ConfigFound(a)
    PROVE  PeerInv'
<1>1. /\ stage[a] = "poll" /\ UNCHANGED <<gathered, offered, asked>>
      /\ \E class \in Agent!Outcomes : outcome' = [outcome EXCEPT ![a] = class]
      /\ stage' = [stage EXCEPT ![a] = "done"]
  BY DEF Agent!ConfigFound, Agent!ReadConfig, Agent!Return, Agent!Proceed, Agent!Outcomes
<1>2. CASE UNCHANGED answered
  BY <1>1, <1>2, QuietKeeps DEF Agent!Stages
<1>3. CASE answered' # answered
  <2>1. PICK value \in Nonces :
           /\ value = View(a).config[asked[a]]
           /\ answered' = [answered EXCEPT ![a] = value]
           /\ outcome' = [outcome EXCEPT ![a] = "ok"]
    BY <1>3, AgentReads, Zenon DEF PeerInv
  <2>2. asked[a] = key[a] /\ key[a] # Absent /\ key[a] \in Keys
    BY <1>1 DEF PeerInv, AskInv, PeerTypes
  <2>3. PICK slot \in Slots : slot = HomeOf(a)
    BY ViewOfHome
  <2>4. PICK rec \in Record : rec = instances[slot]
    BY <2>3, ViewOfHome
  <2>5. /\ Present(slot) /\ NewInstanceUUID(rec.uuid) = Home[a] /\ rec.config[key[a]] = value
    <3>1. Present(slot) /\ View(a).config[key[a]] = instances[slot].config[key[a]]
      BY <2>2, <2>3, ViewOfHome
    <3>2. slot \in HomeSlots(a)
      BY <2>3, ViewOfHome
    <3> QED
      BY <2>1, <2>2, <2>4, <3>1, <3>2 DEF HomeSlots
  <2>6. value # Absent
    BY KeyAssumption
  <2>7. key[a] \in NonceKeysOf(rec)
    BY <2>2, <2>5, <2>6 DEF NonceKeysOf
  <2>8. <<Home[a], value>> \in exposed
    BY <2>4, <2>5, <2>7 DEF RevealedInv, Reveals
  <2>9. value = nonce[a]
    <3>1. PICK b \in Attempts : key[b] = key[a] /\ rec.config[key[a]] = nonce[b]
      BY <2>4, <2>5, <2>7 DEF ConfigInv, Owned
    <3>2. b = a
      BY <2>2, <3>1 DEF DistinctInv
    <3> QED
      BY <2>5, <3>1, <3>2
  <2>10. PeerTypes'
    BY <1>1, <2>1 DEF PeerInv, PeerTypes, Agent!Stages, Agent!Outcomes
  <2>11. /\ stage'[a] = "done" /\ outcome'[a] = "ok" /\ answered'[a] = value
         /\ answered[a] = Absent
    BY <1>1, <2>1 DEF PeerInv, PeerTypes, AnswerInv
  <2>12. \A b \in Attempts : b # a =>
            stage'[b] = stage[b] /\ outcome'[b] = outcome[b] /\ answered'[b] = answered[b]
    BY <1>1, <2>1 DEF PeerInv, PeerTypes
  <2>13. /\ gathered'[a].project = ProjectHint
         /\ ValidateClaims(gathered'[a]) /\ gathered'[a].uuid = Home[a]
         /\ offered'[a] # Absent => offered'[a] = Agent!EncodePayload(gathered'[a])
    BY <1>1 DEF PeerInv, ClaimInv, Claimed
  <2>14. /\ asked'[a] \in {key[a], Absent}
         /\ \A b \in Attempts : b # a =>
               gathered'[b] = gathered[b] /\ offered'[b] = offered[b] /\ asked'[b] = asked[b]
    BY <1>1, <2>2
  <2> QED
    BY <1>1, <2>2, <2>8, <2>9, <2>10, <2>11, <2>12, <2>13, <2>14, OneAgent DEF Claimed
<1> QED
  BY <1>2, <1>3

(* The challenge that reaches the agent names its attempt's key.           *)
LEMMA ChallengeKeeps ==
    ASSUME PeerInv, NEW a \in Attempts, UNCHANGED <<vars, challenge>>,
           challenge[a] # Absent, Agent!ReceiveChallenge(a, challenge[a])
    PROVE  PeerInv'
<1>1. challenge[a] = key[a] /\ key[a] \in Keys
  BY DEF PeerInv, AskInv, PeerTypes
<1>2. /\ stage[a] = "challenge"
      /\ asked' = [asked EXCEPT ![a] = key[a]]
      /\ stage' = [stage EXCEPT ![a] = "poll"]
      /\ UNCHANGED <<gathered, offered, answered, outcome>>
  BY <1>1 DEF Agent!ReceiveChallenge, Agent!NewConfigKey, Agent!Proceed
<1>3. PeerTypes'
  BY <1>1, <1>2 DEF PeerInv, PeerTypes, Agent!Stages
<1>4. /\ asked'[a] = key[a] /\ key[a] # Absent
      /\ stage'[a] = "poll" /\ answered'[a] = Absent
  BY <1>1, <1>2, KeyAssumption DEF PeerInv, PeerTypes, AnswerInv
<1>5. \A b \in Attempts : b # a => stage'[b] = stage[b] /\ asked'[b] = asked[b]
  BY <1>2 DEF PeerInv, PeerTypes
<1>6. /\ gathered'[a].project = ProjectHint
      /\ ValidateClaims(gathered'[a]) /\ gathered'[a].uuid = Home[a]
      /\ offered'[a] # Absent => offered'[a] = Agent!EncodePayload(gathered'[a])
  BY <1>2 DEF PeerInv, ClaimInv, Claimed
<1> QED
  BY <1>2, <1>3, <1>4, <1>5, <1>6, OneAgent

(* Every step of an agent.                                                 *)
LEMMA AgentKeeps ==
    ASSUME SafeTypes, ConfigInv, DistinctInv, RevealedInv, PeerInv, NEW a \in Attempts,
           AgentMoves(a) \/ AgentCanceled(a) \/ DeliverChallenge(a)
    PROVE  PeerInv'
<1>0. UNCHANGED <<vars, challenge>>
  BY DEF AgentMoves, AgentCanceled, DeliverChallenge
<1>1. CASE AgentCanceled(a)
  BY <1>0, <1>1, QuietKeeps DEF AgentCanceled, Agent!CancelStream, Agent!sentVars
<1>2. CASE DeliverChallenge(a)
  BY <1>0, <1>2, ChallengeKeeps DEF DeliverChallenge
<1>3. CASE AgentMoves(a)
  <2>0. Running(a) /\ Agent!AgentStep(a)
    BY <1>3 DEF AgentMoves
  <2>1. CASE Agent!ReadInfo(a) \/ Agent!ReadMetadata(a) \/ Agent!ReadProductUUID(a)
    BY <1>0, <2>0, <2>1, ReadingKeeps
  <2>2. CASE Agent!SendPayload(a)
    BY <1>0, <2>2, SendingKeeps
  <2>3. CASE Agent!ConfigFound(a)
    BY <1>0, <2>0, <2>3, FindingKeeps
  <2>4. CASE Agent!ClaimsFail(a) \/ Agent!ChallengeFails(a) \/ Agent!PollGivesUp(a)
    <3>1. /\ stage[a] # "done" /\ stage' = [stage EXCEPT ![a] = "done"]
          /\ \E class \in Agent!Outcomes : outcome' = [outcome EXCEPT ![a] = class]
          /\ UNCHANGED <<gathered, offered, asked, answered>>
      BY <2>4 DEF Agent!ClaimsFail, Agent!ChallengeFails, Agent!PollGivesUp, Agent!Return,
         Agent!Proceed, Agent!StreamEnds, Agent!PollEnds, Agent!Outcomes, Agent!sentVars
    <3> QED
      BY <1>0, <3>1, QuietKeeps DEF Agent!Stages
  <2>5. CASE Agent!ConfigNotFound(a) \/ \E err \in Agent!RequestErrors : Agent!ConfigReadFails(a, err)
    <3>1. /\ stage[a] = "poll"
          /\ stage' = [stage EXCEPT ![a] = "wait"] \/ stage' = [stage EXCEPT ![a] = "done"]
          /\ outcome' = outcome \/ outcome' = [outcome EXCEPT ![a] = "other"]
          /\ UNCHANGED <<gathered, offered, asked, answered>>
      BY <2>5 DEF Agent!ConfigNotFound, Agent!ConfigReadFails, Agent!ReadConfig, Agent!StartWait,
         Agent!Return, Agent!Proceed
    <3> QED
      BY <1>0, <3>1, QuietKeeps DEF Agent!Stages, Agent!Outcomes
  <2>6. CASE Agent!Tick(a) \/ Agent!SlowRead(a) \/ Agent!WaitEnds(a)
    <3>1. /\ UNCHANGED <<gathered, offered, asked, answered, outcome>>
          /\ \/ stage' = stage
             \/ stage[a] = "wait" /\ stage' = [stage EXCEPT ![a] = "poll"]
      BY <2>6 DEF Agent!Tick, Agent!SlowRead, Agent!WaitEnds, Agent!Proceed, Agent!sentVars
    <3> QED
      BY <1>0, <3>1, QuietKeeps DEF Agent!Stages
  <2> QED
    BY <2>0, <2>1, <2>2, <2>3, <2>4, <2>5, <2>6 DEF Agent!AgentStep
<1> QED
  BY <1>1, <1>2, <1>3

-----------------------------------------------------------------------------
(* The handlers' steps.                                                    *)

(* A step that is none of an agent's.                                      *)
ServerMoves ==
    \/ \E a \in Attempts :
          \/ DeliverPayload(a) \/ PayloadLost(a) \/ ChallengeLeaves(a)
          \/ DeliverResponse(a) \/ ResponseLost(a) \/ HandlerMoves(a)
    \/ Elsewhere

(* What an agent offers is among the payloads the handlers are open to.    *)
LEMMA OfferFits ==
    ASSUME PeerInv, NEW a \in Attempts, offered[a] # Absent
    PROVE  offered[a] \in AgentPayloads(a) /\ offered[a] \in Payloads
<1>1. PICK g \in Agent!Gathered : g = gathered[a]
  BY DEF PeerInv, PeerTypes
<1>2. /\ offered[a] = Agent!EncodePayload(g)
      /\ ValidateClaims(g) /\ g.uuid = Home[a] /\ g.project = ProjectHint
  BY <1>1 DEF PeerInv, ClaimInv
<1>3. /\ g.name \in Names \ {""} /\ g.type = InstanceTypeVirtualMachine
      /\ g.location \in (Locations \cup {StandaloneLocation}) \ {""}
      /\ g.cloudInitID \in CloudInitIDs \ {""}
  BY <1>2 DEF Agent!Gathered, ValidateClaims, RequireVirtualMachine
<1>4. PICK p : p = (IF ProjectHint = "" THEN Absent ELSE ProjectHint)
  OBVIOUS
<1>5. offered[a] = [g EXCEPT !.project = p]
  BY <1>2, <1>4 DEF Agent!EncodePayload
<1>6. [g EXCEPT !.project = p] \in AgentPayloads(a)
  BY <1>2, <1>3, <1>4 DEF Agent!Gathered, AgentPayloads
<1> QED
  BY <1>5, <1>6, PeersAssumption

(* Each step of the composition is a step of the handlers, of the host     *)
(* client or of Incus with the peers of ServerAttest, or none of theirs.   *)
LEMMA StepFits ==
    ASSUME PeerInv, [AttestationNext]_allVars
    PROVE  [Next]_vars
<1>1. ASSUME NEW a \in Attempts, DeliverPayload(a)
      PROVE  Next
  BY <1>1, OfferFits DEF DeliverPayload, Next
<1>2. ASSUME NEW a \in Attempts, PayloadLost(a)
      PROVE  Next
  BY <1>2 DEF PayloadLost, Next
<1>3. ASSUME NEW a \in Attempts, ChallengeLeaves(a) \/ ResponseLost(a)
      PROVE  Next
  BY <1>3 DEF ChallengeLeaves, ResponseLost, Handler, Next
<1>4. ASSUME NEW a \in Attempts, DeliverResponse(a)
      PROVE  Next
  <2>1. <<Home[a], answered[a]>> \in exposed
    BY <1>4 DEF PeerInv, AnswerInv, DeliverResponse
  <2>2. answered[a] \in Answers(Home[a]) /\ Home[a] \in UUIDs
    <3>1. PICK e \in exposed : e[1] = Home[a] /\ e[2] = answered[a]
      BY <2>1
    <3> QED
      BY <3>1, HomeAssumption DEF Answers
  <2>3. Handler(a)
    BY <1>4, <2>2 DEF DeliverResponse, Handler
  <2> QED
    BY <2>3 DEF Next
<1>5. ASSUME NEW a \in Attempts, HandlerMoves(a)
      PROVE  Next
  <2>1. Handler(a) \/ SetNonceStep(a) \/ UnsetNonceStep(a) \/ Cancel(a)
    BY <1>5 DEF HandlerMoves, Handler
  <2> QED
    BY <2>1 DEF Next
<1>6. ASSUME Elsewhere
      PROVE  Next
  BY <1>6 DEF Elsewhere, Next
<1>7. ASSUME NEW a \in Attempts, AgentMoves(a) \/ AgentCanceled(a) \/ DeliverChallenge(a)
      PROVE  UNCHANGED vars
  BY <1>7 DEF AgentMoves, AgentCanceled, DeliverChallenge
<1>8. ASSUME UNCHANGED allVars
      PROVE  UNCHANGED vars
  BY <1>8 DEF allVars
<1> QED
  BY <1>1, <1>2, <1>3, <1>4, <1>5, <1>6, <1>7, <1>8 DEF AttestationNext

(* Only a response makes a responder, and it is the agent's.               *)
LEMMA ServerResponder ==
    ASSUME SafeTypes, PeerInv, ServerMoves, NEW b \in Attempts
    PROVE  responder'[b] = responder[b] \/ (responder'[b] = Home[b] /\ answered[b] # Absent)
<1>1. ASSUME NEW a \in Attempts, DeliverResponse(a)
      PROVE  responder'[b] = responder[b] \/ (responder'[b] = Home[b] /\ answered[b] # Absent)
  <2>1. /\ answered[a] # Absent
        /\ responder' = responder \/ responder' = [responder EXCEPT ![a] = Home[a]]
    BY <1>1 DEF DeliverResponse, ReceiveResponse
  <2> QED
    BY <2>1 DEF SafeTypes, TypeOK, ServerTypeOK
<1>2. ASSUME NEW a \in Attempts,
             \/ DeliverPayload(a) \/ PayloadLost(a) \/ ChallengeLeaves(a)
             \/ ResponseLost(a) \/ HandlerMoves(a)
      PROVE  responder' = responder
  BY <1>2 DEF DeliverPayload, PayloadReceived, PayloadLost, PayloadRejected, ChallengeLeaves,
     SendChallenge, ResponseLost, ResponseFails, HandlerMoves, Lookup, Resolve, LookupFails,
     ReadRandomPair, RandomFails, SetNonceStep, SetNonceGivesUp, SetNonceReturns, UnsetNonceStep,
     UnsetNonceGivesUp, CleanupReturns, SendAttributes, Cancel, localVars
<1>3. ASSUME Elsewhere
      PROVE  responder' = responder
  BY <1>3 DEF Elsewhere, Crash, Foreign, localVars
<1> QED
  BY <1>1, <1>2, <1>3 DEF ServerMoves

(* The handlers' steps keep what is known of the agents.                   *)
LEMMA ServerKeeps ==
    ASSUME SafeTypes, RequestInv, RevealedInv, PeerInv, ServerMoves, [Next]_vars
    PROVE  PeerInv'
<1>0. /\ Settled /\ exposed \subseteq exposed'
      /\ UNCHANGED <<stage, gathered, offered, asked, answered, outcome>>
  <2>1. UNCHANGED agentSide
    BY DEF ServerMoves, DeliverPayload, PayloadLost, ChallengeLeaves, DeliverResponse, ResponseLost,
       HandlerMoves, Elsewhere
  <2> QED
    BY <2>1, NextSettles, NextReveals DEF ShowsOwn, agentSide
<1>1. \A b \in Attempts : challenge'[b] = challenge[b] \/ (challenge'[b] = key[b] /\ key[b] # Absent)
  <2>1. ASSUME NEW a \in Attempts, ChallengeLeaves(a)
        PROVE  /\ challenge' = challenge \/ challenge' = [challenge EXCEPT ![a] = key[a]]
               /\ key[a] # Absent
    <3>1. pc[a] = "send" /\ (challenge' = challenge \/ challenge' = [challenge EXCEPT ![a] = key[a]])
      BY <2>1 DEF ChallengeLeaves, SendChallenge, At
    <3> QED
      BY <3>1 DEF SafeTypes, ControlInv, Holding
  <2>2. \/ UNCHANGED challenge
        \/ \E a \in Attempts : ChallengeLeaves(a)
    BY DEF ServerMoves, DeliverPayload, PayloadLost, DeliverResponse, ResponseLost, HandlerMoves,
       Elsewhere
  <2> QED
    BY <2>1, <2>2 DEF PeerInv, PeerTypes
<1>2. PeerTypes'
  <2>1. challenge' \in [Attempts -> Keys \cup {Absent}]
    <3>1. \/ UNCHANGED challenge
          \/ \E a \in Attempts : challenge' = [challenge EXCEPT ![a] = key[a]]
      BY DEF ServerMoves, DeliverPayload, PayloadLost, ChallengeLeaves, DeliverResponse,
         ResponseLost, HandlerMoves, Elsewhere
    <3> QED
      BY <3>1 DEF PeerInv, PeerTypes, SafeTypes, TypeOK, ServerTypeOK
  <2> QED
    BY <1>0, <2>1 DEF PeerInv, PeerTypes
<1>3. ClaimInv'
  BY <1>0 DEF PeerInv, ClaimInv
<1>4. AskInv'
  BY <1>0, <1>1 DEF PeerInv, AskInv, Settled
<1>5. AnswerInv'
  BY <1>0 DEF PeerInv, AnswerInv, Settled
<1>6. ResponderInv'
  BY <1>0, ServerResponder DEF PeerInv, ResponderInv
<1> QED
  BY <1>2, <1>3, <1>4, <1>5, <1>6 DEF PeerInv

-----------------------------------------------------------------------------
(* The theorems.                                                           *)

(* The inductive invariant of the composition.                             *)
TogetherInv == ContractInv /\ CleanupInv /\ PeerInv

LEMMA TogetherInit == AttestationInit => TogetherInv
<1> SUFFICES ASSUME AttestationInit PROVE TogetherInv
  OBVIOUS
<1>1. Init /\ Agent!AgentInit
  BY DEF AttestationInit
<1>2. ContractInv /\ CleanupInv
  <2>1. RevealedInv
    BY <1>1, PopulationAssumption DEF Init, IncusInit, RevealedInv, Present, Reveals
  <2>2. ProgressInv
    BY <1>1 DEF Init, ProgressInv
  <2> QED
    BY <1>1, <2>1, <2>2, InitSafeTypes, InitNonce DEF ContractInv
<1>3. PICK g : g = [Agent!NoClaims EXCEPT !.project = ProjectHint]
  OBVIOUS
<1>4. g \in Agent!Gathered /\ g.project = ProjectHint
  BY <1>3, HomeAssumption DEF Agent!NoClaims, Agent!Gathered
<1>5. gathered = [a \in Attempts |-> g]
  BY <1>1, <1>3 DEF Agent!AgentInit
<1>6. PeerTypes
  BY <1>1, <1>4, <1>5 DEF PeerTypes, Agent!AgentInit, AttestationInit, Agent!Stages, Agent!Outcomes
<1>7. ClaimInv
  BY <1>1, <1>4, <1>5 DEF ClaimInv, Agent!AgentInit, Claimed
<1>8. AskInv /\ AnswerInv /\ ResponderInv
  BY <1>1 DEF AskInv, AnswerInv, ResponderInv, Init, Agent!AgentInit, AttestationInit
<1> QED
  BY <1>2, <1>6, <1>7, <1>8 DEF TogetherInv, PeerInv

(* A step keeps it, and is a step of ServerAttest or none of its.          *)
LEMMA TogetherStep ==
    TogetherInv /\ [AttestationNext]_allVars => TogetherInv' /\ [Next]_vars
<1> SUFFICES ASSUME TogetherInv, [AttestationNext]_allVars
             PROVE  TogetherInv' /\ [Next]_vars
  OBVIOUS
<1>0. /\ SafeTypes /\ NonceInv /\ RevealedInv /\ ProgressInv /\ CleanupInv /\ PeerInv
      /\ DistinctInv /\ ConfigInv /\ RequestInv
  BY DEF TogetherInv, ContractInv, NonceInv
<1>1. [Next]_vars
  BY <1>0, StepFits
<1>2. SafeTypes' /\ NonceInv' /\ CleanupInv'
  <2>1. SafeTypes'
    BY <1>0, <1>1, NextSafeTypes
  <2>2. DistinctInv' /\ VerdictInv'
    BY <1>0, <1>1, NextDistinct, NextVerdict DEF NonceInv
  <2>3. ChannelInv'
    BY <1>0, <1>1, NextChannel DEF NonceInv, ChannelInv
  <2>4. CleanupInv'
    BY <1>0, <1>1, NextCleanup
  <2> QED
    BY <2>1, <2>2, <2>3, <2>4 DEF NonceInv, ChannelInv
<1>3. RevealedInv' /\ ProgressInv'
  BY <1>0, <1>1, NextReveals, NextProgress DEF ContractInv
<1>4. PeerInv'
  <2>1. ASSUME NEW a \in Attempts, AgentMoves(a) \/ AgentCanceled(a) \/ DeliverChallenge(a)
        PROVE  PeerInv'
    BY <1>0, <2>1, AgentKeeps
  <2>2. CASE ServerMoves
    BY <1>0, <1>1, <2>2, ServerKeeps
  <2>3. CASE UNCHANGED allVars
    <3>1. UNCHANGED <<key, nonce, exposed, responder, challenge, stage, gathered, offered, asked,
                      answered, outcome>>
      BY <2>3 DEF allVars, vars, localVars, incusVars, agentSide
    <3> QED
      BY <1>0, <3>1 DEF PeerInv, PeerTypes, ClaimInv, AskInv, AnswerInv, ResponderInv
  <2> QED
    BY <2>1, <2>2, <2>3 DEF AttestationNext, ServerMoves
<1> QED
  BY <1>1, <1>2, <1>3, <1>4 DEF TogetherInv, ContractInv

LEMMA TogetherInvariance == AttestationSpec => []TogetherInv
<1> QED
  BY TogetherInit, TogetherStep, PTL DEF AttestationSpec

(* The composition implements ServerAttest, for any number of agents and   *)
(* VMs: what an agent sends is what the handlers were checked against, so  *)
(* every property of ServerAttest is one of agents and server together.    *)
THEOREM AgentsFit == AttestationSpec => AgentsFitServer
<1>1. AttestationInit => Init
  BY DEF AttestationInit
<1>2. TogetherInv /\ [AttestationNext]_allVars => [Next]_vars
  BY TogetherStep
<1> QED
  BY <1>1, <1>2, TogetherInvariance, PTL DEF AttestationSpec, AgentsFitServer

(* A granted identity is that of the VM the agent runs in, and the agent   *)
(* has finished and sent the attempt's nonce: nobody else's answer, no     *)
(* late or lost message and no renamed or replaced VM leads to a grant.    *)
THEOREM GrantReachesHome == AttestationSpec => []GrantedToHome
<1>1. TogetherInv => GrantedToHome
  <2> SUFFICES ASSUME TogetherInv, NEW a \in Attempts, attrs[a] # Absent
               PROVE  /\ attrs[a].agentID = Home[a]
                      /\ outcome[a] = "ok" /\ answered[a] = nonce[a]
    BY DEF GrantedToHome
  <2>1. /\ target[a] # Absent /\ attrs[a].agentID = target[a].uuid
        /\ responder[a] = target[a].uuid
    BY DEF TogetherInv, ContractInv, NonceInv, VerdictInv
  <2>2. target[a].uuid \in UUIDs
    BY <2>1 DEF TogetherInv, ContractInv, SafeTypes, TypeOK, ServerTypeOK, Snapshot
  <2>3. responder[a] = Home[a] /\ answered[a] # Absent
    BY <2>1, <2>2, UUIDAssumption DEF TogetherInv, PeerInv, ResponderInv
  <2> QED
    BY <2>1, <2>3 DEF TogetherInv, PeerInv, AnswerInv
<1> QED
  BY <1>1, TogetherInvariance, PTL

-----------------------------------------------------------------------------
(* Honest agents.  While the VM of an agent keeps its identity, what the   *)
(* guest has read is what the server reads, and the search finds that VM   *)
(* and no other.                                                           *)

(* UUIDs stay unique and records mappable.                                 *)
PlacesInv ==
    \A s \in Slots : Present(s) =>
        /\ Mappable(instances[s])
        /\ \A t \in Slots : Present(t) /\ t # s =>
              NewInstanceUUID(instances[t].uuid) # NewInstanceUUID(instances[s].uuid)

Allowed(project) == \E i \in DOMAIN AllowList : AllowList[i] = project

(* The agent of a has read its type and location, or all of its claims.    *)
ReadInfoDone(a) == stage[a] \in {"meta", "dmi"} \cup Claimed \/ offered[a] # Absent
ReadMetaDone(a) == stage[a] \in {"dmi"} \cup Claimed \/ offered[a] # Absent

(* The instance at slot is the VM of a and says what a has claimed.        *)
SaysInfo(a, slot) ==
    /\ gathered[a].type = instances[slot].type
    /\ gathered[a].location = ResolvedLocation(instances[slot])

SaysMeta(a, slot) ==
    /\ gathered[a].name = slot[2]
    /\ gathered[a].cloudInitID = instances[slot].cloudInitID

RootedInv ==
    \A a \in Attempts \ uprooted :
        /\ ReadInfoDone(a) => HomeSlots(a) # {}
        /\ \A slot \in HomeSlots(a) :
              /\ Allowed(slot[1]) /\ ProjectHint \in {"", slot[1]}
              /\ ReadInfoDone(a) => SaysInfo(a, slot)
              /\ ReadMetaDone(a) => SaysMeta(a, slot)

(* The search has counted the agent's VM, or has yet to come to it.        *)
SearchInv ==
    /\ \A a \in Attempts : pc[a] = "idle" => search[a] = NoSearch
    /\ \A a \in Attempts : pc[a] = "lookup" =>
          /\ offered[a] # Absent /\ claims[a] = DecodePayload(offered[a])
          /\ \A i, j \in DOMAIN search[a].rest : search[a].rest[i] = search[a].rest[j] => i = j
          /\ \A slot \in HomeSlots(a) : a \notin uprooted =>
                search[a].matches =
                   IF \E i \in DOMAIN search[a].rest : search[a].rest[i] = slot[1] THEN 0 ELSE 1

(* What has been found can be vouched for.                                 *)
FoundInv ==
    \A a \in Attempts :
        /\ search[a].matched # Absent => ValidateInstance(search[a].matched)
        /\ target[a] # Absent => ValidateInstance(target[a])

HonestInv == PlacesInv /\ RootedInv /\ SearchInv /\ FoundInv /\ HonestNeverDenied

(* The handlers' own steps.                                                *)
LEMMA HandlersRewrite ==
    ASSUME SafeTypes, RequestInv, NEW a \in Attempts,
           \/ DeliverPayload(a) \/ PayloadLost(a) \/ ChallengeLeaves(a)
           \/ DeliverResponse(a) \/ ResponseLost(a) \/ HandlerMoves(a)
    PROVE  \/ instances' = instances
           \/ \E slot \in Slots, rec \in Record :
                 Rewrite(slot, rec) /\ rec.location = instances[slot].location
<1>1. \/ PayloadRejected(a) \/ \E p : PayloadReceived(a, p)
      \/ \E vm, got : ReceiveResponse(a, vm, got)
      \/ Handler(a) \/ SetNonceStep(a) \/ UnsetNonceStep(a) \/ Cancel(a)
  BY DEF DeliverPayload, PayloadLost, ChallengeLeaves, DeliverResponse, ResponseLost, HandlerMoves,
     Handler
<1> QED
  BY <1>1, HandlersWrite

(* A record that is rewritten stays mappable.                              *)
LEMMA RewriteMaps ==
    ASSUME Deployable, NEW old \in Record, NEW rec \in Record, Mappable(old), rec.uuid = old.uuid,
           rec.location \in {old.location} \cup Locations
    PROVE  Mappable(rec)
BY DEF Mappable, ResolvedLocation, Deployable

(* A step of the handlers or of others.                                    *)
LEMMA PlacesKept ==
    ASSUME Deployable, SafeTypes, RequestInv, PlacesInv, ServerMoves
    PROVE  PlacesInv'
<1>t. instances \in [Slots -> Record \cup {Absent}]
  BY DEF SafeTypes, TypeOK, IncusTypeOK
<1>1. CASE instances' = instances
  BY <1>1 DEF PlacesInv, Present
<1>2. ASSUME NEW slot \in Slots, NEW rec \in Record, Rewrite(slot, rec),
             rec.location \in {instances[slot].location} \cup Locations
      PROVE  PlacesInv'
  <2>1. PICK old \in Record : old = instances[slot]
    BY <1>t, <1>2 DEF Rewrite, Present
  <2>2. Mappable(rec) /\ rec.uuid = old.uuid
    BY <1>2, <2>1, RewriteMaps DEF PlacesInv, Rewrite
  <2>3. \A s \in Slots : /\ instances'[s] # Absent <=> instances[s] # Absent
                         /\ instances[s] # Absent =>
                               instances'[s].uuid = instances[s].uuid /\ Mappable(instances'[s])
    BY <1>t, <1>2, <2>1, <2>2, KeyAssumption DEF Rewrite, PlacesInv, Present
  <2> QED
    BY <2>3 DEF PlacesInv, Present
<1>3. ASSUME NEW slot \in Slots, instances' = [instances EXCEPT ![slot] = Absent]
      PROVE  PlacesInv'
  BY <1>t, <1>3 DEF PlacesInv, Present
<1>4. ASSUME NEW slot \in Slots, NEW rec \in InitialRecords,
             ~UUIDInUse(NewInstanceUUID(rec.uuid)), instances' = [instances EXCEPT ![slot] = rec]
      PROVE  PlacesInv'
  <2>1. Mappable(rec)
    <3>1. PICK pop \in InitialInstances, s \in Slots : rec = pop[s] /\ rec # Absent
      BY DEF InitialRecords
    <3> QED
      BY <3>1 DEF Deployable
  <2>2. \A s \in Slots : s # slot => instances'[s] = instances[s]
    BY <1>t, <1>4
  <2>3. instances'[slot] = rec
    BY <1>t, <1>4
  <2>4. \A s \in Slots : Present(s) => NewInstanceUUID(instances[s].uuid) # NewInstanceUUID(rec.uuid)
    BY <1>4 DEF UUIDInUse
  <2> QED
    BY <2>1, <2>2, <2>3, <2>4 DEF PlacesInv, Present
<1>5. ASSUME NEW from \in Slots, NEW to \in Slots, Present(from), ~Present(to),
             instances' = [instances EXCEPT ![from] = Absent, ![to] = instances[from]]
      PROVE  PlacesInv'
  <2>1. from # to
    BY <1>5
  <2>2. /\ instances'[from] = Absent /\ instances'[to] = instances[from]
        /\ \A s \in Slots \ {from, to} : instances'[s] = instances[s]
    BY <1>t, <1>5, <2>1
  <2> DEFINE origin(s) == IF s = to THEN from ELSE s
  <2>3. ASSUME NEW s \in Slots, instances'[s] # Absent
        PROVE  /\ s # from /\ origin(s) \in Slots /\ Present(origin(s))
               /\ instances'[s] = instances[origin(s)]
    BY <1>5, <2>2, <2>3 DEF Present
  <2>4. ASSUME NEW s \in Slots, instances'[s] # Absent
        PROVE  Mappable(instances'[s])
    BY <2>3, <2>4 DEF PlacesInv
  <2>5. ASSUME NEW s \in Slots, NEW t \in Slots, instances'[s] # Absent, instances'[t] # Absent, t # s
        PROVE  NewInstanceUUID(instances'[t].uuid) # NewInstanceUUID(instances'[s].uuid)
    <3>1. origin(s) # origin(t)
      BY <2>3, <2>5
    <3> HIDE DEF origin
    <3> QED
      BY <2>3, <2>5, <3>1 DEF PlacesInv
  <2> QED
    BY <2>4, <2>5 DEF PlacesInv, Present
<1>6. ASSUME NEW a \in Attempts,
             \/ DeliverPayload(a) \/ PayloadLost(a) \/ ChallengeLeaves(a)
             \/ DeliverResponse(a) \/ ResponseLost(a) \/ HandlerMoves(a)
      PROVE  PlacesInv'
  BY <1>1, <1>2, <1>6, HandlersRewrite
<1>7. CASE Elsewhere
  <2>1. CASE Crash
    BY <1>1, <2>1 DEF Crash
  <2>2. CASE Foreign
    BY <1>2, <1>3, <1>4, <1>5, <2>2, OthersChange DEF Foreign
  <2> QED
    BY <1>7, <2>1, <2>2 DEF Elsewhere
<1> QED
  BY <1>6, <1>7 DEF ServerMoves

-----------------------------------------------------------------------------
(* The home of an agent through a step.                                    *)

SameHome(a) ==
    \A slot \in Slots :
        /\ (slot \in HomeSlots(a))' <=> slot \in HomeSlots(a)
        /\ slot \in HomeSlots(a) =>
              /\ instances'[slot].type = instances[slot].type
              /\ ResolvedLocation(instances'[slot]) = ResolvedLocation(instances[slot])
              /\ instances'[slot].cloudInitID = instances[slot].cloudInitID

(* An agent that is not uprooted keeps its home: writes of challenge keys  *)
(* do not touch its identity, and nothing else was done to it.             *)
LEMMA HomeStays ==
    ASSUME SafeTypes, RequestInv, ServerMoves, NEW a \in Attempts, a \notin uprooted'
    PROVE  a \notin uprooted /\ SameHome(a)
<1>t. instances \in [Slots -> Record \cup {Absent}]
  BY DEF SafeTypes, TypeOK, IncusTypeOK
<1>1. ASSUME instances' = instances
      PROVE  SameHome(a)
  <2>1. HomeSlots(a)' = HomeSlots(a)
    BY <1>1 DEF HomeSlots, Present
  <2> QED
    BY <1>1, <2>1 DEF SameHome
<1>2. ASSUME NEW slot \in Slots, NEW rec \in Record, Rewrite(slot, rec),
             rec.location = instances[slot].location
      PROVE  SameHome(a)
  <2>1. rec # Absent
    BY KeyAssumption
  <2>2. ASSUME NEW s \in Slots
        PROVE  /\ instances'[s] # Absent <=> instances[s] # Absent
               /\ instances[s] # Absent => /\ instances'[s].uuid = instances[s].uuid
                                           /\ instances'[s].type = instances[s].type
                                           /\ instances'[s].location = instances[s].location
                                           /\ instances'[s].cloudInitID = instances[s].cloudInitID
    BY <1>t, <1>2, <2>1 DEF Rewrite, Present
  <2> QED
    BY <2>2 DEF SameHome, HomeSlots, Present, ResolvedLocation
<1>3. ASSUME NEW b \in Attempts,
             \/ DeliverPayload(b) \/ PayloadLost(b) \/ ChallengeLeaves(b)
             \/ DeliverResponse(b) \/ ResponseLost(b) \/ HandlerMoves(b)
      PROVE  a \notin uprooted /\ SameHome(a)
  <2>1. uprooted' = uprooted
    BY <1>3 DEF DeliverPayload, PayloadLost, ChallengeLeaves, DeliverResponse, ResponseLost,
       HandlerMoves
  <2> QED
    BY <1>1, <1>2, <1>3, <2>1, HandlersRewrite
<1>4. CASE Elsewhere
  <2>1. a \notin uprooted /\ Identity(a)' = Identity(a)
    BY <1>4 DEF Elsewhere
  <2> DEFINE bare(s) == [GuestView(s) EXCEPT !.config = Absent]
  <2>2. ASSUME NEW s \in Slots
        PROVE  /\ bare(s).type = instances[s].type
               /\ bare(s).location = ResolvedLocation(instances[s])
               /\ bare(s).cloudInitID = instances[s].cloudInitID
    BY DEF GuestView, ResolvedLocation
  <2>3. ASSUME NEW s \in Slots
        PROVE  /\ bare(s)'.type = instances'[s].type
               /\ bare(s)'.location = ResolvedLocation(instances'[s])
               /\ bare(s)'.cloudInitID = instances'[s].cloudInitID
    BY DEF GuestView, ResolvedLocation
  <2>4. Identity(a) = {<<s, bare(s)>> : s \in HomeSlots(a)}
    BY DEF Identity
  <2>5. Identity(a)' = {<<s, bare(s)'>> : s \in HomeSlots(a)'}
    BY DEF Identity
  <2> HIDE DEF bare
  <2>6. ASSUME NEW s \in HomeSlots(a)
        PROVE  s \in HomeSlots(a)' /\ bare(s)' = bare(s)
    <3>1. <<s, bare(s)>> \in Identity(a)'
      BY <2>1, <2>4
    <3>2. PICK t \in HomeSlots(a)' : <<s, bare(s)>> = <<t, bare(t)'>>
      BY <2>5, <3>1
    <3> QED
      BY <3>2
  <2>7. ASSUME NEW s \in HomeSlots(a)'
        PROVE  s \in HomeSlots(a)
    <3>1. <<s, bare(s)'>> \in Identity(a)
      BY <2>1, <2>5
    <3>2. PICK t \in HomeSlots(a) : <<s, bare(s)'>> = <<t, bare(t)>>
      BY <2>4, <3>1
    <3> QED
      BY <3>2
  <2>8. ASSUME NEW s \in Slots, s \in HomeSlots(a)
        PROVE  /\ instances'[s].type = instances[s].type
               /\ ResolvedLocation(instances'[s]) = ResolvedLocation(instances[s])
               /\ instances'[s].cloudInitID = instances[s].cloudInitID
    BY <2>2, <2>3, <2>6, <2>8
  <2> QED
    BY <2>1, <2>6, <2>7, <2>8 DEF SameHome
<1> QED
  BY <1>3, <1>4 DEF ServerMoves

(* The claims an agent has made after a step, against its home before it.  *)
LEMMA RootedKeeps ==
    ASSUME RootedInv,
           \A b \in Attempts : b \notin uprooted' => b \notin uprooted /\ SameHome(b),
           \A b \in Attempts \ uprooted : ReadInfoDone(b)' =>
              /\ HomeSlots(b) # {}
              /\ \A slot \in HomeSlots(b) :
                    /\ gathered'[b].type = instances[slot].type
                    /\ gathered'[b].location = ResolvedLocation(instances[slot]),
           \A b \in Attempts \ uprooted : ReadMetaDone(b)' =>
              \A slot \in HomeSlots(b) :
                 /\ gathered'[b].name = slot[2]
                 /\ gathered'[b].cloudInitID = instances[slot].cloudInitID
    PROVE  RootedInv'
<1> SUFFICES ASSUME NEW b \in Attempts, b \notin uprooted'
             PROVE  /\ ReadInfoDone(b)' => HomeSlots(b)' # {}
                    /\ \A slot \in HomeSlots(b)' :
                          /\ Allowed(slot[1]) /\ ProjectHint \in {"", slot[1]}
                          /\ ReadInfoDone(b)' => SaysInfo(b, slot)'
                          /\ ReadMetaDone(b)' => SaysMeta(b, slot)'
  BY DEF RootedInv, Allowed
<1>1. b \notin uprooted /\ SameHome(b)
  OBVIOUS
<1>2. HomeSlots(b)' = HomeSlots(b) /\ HomeSlots(b) \subseteq Slots
  <2>1. HomeSlots(b) \subseteq Slots /\ HomeSlots(b)' \subseteq Slots
    BY DEF HomeSlots
  <2> QED
    BY <1>1, <2>1 DEF SameHome
<1>3. ASSUME NEW slot \in HomeSlots(b)'
      PROVE  Allowed(slot[1]) /\ ProjectHint \in {"", slot[1]}
  BY <1>1, <1>2 DEF RootedInv
<1>4. ASSUME NEW slot \in HomeSlots(b)'
      PROVE  /\ ReadInfoDone(b)' => SaysInfo(b, slot)'
             /\ ReadMetaDone(b)' => SaysMeta(b, slot)'
  BY <1>1, <1>2 DEF SameHome, SaysInfo, SaysMeta
<1> QED
  BY <1>1, <1>2, <1>3, <1>4

(* A home is one slot.                                                     *)
LEMMA OneHome ==
    ASSUME SafeTypes, PlacesInv, NEW a \in Attempts, NEW s \in HomeSlots(a), NEW t \in HomeSlots(a)
    PROVE  s = t
BY DEF HomeSlots, PlacesInv

(* The agents' steps.                                                      *)
LEMMA AgentRooted ==
    ASSUME SafeTypes, PeerInv, PlacesInv, RootedInv, NEW a \in Attempts,
           AgentMoves(a) \/ AgentCanceled(a) \/ DeliverChallenge(a)
    PROVE  RootedInv'
<1>0. instances' = instances /\ uprooted' = uprooted
  BY DEF AgentMoves, AgentCanceled, DeliverChallenge, vars, incusVars
<1>1. \A b \in Attempts : SameHome(b)
  <2>1. \A b \in Attempts : HomeSlots(b)' = HomeSlots(b)
    BY <1>0 DEF HomeSlots, Present
  <2> QED
    BY <1>0, <2>1 DEF SameHome
<1>2. \A b \in Attempts : b # a =>
         /\ stage'[b] = stage[b] /\ offered'[b] = offered[b] /\ gathered'[b] = gathered[b]
  <2>1. /\ stage' = stage \/ \E s : stage' = [stage EXCEPT ![a] = s]
        /\ offered' = offered \/ \E p : offered' = [offered EXCEPT ![a] = p]
        /\ gathered' = gathered \/ \E g : gathered' = [gathered EXCEPT ![a] = g]
    <3>1. CASE AgentCanceled(a)
      BY <3>1 DEF AgentCanceled, Agent!CancelStream, Agent!sentVars
    <3>2. CASE DeliverChallenge(a)
      BY <3>2 DEF DeliverChallenge, Agent!ReceiveChallenge, Agent!Proceed, Agent!Return
    <3>3. CASE AgentMoves(a)
      <4>1. Agent!AgentStep(a) /\ Running(a)
        BY <3>3 DEF AgentMoves
      <4>2. CASE Agent!ReadInfo(a) \/ Agent!ReadMetadata(a) \/ Agent!ReadProductUUID(a)
        <5>1. gathered' = gathered \/ \E g : gathered' = [gathered EXCEPT ![a] = g]
          BY <4>1, <4>2, AgentReads, Zenon DEF PeerInv
        <5> QED
          BY <4>2, <5>1 DEF Agent!ReadInfo, Agent!ReadMetadata, Agent!ReadProductUUID,
             Agent!Proceed, Agent!Return, Agent!sentVars
      <4>3. CASE Agent!ConfigFound(a) \/ Agent!ConfigNotFound(a) \/ Agent!SendPayload(a)
                 \/ \E err \in Agent!RequestErrors : Agent!ConfigReadFails(a, err)
        BY <4>3 DEF Agent!ConfigFound, Agent!ConfigNotFound, Agent!SendPayload,
           Agent!ConfigReadFails, Agent!StartWait, Agent!Proceed, Agent!Return
      <4>4. CASE Agent!ClaimsFail(a) \/ Agent!ChallengeFails(a) \/ Agent!PollGivesUp(a)
        BY <4>4 DEF Agent!ClaimsFail, Agent!ChallengeFails, Agent!PollGivesUp, Agent!Proceed,
           Agent!Return, Agent!sentVars
      <4>5. CASE Agent!Tick(a) \/ Agent!SlowRead(a) \/ Agent!WaitEnds(a)
        BY <4>5 DEF Agent!Tick, Agent!SlowRead, Agent!WaitEnds, Agent!Proceed, Agent!sentVars
      <4> QED
        BY <4>1, <4>2, <4>3, <4>4, <4>5 DEF Agent!AgentStep
    <3> QED
      BY <3>1, <3>2, <3>3
  <2> QED
    BY <2>1 DEF PeerInv, PeerTypes
<1> DEFINE Goal == /\ ReadInfoDone(a)' =>
                         /\ HomeSlots(a) # {}
                         /\ \A slot \in HomeSlots(a) :
                               /\ gathered'[a].type = instances[slot].type
                               /\ gathered'[a].location = ResolvedLocation(instances[slot])
                   /\ ReadMetaDone(a)' =>
                         \A slot \in HomeSlots(a) :
                            /\ gathered'[a].name = slot[2]
                            /\ gathered'[a].cloudInitID = instances[slot].cloudInitID
<1>t. /\ stage \in [Attempts -> Agent!Stages] /\ DOMAIN offered = Attempts
      /\ gathered \in [Attempts -> Agent!Gathered]
  BY DEF PeerInv, PeerTypes
<1>3. ASSUME a \notin uprooted,
             gathered'[a].type = gathered[a].type, gathered'[a].location = gathered[a].location,
             gathered'[a].name = gathered[a].name,
             gathered'[a].cloudInitID = gathered[a].cloudInitID,
             ReadInfoDone(a)' => ReadInfoDone(a), ReadMetaDone(a)' => ReadMetaDone(a)
      PROVE  Goal
  BY <1>3 DEF RootedInv, SaysInfo, SaysMeta
<1>4. ASSUME a \notin uprooted, gathered' = gathered,
             \/ stage'[a] \in {stage[a], "done"} /\ offered' = offered
             \/ stage[a] \in Claimed /\ stage'[a] \in Claimed
      PROVE  Goal
  <2>1. (ReadInfoDone(a)' => ReadInfoDone(a)) /\ (ReadMetaDone(a)' => ReadMetaDone(a))
    BY <1>4 DEF ReadInfoDone, ReadMetaDone, Claimed
  <2> QED
    BY <1>3, <1>4, <2>1
<1>5. ASSUME a \notin uprooted, AgentCanceled(a) \/ DeliverChallenge(a)
      PROVE  Goal
  <2>1. CASE AgentCanceled(a)
    BY <1>4, <1>5, <2>1 DEF AgentCanceled, Agent!CancelStream, Agent!sentVars
  <2>2. CASE DeliverChallenge(a)
    <3>1. /\ gathered' = gathered /\ offered' = offered /\ stage[a] \in Claimed
          /\ stage'[a] \in {"poll", "done"}
      BY <1>t, <2>2 DEF DeliverChallenge, Agent!ReceiveChallenge, Agent!Proceed, Agent!Return, Claimed
    <3> QED
      BY <1>4, <1>5, <3>1 DEF Claimed
  <2> QED
    BY <1>5, <2>1, <2>2
<1>6. ASSUME a \notin uprooted, Running(a), Agent!ReadInfo(a)
      PROVE  Goal
  <2>1. stage'[a] = "meta" /\ offered'[a] = Absent
    BY <1>t, <1>6 DEF Agent!ReadInfo, Agent!Proceed, Agent!sentVars, PeerInv, ClaimInv
  <2>2. ~ReadMetaDone(a)' /\ HomeSlots(a) # {}
    BY <1>6, <2>1 DEF ReadMetaDone, Claimed, Running
  <2>3. gathered'[a].type = View(a).type /\ gathered'[a].location = View(a).location
    <3>1. PICK t, l : t = View(a).type /\ l = View(a).location
      OBVIOUS
    <3>2. PICK g \in Agent!Gathered : g = gathered[a]
      BY <1>t
    <3>3. PICK h : h = [g EXCEPT !.type = t, !.location = l]
      OBVIOUS
    <3>4. h.type = t /\ h.location = l
      BY <3>3 DEF Agent!Gathered
    <3>5. gathered' = [gathered EXCEPT ![a] = h]
      BY <1>6, <3>1, <3>2, <3>3, AgentReads, Zenon DEF PeerInv
    <3> QED
      BY <1>t, <3>1, <3>4, <3>5
  <2>4. ASSUME NEW slot \in HomeSlots(a)
        PROVE  View(a).type = instances[slot].type /\ View(a).location = ResolvedLocation(instances[slot])
    <3>1. slot = HomeOf(a)
      BY <1>6, OneHome, ViewOfHome
    <3> QED
      BY <3>1 DEF View, GuestView, ResolvedLocation
  <2> QED
    BY <2>2, <2>3, <2>4
<1>7. ASSUME a \notin uprooted, Running(a), Agent!ReadMetadata(a)
      PROVE  Goal
  <2>1. ReadInfoDone(a) /\ HomeSlots(a) # {}
    BY <1>7 DEF ReadInfoDone, Running, Agent!ReadMetadata
  <2>2. /\ gathered'[a].type = gathered[a].type /\ gathered'[a].location = gathered[a].location
        /\ gathered'[a].name = View(a).name /\ gathered'[a].cloudInitID = View(a).cloudInitID
    <3>1. PICK n, c : n = View(a).name /\ c = View(a).cloudInitID
      OBVIOUS
    <3>2. PICK g \in Agent!Gathered : g = gathered[a]
      BY <1>t
    <3>3. PICK h : h = [g EXCEPT !.name = n, !.cloudInitID = c]
      OBVIOUS
    <3>4. h.type = g.type /\ h.location = g.location /\ h.name = n /\ h.cloudInitID = c
      BY <3>3 DEF Agent!Gathered
    <3>5. gathered' = [gathered EXCEPT ![a] = h]
      BY <1>7, <3>1, <3>2, <3>3, AgentReads, Zenon DEF PeerInv
    <3> QED
      BY <1>t, <3>1, <3>2, <3>4, <3>5
  <2>3. ASSUME NEW slot \in HomeSlots(a)
        PROVE  /\ View(a).name = slot[2] /\ View(a).cloudInitID = instances[slot].cloudInitID
               /\ SaysInfo(a, slot)
    <3>1. slot = HomeOf(a)
      BY <1>7, OneHome, ViewOfHome
    <3>2. SaysInfo(a, slot)
      BY <1>7, <2>1 DEF RootedInv
    <3> QED
      BY <3>1, <3>2 DEF View, GuestView
  <2> QED
    BY <2>1, <2>2, <2>3 DEF SaysInfo
<1>8. ASSUME a \notin uprooted, Running(a), Agent!ReadProductUUID(a)
      PROVE  Goal
  <2>1. ReadInfoDone(a) /\ ReadMetaDone(a)
    BY <1>8 DEF ReadInfoDone, ReadMetaDone, Agent!ReadProductUUID
  <2>2. /\ gathered'[a].type = gathered[a].type /\ gathered'[a].location = gathered[a].location
        /\ gathered'[a].name = gathered[a].name
        /\ gathered'[a].cloudInitID = gathered[a].cloudInitID
    <3>1. PICK u : u = NewInstanceUUID(View(a).uuid)
      OBVIOUS
    <3>2. PICK g \in Agent!Gathered : g = gathered[a]
      BY <1>t
    <3>3. PICK h : h = [g EXCEPT !.uuid = u]
      OBVIOUS
    <3>4. h.type = g.type /\ h.location = g.location /\ h.name = g.name /\ h.cloudInitID = g.cloudInitID
      BY <3>3 DEF Agent!Gathered
    <3>5. gathered' = [gathered EXCEPT ![a] = h]
      BY <1>8, <3>1, <3>2, <3>3, AgentReads, Zenon DEF PeerInv
    <3> QED
      BY <1>t, <3>2, <3>4, <3>5
  <2> QED
    BY <1>3, <1>8, <2>1, <2>2
<1>9. ASSUME a \notin uprooted, Agent!SendPayload(a)
      PROVE  Goal
  <2>1. /\ gathered' = gathered /\ stage[a] = "payload"
        /\ stage'[a] = "challenge" \/ (stage'[a] = "done" /\ offered' = offered)
    BY <1>t, <1>9 DEF Agent!SendPayload, Agent!Proceed, Agent!Return
  <2> QED
    BY <1>4, <1>9, <2>1 DEF Claimed
<1>10. ASSUME a \notin uprooted,
              \/ Agent!ClaimsFail(a) \/ Agent!ChallengeFails(a) \/ Agent!PollGivesUp(a)
              \/ Agent!ConfigFound(a)
       PROVE  Goal
  <2>1. gathered' = gathered /\ offered' = offered /\ stage'[a] = "done"
    BY <1>t, <1>10 DEF Agent!ClaimsFail, Agent!ChallengeFails, Agent!PollGivesUp,
       Agent!ConfigFound, Agent!Proceed, Agent!Return, Agent!sentVars
  <2> QED
    BY <1>4, <1>10, <2>1
<1>11. ASSUME a \notin uprooted,
              \/ Agent!ConfigNotFound(a)
              \/ \E err \in Agent!RequestErrors : Agent!ConfigReadFails(a, err)
              \/ Agent!Tick(a) \/ Agent!SlowRead(a) \/ Agent!WaitEnds(a)
       PROVE  Goal
  <2>1. /\ gathered' = gathered /\ offered' = offered
        /\ stage[a] \in {"poll", "wait"} /\ stage'[a] \in {"poll", "wait", "done"}
    BY <1>t, <1>11 DEF Agent!ConfigNotFound, Agent!ConfigReadFails, Agent!ReadConfig,
       Agent!StartWait, Agent!Tick, Agent!SlowRead, Agent!WaitEnds, Agent!Proceed, Agent!Return,
       Agent!sentVars
  <2> QED
    BY <1>4, <1>11, <2>1 DEF Claimed
<1>12. a \notin uprooted => Goal
  BY <1>5, <1>6, <1>7, <1>8, <1>9, <1>10, <1>11 DEF AgentMoves, Agent!AgentStep
<1>13. ASSUME NEW b \in Attempts \ uprooted, b # a
       PROVE  /\ ReadInfoDone(b)' =>
                    /\ HomeSlots(b) # {}
                    /\ \A slot \in HomeSlots(b) :
                          /\ gathered'[b].type = instances[slot].type
                          /\ gathered'[b].location = ResolvedLocation(instances[slot])
              /\ ReadMetaDone(b)' =>
                    \A slot \in HomeSlots(b) :
                       /\ gathered'[b].name = slot[2]
                       /\ gathered'[b].cloudInitID = instances[slot].cloudInitID
  <2>1. (ReadInfoDone(b)' => ReadInfoDone(b)) /\ (ReadMetaDone(b)' => ReadMetaDone(b))
    BY <1>2, <1>13 DEF ReadInfoDone, ReadMetaDone
  <2>2. gathered'[b] = gathered[b]
    BY <1>2, <1>13
  <2>3. /\ ReadInfoDone(b) => HomeSlots(b) # {}
        /\ \A slot \in HomeSlots(b) : /\ ReadInfoDone(b) => SaysInfo(b, slot)
                                      /\ ReadMetaDone(b) => SaysMeta(b, slot)
    BY <1>13 DEF RootedInv
  <2>4. ASSUME ReadInfoDone(b)', NEW slot \in HomeSlots(b)
        PROVE  /\ gathered'[b].type = instances[slot].type
               /\ gathered'[b].location = ResolvedLocation(instances[slot])
    <3>1. SaysInfo(b, slot)
      BY <2>1, <2>3, <2>4, Zenon
    <3> QED
      BY <2>2, <3>1 DEF SaysInfo
  <2>5. ASSUME ReadMetaDone(b)', NEW slot \in HomeSlots(b)
        PROVE  /\ gathered'[b].name = slot[2]
               /\ gathered'[b].cloudInitID = instances[slot].cloudInitID
    <3>1. SaysMeta(b, slot)
      BY <2>1, <2>3, <2>5, Zenon
    <3> QED
      BY <2>2, <3>1 DEF SaysMeta
  <2> QED
    BY <2>1, <2>3, <2>4, <2>5, Zenon
<1> QED
  BY <1>0, <1>1, <1>12, <1>13, RootedKeeps

(* The steps of the handlers and of others.                                *)
LEMMA ServerRooted ==
    ASSUME SafeTypes, RequestInv, RootedInv, ServerMoves
    PROVE  RootedInv'
<1>1. UNCHANGED agentSide
  BY DEF ServerMoves, DeliverPayload, PayloadLost, ChallengeLeaves, DeliverResponse, ResponseLost,
     HandlerMoves, Elsewhere
<1>2. UNCHANGED <<stage, gathered, offered>>
  BY <1>1 DEF agentSide
<1>3. \A b \in Attempts : b \notin uprooted' => b \notin uprooted /\ SameHome(b)
  BY HomeStays
<1>4. ASSUME NEW b \in Attempts \ uprooted, ReadInfoDone(b)'
      PROVE  /\ HomeSlots(b) # {}
             /\ \A slot \in HomeSlots(b) :
                   /\ gathered'[b].type = instances[slot].type
                   /\ gathered'[b].location = ResolvedLocation(instances[slot])
  <2>1. ReadInfoDone(b)
    BY <1>2, <1>4 DEF ReadInfoDone
  <2> QED
    BY <1>2, <2>1 DEF RootedInv, SaysInfo
<1>5. ASSUME NEW b \in Attempts \ uprooted, ReadMetaDone(b)'
      PROVE  \A slot \in HomeSlots(b) :
                /\ gathered'[b].name = slot[2]
                /\ gathered'[b].cloudInitID = instances[slot].cloudInitID
  <2>1. ReadMetaDone(b)
    BY <1>2, <1>5 DEF ReadMetaDone
  <2> QED
    BY <1>2, <2>1 DEF RootedInv, SaysMeta
<1> QED
  BY <1>3, <1>4, <1>5, RootedKeeps

-----------------------------------------------------------------------------
(* The search for an agent's VM.                                           *)

(* What the server decodes is what the agent gathered.                     *)
LEMMA DecodedClaims ==
    ASSUME PeerInv, NEW a \in Attempts, offered[a] # Absent
    PROVE  LET c == DecodePayload(offered[a]) IN
           /\ DecodablePayload(offered[a]) /\ ValidateClaims(c)
           /\ c.project = ProjectHint /\ c.uuid = Home[a]
           /\ c.name = gathered[a].name /\ c.type = gathered[a].type
           /\ c.location = gathered[a].location /\ c.cloudInitID = gathered[a].cloudInitID
           /\ c.name \in Names
<1>1. PICK p \in AgentPayloads(a) : p = offered[a]
  BY OfferFits
<1>2. PICK g \in Agent!Gathered : g = gathered[a]
  BY DEF PeerInv, PeerTypes
<1>3. p = Agent!EncodePayload(g)
  BY <1>1, <1>2 DEF PeerInv, ClaimInv
<1>4. /\ p.name = g.name /\ p.type = g.type /\ p.location = g.location
      /\ p.cloudInitID = g.cloudInitID
  BY <1>3 DEF Agent!EncodePayload, Agent!Gathered
<1>5. /\ p.project = (IF ProjectHint = "" THEN Absent ELSE ProjectHint)
      /\ p.name \in Names \ {""} /\ p.uuid = Home[a] /\ p.type = InstanceTypeVirtualMachine
      /\ p.location # "" /\ p.cloudInitID # ""
  BY DEF AgentPayloads
<1>6. Home[a] \in UUIDs /\ NewInstanceUUID(Home[a]) = Home[a] /\ Home[a] # ""
  BY HomeAssumption, UUIDIdempotent DEF UUIDs
<1>7. PICK c : c = DecodePayload(p)
  OBVIOUS
<1>8. /\ c.uuid = Home[a] /\ c.name = p.name /\ c.type = p.type /\ c.location = p.location
      /\ c.cloudInitID = p.cloudInitID
      /\ c.project = (IF p.project = Absent THEN "" ELSE p.project)
  BY <1>5, <1>6, <1>7 DEF DecodePayload, AgentPayloads
<1>9. c.project = ProjectHint /\ p.project # ""
  BY <1>5, <1>8, HomeAssumption
<1>10. DecodablePayload(p)
  BY <1>5, <1>6, <1>9 DEF DecodablePayload, InstanceTypeVirtualMachine
<1>11. ValidateClaims(c)
  BY <1>5, <1>6, <1>8 DEF ValidateClaims, RequireVirtualMachine
<1> QED
  BY <1>1, <1>2, <1>4, <1>5, <1>7, <1>8, <1>9, <1>10, <1>11

(* An instance matches an agent's claims if and only if it is its VM.      *)
LEMMA OnlyHomeMatches ==
    ASSUME SafeTypes, PeerInv, RootedInv, NEW a \in Attempts \ uprooted,
           offered[a] # Absent, claims[a] = DecodePayload(offered[a]), NEW slot \in Slots
    PROVE  Matches(a, slot) <=> slot \in HomeSlots(a)
<1>1. PICK c : c = claims[a]
  OBVIOUS
<1>2. /\ ValidateClaims(c) /\ c.project = ProjectHint /\ c.uuid = Home[a]
      /\ c.name = gathered[a].name /\ c.type = gathered[a].type
      /\ c.location = gathered[a].location /\ c.cloudInitID = gathered[a].cloudInitID
  BY <1>1, DecodedClaims
<1>3. NewInstanceUUID(Home[a]) = Home[a] /\ Home[a] # ""
  BY HomeAssumption, UUIDIdempotent DEF UUIDs
<1>4. ASSUME Present(slot)
      PROVE  MatchClaims(c, MapInstance(slot, instances[slot])) <=> slot \in HomeSlots(a)
  <2>1. PICK rec : rec = instances[slot]
    OBVIOUS
  <2>2. PICK i : i = MapInstance(slot, rec)
    OBVIOUS
  <2>3. /\ i.project = slot[1] /\ i.name = slot[2] /\ i.uuid = NewInstanceUUID(rec.uuid)
        /\ i.type = rec.type /\ i.location = ResolvedLocation(rec)
        /\ i.cloudInitID = rec.cloudInitID
    BY <2>2 DEF MapInstance
  <2>4. NewInstanceUUID(i.uuid) = i.uuid
    <3>1. NewInstanceUUID("") = ""
      BY UUIDAssumption DEF NewInstanceUUID
    <3>2. i.uuid \in UUIDs \cup {""}
      BY <2>3, UUIDType
    <3> QED
      BY <3>1, <3>2, UUIDIdempotent
  <2>5. slot \in HomeSlots(a) <=> i.uuid = Home[a]
    BY <1>4, <2>1, <2>3 DEF HomeSlots
  <2>6. ASSUME MatchClaims(c, i)
        PROVE  slot \in HomeSlots(a)
    BY <1>2, <1>3, <2>4, <2>5, <2>6 DEF MatchClaims
  <2>7. ASSUME slot \in HomeSlots(a)
        PROVE  MatchClaims(c, i)
    <3>1. SaysInfo(a, slot) /\ SaysMeta(a, slot) /\ ProjectHint \in {"", slot[1]}
      BY <2>7 DEF RootedInv, ReadInfoDone, ReadMetaDone
    <3>2. /\ c.name = i.name /\ c.type = i.type /\ c.location = i.location
          /\ c.cloudInitID = i.cloudInitID
      BY <1>2, <2>1, <2>3, <3>1 DEF SaysInfo, SaysMeta
    <3>3. i.project # ""
      BY <2>3, ConfigurationAssumption DEF Slots
    <3>4. NewInstanceUUID(c.uuid) = NewInstanceUUID(i.uuid)
      BY <1>2, <2>5, <2>7
    <3>5. ValidateInstance(i)
      BY <1>2, <3>2, <3>3, <3>4 DEF ValidateInstance, ValidateClaims
    <3> QED
      BY <1>2, <2>3, <3>1, <3>2, <3>4, <3>5 DEF MatchClaims
  <2> QED
    BY <2>1, <2>2, <2>6, <2>7
<1> QED
  BY <1>1, <1>4 DEF Matches, HomeSlots

(* The search as it begins.                                                *)
LEMMA SearchBegins ==
    ASSUME Deployable, SafeTypes, PeerInv, RootedInv, SearchInv, NEW a \in Attempts,
           DeliverPayload(a)
    PROVE  /\ result'[a] \in {result[a], "denied"}
           /\ a \notin uprooted => result'[a] = result[a]
           /\ pc'[a] = "lookup" =>
                 /\ claims'[a] = DecodePayload(offered[a])
                 /\ \A i, j \in DOMAIN search'[a].rest :
                       search'[a].rest[i] = search'[a].rest[j] => i = j
                 /\ search'[a].matches = 0
                 /\ \A slot \in HomeSlots(a) : a \notin uprooted =>
                       \E i \in DOMAIN search'[a].rest : search'[a].rest[i] = slot[1]
<1>t. /\ pc \in [Attempts -> Active \cup {"idle", "done", "crashed"}]
      /\ DOMAIN claims = Attempts /\ search \in [Attempts -> Search]
      /\ result \in [Attempts -> ErrorClasses \cup {"pending", "ok"}]
  BY DEF SafeTypes, TypeOK, ServerTypeOK
<1>1. PICK p : p = offered[a]
  OBVIOUS
<1>2. PICK c : c = DecodePayload(p)
  OBVIOUS
<1>3. /\ p # Absent /\ PayloadReceived(a, p) /\ DecodablePayload(p) /\ ValidateClaims(c)
      /\ c.project = ProjectHint
  BY <1>1, <1>2, DecodedClaims DEF DeliverPayload
<1>4. search[a] = NoSearch
  BY <1>3 DEF PayloadReceived, At, SearchInv
<1>5. /\ claims' = [claims EXCEPT ![a] = c]
      /\ \/ /\ ~AllowedHint(c)
            /\ result' = [result EXCEPT ![a] = "denied"] /\ pc' = [pc EXCEPT ![a] = "done"]
         \/ /\ AllowedHint(c)
            /\ search' = [search EXCEPT ![a].rest = SearchOrder(c)]
            /\ result' = result
  BY <1>2, <1>3 DEF PayloadReceived, ReturnError, Conclude, Enter
<1>6. ASSUME a \notin uprooted
      PROVE  AllowedHint(c)
  <2>1. HomeSlots(a) # {}
    BY <1>1, <1>3, <1>6 DEF RootedInv, ReadInfoDone
  <2>2. PICK slot \in HomeSlots(a) : Allowed(slot[1]) /\ ProjectHint \in {"", slot[1]}
    BY <1>6, <2>1 DEF RootedInv
  <2> QED
    BY <1>3, <2>2 DEF AllowedHint, Allowed
<1>7. ASSUME pc'[a] = "lookup"
      PROVE  search'[a] = [NoSearch EXCEPT !.rest = SearchOrder(c)]
  BY <1>t, <1>4, <1>5, <1>7
<1>8. PICK order : order = SearchOrder(c)
  OBVIOUS
<1>9. ASSUME pc'[a] = "lookup"
      PROVE  search'[a].rest = order /\ search'[a].matches = 0
  BY <1>7, <1>8, <1>9 DEF NoSearch
<1>10. \A i, j \in DOMAIN order : order[i] = order[j] => i = j
  <2>1. CASE c.project = ""
    BY <1>8, <2>1 DEF SearchOrder, Deployable
  <2>2. CASE c.project # ""
    <3>1. order = <<c.project>>
      BY <1>8, <2>2 DEF SearchOrder
    <3> QED
      BY <3>1
  <2> QED
    BY <2>1, <2>2
<1>11. ASSUME a \notin uprooted, NEW slot \in HomeSlots(a)
       PROVE  \E i \in DOMAIN order : order[i] = slot[1]
  <2>1. Allowed(slot[1]) /\ ProjectHint \in {"", slot[1]}
    BY <1>11 DEF RootedInv
  <2>2. CASE c.project = ""
    BY <1>8, <2>1, <2>2 DEF SearchOrder, Allowed
  <2>3. CASE c.project # ""
    <3>1. order = <<c.project>> /\ c.project = slot[1]
      BY <1>3, <1>8, <2>1, <2>3 DEF SearchOrder
    <3>2. 1 \in DOMAIN order /\ order[1] = slot[1]
      BY <3>1
    <3> QED
      BY <3>2
  <2> QED
    BY <2>2, <2>3
<1> QED
  BY <1>1, <1>2, <1>t, <1>5, <1>6, <1>9, <1>10, <1>11

(* One turn of the search.                                                 *)
LEMMA SearchGoesOn ==
    ASSUME SafeTypes, PeerInv, PlacesInv, RootedInv, SearchInv, NEW a \in Attempts, Lookup(a),
           NEW slot \in HomeSlots(a), a \notin uprooted
    PROVE  search'[a].matches =
              IF \E i \in DOMAIN search'[a].rest : search'[a].rest[i] = slot[1] THEN 0 ELSE 1
<1>1. PICK old \in Search : old = search[a]
  BY DEF SafeTypes, TypeOK, ServerTypeOK
<1>2. /\ pc[a] = "lookup" /\ old.rest # <<>>
  BY <1>1 DEF Lookup, At
<1>3. PICK rest \in Seq(Projects), m \in Nat : rest = old.rest /\ m = old.matches
  BY DEF Search
<1>4. /\ offered[a] # Absent /\ claims[a] = DecodePayload(offered[a])
      /\ \A i, j \in DOMAIN rest : rest[i] = rest[j] => i = j
      /\ m = IF \E i \in DOMAIN rest : rest[i] = slot[1] THEN 0 ELSE 1
  BY <1>1, <1>2, <1>3 DEF SearchInv
<1>5. PICK s : s = <<Head(rest), claims[a].name>>
  OBVIOUS
<1>6. s \in Slots /\ s[1] = rest[1] /\ s[2] = claims[a].name
  <2>1. claims[a].name \in Names
    BY <1>4, DecodedClaims
  <2> QED
    BY <1>2, <1>3, <1>5, <2>1 DEF Slots
<1>7. search' = [search EXCEPT ![a] =
                   [rest    |-> Tail(rest),
                    matched |-> IF Matches(a, s) THEN MapInstance(s, instances[s]) ELSE old.matched,
                    matches |-> IF Matches(a, s) THEN m + 1 ELSE m]]
  <2>1. Present(s) => Mappable(instances[s])
    BY <1>6 DEF PlacesInv
  <2> QED
    BY <1>1, <1>3, <1>5, <2>1 DEF Lookup, SafeTypes, TypeOK, ServerTypeOK
<1>8. /\ search'[a].rest = Tail(rest)
      /\ search'[a].matches = IF Matches(a, s) THEN m + 1 ELSE m
  BY <1>7 DEF SafeTypes, TypeOK, ServerTypeOK
<1>9. Matches(a, s) <=> s \in HomeSlots(a)
  BY <1>4, <1>6, OnlyHomeMatches
<1>10. slot \in Slots /\ slot[2] = claims[a].name
  <2>1. SaysMeta(a, slot)
    BY <1>4 DEF RootedInv, ReadMetaDone
  <2> QED
    BY <1>4, <2>1, DecodedClaims DEF SaysMeta, HomeSlots
<1>11. s \in HomeSlots(a) <=> rest[1] = slot[1]
  <2>1. s = slot <=> rest[1] = slot[1]
    BY <1>6, <1>10 DEF Slots
  <2>2. s \in HomeSlots(a) => s = slot
    BY OneHome
  <2> QED
    BY <2>1, <2>2
<1>12. /\ DOMAIN rest = 1 .. Len(rest) /\ Len(rest) \in Nat \ {0}
       /\ DOMAIN Tail(rest) = 1 .. Len(rest) - 1
       /\ \A i \in DOMAIN Tail(rest) : Tail(rest)[i] = rest[i + 1]
  BY <1>2, <1>3
<1>13. CASE rest[1] = slot[1]
  <2>1. m = 0
    BY <1>4, <1>12, <1>13
  <2>2. ~\E i \in DOMAIN Tail(rest) : Tail(rest)[i] = slot[1]
    <3> SUFFICES ASSUME NEW i \in DOMAIN Tail(rest), Tail(rest)[i] = slot[1]
                 PROVE  FALSE
      OBVIOUS
    <3>1. rest[i + 1] = rest[1] /\ i + 1 \in DOMAIN rest /\ 1 \in DOMAIN rest /\ i + 1 # 1
      BY <1>12, <1>13
    <3> QED
      BY <1>4, <3>1
  <2> QED
    BY <1>8, <1>9, <1>11, <1>13, <2>1, <2>2
<1>14. CASE rest[1] # slot[1]
  <2>1. (\E i \in DOMAIN Tail(rest) : Tail(rest)[i] = slot[1]) <=> \E i \in DOMAIN rest : rest[i] = slot[1]
    <3>1. ASSUME NEW i \in DOMAIN rest, rest[i] = slot[1]
          PROVE  \E j \in DOMAIN Tail(rest) : Tail(rest)[j] = slot[1]
      <4>1. i - 1 \in DOMAIN Tail(rest) /\ Tail(rest)[i - 1] = rest[i]
        BY <1>12, <1>14, <3>1
      <4> QED
        BY <3>1, <4>1
    <3>2. ASSUME NEW j \in DOMAIN Tail(rest), Tail(rest)[j] = slot[1]
          PROVE  \E i \in DOMAIN rest : rest[i] = slot[1]
      <4>1. j + 1 \in DOMAIN rest /\ rest[j + 1] = slot[1]
        BY <1>12, <3>2
      <4> QED
        BY <4>1
    <3> QED
      BY <3>1, <3>2
  <2> QED
    BY <1>4, <1>8, <1>9, <1>11, <1>14, <2>1
<1> QED
  BY <1>13, <1>14

(* The search of one attempt after a step.                                 *)
SearchMoved(a) ==
    \/ pc'[a] \notin {"idle", "lookup"}
    \/ pc'[a] = pc[a] /\ search'[a] = search[a] /\ claims'[a] = claims[a]
    \/ /\ pc'[a] = "lookup"
       /\ offered[a] # Absent /\ claims'[a] = DecodePayload(offered[a])
       /\ \A i, j \in DOMAIN search'[a].rest : search'[a].rest[i] = search'[a].rest[j] => i = j
       /\ \A slot \in HomeSlots(a) : a \notin uprooted =>
             search'[a].matches =
                IF \E i \in DOMAIN search'[a].rest : search'[a].rest[i] = slot[1] THEN 0 ELSE 1

LEMMA SearchKeeps ==
    ASSUME SearchInv,
           \A b \in Attempts : SearchMoved(b),
           \A b \in Attempts : offered[b] # Absent => offered'[b] = offered[b],
           \A b \in Attempts : b \notin uprooted' => b \notin uprooted /\ SameHome(b)
    PROVE  SearchInv'
<1>1. ASSUME NEW b \in Attempts, pc'[b] = "idle"
      PROVE  search'[b] = NoSearch
  BY <1>1 DEF SearchInv, SearchMoved
<1>2. ASSUME NEW b \in Attempts, pc'[b] = "lookup"
      PROVE  /\ offered[b] # Absent /\ claims'[b] = DecodePayload(offered[b])
             /\ \A i, j \in DOMAIN search'[b].rest :
                   search'[b].rest[i] = search'[b].rest[j] => i = j
             /\ \A slot \in HomeSlots(b) : b \notin uprooted =>
                   search'[b].matches =
                      IF \E i \in DOMAIN search'[b].rest : search'[b].rest[i] = slot[1] THEN 0 ELSE 1
  BY <1>2 DEF SearchInv, SearchMoved
<1>3. ASSUME NEW b \in Attempts, b \notin uprooted'
      PROVE  b \notin uprooted /\ HomeSlots(b)' = HomeSlots(b)
  <2>1. HomeSlots(b) \subseteq Slots /\ HomeSlots(b)' \subseteq Slots
    BY DEF HomeSlots
  <2> QED
    BY <1>3, <2>1 DEF SameHome
<1>4. ASSUME NEW b \in Attempts, pc'[b] = "lookup", NEW slot \in HomeSlots(b)', b \notin uprooted'
      PROVE  search'[b].matches =
                IF \E i \in DOMAIN search'[b].rest : search'[b].rest[i] = slot[1] THEN 0 ELSE 1
  BY <1>2, <1>3, <1>4
<1> QED
  BY <1>1, <1>2, <1>4 DEF SearchInv

(* The agents' steps leave the searches alone.                             *)
LEMMA AgentSearch ==
    ASSUME PeerInv, SearchInv, NEW a \in Attempts,
           AgentMoves(a) \/ AgentCanceled(a) \/ DeliverChallenge(a)
    PROVE  SearchInv'
<1>0. UNCHANGED <<instances, uprooted, pc, search, claims>>
  BY DEF AgentMoves, AgentCanceled, DeliverChallenge, vars, incusVars, localVars
<1>1. \A b \in Attempts : SameHome(b)
  <2>1. \A b \in Attempts : HomeSlots(b)' = HomeSlots(b)
    BY <1>0 DEF HomeSlots, Present
  <2> QED
    BY <1>0, <2>1 DEF SameHome
<1>2. \/ UNCHANGED offered
      \/ stage[a] = "payload" /\ \E p : offered' = [offered EXCEPT ![a] = p]
  BY DEF AgentMoves, AgentCanceled, DeliverChallenge, Agent!AgentStep, Agent!ReadInfo,
     Agent!ReadMetadata, Agent!ReadProductUUID, Agent!ClaimsFail, Agent!SendPayload,
     Agent!ReceiveChallenge, Agent!ChallengeFails, Agent!ConfigFound, Agent!ConfigNotFound,
     Agent!ConfigReadFails, Agent!PollGivesUp, Agent!Tick, Agent!SlowRead, Agent!WaitEnds,
     Agent!CancelStream, Agent!sentVars
<1>3. stage[a] = "payload" => offered[a] = Absent
  BY DEF PeerInv, ClaimInv
<1>4. \A b \in Attempts : offered[b] # Absent => offered'[b] = offered[b]
  BY <1>2, <1>3 DEF PeerInv, PeerTypes
<1>5. \A b \in Attempts : SearchMoved(b)
  BY <1>0 DEF SearchMoved
<1> QED
  BY <1>0, <1>1, <1>4, <1>5, SearchKeeps

(* The steps of the handlers and of others.                                *)
LEMMA ServerSearch ==
    ASSUME Deployable, SafeTypes, RequestInv, PeerInv, PlacesInv, RootedInv, SearchInv, ServerMoves
    PROVE  SearchInv'
<1>t. /\ pc \in [Attempts -> Active \cup {"idle", "done", "crashed"}]
      /\ DOMAIN claims = Attempts /\ search \in [Attempts -> Search]
  BY DEF SafeTypes, TypeOK, ServerTypeOK
<1>1. UNCHANGED offered
  BY DEF ServerMoves, DeliverPayload, PayloadLost, ChallengeLeaves, DeliverResponse, ResponseLost,
     HandlerMoves, Elsewhere, agentSide
<1>2. \A b \in Attempts : b \notin uprooted' => b \notin uprooted /\ SameHome(b)
  BY HomeStays
<1>3. ASSUME NEW a \in Attempts, DeliverPayload(a)
      PROVE  \A b \in Attempts : SearchMoved(b)
  <2>1. SearchMoved(a)
    <3>1. pc'[a] \in {"lookup", "done"}
      BY <1>t, <1>3 DEF DeliverPayload, PayloadReceived, ReturnError, Enter
    <3>2. offered[a] # Absent
      BY <1>3 DEF DeliverPayload
    <3> QED
      BY <1>3, <3>1, <3>2, SearchBegins DEF SearchMoved
  <2>2. ASSUME NEW b \in Attempts, b # a
        PROVE  SearchMoved(b)
    <3>1. /\ \E ph : pc' = [pc EXCEPT ![a] = ph]
          /\ \E c : claims' = [claims EXCEPT ![a] = c]
          /\ search' = search \/ \E r : search' = [search EXCEPT ![a].rest = r]
      BY <1>3 DEF DeliverPayload, PayloadReceived, ReturnError, Enter
    <3>2. pc'[b] = pc[b] /\ claims'[b] = claims[b] /\ search'[b] = search[b]
      BY <1>t, <2>2, <3>1
    <3> QED
      BY <3>2 DEF SearchMoved
  <2> QED
    BY <2>1, <2>2
<1>4. ASSUME NEW a \in Attempts, Lookup(a)
      PROVE  \A b \in Attempts : SearchMoved(b)
  <2>1. /\ claims' = claims /\ pc[a] = "lookup" /\ search[a].rest # <<>>
        /\ \/ pc' = [pc EXCEPT ![a] = "done"] /\ search' = search
           \/ /\ pc' = pc
              /\ \E r : /\ search' = [search EXCEPT ![a] = r]
                        /\ r.rest = Tail(search[a].rest)
    <3>1. PICK slot : slot = <<Head(search[a].rest), claims[a].name>>
      OBVIOUS
    <3>2. /\ claims' = claims /\ pc[a] = "lookup" /\ search[a].rest # <<>>
          /\ \/ pc' = [pc EXCEPT ![a] = "done"] /\ search' = search
             \/ /\ pc' = pc
                /\ search' = [search EXCEPT ![a] =
                      [rest    |-> Tail(search[a].rest),
                       matched |-> IF Matches(a, slot)
                                   THEN MapInstance(slot, instances[slot])
                                   ELSE search[a].matched,
                       matches |-> IF Matches(a, slot)
                                   THEN search[a].matches + 1 ELSE search[a].matches]]
      BY <1>4, <1>t, <3>1 DEF Lookup, At, ReturnError, Enter
    <3>3. PICK r : r = [rest    |-> Tail(search[a].rest),
                        matched |-> IF Matches(a, slot)
                                    THEN MapInstance(slot, instances[slot])
                                    ELSE search[a].matched,
                        matches |-> IF Matches(a, slot)
                                    THEN search[a].matches + 1 ELSE search[a].matches]
      OBVIOUS
    <3>4. r.rest = Tail(search[a].rest)
      BY <3>3
    <3> QED
      BY <3>2, <3>3, <3>4
  <2>2. ASSUME NEW b \in Attempts, b # a
        PROVE  SearchMoved(b)
    BY <1>t, <2>1, <2>2 DEF SearchMoved
  <2>3. ASSUME pc' = pc, NEW r, search' = [search EXCEPT ![a] = r], r.rest = Tail(search[a].rest)
        PROVE  SearchMoved(a)
    <3>1. PICK rest \in Seq(Projects) : rest = search[a].rest
      BY <1>t DEF Search
    <3>2. search'[a].rest = Tail(rest)
      BY <1>t, <2>3, <3>1
    <3>3. /\ offered[a] # Absent /\ claims[a] = DecodePayload(offered[a])
          /\ \A i, j \in DOMAIN rest : rest[i] = rest[j] => i = j
      BY <2>1, <3>1 DEF SearchInv
    <3>4. /\ DOMAIN rest = 1 .. Len(rest) /\ Len(rest) \in Nat \ {0}
          /\ DOMAIN Tail(rest) = 1 .. Len(rest) - 1
          /\ \A i \in DOMAIN Tail(rest) : Tail(rest)[i] = rest[i + 1]
      BY <2>1, <3>1
    <3>5. ASSUME NEW i \in DOMAIN Tail(rest), NEW j \in DOMAIN Tail(rest), Tail(rest)[i] = Tail(rest)[j]
          PROVE  i = j
      <4>1. i + 1 \in DOMAIN rest /\ j + 1 \in DOMAIN rest /\ rest[i + 1] = rest[j + 1]
        BY <3>4, <3>5
      <4>2. i + 1 = j + 1 /\ i \in Int /\ j \in Int
        BY <3>3, <3>4, <4>1
      <4> QED
        BY <4>2
    <3>6. \A slot \in HomeSlots(a) : a \notin uprooted =>
             search'[a].matches =
                IF \E i \in DOMAIN search'[a].rest : search'[a].rest[i] = slot[1] THEN 0 ELSE 1
      BY <1>4, SearchGoesOn
    <3>7. \A i, j \in DOMAIN search'[a].rest : search'[a].rest[i] = search'[a].rest[j] => i = j
      BY <3>2, <3>5
    <3>8. pc'[a] = "lookup" /\ claims'[a] = claims[a]
      BY <2>1, <2>3
    <3> QED
      BY <3>3, <3>6, <3>7, <3>8 DEF SearchMoved
  <2>4. SearchMoved(a)
    BY <1>t, <2>1, <2>3 DEF SearchMoved
  <2> QED
    BY <2>2, <2>4
<1>5. ASSUME NEW a \in Attempts, Resolve(a) \/ LookupFails(a)
      PROVE  \A b \in Attempts : SearchMoved(b)
  <2>1. /\ claims' = claims /\ search' = [search EXCEPT ![a] = NoSearch]
        /\ pc' = [pc EXCEPT ![a] = "draw"] \/ pc' = [pc EXCEPT ![a] = "done"]
    BY <1>5 DEF Resolve, LookupFails, ReturnError, Enter
  <2> QED
    BY <1>t, <2>1 DEF SearchMoved
<1>6. ASSUME NEW a \in Attempts, UNCHANGED <<search, claims>>,
             \/ pc' = pc
             \/ \E ph : ph \notin {"idle", "lookup"} /\ pc' = [pc EXCEPT ![a] = ph]
      PROVE  \A b \in Attempts : SearchMoved(b)
  BY <1>t, <1>6 DEF SearchMoved
<1>7. ASSUME NEW a \in Attempts,
             \/ PayloadLost(a) \/ ChallengeLeaves(a) \/ DeliverResponse(a) \/ ResponseLost(a)
      PROVE  \A b \in Attempts : SearchMoved(b)
  BY <1>6, <1>7 DEF PayloadLost, PayloadRejected, ChallengeLeaves, SendChallenge, DeliverResponse,
     ReceiveResponse, ResponseLost, ResponseFails, ReturnError, ReturnAfterCleanup, RunCleanup,
     Enter, localVars
<1>8. ASSUME NEW a \in Attempts, HandlerMoves(a)
      PROVE  \A b \in Attempts : SearchMoved(b)
  <2>1. CASE \/ \E k \in Keys, n \in Nonces : ReadRandomPair(a, k, n)
             \/ RandomFails(a) \/ SetNonceReturns(a) \/ CleanupReturns(a) \/ SendAttributes(a)
    BY <1>6, <2>1 DEF ReadRandomPair, RandomFails, SetNonceReturns, CleanupReturns, SendAttributes,
       ReturnError, ReturnAfterCleanup, RunCleanup, Enter, localVars
  <2>2. CASE \/ SetNonceStep(a) \/ SetNonceGivesUp(a) \/ UnsetNonceStep(a)
             \/ UnsetNonceGivesUp(a) \/ Cancel(a)
    BY <1>6, <2>2 DEF SetNonceStep, SetNonceGivesUp, UnsetNonceStep, UnsetNonceGivesUp, Cancel,
       localVars
  <2> QED
    BY <1>4, <1>5, <1>8, <2>1, <2>2 DEF HandlerMoves
<1>9. ASSUME Elsewhere
      PROVE  \A b \in Attempts : SearchMoved(b)
  <2>1. /\ UNCHANGED <<search, claims>>
        /\ \A b \in Attempts : pc'[b] \in {pc[b], "crashed"}
    BY <1>9 DEF Elsewhere, Crash, Foreign, localVars
  <2> QED
    BY <2>1 DEF SearchMoved
<1>10. \A b \in Attempts : SearchMoved(b)
  BY <1>3, <1>7, <1>8, <1>9 DEF ServerMoves
<1> QED
  BY <1>1, <1>2, <1>10, SearchKeeps

(* What the search found stays what it was, valid.                         *)
LEMMA FoundKept ==
    ASSUME SafeTypes, FoundInv, [Next]_vars
    PROVE  FoundInv'
<1>t. search \in [Attempts -> Search] /\ DOMAIN target = Attempts
  BY DEF SafeTypes, TypeOK, ServerTypeOK
<1>1. ASSUME NEW a \in Attempts, NEW p, PayloadReceived(a, p)
      PROVE  FoundInv'
  <2>1. /\ target' = target
        /\ search' = search \/ search' = [search EXCEPT ![a].rest = SearchOrder(DecodePayload(p))]
    BY <1>1 DEF PayloadReceived
  <2>2. \A b \in Attempts : search'[b].matched = search[b].matched
    BY <1>t, <2>1, OrderKeepsMatches
  <2> QED
    BY <2>1, <2>2 DEF FoundInv
<1>2. ASSUME NEW a \in Attempts, Lookup(a)
      PROVE  FoundInv'
  <2>1. PICK slot : slot = <<Head(search[a].rest), claims[a].name>>
    OBVIOUS
  <2>2. PICK i : i = MapInstance(slot, instances[slot])
    OBVIOUS
  <2>3. PICK r : r = [rest    |-> Tail(search[a].rest),
                      matched |-> IF Matches(a, slot) THEN i ELSE search[a].matched,
                      matches |-> IF Matches(a, slot)
                                  THEN search[a].matches + 1 ELSE search[a].matches]
    OBVIOUS
  <2>4. target' = target /\ (search' = search \/ search' = [search EXCEPT ![a] = r])
    BY <1>t, <1>2, <2>1, <2>2, <2>3 DEF Lookup
  <2>5. r.matched = IF Matches(a, slot) THEN i ELSE search[a].matched
    BY <2>3
  <2>6. Matches(a, slot) => ValidateInstance(i)
    BY <2>2 DEF Matches, MatchClaims
  <2> QED
    BY <1>t, <2>4, <2>5, <2>6 DEF FoundInv
<1>3. ASSUME NEW a \in Attempts, Resolve(a) \/ LookupFails(a)
      PROVE  FoundInv'
  <2>1. /\ search' = [search EXCEPT ![a] = NoSearch]
        /\ target' = target \/ target' = [target EXCEPT ![a] = search[a].matched]
    BY <1>3 DEF Resolve, LookupFails
  <2>2. NoSearch.matched = Absent
    BY DEF NoSearch
  <2> QED
    BY <1>t, <2>1, <2>2 DEF FoundInv
<1>4. CASE UNCHANGED <<search, target>>
  BY <1>4 DEF FoundInv
<1>5. ASSUME NEW a \in Attempts, Handler(a)
      PROVE  Lookup(a) \/ Resolve(a) \/ LookupFails(a) \/ UNCHANGED <<search, target>>
  BY <1>5 DEF Handler, ReadRandomPair, RandomFails, SetNonceGivesUp, SetNonceReturns,
      SendChallenge, ReceiveResponse, ResponseFails, UnsetNonceGivesUp, CleanupReturns,
      SendAttributes, localVars
<1>6. ASSUME NEW a \in Attempts,
             PayloadRejected(a) \/ SetNonceStep(a) \/ UnsetNonceStep(a) \/ Cancel(a)
      PROVE  UNCHANGED <<search, target>>
  BY <1>6 DEF PayloadRejected, SetNonceStep, UnsetNonceStep, Cancel, localVars
<1>7. ASSUME Crash \/ Foreign \/ UNCHANGED vars
      PROVE  UNCHANGED <<search, target>>
  BY <1>7 DEF Crash, Foreign, vars, localVars
<1> QED
  BY <1>1, <1>2, <1>3, <1>4, <1>5, <1>6, <1>7 DEF Next

-----------------------------------------------------------------------------
(* The verdicts.                                                           *)

(* No step finds an honest agent malformed, or denies it in its own VM.    *)
LEMMA NoDenial ==
    ASSUME Deployable, SafeTypes, PeerInv, PlacesInv, RootedInv, SearchInv, FoundInv,
           ServerMoves, NEW b \in Attempts
    PROVE  \/ result'[b] = result[b]
           \/ result'[b] # "invalid" /\ (result'[b] = "denied" => b \in uprooted)
<1>t. /\ result \in [Attempts -> ErrorClasses \cup {"pending", "ok"}]
      /\ pc \in [Attempts -> Active \cup {"idle", "done", "crashed"}]
  BY DEF SafeTypes, TypeOK, ServerTypeOK
<1> DEFINE Fair(class, a) == class # "invalid" /\ (class = "denied" => a \in uprooted)
<1>1. ASSUME NEW a \in Attempts, NEW class, Conclude(a, class), Fair(class, a)
      PROVE  \/ result'[b] = result[b]
             \/ result'[b] # "invalid" /\ (result'[b] = "denied" => b \in uprooted)
  BY <1>t, <1>1 DEF Conclude
<1>2. ASSUME NEW a \in Attempts, DeliverPayload(a)
      PROVE  \/ result'[b] = result[b]
             \/ result'[b] # "invalid" /\ (result'[b] = "denied" => b \in uprooted)
  <2>1. result' = result \/ \E class : result' = [result EXCEPT ![a] = class]
    BY <1>2 DEF DeliverPayload, PayloadReceived, ReturnError, Conclude
  <2>2. CASE b # a
    BY <1>t, <2>1, <2>2
  <2>3. CASE b = a
    BY <1>2, <2>3, SearchBegins
  <2> QED
    BY <2>2, <2>3
<1>3. ASSUME NEW a \in Attempts, PayloadLost(a)
      PROVE  result' = result \/ \E class : Conclude(a, class) /\ Fair(class, a)
  <2>1. \E class \in {"other", "invalid"} : Conclude(a, class) /\ result'[a] = "other"
    BY <1>3 DEF PayloadLost, PayloadRejected, ReturnError
  <2> QED
    BY <1>t, <2>1 DEF Conclude
<1>4. ASSUME NEW a \in Attempts, ChallengeLeaves(a)
      PROVE  result' = result \/ \E class : Conclude(a, class) /\ Fair(class, a)
  BY <1>4 DEF ChallengeLeaves, SendChallenge, ReturnAfterCleanup
<1>5. ASSUME NEW a \in Attempts, DeliverResponse(a)
      PROVE  result' = result
  BY <1>5 DEF DeliverResponse, ReceiveResponse, VerifyNonce, PeerInv, AnswerInv
<1>6. ASSUME NEW a \in Attempts, ResponseLost(a)
      PROVE  result' = result \/ \E class : Conclude(a, class) /\ Fair(class, a)
  <2>1. PICK class \in {"other", "invalid"} \cup ContextEnds(a) :
           Conclude(a, class) /\ result'[a] # "invalid"
    BY <1>6 DEF ResponseLost, ResponseFails, ReturnAfterCleanup
  <2>2. class # "invalid"
    BY <1>t, <2>1 DEF Conclude
  <2>3. class \in {"other", "deadline", "canceled"}
    BY <2>2 DEF ContextEnds
  <2> QED
    BY <2>1, <2>3
<1>7. ASSUME NEW a \in Attempts, Lookup(a)
      PROVE  result' = result
  <2>1. PICK rest \in Seq(Projects) : rest = search[a].rest
    BY DEF SafeTypes, TypeOK, ServerTypeOK, Search
  <2>2. PICK slot : slot = <<Head(rest), claims[a].name>>
    OBVIOUS
  <2>3. rest # <<>> /\ pc[a] = "lookup"
    BY <1>7, <2>1 DEF Lookup, At
  <2>4. claims[a].name \in Names
    BY <2>3, DecodedClaims DEF SearchInv
  <2>5. slot \in Slots
    BY <2>1, <2>2, <2>3, <2>4 DEF Slots
  <2>6. Present(slot) => Mappable(instances[slot])
    BY <2>5 DEF PlacesInv
  <2> QED
    BY <1>7, <2>1, <2>2, <2>6 DEF Lookup
<1>8. ASSUME NEW a \in Attempts, Resolve(a)
      PROVE  result' = result \/ \E class : Conclude(a, class) /\ Fair(class, a)
  <2>1. pc[a] = "lookup" /\ search[a].rest = <<>>
    BY <1>8 DEF Resolve, At
  <2>2. ASSUME a \notin uprooted
        PROVE  UniqueMatch(a)
    <3>1. offered[a] # Absent
      BY <2>1 DEF SearchInv
    <3>2. PICK slot \in HomeSlots(a) : TRUE
      BY <2>2, <3>1 DEF RootedInv, ReadInfoDone
    <3>3. ~\E i \in DOMAIN search[a].rest : search[a].rest[i] = slot[1]
      BY <2>1
    <3>4. search[a].matches = 1
      BY <2>1, <2>2, <3>2, <3>3 DEF SearchInv
    <3> QED
      BY <3>4 DEF UniqueMatch
  <2> QED
    BY <1>8, <2>2 DEF Resolve, ReturnError
<1>9. ASSUME NEW a \in Attempts, LookupFails(a) \/ RandomFails(a)
      PROVE  result' = result \/ \E class : Conclude(a, class) /\ Fair(class, a)
  BY <1>9 DEF LookupFails, RandomFails, ReturnError, ContextEnds
<1>10. ASSUME NEW a \in Attempts, SetNonceReturns(a)
       PROVE  result' = result \/ \E class : Conclude(a, class) /\ Fair(class, a)
  BY <1>10 DEF SetNonceReturns, ReturnAfterCleanup, Returned, ContextErrors
<1>11. ASSUME NEW a \in Attempts, CleanupReturns(a)
       PROVE  result' = result \/ \E class : Conclude(a, class) /\ Fair(class, a)
  <2>1. Conclude(a, AnnotateCleanup(result[a], phase[a])) /\ phase[a] \in Returned
    BY <1>11 DEF CleanupReturns
  <2>2. CASE AnnotateCleanup(result[a], phase[a]) = result[a]
    BY <1>t, <2>1, <2>2 DEF Conclude
  <2>3. CASE AnnotateCleanup(result[a], phase[a]) # result[a]
    BY <2>1, <2>3 DEF AnnotateCleanup, Returned, ContextErrors
  <2> QED
    BY <2>2, <2>3
<1>12. ASSUME NEW a \in Attempts, SendAttributes(a)
       PROVE  result' = result \/ \E class : Conclude(a, class) /\ Fair(class, a)
  <2>1. pc[a] = "attrs"
    BY <1>12 DEF SendAttributes, At
  <2>2. target[a] \in Snapshot
    BY <2>1 DEF SafeTypes, TypeOK, ServerTypeOK, ControlInv, Holding
  <2>3. Attributable(target[a])
    BY <2>2, KeyAssumption DEF FoundInv, Deployable
  <2> QED
    BY <1>12, <2>3 DEF SendAttributes
<1>13. ASSUME NEW a \in Attempts,
              \/ \E k \in Keys, n \in Nonces : ReadRandomPair(a, k, n)
              \/ SetNonceStep(a) \/ SetNonceGivesUp(a)
              \/ UnsetNonceStep(a) \/ UnsetNonceGivesUp(a) \/ Cancel(a)
       PROVE  result' = result
  BY <1>13 DEF ReadRandomPair, SetNonceStep, SetNonceGivesUp, UnsetNonceStep, UnsetNonceGivesUp,
     Cancel
<1>14. ASSUME Elsewhere
       PROVE  result' = result
  BY <1>14 DEF Elsewhere, Crash, Foreign
<1>15. ASSUME NEW a \in Attempts, HandlerMoves(a)
       PROVE  result' = result \/ \E class : Conclude(a, class) /\ Fair(class, a)
  BY <1>7, <1>8, <1>9, <1>10, <1>11, <1>12, <1>13, <1>15 DEF HandlerMoves
<1> HIDE DEF Fair
<1> QED
  BY <1>1, <1>2, <1>3, <1>4, <1>5, <1>6, <1>14, <1>15 DEF ServerMoves

(* The honest agents' invariant, at first and after a step.                *)
LEMMA HonestInit == Deployable /\ AttestationInit => HonestInv
<1> SUFFICES ASSUME Deployable, AttestationInit
             PROVE  HonestInv
  OBVIOUS
<1>1. Init /\ Agent!AgentInit /\ uprooted = {}
  BY DEF AttestationInit
<1>2. PICK pop \in InitialInstances : instances = pop
  BY <1>1 DEF Init, IncusInit
<1>3. PlacesInv
  <2>1. ASSUME NEW s \in Slots, pop[s] # Absent
        PROVE  Mappable(pop[s])
    BY <2>1 DEF Deployable
  <2>2. ASSUME NEW s \in Slots, NEW t \in Slots, pop[s] # Absent, pop[t] # Absent, t # s
        PROVE  NewInstanceUUID(pop[t].uuid) # NewInstanceUUID(pop[s].uuid)
    <3>1. \A r \in Slots : pop[r] # Absent =>
             \A q \in Slots : pop[q] # Absent /\ q # r =>
                NewInstanceUUID(pop[q].uuid) # NewInstanceUUID(pop[r].uuid)
      BY DEF Deployable
    <3> QED
      BY <2>2, <3>1
  <2> QED
    BY <1>2, <2>1, <2>2 DEF PlacesInv, Present
<1>4. RootedInv
  <2>1. \A a \in Attempts : ~ReadInfoDone(a) /\ ~ReadMetaDone(a)
    BY <1>1 DEF Agent!AgentInit, ReadInfoDone, ReadMetaDone, Claimed
  <2>2. \A a \in Attempts : \A slot \in HomeSlots(a) :
           Allowed(slot[1]) /\ ProjectHint \in {"", slot[1]}
    BY <1>2 DEF Deployable, HomeSlots, Present, Allowed
  <2> QED
    BY <2>1, <2>2 DEF RootedInv
<1>5. SearchInv
  BY <1>1 DEF SearchInv, Init
<1>6. FoundInv
  BY <1>1 DEF FoundInv, Init, NoSearch
<1>7. HonestNeverDenied
  BY <1>1 DEF HonestNeverDenied, Init
<1> QED
  BY <1>3, <1>4, <1>5, <1>6, <1>7 DEF HonestInv

LEMMA HonestStep ==
    ASSUME Deployable, TogetherInv, HonestInv, [AttestationNext]_allVars
    PROVE  HonestInv'
<1>0. /\ SafeTypes /\ RequestInv /\ PeerInv
      /\ PlacesInv /\ RootedInv /\ SearchInv /\ FoundInv /\ HonestNeverDenied
  BY DEF TogetherInv, ContractInv, NonceInv, HonestInv
<1>1. FoundInv'
  BY <1>0, StepFits, FoundKept
<1>2. ASSUME NEW a \in Attempts, AgentMoves(a) \/ AgentCanceled(a) \/ DeliverChallenge(a)
      PROVE  HonestInv'
  <2>1. UNCHANGED <<instances, result, uprooted>>
    BY <1>2 DEF AgentMoves, AgentCanceled, DeliverChallenge, vars, incusVars
  <2>2. PlacesInv' /\ HonestNeverDenied'
    BY <1>0, <2>1 DEF PlacesInv, Present, HonestNeverDenied
  <2> QED
    BY <1>0, <1>1, <1>2, <2>2, AgentRooted, AgentSearch DEF HonestInv
<1>3. ASSUME ServerMoves
      PROVE  HonestInv'
  <2>1. uprooted \subseteq uprooted'
    BY <1>3 DEF ServerMoves, DeliverPayload, PayloadLost, ChallengeLeaves, DeliverResponse,
       ResponseLost, HandlerMoves, Elsewhere
  <2>2. HonestNeverDenied'
    BY <1>0, <1>3, <2>1, NoDenial DEF HonestNeverDenied
  <2>3. PlacesInv' /\ RootedInv' /\ SearchInv'
    BY <1>0, <1>3, PlacesKept, ServerRooted, ServerSearch
  <2> QED
    BY <1>1, <2>2, <2>3 DEF HonestInv
<1>4. ASSUME UNCHANGED allVars
      PROVE  HonestInv'
  <2>1. UNCHANGED <<instances, result, uprooted, pc, search, claims, target, stage, offered, gathered>>
    BY <1>4 DEF allVars, vars, incusVars, localVars, agentSide
  <2>2. PlacesInv' /\ HonestNeverDenied'
    BY <1>0, <2>1 DEF PlacesInv, Present, HonestNeverDenied
  <2>3. RootedInv'
    <3>1. \A a \in Attempts : SameHome(a)
      BY <2>1 DEF SameHome, HomeSlots, Present
    <3>2. \A a \in Attempts : (ReadInfoDone(a)' => ReadInfoDone(a)) /\ (ReadMetaDone(a)' => ReadMetaDone(a))
      BY <2>1 DEF ReadInfoDone, ReadMetaDone
    <3>3. ASSUME NEW a \in Attempts \ uprooted
          PROVE  /\ ReadInfoDone(a)' =>
                       /\ HomeSlots(a) # {}
                       /\ \A slot \in HomeSlots(a) :
                             /\ gathered'[a].type = instances[slot].type
                             /\ gathered'[a].location = ResolvedLocation(instances[slot])
                 /\ ReadMetaDone(a)' =>
                       \A slot \in HomeSlots(a) :
                          /\ gathered'[a].name = slot[2]
                          /\ gathered'[a].cloudInitID = instances[slot].cloudInitID
      BY <1>0, <2>1, <3>2 DEF RootedInv, SaysInfo, SaysMeta
    <3> QED
      BY <1>0, <2>1, <3>1, <3>3, RootedKeeps
  <2>4. SearchInv'
    BY <1>0, <2>1 DEF SearchInv, HomeSlots, Present
  <2> QED
    BY <1>1, <2>2, <2>3, <2>4 DEF HonestInv
<1> QED
  BY <1>2, <1>3, <1>4 DEF AttestationNext, ServerMoves

(* In a deployment where agents can be attested, an agent that follows the *)
(* code is never found malformed, and is denied only if its VM was         *)
(* migrated, renamed, moved or deleted meanwhile: no order of the guest's  *)
(* reads, the search, the writes and the messages refuses it.              *)
THEOREM HonestAccepted == Deployable => (AttestationSpec => []HonestNeverDenied)
<1> SUFFICES ASSUME Deployable
             PROVE  AttestationSpec => []HonestNeverDenied
  OBVIOUS
<1>1. AttestationInit => HonestInv
  BY HonestInit
<1>2. TogetherInv /\ HonestInv /\ [AttestationNext]_allVars => HonestInv'
  BY HonestStep
<1>3. HonestInv => HonestNeverDenied
  BY DEF HonestInv
<1> QED
  BY <1>1, <1>2, <1>3, TogetherInvariance, PTL DEF AttestationSpec
=============================================================================
