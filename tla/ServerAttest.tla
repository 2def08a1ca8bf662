---------------------------- MODULE ServerAttest ----------------------------
(***************************************************************************)
(* Service.Attest of internal/server, one handler per attempt, all sharing *)
(* one host client and one Incus: receive claims, resolve one allowed VM,  *)
(* draw a key and a nonce, arm the cleanup, set the nonce, send the        *)
(* challenge, receive and verify the response, run the cleanup, send the   *)
(* attributes.  Every return after arming goes through the cleanup, whose  *)
(* context is detached from the RPC.                                       *)
(*                                                                         *)
(* An error is known by its class, the one mapRPCError tells apart.        *)
(***************************************************************************)
EXTENDS HostClient

CONSTANT Payloads   \* the guest-claims messages that may arrive

ASSUME PayloadAssumption == Payloads \subseteq Payload

VARIABLES
    pc,       \* attempt -> the statement group its handler is in
    rpc,      \* attempt -> whether its RPC context is live
    claims,   \* attempt -> decoded claims, or Absent
    search,   \* attempt -> progress of resolveInstance
    target,   \* attempt -> the resolved snapshot, or Absent
    key,      \* attempt -> its configuration key, or Absent
    nonce,    \* attempt -> its nonce, or Absent
    cleanup,  \* attempt -> the armed cleanup and its outcome
    result,   \* attempt -> class of the returned error, "ok", or "pending"
    attrs,    \* attempt -> the attributes sent, or Absent
    responder \* history: attempt -> the VM whose guest sent the right nonce

localVars == <<claims, search, target, key, nonce, attrs, responder>>
vars == <<incusVars, hostVars, pc, rpc, cleanup, result, localVars>>

ErrorClasses == ContextErrors \cup {"invalid", "denied", "other"}

Active == {"lookup", "draw", "set", "send", "recv", "unset", "attrs"}

Search == [rest    : Seq(Projects),
           matched : Snapshot \cup {Absent},
           matches : Nat]

NoSearch == [rest |-> <<>>, matched |-> Absent, matches |-> 0]

Attributes == [agentID   : UUIDs,
               selectors : SUBSET
                 (({"project", "name", "location", "uuid", "profile"} \cup ConfigKeys)
                  \X (Projects \cup Names \cup Locations \cup {StandaloneLocation}
                      \cup UUIDs \cup Profiles \cup Values \cup Nonces))]

ASSUME AttributesAssumption == Absent \notin Attributes

ServerTypeOK ==
    /\ pc \in [Attempts -> Active \cup {"idle", "done", "crashed"}]
    /\ rpc \in [Attempts -> {"live", "canceled"}]
    /\ claims \in [Attempts -> Claims \cup {Absent}]
    /\ search \in [Attempts -> Search]
    /\ target \in [Attempts -> Snapshot \cup {Absent}]
    /\ key \in [Attempts -> Keys \cup {Absent}]
    /\ nonce \in [Attempts -> Nonces \cup {Absent}]
    /\ cleanup \in [Attempts -> {"none", "armed", "ok", "err"}]
    /\ result \in [Attempts -> ErrorClasses \cup {"pending", "ok"}]
    /\ attrs \in [Attempts -> Attributes \cup {Absent}]
    /\ responder \in [Attempts -> UUIDs \cup {Absent}]

(* The types of all state, of the handlers, the host client and Incus.     *)
TypeOK == IncusTypeOK /\ HostTypeOK /\ ServerTypeOK

Init ==
    /\ IncusInit
    /\ HostInit
    /\ pc = [a \in Attempts |-> "idle"]
    /\ rpc = [a \in Attempts |-> "live"]
    /\ claims = [a \in Attempts |-> Absent]
    /\ search = [a \in Attempts |-> NoSearch]
    /\ target = [a \in Attempts |-> Absent]
    /\ key = [a \in Attempts |-> Absent]
    /\ nonce = [a \in Attempts |-> Absent]
    /\ cleanup = [a \in Attempts |-> "none"]
    /\ result = [a \in Attempts |-> "pending"]
    /\ attrs = [a \in Attempts |-> Absent]
    /\ responder = [a \in Attempts |-> Absent]

-----------------------------------------------------------------------------
(* Returning.                                                              *)

At(a, stage) == pc[a] = stage

Enter(a, stage) == pc' = [pc EXCEPT ![a] = stage]

Conclude(a, class) == result' = [result EXCEPT ![a] = class]

(* armed.run(): UnsetNonce begins, under the detached cleanup context.     *)
RunCleanup(a) == Enter(a, "unset") /\ GoTo(a, "fetch")

(* return err before the cleanup is armed.                                 *)
ReturnError(a, class) ==
    /\ Conclude(a, class)
    /\ Enter(a, "done")
    /\ UNCHANGED <<phase, cleanup>>

(* Mutant: an error return that forgets the armed cleanup.                 *)
ReturnWithoutCleanup(a, class) ==
    /\ Conclude(a, class)
    /\ Enter(a, "done")
    /\ UNCHANGED <<phase, cleanup>>

(* Mutant: the cleanup's nil replaces the error that led to it.            *)
ReturnCleanupOnly(a, class) ==
    /\ RunCleanup(a)
    /\ UNCHANGED <<cleanup, result>>

(* return annotateCleanup(err, armed.run()): the primary class is kept.    *)
ReturnAfterCleanup(a, class) ==
    /\ Conclude(a, class)
    /\ RunCleanup(a)
    /\ UNCHANGED cleanup

(* How a context derived from the RPC context can end: its own timeout, or *)
(* the RPC's cancellation.                                                 *)
ContextEnds(a) ==
    {"deadline"} \cup (IF rpc[a] = "canceled" THEN {"canceled"} ELSE {})

-----------------------------------------------------------------------------
(* Receiving the claims and resolving the VM.                              *)

(* Recv fails, the message is not a payload, or decoding refuses it.       *)
PayloadRejected(a) ==
    /\ At(a, "idle")
    /\ \E class \in {"other", "invalid"} : ReturnError(a, class)
    /\ UNCHANGED <<incusVars, inflight, abandoned, rpc, localVars>>

(* The projects resolveInstance will look in.                              *)
SearchOrder(c) == IF c.project = "" THEN AllowList ELSE <<c.project>>

AllowedHint(c) == c.project = "" \/ \E i \in DOMAIN AllowList : AllowList[i] = c.project

PayloadReceived(a, p) ==
    /\ At(a, "idle")
    /\ claims' = [claims EXCEPT ![a] = IF DecodablePayload(p) THEN DecodePayload(p) ELSE Absent]
    /\ \/ /\ ~DecodablePayload(p)
          /\ ReturnError(a, "invalid")
          /\ UNCHANGED search
       \/ /\ DecodablePayload(p)
          /\ ~ValidateClaims(DecodePayload(p)) \/ ~AllowedHint(DecodePayload(p))
          /\ ReturnError(a, "denied")
          /\ UNCHANGED search
       \/ /\ DecodablePayload(p)
          /\ ValidateClaims(DecodePayload(p))
          /\ AllowedHint(DecodePayload(p))
          /\ search' = [search EXCEPT ![a].rest = SearchOrder(DecodePayload(p))]
          /\ Enter(a, "lookup")
          /\ UNCHANGED <<phase, cleanup, result>>
    /\ UNCHANGED <<incusVars, inflight, abandoned, rpc, target, key, nonce, attrs, responder>>

(* The snapshot found at slot matches the claims.                          *)
Matches(a, slot) ==
    /\ Present(slot)
    /\ MatchClaims(claims[a], MapInstance(slot, instances[slot]))

(* One turn of the search: an API record that cannot be mapped is an error *)
(* that ends the search, a missing or non-matching instance is passed by.  *)
Lookup(a) ==
    LET slot == <<Head(search[a].rest), claims[a].name>> IN
    /\ At(a, "lookup")
    /\ rpc[a] = "live"
    /\ search[a].rest # <<>>
    /\ \/ /\ Present(slot) /\ ~Mappable(instances[slot])
          /\ ReturnError(a, "denied")
          /\ UNCHANGED search
       \/ /\ Present(slot) => Mappable(instances[slot])
          /\ search' = [search EXCEPT ![a] =
                [rest    |-> Tail(@.rest),
                 matched |-> IF Matches(a, slot)
                             THEN MapInstance(slot, instances[slot]) ELSE @.matched,
                 matches |-> IF Matches(a, slot) THEN @.matches + 1 ELSE @.matches]]
          /\ UNCHANGED <<phase, pc, cleanup, result>>
    /\ UNCHANGED <<incusVars, inflight, abandoned, rpc, claims, target, key, nonce, attrs, responder>>

(* Mutant: the last of several matches is taken.                           *)
AnyMatch(a) == search[a].matches >= 1

UniqueMatch(a) == search[a].matches = 1

(* The switch on the number of matches after the last project.             *)
Resolve(a) ==
    /\ At(a, "lookup")
    /\ search[a].rest = <<>>
    /\ search' = [search EXCEPT ![a] = NoSearch]
    /\ \/ /\ UniqueMatch(a)
          /\ target' = [target EXCEPT ![a] = search[a].matched]
          /\ Enter(a, "draw")
          /\ UNCHANGED <<phase, cleanup, result>>
       \/ /\ ~UniqueMatch(a)
          /\ ReturnError(a, "denied")
          /\ UNCHANGED target
    /\ UNCHANGED <<incusVars, inflight, abandoned, rpc, claims, key, nonce, attrs, responder>>

(* A lookup fails: refused by Incus, or its context ended.  No retry.      *)
LookupFails(a) ==
    /\ At(a, "lookup")
    /\ search[a].rest # <<>>
    /\ \E class \in {"other"} \cup ContextEnds(a) : ReturnError(a, class)
    /\ search' = [search EXCEPT ![a] = NoSearch]
    /\ UNCHANGED <<incusVars, inflight, abandoned, rpc, claims, target, key, nonce, attrs, responder>>

-----------------------------------------------------------------------------
(* The challenge.                                                          *)

(* Both values are fresh: 16 random bytes do not repeat.                   *)
Fresh(k, n) == \A b \in Attempts : key[b] # k /\ nonce[b] # n

(* readRandomPair, arming the cleanup, and the call of SetNonce.           *)
ReadRandomPair(a, k, n) ==
    /\ At(a, "draw")
    /\ Fresh(k, n)
    /\ key' = [key EXCEPT ![a] = k]
    /\ nonce' = [nonce EXCEPT ![a] = n]
    /\ cleanup' = [cleanup EXCEPT ![a] = "armed"]
    /\ Enter(a, "set")
    /\ GoTo(a, "fetch")
    /\ UNCHANGED <<incusVars, inflight, abandoned, rpc, result, claims, search, target, attrs, responder>>

RandomFails(a) ==
    /\ At(a, "draw")
    /\ ReturnError(a, "other")
    /\ UNCHANGED <<incusVars, inflight, abandoned, rpc, localVars>>

(* SetNonce at work.  A request is only begun under a live context.        *)
SetNonceStep(a) ==
    /\ At(a, "set")
    /\ rpc[a] = "live" \/ phase[a] # "fetch"
    /\ MutateStep(a, target[a], key[a], nonce[a])
    /\ UNCHANGED <<pc, rpc, cleanup, result, localVars>>

SetNonceGivesUp(a) ==
    /\ At(a, "set")
    /\ \E err \in ContextEnds(a) : GiveUp(a, nonce[a], err)
    /\ UNCHANGED <<pc, rpc, cleanup, result, localVars>>

SetNonceReturns(a) ==
    /\ At(a, "set")
    /\ phase[a] \in Returned
    /\ \/ /\ phase[a] = "ok"
          /\ Enter(a, "send")
          /\ GoTo(a, "idle")
          /\ UNCHANGED <<cleanup, result>>
       \/ /\ phase[a] # "ok"
          /\ ReturnAfterCleanup(a, phase[a])
    /\ UNCHANGED <<incusVars, inflight, abandoned, rpc, localVars>>

SendChallenge(a) ==
    /\ At(a, "send")
    /\ \/ /\ Enter(a, "recv")
          /\ UNCHANGED <<phase, cleanup, result>>
       \/ ReturnAfterCleanup(a, "other")
    /\ UNCHANGED <<incusVars, inflight, abandoned, rpc, localVars>>

(* What a guest of vm can answer: a nonce it could read in its own         *)
(* configuration, or something that is no nonce of this server.            *)
Answers(vm) == {e[2] : e \in {x \in exposed : x[1] = vm}} \cup {Absent}

ReceiveResponse(a, vm, got) ==
    /\ At(a, "recv")
    /\ \/ /\ VerifyNonce(nonce[a], got)
          /\ responder' = [responder EXCEPT ![a] = vm]
          /\ RunCleanup(a)
          /\ UNCHANGED <<cleanup, result>>
       \/ /\ ~VerifyNonce(nonce[a], got)
          /\ ReturnAfterCleanup(a, "denied")
          /\ UNCHANGED responder
    /\ UNCHANGED <<incusVars, inflight, abandoned, rpc, claims, search, target, key, nonce, attrs>>

(* Recv fails, the message is malformed, or the context ends first.        *)
ResponseFails(a) ==
    /\ At(a, "recv")
    /\ \E class \in {"other", "invalid"} \cup ContextEnds(a) : ReturnAfterCleanup(a, class)
    /\ UNCHANGED <<incusVars, inflight, abandoned, rpc, localVars>>

-----------------------------------------------------------------------------
(* The cleanup and the verdict.                                            *)

(* UnsetNonce at work: the RPC's cancellation does not reach it.           *)
UnsetNonceStep(a) ==
    /\ At(a, "unset")
    /\ MutateStep(a, target[a], key[a], Absent)
    /\ UNCHANGED <<pc, rpc, cleanup, result, localVars>>

(* Mutant: the detached cleanup context has no timeout.                    *)
UnsetNonceNeverGivesUp(a) == At(a, "unset") /\ FALSE /\ UNCHANGED vars

(* Mutant: the cleanup runs under the RPC's own context.                   *)
UnsetNonceInheritsRPC(a) ==
    /\ At(a, "unset")
    /\ \E err \in ContextEnds(a) : GiveUp(a, Absent, err)
    /\ UNCHANGED <<pc, rpc, cleanup, result, localVars>>

UnsetNonceGivesUp(a) ==
    /\ At(a, "unset")
    /\ GiveUp(a, Absent, "deadline")
    /\ UNCHANGED <<pc, rpc, cleanup, result, localVars>>

(* Mutant: the cleanup outcome replaces the primary error.                 *)
CleanupOutcomeWins(primary, clean) == clean

(* With a primary error, that one; without, the cleanup's, if any.         *)
AnnotateCleanup(primary, clean) ==
    IF primary = "pending" /\ clean # "ok" THEN clean ELSE primary

CleanupReturns(a) ==
    /\ At(a, "unset")
    /\ phase[a] \in Returned
    /\ cleanup' = [cleanup EXCEPT ![a] = IF phase[a] = "ok" THEN "ok" ELSE "err"]
    /\ GoTo(a, "idle")
    /\ Conclude(a, AnnotateCleanup(result[a], phase[a]))
    /\ Enter(a, IF result'[a] = "pending" THEN "attrs" ELSE "done")
    /\ UNCHANGED <<incusVars, inflight, abandoned, rpc, localVars>>

SendAttributes(a) ==
    /\ At(a, "attrs")
    /\ \/ /\ Attributable(target[a])
          /\ attrs' = [attrs EXCEPT ![a] = BuildAttributes(target[a])]
          /\ Conclude(a, "ok")
       \/ /\ Attributable(target[a])
          /\ Conclude(a, "other")
          /\ UNCHANGED attrs
       \/ /\ ~Attributable(target[a])
          /\ Conclude(a, "denied")
          /\ UNCHANGED attrs
    /\ Enter(a, "done")
    /\ UNCHANGED <<incusVars, hostVars, rpc, cleanup, claims, search, target, key, nonce, responder>>

-----------------------------------------------------------------------------
(* The RPC is cancelled by SPIRE or by the peer going away.                *)
Cancel(a) ==
    /\ "cancel" \in Disturbances
    /\ pc[a] \in Active
    /\ rpc[a] = "live"
    /\ rpc' = [rpc EXCEPT ![a] = "canceled"]
    /\ UNCHANGED <<incusVars, hostVars, pc, cleanup, result, localVars>>

(* The plugin process dies; outstanding requests are already on the wire.  *)
Crash ==
    LET running == {a \in Attempts : pc[a] \in Active}
        sent    == {inflight[a] : a \in running} \ {Absent} IN
    /\ "crash" \in Disturbances
    /\ running # {}
    /\ pc' = [a \in Attempts |-> IF a \in running THEN "crashed" ELSE pc[a]]
    /\ phase' = [a \in Attempts |-> IF a \in running THEN "idle" ELSE phase[a]]
    /\ strays' = strays \cup sent
    /\ inflight' = [a \in Attempts |-> IF a \in running THEN Absent ELSE inflight[a]]
    /\ abandoned' = abandoned \cup {a \in running : At(a, "set") /\ inflight[a] # Absent}
    /\ UNCHANGED <<instances, exposed, moved, rpc, cleanup, result, localVars>>

(* The statements of one handler, the passing of its deadlines included.   *)
Handler(a) ==
    \/ Lookup(a) \/ Resolve(a) \/ LookupFails(a)
    \/ \E k \in Keys, n \in Nonces : ReadRandomPair(a, k, n)
    \/ RandomFails(a)
    \/ SetNonceGivesUp(a) \/ SetNonceReturns(a)
    \/ SendChallenge(a)
    \/ \E vm \in UUIDs : \E got \in Answers(vm) : ReceiveResponse(a, vm, got)
    \/ ResponseFails(a)
    \/ UnsetNonceGivesUp(a) \/ CleanupReturns(a)
    \/ SendAttributes(a)

Foreign ==
    /\ ForeignStep
    /\ UNCHANGED <<hostVars, pc, rpc, cleanup, result, localVars>>

Next ==
    \/ \E a \in Attempts :
        \/ PayloadRejected(a)
        \/ \E p \in Payloads : PayloadReceived(a, p)
        \/ Handler(a)
        \/ SetNonceStep(a)
        \/ UnsetNonceStep(a)
        \/ Cancel(a)
    \/ Crash
    \/ Foreign

Spec == Init /\ [][Next]_vars

(* Every wait of a handler ends: each of its contexts has a timeout, Send  *)
(* and the random reader return.  Nothing is assumed of the peer, and      *)
(* nothing of Incus: an update may be answered late or never.              *)
Fairness == \A a \in Attempts : WF_vars(Handler(a))

FairSpec == Spec /\ Fairness
-----------------------------------------------------------------------------
(* Properties.                                                             *)

(* The attributes an attempt sends name the VM it resolved, and a guest of *)
(* that very VM sent the response: whatever claims a peer made, Attest     *)
(* vouches for the VM whose configuration the peer could read.             *)
Residency ==
    \A a \in Attempts : attrs[a] # Absent =>
        /\ attrs[a].agentID = target[a].uuid
        /\ responder[a] = target[a].uuid

(* A nonce is never readable in any VM but the one its attempt resolved,   *)
(* whatever happened to the instance between Lookup and a write, early or  *)
(* late: mutateOnce revalidates the target and writes under its ETag.      *)
NonceReachesOnlyTarget ==
    \A a \in Attempts, e \in exposed :
        e[2] = nonce[a] => target[a] # Absent /\ e[1] = target[a].uuid

(* A write that changes the challenge keys of an instance changes exactly  *)
(* one of them and nothing else of the instance: no operator edit and no   *)
(* other attempt's key is undone by the read-modify-write of mutateOnce.   *)
KeyOnlyUpdates ==
    [][\A slot \in Slots :
         LET old == instances[slot]
             new == instances'[slot] IN
         (/\ old # Absent
          /\ new # Absent
          /\ NewInstanceUUID(old.uuid) = NewInstanceUUID(new.uuid)
          /\ \E k \in Keys : old.config[k] # new.config[k])
         => \E k \in Keys : new = [old EXCEPT !.config[k] = new.config[k]]]_vars

(* Attest returns only after the armed cleanup ran, on every path, and     *)
(* succeeds only if the cleanup did (the deferred and explicit run calls). *)
(* "Cleanup uses its own deadline so RPC cancellation cannot skip the      *)
(* unset" (docs/docs/explanation/security-model.md:117): whenever the RPC  *)
(* is cancelled, no UnsetNonce ends by it, and an attempt comes out as     *)
(* cancelled only if its RPC was and no right answer had come before.      *)
CleanupBeforeReturn ==
    \A a \in Attempts :
        /\ At(a, "done") /\ key[a] # Absent => cleanup[a] \in {"ok", "err"}
        /\ result[a] = "ok" => cleanup[a] = "ok"
        /\ At(a, "unset") => phase[a] # "canceled"
        /\ result[a] = "canceled" => rpc[a] = "canceled" /\ responder[a] = Absent

(* The first error of an attempt is the one it returns: neither a failed   *)
(* cleanup nor a good one, nor anything after it, changes its class        *)
(* (annotateCleanup on every return).                                      *)
FirstErrorKept ==
    [][\A a \in Attempts : result[a] # "pending" => result'[a] = result[a]]_vars

Resident(a) ==
    \E slot \in Slots : Present(slot) /\ key[a] \in NonceKeysOf(instances[slot])

(* When a cleanup reports success, the key is in no configuration, unless  *)
(* the attempt gave up on a set request that Incus may apply later, or the *)
(* VM was renamed or moved: there UnsetNonce takes a 404 for success.      *)
ResidueExplained ==
    \A a \in Attempts : cleanup[a] = "ok" /\ Resident(a) =>
        a \in abandoned \/ target[a].uuid \in moved

(* A successful cleanup leaves no key: "The server unsets the exact        *)
(* attempt key after each attempt, including cancellation and an unknown   *)
(* write outcome" (docs/docs/explanation/security-model.md:116).           *)
CleanupLeavesNoKey ==
    \A a \in Attempts : cleanup[a] = "ok" => ~Resident(a)

(* The allowed slots that hold an instance matching c.                     *)
Candidates(c) ==
    {slot \in Slots :
        /\ \E i \in DOMAIN AllowList : AllowList[i] = slot[1]
        /\ Present(slot)
        /\ Mappable(instances[slot])
        /\ MatchClaims(c, MapInstance(slot, instances[slot]))}

(* Nobody moves, migrates, creates or deletes instances, and the allow     *)
(* list has no duplicate, as the configuration requires.                   *)
SteadyIdentities ==
    /\ Disturbances \cap {"migrate", "delete", "create", "relocate"} = {}
    /\ \A i, j \in DOMAIN AllowList : AllowList[i] = AllowList[j] => i = j

(* With SteadyIdentities, resolveInstance finds the one allowed instance   *)
(* that matches the claims, and denies only when there is no such instance *)
(* or more than one, or a looked-up record is malformed.                   *)
ResolutionCorrect ==
    \A a \in Attempts : claims[a] # Absent =>
        /\ target[a] # Absent => Candidates(claims[a]) = {SlotOf(target[a])}
        /\ result[a] = "denied" /\ target[a] = Absent =>
              \/ Cardinality(Candidates(claims[a])) # 1
              \/ \E i \in DOMAIN SearchOrder(claims[a]) :
                    LET slot == <<SearchOrder(claims[a])[i], claims[a].name>> IN
                    Present(slot) /\ ~Mappable(instances[slot])

(* An attempt that received its payload returns, with its cleanup run if   *)
(* it was armed, or dies with the process: no cancellation, lost update,   *)
(* conflict or silent peer keeps Attest from returning.                    *)
EveryAttemptReturns ==
    \A a \in Attempts :
        pc[a] \in Active ~>
            \/ pc[a] = "crashed"
            \/ pc[a] = "done" /\ (key[a] = Absent \/ cleanup[a] \in {"ok", "err"})

(* The contract the handlers implement together with the host client.      *)
Challenged == {"set", "send", "recv", "unset"}

Contract == INSTANCE NonceChallenge WITH
    VMs <- UUIDs,
    None <- Absent,
    stage <- [a \in Attempts |->
                CASE result[a] = "ok" -> "granted"
                  [] result[a] \notin {"ok", "pending"} -> "refused"
                  [] result[a] = "pending" /\ pc[a] = "crashed" -> "lost"
                  [] result[a] = "pending" /\ pc[a] = "attrs" -> "withdrawn"
                  [] result[a] = "pending" /\ pc[a] \in Challenged -> "challenged"
                  [] OTHER -> "open"],
    bound <- [a \in Attempts |-> IF key[a] = Absent THEN Absent ELSE target[a].uuid],
    shown <- {x \in Attempts \X (UUIDs \cup {""}) : <<x[2], nonce[x[1]]>> \in exposed},
    agent <- [a \in Attempts |-> IF attrs[a] = Absent THEN Absent ELSE attrs[a].agentID]

(* Every step of the handlers, the host client and Incus is a step of the  *)
(* challenge contract: one VM per attempt, the nonce shown to it alone,    *)
(* its identity granted after it was shown and withdrawn.                  *)
ImplementsContract == Contract!Spec
=============================================================================
