------------------------ MODULE ServerContractProofs ------------------------
(***************************************************************************)
(* For every instance of the constants: the handlers, the host client and  *)
(* Incus together implement the contract of NonceChallenge, a key left     *)
(* behind by a cleanup that reported success has one of two causes, and    *)
(* resolveInstance finds the one match there is.                           *)
(*                                                                         *)
(* The contract.  What an attempt has come to is read off its result and   *)
(* its statement; only its own statements move it, a crash moves all.  A   *)
(* nonce becomes readable in one way only, by a write of its own attempt   *)
(* that Incus applies, at once or late: every other record that is stored  *)
(* shows nothing that was not shown before.                                *)
(*                                                                         *)
(* The residue.  A key stays at the slot its attempt put it in unless its  *)
(* VM moves, and after the cleanup only a request that SetNonce has given  *)
(* up on can bring it back.  So it is enough that UnsetNonce looks there.  *)
(*                                                                         *)
(* The resolution.  While no instance changes place or identity, what has  *)
(* been counted are the matches among the projects already looked in.      *)
(***************************************************************************)
EXTENDS ServerAttestProofs, FiniteSetTheorems

(* Whatever a stored configuration shows has been recorded as shown.       *)
RevealedInv ==
    \A slot \in Slots : Present(slot) => Reveals(instances[slot]) \subseteq exposed

(* Before its cleanup, and after a good one, an attempt has no verdict;    *)
(* an attempt that may still be granted has shown its nonce to its VM.     *)
ProgressInv ==
    \A a \in Attempts :
        /\ pc[a] \in {"idle", "lookup", "draw", "set", "send", "recv", "attrs"}
              => result[a] = "pending"
        /\ pc[a] = "attrs" \/ (pc[a] = "unset" /\ result[a] = "pending")
              => <<target[a].uuid, nonce[a]>> \in exposed

ContractInv == SafeTypes /\ NonceInv /\ RevealedInv /\ ProgressInv

-----------------------------------------------------------------------------
(* What a step shows.                                                      *)

(* The nonce of attempt b, readable in its target.                         *)
PairOf(b) == <<target[b].uuid, nonce[b]>>

(* Storing a record records what it shows.                                 *)
LEMMA StoreRevealed ==
    ASSUME SafeTypes, RevealedInv, NEW slot \in Slots, NEW rec, Store(slot, rec)
    PROVE  RevealedInv'
<1>1. instances' = [instances EXCEPT ![slot] = rec] /\ exposed' = exposed \cup Reveals(rec)
  BY DEF Store
<1>2. instances \in [Slots -> Record \cup {Absent}]
  BY DEF SafeTypes, TypeOK, IncusTypeOK
<1>3. ASSUME NEW s \in Slots, instances'[s] # Absent
      PROVE  Reveals(instances'[s]) \subseteq exposed'
  <2>1. CASE s = slot
    BY <1>1, <1>2, <2>1
  <2>2. CASE s # slot
    BY <1>1, <1>2, <1>3, <2>2 DEF RevealedInv, Present
  <2> QED
    BY <2>1, <2>2
<1> QED
  BY <1>3 DEF RevealedInv, Present

(* A record with the UUID of another and no challenge key more shows no    *)
(* more.                                                                   *)
LEMMA FewerKeysReveal ==
    ASSUME NEW old, NEW new, new.uuid = old.uuid,
           \A k \in Keys : new.config[k] \in {old.config[k], Absent}
    PROVE  Reveals(new) \subseteq Reveals(old)
<1>1. \A k \in NonceKeysOf(new) : k \in NonceKeysOf(old) /\ new.config[k] = old.config[k]
  BY DEF NonceKeysOf
<1> QED
  BY <1>1 DEF Reveals

(* An applied request shows its sender's nonce to its sender's target, or  *)
(* nothing new.                                                            *)
LEMMA AppliedReveals ==
    ASSUME SafeTypes, RevealedInv, NEW q \in Request, ETagMatches(q), ApplyRequest(q),
           OwnKeyOnly(q, key, nonce, target)
    PROVE  /\ RevealedInv'
           /\ q.by \in Attempts /\ key[q.by] # Absent
           /\ exposed' = exposed \/ exposed' = exposed \cup {PairOf(q.by)}
<1> DEFINE old == instances[q.slot]
           new == Rewritten(old, q.body)
<1>1. old \in Record /\ new \in Record /\ q.by \in Attempts /\ q.slot \in Slots
  BY AppliedRecord DEF SafeTypes, TypeOK, Request
<1>2. old.uuid = q.etag.uuid /\ old.config = q.etag.config
  BY DEF ETagMatches, Writable
<1>3. new.uuid = q.body.uuid /\ new.config = q.body.config
  BY <1>1 DEF Rewritten, Record
<1>4. new.uuid = old.uuid /\ NewInstanceUUID(new.uuid) = target[q.by].uuid
  BY <1>2, <1>3 DEF OwnKeyOnly
<1>5. PICK n \in {nonce[q.by], Absent} : new.config = [old.config EXCEPT ![key[q.by]] = n]
  BY <1>2, <1>3 DEF OwnKeyOnly
<1>6. old.config \in [ConfigKeys -> Values \cup Nonces \cup {Absent}]
  BY <1>1 DEF Record, Config
<1>7. Reveals(old) \subseteq exposed
  BY <1>1 DEF RevealedInv, ETagMatches
<1>8. ASSUME NEW e \in Reveals(new)
      PROVE  e \in exposed \/ e = PairOf(q.by)
  <2>1. PICK k \in NonceKeysOf(new) : e = <<NewInstanceUUID(new.uuid), new.config[k]>>
    BY <1>8 DEF Reveals
  <2>2. k \in Keys /\ new.config[k] # Absent /\ k \in ConfigKeys
    BY DEF NonceKeysOf, ConfigKeys
  <2>3. CASE k = key[q.by]
    BY <1>4, <1>5, <1>6, <2>1, <2>2, <2>3 DEF PairOf
  <2>4. CASE k # key[q.by]
    <3>1. new.config[k] = old.config[k]
      BY <1>5, <1>6, <2>2, <2>4
    <3>2. e \in Reveals(old)
      BY <1>4, <2>1, <2>2, <3>1 DEF NonceKeysOf, Reveals
    <3> QED
      BY <1>7, <3>2
  <2> QED
    BY <2>3, <2>4
<1>9. Store(q.slot, new) /\ exposed' = exposed \cup Reveals(new)
  BY DEF ApplyRequest, Store
<1>10. RevealedInv'
  BY <1>1, <1>9, StoreRevealed
<1>11. exposed' = exposed \/ exposed' = exposed \cup {PairOf(q.by)}
  BY <1>8, <1>9
<1> QED
  BY <1>1, <1>10, <1>11 DEF OwnKeyOnly

(* The step shows nothing new, or the nonce of one attempt to its target.  *)
ShowsOwn ==
    \/ exposed' = exposed
    \/ \E b \in Attempts : key[b] # Absent /\ exposed' = exposed \cup {PairOf(b)}

(* What others do in Incus shows nothing new, but for a late request.      *)
LEMMA ForeignReveals ==
    ASSUME SafeTypes, RevealedInv, RequestInv, ForeignStep
    PROVE  RevealedInv' /\ ShowsOwn
<1>t. /\ instances \in [Slots -> Record \cup {Absent}]
      /\ strays \subseteq Request
  BY DEF SafeTypes, TypeOK, IncusTypeOK
<1>s. ASSUME NEW slot \in Slots, Present(slot), NEW old, old = instances[slot], NEW new,
             Store(slot, new), new.uuid = old.uuid,
             \A k \in Keys : new.config[k] \in {old.config[k], Absent}
      PROVE  RevealedInv' /\ ShowsOwn
  <2>1. Reveals(new) \subseteq exposed
    BY <1>s, FewerKeysReveal DEF RevealedInv
  <2> QED
    BY <1>s, <2>1, StoreRevealed DEF Store, ShowsOwn
<1>1. ASSUME NEW slot \in Slots, NEW k \in UserKeys, NEW v, OperatorEdit(slot, k, v)
      PROVE  RevealedInv' /\ ShowsOwn
  <2>1. PICK old \in Record : old = instances[slot]
    BY <1>t, <1>1 DEF OperatorEdit, Present
  <2>2. PICK new : new = [old EXCEPT !.config[k] = v]
    OBVIOUS
  <2>3. new.uuid = old.uuid /\ new.config = [old.config EXCEPT ![k] = v]
    BY <2>2 DEF Record
  <2>4. \A j \in Keys : new.config[j] \in {old.config[j], Absent}
    BY <2>3, KeyAssumption DEF Record, Config, ConfigKeys
  <2>5. Present(slot) /\ Store(slot, new)
    BY <1>1, <2>1, <2>2 DEF OperatorEdit
  <2> QED
    BY <1>s, <2>1, <2>3, <2>4, <2>5
<1>2. ASSUME NEW slot \in Slots, NEW k \in Keys, OperatorDropsKey(slot, k)
      PROVE  RevealedInv' /\ ShowsOwn
  <2>1. PICK old \in Record : old = instances[slot]
    BY <1>t, <1>2 DEF OperatorDropsKey, Present
  <2>2. PICK new : new = [old EXCEPT !.config[k] = Absent]
    OBVIOUS
  <2>3. new.uuid = old.uuid /\ new.config = [old.config EXCEPT ![k] = Absent]
    BY <2>2 DEF Record
  <2>4. \A j \in Keys : new.config[j] \in {old.config[j], Absent}
    BY <2>3 DEF Record, Config, ConfigKeys
  <2>5. Present(slot) /\ Store(slot, new)
    BY <1>2, <2>1, <2>2 DEF OperatorDropsKey
  <2> QED
    BY <1>s, <2>1, <2>3, <2>4, <2>5
<1>3. ASSUME NEW slot \in Slots, NEW loc, Migrate(slot, loc)
      PROVE  RevealedInv' /\ ShowsOwn
  <2>1. PICK old \in Record : old = instances[slot]
    BY <1>t, <1>3 DEF Migrate, Present
  <2>2. PICK new : new = [old EXCEPT !.location = loc]
    OBVIOUS
  <2>3. new.uuid = old.uuid /\ new.config = old.config
    BY <2>2 DEF Record
  <2> QED
    BY <1>3, <1>s, <2>1, <2>2, <2>3 DEF Migrate
<1>4. ASSUME NEW slot \in Slots, Delete(slot)
      PROVE  RevealedInv' /\ ShowsOwn
  BY <1>t, <1>4 DEF Delete, RevealedInv, ShowsOwn, Present
<1>5. ASSUME NEW slot \in Slots, NEW rec, Create(slot, rec)
      PROVE  RevealedInv' /\ ShowsOwn
  <2>1. Reveals(rec) = {} /\ Store(slot, rec)
    BY <1>5 DEF Create, Reveals
  <2> QED
    BY <2>1, StoreRevealed DEF Store, ShowsOwn
<1>6. ASSUME NEW from \in Slots, NEW to \in Slots, Relocate(from, to)
      PROVE  RevealedInv' /\ ShowsOwn
  <2>1. /\ Present(from) /\ from # to
        /\ instances' = [instances EXCEPT ![from] = Absent, ![to] = instances[from]]
        /\ exposed' = exposed
    BY <1>6 DEF Relocate, Present
  <2>2. \A s \in Slots : instances'[s] = IF s = to THEN instances[from]
                                         ELSE IF s = from THEN Absent ELSE instances[s]
    BY <1>t, <2>1
  <2> QED
    BY <2>1, <2>2 DEF RevealedInv, ShowsOwn, Present
<1>7. ASSUME NEW q \in strays, StrayApplied(q)
      PROVE  RevealedInv' /\ ShowsOwn
  <2>1. q \in Request /\ OwnKeyOnly(q, key, nonce, target) /\ ETagMatches(q) /\ ApplyRequest(q)
    BY <1>t, <1>7 DEF RequestInv, StrayApplied
  <2> QED
    BY <2>1, AppliedReveals DEF ShowsOwn
<1> QED
  BY <1>1, <1>2, <1>3, <1>4, <1>5, <1>6, <1>7 DEF ForeignStep

(* The whole step.  A step that shows a nonce does nothing else to the     *)
(* attempts.                                                               *)
LEMMA NextReveals ==
    ASSUME SafeTypes, RequestInv, RevealedInv, [Next]_vars
    PROVE  /\ RevealedInv'
           /\ ShowsOwn
           /\ exposed' = exposed \/ UNCHANGED <<pc, result, localVars>>
<1>u. ASSUME UNCHANGED <<instances, exposed>>
      PROVE  RevealedInv' /\ ShowsOwn
  BY <1>u DEF RevealedInv, ShowsOwn, Present
<1>1. ASSUME NEW a \in Attempts, SetNonceStep(a) \/ UnsetNonceStep(a)
      PROVE  RevealedInv' /\ ShowsOwn /\ UNCHANGED <<pc, result, localVars>>
  <2>1. UNCHANGED <<pc, result, localVars>>
    BY <1>1 DEF SetNonceStep, UnsetNonceStep
  <2>2. UNCHANGED <<instances, exposed>> \/ UpdateApplied(a)
    BY <1>1 DEF SetNonceStep, UnsetNonceStep, MutateStep, MutateOnce, FetchRefused, UpdateRetried,
        UpdateRefused, UpdateLost, WaitSucceeds, WaitFails, incusVars
  <2>3. CASE UpdateApplied(a)
    <3>1. inflight[a] \in Request /\ OwnKeyOnly(inflight[a], key, nonce, target)
      BY <2>3 DEF UpdateApplied, RequestInv, SafeTypes, TypeOK, HostTypeOK
    <3> QED
      BY <2>1, <2>3, <3>1, AppliedReveals DEF UpdateApplied, ShowsOwn
  <2> QED
    BY <1>u, <2>1, <2>2, <2>3
<1>2. ASSUME NEW a \in Attempts, Handler(a)
      PROVE  UNCHANGED <<instances, exposed>>
  BY <1>2 DEF Handler, Lookup, Resolve, LookupFails, ReadRandomPair, RandomFails, GiveUp,
      SetNonceGivesUp, SetNonceReturns, SendChallenge, ReceiveResponse, ResponseFails,
      UnsetNonceGivesUp, CleanupReturns, SendAttributes, incusVars
<1>3. ASSUME NEW a \in Attempts,
             \/ PayloadRejected(a) \/ Cancel(a)
             \/ \E p \in Payloads : PayloadReceived(a, p)
      PROVE  UNCHANGED <<instances, exposed>>
  BY <1>3 DEF PayloadRejected, PayloadReceived, Cancel, incusVars
<1>4. ASSUME Crash \/ UNCHANGED vars
      PROVE  UNCHANGED <<instances, exposed>>
  BY <1>4 DEF Crash, vars, incusVars
<1>5. CASE Foreign
  BY <1>5, ForeignReveals DEF Foreign
<1> QED
  BY <1>u, <1>1, <1>2, <1>3, <1>4, <1>5 DEF Next

-----------------------------------------------------------------------------
(* Progress.                                                               *)

(* A step of attempt a alone.                                              *)
LEMMA OneProgress ==
    ASSUME SafeTypes, Settled, ProgressInv, exposed \subseteq exposed', NEW a \in Attempts,
           \A b \in Attempts : b # a => pc'[b] = pc[b] /\ result'[b] = result[b],
           pc'[a] \in {"idle", "lookup", "draw", "set", "send", "recv", "attrs"}
              => result'[a] = "pending",
           pc'[a] = "attrs" \/ (pc'[a] = "unset" /\ result'[a] = "pending")
              => <<target'[a].uuid, nonce'[a]>> \in exposed'
    PROVE  ProgressInv'
<1>1. ASSUME NEW b \in Attempts, b # a,
             pc[b] = "attrs" \/ (pc[b] = "unset" /\ result[b] = "pending")
      PROVE  <<target'[b].uuid, nonce'[b]>> \in exposed'
  <2>1. key[b] # Absent
    BY <1>1 DEF SafeTypes, ControlInv, Holding
  <2>2. target'[b] = target[b] /\ nonce'[b] = nonce[b]
    BY <2>1 DEF Settled
  <2> QED
    BY <1>1, <2>2 DEF ProgressInv
<1> QED
  BY <1>1 DEF ProgressInv

(* A step that moves no attempt on, or breaks some off.                    *)
LEMMA SameProgress ==
    ASSUME SafeTypes, Settled, ProgressInv, exposed \subseteq exposed', result' = result,
           \A b \in Attempts : pc'[b] \in {pc[b], "crashed"}
    PROVE  ProgressInv'
<1>1. ASSUME NEW b \in Attempts,
             pc[b] = "attrs" \/ (pc[b] = "unset" /\ result[b] = "pending")
      PROVE  <<target'[b].uuid, nonce'[b]>> \in exposed'
  <2>1. key[b] # Absent
    BY <1>1 DEF SafeTypes, ControlInv, Holding
  <2>2. target'[b] = target[b] /\ nonce'[b] = nonce[b]
    BY <2>1 DEF Settled
  <2> QED
    BY <1>1, <2>2 DEF ProgressInv
<1> QED
  BY <1>1 DEF ProgressInv

(* The right answer comes from a guest that read the nonce in the target.  *)
LEMMA AnswerWasShown ==
    ASSUME SafeTypes, DistinctInv, ExposedInv, NEW a \in Attempts, At(a, "recv"),
           NEW vm \in UUIDs, NEW got \in Answers(vm), VerifyNonce(nonce[a], got)
    PROVE  <<target[a].uuid, nonce[a]>> \in exposed
<1>1. nonce[a] # Absent
  BY DEF At, SafeTypes, ControlInv, Holding
<1>2. PICK e \in exposed : e[1] = vm /\ e[2] = nonce[a]
  BY <1>1 DEF Answers, VerifyNonce
<1>3. e = <<e[1], e[2]>>
  BY <1>2 DEF ExposedInv, OwnPair
<1> QED
  BY <1>2, <1>3, OnlyTargetAnswers

(* The whole step.                                                         *)
LEMMA NextProgress ==
    ASSUME ContractInv, [Next]_vars
    PROVE  ProgressInv'
<1>0. /\ Settled /\ exposed \subseteq exposed'
      /\ SafeTypes /\ ProgressInv /\ DistinctInv /\ ExposedInv
  BY NextSettles, NextReveals DEF ContractInv, NonceInv, ShowsOwn
<1>t. /\ pc \in [Attempts -> Active \cup {"idle", "done", "crashed"}]
      /\ result \in [Attempts -> ErrorClasses \cup {"pending", "ok"}]
  BY <1>0 DEF SafeTypes, TypeOK, ServerTypeOK
<1>s. ASSUME UNCHANGED <<pc, result>> PROVE ProgressInv'
  BY <1>0, <1>s, SameProgress
<1>e. ASSUME NEW a \in Attempts, NEW class, ReturnError(a, class)
      PROVE  ProgressInv'
  <2>1. /\ pc'[a] = "done"
        /\ \A b \in Attempts : b # a => pc'[b] = pc[b] /\ result'[b] = result[b]
    BY <1>t, <1>e DEF ReturnError, Conclude, Enter
  <2> QED
    BY <1>0, <2>1, OneProgress
<1>c. ASSUME NEW a \in Attempts, NEW class, class # "pending", ReturnAfterCleanup(a, class)
      PROVE  ProgressInv'
  <2>1. /\ pc'[a] = "unset" /\ result'[a] = class
        /\ \A b \in Attempts : b # a => pc'[b] = pc[b] /\ result'[b] = result[b]
    BY <1>t, <1>c DEF ReturnAfterCleanup, RunCleanup, Conclude, Enter
  <2> QED
    BY <1>0, <1>c, <2>1, OneProgress
<1>m. ASSUME NEW a \in Attempts, NEW st \in {"lookup", "draw", "set", "send", "recv"},
             pc[a] \in {"idle", "lookup", "draw", "set", "send", "recv", "attrs"},
             Enter(a, st), result' = result
      PROVE  ProgressInv'
  <2>1. /\ pc'[a] = st /\ result'[a] = "pending"
        /\ \A b \in Attempts : b # a => pc'[b] = pc[b] /\ result'[b] = result[b]
    BY <1>0, <1>t, <1>m DEF Enter, ProgressInv
  <2> QED
    BY <1>0, <2>1, OneProgress
<1>1. ASSUME NEW a \in Attempts, Handler(a)
      PROVE  ProgressInv'
  <2>1. CASE Lookup(a)
    BY <2>1, <1>e, <1>s DEF Lookup
  <2>2. CASE Resolve(a)
    BY <2>2, <1>e, <1>m DEF Resolve, At
  <2>3. CASE LookupFails(a) \/ RandomFails(a)
    BY <2>3, <1>e DEF LookupFails, RandomFails
  <2>4. CASE \E k \in Keys, n \in Nonces : ReadRandomPair(a, k, n)
    BY <2>4, <1>m DEF ReadRandomPair, At
  <2>5. CASE SetNonceGivesUp(a) \/ UnsetNonceGivesUp(a)
    BY <2>5, <1>s DEF SetNonceGivesUp, UnsetNonceGivesUp
  <2>6. CASE SetNonceReturns(a)
    BY <2>6, <1>m, <1>c DEF SetNonceReturns, Returned, ContextErrors, At
  <2>7. CASE SendChallenge(a)
    BY <2>7, <1>m, <1>c DEF SendChallenge, At
  <2>8. CASE ResponseFails(a)
    BY <2>8, <1>c DEF ResponseFails, ContextEnds
  <2>9. CASE \E vm \in UUIDs : \E got \in Answers(vm) : ReceiveResponse(a, vm, got)
    <3>1. PICK vm \in UUIDs : \E got \in Answers(vm) : ReceiveResponse(a, vm, got)
      BY <2>9
    <3>2. PICK got \in Answers(vm) : ReceiveResponse(a, vm, got)
      BY <3>1
    <3>3. CASE ~VerifyNonce(nonce[a], got)
      BY <1>c, <3>2, <3>3 DEF ReceiveResponse
    <3>4. CASE VerifyNonce(nonce[a], got)
      <4>1. <<target[a].uuid, nonce[a]>> \in exposed
        BY <1>0, <3>2, <3>4, AnswerWasShown DEF ReceiveResponse
      <4>2. Enter(a, "unset") /\ result' = result /\ target' = target /\ nonce' = nonce
        BY <3>2, <3>4 DEF ReceiveResponse, RunCleanup
      <4>3. /\ pc'[a] = "unset"
            /\ \A b \in Attempts : b # a => pc'[b] = pc[b] /\ result'[b] = result[b]
        BY <1>t, <4>2 DEF Enter
      <4> QED
        BY <1>0, <4>1, <4>2, <4>3, OneProgress
    <3> QED
      BY <3>3, <3>4
  <2>10. CASE CleanupReturns(a)
    <3>1. /\ pc[a] = "unset"
          /\ result' = [result EXCEPT ![a] = AnnotateCleanup(result[a], phase[a])]
          /\ pc' = [pc EXCEPT ![a] = IF result'[a] = "pending" THEN "attrs" ELSE "done"]
          /\ target' = target /\ nonce' = nonce
          /\ phase[a] \in Returned
      BY <2>10 DEF CleanupReturns, At, Conclude, Enter, localVars
    <3>2. /\ pc'[a] = (IF result'[a] = "pending" THEN "attrs" ELSE "done")
          /\ \A b \in Attempts : b # a => pc'[b] = pc[b] /\ result'[b] = result[b]
      BY <1>t, <3>1
    <3>3. result'[a] = "pending" => result[a] = "pending"
      BY <1>t, <3>1 DEF AnnotateCleanup, Returned, ContextErrors
    <3>4. result'[a] = "pending" => <<target[a].uuid, nonce[a]>> \in exposed
      BY <1>0, <3>1, <3>3 DEF ProgressInv
    <3> QED
      BY <1>0, <3>1, <3>2, <3>4, OneProgress
  <2>11. CASE SendAttributes(a)
    <3>1. /\ pc'[a] = "done"
          /\ \A b \in Attempts : b # a => pc'[b] = pc[b] /\ result'[b] = result[b]
      BY <1>t, <2>11 DEF SendAttributes, Conclude, Enter
    <3> QED
      BY <1>0, <3>1, OneProgress
  <2> QED
    BY <1>1, <2>1, <2>2, <2>3, <2>4, <2>5, <2>6, <2>7, <2>8, <2>9, <2>10, <2>11 DEF Handler
<1>2. ASSUME NEW a \in Attempts, PayloadRejected(a)
      PROVE  ProgressInv'
  BY <1>e, <1>2 DEF PayloadRejected
<1>3. ASSUME NEW a \in Attempts, NEW p \in Payloads, PayloadReceived(a, p)
      PROVE  ProgressInv'
  BY <1>e, <1>m, <1>3 DEF PayloadReceived, At
<1>4. ASSUME NEW a \in Attempts, SetNonceStep(a) \/ UnsetNonceStep(a) \/ Cancel(a)
      PROVE  ProgressInv'
  BY <1>4, <1>s DEF SetNonceStep, UnsetNonceStep, Cancel
<1>5. CASE Crash
  <2>1. result' = result /\ \A b \in Attempts : pc'[b] \in {pc[b], "crashed"}
    BY <1>5 DEF Crash
  <2> QED
    BY <1>0, <2>1, SameProgress
<1>6. CASE Foreign \/ UNCHANGED vars
  BY <1>6, <1>s DEF Foreign, vars
<1> QED
  BY <1>1, <1>2, <1>3, <1>4, <1>5, <1>6 DEF Next

(* The inductive invariant of the refinement.                              *)
LEMMA ContractInvariance == Spec => []ContractInv
<1>1. Init => ContractInv
  <2> SUFFICES ASSUME Init PROVE ContractInv
    OBVIOUS
  <2>1. RevealedInv
    BY PopulationAssumption DEF Init, IncusInit, RevealedInv, Present, Reveals
  <2>2. ProgressInv
    BY DEF Init, ProgressInv
  <2> QED
    BY <2>1, <2>2, InitSafeTypes, InitNonce DEF ContractInv
<1>2. ContractInv /\ (SafeTypes /\ NonceInv)' /\ [Next]_vars => ContractInv'
  BY NextReveals, NextProgress DEF ContractInv, NonceInv
<1> QED
  BY <1>1, <1>2, Invariance, PTL DEF Spec

-----------------------------------------------------------------------------
(* The contract's state, read off the handlers'.                           *)

Stage(a) ==
    CASE result[a] = "ok" -> "granted"
      [] result[a] \notin {"ok", "pending"} -> "refused"
      [] result[a] = "pending" /\ pc[a] = "crashed" -> "lost"
      [] result[a] = "pending" /\ pc[a] = "attrs" -> "withdrawn"
      [] result[a] = "pending" /\ pc[a] \in Challenged -> "challenged"
      [] OTHER -> "open"

BoundTo(a) == IF key[a] = Absent THEN Absent ELSE target[a].uuid

AgentOf(a) == IF attrs[a] = Absent THEN Absent ELSE attrs[a].agentID

Stages == [a \in Attempts |-> Stage(a)]
BoundVMs == [a \in Attempts |-> BoundTo(a)]
Agents == [a \in Attempts |-> AgentOf(a)]
ShownPairs == {x \in Attempts \X (UUIDs \cup {""}) : <<x[2], nonce[x[1]]>> \in exposed}

(* The contract's actions in these terms.                                  *)
LEMMA ContractActions ==
    /\ \A a \in Attempts, vm \in UUIDs :
        Contract!Bind(a, vm) <=>
            /\ Stages[a] = "open"
            /\ Stages' = [Stages EXCEPT ![a] = "challenged"]
            /\ BoundVMs' = [BoundVMs EXCEPT ![a] = vm]
            /\ UNCHANGED <<ShownPairs, Agents>>
    /\ \A a \in Attempts :
        Contract!Show(a) <=>
            /\ BoundVMs[a] # Absent
            /\ ShownPairs' = ShownPairs \cup {<<a, BoundVMs[a]>>}
            /\ UNCHANGED <<Stages, BoundVMs, Agents>>
    /\ \A a \in Attempts :
        Contract!Withdraw(a) <=>
            /\ Stages[a] = "challenged"
            /\ <<a, BoundVMs[a]>> \in ShownPairs
            /\ Stages' = [Stages EXCEPT ![a] = "withdrawn"]
            /\ UNCHANGED <<BoundVMs, ShownPairs, Agents>>
    /\ \A a \in Attempts :
        Contract!Grant(a) <=>
            /\ Stages[a] = "withdrawn"
            /\ Stages' = [Stages EXCEPT ![a] = "granted"]
            /\ Agents' = [Agents EXCEPT ![a] = BoundVMs[a]]
            /\ UNCHANGED <<BoundVMs, ShownPairs>>
    /\ \A a \in Attempts :
        Contract!Refuse(a) <=>
            /\ Stages[a] \notin {"granted", "refused", "lost"}
            /\ Stages' = [Stages EXCEPT ![a] = "refused"]
            /\ UNCHANGED <<BoundVMs, ShownPairs, Agents>>
    /\ \A S \in SUBSET Attempts :
        Contract!LoseAll(S) <=>
            /\ \A a \in S : Stages[a] \notin {"granted", "refused", "lost"}
            /\ Stages' = [a \in Attempts |-> IF a \in S THEN "lost" ELSE Stages[a]]
            /\ UNCHANGED <<BoundVMs, ShownPairs, Agents>>
    /\ UNCHANGED Contract!vars <=> UNCHANGED <<Stages, BoundVMs, ShownPairs, Agents>>
BY DEF Contract!Bind, Contract!Show, Contract!Withdraw, Contract!Grant, Contract!Refuse,
       Contract!LoseAll, Contract!Advance, Contract!Final, Contract!vars,
       Stages, Stage, BoundVMs, BoundTo, ShownPairs, Agents, AgentOf

(* A step of attempt a alone moves only a.                                 *)
LEMMA AloneMoves ==
    ASSUME NEW a \in Attempts,
           \A b \in Attempts : b # a => /\ pc'[b] = pc[b] /\ result'[b] = result[b]
                                        /\ key'[b] = key[b] /\ target'[b] = target[b]
                                        /\ attrs'[b] = attrs[b]
    PROVE  /\ Stages' = [Stages EXCEPT ![a] = Stage(a)']
           /\ BoundVMs' = [BoundVMs EXCEPT ![a] = BoundTo(a)']
           /\ Agents' = [Agents EXCEPT ![a] = AgentOf(a)']
           /\ Stages = [Stages EXCEPT ![a] = Stage(a)]
           /\ BoundVMs = [BoundVMs EXCEPT ![a] = BoundTo(a)]
           /\ Agents = [Agents EXCEPT ![a] = AgentOf(a)]
           /\ Stages[a] = Stage(a) /\ BoundVMs[a] = BoundTo(a) /\ Agents[a] = AgentOf(a)
<1>1. \A b \in Attempts : b # a => Stage(b)' = Stage(b)
  BY DEF Stage
<1>2. \A b \in Attempts : b # a => BoundTo(b)' = BoundTo(b) /\ AgentOf(b)' = AgentOf(b)
  BY DEF BoundTo, AgentOf
<1> HIDE DEF Stage, BoundTo, AgentOf
<1> QED
  BY <1>1, <1>2 DEF Stages, BoundVMs, Agents

(* An error return of an attempt without a verdict refuses it.             *)
LEMMA ErrorRefuses ==
    ASSUME NEW a \in Attempts, SafeTypes, result[a] = "pending", pc[a] # "crashed",
           NEW class \in ErrorClasses, NEW to,
           result' = [result EXCEPT ![a] = class], pc' = [pc EXCEPT ![a] = to],
           UNCHANGED <<key, nonce, target, attrs, exposed>>
    PROVE  Contract!Refuse(a)
<1>t. /\ pc \in [Attempts -> Active \cup {"idle", "done", "crashed"}]
      /\ result \in [Attempts -> ErrorClasses \cup {"pending", "ok"}]
  BY DEF SafeTypes, TypeOK, ServerTypeOK
<1>1. \A b \in Attempts : b # a => pc'[b] = pc[b] /\ result'[b] = result[b]
  BY <1>t
<1>2. class \notin {"pending", "ok"}
  BY DEF ErrorClasses, ContextErrors
<1>3. Stage(a)' = "refused"
  BY <1>t, <1>2 DEF Stage
<1>4. Stage(a) \notin {"granted", "refused", "lost"}
  BY DEF Stage
<1>5. BoundTo(a)' = BoundTo(a) /\ AgentOf(a)' = AgentOf(a) /\ ShownPairs' = ShownPairs
  BY DEF BoundTo, AgentOf, ShownPairs
<1> QED
  BY <1>1, <1>3, <1>4, <1>5, AloneMoves, ContractActions

(* A statement after which an attempt is where it was for the contract.    *)
LEMMA StatementStays ==
    ASSUME NEW a \in Attempts, Stage(a)' = Stage(a), BoundTo(a)' = BoundTo(a),
           \A b \in Attempts : b # a => /\ pc'[b] = pc[b] /\ result'[b] = result[b]
                                        /\ target'[b] = target[b],
           UNCHANGED <<key, nonce, attrs, exposed>>
    PROVE  UNCHANGED Contract!vars
<1>1. AgentOf(a)' = AgentOf(a) /\ ShownPairs' = ShownPairs
  BY DEF AgentOf, ShownPairs
<1> QED
  BY <1>1, AloneMoves, ContractActions

(* readRandomPair binds: the fresh nonce has been shown to nobody.         *)
LEMMA DrawBinds ==
    ASSUME ContractInv, NEW a \in Attempts, NEW k \in Keys, NEW n \in Nonces,
           ReadRandomPair(a, k, n)
    PROVE  \E vm \in UUIDs : Contract!Bind(a, vm)
<1>t. /\ pc \in [Attempts -> Active \cup {"idle", "done", "crashed"}]
      /\ key \in [Attempts -> Keys \cup {Absent}]
      /\ nonce \in [Attempts -> Nonces \cup {Absent}]
      /\ exposed \subseteq ((UUIDs \cup {""}) \X (Values \cup Nonces))
  BY DEF ContractInv, SafeTypes, TypeOK, ServerTypeOK, IncusTypeOK
<1>1. /\ pc[a] = "draw" /\ pc' = [pc EXCEPT ![a] = "set"]
      /\ key' = [key EXCEPT ![a] = k] /\ nonce' = [nonce EXCEPT ![a] = n]
      /\ UNCHANGED <<result, target, attrs, exposed>>
      /\ \A b \in Attempts : nonce[b] # n
  BY DEF ReadRandomPair, At, Enter, incusVars, Fresh
<1>2. /\ result[a] = "pending" /\ key[a] = Absent /\ nonce[a] = Absent
      /\ target[a] \in Snapshot
  BY <1>1 DEF ContractInv, ProgressInv, SafeTypes, ControlInv, TypeOK, ServerTypeOK
<1>3. target[a].uuid \in UUIDs
  BY <1>2 DEF Snapshot
<1>4. Stage(a) = "open" /\ Stage(a)' = "challenged"
  BY <1>t, <1>1, <1>2 DEF Stage, Challenged
<1>5. BoundTo(a)' = target[a].uuid /\ AgentOf(a)' = AgentOf(a)
  BY <1>t, <1>1, KeyAssumption DEF BoundTo, AgentOf
<1>6. ASSUME NEW x \in Attempts \X (UUIDs \cup {""})
      PROVE  <<x[2], nonce'[x[1]]>> \in exposed <=> <<x[2], nonce[x[1]]>> \in exposed
  <2>1. CASE x[1] = a
    <3>1. nonce'[x[1]] = n /\ nonce[x[1]] = Absent
      BY <1>t, <1>1, <1>2, <2>1
    <3>2. <<x[2], Absent>> \notin exposed
      BY <1>t, KeyAssumption
    <3>3. <<x[2], n>> \notin exposed
      <4>1. SUFFICES ASSUME <<x[2], n>> \in exposed PROVE FALSE
        OBVIOUS
      <4>2. PICK b \in Attempts : <<x[2], n>> = <<target[b].uuid, nonce[b]>>
        BY <4>1 DEF ContractInv, NonceInv, ExposedInv, OwnPair
      <4> QED
        BY <1>1, <4>2
    <3> QED
      BY <3>1, <3>2, <3>3
  <2>2. CASE x[1] # a
    BY <1>t, <1>1, <2>2
  <2> QED
    BY <2>1, <2>2
<1>7. ShownPairs' = ShownPairs
  BY <1>1, <1>6 DEF ShownPairs
<1>8. \A b \in Attempts : b # a => pc'[b] = pc[b] /\ key'[b] = key[b]
  BY <1>t, <1>1
<1>9. /\ Stages[a] = "open"
      /\ Stages' = [Stages EXCEPT ![a] = "challenged"]
      /\ BoundVMs' = [BoundVMs EXCEPT ![a] = target[a].uuid]
      /\ Agents' = Agents
  BY <1>1, <1>4, <1>5, <1>8, AloneMoves
<1>10. PICK vm \in UUIDs : vm = target[a].uuid
  BY <1>3
<1>11. Contract!Bind(a, vm)
  BY <1>7, <1>9, <1>10, ContractActions
<1> QED
  BY <1>11

(* A write that shows a nonce, at once or late.                            *)
LEMMA WriteShows ==
    ASSUME ContractInv, NEW b \in Attempts, key[b] # Absent,
           exposed' = exposed \cup {PairOf(b)}, UNCHANGED <<pc, result, localVars>>
    PROVE  Contract!Show(b)
<1>1. target[b] \in Snapshot /\ target[b].uuid \in UUIDs
  BY DEF ContractInv, SafeTypes, ControlInv, TypeOK, ServerTypeOK, Snapshot
<1>2. BoundVMs[b] = target[b].uuid /\ BoundVMs[b] # Absent
  BY <1>1, UUIDAssumption DEF BoundVMs, BoundTo
<1>3. UNCHANGED <<pc, result, key, nonce, target, attrs>>
  BY DEF localVars
<1>4. UNCHANGED <<Stages, BoundVMs, Agents>>
  BY <1>3 DEF Stages, Stage, BoundVMs, BoundTo, Agents, AgentOf
<1>5. PICK V : V = UUIDs \cup {""}
  OBVIOUS
<1>6. <<b, target[b].uuid>> \in Attempts \X V
  BY <1>1, <1>5
<1>7. \A x \in Attempts \X V : x = <<b, target[b].uuid>> <=> x[1] = b /\ x[2] = target[b].uuid
  OBVIOUS
<1>8. ASSUME NEW x \in Attempts \X V
      PROVE  <<x[2], nonce[x[1]]>> \in exposed' <=>
                <<x[2], nonce[x[1]]>> \in exposed \/ x = <<b, target[b].uuid>>
  <2>1. x[1] \in Attempts /\ (x[1] # b => nonce[x[1]] # nonce[b])
    BY DEF ContractInv, NonceInv, DistinctInv
  <2>2. <<x[2], nonce[x[1]]>> = PairOf(b) <=> x[2] = target[b].uuid /\ nonce[x[1]] = nonce[b]
    BY DEF PairOf
  <2> QED
    BY <1>7, <2>1, <2>2
<1>9. ShownPairs' = ShownPairs \cup {<<b, target[b].uuid>>}
  BY <1>3, <1>5, <1>6, <1>8 DEF ShownPairs
<1> QED
  BY <1>2, <1>4, <1>9, ContractActions

(* A good cleanup withdraws a nonce that was shown; a failed one refuses;  *)
(* after an error it changes nothing.                                      *)
LEMMA CleanupMoves ==
    ASSUME ContractInv, NEW a \in Attempts, CleanupReturns(a)
    PROVE  Contract!Withdraw(a) \/ Contract!Refuse(a) \/ UNCHANGED Contract!vars
<1>t. /\ SafeTypes
      /\ pc \in [Attempts -> Active \cup {"idle", "done", "crashed"}]
      /\ result \in [Attempts -> ErrorClasses \cup {"pending", "ok"}]
  BY DEF ContractInv, SafeTypes, TypeOK, ServerTypeOK
<1>1. /\ pc[a] = "unset" /\ phase[a] \in Returned
      /\ result' = [result EXCEPT ![a] = AnnotateCleanup(result[a], phase[a])]
      /\ pc' = [pc EXCEPT ![a] = IF result'[a] = "pending" THEN "attrs" ELSE "done"]
      /\ UNCHANGED <<key, nonce, target, attrs, exposed>>
  BY DEF CleanupReturns, At, Conclude, Enter, incusVars, localVars
<1>2. result'[a] = AnnotateCleanup(result[a], phase[a])
  BY <1>t, <1>1
<1>3. /\ pc'[a] = (IF result'[a] = "pending" THEN "attrs" ELSE "done")
      /\ \A b \in Attempts : b # a => pc'[b] = pc[b] /\ result'[b] = result[b]
  BY <1>t, <1>1
<1>4. BoundTo(a)' = BoundTo(a) /\ AgentOf(a)' = AgentOf(a) /\ ShownPairs' = ShownPairs
  BY <1>1 DEF BoundTo, AgentOf, ShownPairs
<1>5. CASE result[a] = "pending" /\ phase[a] = "ok"
  <2>1. result'[a] = "pending" /\ pc'[a] = "attrs"
    BY <1>2, <1>3, <1>5 DEF AnnotateCleanup
  <2>2. Stage(a) = "challenged" /\ Stage(a)' = "withdrawn"
    BY <1>1, <1>5, <2>1 DEF Stage, Challenged
  <2>3. <<target[a].uuid, nonce[a]>> \in exposed /\ key[a] # Absent /\ target[a] \in Snapshot
    BY <1>1, <1>5 DEF ContractInv, ProgressInv, SafeTypes, ControlInv, Holding, TypeOK, ServerTypeOK
  <2>4. BoundVMs[a] = target[a].uuid /\ target[a].uuid \in UUIDs
    BY <2>3 DEF BoundVMs, BoundTo, Snapshot
  <2>5. <<a, BoundVMs[a]>> \in ShownPairs
    BY <2>3, <2>4 DEF ShownPairs
  <2> QED
    BY <1>1, <1>3, <1>4, <2>2, <2>5, AloneMoves, ContractActions
<1>6. CASE result[a] = "pending" /\ phase[a] # "ok"
  <2>1. PICK class \in ErrorClasses : class = phase[a]
    BY <1>1, <1>6 DEF Returned, ErrorClasses
  <2>2. result' = [result EXCEPT ![a] = class]
    BY <1>1, <1>6, <2>1 DEF AnnotateCleanup
  <2> QED
    BY <1>t, <1>1, <1>6, <2>2, ErrorRefuses
<1>7. CASE result[a] # "pending"
  <2>1. result'[a] = result[a]
    BY <1>2, <1>7 DEF AnnotateCleanup
  <2>2. Stage(a)' = Stage(a)
    BY <1>7, <2>1 DEF Stage
  <2> QED
    BY <1>1, <1>3, <1>4, <2>2, StatementStays
<1> QED
  BY <1>5, <1>6, <1>7

(* Sending the attributes grants the bound VM's identity; failing to build *)
(* or to send them refuses.                                                *)
LEMMA AttributesMove ==
    ASSUME ContractInv, NEW a \in Attempts, SendAttributes(a)
    PROVE  Contract!Grant(a) \/ Contract!Refuse(a)
<1>t. /\ SafeTypes
      /\ pc \in [Attempts -> Active \cup {"idle", "done", "crashed"}]
      /\ result \in [Attempts -> ErrorClasses \cup {"pending", "ok"}]
      /\ attrs \in [Attempts -> Attributes \cup {Absent}]
  BY DEF ContractInv, SafeTypes, TypeOK, ServerTypeOK
<1>1. /\ pc[a] = "attrs" /\ pc' = [pc EXCEPT ![a] = "done"]
      /\ UNCHANGED <<key, nonce, target, exposed>>
  BY DEF SendAttributes, At, Enter, incusVars
<1>2. result[a] = "pending" /\ key[a] # Absent /\ target[a] \in Snapshot
  BY <1>1 DEF ContractInv, ProgressInv, SafeTypes, ControlInv, Holding, TypeOK, ServerTypeOK
<1>3. CASE /\ attrs' = [attrs EXCEPT ![a] = BuildAttributes(target[a])]
           /\ result' = [result EXCEPT ![a] = "ok"]
  <2>1. BuildAttributes(target[a]) # Absent /\ BuildAttributes(target[a]).agentID = target[a].uuid
    BY <1>2, AttributesType, AttributesAssumption
  <2>2. attrs'[a] = BuildAttributes(target[a])
    BY <1>t, <1>3
  <2>3. AgentOf(a)' = target[a].uuid
    BY <2>1, <2>2 DEF AgentOf
  <2>4. Stage(a) = "withdrawn" /\ Stage(a)' = "granted"
    BY <1>t, <1>1, <1>2, <1>3 DEF Stage, Challenged
  <2>5. BoundTo(a) = target[a].uuid /\ BoundTo(a)' = BoundTo(a) /\ ShownPairs' = ShownPairs
    BY <1>1, <1>2 DEF BoundTo, ShownPairs
  <2>6. \A b \in Attempts : b # a => pc'[b] = pc[b] /\ result'[b] = result[b] /\ attrs'[b] = attrs[b]
    BY <1>t, <1>1, <1>3
  <2>7. /\ Stages[a] = "withdrawn"
        /\ Stages' = [Stages EXCEPT ![a] = "granted"]
        /\ Agents' = [Agents EXCEPT ![a] = BoundVMs[a]]
        /\ BoundVMs' = BoundVMs
    BY <1>1, <2>3, <2>4, <2>5, <2>6, AloneMoves
  <2> QED
    BY <2>5, <2>7, ContractActions
<1>4. CASE attrs' = attrs /\ \E class \in ErrorClasses : result' = [result EXCEPT ![a] = class]
  BY <1>t, <1>1, <1>2, <1>4, ErrorRefuses
<1>5. "other" \in ErrorClasses /\ "denied" \in ErrorClasses
  BY DEF ErrorClasses
<1> QED
  BY <1>3, <1>4, <1>5 DEF SendAttributes, Conclude

(* A crash loses the attempts that have begun and have no verdict.         *)
LEMMA CrashLoses ==
    ASSUME ContractInv, Crash
    PROVE  \E S \in SUBSET Attempts : Contract!LoseAll(S)
<1> DEFINE S == {a \in Attempts : pc[a] \in Active /\ result[a] = "pending"}
<1>1. /\ pc' = [a \in Attempts |-> IF pc[a] \in Active THEN "crashed" ELSE pc[a]]
      /\ UNCHANGED <<result, key, nonce, target, attrs, exposed>>
  BY DEF Crash, localVars
<1>2. \A a \in Attempts : Stage(a)' = IF a \in S THEN "lost" ELSE Stage(a)
  BY <1>1 DEF Stage, Active, Challenged
<1>3. \A a \in S : Stage(a) \notin {"granted", "refused", "lost"}
  BY DEF Stage, Active
<1>4. UNCHANGED <<BoundVMs, ShownPairs, Agents>>
  BY <1>1 DEF BoundVMs, BoundTo, ShownPairs, Agents, AgentOf
<1>5. /\ \A a \in S : Stages[a] \notin {"granted", "refused", "lost"}
      /\ Stages' = [a \in Attempts |-> IF a \in S THEN "lost" ELSE Stages[a]]
  BY <1>2, <1>3 DEF Stages
<1>6. S \in SUBSET Attempts
  OBVIOUS
<1> HIDE DEF S
<1> QED
  BY <1>4, <1>5, <1>6, ContractActions

(* A step that touches nothing the contract sees.                          *)
LEMMA ContractStays ==
    ASSUME UNCHANGED <<pc, result, target, key, nonce, attrs, exposed>>
    PROVE  UNCHANGED Contract!vars
<1>1. UNCHANGED <<Stages, BoundVMs, ShownPairs, Agents>>
  BY DEF Stages, Stage, BoundVMs, BoundTo, ShownPairs, Agents, AgentOf
<1> QED
  BY <1>1, ContractActions

(* One statement of one handler.                                           *)
LEMMA HandlerContract ==
    ASSUME ContractInv, NEW a \in Attempts,
           Handler(a) \/ PayloadRejected(a) \/ \E p \in Payloads : PayloadReceived(a, p)
    PROVE  Contract!Next \/ UNCHANGED Contract!vars
<1>t. /\ SafeTypes /\ ProgressInv
      /\ pc \in [Attempts -> Active \cup {"idle", "done", "crashed"}]
      /\ result \in [Attempts -> ErrorClasses \cup {"pending", "ok"}]
      /\ target \in [Attempts -> Snapshot \cup {Absent}]
  BY DEF ContractInv, SafeTypes, TypeOK, ServerTypeOK
<1>k. {"other", "invalid", "denied"} \cup ContextErrors \subseteq ErrorClasses
  BY DEF ErrorClasses
<1>x. ContextEnds(a) \subseteq ContextErrors
  BY DEF ContextEnds, ContextErrors
<1>r. ASSUME NEW class \in ErrorClasses, ReturnError(a, class) \/ ReturnAfterCleanup(a, class),
             pc[a] \in {"idle", "lookup", "draw", "set", "send", "recv"},
             UNCHANGED <<key, nonce, target, attrs, exposed>>
      PROVE  Contract!Next
  <2>1. result[a] = "pending" /\ pc[a] # "crashed"
    BY <1>t, <1>r DEF ProgressInv
  <2>2. /\ result' = [result EXCEPT ![a] = class]
        /\ \E to : pc' = [pc EXCEPT ![a] = to]
    BY <1>r DEF ReturnError, ReturnAfterCleanup, RunCleanup, Conclude, Enter
  <2>3. Contract!Refuse(a)
    BY <1>t, <1>r, <2>1, <2>2, ErrorRefuses
  <2> QED
    BY <2>3 DEF Contract!Next
<1>m. ASSUME NEW from, NEW to, pc[a] = from, Enter(a, to),
             \/ from \in {"idle", "lookup"} /\ to \in {"lookup", "draw"}
             \/ from \in Challenged /\ to \in Challenged,
             result' = result, result[a] = "pending",
             \A b \in Attempts : b # a => target'[b] = target[b],
             BoundTo(a)' = BoundTo(a), UNCHANGED <<key, nonce, attrs, exposed>>
      PROVE  UNCHANGED Contract!vars
  <2>1. pc'[a] = to /\ \A b \in Attempts : b # a => pc'[b] = pc[b] /\ result'[b] = result[b]
    BY <1>t, <1>m DEF Enter
  <2>2. Stage(a)' = Stage(a)
    BY <1>m, <2>1 DEF Stage, Challenged
  <2> QED
    BY <1>m, <2>1, <2>2, StatementStays
<1>p. pc[a] \in {"idle", "lookup", "draw", "set", "send", "recv"} => result[a] = "pending"
  BY <1>t DEF ProgressInv
<1>b. ASSUME UNCHANGED <<key, target>> PROVE BoundTo(a)' = BoundTo(a)
  BY <1>b DEF BoundTo
<1>1. CASE PayloadRejected(a)
  BY <1>1, <1>k, <1>r DEF PayloadRejected, At, incusVars, localVars
<1>2. CASE \E p \in Payloads : PayloadReceived(a, p)
  <2>1. PICK p \in Payloads : PayloadReceived(a, p)
    BY <1>2
  <2>2. pc[a] = "idle" /\ UNCHANGED <<exposed, target, key, nonce, attrs>>
    BY <2>1 DEF PayloadReceived, At, incusVars
  <2>3. \/ \E class \in {"invalid", "denied"} : ReturnError(a, class)
        \/ Enter(a, "lookup") /\ result' = result
    BY <2>1 DEF PayloadReceived
  <2> QED
    BY <1>k, <1>r, <1>m, <1>p, <1>b, <2>2, <2>3
<1>3. CASE Lookup(a)
  <2>1. pc[a] = "lookup" /\ UNCHANGED <<exposed, target, key, nonce, attrs>>
    BY <1>3 DEF Lookup, At, incusVars
  <2>2. ReturnError(a, "denied") \/ UNCHANGED <<pc, result>>
    BY <1>3 DEF Lookup
  <2> QED
    BY <1>k, <1>r, <2>1, <2>2, ContractStays
<1>4. CASE Resolve(a)
  <2>1. pc[a] = "lookup" /\ UNCHANGED <<exposed, key, nonce, attrs>>
    BY <1>4 DEF Resolve, At, incusVars
  <2>2. \/ ReturnError(a, "denied") /\ target' = target
        \/ /\ Enter(a, "draw") /\ result' = result
           /\ target' = [target EXCEPT ![a] = search[a].matched]
    BY <1>4 DEF Resolve
  <2>3. \A b \in Attempts : b # a => target'[b] = target[b]
    BY <1>t, <2>2
  <2>4. BoundTo(a)' = BoundTo(a)
    BY <1>t, <2>1 DEF BoundTo, SafeTypes, ControlInv
  <2> QED
    BY <1>k, <1>r, <1>m, <1>p, <2>1, <2>2, <2>3, <2>4
<1>5. CASE LookupFails(a) \/ RandomFails(a)
  <2>1. pc[a] \in {"lookup", "draw"} /\ UNCHANGED <<exposed, target, key, nonce, attrs>>
    BY <1>5 DEF LookupFails, RandomFails, At, incusVars, localVars
  <2>2. \E class \in ErrorClasses : ReturnError(a, class)
    BY <1>5, <1>k, <1>x DEF LookupFails, RandomFails
  <2> QED
    BY <1>r, <2>1, <2>2
<1>6. CASE \E k \in Keys, n \in Nonces : ReadRandomPair(a, k, n)
  BY <1>6, DrawBinds DEF Contract!Next
<1>7. CASE SetNonceGivesUp(a) \/ UnsetNonceGivesUp(a)
  BY <1>7, ContractStays DEF SetNonceGivesUp, UnsetNonceGivesUp, GiveUp, localVars
<1>8. CASE SetNonceReturns(a)
  <2>1. pc[a] = "set" /\ UNCHANGED <<exposed, target, key, nonce, attrs>>
    BY <1>8 DEF SetNonceReturns, At, incusVars, localVars
  <2>2. \/ Enter(a, "send") /\ result' = result
        \/ \E class \in ErrorClasses : ReturnAfterCleanup(a, class)
    BY <1>8, <1>k DEF SetNonceReturns, Returned
  <2> QED
    BY <1>r, <1>m, <1>p, <1>b, <2>1, <2>2 DEF Challenged
<1>9. CASE SendChallenge(a)
  <2>1. pc[a] = "send" /\ UNCHANGED <<exposed, target, key, nonce, attrs>>
    BY <1>9 DEF SendChallenge, At, incusVars, localVars
  <2>2. \/ Enter(a, "recv") /\ result' = result
        \/ ReturnAfterCleanup(a, "other")
    BY <1>9 DEF SendChallenge
  <2> QED
    BY <1>k, <1>r, <1>m, <1>p, <1>b, <2>1, <2>2 DEF Challenged
<1>10. CASE \E vm \in UUIDs : \E got \in Answers(vm) : ReceiveResponse(a, vm, got)
  <2>1. PICK vm \in UUIDs : \E got \in Answers(vm) : ReceiveResponse(a, vm, got)
    BY <1>10
  <2>2. pc[a] = "recv" /\ UNCHANGED <<exposed, target, key, nonce, attrs>>
    BY <2>1 DEF ReceiveResponse, At, incusVars
  <2>3. \/ Enter(a, "unset") /\ result' = result
        \/ ReturnAfterCleanup(a, "denied")
    BY <2>1 DEF ReceiveResponse, RunCleanup
  <2> QED
    BY <1>k, <1>r, <1>m, <1>p, <1>b, <2>2, <2>3 DEF Challenged
<1>11. CASE ResponseFails(a)
  <2>1. pc[a] = "recv" /\ UNCHANGED <<exposed, target, key, nonce, attrs>>
    BY <1>11 DEF ResponseFails, At, incusVars, localVars
  <2>2. \E class \in ErrorClasses : ReturnAfterCleanup(a, class)
    BY <1>11, <1>k, <1>x DEF ResponseFails
  <2> QED
    BY <1>r, <2>1, <2>2
<1>12. CASE CleanupReturns(a)
  BY <1>12, CleanupMoves DEF Contract!Next
<1>13. CASE SendAttributes(a)
  BY <1>13, AttributesMove DEF Contract!Next
<1> QED
  BY <1>1, <1>2, <1>3, <1>4, <1>5, <1>6, <1>7, <1>8, <1>9, <1>10, <1>11, <1>12, <1>13 DEF Handler

(* Whatever the attempts, peers and operators do, and whenever a request   *)
(* of unknown outcome lands: the server binds each attempt to one VM,      *)
(* shows its nonce to that VM alone, and grants that VM's identity only    *)
(* after the nonce was shown to it and withdrawn.                          *)
THEOREM ContractImplemented == Spec => ImplementsContract
<1>1. Init => Contract!Init
  <2> SUFFICES ASSUME Init PROVE Contract!Init
    OBVIOUS
  <2>1. /\ \A a \in Attempts : /\ pc[a] = "idle" /\ result[a] = "pending"
                               /\ key[a] = Absent /\ attrs[a] = Absent
        /\ exposed = {}
    BY DEF Init, IncusInit
  <2> QED
    BY <2>1 DEF Contract!Init, Challenged
<1>2. ContractInv /\ [Next]_vars => [Contract!Next]_(Contract!vars)
  <2> SUFFICES ASSUME ContractInv, [Next]_vars
               PROVE  Contract!Next \/ UNCHANGED Contract!vars
    OBVIOUS
  <2>1. ASSUME NEW a \in Attempts,
               Handler(a) \/ PayloadRejected(a) \/ \E p \in Payloads : PayloadReceived(a, p)
        PROVE  Contract!Next \/ UNCHANGED Contract!vars
    BY <2>1, HandlerContract
  <2>2. ASSUME UNCHANGED <<pc, result, localVars>>
        PROVE  Contract!Next \/ UNCHANGED Contract!vars
    <3>1. CASE exposed' = exposed
      BY <2>2, <3>1, ContractStays DEF localVars
    <3>2. CASE \E b \in Attempts : key[b] # Absent /\ exposed' = exposed \cup {PairOf(b)}
      BY <2>2, <3>2, WriteShows DEF Contract!Next
    <3> QED
      BY <3>1, <3>2, NextReveals DEF ContractInv, NonceInv, ShowsOwn
  <2>3. ASSUME NEW a \in Attempts, SetNonceStep(a) \/ UnsetNonceStep(a) \/ Cancel(a)
        PROVE  Contract!Next \/ UNCHANGED Contract!vars
    BY <2>2, <2>3 DEF SetNonceStep, UnsetNonceStep, Cancel
  <2>4. CASE Crash
    BY <2>4, CrashLoses DEF Contract!Next
  <2>5. CASE Foreign \/ UNCHANGED vars
    BY <2>2, <2>5 DEF Foreign, vars
  <2> QED
    BY <2>1, <2>3, <2>4, <2>5 DEF Next
<1> QED
  BY <1>1, <1>2, ContractInvariance, PTL DEF Spec, ImplementsContract, Contract!Spec

-----------------------------------------------------------------------------
(* What a successful cleanup leaves.  Incus gives every instance a UUID of *)
(* its own, so a UUID tells a VM from a container.  Without that, a set    *)
(* request could land on a container restored with the VM's UUID and       *)
(* content: the ETag does not cover the type, and UnsetNonce, which does   *)
(* look at it, would take the key for gone.                                *)
OneTypePerUUID ==
    \A r, s \in InitialRecords :
        NewInstanceUUID(r.uuid) = NewInstanceUUID(s.uuid) /\ NewInstanceUUID(r.uuid) # ""
            => r.type = s.type

(* The instances with UUID u are VMs.                                      *)
NamesVM(u) ==
    \E r \in InitialRecords :
        NewInstanceUUID(r.uuid) = u /\ r.type = InstanceTypeVirtualMachine

(* An instance keeps its UUID and type, and only VMs are resolved.         *)
KindInv ==
    /\ \A slot \in Slots : Present(slot) =>
          \E r \in InitialRecords :
             /\ NewInstanceUUID(r.uuid) = NewInstanceUUID(instances[slot].uuid)
             /\ r.type = instances[slot].type
    /\ \A a \in Attempts : search[a].matched # Absent => NamesVM(search[a].matched.uuid)
    /\ \A a \in Attempts : target[a] # Absent => NamesVM(target[a].uuid)

(* The configuration at slot holds the key of a.                           *)
HoldsKey(a, slot) == Present(slot) /\ key[a] \in NonceKeysOf(instances[slot])

(* The two ways a key may be left behind.                                  *)
Explained(a) == a \in abandoned \/ target[a].uuid \in moved

(* A key is where its attempt put it, unless its VM was moved.             *)
PlaceInv ==
    \A a \in Attempts, slot \in Slots :
        HoldsKey(a, slot) => slot = SlotOf(target[a]) \/ target[a].uuid \in moved

(* Requests go to the target's slot.  One that would set the key is        *)
(* waited for by SetNonce, or its attempt has given up on it.              *)
SendInv ==
    /\ \A q \in strays :
          /\ q.slot = SlotOf(target[q.by])
          /\ q.body.config[key[q.by]] # Absent => q.by \in abandoned
    /\ \A a \in Attempts : inflight[a] # Absent =>
          /\ phase[a] = "await"
          /\ inflight[a].slot = SlotOf(target[a])
          /\ pc[a] # "set" => inflight[a].body.config[key[a]] = Absent

(* The key of a is gone, or there is a reason why it is not.               *)
Accounted(a) == Resident(a) => Explained(a)

(* From the moment UnsetNonce has found the key gone, or removed it.       *)
CleanInv ==
    \A a \in Attempts :
        /\ pc[a] = "unset" /\ phase[a] \in {"ok", "applied"} => Accounted(a)
        /\ cleanup[a] = "ok" => Accounted(a) /\ pc[a] \in {"attrs", "done", "crashed"}

ResidueInv == KindInv /\ PlaceInv /\ SendInv /\ CleanInv

(* Where the UUID and type of the instance at slot after a step come from. *)
KindOrigin(slot) ==
    \/ instances'[slot] \in InitialRecords
    \/ \E s \in Slots : /\ Present(s)
                        /\ instances'[slot].uuid = instances[s].uuid
                        /\ instances'[slot].type = instances[s].type

(* Request q sets key k, its sender's, at slot.                            *)
SetsKey(q, k, slot) == q.slot = slot /\ key[q.by] = k /\ q.body.config[k] # Absent

(* Where a challenge key at slot after a step comes from: it was there, a  *)
(* moved instance brought it, a late request or an awaited one set it.     *)
KeyOrigin(k, slot) ==
    \/ Present(slot) /\ k \in NonceKeysOf(instances[slot])
    \/ \E from \in Slots : /\ Present(from) /\ k \in NonceKeysOf(instances[from])
                           /\ NewInstanceUUID(instances[from].uuid) \in moved'
    \/ \E q \in strays : SetsKey(q, k, slot)
    \/ \E b \in Attempts : UpdateApplied(b) /\ SetsKey(inflight[b], k, slot)

(* What an applied request leaves at its slot.                             *)
LEMMA AppliedOrigin ==
    ASSUME SafeTypes, NEW q \in Request, ETagMatches(q), OwnKeyOnly(q, key, nonce, target),
           NEW new, new = Rewritten(instances[q.slot], q.body)
    PROVE  /\ new.uuid = instances[q.slot].uuid /\ new.type = instances[q.slot].type
           /\ \A k \in NonceKeysOf(new) :
                 k \in NonceKeysOf(instances[q.slot]) \/ SetsKey(q, k, q.slot)
<1> DEFINE old == instances[q.slot]
<1>1. old \in Record /\ new \in Record
  BY AppliedRecord DEF SafeTypes, TypeOK
<1>2. old.uuid = q.etag.uuid /\ old.config = q.etag.config
  BY DEF ETagMatches, Writable
<1>3. new.uuid = q.body.uuid /\ new.config = q.body.config /\ new.type = old.type
  BY <1>1 DEF Rewritten, Record
<1>4. new.uuid = old.uuid
  BY <1>2, <1>3 DEF OwnKeyOnly
<1>5. PICK n : new.config = [old.config EXCEPT ![key[q.by]] = n]
  BY <1>2, <1>3 DEF OwnKeyOnly
<1>6. old.config \in [ConfigKeys -> Values \cup Nonces \cup {Absent}]
  BY <1>1 DEF Record, Config
<1>7. ASSUME NEW k \in NonceKeysOf(new)
      PROVE  k \in NonceKeysOf(old) \/ SetsKey(q, k, q.slot)
  <2>1. k \in Keys /\ new.config[k] # Absent /\ k \in ConfigKeys
    BY DEF NonceKeysOf, ConfigKeys
  <2>2. CASE k = key[q.by]
    BY <1>3, <2>1, <2>2 DEF SetsKey
  <2>3. CASE k # key[q.by]
    BY <1>5, <1>6, <2>1, <2>3 DEF NonceKeysOf
  <2> QED
    BY <2>2, <2>3
<1> QED
  BY <1>3, <1>4, <1>7

(* What others do.                                                         *)
LEMMA ForeignOrigins ==
    ASSUME SafeTypes, RequestInv, ForeignStep, NEW slot \in Slots, instances'[slot] # Absent
    PROVE  KindOrigin(slot) /\ \A k \in NonceKeysOf(instances'[slot]) : KeyOrigin(k, slot)
<1> DEFINE Goal == KindOrigin(slot) /\ \A k \in NonceKeysOf(instances'[slot]) : KeyOrigin(k, slot)
<1>t. /\ instances \in [Slots -> Record \cup {Absent}]
      /\ strays \subseteq Request
  BY DEF SafeTypes, TypeOK, IncusTypeOK
<1>u. ASSUME instances'[slot] = instances[slot] PROVE Goal
  BY <1>u DEF KindOrigin, KeyOrigin, Present
<1>s. ASSUME NEW s \in Slots, Present(s), NEW old, old = instances[s], NEW new,
             Store(s, new), new.uuid = old.uuid, new.type = old.type,
             NonceKeysOf(new) \subseteq NonceKeysOf(old)
      PROVE  Goal
  <2>1. instances' = [instances EXCEPT ![s] = new]
    BY <1>s DEF Store
  <2>2. CASE slot = s
    <3>1. instances'[slot] = new
      BY <1>t, <2>1, <2>2
    <3> QED
      BY <1>s, <2>2, <3>1 DEF KindOrigin, KeyOrigin
  <2>3. CASE slot # s
    BY <1>t, <1>u, <2>1, <2>3
  <2> QED
    BY <2>2, <2>3
<1>1. ASSUME NEW s \in Slots, NEW k \in UserKeys, NEW v, OperatorEdit(s, k, v)
      PROVE  Goal
  <2>1. PICK old \in Record : old = instances[s]
    BY <1>t, <1>1 DEF OperatorEdit, Present
  <2>2. PICK new : new = [old EXCEPT !.config[k] = v]
    OBVIOUS
  <2>3. /\ new.uuid = old.uuid /\ new.type = old.type
        /\ new.config = [old.config EXCEPT ![k] = v]
    BY <2>2 DEF Record
  <2>4. \A j \in Keys : new.config[j] = old.config[j]
    BY <2>3, KeyAssumption DEF Record, Config, ConfigKeys
  <2>5. NonceKeysOf(new) \subseteq NonceKeysOf(old)
    BY <2>4 DEF NonceKeysOf
  <2>6. Present(s) /\ Store(s, new)
    BY <1>1, <2>1, <2>2 DEF OperatorEdit
  <2> QED
    BY <1>s, <2>1, <2>3, <2>5, <2>6
<1>2. ASSUME NEW s \in Slots, NEW k \in Keys, OperatorDropsKey(s, k)
      PROVE  Goal
  <2>1. PICK old \in Record : old = instances[s]
    BY <1>t, <1>2 DEF OperatorDropsKey, Present
  <2>2. PICK new : new = [old EXCEPT !.config[k] = Absent]
    OBVIOUS
  <2>3. /\ new.uuid = old.uuid /\ new.type = old.type
        /\ new.config = [old.config EXCEPT ![k] = Absent]
    BY <2>2 DEF Record
  <2>4. \A j \in Keys : new.config[j] \in {old.config[j], Absent}
    BY <2>3 DEF Record, Config, ConfigKeys
  <2>5. NonceKeysOf(new) \subseteq NonceKeysOf(old)
    BY <2>4 DEF NonceKeysOf
  <2>6. Present(s) /\ Store(s, new)
    BY <1>2, <2>1, <2>2 DEF OperatorDropsKey
  <2> QED
    BY <1>s, <2>1, <2>3, <2>5, <2>6
<1>3. ASSUME NEW s \in Slots, NEW loc, Migrate(s, loc)
      PROVE  Goal
  <2>1. PICK old \in Record : old = instances[s]
    BY <1>t, <1>3 DEF Migrate, Present
  <2>2. PICK new : new = [old EXCEPT !.location = loc]
    OBVIOUS
  <2>3. new.uuid = old.uuid /\ new.type = old.type /\ new.config = old.config
    BY <2>2 DEF Record
  <2>4. NonceKeysOf(new) \subseteq NonceKeysOf(old)
    BY <2>3 DEF NonceKeysOf
  <2>5. Present(s) /\ Store(s, new)
    BY <1>3, <2>1, <2>2 DEF Migrate
  <2> QED
    BY <1>s, <2>1, <2>3, <2>4, <2>5
<1>4. ASSUME NEW s \in Slots, Delete(s)
      PROVE  Goal
  BY <1>t, <1>u, <1>4 DEF Delete
<1>5. ASSUME NEW s \in Slots, NEW rec \in InitialRecords, Create(s, rec)
      PROVE  Goal
  <2>1. instances' = [instances EXCEPT ![s] = rec] /\ NonceKeysOf(rec) = {}
    BY <1>5 DEF Create, Store
  <2>2. CASE slot = s
    BY <1>t, <2>1, <2>2 DEF KindOrigin
  <2>3. CASE slot # s
    BY <1>t, <1>u, <2>1, <2>3
  <2> QED
    BY <2>2, <2>3
<1>6. ASSUME NEW from \in Slots, NEW to \in Slots, Relocate(from, to)
      PROVE  Goal
  <2>1. /\ Present(from) /\ from # to
        /\ instances' = [instances EXCEPT ![from] = Absent, ![to] = instances[from]]
        /\ moved' = moved \cup {NewInstanceUUID(instances[from].uuid)}
    BY <1>6 DEF Relocate, Present
  <2>2. CASE slot = to
    <3>1. instances'[slot] = instances[from]
      BY <1>t, <2>1, <2>2
    <3> QED
      BY <2>1, <3>1 DEF KindOrigin, KeyOrigin
  <2>3. CASE slot # to
    <3>1. instances'[slot] = instances[slot]
      BY <1>t, <2>1, <2>3
    <3> QED
      BY <1>u, <3>1
  <2> QED
    BY <2>2, <2>3
<1>7. ASSUME NEW q \in strays, StrayApplied(q)
      PROVE  Goal
  <2>1. q \in Request /\ OwnKeyOnly(q, key, nonce, target) /\ ETagMatches(q) /\ ApplyRequest(q)
    BY <1>t, <1>7 DEF RequestInv, StrayApplied
  <2>2. PICK new : new = Rewritten(instances[q.slot], q.body)
    OBVIOUS
  <2>3. q.slot \in Slots /\ Present(q.slot) /\ instances' = [instances EXCEPT ![q.slot] = new]
    BY <2>1, <2>2 DEF ApplyRequest, Store, ETagMatches, Request
  <2>4. CASE slot = q.slot
    <3>1. instances'[slot] = new
      BY <1>t, <2>3, <2>4
    <3> QED
      BY <2>1, <2>2, <2>3, <2>4, <3>1, AppliedOrigin DEF KindOrigin, KeyOrigin
  <2>5. CASE slot # q.slot
    BY <1>t, <1>u, <2>3, <2>5
  <2> QED
    BY <2>4, <2>5
<1> QED
  BY <1>1, <1>2, <1>3, <1>4, <1>5, <1>6, <1>7 DEF ForeignStep

(* The whole step.                                                         *)
LEMMA NextOrigins ==
    ASSUME SafeTypes, RequestInv, [Next]_vars, NEW slot \in Slots, instances'[slot] # Absent
    PROVE  KindOrigin(slot) /\ \A k \in NonceKeysOf(instances'[slot]) : KeyOrigin(k, slot)
<1> DEFINE Goal == KindOrigin(slot) /\ \A k \in NonceKeysOf(instances'[slot]) : KeyOrigin(k, slot)
<1>t. /\ instances \in [Slots -> Record \cup {Absent}]
      /\ inflight \in [Attempts -> Request \cup {Absent}]
  BY DEF SafeTypes, TypeOK, IncusTypeOK, HostTypeOK
<1>u. ASSUME instances'[slot] = instances[slot] PROVE Goal
  BY <1>u DEF KindOrigin, KeyOrigin, Present
<1>1. ASSUME NEW a \in Attempts, UpdateApplied(a)
      PROVE  Goal
  <2>1. PICK q \in Request : q = inflight[a]
    BY <1>t, <1>1 DEF UpdateApplied, SafeTypes, TypeOK, HostTypeOK
  <2>2. q # Absent /\ OwnKeyOnly(q, key, nonce, target) /\ ETagMatches(q) /\ ApplyRequest(q)
    BY <1>1, <2>1 DEF UpdateApplied, RequestInv, SafeTypes, TypeOK, HostTypeOK
  <2>3. PICK new : new = Rewritten(instances[q.slot], q.body)
    OBVIOUS
  <2>4. q.slot \in Slots /\ Present(q.slot) /\ instances' = [instances EXCEPT ![q.slot] = new]
    BY <2>2, <2>3 DEF ApplyRequest, Store, ETagMatches, Request
  <2>5. CASE slot = q.slot
    <3>1. instances'[slot] = new
      BY <1>t, <2>4, <2>5
    <3> QED
      BY <1>1, <2>1, <2>2, <2>3, <2>4, <2>5, <3>1, AppliedOrigin DEF KindOrigin, KeyOrigin
  <2>6. CASE slot # q.slot
    BY <1>t, <1>u, <2>4, <2>6
  <2> QED
    BY <2>5, <2>6
<1>2. ASSUME NEW a \in Attempts, SetNonceStep(a) \/ UnsetNonceStep(a)
      PROVE  Goal
  <2>1. instances' = instances \/ UpdateApplied(a)
    BY <1>2 DEF SetNonceStep, UnsetNonceStep, MutateStep, MutateOnce, FetchRefused, UpdateRetried,
        UpdateRefused, UpdateLost, WaitSucceeds, WaitFails, incusVars
  <2> QED
    BY <1>u, <1>1, <2>1
<1>3. ASSUME NEW a \in Attempts, Handler(a)
      PROVE  instances' = instances
  BY <1>3 DEF Handler, Lookup, Resolve, LookupFails, ReadRandomPair, RandomFails, GiveUp,
      SetNonceGivesUp, SetNonceReturns, SendChallenge, ReceiveResponse, ResponseFails,
      UnsetNonceGivesUp, CleanupReturns, SendAttributes, incusVars
<1>4. ASSUME NEW a \in Attempts,
             \/ PayloadRejected(a) \/ Cancel(a)
             \/ \E p \in Payloads : PayloadReceived(a, p)
      PROVE  instances' = instances
  BY <1>4 DEF PayloadRejected, PayloadReceived, Cancel, incusVars
<1>5. ASSUME Crash \/ UNCHANGED vars
      PROVE  instances' = instances
  BY <1>5 DEF Crash, vars, incusVars
<1>6. CASE Foreign
  BY <1>6, ForeignOrigins DEF Foreign
<1> QED
  BY <1>u, <1>2, <1>3, <1>4, <1>5, <1>6 DEF Next

(* A lookup that matches has found a VM.                                   *)
LEMMA LookupFindsVM ==
    ASSUME SafeTypes, KindInv, NEW a \in Attempts, Lookup(a)
    PROVE  \/ search' = search
           \/ \E next : /\ search' = [search EXCEPT ![a] = next]
                        /\ next.matched = search[a].matched \/ NamesVM(next.matched.uuid)
<1> DEFINE slot == <<Head(search[a].rest), claims[a].name>>
           found == MapInstance(slot, instances[slot])
           next == [rest    |-> Tail(search[a].rest),
                    matched |-> IF Matches(a, slot) THEN found ELSE search[a].matched,
                    matches |-> IF Matches(a, slot) THEN search[a].matches + 1
                                                    ELSE search[a].matches]
<1>1. search[a].rest # <<>> /\ search[a].rest \in Seq(Projects) /\ claims[a] \in Claims
  BY DEF Lookup, At, SafeTypes, ControlInv, TypeOK, ServerTypeOK, Search
<1>2. Head(search[a].rest) \in Projects
  BY <1>1, HeadTailProperties
<1>3. ASSUME Matches(a, slot)
      PROVE  NamesVM(found.uuid)
  <2>1. claims[a].name \in Names
    BY <1>1, <1>3 DEF Matches, MatchClaims, ValidateClaims, Claims
  <2>2. slot \in Slots /\ Present(slot)
    BY <1>2, <1>3, <2>1 DEF Slots, Matches
  <2>3. found.type = InstanceTypeVirtualMachine
    BY <1>3 DEF Matches, MatchClaims, ValidateInstance, RequireVirtualMachine
  <2>4. found.type = instances[slot].type /\ found.uuid = NewInstanceUUID(instances[slot].uuid)
    BY DEF MapInstance
  <2> QED
    BY <2>2, <2>3, <2>4 DEF KindInv, NamesVM
<1>4. next.matched = IF Matches(a, slot) THEN found ELSE search[a].matched
  OBVIOUS
<1>5. search' = search \/ search' = [search EXCEPT ![a] = next]
  BY DEF Lookup
<1> HIDE DEF next
<1> QED
  BY <1>3, <1>4, <1>5

(* UUIDs and types stay together; what is resolved is a VM.                *)
LEMMA NextKind ==
    ASSUME SafeTypes, RequestInv, KindInv, [Next]_vars
    PROVE  KindInv'
<1>t. /\ search \in [Attempts -> Search]
      /\ target \in [Attempts -> Snapshot \cup {Absent}]
  BY DEF SafeTypes, TypeOK, ServerTypeOK
<1>1. ASSUME NEW slot \in Slots, instances'[slot] # Absent
      PROVE  \E r \in InitialRecords :
                /\ NewInstanceUUID(r.uuid) = NewInstanceUUID(instances'[slot].uuid)
                /\ r.type = instances'[slot].type
  BY <1>1, NextOrigins DEF KindOrigin, KindInv
<1>2. ASSUME UNCHANGED <<search, target>> PROVE KindInv'
  BY <1>1, <1>2 DEF KindInv, Present
<1>3. ASSUME NEW a \in Attempts, NEW next, search' = [search EXCEPT ![a] = next], target' = target,
             \/ next.matched = search[a].matched \/ next.matched = Absent
             \/ NamesVM(next.matched.uuid)
      PROVE  KindInv'
  <2>1. \A b \in Attempts : search'[b].matched # Absent => NamesVM(search'[b].matched.uuid)
    BY <1>t, <1>3 DEF KindInv
  <2> QED
    BY <1>1, <1>3, <2>1 DEF KindInv, Present
<1>4. ASSUME NEW a \in Attempts, NEW p \in Payloads, PayloadReceived(a, p)
      PROVE  KindInv'
  <2>1. target' = target
    BY <1>4 DEF PayloadReceived
  <2>2. PICK order : search' = search \/ search' = [search EXCEPT ![a].rest = order]
    BY <1>4 DEF PayloadReceived
  <2>3. \A b \in Attempts : /\ search'[b].matches = search[b].matches
                            /\ search'[b].matched = search[b].matched
    <3>1. search \in [Attempts -> Search]
      BY <1>t
    <3> QED
      BY <2>2, <3>1, OrderKeepsMatches
  <2> QED
    BY <1>1, <2>1, <2>3 DEF KindInv, Present
<1>5. ASSUME NEW a \in Attempts, Lookup(a)
      PROVE  KindInv'
  <2>1. target' = target
    BY <1>5 DEF Lookup
  <2> QED
    BY <1>2, <1>3, <1>5, <2>1, LookupFindsVM
<1>6. ASSUME NEW a \in Attempts, LookupFails(a)
      PROVE  KindInv'
  <2>1. target' = target /\ search' = [search EXCEPT ![a] = NoSearch]
    BY <1>6 DEF LookupFails
  <2> QED
    BY <1>3, <2>1 DEF NoSearch
<1>7. ASSUME NEW a \in Attempts, Resolve(a)
      PROVE  KindInv'
  <2>1. /\ search' = [search EXCEPT ![a] = NoSearch]
        /\ target' = target \/ target' = [target EXCEPT ![a] = search[a].matched]
    BY <1>7 DEF Resolve
  <2>2. \A b \in Attempts : search'[b].matched # Absent => NamesVM(search'[b].matched.uuid)
    BY <1>t, <2>1 DEF KindInv, NoSearch
  <2>3. \A b \in Attempts : target'[b] # Absent => NamesVM(target'[b].uuid)
    BY <1>t, <2>1 DEF KindInv
  <2> QED
    BY <1>1, <2>2, <2>3 DEF KindInv, Present
<1>8. ASSUME NEW a \in Attempts, Handler(a)
      PROVE  Lookup(a) \/ LookupFails(a) \/ Resolve(a) \/ UNCHANGED <<search, target>>
  BY <1>8 DEF Handler, ReadRandomPair, RandomFails, SetNonceGivesUp, SetNonceReturns,
      SendChallenge, ReceiveResponse, ResponseFails, UnsetNonceGivesUp, CleanupReturns,
      SendAttributes, localVars
<1>9. ASSUME NEW a \in Attempts,
             PayloadRejected(a) \/ SetNonceStep(a) \/ UnsetNonceStep(a) \/ Cancel(a)
      PROVE  UNCHANGED <<search, target>>
  BY <1>9 DEF PayloadRejected, SetNonceStep, UnsetNonceStep, Cancel, localVars
<1>10. ASSUME Crash \/ Foreign \/ UNCHANGED vars
       PROVE  UNCHANGED <<search, target>>
  BY <1>10 DEF Crash, Foreign, vars, localVars
<1> QED
  BY <1>2, <1>4, <1>5, <1>6, <1>7, <1>8, <1>9, <1>10 DEF Next

(* What has been given up or moved stays so.                               *)
LEMMA HistoryGrows ==
    ASSUME [Next]_vars
    PROVE  moved \subseteq moved' /\ abandoned \subseteq abandoned'
<1>1. ASSUME NEW a \in Attempts, Handler(a)
      PROVE  moved' = moved /\ abandoned \subseteq abandoned'
  BY <1>1 DEF Handler, Lookup, Resolve, LookupFails, ReadRandomPair, RandomFails, GiveUp, Abandon,
      SetNonceGivesUp, SetNonceReturns, SendChallenge, ReceiveResponse, ResponseFails,
      UnsetNonceGivesUp, CleanupReturns, SendAttributes, incusVars, hostVars
<1>2. ASSUME NEW a \in Attempts, SetNonceStep(a) \/ UnsetNonceStep(a)
      PROVE  moved' = moved /\ abandoned \subseteq abandoned'
  BY <1>2 DEF SetNonceStep, UnsetNonceStep, MutateStep, MutateOnce, FetchRefused, UpdateApplied,
      UpdateRetried, UpdateRefused, UpdateLost, Abandon, WaitSucceeds, WaitFails, incusVars
<1>3. ASSUME NEW a \in Attempts,
             \/ PayloadRejected(a) \/ Cancel(a)
             \/ \E p \in Payloads : PayloadReceived(a, p)
      PROVE  moved' = moved /\ abandoned' = abandoned
  BY <1>3 DEF PayloadRejected, PayloadReceived, Cancel, incusVars, hostVars
<1>4. ASSUME Crash \/ UNCHANGED vars
      PROVE  moved' = moved /\ abandoned \subseteq abandoned'
  BY <1>4 DEF Crash, vars, incusVars, hostVars
<1>5. ASSUME Foreign
      PROVE  moved \subseteq moved' /\ abandoned' = abandoned
  BY <1>5 DEF Foreign, ForeignStep, OperatorEdit, OperatorDropsKey, Migrate, Delete, Create,
      Relocate, StrayApplied, hostVars
<1> QED
  BY <1>1, <1>2, <1>3, <1>4, <1>5 DEF Next

(* A key in use after a step was in use before, and came from somewhere.   *)
LEMMA KeyWasDrawn ==
    ASSUME SafeTypes, NonceInv, [Next]_vars, NEW a \in Attempts, NEW slot \in Slots,
           HoldsKey(a, slot)'
    PROVE  /\ key[a] # Absent /\ key'[a] = key[a] /\ target'[a] = target[a]
           /\ KeyOrigin(key[a], slot)
<1>1. instances'[slot] # Absent /\ key'[a] \in NonceKeysOf(instances'[slot])
  BY DEF HoldsKey, Present
<1>2. KeyOrigin(key'[a], slot)
  BY <1>1, NextOrigins DEF NonceInv
<1>3. key'[a] # Absent
  BY <1>1, KeyAssumption DEF NonceKeysOf
<1>4. ASSUME key[a] = Absent PROVE FALSE
  <2>1. PICK b \in Attempts, k \in Keys, n \in Nonces : ReadRandomPair(b, k, n)
    <3>1. key' # key
      BY <1>3, <1>4
    <3>2. ASSUME NEW b \in Attempts, Handler(b)
          PROVE  \E k \in Keys, n \in Nonces : ReadRandomPair(b, k, n)
      BY <3>1, <3>2 DEF Handler, Lookup, Resolve, LookupFails, RandomFails, SetNonceGivesUp,
          SetNonceReturns, SendChallenge, ReceiveResponse, ResponseFails, UnsetNonceGivesUp,
          CleanupReturns, SendAttributes, localVars
    <3>3. ASSUME NEW b \in Attempts,
                 \/ PayloadRejected(b) \/ \E p \in Payloads : PayloadReceived(b, p)
                 \/ SetNonceStep(b) \/ UnsetNonceStep(b) \/ Cancel(b)
          PROVE  FALSE
      BY <3>1, <3>3 DEF PayloadRejected, PayloadReceived, SetNonceStep, UnsetNonceStep, Cancel,
          localVars
    <3>4. ASSUME Crash \/ Foreign \/ UNCHANGED vars
          PROVE  FALSE
      BY <3>1, <3>4 DEF Crash, Foreign, vars, localVars
    <3> QED
      BY <3>2, <3>3, <3>4 DEF Next
  <2>2. key' = [key EXCEPT ![b] = k] /\ instances' = instances /\ \A c \in Attempts : key[c] # k
    BY <2>1 DEF ReadRandomPair, Fresh, incusVars
  <2>3. key'[a] = k
    BY <1>3, <1>4, <2>2 DEF SafeTypes, TypeOK, ServerTypeOK
  <2>4. Present(slot) /\ k \in NonceKeysOf(instances[slot])
    BY <1>1, <2>2, <2>3 DEF Present
  <2>5. \E c \in Attempts : key[c] = k
    BY <2>4 DEF NonceInv, ConfigInv, Owned
  <2> QED
    BY <2>2, <2>5
<1>5. key'[a] = key[a] /\ target'[a] = target[a]
  BY <1>4, NextSettles DEF Settled
<1> QED
  BY <1>2, <1>4, <1>5

(* An instance that holds the key of a is the target of a.                 *)
LEMMA HolderIsTarget ==
    ASSUME NonceInv, NEW a \in Attempts, key[a] # Absent, NEW slot \in Slots, HoldsKey(a, slot)
    PROVE  NewInstanceUUID(instances[slot].uuid) = target[a].uuid
<1>1. PICK b \in Attempts : /\ key[b] = key[a]
                            /\ NewInstanceUUID(instances[slot].uuid) = target[b].uuid
  BY DEF HoldsKey, NonceInv, ConfigInv, Owned
<1>2. b = a
  BY <1>1 DEF NonceInv, DistinctInv
<1> QED
  BY <1>1, <1>2

(* Who can have set the key of a: a itself.                                *)
LEMMA OwnSetter ==
    ASSUME SafeTypes, NonceInv, NEW a \in Attempts, key[a] # Absent, NEW slot \in Slots,
           KeyOrigin(key[a], slot)
    PROVE  \/ HoldsKey(a, slot)
           \/ \E from \in Slots : HoldsKey(a, from) /\ target[a].uuid \in moved'
           \/ \E q \in strays : q.by = a /\ SetsKey(q, key[a], slot)
           \/ UpdateApplied(a) /\ SetsKey(inflight[a], key[a], slot)
<1>1. ASSUME NEW b \in Attempts, key[b] = key[a] PROVE b = a
  BY <1>1 DEF NonceInv, DistinctInv
<1>2. ASSUME NEW from \in Slots, Present(from), key[a] \in NonceKeysOf(instances[from]),
             NewInstanceUUID(instances[from].uuid) \in moved'
      PROVE  HoldsKey(a, from) /\ target[a].uuid \in moved'
  BY <1>2, HolderIsTarget DEF HoldsKey
<1>3. ASSUME NEW q \in strays, SetsKey(q, key[a], slot) PROVE q.by = a
  <2>1. q.by \in Attempts
    BY DEF SafeTypes, TypeOK, IncusTypeOK, Request
  <2> QED
    BY <1>1, <1>3, <2>1 DEF SetsKey
<1>4. ASSUME NEW b \in Attempts, UpdateApplied(b), SetsKey(inflight[b], key[a], slot)
      PROVE  b = a
  <2>1. inflight[b].by = b
    BY <1>4 DEF UpdateApplied, NonceInv, RequestInv, SafeTypes, TypeOK, HostTypeOK
  <2> QED
    BY <1>1, <1>4, <2>1 DEF SetsKey
<1> QED
  BY <1>2, <1>3, <1>4 DEF KeyOrigin, HoldsKey

(* Keys stay in place.                                                     *)
LEMMA NextPlace ==
    ASSUME SafeTypes, NonceInv, PlaceInv, SendInv, [Next]_vars
    PROVE  PlaceInv'
<1> SUFFICES ASSUME NEW a \in Attempts, NEW slot \in Slots, HoldsKey(a, slot)'
             PROVE  slot = SlotOf(target'[a]) \/ target'[a].uuid \in moved'
  BY DEF PlaceInv
<1>1. key[a] # Absent /\ target'[a] = target[a] /\ KeyOrigin(key[a], slot)
  BY KeyWasDrawn
<1>2. \/ HoldsKey(a, slot)
      \/ target[a].uuid \in moved'
      \/ \E q \in strays : q.by = a /\ SetsKey(q, key[a], slot)
      \/ UpdateApplied(a) /\ SetsKey(inflight[a], key[a], slot)
  BY <1>1, OwnSetter
<1>3. CASE HoldsKey(a, slot)
  BY <1>1, <1>3, HistoryGrows DEF PlaceInv
<1>4. CASE \E q \in strays : q.by = a /\ SetsKey(q, key[a], slot)
  BY <1>1, <1>4 DEF SendInv, SetsKey
<1>5. CASE UpdateApplied(a) /\ SetsKey(inflight[a], key[a], slot)
  BY <1>1, <1>5 DEF SendInv, SetsKey, UpdateApplied, SafeTypes, TypeOK, HostTypeOK
<1> QED
  BY <1>1, <1>2, <1>3, <1>4, <1>5

(* The key and the target of a request's sender stay as they are.          *)
LEMMA SenderSettled ==
    ASSUME SafeTypes, Settled, RequestInv
    PROVE  /\ \A q \in strays : /\ q.by \in Attempts
                                /\ key'[q.by] = key[q.by] /\ target'[q.by] = target[q.by]
           /\ \A a \in Attempts : inflight[a] # Absent =>
                 /\ inflight[a].by = a
                 /\ key'[a] = key[a] /\ target'[a] = target[a]
<1>1. ASSUME NEW q \in strays
      PROVE  q.by \in Attempts /\ key[q.by] # Absent
  BY DEF SafeTypes, TypeOK, IncusTypeOK, Request, RequestInv, OwnKeyOnly
<1>2. ASSUME NEW a \in Attempts, inflight[a] # Absent
      PROVE  inflight[a].by = a /\ key[a] # Absent
  BY <1>2 DEF RequestInv, OwnKeyOnly
<1> QED
  BY <1>1, <1>2 DEF Settled

(* A step that sends nothing and gives nothing up.                         *)
LEMMA QuietSend ==
    ASSUME SafeTypes, Settled, RequestInv, SendInv, strays' \subseteq strays,
           abandoned \subseteq abandoned',
           \A b \in Attempts : inflight'[b] # Absent =>
              inflight'[b] = inflight[b] /\ phase'[b] = phase[b] /\ pc'[b] = pc[b]
    PROVE  SendInv'
BY SenderSettled DEF SendInv

(* A call that stops waiting, but for a crash: its request may yet land.   *)
LEMMA AbandonSend ==
    ASSUME SafeTypes, Settled, RequestInv, SendInv, NEW a \in Attempts,
           NEW n, pc[a] = "set" => n # Absent, Abandon(a, n),
           \A b \in Attempts : b # a => phase'[b] = phase[b] /\ pc'[b] = pc[b]
    PROVE  SendInv'
<1>t. inflight \in [Attempts -> Request \cup {Absent}]
  BY DEF SafeTypes, TypeOK, HostTypeOK
<1>1. /\ strays' = strays \cup ({inflight[a]} \ {Absent})
      /\ inflight' = [inflight EXCEPT ![a] = Absent]
      /\ abandoned \subseteq abandoned'
      /\ n # Absent /\ inflight[a] # Absent => a \in abandoned'
  BY DEF Abandon
<1>2. ASSUME NEW q \in strays'
      PROVE  /\ q.slot = SlotOf(target'[q.by])
             /\ q.body.config[key'[q.by]] # Absent => q.by \in abandoned'
  <2>1. CASE q \in strays
    BY <1>1, <2>1, SenderSettled DEF SendInv
  <2>2. CASE q = inflight[a] /\ inflight[a] # Absent
    BY <1>1, <2>2, SenderSettled DEF SendInv
  <2> QED
    BY <1>1, <2>1, <2>2
<1>3. ASSUME NEW b \in Attempts, inflight'[b] # Absent
      PROVE  /\ phase'[b] = "await"
             /\ inflight'[b].slot = SlotOf(target'[b])
             /\ pc'[b] # "set" => inflight'[b].body.config[key'[b]] = Absent
  <2>1. b # a /\ inflight'[b] = inflight[b]
    BY <1>t, <1>1, <1>3
  <2> QED
    BY <1>3, <2>1, SenderSettled DEF SendInv
<1> QED
  BY <1>2, <1>3 DEF SendInv

(* A live call for the attempt's own target and key.                       *)
LEMMA MutateSend ==
    ASSUME SafeTypes, Settled, RequestInv, SendInv, NEW a \in Attempts, pc' = pc,
           target[a] \in Snapshot, key[a] \in Keys, UNCHANGED <<key, target>>,
           NEW n \in Nonces \cup {Absent}, pc[a] = "set" => n # Absent,
           pc[a] # "set" => n = Absent,
           MutateStep(a, target[a], key[a], n)
    PROVE  SendInv'
<1>t. /\ inflight \in [Attempts -> Request \cup {Absent}]
      /\ phase \in [Attempts -> Phases]
  BY DEF SafeTypes, TypeOK, HostTypeOK
<1>p. ASSUME NEW ph, GoTo(a, ph)
      PROVE  \A b \in Attempts : b # a => phase'[b] = phase[b]
  BY <1>t, <1>p DEF GoTo
<1>q. ASSUME strays' = strays, abandoned' = abandoned, inflight'[a] = Absent,
             \A b \in Attempts : b # a => inflight'[b] = inflight[b] /\ phase'[b] = phase[b]
      PROVE  SendInv'
  BY <1>q, QuietSend
<1>1. CASE FetchRefused(a) \/ WaitSucceeds(a) \/ WaitFails(a)
  <2>1. /\ phase[a] # "await" /\ inflight' = inflight /\ strays' = strays
        /\ abandoned' = abandoned /\ \E ph : GoTo(a, ph)
    BY <1>1 DEF FetchRefused, WaitSucceeds, WaitFails, incusVars
  <2>2. inflight[a] = Absent
    BY <2>1 DEF SendInv
  <2> QED
    BY <1>p, <1>q, <2>1, <2>2
<1>2. CASE UpdateApplied(a) \/ UpdateRetried(a) \/ UpdateRefused(a)
  <2>1. /\ inflight' = [inflight EXCEPT ![a] = Absent] /\ strays' = strays
        /\ abandoned' = abandoned /\ \E ph : GoTo(a, ph)
    BY <1>2 DEF UpdateApplied, UpdateRetried, UpdateRefused, incusVars
  <2>2. inflight'[a] = Absent /\ \A b \in Attempts : b # a => inflight'[b] = inflight[b]
    BY <1>t, <2>1
  <2> QED
    BY <1>p, <1>q, <2>1, <2>2
<1>3. CASE UpdateLost(a, n)
  <2>1. Abandon(a, n) /\ \A b \in Attempts : b # a => phase'[b] = phase[b]
    BY <1>3, <1>p DEF UpdateLost
  <2> QED
    BY <2>1, AbandonSend
<1>4. CASE MutateOnce(a, target[a], key[a], n)
  <2>1. /\ phase[a] = "fetch" /\ strays' = strays /\ abandoned' = abandoned
    BY <1>4 DEF MutateOnce, incusVars
  <2>2. inflight[a] = Absent
    BY <2>1 DEF SendInv
  <2>3. CASE inflight' = inflight
    <3>1. \E ph : GoTo(a, ph)
      BY <1>4 DEF MutateOnce
    <3> QED
      BY <1>p, <1>q, <2>1, <2>2, <2>3, <3>1
  <2>4. CASE inflight' # inflight
    <3> DEFINE rec == instances[SlotOf(target[a])]
               sent == [by |-> a, slot |-> SlotOf(target[a]), etag |-> Writable(rec),
                        body |-> EditedWritable(rec, key[a], n)]
    <3>1. FindsTarget(target[a]) /\ inflight' = [inflight EXCEPT ![a] = sent] /\ GoTo(a, "await")
      BY <1>4, <2>4 DEF MutateOnce
    <3>2. rec \in Record
      <4>1. SlotOf(target[a]) \in Slots
        BY DEF SlotOf, Slots, Snapshot
      <4> QED
        BY <3>1, <4>1 DEF FindsTarget, Present, SafeTypes, TypeOK, IncusTypeOK
    <3>3. sent.slot = SlotOf(target[a]) /\ sent.body = EditedWritable(rec, key[a], n)
      OBVIOUS
    <3>4. sent.body.config = [rec.config EXCEPT ![key[a]] = n]
      BY <3>3 DEF Writable, EditedWritable
    <3>5. sent.body.config[key[a]] = n
      BY <3>2, <3>4 DEF Record, Config, ConfigKeys
    <3> HIDE DEF sent
    <3>6. inflight'[a] = sent /\ phase'[a] = "await"
      BY <1>t, <3>1 DEF GoTo
    <3>7. \A b \in Attempts : b # a => inflight'[b] = inflight[b] /\ phase'[b] = phase[b]
      BY <1>t, <1>p, <3>1
    <3>8. ASSUME NEW b \in Attempts, inflight'[b] # Absent
          PROVE  /\ phase'[b] = "await"
                 /\ inflight'[b].slot = SlotOf(target'[b])
                 /\ pc'[b] # "set" => inflight'[b].body.config[key'[b]] = Absent
      <4>1. CASE b = a
        BY <3>3, <3>5, <3>6, <4>1
      <4>2. CASE b # a
        BY <3>7, <3>8, <4>2 DEF SendInv
      <4> QED
        BY <4>1, <4>2
    <3> QED
      BY <2>1, <3>8 DEF SendInv
  <2> QED
    BY <2>3, <2>4
<1> QED
  BY <1>1, <1>2, <1>3, <1>4 DEF MutateStep

(* The whole step.                                                         *)
LEMMA NextSend ==
    ASSUME SafeTypes, NonceInv, SendInv, [Next]_vars
    PROVE  SendInv'
<1>0. Settled /\ RequestInv /\ abandoned \subseteq abandoned'
  BY NextSettles, HistoryGrows DEF NonceInv
<1>t. /\ inflight \in [Attempts -> Request \cup {Absent}]
      /\ phase \in [Attempts -> Phases]
      /\ pc \in [Attempts -> Active \cup {"idle", "done", "crashed"}]
  BY DEF SafeTypes, TypeOK, HostTypeOK, ServerTypeOK
<1>n. \A a \in Attempts : pc[a] \notin {"set", "unset"} => phase[a] # "await"
  BY DEF SafeTypes, ControlInv, Busy
<1>q. ASSUME NEW a \in Attempts, phase[a] # "await", UNCHANGED <<strays, inflight>>,
             \A b \in Attempts : b # a => phase'[b] = phase[b] /\ pc'[b] = pc[b]
      PROVE  SendInv'
  <2>1. inflight[a] = Absent
    BY <1>q DEF SendInv
  <2> QED
    BY <1>0, <1>q, <2>1, QuietSend
<1>e. ASSUME NEW a \in Attempts, NEW class, ReturnError(a, class) \/ ReturnAfterCleanup(a, class)
      PROVE  \A b \in Attempts : b # a => phase'[b] = phase[b] /\ pc'[b] = pc[b]
  BY <1>t, <1>e DEF ReturnError, ReturnAfterCleanup, RunCleanup, Enter, GoTo
<1>m. ASSUME NEW a \in Attempts, NEW st, Enter(a, st), phase' = phase \/ \E ph : GoTo(a, ph)
      PROVE  \A b \in Attempts : b # a => phase'[b] = phase[b] /\ pc'[b] = pc[b]
  BY <1>t, <1>m DEF Enter, GoTo
<1>1. ASSUME NEW a \in Attempts, Handler(a)
      PROVE  SendInv'
  <2>1. CASE Lookup(a) \/ Resolve(a) \/ LookupFails(a) \/ RandomFails(a)
    <3>1. pc[a] \in {"lookup", "draw"} /\ UNCHANGED <<strays, inflight>>
      BY <2>1 DEF Lookup, Resolve, LookupFails, RandomFails, At, incusVars
    <3>2. \A b \in Attempts : b # a => phase'[b] = phase[b] /\ pc'[b] = pc[b]
      BY <2>1, <1>e, <1>m DEF Lookup, Resolve, LookupFails, RandomFails
    <3> QED
      BY <1>n, <1>q, <3>1, <3>2
  <2>2. CASE \E k \in Keys, n \in Nonces : ReadRandomPair(a, k, n)
    <3>1. /\ pc[a] = "draw" /\ UNCHANGED <<strays, inflight>>
          /\ Enter(a, "set") /\ GoTo(a, "fetch")
      BY <2>2 DEF ReadRandomPair, At, incusVars
    <3> QED
      BY <1>m, <1>n, <1>q, <3>1
  <2>3. CASE SendChallenge(a) \/ ResponseFails(a)
             \/ \E vm \in UUIDs : \E got \in Answers(vm) : ReceiveResponse(a, vm, got)
    <3>1. pc[a] \in {"send", "recv"} /\ UNCHANGED <<strays, inflight>>
      BY <2>3 DEF SendChallenge, ResponseFails, ReceiveResponse, At, incusVars
    <3>2. \A b \in Attempts : b # a => phase'[b] = phase[b] /\ pc'[b] = pc[b]
      BY <2>3, <1>e, <1>m DEF SendChallenge, ResponseFails, ReceiveResponse, RunCleanup
    <3> QED
      BY <1>n, <1>q, <3>1, <3>2
  <2>4. CASE SetNonceReturns(a)
    <3>1. phase[a] \in Returned /\ UNCHANGED <<strays, inflight>>
      BY <2>4 DEF SetNonceReturns, incusVars
    <3>2. \A b \in Attempts : b # a => phase'[b] = phase[b] /\ pc'[b] = pc[b]
      BY <2>4, <1>e, <1>m DEF SetNonceReturns
    <3> QED
      BY <1>q, <3>1, <3>2 DEF Returned, ContextErrors
  <2>5. CASE CleanupReturns(a)
    <3>1. /\ phase[a] \in Returned /\ UNCHANGED <<strays, inflight>>
          /\ GoTo(a, "idle") /\ \E st : Enter(a, st)
      BY <2>5 DEF CleanupReturns, incusVars
    <3> QED
      BY <1>m, <1>q, <3>1 DEF Returned, ContextErrors
  <2>6. CASE SendAttributes(a)
    <3>1. /\ pc[a] = "attrs" /\ UNCHANGED <<strays, inflight, phase>> /\ Enter(a, "done")
      BY <2>6 DEF SendAttributes, At, incusVars, hostVars
    <3> QED
      BY <1>m, <1>n, <1>q, <3>1
  <2>7. CASE SetNonceGivesUp(a)
    <3>1. pc[a] = "set" /\ nonce[a] # Absent /\ pc' = pc
      BY <2>7 DEF SetNonceGivesUp, At, SafeTypes, ControlInv, Holding
    <3>2. PICK err : GiveUp(a, nonce[a], err)
      BY <2>7 DEF SetNonceGivesUp
    <3>3. Abandon(a, nonce[a]) /\ \A b \in Attempts : b # a => phase'[b] = phase[b]
      BY <1>t, <3>2 DEF GiveUp, GoTo
    <3> QED
      BY <1>0, <3>1, <3>3, AbandonSend
  <2>8. CASE UnsetNonceGivesUp(a)
    <3>1. pc[a] = "unset" /\ pc' = pc
      BY <2>8 DEF UnsetNonceGivesUp, At
    <3>2. Abandon(a, Absent) /\ \A b \in Attempts : b # a => phase'[b] = phase[b]
      BY <1>t, <2>8 DEF UnsetNonceGivesUp, GiveUp, GoTo
    <3> QED
      BY <1>0, <3>1, <3>2, AbandonSend
  <2> QED
    BY <1>1, <2>1, <2>2, <2>3, <2>4, <2>5, <2>6, <2>7, <2>8 DEF Handler
<1>2. ASSUME NEW a \in Attempts, PayloadRejected(a) \/ \E p \in Payloads : PayloadReceived(a, p)
      PROVE  SendInv'
  <2>1. pc[a] = "idle" /\ UNCHANGED <<strays, inflight>>
    BY <1>2 DEF PayloadRejected, PayloadReceived, At, incusVars
  <2>2. \A b \in Attempts : b # a => phase'[b] = phase[b] /\ pc'[b] = pc[b]
    BY <1>2, <1>e, <1>m DEF PayloadRejected, PayloadReceived
  <2> QED
    BY <1>n, <1>q, <2>1, <2>2
<1>3. ASSUME NEW a \in Attempts, SetNonceStep(a)
      PROVE  SendInv'
  <2>1. /\ pc[a] = "set" /\ pc' = pc /\ UNCHANGED <<key, target>>
        /\ MutateStep(a, target[a], key[a], nonce[a])
    BY <1>3 DEF SetNonceStep, At, localVars
  <2>2. /\ target[a] \in Snapshot /\ key[a] \in Keys
        /\ nonce[a] \in Nonces \cup {Absent} /\ nonce[a] # Absent
    BY <2>1 DEF SafeTypes, TypeOK, ServerTypeOK, ControlInv, Holding
  <2> QED
    BY <1>0, <2>1, <2>2, MutateSend
<1>4. ASSUME NEW a \in Attempts, UnsetNonceStep(a)
      PROVE  SendInv'
  <2>1. /\ pc[a] = "unset" /\ pc' = pc /\ UNCHANGED <<key, target>>
        /\ MutateStep(a, target[a], key[a], Absent)
    BY <1>4 DEF UnsetNonceStep, At, localVars
  <2>2. target[a] \in Snapshot /\ key[a] \in Keys
    BY <2>1 DEF SafeTypes, TypeOK, ServerTypeOK, ControlInv, Holding
  <2> QED
    BY <1>0, <2>1, <2>2, MutateSend
<1>5. ASSUME NEW a \in Attempts, Cancel(a)
      PROVE  SendInv'
  BY <1>0, <1>5, QuietSend DEF Cancel, incusVars, hostVars
<1>6. CASE Foreign
  <2>1. strays' \subseteq strays
    BY <1>6 DEF Foreign, ForeignStep, OperatorEdit, OperatorDropsKey, Migrate, Delete, Create,
        Relocate, StrayApplied
  <2> QED
    BY <1>0, <1>6, <2>1, QuietSend DEF Foreign, hostVars
<1>7. CASE UNCHANGED vars
  BY <1>0, <1>7, QuietSend DEF vars, incusVars, hostVars
<1>8. CASE Crash
  <2> DEFINE running == {a \in Attempts : pc[a] \in Active}
  <2>1. /\ strays' = strays \cup ({inflight[a] : a \in running} \ {Absent})
        /\ inflight' = [a \in Attempts |-> IF a \in running THEN Absent ELSE inflight[a]]
        /\ phase' = [a \in Attempts |-> IF a \in running THEN "idle" ELSE phase[a]]
        /\ pc' = [a \in Attempts |-> IF a \in running THEN "crashed" ELSE pc[a]]
        /\ \A a \in running : pc[a] = "set" /\ inflight[a] # Absent => a \in abandoned'
    BY <1>8 DEF Crash, At
  <2>2. ASSUME NEW q \in strays'
        PROVE  /\ q.slot = SlotOf(target'[q.by])
               /\ q.body.config[key'[q.by]] # Absent => q.by \in abandoned'
    <3>1. CASE q \in strays
      BY <1>0, <3>1, SenderSettled DEF SendInv
    <3>2. CASE \E a \in running : q = inflight[a] /\ inflight[a] # Absent
      BY <1>0, <2>1, <3>2, SenderSettled DEF SendInv
    <3> QED
      BY <2>1, <3>1, <3>2
  <2>3. ASSUME NEW b \in Attempts, inflight'[b] # Absent
        PROVE  /\ phase'[b] = "await"
               /\ inflight'[b].slot = SlotOf(target'[b])
               /\ pc'[b] # "set" => inflight'[b].body.config[key'[b]] = Absent
    <3>1. b \notin running /\ inflight'[b] = inflight[b]
      BY <2>1, <2>3
    <3>2. phase'[b] = phase[b] /\ pc'[b] = pc[b]
      BY <2>1, <3>1
    <3> QED
      BY <1>0, <2>3, <3>1, <3>2, SenderSettled DEF SendInv
  <2> QED
    BY <2>2, <2>3 DEF SendInv
<1> QED
  BY <1>1, <1>2, <1>3, <1>4, <1>5, <1>6, <1>7, <1>8 DEF Next

(* Only the write that SetNonce waits for puts a key where none was, or a  *)
(* request its attempt has given up on.                                    *)
LEMMA StaysAccounted ==
    ASSUME SafeTypes, NonceInv, SendInv, [Next]_vars, NEW a \in Attempts, Accounted(a),
           UpdateApplied(a) => pc[a] # "set"
    PROVE  Accounted(a)'
<1> SUFFICES ASSUME NEW slot \in Slots, HoldsKey(a, slot)'
             PROVE  a \in abandoned' \/ target'[a].uuid \in moved'
  BY DEF Accounted, Resident, HoldsKey, Explained
<1>1. key[a] # Absent /\ target'[a] = target[a] /\ KeyOrigin(key[a], slot)
  BY KeyWasDrawn
<1>2. \/ HoldsKey(a, slot)
      \/ target[a].uuid \in moved'
      \/ \E q \in strays : q.by = a /\ SetsKey(q, key[a], slot)
      \/ UpdateApplied(a) /\ SetsKey(inflight[a], key[a], slot)
  BY <1>1, OwnSetter
<1>3. CASE HoldsKey(a, slot)
  <2>1. Explained(a)
    BY <1>3 DEF Accounted, Resident, HoldsKey
  <2> QED
    BY <1>1, <2>1, HistoryGrows DEF Explained
<1>4. CASE \E q \in strays : q.by = a /\ SetsKey(q, key[a], slot)
  <2>1. a \in abandoned
    BY <1>4 DEF SendInv, SetsKey
  <2> QED
    BY <2>1, HistoryGrows
<1>5. ASSUME UpdateApplied(a), SetsKey(inflight[a], key[a], slot) PROVE FALSE
  BY <1>5 DEF SendInv, SetsKey, UpdateApplied, SafeTypes, TypeOK, HostTypeOK
<1> QED
  BY <1>1, <1>2, <1>3, <1>4, <1>5

(* mutateOnce of UnsetNonce succeeds without a write: the key is not where *)
(* it was put.                                                             *)
LEMMA UnsetFindsNone ==
    ASSUME OneTypePerUUID, SafeTypes, NonceInv, KindInv, PlaceInv, NEW a \in Attempts,
           target[a] \in Snapshot, key[a] \in Keys,
           \/ ~FindsTarget(target[a])
           \/ instances[SlotOf(target[a])].config[key[a]] = Absent
    PROVE  Accounted(a)
<1> SUFFICES ASSUME NEW slot \in Slots, HoldsKey(a, slot), target[a].uuid \notin moved
             PROVE  FALSE
  BY DEF Accounted, Resident, HoldsKey, Explained
<1>1. slot = SlotOf(target[a])
  BY DEF PlaceInv
<1>2. NewInstanceUUID(instances[slot].uuid) = target[a].uuid
  BY HolderIsTarget, KeyAssumption
<1>3. PICK r \in InitialRecords :
        NewInstanceUUID(r.uuid) = target[a].uuid /\ r.type = InstanceTypeVirtualMachine
  <2>1. target[a] # Absent
    BY KeyAssumption
  <2> QED
    BY <2>1 DEF KindInv, NamesVM
<1>4. PICK s \in InitialRecords :
        NewInstanceUUID(s.uuid) = target[a].uuid /\ s.type = instances[slot].type
  BY <1>2 DEF KindInv, HoldsKey
<1>5. target[a].uuid # ""
  BY UUIDAssumption DEF Snapshot
<1>6. FindsTarget(target[a])
  BY <1>1, <1>2, <1>3, <1>4, <1>5 DEF OneTypePerUUID, FindsTarget, MatchResolvedTarget, HoldsKey
<1>7. instances[slot].config[key[a]] # Absent
  BY DEF HoldsKey, NonceKeysOf
<1> QED
  BY <1>1, <1>6, <1>7

(* Incus applies the update of UnsetNonce.                                 *)
LEMMA UnsetRemoves ==
    ASSUME SafeTypes, NonceInv, PlaceInv, SendInv, [Next]_vars, NEW a \in Attempts,
           pc[a] = "unset", UpdateApplied(a)
    PROVE  Accounted(a)'
<1> SUFFICES ASSUME NEW slot \in Slots, HoldsKey(a, slot)'
             PROVE  target'[a].uuid \in moved'
  BY DEF Accounted, Resident, HoldsKey, Explained
<1>1. key[a] # Absent /\ key'[a] = key[a] /\ target'[a] = target[a]
  BY KeyWasDrawn
<1>2. PICK q \in Request : q = inflight[a]
  BY DEF UpdateApplied, SafeTypes, TypeOK, HostTypeOK
<1>3. /\ q # Absent /\ q.slot = SlotOf(target[a]) /\ q.body.config[key[a]] = Absent
      /\ ETagMatches(q) /\ ApplyRequest(q) /\ moved' = moved
  BY <1>2 DEF UpdateApplied, SendInv, SafeTypes, TypeOK, HostTypeOK
<1>4. PICK new : new = Rewritten(instances[q.slot], q.body)
  OBVIOUS
<1>5. /\ q.slot \in Slots /\ instances' = [instances EXCEPT ![q.slot] = new]
      /\ instances \in [Slots -> Record \cup {Absent}] /\ instances[q.slot] \in Record
  BY <1>3, <1>4 DEF ApplyRequest, Store, ETagMatches, Present, Request, SafeTypes, TypeOK,
      IncusTypeOK
<1>6. new.config = q.body.config
  BY <1>4, <1>5 DEF Rewritten, Record
<1>7. slot # q.slot
  BY <1>1, <1>3, <1>5, <1>6 DEF HoldsKey, NonceKeysOf
<1>8. HoldsKey(a, slot)
  BY <1>1, <1>5, <1>7 DEF HoldsKey, Present
<1> QED
  BY <1>1, <1>3, <1>7, <1>8 DEF PlaceInv

(* A successful cleanup stays accounted for.  One attempt is looked at:    *)
(* its own steps, and the steps that leave its control alone.              *)
LEMMA NextClean ==
    ASSUME OneTypePerUUID, SafeTypes, NonceInv, KindInv, PlaceInv, SendInv, CleanInv, [Next]_vars
    PROVE  CleanInv'
<1> DEFINE CleanAfter(b) ==
             /\ pc'[b] = "unset" /\ phase'[b] \in {"ok", "applied"} => Accounted(b)'
             /\ cleanup'[b] = "ok" => Accounted(b)' /\ pc'[b] \in {"attrs", "done", "crashed"}
<1> SUFFICES ASSUME NEW b \in Attempts PROVE CleanAfter(b)
  BY DEF CleanInv
<1>t. /\ phase \in [Attempts -> Phases]
      /\ pc \in [Attempts -> Active \cup {"idle", "done", "crashed"}]
      /\ cleanup \in [Attempts -> {"none", "armed", "ok", "err"}]
  BY DEF SafeTypes, TypeOK, HostTypeOK, ServerTypeOK
<1>k. ASSUME Accounted(b), pc[b] # "set" PROVE Accounted(b)'
  BY <1>k, StaysAccounted
<1>o. ASSUME cleanup[b] = "ok" PROVE Accounted(b)' /\ pc[b] \in {"attrs", "done", "crashed"}
  <2>1. Accounted(b) /\ pc[b] \in {"attrs", "done", "crashed"}
    BY <1>o DEF CleanInv
  <2> QED
    BY <1>k, <2>1
<1>s. ASSUME pc'[b] = pc[b], phase'[b] = phase[b], cleanup'[b] = cleanup[b] PROVE CleanAfter(b)
  <2>1. ASSUME pc[b] = "unset", phase[b] \in {"ok", "applied"} PROVE Accounted(b)'
    BY <1>k, <2>1 DEF CleanInv
  <2> QED
    BY <1>o, <1>s, <2>1
<1>q. ASSUME cleanup'[b] = cleanup[b], pc'[b] # "unset" \/ phase'[b] \notin {"ok", "applied"},
             pc[b] \in {"attrs", "done", "crashed"} => pc'[b] \in {"attrs", "done", "crashed"}
      PROVE  CleanAfter(b)
  BY <1>o, <1>q
<1>e. ASSUME NEW a \in Attempts, NEW class, ReturnError(a, class) \/ ReturnAfterCleanup(a, class),
             pc[a] \notin {"attrs", "done", "crashed"}
      PROVE  CleanAfter(b)
  <2>1. CASE a # b
    BY <1>e, <1>s, <1>t, <2>1 DEF ReturnError, ReturnAfterCleanup, RunCleanup, Enter, GoTo
  <2>2. CASE a = b
    BY <1>e, <1>q, <1>t, <2>2 DEF ReturnError, ReturnAfterCleanup, RunCleanup, Enter, GoTo
  <2> QED
    BY <2>1, <2>2
<1>m. ASSUME NEW a \in Attempts, NEW st, Enter(a, st), UNCHANGED cleanup,
             \/ phase' = phase /\ st # "unset"
             \/ \E ph : GoTo(a, ph) /\ ph \notin {"ok", "applied"},
             st = "done" \/ pc[a] \notin {"attrs", "done", "crashed"}
      PROVE  CleanAfter(b)
  <2>1. CASE a # b
    BY <1>m, <1>s, <1>t, <2>1 DEF Enter, GoTo
  <2>2. CASE a = b
    BY <1>m, <1>q, <1>t, <2>2 DEF Enter, GoTo
  <2> QED
    BY <2>1, <2>2
<1>g. ASSUME NEW a \in Attempts, UNCHANGED <<pc, cleanup>>, NEW ph, GoTo(a, ph),
             \/ pc[a] # "unset" \/ ph \notin {"ok", "applied"}
             \/ a = b => Accounted(b)'
      PROVE  CleanAfter(b)
  <2>1. CASE a # b
    BY <1>g, <1>s, <1>t, <2>1 DEF GoTo
  <2>2. CASE a = b
    BY <1>g, <1>o, <1>t, <2>2 DEF GoTo
  <2> QED
    BY <2>1, <2>2
<1>1. ASSUME NEW a \in Attempts, Handler(a)
      PROVE  CleanAfter(b)
  <2>1. CASE Lookup(a) \/ Resolve(a) \/ LookupFails(a) \/ RandomFails(a)
    <3>1. pc[a] \in {"lookup", "draw"}
      BY <2>1 DEF Lookup, Resolve, LookupFails, RandomFails, At
    <3> QED
      BY <1>e, <1>m, <1>s, <2>1, <3>1 DEF Lookup, Resolve, LookupFails, RandomFails
  <2>2. CASE \E k \in Keys, n \in Nonces : ReadRandomPair(a, k, n)
    <3>1. /\ pc' = [pc EXCEPT ![a] = "set"] /\ phase' = [phase EXCEPT ![a] = "fetch"]
          /\ cleanup' = [cleanup EXCEPT ![a] = "armed"]
      BY <2>2 DEF ReadRandomPair, Enter, GoTo
    <3>2. CASE a # b
      BY <1>s, <1>t, <3>1, <3>2
    <3>3. CASE a = b
      BY <1>t, <3>1, <3>3
    <3> QED
      BY <3>2, <3>3
  <2>3. CASE SendChallenge(a) \/ ResponseFails(a)
             \/ \E vm \in UUIDs : \E got \in Answers(vm) : ReceiveResponse(a, vm, got)
    <3>1. pc[a] \in {"send", "recv"}
      BY <2>3 DEF SendChallenge, ResponseFails, ReceiveResponse, At
    <3> QED
      BY <1>e, <1>m, <2>3, <3>1 DEF SendChallenge, ResponseFails, ReceiveResponse, RunCleanup
  <2>4. CASE SetNonceReturns(a)
    <3>1. pc[a] = "set"
      BY <2>4 DEF SetNonceReturns, At
    <3> QED
      BY <1>e, <1>m, <2>4, <3>1 DEF SetNonceReturns
  <2>5. CASE CleanupReturns(a)
    <3>1. /\ pc[a] = "unset" /\ phase[a] \in Returned
          /\ cleanup' = [cleanup EXCEPT ![a] = IF phase[a] = "ok" THEN "ok" ELSE "err"]
          /\ phase' = [phase EXCEPT ![a] = "idle"]
          /\ \E st \in {"attrs", "done"} : pc' = [pc EXCEPT ![a] = st]
      BY <2>5 DEF CleanupReturns, At, Enter, GoTo
    <3>2. CASE a # b
      BY <1>s, <1>t, <3>1, <3>2
    <3>3. CASE a = b
      <4>1. phase[b] = "ok" => Accounted(b)'
        BY <1>k, <3>1, <3>3 DEF CleanInv
      <4> QED
        BY <1>t, <3>1, <3>3, <4>1
    <3> QED
      BY <3>2, <3>3
  <2>6. CASE SendAttributes(a)
    <3>1. phase' = phase /\ UNCHANGED cleanup /\ Enter(a, "done")
      BY <2>6 DEF SendAttributes, hostVars
    <3> QED
      BY <1>m, <3>1
  <2>7. CASE SetNonceGivesUp(a) \/ UnsetNonceGivesUp(a)
    <3>1. UNCHANGED <<pc, cleanup>> /\ \E err \in ContextErrors : GoTo(a, err)
      BY <2>7 DEF SetNonceGivesUp, UnsetNonceGivesUp, GiveUp, ContextEnds, ContextErrors
    <3> QED
      BY <1>g, <3>1 DEF ContextErrors
  <2> QED
    BY <1>1, <2>1, <2>2, <2>3, <2>4, <2>5, <2>6, <2>7 DEF Handler
<1>2. ASSUME NEW a \in Attempts, PayloadRejected(a) \/ \E p \in Payloads : PayloadReceived(a, p)
      PROVE  CleanAfter(b)
  <2>1. pc[a] = "idle"
    BY <1>2 DEF PayloadRejected, PayloadReceived, At
  <2> QED
    BY <1>2, <1>e, <1>m, <2>1 DEF PayloadRejected, PayloadReceived
<1>3. ASSUME NEW a \in Attempts, SetNonceStep(a)
      PROVE  CleanAfter(b)
  <2>1. pc[a] = "set" /\ UNCHANGED <<pc, cleanup>> /\ \E ph : GoTo(a, ph)
    BY <1>3 DEF SetNonceStep, At, MutateStep, MutateOnce, FetchRefused, UpdateApplied,
        UpdateRetried, UpdateRefused, UpdateLost, WaitSucceeds, WaitFails
  <2> QED
    BY <1>g, <2>1
<1>4. ASSUME NEW a \in Attempts, UnsetNonceStep(a)
      PROVE  CleanAfter(b)
  <2>0. /\ pc[a] = "unset" /\ UNCHANGED <<pc, cleanup, key, target>>
        /\ MutateStep(a, target[a], key[a], Absent)
    BY <1>4 DEF UnsetNonceStep, At, localVars
  <2>1. target[a] \in Snapshot /\ key[a] \in Keys
    BY <2>0 DEF SafeTypes, TypeOK, ServerTypeOK, ControlInv, Holding
  <2>2. CASE FetchRefused(a) \/ UpdateRetried(a) \/ UpdateRefused(a) \/ UpdateLost(a, Absent)
             \/ WaitFails(a)
    <3>1. \E ph \in {"fetch", "other"} : GoTo(a, ph)
      BY <2>2 DEF FetchRefused, UpdateRetried, UpdateRefused, UpdateLost, WaitFails
    <3> QED
      BY <1>g, <2>0, <3>1
  <2>3. CASE WaitSucceeds(a)
    <3>1. phase[a] = "applied" /\ GoTo(a, "ok")
      BY <2>3 DEF WaitSucceeds
    <3>2. a = b => Accounted(b)'
      BY <1>k, <2>0, <3>1 DEF CleanInv
    <3> QED
      BY <1>g, <2>0, <3>1, <3>2
  <2>4. CASE UpdateApplied(a)
    <3>1. GoTo(a, "applied")
      BY <2>4 DEF UpdateApplied
    <3>2. Accounted(a)'
      BY <2>0, <2>4, UnsetRemoves
    <3> QED
      BY <1>g, <2>0, <3>1, <3>2
  <2>5. CASE MutateOnce(a, target[a], key[a], Absent)
    <3>1. CASE GoTo(a, "await")
      BY <1>g, <2>0, <3>1
    <3>2. CASE /\ GoTo(a, "ok")
               /\ \/ ~FindsTarget(target[a])
                  \/ instances[SlotOf(target[a])].config[key[a]] = Absent
      <4>1. Accounted(a)
        BY <2>1, <3>2, UnsetFindsNone
      <4>2. a = b => Accounted(b)'
        BY <1>k, <2>0, <4>1
      <4> QED
        BY <1>g, <2>0, <3>2, <4>2
    <3> QED
      BY <2>5, <3>1, <3>2 DEF MutateOnce
  <2> QED
    BY <2>0, <2>2, <2>3, <2>4, <2>5 DEF MutateStep
<1>5. ASSUME NEW a \in Attempts, Cancel(a)
      PROVE  CleanAfter(b)
  BY <1>5, <1>s DEF Cancel, hostVars
<1>6. CASE Foreign \/ UNCHANGED vars
  BY <1>6, <1>s DEF Foreign, vars, hostVars
<1>7. CASE Crash
  <2>1. /\ cleanup' = cleanup
        /\ pc'[b] = IF pc[b] \in Active THEN "crashed" ELSE pc[b]
        /\ phase'[b] = IF pc[b] \in Active THEN "idle" ELSE phase[b]
    BY <1>7 DEF Crash
  <2>2. CASE pc[b] \in Active
    BY <1>q, <2>1, <2>2
  <2>3. CASE pc[b] \notin Active
    BY <1>s, <2>1, <2>3
  <2> QED
    BY <2>2, <2>3
<1> QED
  BY <1>1, <1>2, <1>3, <1>4, <1>5, <1>6, <1>7 DEF Next

(* With KindInv, PlaceInv and SendInv, what a successful cleanup left      *)
(* behind is explained at every moment.                                    *)
LEMMA ResidueInvariance == OneTypePerUUID => (Spec => []ResidueInv)
<1> SUFFICES ASSUME OneTypePerUUID PROVE Spec => []ResidueInv
  OBVIOUS
<1>1. Init => ResidueInv
  <2> SUFFICES ASSUME Init PROVE ResidueInv
    OBVIOUS
  <2>1. /\ instances \in InitialInstances /\ strays = {}
        /\ search = [a \in Attempts |-> NoSearch] /\ target = [a \in Attempts |-> Absent]
        /\ key = [a \in Attempts |-> Absent] /\ inflight = [a \in Attempts |-> Absent]
        /\ phase = [a \in Attempts |-> "idle"] /\ cleanup = [a \in Attempts |-> "none"]
    BY DEF Init, IncusInit, HostInit
  <2>2. KindInv
    <3>1. ASSUME NEW slot \in Slots, Present(slot) PROVE instances[slot] \in InitialRecords
      BY <2>1, <3>1 DEF Present, InitialRecords
    <3>2. NoSearch.matched = Absent
      BY DEF NoSearch
    <3> QED
      BY <2>1, <3>1, <3>2 DEF KindInv
  <2>3. PlaceInv
    BY <2>1, KeyAssumption DEF PlaceInv, HoldsKey, NonceKeysOf
  <2>4. SendInv
    BY <2>1 DEF SendInv
  <2>5. CleanInv
    BY <2>1 DEF CleanInv
  <2> QED
    BY <2>2, <2>3, <2>4, <2>5 DEF ResidueInv
<1>2. SafeTypes /\ NonceInv /\ ResidueInv /\ [Next]_vars => ResidueInv'
  <2> SUFFICES ASSUME SafeTypes, NonceInv, ResidueInv, [Next]_vars PROVE ResidueInv'
    OBVIOUS
  <2>1. KindInv' /\ PlaceInv' /\ SendInv' /\ CleanInv'
    BY NextKind, NextPlace, NextSend, NextClean DEF ResidueInv, NonceInv
  <2> QED
    BY <2>1 DEF ResidueInv
<1> QED
  BY <1>1, <1>2, Invariance, PTL DEF Spec

(* Where a UUID tells VMs from containers, a key that outlives a cleanup   *)
(* reported as successful has one of two causes: SetNonce gave up on a     *)
(* write that Incus still applied, or the VM was renamed or moved and      *)
(* UnsetNonce took its 404 for success.                                    *)
THEOREM ResidueAccounted == OneTypePerUUID => (Spec => []ResidueExplained)
<1> SUFFICES ASSUME OneTypePerUUID PROVE Spec => []ResidueExplained
  OBVIOUS
<1>1. ResidueInv => ResidueExplained
  BY DEF ResidueInv, CleanInv, Accounted, Explained, ResidueExplained
<1> QED
  BY <1>1, ResidueInvariance, PTL

-----------------------------------------------------------------------------
(* What a step does to the instances.                                      *)

(* An instance is replaced by one that says the same of itself.            *)
Rewrite(slot, rec) ==
    /\ Present(slot)
    /\ instances' = [instances EXCEPT ![slot] = rec]
    /\ rec.uuid = instances[slot].uuid
    /\ rec.type = instances[slot].type
    /\ rec.cloudInitID = instances[slot].cloudInitID

(* A request that Incus applies changes nothing of the identity.           *)
LEMMA AppliedRewrites ==
    ASSUME SafeTypes, NEW q \in Request, OwnKeyOnly(q, key, nonce, target),
           ETagMatches(q), ApplyRequest(q)
    PROVE  \E slot \in Slots, rec \in Record :
              Rewrite(slot, rec) /\ rec.location = instances[slot].location
<1>1. PICK slot \in Slots : slot = q.slot
  BY DEF Request
<1>2. PICK old \in Record : old = instances[slot]
  BY <1>1 DEF ETagMatches, Present, SafeTypes, TypeOK, IncusTypeOK
<1>3. /\ Present(slot) /\ Writable(old) = q.etag
      /\ instances' = [instances EXCEPT ![slot] = Rewritten(old, q.body)]
  BY <1>1, <1>2 DEF ETagMatches, ApplyRequest, Store
<1>4. q.body.uuid = old.uuid /\ q.body.cloudInitID = old.cloudInitID
  BY <1>3 DEF OwnKeyOnly, Writable
<1>5. q.body \in Writables
  BY DEF Request
<1>6. PICK rec \in Record : rec = Rewritten(old, q.body)
  BY <1>5, RewrittenRecord
<1>7. /\ rec.uuid = q.body.uuid /\ rec.cloudInitID = q.body.cloudInitID
      /\ rec.type = old.type /\ rec.location = old.location
  BY <1>5, <1>6 DEF Rewritten, Record
<1> QED
  BY <1>2, <1>3, <1>4, <1>6, <1>7 DEF Rewrite

(* The handlers' own steps.                                                *)
LEMMA HandlersWrite ==
    ASSUME SafeTypes, RequestInv, NEW a \in Attempts,
           \/ PayloadRejected(a) \/ \E p : PayloadReceived(a, p)
           \/ \E vm, got : ReceiveResponse(a, vm, got)
           \/ Handler(a) \/ SetNonceStep(a) \/ UnsetNonceStep(a) \/ Cancel(a)
    PROVE  \/ instances' = instances
           \/ \E slot \in Slots, rec \in Record :
                 Rewrite(slot, rec) /\ rec.location = instances[slot].location
<1>1. instances' = instances \/ UpdateApplied(a)
  <2>1. ASSUME SetNonceStep(a) \/ UnsetNonceStep(a)
        PROVE  instances' = instances \/ UpdateApplied(a)
    BY <2>1 DEF SetNonceStep, UnsetNonceStep, MutateStep, MutateOnce, FetchRefused, UpdateRetried,
       UpdateRefused, UpdateLost, WaitSucceeds, WaitFails, incusVars
  <2> QED
    BY <2>1 DEF PayloadRejected, PayloadReceived, Handler, Lookup, Resolve, LookupFails,
       ReadRandomPair, RandomFails, GiveUp, SetNonceGivesUp, SetNonceReturns, SendChallenge,
       ReceiveResponse, ResponseFails, UnsetNonceGivesUp, CleanupReturns, SendAttributes, Cancel,
       incusVars
<1>2. CASE UpdateApplied(a)
  <2>1. inflight[a] \in Request /\ OwnKeyOnly(inflight[a], key, nonce, target)
    BY <1>2 DEF UpdateApplied, RequestInv, SafeTypes, TypeOK, HostTypeOK
  <2> QED
    BY <1>2, <2>1, AppliedRewrites DEF UpdateApplied
<1> QED
  BY <1>1, <1>2

(* What others do to the instances.                                        *)
LEMMA OthersChange ==
    ASSUME SafeTypes, RequestInv, ForeignStep
    PROVE  \/ \E slot \in Slots, rec \in Record :
                 Rewrite(slot, rec) /\ rec.location = instances[slot].location
           \/ /\ "migrate" \in Disturbances
              /\ \E slot \in Slots, rec \in Record :
                    Rewrite(slot, rec) /\ rec.location \in Locations
           \/ /\ "delete" \in Disturbances
              /\ \E slot \in Slots : instances' = [instances EXCEPT ![slot] = Absent]
           \/ /\ "create" \in Disturbances
              /\ \E slot \in Slots, rec \in InitialRecords :
                    /\ ~UUIDInUse(NewInstanceUUID(rec.uuid))
                    /\ instances' = [instances EXCEPT ![slot] = rec]
           \/ /\ "relocate" \in Disturbances
              /\ \E from, to \in Slots :
                    /\ Present(from) /\ ~Present(to)
                    /\ instances' = [instances EXCEPT ![from] = Absent, ![to] = instances[from]]
<1>t. instances \in [Slots -> Record \cup {Absent}] /\ strays \subseteq Request
  BY DEF SafeTypes, TypeOK, IncusTypeOK
<1>1. ASSUME NEW slot \in Slots, NEW k \in ConfigKeys, NEW v \in Values \cup Nonces \cup {Absent},
             Present(slot), instances' = [instances EXCEPT ![slot] = [instances[slot] EXCEPT !.config[k] = v]]
      PROVE  \E rec \in Record : Rewrite(slot, rec) /\ rec.location = instances[slot].location
  <2>1. PICK old \in Record : old = instances[slot]
    BY <1>t, <1>1 DEF Present
  <2>2. PICK cfg : cfg = [old.config EXCEPT ![k] = v]
    OBVIOUS
  <2>3. cfg \in Config
    BY <2>1, <2>2 DEF Record, Config
  <2>4. PICK rec : rec = [old EXCEPT !.config = cfg]
    OBVIOUS
  <2>5. /\ rec \in Record /\ rec.uuid = old.uuid /\ rec.type = old.type
        /\ rec.cloudInitID = old.cloudInitID /\ rec.location = old.location
    BY <2>3, <2>4 DEF Record
  <2>6. instances' = [instances EXCEPT ![slot] = rec]
    BY <1>1, <2>1, <2>2, <2>4
  <2> QED
    BY <1>1, <2>1, <2>5, <2>6 DEF Rewrite
<1>2. ASSUME NEW slot \in Slots, NEW k \in UserKeys, NEW v \in Values \cup {Absent},
             OperatorEdit(slot, k, v)
      PROVE  \E rec \in Record : Rewrite(slot, rec) /\ rec.location = instances[slot].location
  BY <1>1, <1>2 DEF OperatorEdit, Store, ConfigKeys
<1>3. ASSUME NEW slot \in Slots, NEW k \in Keys, OperatorDropsKey(slot, k)
      PROVE  \E rec \in Record : Rewrite(slot, rec) /\ rec.location = instances[slot].location
  BY <1>1, <1>3 DEF OperatorDropsKey, Store, ConfigKeys
<1>4. ASSUME NEW slot \in Slots, NEW loc \in Locations, Migrate(slot, loc)
      PROVE  \E rec \in Record : Rewrite(slot, rec) /\ rec.location \in Locations
  <2>1. PICK old \in Record : old = instances[slot]
    BY <1>t, <1>4 DEF Migrate, Present
  <2>2. PICK rec : rec = [old EXCEPT !.location = loc]
    OBVIOUS
  <2>3. /\ rec \in Record /\ rec.uuid = old.uuid /\ rec.type = old.type
        /\ rec.cloudInitID = old.cloudInitID /\ rec.location = loc
    BY <2>2 DEF Record
  <2>4. instances' = [instances EXCEPT ![slot] = rec] /\ Present(slot)
    BY <1>4, <2>1, <2>2 DEF Migrate, Store
  <2> QED
    BY <2>1, <2>3, <2>4 DEF Rewrite
<1>5. ASSUME NEW q \in strays, StrayApplied(q)
      PROVE  \E slot \in Slots, rec \in Record :
                Rewrite(slot, rec) /\ rec.location = instances[slot].location
  BY <1>t, <1>5, AppliedRewrites DEF StrayApplied, RequestInv
<1>6. ASSUME NEW slot \in Slots, NEW loc \in Locations, Migrate(slot, loc)
      PROVE  "migrate" \in Disturbances
  BY <1>6 DEF Migrate
<1> QED
  BY <1>2, <1>3, <1>4, <1>5, <1>6 DEF ForeignStep, Delete, Create, Store, Relocate

-----------------------------------------------------------------------------
(* Resolution.  While instances keep their places and identities, which of *)
(* them match given claims does not change during a search; each project   *)
(* looked up takes one slot off those that may still match.                *)

(* The slots that the search of a has yet to look up.                      *)
Ahead(a) == {<<search[a].rest[i], claims[a].name>> : i \in DOMAIN search[a].rest}

(* What has been counted are the candidates that are no longer ahead.      *)
Counted(a) ==
    /\ \A i \in DOMAIN search[a].rest :
          /\ \E j \in DOMAIN AllowList : AllowList[j] = search[a].rest[i]
          /\ \E j \in DOMAIN SearchOrder(claims[a]) : SearchOrder(claims[a])[j] = search[a].rest[i]
    /\ \A i, j \in DOMAIN search[a].rest : search[a].rest[i] = search[a].rest[j] => i = j
    /\ search[a].matches = 0 => Candidates(claims[a]) \subseteq Ahead(a)
    /\ search[a].matches = 1 =>
          /\ SlotOf(search[a].matched) \in Candidates(claims[a]) \ Ahead(a)
          /\ Candidates(claims[a]) \subseteq Ahead(a) \cup {SlotOf(search[a].matched)}
    /\ search[a].matches > 1 => \E s, t \in Candidates(claims[a]) : s # t

(* A record that the search for c would stumble over.                      *)
Malformed(c) ==
    \E i \in DOMAIN SearchOrder(c) :
       LET slot == <<SearchOrder(c)[i], c.name>> IN
       Present(slot) /\ ~Mappable(instances[slot])

Resolved(a) ==
    /\ claims[a] # Absent => claims[a].name \in Names
    /\ pc[a] = "idle" => search[a] = NoSearch
    /\ pc[a] \in {"idle", "lookup"} => target[a] = Absent
    /\ pc[a] = "lookup" => Counted(a)
    /\ claims[a] # Absent =>
          /\ target[a] # Absent => Candidates(claims[a]) = {SlotOf(target[a])}
          /\ result[a] = "denied" /\ target[a] = Absent =>
                Cardinality(Candidates(claims[a])) # 1 \/ Malformed(claims[a])

ResolvedInv == \A a \in Attempts : Resolved(a)

(* Which slots hold a candidate, and which a malformed record, is as it    *)
(* was.                                                                    *)
SamePlaces ==
    /\ \A c : Candidates(c)' = Candidates(c)
    /\ \A slot \in Slots :
          (Present(slot) /\ ~Mappable(instances[slot]))' <=> Present(slot) /\ ~Mappable(instances[slot])

(* An edit, a nonce or a late update moves nothing and renames nothing.    *)
LEMMA StepKeepsPlaces ==
    ASSUME SteadyIdentities, SafeTypes, RequestInv, [Next]_vars
    PROVE  SamePlaces
<1>t. instances \in [Slots -> Record \cup {Absent}]
  BY DEF SafeTypes, TypeOK, IncusTypeOK
<1>1. ASSUME instances' = instances
      PROVE  SamePlaces
  BY <1>1 DEF SamePlaces, Candidates, Present
<1>2. ASSUME NEW slot \in Slots, NEW rec \in Record, Rewrite(slot, rec),
             rec.location = instances[slot].location
      PROVE  SamePlaces
  <2>1. rec # Absent
    BY KeyAssumption
  <2>2. ASSUME NEW s \in Slots
        PROVE  /\ instances'[s] # Absent <=> instances[s] # Absent
               /\ instances[s] # Absent => /\ instances'[s].uuid = instances[s].uuid
                                           /\ instances'[s].type = instances[s].type
                                           /\ instances'[s].location = instances[s].location
                                           /\ instances'[s].cloudInitID = instances[s].cloudInitID
    BY <1>t, <1>2, <2>1 DEF Rewrite, Present
  <2>3. ASSUME NEW s \in Slots, instances[s] # Absent
        PROVE  Mappable(instances'[s]) <=> Mappable(instances[s])
    BY <2>2, <2>3 DEF Mappable, ResolvedLocation
  <2>4. ASSUME NEW s \in Slots, instances[s] # Absent, NEW c
        PROVE  MatchClaims(c, MapInstance(s, instances'[s]))
                  <=> MatchClaims(c, MapInstance(s, instances[s]))
    <3>1. PICK i, j : i = MapInstance(s, instances[s]) /\ j = MapInstance(s, instances'[s])
      OBVIOUS
    <3>2. /\ i.project = j.project /\ i.name = j.name /\ i.uuid = j.uuid /\ i.type = j.type
          /\ i.location = j.location /\ i.cloudInitID = j.cloudInitID
      BY <2>2, <2>4, <3>1 DEF MapInstance, ResolvedLocation
    <3> QED
      BY <3>1, <3>2 DEF MatchClaims, ValidateInstance
  <2>5. \A c : Candidates(c)' = Candidates(c)
    BY <2>2, <2>3, <2>4 DEF Candidates, Present
  <2> QED
    BY <2>2, <2>3, <2>5 DEF SamePlaces, Present
<1>3. ASSUME Foreign
      PROVE  SamePlaces
  <2>1. \E slot \in Slots, rec \in Record :
           Rewrite(slot, rec) /\ rec.location = instances[slot].location
    BY <1>3, OthersChange DEF Foreign, SteadyIdentities
  <2> QED
    BY <1>2, <2>1
<1>4. ASSUME NEW a \in Attempts,
             \/ PayloadRejected(a) \/ \E p \in Payloads : PayloadReceived(a, p)
             \/ Handler(a) \/ SetNonceStep(a) \/ UnsetNonceStep(a) \/ Cancel(a)
      PROVE  SamePlaces
  <2>1. \/ instances' = instances
        \/ \E slot \in Slots, rec \in Record :
              Rewrite(slot, rec) /\ rec.location = instances[slot].location
    BY <1>4, HandlersWrite
  <2> QED
    BY <1>1, <1>2, <2>1
<1>5. ASSUME Crash \/ UNCHANGED vars
      PROVE  SamePlaces
  BY <1>1, <1>5 DEF Crash, vars, incusVars
<1> QED
  BY <1>3, <1>4, <1>5 DEF Next

(* The slots a search passes are slots.                                    *)
LEMMA OrderedSlots ==
    ASSUME NEW c \in Claims, c.name \in Names, NEW i \in DOMAIN SearchOrder(c)
    PROVE  <<SearchOrder(c)[i], c.name>> \in Slots
<1>1. PICK order \in Seq(Projects) : order = SearchOrder(c)
  <2>1. CASE c.project = ""
    BY <2>1, ConfigurationAssumption DEF SearchOrder
  <2>2. CASE c.project # ""
    <3>1. PICK q \in Projects : q = c.project
      BY <2>2 DEF Claims
    <3>2. <<q>> \in Seq(Projects)
      OBVIOUS
    <3> QED
      BY <2>2, <3>1, <3>2 DEF SearchOrder
  <2> QED
    BY <2>1, <2>2
<1>2. order[i] \in Projects
  BY <1>1
<1> QED
  BY <1>1, <1>2 DEF Slots

(* The step neither searches nor resolves for b, and denies b only with a  *)
(* VM resolved.                                                            *)
SearchLeft(b) ==
    /\ claims'[b] = claims[b] /\ target'[b] = target[b]
    /\ result'[b] = "denied" /\ target[b] = Absent => result[b] = "denied"
    /\ pc'[b] \notin {"idle", "lookup"} \/ (pc'[b] = pc[b] /\ search'[b] = search[b])

(* Where the search is left alone, what was right of it stays so.          *)
LEMMA ResolvedStays ==
    ASSUME SafeTypes, SamePlaces, NEW b \in Attempts, Resolved(b), SearchLeft(b)
    PROVE  Resolved(b)'
<1> USE DEF SearchLeft
<1>1. PICK c : c = claims[b]
  OBVIOUS
<1>2. claims'[b] = c /\ Candidates(c)' = Candidates(c)
  BY <1>1 DEF SamePlaces
<1>3. ASSUME c # Absent
      PROVE  Malformed(c)' <=> Malformed(c)
  <2>1. c \in Claims /\ c.name \in Names
    BY <1>1, <1>3 DEF Resolved, SafeTypes, TypeOK, ServerTypeOK
  <2>2. \A i \in DOMAIN SearchOrder(c) : <<SearchOrder(c)[i], c.name>> \in Slots
    BY <2>1, OrderedSlots
  <2> QED
    BY <2>2 DEF SamePlaces, Malformed
<1>4. Candidates(claims[b])' = Candidates(claims[b])
  BY <1>1, <1>2
<1>5. c # Absent => (Malformed(claims[b])' <=> Malformed(claims[b]))
  BY <1>1, <1>2, <1>3
<1>6. pc'[b] = "lookup" => Counted(b)'
  <2> SUFFICES ASSUME pc'[b] = "lookup"
               PROVE  Counted(b)'
    OBVIOUS
  <2>1. Counted(b) /\ search'[b] = search[b]
    BY DEF Resolved
  <2>2. Ahead(b)' = Ahead(b)
    BY <2>1 DEF Ahead
  <2> QED
    BY <1>4, <2>1, <2>2 DEF Counted
<1> QED
  BY <1>1, <1>4, <1>5, <1>6 DEF Resolved

(* The number of candidates.                                               *)
LEMMA CandidateCount ==
    ASSUME NEW c
    PROVE  /\ Candidates(c) = {} => Cardinality(Candidates(c)) # 1
           /\ \A s, t \in Candidates(c) : s # t => Cardinality(Candidates(c)) # 1
<1>1. PICK S : S = Candidates(c)
  OBVIOUS
<1>2. PICK T : T = {<<AllowList[i], c.name>> : i \in DOMAIN AllowList}
  OBVIOUS
<1>3. S \subseteq T
  <2> SUFFICES ASSUME NEW s \in S
               PROVE  s \in T
    OBVIOUS
  <2>1. PICK i \in DOMAIN AllowList : AllowList[i] = s[1]
    BY <1>1 DEF Candidates
  <2>2. s \in Slots /\ MatchClaims(c, MapInstance(s, instances[s]))
    BY <1>1 DEF Candidates
  <2>3. s = <<s[1], s[2]>>
    BY <2>2 DEF Slots
  <2>4. c.name = s[2]
    BY <2>2 DEF MatchClaims, MapInstance
  <2> QED
    BY <1>2, <2>1, <2>3, <2>4
<1>4. IsFiniteSet(T)
  <2>1. PICK f : f = [i \in DOMAIN AllowList |-> <<AllowList[i], c.name>>]
    OBVIOUS
  <2>2. f \in Surjection(DOMAIN AllowList, T)
    BY <1>2, <2>1 DEF Surjection
  <2>3. PICK list \in Seq(Projects) : list = AllowList
    BY ConfigurationAssumption
  <2>4. DOMAIN list = 1 .. Len(list) /\ Len(list) \in Int
    OBVIOUS
  <2>5. IsFiniteSet(DOMAIN AllowList)
    BY <2>3, <2>4, FS_Interval
  <2> QED
    BY <2>2, <2>5, FS_Surjection
<1>5. IsFiniteSet(S)
  BY <1>3, <1>4, FS_Subset
<1>6. S = {} => Cardinality(S) # 1
  BY FS_EmptySet
<1>7. \A s, t \in S : s # t => Cardinality(S) # 1
  BY <1>5, FS_Singleton
<1> QED
  BY <1>1, <1>6, <1>7

(* A candidate for valid claims with an allowed hint is in their order;    *)
(* otherwise there is none.                                                *)
LEMMA CandidatesOrdered ==
    ASSUME NEW c, NEW slot \in Candidates(c)
    PROVE  /\ ValidateClaims(c) /\ AllowedHint(c)
           /\ slot = <<slot[1], c.name>>
           /\ \E i \in DOMAIN SearchOrder(c) : SearchOrder(c)[i] = slot[1]
<1>1. /\ slot \in Slots /\ \E i \in DOMAIN AllowList : AllowList[i] = slot[1]
      /\ MatchClaims(c, MapInstance(slot, instances[slot]))
  BY DEF Candidates
<1>2. ValidateClaims(c) /\ c.project \in {"", slot[1]} /\ c.name = slot[2]
  BY <1>1 DEF MatchClaims, MapInstance
<1>3. AllowedHint(c)
  BY <1>1, <1>2 DEF AllowedHint
<1>4. slot = <<slot[1], c.name>>
  <2>1. slot = <<slot[1], slot[2]>>
    BY <1>1 DEF Slots
  <2> QED
    BY <1>2, <2>1
<1>5. CASE c.project = ""
  <2>1. SearchOrder(c) = AllowList
    BY <1>5 DEF SearchOrder
  <2> QED
    BY <1>1, <1>2, <1>3, <1>4, <2>1
<1>6. CASE c.project # ""
  <2>1. PICK q : q = slot[1]
    OBVIOUS
  <2>2. SearchOrder(c) = <<q>>
    BY <1>2, <1>6, <2>1 DEF SearchOrder
  <2>3. 1 \in DOMAIN <<q>> /\ <<q>>[1] = q
    OBVIOUS
  <2> QED
    BY <1>2, <1>3, <1>4, <2>1, <2>2, <2>3
<1> QED
  BY <1>5, <1>6

(* The order of a search: allowed projects, none of them twice.            *)
LEMMA OrderAllowed ==
    ASSUME SteadyIdentities, NEW c, AllowedHint(c), NEW order, order = SearchOrder(c)
    PROVE  /\ \A i \in DOMAIN order : \E j \in DOMAIN AllowList : AllowList[j] = order[i]
           /\ \A i, j \in DOMAIN order : order[i] = order[j] => i = j
<1>1. CASE c.project = ""
  BY <1>1 DEF SearchOrder, SteadyIdentities
<1>2. CASE c.project # ""
  <2>1. PICK q : q = c.project
    OBVIOUS
  <2>2. order = <<q>> /\ \E j \in DOMAIN AllowList : AllowList[j] = q
    BY <1>2, <2>1 DEF SearchOrder, AllowedHint
  <2>3. DOMAIN <<q>> = {1} /\ <<q>>[1] = q
    OBVIOUS
  <2> QED
    BY <2>2, <2>3
<1> QED
  BY <1>1, <1>2

(* The claims arrive.                                                      *)
LEMMA ClaimsResolved ==
    ASSUME SteadyIdentities, SafeTypes, ProgressInv, SamePlaces, NEW a \in Attempts, Resolved(a),
           NEW p \in Payloads, PayloadReceived(a, p)
    PROVE  Resolved(a)'
<1>t. /\ pc \in [Attempts -> Active \cup {"idle", "done", "crashed"}]
      /\ DOMAIN claims = Attempts /\ search \in [Attempts -> Search]
      /\ result \in [Attempts -> ErrorClasses \cup {"pending", "ok"}]
  BY DEF SafeTypes, TypeOK, ServerTypeOK
<1>1. pc[a] = "idle" /\ search[a] = NoSearch /\ target'[a] = Absent /\ result[a] = "pending"
  BY DEF PayloadReceived, At, Resolved, ProgressInv
<1>2. PICK c : c = DecodePayload(p)
  OBVIOUS
<1>3. p \in Payload
  BY PayloadAssumption
<1>4. CASE ~DecodablePayload(p)
  <2>1. /\ claims'[a] = Absent /\ result'[a] = "invalid" /\ pc'[a] = "done"
    BY <1>t, <1>4 DEF PayloadReceived, ReturnError, Conclude, Enter
  <2> QED
    BY <1>1, <2>1 DEF Resolved
<1>5. CASE DecodablePayload(p)
  <2>1. claims'[a] = c
    BY <1>t, <1>2, <1>5 DEF PayloadReceived
  <2>2. c.name \in Names
    BY <1>2, <1>3, <1>5 DEF DecodePayload, DecodablePayload, Payload
  <2>3. CASE ~ValidateClaims(c) \/ ~AllowedHint(c)
    <3>1. pc'[a] = "done"
      BY <1>t, <1>2, <1>5, <2>3 DEF PayloadReceived, ReturnError, Enter
    <3>2. Candidates(c) = {}
      BY <2>3, CandidatesOrdered
    <3>3. Candidates(c)' = {}
      BY <3>2 DEF SamePlaces
    <3>4. Cardinality(Candidates(c)) # 1
      BY <3>2, CandidateCount
    <3>5. Cardinality(Candidates(claims[a])') # 1
      BY <2>1, <3>2, <3>3, <3>4
    <3> QED
      BY <1>1, <2>1, <2>2, <3>1, <3>5 DEF Resolved
  <2>4. CASE ValidateClaims(c) /\ AllowedHint(c)
    <3>1. PICK order : order = SearchOrder(c)
      OBVIOUS
    <3>2. /\ search' = [search EXCEPT ![a].rest = order] /\ result' = result
          /\ pc' = [pc EXCEPT ![a] = "lookup"]
      BY <1>2, <1>5, <2>4, <3>1 DEF PayloadReceived, Enter
    <3>3. search'[a] = [NoSearch EXCEPT !.rest = order]
      BY <1>t, <1>1, <3>2
    <3>4. search'[a].rest = order /\ search'[a].matches = 0
      BY <3>3 DEF NoSearch
    <3>5. /\ \A i \in DOMAIN order : \E j \in DOMAIN AllowList : AllowList[j] = order[i]
          /\ \A i, j \in DOMAIN order : order[i] = order[j] => i = j
      BY <2>4, <3>1, OrderAllowed
    <3>6. Ahead(a)' = {<<order[i], c.name>> : i \in DOMAIN order}
      BY <2>1, <3>4 DEF Ahead
    <3>7. Candidates(c) \subseteq Ahead(a)'
      <4> SUFFICES ASSUME NEW s \in Candidates(c)
                   PROVE  s \in Ahead(a)'
        OBVIOUS
      <4>1. PICK i \in DOMAIN order : order[i] = s[1]
        BY <3>1, CandidatesOrdered
      <4>2. s = <<s[1], c.name>>
        BY CandidatesOrdered
      <4> QED
        BY <3>6, <4>1, <4>2
    <3>8. Candidates(claims[a])' = Candidates(c)
      BY <2>1 DEF SamePlaces
    <3>9. Counted(a)'
      BY <2>1, <3>1, <3>4, <3>5, <3>7, <3>8 DEF Counted
    <3>10. pc'[a] = "lookup" /\ result'[a] = "pending"
      BY <1>t, <1>1, <3>2
    <3> QED
      BY <1>1, <2>1, <2>2, <3>9, <3>10 DEF Resolved
  <2> QED
    BY <2>3, <2>4
<1> QED
  BY <1>4, <1>5

(* One turn of the search.                                                 *)
LEMMA TurnResolved ==
    ASSUME SafeTypes, SamePlaces, NEW a \in Attempts, Resolved(a), Lookup(a)
    PROVE  Resolved(a)'
<1>t. /\ pc \in [Attempts -> Active \cup {"idle", "done", "crashed"}]
      /\ search \in [Attempts -> Search]
      /\ result \in [Attempts -> ErrorClasses \cup {"pending", "ok"}]
  BY DEF SafeTypes, TypeOK, ServerTypeOK
<1>1. PICK c \in Claims : c = claims[a]
  BY DEF Lookup, At, SafeTypes, TypeOK, ServerTypeOK, ControlInv
<1>2. /\ pc[a] = "lookup" /\ search[a].rest # <<>> /\ c.name \in Names /\ Counted(a)
      /\ target[a] = Absent /\ UNCHANGED <<claims, target, instances>>
  BY <1>1, KeyAssumption DEF Lookup, At, Resolved, incusVars
<1>d. PICK md : md = search[a].matched
  OBVIOUS
<1>3. PICK rest \in Seq(Projects), m \in Nat :
         rest = search[a].rest /\ m = search[a].matches /\ md = search[a].matched
  BY <1>t, <1>d DEF Search
<1>4. /\ DOMAIN rest = 1 .. Len(rest) /\ Len(rest) \in Nat \ {0} /\ Head(rest) = rest[1]
      /\ DOMAIN Tail(rest) = 1 .. Len(rest) - 1
      /\ \A i \in DOMAIN Tail(rest) : Tail(rest)[i] = rest[i + 1]
  BY <1>2, <1>3
<1>5. PICK s : s = <<rest[1], c.name>>
  OBVIOUS
<1>6. s \in Slots /\ s[1] = rest[1] /\ s[2] = c.name
  <2>1. rest[1] \in Projects
    BY <1>4
  <2> QED
    BY <1>2, <1>5, <2>1 DEF Slots
<1>7. PICK ahead : ahead = {<<Tail(rest)[i], c.name>> : i \in DOMAIN Tail(rest)}
  OBVIOUS
<1>8. Ahead(a) \subseteq ahead \cup {s} /\ s \in Ahead(a) /\ ahead \subseteq Ahead(a) /\ s \notin ahead
  <2>1. Ahead(a) = {<<rest[i], c.name>> : i \in DOMAIN rest}
    BY <1>1, <1>3 DEF Ahead
  <2>2. s \in Ahead(a)
    BY <1>4, <1>5, <2>1
  <2>3. ahead \subseteq Ahead(a)
    <3>1. ASSUME NEW i \in DOMAIN Tail(rest)
          PROVE  i + 1 \in DOMAIN rest /\ Tail(rest)[i] = rest[i + 1]
      BY <1>4
    <3> QED
      BY <1>7, <2>1, <3>1
  <2>4. ASSUME NEW i \in DOMAIN rest
        PROVE  <<rest[i], c.name>> \in ahead \cup {s}
    <3>1. CASE i = 1
      BY <1>5, <3>1
    <3>2. CASE i # 1
      <4>1. i - 1 \in DOMAIN Tail(rest) /\ Tail(rest)[i - 1] = rest[i]
        BY <1>4, <3>2
      <4> QED
        BY <1>7, <4>1
    <3> QED
      BY <3>1, <3>2
  <2>5. s \notin ahead
    <3> SUFFICES ASSUME NEW i \in DOMAIN Tail(rest), s = <<Tail(rest)[i], c.name>>
                 PROVE  FALSE
      BY <1>7
    <3>1. rest[i + 1] = rest[1] /\ i + 1 \in DOMAIN rest /\ 1 \in DOMAIN rest /\ i + 1 # 1
      BY <1>4, <1>5
    <3> QED
      BY <1>2, <1>3, <3>1 DEF Counted
  <2> QED
    BY <2>1, <2>2, <2>3, <2>4, <2>5
<1>9. PICK S : S = Candidates(c) /\ S = Candidates(claims[a])' /\ S = Candidates(claims[a])
  BY <1>1, <1>2 DEF SamePlaces
<1>10. CASE Present(s) /\ ~Mappable(instances[s])
  <2>1. pc'[a] = "done"
    BY <1>t, <1>1, <1>3, <1>4, <1>5, <1>10 DEF Lookup, ReturnError, Enter
  <2>2. PICK j \in DOMAIN SearchOrder(c) : SearchOrder(c)[j] = rest[1]
    BY <1>1, <1>2, <1>3, <1>4 DEF Counted
  <2>3. Malformed(c)
    BY <1>5, <1>10, <2>2 DEF Malformed
  <2>4. Malformed(claims[a])'
    BY <1>1, <1>2, <2>3 DEF Malformed, Present
  <2> QED
    BY <1>1, <1>2, <2>1, <2>4 DEF Resolved
<1>11. CASE Present(s) => Mappable(instances[s])
  <2>1. PICK i : i = MapInstance(s, instances[s])
    OBVIOUS
  <2>2. PICK new : new = [rest    |-> Tail(rest),
                          matched |-> IF Matches(a, s) THEN i ELSE md,
                          matches |-> IF Matches(a, s) THEN m + 1 ELSE m]
    OBVIOUS
  <2>3. pc' = pc /\ result' = result /\ search' = [search EXCEPT ![a] = new]
    BY <1>t, <1>1, <1>3, <1>4, <1>5, <1>11, <2>1, <2>2 DEF Lookup
  <2>4. search'[a] = new
    BY <1>t, <2>3
  <2>5. /\ search'[a].rest = Tail(rest)
        /\ search'[a].matched = IF Matches(a, s) THEN i ELSE md
        /\ search'[a].matches = IF Matches(a, s) THEN m + 1 ELSE m
    BY <2>2, <2>4
  <2>6. Ahead(a)' = ahead
    BY <1>1, <1>2, <1>7, <2>5 DEF Ahead
  <2>7. s \in S <=> Matches(a, s)
    <3>1. \E j \in DOMAIN AllowList : AllowList[j] = s[1]
      BY <1>2, <1>3, <1>4, <1>6 DEF Counted
    <3> QED
      BY <1>1, <1>6, <1>9, <1>11, <3>1 DEF Candidates, Matches
  <2>8. SlotOf(i) = s
    BY <1>5, <1>6, <2>1 DEF SlotOf, MapInstance
  <2>9. /\ m = 0 => S \subseteq Ahead(a)
        /\ m = 1 => SlotOf(md) \in S \ Ahead(a) /\ S \subseteq Ahead(a) \cup {SlotOf(md)}
        /\ m > 1 => \E x, y \in S : x # y
    BY <1>2, <1>3, <1>9 DEF Counted
  <2>10. /\ search'[a].matches = 0 => S \subseteq ahead
         /\ search'[a].matches = 1 =>
               /\ SlotOf(search'[a].matched) \in S \ ahead
               /\ S \subseteq ahead \cup {SlotOf(search'[a].matched)}
         /\ search'[a].matches > 1 => \E x, y \in S : x # y
    <3>1. CASE Matches(a, s)
      <4>1. search'[a].matches = m + 1 /\ SlotOf(search'[a].matched) = s /\ s \in S
        BY <2>5, <2>7, <2>8, <3>1
      <4>2. CASE m = 0
        BY <1>8, <2>9, <4>1, <4>2
      <4>3. CASE m = 1
        BY <1>8, <2>9, <4>1, <4>3
      <4>4. CASE m > 1
        BY <2>9, <4>1, <4>4
      <4> QED
        BY <4>2, <4>3, <4>4
    <3>2. CASE ~Matches(a, s)
      <4>1. search'[a].matches = m /\ search'[a].matched = md /\ s \notin S
        BY <2>5, <2>7, <3>2
      <4> QED
        BY <1>8, <2>9, <4>1
    <3> QED
      BY <3>1, <3>2
  <2>11. ASSUME NEW n \in DOMAIN Tail(rest)
         PROVE  /\ \E j \in DOMAIN AllowList : AllowList[j] = Tail(rest)[n]
                /\ \E j \in DOMAIN SearchOrder(c) : SearchOrder(c)[j] = Tail(rest)[n]
    <3>1. n + 1 \in DOMAIN rest /\ Tail(rest)[n] = rest[n + 1]
      BY <1>4
    <3> QED
      BY <1>1, <1>2, <1>3, <3>1 DEF Counted
  <2>12. ASSUME NEW n \in DOMAIN Tail(rest), NEW k \in DOMAIN Tail(rest), Tail(rest)[n] = Tail(rest)[k]
         PROVE  n = k
    <3>1. n + 1 \in DOMAIN rest /\ k + 1 \in DOMAIN rest /\ rest[n + 1] = rest[k + 1]
      BY <1>4, <2>12
    <3>2. n + 1 = k + 1 /\ n \in Int /\ k \in Int
      BY <1>2, <1>3, <1>4, <3>1 DEF Counted
    <3> QED
      BY <3>2
  <2>13. claims'[a] = c
    BY <1>1, <1>2
  <2>14. Counted(a)'
    BY <1>9, <2>5, <2>6, <2>10, <2>11, <2>12, <2>13 DEF Counted
  <2>15. result'[a] = "denied" => result[a] = "denied"
    BY <2>3
  <2>16. result[a] = "denied" => Cardinality(S) # 1 \/ Malformed(claims[a])'
    <3>1. Malformed(c) => Malformed(claims[a])'
      BY <1>1, <1>2 DEF Malformed, Present
    <3> QED
      BY <1>1, <1>2, <1>9, <3>1, KeyAssumption DEF Resolved
  <2> QED
    BY <1>1, <1>2, <1>9, <2>3, <2>14, <2>15, <2>16 DEF Resolved
<1> QED
  BY <1>10, <1>11

(* The switch on the number of matches.                                    *)
LEMMA SwitchResolved ==
    ASSUME SafeTypes, SamePlaces, NEW a \in Attempts, Resolved(a), Resolve(a)
    PROVE  Resolved(a)'
<1>t. /\ pc \in [Attempts -> Active \cup {"idle", "done", "crashed"}]
      /\ search \in [Attempts -> Search] /\ DOMAIN target = Attempts
      /\ result \in [Attempts -> ErrorClasses \cup {"pending", "ok"}]
  BY DEF SafeTypes, TypeOK, ServerTypeOK
<1>1. /\ pc[a] = "lookup" /\ search[a].rest = <<>> /\ Counted(a) /\ target[a] = Absent
      /\ claims[a] # Absent /\ claims[a].name \in Names /\ UNCHANGED claims
  BY DEF Resolve, At, Resolved, SafeTypes, ControlInv
<1>2. PICK S : S = Candidates(claims[a]) /\ S = Candidates(claims[a])'
  BY <1>1 DEF SamePlaces
<1>3. Ahead(a) = {}
  BY <1>1 DEF Ahead
<1>d. PICK md : md = search[a].matched
  OBVIOUS
<1>4. PICK m \in Nat : m = search[a].matches /\ md = search[a].matched
  BY <1>t, <1>d DEF Search
<1>5. /\ m = 0 => S = {}
      /\ m = 1 => S = {SlotOf(md)}
      /\ m > 1 => \E s, t \in S : s # t
  BY <1>1, <1>2, <1>3, <1>4 DEF Counted
<1>6. CASE m = 1
  <2>1. pc'[a] = "draw" /\ target'[a] = md /\ S = {SlotOf(md)} /\ result' = result
    BY <1>t, <1>4, <1>5, <1>6 DEF Resolve, UniqueMatch, Enter
  <2>2. md # Absent
    <3>1. search[a].matches # 0
      BY <1>4, <1>6
    <3> QED
      BY <1>d, <3>1 DEF SafeTypes, ControlInv
  <2> QED
    BY <1>1, <1>2, <2>1, <2>2 DEF Resolved
<1>7. CASE m # 1
  <2>1. pc'[a] = "done" /\ target'[a] = Absent
    BY <1>t, <1>1, <1>4, <1>7 DEF Resolve, UniqueMatch, ReturnError, Enter
  <2>2. Cardinality(S) # 1
    <3>1. S = {} \/ \E s, t \in S : s # t
      <4>1. m = 0 \/ m > 1
        BY <1>7
      <4> QED
        BY <1>5, <4>1
    <3>2. PICK c : c = claims[a]
      OBVIOUS
    <3>3. S = Candidates(c)
      BY <1>2, <3>2
    <3> QED
      BY <3>1, <3>3, CandidateCount
  <2> QED
    BY <1>1, <1>2, <2>1, <2>2 DEF Resolved
<1> QED
  BY <1>6, <1>7

(* The steps of a handler other than those of its search.                  *)
LEMMA OwnStepLeaves ==
    ASSUME SafeTypes, NEW a \in Attempts, NEW b \in Attempts,
           \/ LookupFails(a) \/ RandomFails(a) \/ SendAttributes(a)
           \/ \E k \in Keys, n \in Nonces : ReadRandomPair(a, k, n)
           \/ SetNonceGivesUp(a) \/ SetNonceReturns(a) \/ SendChallenge(a)
           \/ \E vm \in UUIDs : \E got \in Answers(vm) : ReceiveResponse(a, vm, got)
           \/ ResponseFails(a) \/ UnsetNonceGivesUp(a) \/ CleanupReturns(a)
           \/ SetNonceStep(a) \/ UnsetNonceStep(a) \/ Cancel(a)
    PROVE  SearchLeft(b)
<1>t. /\ pc \in [Attempts -> Active \cup {"idle", "done", "crashed"}]
      /\ search \in [Attempts -> Search]
      /\ result \in [Attempts -> ErrorClasses \cup {"pending", "ok"}]
  BY DEF SafeTypes, TypeOK, ServerTypeOK
<1>1. ASSUME SetNonceGivesUp(a) \/ UnsetNonceGivesUp(a) \/ SetNonceStep(a) \/ UnsetNonceStep(a)
             \/ Cancel(a)
      PROVE  SearchLeft(b)
  BY <1>1 DEF SetNonceGivesUp, UnsetNonceGivesUp, SetNonceStep, UnsetNonceStep, Cancel, localVars,
     SearchLeft
<1>2. ASSUME LookupFails(a)
      PROVE  SearchLeft(b)
  <2>1. PICK class \in {"other", "deadline", "canceled"} : ReturnError(a, class)
    BY <1>2 DEF LookupFails, ContextEnds
  <2>2. /\ UNCHANGED <<claims, target>> /\ search' = [search EXCEPT ![a] = NoSearch]
        /\ pc' = [pc EXCEPT ![a] = "done"] /\ result' = [result EXCEPT ![a] = class]
    BY <1>2, <2>1 DEF LookupFails, ReturnError, Enter, Conclude
  <2> QED
    BY <1>t, <2>1, <2>2 DEF SearchLeft
<1>3. ASSUME RandomFails(a) \/ \E k \in Keys, n \in Nonces : ReadRandomPair(a, k, n)
      PROVE  SearchLeft(b)
  <2>1. /\ UNCHANGED <<claims, target, search>>
        /\ \E stage \in {"done", "set"} : pc' = [pc EXCEPT ![a] = stage]
        /\ result' = result \/ result' = [result EXCEPT ![a] = "other"]
    BY <1>3 DEF RandomFails, ReadRandomPair, ReturnError, Enter, Conclude, localVars
  <2> QED
    BY <1>t, <2>1 DEF SearchLeft
<1>4. ASSUME \/ SetNonceReturns(a) \/ SendChallenge(a) \/ ResponseFails(a) \/ SendAttributes(a)
             \/ CleanupReturns(a)
             \/ \E vm \in UUIDs : \E got \in Answers(vm) : ReceiveResponse(a, vm, got)
      PROVE  SearchLeft(b)
  <2>1. target[a] # Absent
    BY <1>4 DEF SetNonceReturns, SendChallenge, ResponseFails, SendAttributes, CleanupReturns,
       ReceiveResponse, At, SafeTypes, ControlInv, Holding
  <2>2. UNCHANGED <<claims, target, search>>
    BY <1>4 DEF SetNonceReturns, SendChallenge, ResponseFails, SendAttributes, CleanupReturns,
       ReceiveResponse, localVars
  <2>3. /\ \E stage \in {"send", "unset", "recv", "attrs", "done"} : pc' = [pc EXCEPT ![a] = stage]
        /\ result' = result \/ \E class : result' = [result EXCEPT ![a] = class]
    BY <1>4 DEF SetNonceReturns, SendChallenge, ResponseFails, SendAttributes, CleanupReturns,
       ReceiveResponse, ReturnAfterCleanup, RunCleanup, Enter, Conclude
  <2> QED
    BY <1>t, <2>1, <2>2, <2>3 DEF SearchLeft
<1> QED
  BY <1>1, <1>2, <1>3, <1>4

(* The steps of the search of another attempt.                             *)
LEMMA OtherSearchLeaves ==
    ASSUME SafeTypes, NEW a \in Attempts, NEW b \in Attempts, a # b,
           (\E p \in Payloads : PayloadReceived(a, p)) \/ Lookup(a) \/ Resolve(a)
    PROVE  SearchLeft(b)
<1>t. /\ DOMAIN pc = Attempts /\ DOMAIN search = Attempts /\ DOMAIN result = Attempts
      /\ DOMAIN claims = Attempts /\ DOMAIN target = Attempts
  BY DEF SafeTypes, TypeOK, ServerTypeOK
<1>1. claims'[b] = claims[b] /\ target'[b] = target[b]
  BY <1>t DEF PayloadReceived, Lookup, Resolve
<1>2. pc'[b] = pc[b] /\ result'[b] = result[b]
  BY <1>t DEF PayloadReceived, Lookup, Resolve, ReturnError, Enter, Conclude
<1>3. search'[b] = search[b]
  BY <1>t DEF PayloadReceived, Lookup, Resolve
<1> QED
  BY <1>1, <1>2, <1>3 DEF SearchLeft

(* A payload refused before it was decoded: no claims are kept.            *)
LEMMA RejectionLeaves ==
    ASSUME SafeTypes, NEW a \in Attempts, NEW b \in Attempts, PayloadRejected(a)
    PROVE  SearchLeft(b)
<1>t. /\ DOMAIN pc = Attempts /\ DOMAIN search = Attempts /\ DOMAIN result = Attempts
  BY DEF SafeTypes, TypeOK, ServerTypeOK
<1>1. PICK class \in {"other", "invalid"} : ReturnError(a, class)
  BY DEF PayloadRejected
<1>2. /\ UNCHANGED <<claims, target, search>>
      /\ pc' = [pc EXCEPT ![a] = "done"] /\ result' = [result EXCEPT ![a] = class]
  BY <1>1 DEF PayloadRejected, ReturnError, Enter, Conclude, localVars
<1> QED
  BY <1>t, <1>1, <1>2 DEF SearchLeft

(* Every step keeps every search right.                                    *)
LEMMA NextResolved ==
    ASSUME SteadyIdentities, SafeTypes, RequestInv, ProgressInv, ResolvedInv, [Next]_vars
    PROVE  ResolvedInv'
<1>1. SamePlaces
  BY StepKeepsPlaces
<1> SUFFICES ASSUME NEW b \in Attempts
             PROVE  Resolved(b)'
  BY DEF ResolvedInv
<1>2. Resolved(b)
  BY DEF ResolvedInv
<1>3. SearchLeft(b) => Resolved(b)'
  BY <1>1, <1>2, ResolvedStays
<1>4. ASSUME NEW a \in Attempts,
             (\E p \in Payloads : PayloadReceived(a, p)) \/ Lookup(a) \/ Resolve(a)
      PROVE  Resolved(b)'
  <2>1. CASE a = b
    BY <1>1, <1>2, <1>4, <2>1, ClaimsResolved, TurnResolved, SwitchResolved
  <2>2. CASE a # b
    BY <1>3, <1>4, <2>2, OtherSearchLeaves
  <2> QED
    BY <2>1, <2>2
<1>5. ASSUME NEW a \in Attempts, PayloadRejected(a)
      PROVE  Resolved(b)'
  BY <1>3, <1>5, RejectionLeaves
<1>6. ASSUME NEW a \in Attempts, Handler(a) \/ SetNonceStep(a) \/ UnsetNonceStep(a) \/ Cancel(a)
      PROVE  Resolved(b)'
  BY <1>3, <1>4, <1>6, OwnStepLeaves DEF Handler
<1>7. ASSUME Crash
      PROVE  SearchLeft(b)
  BY <1>7 DEF Crash, localVars, SearchLeft
<1>8. ASSUME Foreign \/ UNCHANGED vars
      PROVE  SearchLeft(b)
  BY <1>8 DEF Foreign, vars, localVars, SearchLeft
<1> QED
  BY <1>3, <1>4, <1>5, <1>6, <1>7, <1>8 DEF Next

(* While nobody moves, migrates, creates or deletes instances, and the     *)
(* allow list has no duplicate, resolveInstance answers as its definition  *)
(* says, however edits, other attempts' nonces and cancellations fall      *)
(* between its lookups: a VM it resolves is the only allowed match of the  *)
(* claims, and a denial without one means no match, several, or a          *)
(* malformed record on the way.                                            *)
THEOREM ResolutionHolds == SteadyIdentities => (Spec => []ResolutionCorrect)
<1> SUFFICES ASSUME SteadyIdentities PROVE Spec => []ResolutionCorrect
  OBVIOUS
<1>1. Init => ResolvedInv
  BY DEF Init, ResolvedInv, Resolved
<1>2. ContractInv /\ ResolvedInv /\ [Next]_vars => ResolvedInv'
  BY NextResolved DEF ContractInv, NonceInv
<1>3. ResolvedInv => ResolutionCorrect
  BY DEF ResolvedInv, Resolved, Malformed, ResolutionCorrect
<1> QED
  BY <1>1, <1>2, <1>3, ContractInvariance, PTL DEF Spec

-----------------------------------------------------------------------------
(* Cancellation and the first error.                                       *)

(* A mutate call that ends in "canceled" was SetNonce, under a cancelled   *)
(* RPC; the right answer comes only after it.                              *)
CancelOf(a) ==
    /\ phase[a] = "canceled" => rpc[a] = "canceled" /\ pc[a] # "unset"
    /\ responder[a] # Absent => pc[a] \in {"unset", "attrs", "done", "crashed"}
    /\ result[a] = "canceled" => rpc[a] = "canceled" /\ responder[a] = Absent

CancelInv == \A a \in Attempts : CancelOf(a)

(* Nothing that CancelOf speaks of changes for attempt b.                  *)
CancelLeft(b) ==
    /\ pc'[b] = pc[b] /\ phase'[b] = phase[b] /\ rpc'[b] = rpc[b]
    /\ result'[b] = result[b] /\ responder'[b] = responder[b]

(* A request, an answer or the wait for it moves a mutate call on; none of *)
(* them ends it as cancelled.                                              *)
LEMMA MutatePhase ==
    ASSUME NEW a \in Attempts, NEW tgt, NEW k, NEW n, MutateStep(a, tgt, k, n)
    PROVE  \E ph \in Phases \ {"canceled"} : phase' = [phase EXCEPT ![a] = ph]
BY DEF MutateStep, MutateOnce, FetchRefused, UpdateApplied, UpdateRetried, UpdateRefused, UpdateLost,
       WaitSucceeds, WaitFails, GoTo, Phases, Busy, Returned, ContextErrors

(* The step of one attempt.                                                *)
LEMMA OwnCancel ==
    ASSUME SafeTypes, ProgressInv, NEW a \in Attempts, CancelOf(a),
           \/ Handler(a) \/ SetNonceStep(a) \/ UnsetNonceStep(a) \/ Cancel(a)
           \/ PayloadRejected(a) \/ \E p \in Payloads : PayloadReceived(a, p)
    PROVE  CancelOf(a)' /\ \A b \in Attempts \ {a} : CancelLeft(b)
<1>t. /\ pc \in [Attempts -> Active \cup {"idle", "done", "crashed"}]
      /\ rpc \in [Attempts -> {"live", "canceled"}]
      /\ phase \in [Attempts -> Phases]
      /\ result \in [Attempts -> ErrorClasses \cup {"pending", "ok"}]
      /\ responder \in [Attempts -> UUIDs \cup {Absent}]
  BY DEF SafeTypes, TypeOK, ServerTypeOK, HostTypeOK
<1>p. pc[a] \in {"idle", "lookup", "draw", "set", "send", "recv", "attrs"} => result[a] = "pending"
  BY DEF ProgressInv
<1> DEFINE Good == CancelOf(a)' /\ \A b \in Attempts \ {a} : CancelLeft(b)
<1> USE DEF CancelOf, CancelLeft
<1>e. ASSUME NEW class, pc[a] \in {"idle", "lookup", "draw"}, ReturnError(a, class),
             class = "canceled" => rpc[a] = "canceled", UNCHANGED <<rpc, responder>>
      PROVE  Good
  BY <1>t, <1>e DEF ReturnError, Conclude, Enter
<1>c. ASSUME NEW class, pc[a] \in {"set", "send", "recv"}, ReturnAfterCleanup(a, class),
             class = "canceled" => rpc[a] = "canceled", UNCHANGED <<rpc, responder>>
      PROVE  Good
  BY <1>t, <1>c DEF ReturnAfterCleanup, RunCleanup, Conclude, Enter, GoTo
<1>m. ASSUME NEW st \in {"lookup", "draw", "set", "send", "recv"}, NEW ph \in {"fetch", "idle"},
             pc[a] \in {"idle", "lookup", "draw", "set", "send"}, Enter(a, st),
             phase' = phase \/ phase' = [phase EXCEPT ![a] = ph],
             UNCHANGED <<rpc, result, responder>>
      PROVE  Good
  BY <1>t, <1>m DEF Enter
<1>x. \A class \in ContextEnds(a) : class \in ContextErrors /\ (class = "canceled" => rpc[a] = "canceled")
  BY DEF ContextEnds, ContextErrors
<1>1. ASSUME PayloadRejected(a) \/ \E p \in Payloads : PayloadReceived(a, p) PROVE Good
  BY <1>e, <1>m, <1>1 DEF PayloadRejected, PayloadReceived, At, localVars
<1>2. ASSUME Lookup(a) PROVE Good
  BY <1>e, <1>2 DEF Lookup, At
<1>3. ASSUME Resolve(a) PROVE Good
  BY <1>e, <1>m, <1>3 DEF Resolve, At
<1>4. ASSUME LookupFails(a) \/ RandomFails(a) PROVE Good
  BY <1>e, <1>x, <1>4 DEF LookupFails, RandomFails, At, localVars
<1>5. ASSUME \E k \in Keys, n \in Nonces : ReadRandomPair(a, k, n) PROVE Good
  BY <1>m, <1>5 DEF ReadRandomPair, At, GoTo
<1>6. ASSUME SetNonceGivesUp(a) \/ UnsetNonceGivesUp(a) PROVE Good
  BY <1>t, <1>x, <1>6 DEF SetNonceGivesUp, UnsetNonceGivesUp, GiveUp, GoTo, At, localVars
<1>7. ASSUME SetNonceReturns(a) PROVE Good
  BY <1>c, <1>m, <1>7 DEF SetNonceReturns, At, GoTo, localVars
<1>8. ASSUME SendChallenge(a) PROVE Good
  BY <1>c, <1>m, <1>8 DEF SendChallenge, At, localVars
<1>9. ASSUME NEW vm \in UUIDs, NEW got \in Answers(vm), ReceiveResponse(a, vm, got) PROVE Good
  <2>1. CASE ~VerifyNonce(nonce[a], got)
    BY <1>c, <1>9, <2>1 DEF ReceiveResponse, At
  <2>2. CASE VerifyNonce(nonce[a], got)
    BY <1>t, <1>p, <1>9, <2>2 DEF ReceiveResponse, At, RunCleanup, Enter, GoTo
  <2> QED
    BY <2>1, <2>2
<1>10. ASSUME ResponseFails(a) PROVE Good
  BY <1>c, <1>x, <1>10 DEF ResponseFails, At, localVars
<1>11. ASSUME CleanupReturns(a) PROVE Good
  BY <1>t, <1>11 DEF CleanupReturns, AnnotateCleanup, At, Conclude, Enter, GoTo, localVars
<1>12. ASSUME SendAttributes(a) PROVE Good
  BY <1>t, <1>12 DEF SendAttributes, At, Conclude, Enter, hostVars
<1>13. ASSUME SetNonceStep(a) \/ UnsetNonceStep(a) PROVE Good
  <2>1. PICK ph \in Phases \ {"canceled"} : phase' = [phase EXCEPT ![a] = ph]
    BY <1>13, MutatePhase DEF SetNonceStep, UnsetNonceStep
  <2> QED
    BY <1>t, <1>13, <2>1 DEF SetNonceStep, UnsetNonceStep, localVars
<1>14. ASSUME Cancel(a) PROVE Good
  BY <1>t, <1>14 DEF Cancel, hostVars, localVars
<1> QED
  BY <1>1, <1>2, <1>3, <1>4, <1>5, <1>6, <1>7, <1>8, <1>9, <1>10, <1>11, <1>12, <1>13, <1>14 DEF Handler

(* Every step, a crash and Incus's own included.                           *)
LEMMA NextCancel ==
    ASSUME SafeTypes, ProgressInv, CancelInv, [Next]_vars
    PROVE  CancelInv'
<1>1. ASSUME NEW a \in Attempts,
             \/ Handler(a) \/ SetNonceStep(a) \/ UnsetNonceStep(a) \/ Cancel(a)
             \/ PayloadRejected(a) \/ \E p \in Payloads : PayloadReceived(a, p)
      PROVE  CancelInv'
  <2>1. CancelOf(a)' /\ \A b \in Attempts \ {a} : CancelLeft(b)
    BY <1>1, OwnCancel DEF CancelInv
  <2> QED
    BY <2>1 DEF CancelInv, CancelOf, CancelLeft
<1>2. ASSUME Crash
      PROVE  CancelInv'
  BY <1>2 DEF Crash, Active, localVars, CancelInv, CancelOf
<1>3. ASSUME Foreign \/ UNCHANGED vars
      PROVE  CancelInv'
  BY <1>3 DEF Foreign, vars, hostVars, localVars, CancelInv, CancelOf
<1> QED
  BY <1>1, <1>2, <1>3 DEF Next

(* No return of Attest overtakes its armed cleanup and no success comes    *)
(* with a cleanup that failed; cleanup.run's context.WithoutCancel: for    *)
(* any number of attempts and whenever their RPCs are cancelled, no        *)
(* cleanup ends by a cancellation.                                         *)
THEOREM CleanupPrecedesReturn == Spec => []CleanupBeforeReturn
<1>1. Init => CancelInv
  BY DEF Init, HostInit, CancelInv, CancelOf
<1>2. ContractInv /\ CancelInv /\ [Next]_vars => CancelInv'
  BY NextCancel DEF ContractInv
<1>3. CleanupInv /\ CancelInv => CleanupBeforeReturn
  BY DEF CleanupInv, CancelInv, CancelOf, CleanupBeforeReturn, At
<1> QED
  BY <1>1, <1>2, <1>3, Invariance, ContractInvariance, PTL DEF Spec

(* annotateCleanup: whatever the cleanup comes to, and whatever happens    *)
(* later, an attempt returns the first error it met.                       *)
THEOREM FirstErrorReturned == Spec => FirstErrorKept
<1>1. ContractInv /\ [Next]_vars =>
        [\A a \in Attempts : result[a] # "pending" => result'[a] = result[a]]_vars
  <2> SUFFICES ASSUME ContractInv, Next, NEW b \in Attempts, result[b] # "pending"
               PROVE  result'[b] = result[b]
    BY DEF vars
  <2>t. result \in [Attempts -> ErrorClasses \cup {"pending", "ok"}]
    BY DEF ContractInv, SafeTypes, TypeOK, ServerTypeOK
  <2>p. pc[b] \notin {"idle", "lookup", "draw", "set", "send", "recv", "attrs"}
    BY DEF ContractInv, ProgressInv
  <2>1. ASSUME NEW a \in Attempts, Handler(a)
        PROVE  result'[b] = result[b]
    <3>1. CASE CleanupReturns(a)
      BY <2>t, <3>1 DEF CleanupReturns, Conclude, AnnotateCleanup
    <3>2. CASE a # b
      BY <2>t, <2>1, <3>2 DEF Handler, Lookup, Resolve, LookupFails, ReadRandomPair, RandomFails,
           SetNonceGivesUp, SetNonceReturns, SendChallenge, ReceiveResponse, ResponseFails,
           UnsetNonceGivesUp, CleanupReturns, SendAttributes, ReturnError, ReturnAfterCleanup, Conclude
    <3>3. CASE a = b /\ ~CleanupReturns(a)
      BY <2>p, <2>1, <3>3 DEF Handler, Lookup, Resolve, LookupFails, ReadRandomPair, RandomFails,
           SetNonceGivesUp, SetNonceReturns, SendChallenge, ReceiveResponse, ResponseFails,
           UnsetNonceGivesUp, SendAttributes, At
    <3> QED
      BY <3>1, <3>2, <3>3
  <2>2. ASSUME NEW a \in Attempts, PayloadRejected(a) \/ \E p \in Payloads : PayloadReceived(a, p)
        PROVE  result'[b] = result[b]
    BY <2>t, <2>p, <2>2 DEF PayloadRejected, PayloadReceived, ReturnError, Conclude, At
  <2>3. ASSUME NEW a \in Attempts, SetNonceStep(a) \/ UnsetNonceStep(a) \/ Cancel(a)
        PROVE  result'[b] = result[b]
    BY <2>3 DEF SetNonceStep, UnsetNonceStep, Cancel
  <2>4. CASE Crash \/ Foreign
    BY <2>4 DEF Crash, Foreign
  <2> QED
    BY <2>1, <2>2, <2>3, <2>4 DEF Next
<1> QED
  BY <1>1, ContractInvariance, PTL DEF Spec, FirstErrorKept
=============================================================================
