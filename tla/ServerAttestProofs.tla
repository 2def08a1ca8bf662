------------------------- MODULE ServerAttestProofs -------------------------
(***************************************************************************)
(* For every number of attempts, VMs, projects, keys and nonces, and       *)
(* whatever the other users of Incus do: the types of ServerAttest, that a *)
(* nonce reaches only the VM its attempt resolved, that a granted identity *)
(* is that of the VM whose guest answered, that no write of a handler      *)
(* disturbs anything but one challenge key, and that every return follows  *)
(* the cleanup.                                                            *)
(*                                                                         *)
(* The argument.  A request carries, as its ETag, content whose UUID is    *)
(* the target's (mutateOnce revalidated it), and as its body the same      *)
(* content with the attempt's own key changed.  Incus applies it only to   *)
(* that content, now or later.  So each challenge key in a configuration   *)
(* belongs to an attempt whose target is that VM, and so does each nonce   *)
(* a configuration has ever held; nonces do not repeat, so whoever answers *)
(* with one reads that configuration.                                      *)
(***************************************************************************)
EXTENDS ServerAttest, SequenceTheorems, TLAPS

-----------------------------------------------------------------------------
(* Facts about the pure operators.                                         *)

(* NewInstanceUUID answers with a canonical UUID or with "".               *)
LEMMA UUIDType ==
    ASSUME NEW r
    PROVE  NewInstanceUUID(r) \in UUIDs \cup {""}
BY DEF NewInstanceUUID, UUIDs

(* A canonical UUID parses to itself.                                      *)
LEMMA UUIDIdempotent ==
    ASSUME NEW u \in UUIDs
    PROVE  NewInstanceUUID(u) = u
BY UUIDAssumption DEF NewInstanceUUID

(* The expanded configuration is a configuration.                          *)
LEMMA ExpandedType ==
    ASSUME NEW rec \in Record
    PROVE  ExpandedConfig(rec) \in Config
<1>1. rec.config \in [ConfigKeys -> Values \cup Nonces \cup {Absent}]
  BY DEF Record, Config
<1>2. FromProfiles[rec.profiles] \in [UserKeys -> Values \cup {Absent}]
  BY ConfigurationAssumption DEF Record
<1>3. ASSUME NEW k \in ConfigKeys
      PROVE  (IF rec.config[k] = Absent /\ k \in UserKeys
              THEN FromProfiles[rec.profiles][k]
              ELSE rec.config[k]) \in Values \cup Nonces \cup {Absent}
  BY <1>1, <1>2
<1> QED
  BY <1>3 DEF ExpandedConfig, Config

(* mapInstance returns a snapshot of a well-formed record.                 *)
LEMMA MapType ==
    ASSUME NEW slot \in Slots, NEW rec \in Record, Mappable(rec)
    PROVE  MapInstance(slot, rec) \in Snapshot
<1>1. ExpandedConfig(rec) \in Config
  BY ExpandedType
<1>2. NewInstanceUUID(rec.uuid) \in UUIDs
  BY UUIDType DEF Mappable
<1>3. ResolvedLocation(rec) \in Locations \cup {StandaloneLocation}
  BY DEF Mappable, ResolvedLocation, Record
<1>4. slot[1] \in Projects /\ slot[2] \in Names
  BY DEF Slots
<1>5. /\ rec.type \in Types
      /\ rec.cloudInitID \in CloudInitIDs \cup {""}
      /\ rec.profiles \in SUBSET Profiles
  BY DEF Record
<1> QED
  BY <1>1, <1>2, <1>3, <1>4, <1>5 DEF MapInstance, Snapshot

(* Decoding a payload gives claims.                                        *)
LEMMA DecodeType ==
    ASSUME NEW p \in Payload
    PROVE  DecodePayload(p) \in Claims
<1>1. NewInstanceUUID(p.uuid) \in RawUUIDs \cup {""}
  BY UUIDType, UUIDAssumption
<1> QED
  BY <1>1 DEF DecodePayload, Payload, Claims

(* The attributes built from a snapshot are well formed.                   *)
LEMMA AttributesType ==
    ASSUME NEW i \in Snapshot
    PROVE  /\ BuildAttributes(i) \in Attributes
           /\ BuildAttributes(i).agentID = i.uuid
<1>1. NewInstanceUUID(i.uuid) = i.uuid /\ i.uuid \in UUIDs
  BY UUIDIdempotent DEF Snapshot
<1> DEFINE K == {"project", "name", "location", "uuid", "profile"} \cup ConfigKeys
           V == Projects \cup Names \cup Locations \cup {StandaloneLocation}
                \cup UUIDs \cup Profiles \cup Values \cup Nonces
<1>0. /\ i.project \in Projects /\ i.name \in Names
      /\ i.location \in Locations \cup {StandaloneLocation}
      /\ i.profiles \subseteq Profiles
  BY DEF Snapshot
<1>2. /\ <<"project", i.project>> \in K \X V
      /\ <<"name", i.name>> \in K \X V
      /\ <<"location", i.location>> \in K \X V
      /\ <<"uuid", NewInstanceUUID(i.uuid)>> \in K \X V
  BY <1>0, <1>1
<1>3. ASSUME NEW p \in i.profiles
      PROVE  <<"profile", p>> \in K \X V
  BY <1>0
<1>4. ASSUME NEW k \in UserSelectors, i.config[k] # Absent
      PROVE  <<k, i.config[k]>> \in K \X V
  <2>1. i.config \in [ConfigKeys -> Values \cup Nonces \cup {Absent}]
    BY DEF Snapshot, Config
  <2>2. k \in ConfigKeys
    BY ConfigurationAssumption
  <2>3. i.config[k] \in Values \cup Nonces
    BY <1>4, <2>1, <2>2
  <2> QED
    BY <2>2, <2>3
<1>5. BuildSelectors(i) \subseteq K \X V
  BY <1>2, <1>3, <1>4 DEF BuildSelectors
<1> QED
  BY <1>1, <1>5 DEF BuildAttributes, Attributes

-----------------------------------------------------------------------------
(* Types.  A handler's variables are filled in the order of its statements *)
(* and a host call belongs to the two statements that make one.            *)

Holding == {"set", "send", "recv", "unset", "attrs"}

ControlInv ==
    \A a \in Attempts :
        /\ pc[a] = "lookup" => claims[a] # Absent
        /\ search[a].matches # 0 => search[a].matched # Absent
        /\ pc[a] \in {"draw"} \cup Holding => target[a] # Absent
        /\ pc[a] \in {"idle", "lookup", "draw"} => key[a] = Absent /\ nonce[a] = Absent
        /\ pc[a] \in Holding => key[a] # Absent
        /\ key[a] # Absent <=> nonce[a] # Absent
        /\ key[a] # Absent => target[a] # Absent
        /\ phase[a] \in Busy => pc[a] \in {"set", "unset"}

SafeTypes == TypeOK /\ ControlInv

(* Giving a search its order keeps what it has found.                      *)
LEMMA OrderKeepsMatches ==
    ASSUME NEW s \in [Attempts -> Search], NEW a \in Attempts, NEW order,
           NEW t, t = s \/ t = [s EXCEPT ![a].rest = order]
    PROVE  \A b \in Attempts : t[b].matches = s[b].matches /\ t[b].matched = s[b].matched
<1>1. PICK old \in Search : old = s[a]
  OBVIOUS
<1>2. PICK new : new = [old EXCEPT !.rest = order]
  OBVIOUS
<1>3. new.matches = old.matches /\ new.matched = old.matched
  BY <1>2 DEF Search
<1>4. t = s \/ t = [s EXCEPT ![a] = new]
  BY <1>1, <1>2
<1> QED
  BY <1>1, <1>3, <1>4

(* The initial state.                                                      *)
LEMMA InitSafeTypes == Init => SafeTypes
<1> SUFFICES ASSUME Init PROVE SafeTypes
  OBVIOUS
<1>1. IncusTypeOK
  BY PopulationAssumption DEF Init, IncusInit, IncusTypeOK
<1>2. HostTypeOK
  BY DEF Init, HostInit, HostTypeOK, Phases
<1>3. NoSearch \in Search
  BY DEF NoSearch, Search
<1>4. ServerTypeOK
  BY <1>3 DEF Init, ServerTypeOK
<1>5. ControlInv
  BY DEF Init, HostInit, ControlInv, Holding, Busy, NoSearch
<1> QED
  BY <1>1, <1>2, <1>4, <1>5 DEF SafeTypes, TypeOK

(* Storing a record keeps the types of Incus's state.                      *)
LEMMA StoreTypes ==
    ASSUME IncusTypeOK, NEW slot \in Slots, NEW rec \in Record, Store(slot, rec)
    PROVE  /\ instances' \in [Slots -> Record \cup {Absent}]
           /\ exposed' \subseteq ((UUIDs \cup {""}) \X (Values \cup Nonces))
<1>1. instances' \in [Slots -> Record \cup {Absent}]
  BY DEF IncusTypeOK, Store
<1>2. ASSUME NEW k \in NonceKeysOf(rec)
      PROVE  <<NewInstanceUUID(rec.uuid), rec.config[k]>>
                \in (UUIDs \cup {""}) \X (Values \cup Nonces)
  <2>1. rec.config \in [ConfigKeys -> Values \cup Nonces \cup {Absent}]
    BY DEF Record, Config
  <2>2. k \in ConfigKeys /\ rec.config[k] # Absent
    BY <1>2 DEF NonceKeysOf, ConfigKeys
  <2>3. rec.config[k] \in Values \cup Nonces
    BY <2>1, <2>2
  <2> QED
    BY <2>3, UUIDType
<1>3. Reveals(rec) \subseteq ((UUIDs \cup {""}) \X (Values \cup Nonces))
  BY <1>2 DEF Reveals
<1> QED
  BY <1>1, <1>3 DEF IncusTypeOK, Store

(* A record keeps its shape when its writable content is replaced.         *)
LEMMA RewrittenRecord ==
    ASSUME NEW rec \in Record, NEW w \in Writables
    PROVE  Rewritten(rec, w) \in Record
<1>1. /\ w.uuid \in RawUUIDs
      /\ w.cloudInitID \in CloudInitIDs \cup {""}
      /\ w.profiles \in SUBSET Profiles
      /\ w.config \in Config
  BY DEF Writables
<1> QED
  BY <1>1 DEF Record, Rewritten

(* Applying a request stores a record.                                     *)
LEMMA AppliedRecord ==
    ASSUME IncusTypeOK, NEW q \in Request, ETagMatches(q)
    PROVE  /\ q.slot \in Slots
           /\ instances[q.slot] \in Record
           /\ Rewritten(instances[q.slot], q.body) \in Record
<1>1. q.slot \in Slots /\ q.body \in Writables
  BY DEF Request
<1>2. instances[q.slot] \in Record
  BY <1>1 DEF IncusTypeOK, ETagMatches, Present
<1> QED
  BY <1>1, <1>2, RewrittenRecord

(* Writable content from its parts.                                        *)
LEMMA WritableType ==
    ASSUME NEW u \in RawUUIDs, NEW c \in CloudInitIDs \cup {""},
           NEW ps \in SUBSET Profiles, NEW cfg \in Config
    PROVE  [uuid |-> u, cloudInitID |-> c, profiles |-> ps, config |-> cfg] \in Writables
BY DEF Writables

(* What mutateOnce sends is a request.                                     *)
LEMMA RequestType ==
    ASSUME NEW a \in Attempts, NEW slot \in Slots, NEW rec \in Record,
           NEW k \in Keys, NEW n \in Nonces \cup {Absent}
    PROVE  [by |-> a, slot |-> slot, etag |-> Writable(rec),
            body |-> EditedWritable(rec, k, n)] \in Request
<1>1. Writable(rec) \in Writables
  BY DEF Writable, Writables, Record
<1>2. [rec.config EXCEPT ![k] = n] \in Config
  BY DEF Config, ConfigKeys, Record
<1>3. EditedWritable(rec, k, n) =
        [uuid |-> rec.uuid, cloudInitID |-> rec.cloudInitID,
         profiles |-> rec.profiles, config |-> [rec.config EXCEPT ![k] = n]]
  BY DEF EditedWritable, Writable
<1>4. EditedWritable(rec, k, n) \in Writables
  <2>1. /\ rec.uuid \in RawUUIDs
        /\ rec.cloudInitID \in CloudInitIDs \cup {""}
        /\ rec.profiles \in SUBSET Profiles
    BY DEF Record
  <2> QED
    BY <1>2, <1>3, <2>1, WritableType
<1> QED
  BY <1>1, <1>4 DEF Request

(* A live mutate call keeps the types, and moves only its own phase.       *)
LEMMA MutateTypes ==
    ASSUME IncusTypeOK, HostTypeOK, NEW a \in Attempts, NEW tgt \in Snapshot,
           NEW k \in Keys, NEW n \in Nonces \cup {Absent}, MutateStep(a, tgt, k, n)
    PROVE  IncusTypeOK' /\ HostTypeOK' /\ \E ph \in Phases : GoTo(a, ph)
<1>1. SlotOf(tgt) \in Slots
  BY DEF SlotOf, Slots, Snapshot
<1>2. CASE MutateOnce(a, tgt, k, n)
  <2>1. IncusTypeOK' /\ abandoned' = abandoned
    BY <1>2 DEF MutateOnce, incusVars, IncusTypeOK
  <2>2. \/ \E ph \in {"ok", "other"} : GoTo(a, ph) /\ UNCHANGED inflight
        \/ /\ FindsTarget(tgt)
           /\ GoTo(a, "await")
           /\ inflight' = [inflight EXCEPT ![a] =
                [by |-> a, slot |-> SlotOf(tgt), etag |-> Writable(instances[SlotOf(tgt)]),
                 body |-> EditedWritable(instances[SlotOf(tgt)], k, n)]]
    BY <1>2 DEF MutateOnce
  <2>3. CASE \E ph \in {"ok", "other"} : GoTo(a, ph) /\ UNCHANGED inflight
    BY <2>1, <2>3 DEF HostTypeOK, GoTo, Phases, Returned
  <2>4. CASE /\ FindsTarget(tgt)
             /\ GoTo(a, "await")
             /\ inflight' = [inflight EXCEPT ![a] =
                  [by |-> a, slot |-> SlotOf(tgt), etag |-> Writable(instances[SlotOf(tgt)]),
                   body |-> EditedWritable(instances[SlotOf(tgt)], k, n)]]
    <3> DEFINE q == [by |-> a, slot |-> SlotOf(tgt),
                     etag |-> Writable(instances[SlotOf(tgt)]),
                     body |-> EditedWritable(instances[SlotOf(tgt)], k, n)]
    <3>1. instances[SlotOf(tgt)] \in Record
      BY <1>1, <2>4 DEF IncusTypeOK, FindsTarget, Present
    <3>2. q \in Request
      BY <1>1, <3>1, RequestType
    <3>3. q # Absent
      BY <3>2, PopulationAssumption
    <3>4. inflight' = [inflight EXCEPT ![a] = q]
      BY <2>4
    <3> HIDE DEF q
    <3> QED
      BY <2>1, <2>4, <3>2, <3>3, <3>4 DEF HostTypeOK, GoTo, Phases, Busy
  <2> QED
    BY <2>2, <2>3, <2>4
<1>3. CASE UpdateApplied(a)
  <2>1. inflight[a] \in Request /\ ETagMatches(inflight[a])
    BY <1>3 DEF UpdateApplied, HostTypeOK
  <2>2. IncusTypeOK'
    BY <1>3, <2>1, AppliedRecord, StoreTypes DEF UpdateApplied, ApplyRequest, IncusTypeOK
  <2> QED
    BY <1>3, <2>2 DEF UpdateApplied, HostTypeOK, GoTo, Phases, Busy
<1>4. CASE UpdateLost(a, n)
  <2>1. strays' \subseteq Request
    BY <1>4 DEF UpdateLost, Abandon, HostTypeOK, IncusTypeOK
  <2>2. abandoned' \subseteq Attempts
    BY <1>4 DEF UpdateLost, Abandon, HostTypeOK
  <2> QED
    BY <1>4, <2>1, <2>2 DEF UpdateLost, Abandon, HostTypeOK, IncusTypeOK, GoTo, Phases, Busy
<1>5. CASE \/ FetchRefused(a) \/ UpdateRetried(a) \/ UpdateRefused(a)
           \/ WaitSucceeds(a) \/ WaitFails(a)
  <2>1. IncusTypeOK' /\ abandoned' = abandoned
    BY <1>5 DEF FetchRefused, UpdateRetried, UpdateRefused, WaitSucceeds, WaitFails,
                incusVars, IncusTypeOK
  <2>2. PICK ph \in {"fetch", "ok", "other"} : GoTo(a, ph)
    BY <1>5 DEF FetchRefused, UpdateRetried, UpdateRefused, WaitSucceeds, WaitFails
  <2>3. inflight' = inflight \/ inflight' = [inflight EXCEPT ![a] = Absent]
    BY <1>5 DEF FetchRefused, UpdateRetried, UpdateRefused, WaitSucceeds, WaitFails
  <2> QED
    BY <2>1, <2>2, <2>3 DEF HostTypeOK, GoTo, Phases, Busy, Returned
<1> QED
  BY <1>2, <1>3, <1>4, <1>5 DEF MutateStep

(* So does a call that ends with its context.                              *)
LEMMA GiveUpTypes ==
    ASSUME IncusTypeOK, HostTypeOK, NEW a \in Attempts, NEW n,
           NEW err \in ContextErrors, GiveUp(a, n, err)
    PROVE  IncusTypeOK' /\ HostTypeOK' /\ \E ph \in Phases : GoTo(a, ph)
<1>1. strays' \subseteq Request
  BY DEF GiveUp, Abandon, HostTypeOK, IncusTypeOK
<1>2. abandoned' \subseteq Attempts
  BY DEF GiveUp, Abandon, HostTypeOK
<1>3. err \in Phases /\ err # "await"
  BY DEF ContextErrors, Phases, Returned
<1> QED
  BY <1>1, <1>2, <1>3 DEF GiveUp, Abandon, HostTypeOK, IncusTypeOK, GoTo

(* Whatever others do in Incus keeps the types of its state.               *)
LEMMA ForeignTypes ==
    ASSUME IncusTypeOK, ForeignStep
    PROVE  IncusTypeOK'
<1>1. CASE \E slot \in Slots, k \in UserKeys, v \in Values \cup {Absent} : OperatorEdit(slot, k, v)
  <2>1. PICK slot \in Slots, k \in UserKeys, v \in Values \cup {Absent} : OperatorEdit(slot, k, v)
    BY <1>1
  <2>2. instances[slot] \in Record
    BY <2>1 DEF OperatorEdit, Present, IncusTypeOK
  <2>3. [instances[slot] EXCEPT !.config[k] = v] \in Record
    BY <2>2 DEF Record, Config, ConfigKeys
  <2> QED
    BY <2>1, <2>3, StoreTypes DEF OperatorEdit, IncusTypeOK
<1>2. CASE \E slot \in Slots, k \in Keys : OperatorDropsKey(slot, k)
  <2>1. PICK slot \in Slots, k \in Keys : OperatorDropsKey(slot, k)
    BY <1>2
  <2>2. instances[slot] \in Record
    BY <2>1 DEF OperatorDropsKey, Present, IncusTypeOK
  <2>3. [instances[slot] EXCEPT !.config[k] = Absent] \in Record
    BY <2>2 DEF Record, Config, ConfigKeys
  <2> QED
    BY <2>1, <2>3, StoreTypes DEF OperatorDropsKey, IncusTypeOK
<1>3. CASE \E slot \in Slots, loc \in Locations : Migrate(slot, loc)
  <2>1. PICK slot \in Slots, loc \in Locations : Migrate(slot, loc)
    BY <1>3
  <2>2. instances[slot] \in Record
    BY <2>1 DEF Migrate, Present, IncusTypeOK
  <2>3. [instances[slot] EXCEPT !.location = loc] \in Record
    BY <2>2 DEF Record
  <2> QED
    BY <2>1, <2>3, StoreTypes DEF Migrate, IncusTypeOK
<1>4. CASE \E slot \in Slots : Delete(slot)
  BY <1>4 DEF Delete, IncusTypeOK
<1>5. CASE \E slot \in Slots, rec \in InitialRecords : Create(slot, rec)
  <2>1. PICK slot \in Slots, rec \in InitialRecords : Create(slot, rec)
    BY <1>5
  <2>2. PICK pop \in InitialInstances : \E s \in Slots : rec = pop[s] /\ rec # Absent
    BY <2>1 DEF InitialRecords
  <2>3. rec \in Record
    BY <2>2, PopulationAssumption
  <2> QED
    BY <2>1, <2>3, StoreTypes DEF Create, IncusTypeOK
<1>6. CASE \E from, to \in Slots : Relocate(from, to)
  <2>1. PICK from \in Slots, to \in Slots : Relocate(from, to)
    BY <1>6
  <2>2. instances[from] \in Record \cup {Absent}
    BY DEF IncusTypeOK
  <2>3. instances' \in [Slots -> Record \cup {Absent}]
    BY <2>1, <2>2 DEF Relocate, IncusTypeOK
  <2>4. moved' \subseteq UUIDs \cup {""}
    BY <2>1, UUIDType DEF Relocate, IncusTypeOK
  <2> QED
    BY <2>1, <2>3, <2>4 DEF Relocate, IncusTypeOK
<1>7. CASE \E q \in strays : StrayApplied(q)
  <2>1. PICK q \in strays : StrayApplied(q)
    BY <1>7
  <2>2. q \in Request /\ ETagMatches(q)
    BY <2>1 DEF StrayApplied, IncusTypeOK
  <2>3. strays' \subseteq Request
    BY <2>1 DEF StrayApplied, IncusTypeOK
  <2> QED
    BY <2>1, <2>2, <2>3, AppliedRecord, StoreTypes DEF StrayApplied, ApplyRequest, IncusTypeOK
<1> QED
  BY <1>1, <1>2, <1>3, <1>4, <1>5, <1>6, <1>7 DEF ForeignStep

(* Every step keeps the types and the order of a handler's statements.     *)
LEMMA NextSafeTypes == SafeTypes /\ [Next]_vars => SafeTypes'
<1> SUFFICES ASSUME SafeTypes, [Next]_vars PROVE SafeTypes'
  OBVIOUS
<1> USE DEF SafeTypes, TypeOK
<1> DEFINE Same == incusVars' = incusVars /\ inflight' = inflight /\ abandoned' = abandoned
<1>0. ASSUME Same PROVE IncusTypeOK'
  BY <1>0 DEF IncusTypeOK, incusVars
<1>s. ASSUME Same, NEW a \in Attempts, NEW ph \in Phases \ {"await"},
             GoTo(a, ph) \/ phase' = phase
      PROVE  HostTypeOK'
  BY <1>s DEF HostTypeOK, GoTo
<1>1. ASSUME NEW a \in Attempts, PayloadRejected(a) PROVE SafeTypes'
  <2>1. Same /\ (phase' = phase \/ GoTo(a, "fetch") \/ GoTo(a, "idle"))
    BY <1>1 DEF PayloadRejected, ReturnError, hostVars
  <2>2. IncusTypeOK' /\ HostTypeOK'
    BY <2>1, <1>0, <1>s DEF Phases, Busy
  <2>4. ServerTypeOK'
    BY <1>1
    DEF PayloadRejected, ReturnError, Conclude, Enter, At, GoTo, localVars,
        ServerTypeOK, Active, ErrorClasses, ContextErrors, Returned
  <2>5. ControlInv'
    BY <1>1, <2>1
    DEF PayloadRejected, ReturnError, Conclude, Enter, At, GoTo, localVars, hostVars,
        HostTypeOK, ServerTypeOK, ControlInv, Holding, Busy, Returned
  <2> QED
    BY <2>2, <2>4, <2>5
<1>2. ASSUME NEW a \in Attempts, RandomFails(a) PROVE SafeTypes'
  <2>1. Same /\ (phase' = phase \/ GoTo(a, "fetch") \/ GoTo(a, "idle"))
    BY <1>2 DEF RandomFails, ReturnError, hostVars
  <2>2. IncusTypeOK' /\ HostTypeOK'
    BY <2>1, <1>0, <1>s DEF Phases, Busy
  <2>4. ServerTypeOK'
    BY <1>2
    DEF RandomFails, ReturnError, Conclude, Enter, At, GoTo, localVars, ServerTypeOK,
        Active, ErrorClasses, ContextErrors, Returned
  <2>5. ControlInv'
    BY <1>2, <2>1
    DEF RandomFails, ReturnError, Conclude, Enter, At, GoTo, localVars, hostVars,
        HostTypeOK, ServerTypeOK, ControlInv, Holding, Busy, Returned
  <2> QED
    BY <2>2, <2>4, <2>5
<1>3. ASSUME NEW a \in Attempts, Resolve(a) PROVE SafeTypes'
  <2>1. Same /\ (phase' = phase \/ GoTo(a, "fetch") \/ GoTo(a, "idle"))
    BY <1>3 DEF Resolve, ReturnError, UniqueMatch, hostVars
  <2>2. IncusTypeOK' /\ HostTypeOK'
    BY <2>1, <1>0, <1>s DEF Phases, Busy
  <2>3. NoSearch \in Search /\ NoSearch.matches = 0
    BY DEF NoSearch, Search
  <2>6. UniqueMatch(a) => search[a].matched \in Snapshot
    BY DEF UniqueMatch, ControlInv, ServerTypeOK, Search
  <2>4. ServerTypeOK'
    BY <1>3, <2>3, <2>6, KeyAssumption
    DEF Resolve, ReturnError, UniqueMatch, Conclude, Enter, At, GoTo, localVars,
        ServerTypeOK, Active, ErrorClasses, ContextErrors, Returned
  <2>5. ControlInv'
    BY <1>3, <2>3, <2>6, KeyAssumption, <2>1
    DEF Resolve, ReturnError, UniqueMatch, Conclude, Enter, At, GoTo, localVars,
        hostVars, HostTypeOK, ServerTypeOK, ControlInv, Holding, Busy, Returned
  <2> QED
    BY <2>2, <2>4, <2>5
<1>4. ASSUME NEW a \in Attempts, LookupFails(a) PROVE SafeTypes'
  <2>1. Same /\ (phase' = phase \/ GoTo(a, "fetch") \/ GoTo(a, "idle"))
    BY <1>4 DEF LookupFails, ReturnError, ContextEnds, ContextErrors, hostVars
  <2>2. IncusTypeOK' /\ HostTypeOK'
    BY <2>1, <1>0, <1>s DEF Phases, Busy
  <2>3. NoSearch \in Search /\ NoSearch.matches = 0
    BY DEF NoSearch, Search
  <2>4. ServerTypeOK'
    BY <1>4, <2>3
    DEF LookupFails, ReturnError, ContextEnds, ContextErrors, Conclude, Enter, At, GoTo,
        localVars, ServerTypeOK, Active, ErrorClasses, ContextErrors, Returned
  <2>5. ControlInv'
    BY <1>4, <2>3, <2>1
    DEF LookupFails, ReturnError, ContextEnds, ContextErrors, Conclude, Enter, At, GoTo,
        localVars, hostVars, HostTypeOK, ServerTypeOK, ControlInv, Holding, Busy,
        Returned
  <2> QED
    BY <2>2, <2>4, <2>5
<1>5. ASSUME NEW a \in Attempts, SetNonceReturns(a) PROVE SafeTypes'
  <2>1. Same /\ (phase' = phase \/ GoTo(a, "fetch") \/ GoTo(a, "idle"))
    BY <1>5 DEF SetNonceReturns, ReturnAfterCleanup, RunCleanup, hostVars
  <2>2. IncusTypeOK' /\ HostTypeOK'
    BY <2>1, <1>0, <1>s DEF Phases, Busy
  <2>4. ServerTypeOK'
    BY <1>5
    DEF SetNonceReturns, ReturnAfterCleanup, RunCleanup, Conclude, Enter, At, GoTo,
        localVars, ServerTypeOK, Active, ErrorClasses, ContextErrors, Returned
  <2>5. ControlInv'
    BY <1>5, <2>1
    DEF SetNonceReturns, ReturnAfterCleanup, RunCleanup, Conclude, Enter, At, GoTo,
        localVars, hostVars, HostTypeOK, ServerTypeOK, ControlInv, Holding, Busy,
        Returned
  <2> QED
    BY <2>2, <2>4, <2>5
<1>6. ASSUME NEW a \in Attempts, SendChallenge(a) PROVE SafeTypes'
  <2>1. Same /\ (phase' = phase \/ GoTo(a, "fetch") \/ GoTo(a, "idle"))
    BY <1>6 DEF SendChallenge, ReturnAfterCleanup, RunCleanup, hostVars
  <2>2. IncusTypeOK' /\ HostTypeOK'
    BY <2>1, <1>0, <1>s DEF Phases, Busy
  <2>4. ServerTypeOK'
    BY <1>6
    DEF SendChallenge, ReturnAfterCleanup, RunCleanup, Conclude, Enter, At, GoTo,
        localVars, ServerTypeOK, Active, ErrorClasses, ContextErrors, Returned
  <2>5. ControlInv'
    BY <1>6, <2>1
    DEF SendChallenge, ReturnAfterCleanup, RunCleanup, Conclude, Enter, At, GoTo,
        localVars, hostVars, HostTypeOK, ServerTypeOK, ControlInv, Holding, Busy,
        Returned
  <2> QED
    BY <2>2, <2>4, <2>5
<1>7. ASSUME NEW a \in Attempts, ResponseFails(a) PROVE SafeTypes'
  <2>1. Same /\ (phase' = phase \/ GoTo(a, "fetch") \/ GoTo(a, "idle"))
    BY <1>7
    DEF ResponseFails, ReturnAfterCleanup, RunCleanup, ContextEnds, ContextErrors,
        hostVars
  <2>2. IncusTypeOK' /\ HostTypeOK'
    BY <2>1, <1>0, <1>s DEF Phases, Busy
  <2>4. ServerTypeOK'
    BY <1>7
    DEF ResponseFails, ReturnAfterCleanup, RunCleanup, ContextEnds, ContextErrors,
        Conclude, Enter, At, GoTo, localVars, ServerTypeOK, Active, ErrorClasses,
        ContextErrors, Returned
  <2>5. ControlInv'
    BY <1>7, <2>1
    DEF ResponseFails, ReturnAfterCleanup, RunCleanup, ContextEnds, ContextErrors,
        Conclude, Enter, At, GoTo, localVars, hostVars, HostTypeOK, ServerTypeOK,
        ControlInv, Holding, Busy, Returned
  <2> QED
    BY <2>2, <2>4, <2>5
<1>8. ASSUME NEW a \in Attempts, CleanupReturns(a) PROVE SafeTypes'
  <2>1. Same /\ (phase' = phase \/ GoTo(a, "fetch") \/ GoTo(a, "idle"))
    BY <1>8 DEF CleanupReturns, AnnotateCleanup, Returned, ContextErrors, hostVars
  <2>2. IncusTypeOK' /\ HostTypeOK'
    BY <2>1, <1>0, <1>s DEF Phases, Busy
  <2>4. ServerTypeOK'
    BY <1>8
    DEF CleanupReturns, AnnotateCleanup, Returned, ContextErrors, Conclude, Enter, At,
        GoTo, localVars, ServerTypeOK, Active, ErrorClasses, ContextErrors, Returned
  <2>5. ControlInv'
    BY <1>8, <2>1
    DEF CleanupReturns, AnnotateCleanup, Returned, ContextErrors, Conclude, Enter, At,
        GoTo, localVars, hostVars, HostTypeOK, ServerTypeOK, ControlInv, Holding, Busy,
        Returned
  <2> QED
    BY <2>2, <2>4, <2>5
<1>9. ASSUME NEW a \in Attempts, SendAttributes(a) PROVE SafeTypes'
  <2>1. Same /\ (phase' = phase \/ GoTo(a, "fetch") \/ GoTo(a, "idle"))
    BY <1>9 DEF SendAttributes, hostVars
  <2>2. IncusTypeOK' /\ HostTypeOK'
    BY <2>1, <1>0, <1>s DEF Phases, Busy
  <2>3. BuildAttributes(target[a]) \in Attributes
    BY <1>9, AttributesType DEF SendAttributes, At, ControlInv, Holding, ServerTypeOK
  <2>4. ServerTypeOK'
    BY <1>9, <2>3
    DEF SendAttributes, Conclude, Enter, At, GoTo, localVars, ServerTypeOK, Active,
        ErrorClasses, ContextErrors, Returned
  <2>5. ControlInv'
    BY <1>9, <2>3, <2>1
    DEF SendAttributes, Conclude, Enter, At, GoTo, localVars, hostVars, HostTypeOK,
        ServerTypeOK, ControlInv, Holding, Busy, Returned
  <2> QED
    BY <2>2, <2>4, <2>5
<1>10. ASSUME NEW a \in Attempts, Cancel(a) PROVE SafeTypes'
  <2>1. Same /\ (phase' = phase \/ GoTo(a, "fetch") \/ GoTo(a, "idle"))
    BY <1>10 DEF Cancel, hostVars
  <2>2. IncusTypeOK' /\ HostTypeOK'
    BY <2>1, <1>0, <1>s DEF Phases, Busy
  <2>4. ServerTypeOK'
    BY <1>10
    DEF Cancel, Conclude, Enter, At, GoTo, localVars, ServerTypeOK, Active,
        ErrorClasses, ContextErrors, Returned
  <2>5. ControlInv'
    BY <1>10, <2>1
    DEF Cancel, Conclude, Enter, At, GoTo, localVars, hostVars, HostTypeOK,
        ServerTypeOK, ControlInv, Holding, Busy, Returned
  <2> QED
    BY <2>2, <2>4, <2>5
<1>11. ASSUME NEW a \in Attempts, NEW p \in Payloads, PayloadReceived(a, p) PROVE SafeTypes'
  <2>1. Same /\ phase' = phase
    BY <1>11 DEF PayloadReceived, ReturnError
  <2>2. IncusTypeOK' /\ HostTypeOK'
    BY <2>1, <1>0, <1>s DEF Phases
  <2>3. DecodePayload(p) \in Claims /\ DecodePayload(p) # Absent
    BY PayloadAssumption, DecodeType, KeyAssumption
  <2>4. AllowedHint(DecodePayload(p)) => SearchOrder(DecodePayload(p)) \in Seq(Projects)
    <3>1. DecodePayload(p).project \in Projects \cup {""}
      BY <2>3 DEF Claims
    <3>2. \A x \in Projects : <<x>> \in Seq(Projects)
      OBVIOUS
    <3> QED
      BY <3>1, <3>2, ConfigurationAssumption DEF SearchOrder
  <2>5. search' \in [Attempts -> Search]
    <3>1. search[a] \in Search
      BY DEF ServerTypeOK
    <3>2. \A r \in Seq(Projects) : [search[a] EXCEPT !.rest = r] \in Search
      BY <3>1 DEF Search
    <3>3. \/ search' = search
          \/ \E r \in Seq(Projects) : search' = [search EXCEPT ![a] = [search[a] EXCEPT !.rest = r]]
      BY <1>11, <2>4 DEF PayloadReceived
    <3> QED
      BY <3>2, <3>3 DEF ServerTypeOK
  <2>6. ServerTypeOK'
    <3>1. /\ pc' \in [Attempts -> Active \cup {"idle", "done", "crashed"}]
          /\ result' \in [Attempts -> ErrorClasses \cup {"pending", "ok"}]
      BY <1>11 DEF PayloadReceived, ReturnError, Conclude, Enter, ServerTypeOK, Active,
          ErrorClasses
    <3>2. UNCHANGED <<rpc, target, key, nonce, attrs, responder>>
      BY <1>11 DEF PayloadReceived
    <3>3. UNCHANGED cleanup
      BY <1>11 DEF PayloadReceived, ReturnError
    <3>4. claims' \in [Attempts -> Claims \cup {Absent}]
      BY <1>11, <2>3 DEF PayloadReceived, ServerTypeOK
    <3> QED
      BY <2>5, <3>1, <3>2, <3>3, <3>4 DEF ServerTypeOK
  <2>7. \A b \in Attempts : /\ search'[b].matches = search[b].matches
                            /\ search'[b].matched = search[b].matched
    <3>1. search[a] \in Search /\ search \in [Attempts -> Search]
      BY DEF ServerTypeOK
    <3>2. PICK r : search' = search \/ search' = [search EXCEPT ![a].rest = r]
      BY <1>11 DEF PayloadReceived
    <3> QED
      BY <3>1, <3>2, OrderKeepsMatches
  <2>8. ControlInv'
    BY <1>11, <2>1, <2>3, <2>7
    DEF PayloadReceived, ReturnError, Enter, At, ServerTypeOK, ControlInv, Holding, Busy
  <2> QED
    BY <2>2, <2>6, <2>8
<1>12. ASSUME NEW a \in Attempts, Lookup(a) PROVE SafeTypes'
  <2> DEFINE slot == <<Head(search[a].rest), claims[a].name>>
             found == MapInstance(slot, instances[slot])
             next == [rest    |-> Tail(search[a].rest),
                      matched |-> IF Matches(a, slot) THEN found ELSE search[a].matched,
                      matches |-> IF Matches(a, slot) THEN search[a].matches + 1
                                                      ELSE search[a].matches]
  <2>1. Same /\ phase' = phase
    BY <1>12 DEF Lookup, ReturnError
  <2>2. IncusTypeOK' /\ HostTypeOK'
    BY <2>1, <1>0, <1>s DEF Phases
  <2>3. /\ search[a].rest # <<>>
        /\ search[a].rest \in Seq(Projects)
        /\ search[a].matched \in Snapshot \cup {Absent}
        /\ search[a].matches \in Nat
    BY <1>12 DEF Lookup, ServerTypeOK, Search
  <2>4. Head(search[a].rest) \in Projects /\ Tail(search[a].rest) \in Seq(Projects)
    BY <2>3, HeadTailProperties
  <2>5. claims[a] \in Claims
    BY <1>12 DEF Lookup, At, ControlInv, ServerTypeOK
  <2>6. ASSUME Matches(a, slot), Mappable(instances[slot])
        PROVE  found \in Snapshot /\ found # Absent
    <3>1. claims[a].name \in Names
      BY <2>5, <2>6 DEF Matches, MatchClaims, ValidateClaims, Claims
    <3>2. slot \in Slots
      BY <2>4, <3>1 DEF Slots
    <3>3. instances[slot] \in Record
      BY <2>6, <3>2 DEF Matches, Present, IncusTypeOK
    <3> QED
      BY <2>6, <3>2, <3>3, MapType, KeyAssumption
  <2>7. CASE search' = search
    <3>1. ServerTypeOK'
      BY <1>12, <2>7
      DEF Lookup, ReturnError, Conclude, Enter, ServerTypeOK, Active, ErrorClasses
    <3>2. ControlInv'
      BY <1>12, <2>1, <2>7
      DEF Lookup, ReturnError, Enter, At, ServerTypeOK, ControlInv, Holding, Busy
    <3> QED
      BY <2>2, <3>1, <3>2
  <2>8. CASE /\ Present(slot) => Mappable(instances[slot])
             /\ search' = [search EXCEPT ![a] = next]
             /\ UNCHANGED <<pc, cleanup, result>>
    <3>1. Matches(a, slot) => found \in Snapshot /\ found # Absent
      BY <2>6, <2>8 DEF Matches
    <3>2. next \in Search /\ (next.matches # 0 => next.matched # Absent)
      <4>1. next.matched \in Snapshot \cup {Absent} /\ next.matches \in Nat
        BY <2>3, <3>1
      <4>2. next.matches # 0 => next.matched # Absent
        BY <2>3, <3>1 DEF ControlInv
      <4> QED
        BY <2>4, <4>1, <4>2 DEF Search
    <3> HIDE DEF next
    <3>3. ServerTypeOK'
      BY <1>12, <2>8, <3>2 DEF Lookup, ServerTypeOK
    <3>4. ControlInv'
      BY <1>12, <2>1, <2>8, <3>2 DEF Lookup, ServerTypeOK, ControlInv
    <3> QED
      BY <2>2, <3>3, <3>4
  <2> QED
    BY <1>12, <2>7, <2>8 DEF Lookup
<1>13. ASSUME NEW a \in Attempts, NEW k \in Keys, NEW n \in Nonces, ReadRandomPair(a, k, n)
       PROVE  SafeTypes'
  <2>1. Same /\ GoTo(a, "fetch")
    BY <1>13 DEF ReadRandomPair
  <2>2. IncusTypeOK' /\ HostTypeOK'
    BY <2>1, <1>0, <1>s DEF Phases, Busy
  <2>3. k # Absent /\ n # Absent
    BY KeyAssumption
  <2>4. ServerTypeOK'
    BY <1>13 DEF ReadRandomPair, Enter, ServerTypeOK, Active
  <2>5. ControlInv'
    BY <1>13, <2>3
    DEF ReadRandomPair, Enter, GoTo, At, HostTypeOK, ServerTypeOK, ControlInv, Holding,
        Busy
  <2> QED
    BY <2>2, <2>4, <2>5
<1>14. ASSUME NEW a \in Attempts, NEW vm \in UUIDs, NEW got, ReceiveResponse(a, vm, got)
       PROVE  SafeTypes'
  <2>1. Same /\ GoTo(a, "fetch")
    BY <1>14 DEF ReceiveResponse, ReturnAfterCleanup, RunCleanup
  <2>2. IncusTypeOK' /\ HostTypeOK'
    BY <2>1, <1>0, <1>s DEF Phases, Busy
  <2>3. ServerTypeOK'
    BY <1>14
    DEF ReceiveResponse, ReturnAfterCleanup, RunCleanup, Conclude, Enter, ServerTypeOK,
        Active, ErrorClasses
  <2>4. ControlInv'
    BY <1>14, <2>1 DEF ReceiveResponse, ReturnAfterCleanup, RunCleanup, Enter, GoTo, At,
                       HostTypeOK, ServerTypeOK, ControlInv, Holding, Busy
  <2> QED
    BY <2>2, <2>3, <2>4
<1>h. ASSUME NEW a \in Attempts, pc[a] \in {"set", "unset"}, NEW ph \in Phases, GoTo(a, ph),
             UNCHANGED <<pc, rpc, cleanup, result, localVars>>
      PROVE  ServerTypeOK' /\ ControlInv'
  <2>1. ServerTypeOK'
    BY <1>h DEF ServerTypeOK, localVars
  <2>2. ControlInv'
    BY <1>h DEF GoTo, HostTypeOK, ServerTypeOK, ControlInv, localVars
  <2> QED
    BY <2>1, <2>2
<1>k. ASSUME NEW a \in Attempts, pc[a] \in {"set", "unset"}
      PROVE  target[a] \in Snapshot /\ key[a] \in Keys /\ nonce[a] \in Nonces
  BY <1>k DEF ServerTypeOK, ControlInv, Holding
<1>15. ASSUME NEW a \in Attempts, SetNonceStep(a) PROVE SafeTypes'
  <2>1. MutateStep(a, target[a], key[a], nonce[a])
    BY <1>15 DEF SetNonceStep
  <2>2. IncusTypeOK' /\ HostTypeOK' /\ \E ph \in Phases : GoTo(a, ph)
    BY <1>15, <2>1, <1>k, MutateTypes DEF SetNonceStep, At
  <2> QED
    BY <1>15, <2>2, <1>h DEF SetNonceStep, At
<1>16. ASSUME NEW a \in Attempts, UnsetNonceStep(a) PROVE SafeTypes'
  <2>1. MutateStep(a, target[a], key[a], Absent)
    BY <1>16 DEF UnsetNonceStep
  <2>2. IncusTypeOK' /\ HostTypeOK' /\ \E ph \in Phases : GoTo(a, ph)
    BY <1>16, <2>1, <1>k, MutateTypes DEF UnsetNonceStep, At
  <2> QED
    BY <1>16, <2>2, <1>h DEF UnsetNonceStep, At
<1>17. ASSUME NEW a \in Attempts, SetNonceGivesUp(a) \/ UnsetNonceGivesUp(a) PROVE SafeTypes'
  <2>1. \E err \in ContextErrors : GiveUp(a, nonce[a], err) \/ GiveUp(a, Absent, err)
    BY <1>17 DEF SetNonceGivesUp, UnsetNonceGivesUp, ContextEnds, ContextErrors
  <2>2. IncusTypeOK' /\ HostTypeOK' /\ \E ph \in Phases : GoTo(a, ph)
    BY <2>1, GiveUpTypes
  <2> QED
    BY <1>17, <2>2, <1>h DEF SetNonceGivesUp, UnsetNonceGivesUp, At
<1>18. ASSUME Crash PROVE SafeTypes'
  <2>1. IncusTypeOK'
    BY <1>18 DEF Crash, IncusTypeOK, HostTypeOK
  <2>2. HostTypeOK'
    BY <1>18 DEF Crash, HostTypeOK, Phases
  <2>3. ServerTypeOK'
    BY <1>18 DEF Crash, ServerTypeOK, localVars
  <2>4. ControlInv'
    BY <1>18 DEF Crash, ServerTypeOK, HostTypeOK, ControlInv, localVars, Holding, Busy, Active
  <2> QED
    BY <2>1, <2>2, <2>3, <2>4
<1>19. ASSUME Foreign PROVE SafeTypes'
  <2>1. IncusTypeOK'
    BY <1>19, ForeignTypes DEF Foreign
  <2> QED
    BY <1>19, <2>1 DEF Foreign, hostVars, localVars, HostTypeOK, ServerTypeOK, ControlInv
<1>20. ASSUME UNCHANGED vars PROVE SafeTypes'
  BY <1>20
  DEF vars, incusVars, hostVars, localVars, IncusTypeOK, HostTypeOK, ServerTypeOK,
      ControlInv
<1>21. ASSUME NEW a \in Attempts, Handler(a) PROVE SafeTypes'
  BY <1>21, <1>2, <1>3, <1>4, <1>5, <1>6, <1>7, <1>8, <1>9, <1>12, <1>13, <1>14, <1>17
  DEF Handler
<1> QED
  BY <1>1, <1>10, <1>11, <1>15, <1>16, <1>18, <1>19, <1>20, <1>21 DEF Next

(* TypeOK of ServerAttest, for every instance of its constants.            *)
THEOREM TypeCorrect == Spec => []TypeOK
<1>1. Init => SafeTypes
  BY InitSafeTypes
<1>2. SafeTypes /\ [Next]_vars => SafeTypes'
  BY NextSafeTypes
<1>3. SafeTypes => TypeOK
  BY DEF SafeTypes
<1> QED
  BY <1>1, <1>2, <1>3, PTL DEF Spec

-----------------------------------------------------------------------------
(* Key ownership.                                                          *)

(* The keys, nonces and targets of all attempts are passed explicitly, so  *)
(* that these notions can speak of a state and of its successor.           *)

(* Every challenge key of rec belongs to an attempt that targets its VM.   *)
Owned(rec, ky, no, tg) ==
    \A k \in NonceKeysOf(rec) : \E a \in Attempts :
        /\ ky[a] = k
        /\ rec.config[k] = no[a]
        /\ NewInstanceUUID(rec.uuid) = tg[a].uuid

(* e is a VM and the nonce of an attempt that targets it.                  *)
OwnPair(e, ky, no, tg) ==
    \E a \in Attempts : ky[a] # Absent /\ e = <<tg[a].uuid, no[a]>>

(* q changes one key, its sender's, on content of its sender's target.     *)
OwnKeyOnly(q, ky, no, tg) ==
    /\ ky[q.by] # Absent
    /\ NewInstanceUUID(q.etag.uuid) = tg[q.by].uuid
    /\ q.body.uuid = q.etag.uuid
    /\ q.body.cloudInitID = q.etag.cloudInitID
    /\ q.body.profiles = q.etag.profiles
    /\ \E n \in {no[q.by], Absent} :
          q.body.config = [q.etag.config EXCEPT ![ky[q.by]] = n]

DistinctInv ==
    \A a, b \in Attempts : key[a] # Absent /\ a # b =>
        key[a] # key[b] /\ nonce[a] # nonce[b]

ConfigInv ==
    \A slot \in Slots : Present(slot) => Owned(instances[slot], key, nonce, target)

ExposedInv == \A e \in exposed : OwnPair(e, key, nonce, target)

RequestInv ==
    /\ \A q \in strays : OwnKeyOnly(q, key, nonce, target)
    /\ \A a \in Attempts : inflight[a] # Absent =>
          inflight[a].by = a /\ OwnKeyOnly(inflight[a], key, nonce, target)

VerdictInv ==
    \A a \in Attempts :
        /\ pc[a] = "attrs" \/ (pc[a] = "unset" /\ result[a] = "pending")
              => responder[a] = target[a].uuid
        /\ attrs[a] # Absent => /\ pc[a] = "done"
                                /\ target[a] # Absent
                                /\ attrs[a].agentID = target[a].uuid
                                /\ responder[a] = target[a].uuid

NonceInv == DistinctInv /\ ConfigInv /\ ExposedInv /\ RequestInv /\ VerdictInv

-----------------------------------------------------------------------------
(* Once drawn, an attempt's key, nonce and target stay as they are.        *)

Settled ==
    \A a \in Attempts : key[a] # Absent =>
        key'[a] = key[a] /\ nonce'[a] = nonce[a] /\ target'[a] = target[a]

(* No step changes the key, nonce or target of an attempt that has drawn.  *)
LEMMA NextSettles ==
    ASSUME SafeTypes, [Next]_vars
    PROVE  Settled
<1>1. CASE \E a \in Attempts : Resolve(a)
  <2>1. PICK a \in Attempts : Resolve(a)
    BY <1>1
  <2>2. key[a] = Absent
    BY <2>1 DEF Resolve, At, SafeTypes, ControlInv
  <2>3. /\ key' = key /\ nonce' = nonce
        /\ target' = target \/ target' = [target EXCEPT ![a] = search[a].matched]
    BY <2>1 DEF Resolve
  <2> QED
    BY <2>2, <2>3 DEF Settled, SafeTypes, TypeOK, ServerTypeOK
<1>2. CASE \E a \in Attempts, k \in Keys, n \in Nonces : ReadRandomPair(a, k, n)
  <2>1. PICK a \in Attempts, k \in Keys, n \in Nonces : ReadRandomPair(a, k, n)
    BY <1>2
  <2>2. key[a] = Absent
    BY <2>1 DEF ReadRandomPair, At, SafeTypes, ControlInv
  <2> QED
    BY <2>1, <2>2 DEF ReadRandomPair, Settled, SafeTypes, TypeOK, ServerTypeOK
<1>3. CASE UNCHANGED <<key, nonce, target>>
  BY <1>3 DEF Settled
<1>4. ASSUME NEW a \in Attempts, Handler(a)
      PROVE  \/ Resolve(a)
             \/ \E k \in Keys, n \in Nonces : ReadRandomPair(a, k, n)
             \/ UNCHANGED <<key, nonce, target>>
  BY <1>4 DEF Handler, Lookup, LookupFails, RandomFails, SetNonceGivesUp, SetNonceReturns,
      SendChallenge, ReceiveResponse, ResponseFails, UnsetNonceGivesUp, CleanupReturns,
      SendAttributes, localVars
<1>5. ASSUME NEW a \in Attempts,
             \/ PayloadRejected(a) \/ \E p \in Payloads : PayloadReceived(a, p)
             \/ SetNonceStep(a) \/ UnsetNonceStep(a) \/ Cancel(a)
      PROVE  UNCHANGED <<key, nonce, target>>
  BY <1>5 DEF PayloadRejected, PayloadReceived, SetNonceStep, UnsetNonceStep, Cancel, localVars
<1>6. ASSUME Crash \/ Foreign \/ UNCHANGED vars
      PROVE  UNCHANGED <<key, nonce, target>>
  BY <1>6 DEF Crash, Foreign, vars, localVars
<1> QED
  BY <1>1, <1>2, <1>3, <1>4, <1>5, <1>6 DEF Next

(* The three notions survive a step that settles.                          *)
LEMMA SettledKeeps ==
    ASSUME Settled, SafeTypes
    PROVE  /\ \A rec : Owned(rec, key, nonce, target) => Owned(rec, key', nonce', target')
           /\ \A e : OwnPair(e, key, nonce, target) => OwnPair(e, key', nonce', target')
           /\ \A q \in Request : OwnKeyOnly(q, key, nonce, target)
                                    => OwnKeyOnly(q, key', nonce', target')
<1>1. ASSUME NEW rec, Owned(rec, key, nonce, target)
      PROVE  Owned(rec, key', nonce', target')
  <2>1. \A k \in NonceKeysOf(rec) : k # Absent
    BY KeyAssumption DEF NonceKeysOf
  <2> QED
    BY <1>1, <2>1 DEF Owned, Settled
<1>2. ASSUME NEW e, OwnPair(e, key, nonce, target)
      PROVE  OwnPair(e, key', nonce', target')
  BY <1>2 DEF OwnPair, Settled
<1>3. ASSUME NEW q \in Request, OwnKeyOnly(q, key, nonce, target)
      PROVE  OwnKeyOnly(q, key', nonce', target')
  <2>1. q.by \in Attempts
    BY DEF Request
  <2> QED
    BY <1>3, <2>1 DEF OwnKeyOnly, Settled
<1> QED
  BY <1>1, <1>2, <1>3

(* Storing an owned record.                                                *)
LEMMA StoreOwned ==
    ASSUME SafeTypes, Settled, ConfigInv, ExposedInv, NEW slot \in Slots,
           NEW rec \in Record, Store(slot, rec), Owned(rec, key, nonce, target)
    PROVE  ConfigInv' /\ ExposedInv'
<1>1. Owned(rec, key', nonce', target')
  BY SettledKeeps
<1>2. ConfigInv'
  <2>1. instances' = [instances EXCEPT ![slot] = rec]
    BY DEF Store
  <2> QED
    BY <1>1, <2>1, SettledKeeps DEF ConfigInv, Present, SafeTypes, TypeOK, IncusTypeOK
<1>3. ASSUME NEW e \in Reveals(rec)
      PROVE  OwnPair(e, key, nonce, target)
  <2>1. PICK k \in NonceKeysOf(rec) : e = <<NewInstanceUUID(rec.uuid), rec.config[k]>>
    BY <1>3 DEF Reveals
  <2>2. k # Absent
    BY KeyAssumption DEF NonceKeysOf
  <2>3. PICK a \in Attempts : /\ key[a] = k
                              /\ rec.config[k] = nonce[a]
                              /\ NewInstanceUUID(rec.uuid) = target[a].uuid
    BY <2>1 DEF Owned
  <2> QED
    BY <2>1, <2>2, <2>3 DEF OwnPair
<1>4. ExposedInv'
  <2>1. exposed' = exposed \cup Reveals(rec)
    BY DEF Store
  <2> QED
    BY <1>3, <2>1, SettledKeeps DEF ExposedInv
<1> QED
  BY <1>2, <1>4

(* The record an accepted request leaves is owned.                         *)
LEMMA AppliedOwned ==
    ASSUME SafeTypes, NEW q \in Request, ETagMatches(q),
           OwnKeyOnly(q, key, nonce, target),
           Owned(instances[q.slot], key, nonce, target)
    PROVE  Owned(Rewritten(instances[q.slot], q.body), key, nonce, target)
<1> DEFINE old == instances[q.slot]
           new == Rewritten(old, q.body)
<1>1. old \in Record /\ new \in Record /\ q.by \in Attempts
  BY AppliedRecord DEF SafeTypes, TypeOK, Request
<1>2. old.uuid = q.etag.uuid /\ old.config = q.etag.config
  BY DEF ETagMatches, Writable
<1>3. new.uuid = q.body.uuid /\ new.config = q.body.config
  BY <1>1 DEF Rewritten, Record
<1>4. new.uuid = old.uuid
  BY <1>2, <1>3 DEF OwnKeyOnly
<1>5. PICK n \in {nonce[q.by], Absent} : new.config = [old.config EXCEPT ![key[q.by]] = n]
  BY <1>2, <1>3 DEF OwnKeyOnly
<1>6. old.config \in [ConfigKeys -> Values \cup Nonces \cup {Absent}]
  BY <1>1 DEF Record, Config
<1>7. ASSUME NEW k \in NonceKeysOf(new)
      PROVE  \E a \in Attempts : /\ key[a] = k
                                 /\ new.config[k] = nonce[a]
                                 /\ NewInstanceUUID(new.uuid) = target[a].uuid
  <2>1. k \in Keys /\ new.config[k] # Absent /\ k \in ConfigKeys
    BY DEF NonceKeysOf, ConfigKeys
  <2>2. CASE k = key[q.by]
    <3>1. new.config[k] = n
      BY <1>5, <1>6, <2>1, <2>2
    <3>2. n = nonce[q.by]
      BY <2>1, <3>1
    <3>3. NewInstanceUUID(new.uuid) = target[q.by].uuid
      BY <1>2, <1>4 DEF OwnKeyOnly
    <3> QED
      BY <1>1, <2>2, <3>1, <3>2, <3>3
  <2>3. CASE k # key[q.by]
    <3>1. new.config[k] = old.config[k]
      BY <1>5, <1>6, <2>1, <2>3
    <3>2. k \in NonceKeysOf(old)
      BY <2>1, <3>1 DEF NonceKeysOf
    <3> QED
      BY <1>4, <3>1, <3>2 DEF Owned
  <2> QED
    BY <2>2, <2>3
<1> QED
  BY <1>7 DEF Owned

-----------------------------------------------------------------------------
(* The inductive step, part by part.                                       *)

(* readRandomPair draws fresh values and nothing else draws.               *)
LEMMA NextDistinct ==
    ASSUME SafeTypes, DistinctInv, [Next]_vars
    PROVE  DistinctInv'
<1>1. CASE \E a \in Attempts, k \in Keys, n \in Nonces : ReadRandomPair(a, k, n)
  <2>1. PICK a \in Attempts, k \in Keys, n \in Nonces : ReadRandomPair(a, k, n)
    BY <1>1
  <2>2. /\ key' = [key EXCEPT ![a] = k]
        /\ nonce' = [nonce EXCEPT ![a] = n]
        /\ \A b \in Attempts : key[b] # k /\ nonce[b] # n
    BY <2>1 DEF ReadRandomPair, Fresh
  <2> QED
    BY <2>2 DEF DistinctInv, SafeTypes, TypeOK, ServerTypeOK
<1>2. CASE UNCHANGED <<key, nonce>>
  BY <1>2 DEF DistinctInv
<1>3. ASSUME NEW a \in Attempts, Handler(a)
      PROVE  \/ \E k \in Keys, n \in Nonces : ReadRandomPair(a, k, n)
             \/ UNCHANGED <<key, nonce>>
  BY <1>3 DEF Handler, Lookup, Resolve, LookupFails, RandomFails, SetNonceGivesUp,
      SetNonceReturns, SendChallenge, ReceiveResponse, ResponseFails, UnsetNonceGivesUp,
      CleanupReturns, SendAttributes, localVars
<1>4. ASSUME NEW a \in Attempts,
             \/ PayloadRejected(a) \/ \E p \in Payloads : PayloadReceived(a, p)
             \/ SetNonceStep(a) \/ UnsetNonceStep(a) \/ Cancel(a)
      PROVE  UNCHANGED <<key, nonce>>
  BY <1>4 DEF PayloadRejected, PayloadReceived, SetNonceStep, UnsetNonceStep, Cancel, localVars
<1>5. ASSUME Crash \/ Foreign \/ UNCHANGED vars
      PROVE  UNCHANGED <<key, nonce>>
  BY <1>5 DEF Crash, Foreign, vars, localVars
<1> QED
  BY <1>1, <1>2, <1>3, <1>4, <1>5 DEF Next

ChannelInv == ConfigInv /\ ExposedInv /\ RequestInv

(* Steps that leave instances alone and at most shift requests from a      *)
(* handler's hands to the strays.                                          *)
LEMMA ShiftKeeps ==
    ASSUME SafeTypes, Settled, ChannelInv,
           instances' = instances, exposed' = exposed,
           strays' \subseteq strays \cup ({inflight[a] : a \in Attempts} \ {Absent}),
           \A a \in Attempts : inflight'[a] \in {inflight[a], Absent}
    PROVE  ChannelInv'
<1>1. ConfigInv' /\ ExposedInv'
  BY SettledKeeps DEF ChannelInv, ConfigInv, ExposedInv, Present
<1>t. strays \subseteq Request /\ inflight \in [Attempts -> Request \cup {Absent}]
  BY DEF SafeTypes, TypeOK, IncusTypeOK, HostTypeOK
<1>2. ASSUME NEW q \in strays'
      PROVE  q \in Request /\ OwnKeyOnly(q, key, nonce, target)
  <2>1. CASE q \in strays
    BY <1>t, <2>1 DEF ChannelInv, RequestInv
  <2>2. CASE \E a \in Attempts : q = inflight[a] /\ inflight[a] # Absent
    BY <1>t, <2>2 DEF ChannelInv, RequestInv
  <2> QED
    BY <1>2, <2>1, <2>2
<1>3. ASSUME NEW a \in Attempts, inflight'[a] # Absent
      PROVE  /\ inflight'[a] \in Request
             /\ inflight'[a].by = a
             /\ OwnKeyOnly(inflight'[a], key, nonce, target)
  <2>1. inflight'[a] = inflight[a] /\ inflight[a] # Absent
    BY <1>3
  <2>2. inflight[a] \in Request
    BY <2>1 DEF SafeTypes, TypeOK, HostTypeOK
  <2> QED
    BY <2>1, <2>2 DEF ChannelInv, RequestInv
<1>4. RequestInv'
  BY <1>2, <1>3, SettledKeeps DEF RequestInv
<1> QED
  BY <1>1, <1>4 DEF ChannelInv

(* A live mutate call, for the attempt's own target and key.               *)
LEMMA MutateKeepsChannel ==
    ASSUME SafeTypes, Settled, ChannelInv, NEW a \in Attempts,
           target[a] \in Snapshot, key[a] \in Keys,
           NEW n \in {nonce[a], Absent}, n \in Nonces \cup {Absent},
           MutateStep(a, target[a], key[a], n)
    PROVE  ChannelInv'
<1>1. SlotOf(target[a]) \in Slots
  BY DEF SlotOf, Slots, Snapshot
<1>t. inflight \in [Attempts -> Request \cup {Absent}]
  BY DEF SafeTypes, TypeOK, HostTypeOK
<1>2. CASE /\ instances' = instances /\ exposed' = exposed
           /\ strays' \subseteq strays \cup ({inflight[b] : b \in Attempts} \ {Absent})
           /\ \A b \in Attempts : inflight'[b] \in {inflight[b], Absent}
  BY <1>2, ShiftKeeps
<1>3. CASE \/ FetchRefused(a) \/ UpdateRetried(a) \/ UpdateRefused(a)
           \/ WaitSucceeds(a) \/ WaitFails(a)
  BY <1>3, <1>2, <1>t DEF FetchRefused, UpdateRetried, UpdateRefused, WaitSucceeds, WaitFails,
      incusVars
<1>4. CASE UpdateLost(a, n)
  BY <1>4, <1>2, <1>t DEF UpdateLost, Abandon
<1>5. CASE UpdateApplied(a)
  <2>1. inflight[a] # Absent /\ inflight[a] \in Request
    BY <1>5 DEF UpdateApplied, SafeTypes, TypeOK, HostTypeOK
  <2>2. PICK q \in Request : q = inflight[a]
    BY <2>1
  <2>3. ETagMatches(q) /\ Store(q.slot, Rewritten(instances[q.slot], q.body))
    BY <1>5, <2>2 DEF UpdateApplied, ApplyRequest
  <2>4. OwnKeyOnly(q, key, nonce, target)
    BY <2>1, <2>2 DEF ChannelInv, RequestInv
  <2>5. /\ q.slot \in Slots
        /\ Rewritten(instances[q.slot], q.body) \in Record
        /\ Owned(instances[q.slot], key, nonce, target)
    BY <2>3, AppliedRecord DEF SafeTypes, TypeOK, ChannelInv, ConfigInv, ETagMatches
  <2>6. ConfigInv' /\ ExposedInv'
    BY <2>3, <2>4, <2>5, AppliedOwned, StoreOwned DEF ChannelInv
  <2>7. strays' = strays /\ inflight' = [inflight EXCEPT ![a] = Absent]
    BY <1>5 DEF UpdateApplied
  <2>8. RequestInv'
    <3>1. \A q1 \in strays' : q1 \in Request /\ OwnKeyOnly(q1, key, nonce, target)
      BY <2>7 DEF ChannelInv, RequestInv, SafeTypes, TypeOK, IncusTypeOK
    <3>2. \A b \in Attempts : inflight'[b] # Absent =>
            /\ inflight'[b] \in Request
            /\ inflight'[b].by = b
            /\ OwnKeyOnly(inflight'[b], key, nonce, target)
      BY <1>t, <2>7 DEF ChannelInv, RequestInv
    <3> QED
      BY <3>1, <3>2, SettledKeeps DEF RequestInv
  <2> QED
    BY <2>6, <2>8 DEF ChannelInv
<1>6. CASE MutateOnce(a, target[a], key[a], n)
  <2>1. UNCHANGED <<instances, strays, exposed>>
    BY <1>6 DEF MutateOnce, incusVars
  <2>2. CASE inflight' = inflight
    BY <2>1, <2>2, ShiftKeeps
  <2>3. CASE inflight' # inflight
    <3> DEFINE rec == instances[SlotOf(target[a])]
               sent == [by |-> a, slot |-> SlotOf(target[a]), etag |-> Writable(rec),
                        body |-> EditedWritable(rec, key[a], n)]
    <3>1. FindsTarget(target[a]) /\ inflight' = [inflight EXCEPT ![a] = sent]
      BY <1>6, <2>3 DEF MutateOnce
    <3>2. rec \in Record /\ NewInstanceUUID(rec.uuid) = target[a].uuid
      BY <1>1, <3>1 DEF FindsTarget, Present, MatchResolvedTarget, SafeTypes, TypeOK, IncusTypeOK
    <3>3. sent \in Request
      BY <1>1, <3>2, RequestType
    <3>4. /\ sent.by = a
          /\ sent.etag = Writable(rec)
          /\ sent.body = EditedWritable(rec, key[a], n)
      OBVIOUS
    <3>5. /\ sent.etag.uuid = rec.uuid
          /\ sent.etag.config = rec.config
          /\ sent.body.uuid = sent.etag.uuid
          /\ sent.body.cloudInitID = sent.etag.cloudInitID
          /\ sent.body.profiles = sent.etag.profiles
          /\ sent.body.config = [sent.etag.config EXCEPT ![key[a]] = n]
      BY <3>4 DEF Writable, EditedWritable
    <3>6. key[a] # Absent
      BY KeyAssumption
    <3>7. OwnKeyOnly(sent, key, nonce, target)
      BY <3>2, <3>4, <3>5, <3>6 DEF OwnKeyOnly
    <3> HIDE DEF sent
    <3>8. \A b \in Attempts : inflight'[b] # Absent =>
            /\ inflight'[b] \in Request
            /\ inflight'[b].by = b
            /\ OwnKeyOnly(inflight'[b], key, nonce, target)
      BY <1>t, <3>1, <3>3, <3>4, <3>7 DEF ChannelInv, RequestInv
    <3>9. \A q1 \in strays' : q1 \in Request /\ OwnKeyOnly(q1, key, nonce, target)
      BY <2>1 DEF ChannelInv, RequestInv, SafeTypes, TypeOK, IncusTypeOK
    <3>10. RequestInv'
      BY <3>8, <3>9, SettledKeeps DEF RequestInv
    <3>11. ConfigInv' /\ ExposedInv'
      BY <2>1, SettledKeeps DEF ChannelInv, ConfigInv, ExposedInv, Present
    <3> QED
      BY <3>10, <3>11 DEF ChannelInv
  <2> QED
    BY <2>2, <2>3
<1> QED
  BY <1>3, <1>4, <1>5, <1>6 DEF MutateStep

(* Clearing challenge keys, and changing anything else, keeps a record     *)
(* owned.                                                                  *)
LEMMA FewerKeysOwned ==
    ASSUME NEW old, NEW new, Owned(old, key, nonce, target),
           new.uuid = old.uuid,
           \A k \in Keys : new.config[k] \in {old.config[k], Absent}
    PROVE  Owned(new, key, nonce, target)
<1>1. \A k \in NonceKeysOf(new) : k \in NonceKeysOf(old) /\ new.config[k] = old.config[k]
  BY DEF NonceKeysOf
<1> QED
  BY <1>1 DEF Owned

(* What others do in Incus, late applications of requests included.        *)
LEMMA ForeignKeepsChannel ==
    ASSUME SafeTypes, Settled, ChannelInv, Foreign
    PROVE  ChannelInv'
<1>t. /\ instances \in [Slots -> Record \cup {Absent}]
      /\ strays \subseteq Request
      /\ inflight \in [Attempts -> Request \cup {Absent}]
      /\ inflight' = inflight
  BY DEF SafeTypes, TypeOK, IncusTypeOK, HostTypeOK, Foreign, hostVars
<1>r. ASSUME strays' \subseteq strays PROVE RequestInv'
  <2>1. \A q \in strays' : q \in Request /\ OwnKeyOnly(q, key, nonce, target)
    BY <1>t, <1>r DEF ChannelInv, RequestInv
  <2>2. \A b \in Attempts : inflight'[b] # Absent =>
          /\ inflight'[b] \in Request
          /\ inflight'[b].by = b
          /\ OwnKeyOnly(inflight'[b], key, nonce, target)
    BY <1>t DEF ChannelInv, RequestInv
  <2> QED
    BY <2>1, <2>2, SettledKeeps DEF RequestInv
<1>u. ASSUME NEW slot \in Slots, Present(slot)
      PROVE  instances[slot] \in Record /\ Owned(instances[slot], key, nonce, target)
  BY <1>t, <1>u DEF Present, ChannelInv, ConfigInv
<1>s. ASSUME NEW slot \in Slots, NEW rec \in Record, Store(slot, rec),
             Owned(rec, key, nonce, target), strays' \subseteq strays
      PROVE  ChannelInv'
  BY <1>r, <1>s, StoreOwned DEF ChannelInv
<1>1. CASE \E slot \in Slots, k \in UserKeys, v \in Values \cup {Absent} : OperatorEdit(slot, k, v)
  <2>1. PICK slot \in Slots, k \in UserKeys, v \in Values \cup {Absent} : OperatorEdit(slot, k, v)
    BY <1>1
  <2>2. PICK old \in Record : old = instances[slot] /\ Owned(old, key, nonce, target)
    BY <2>1, <1>u DEF OperatorEdit
  <2>3. PICK new : new = [old EXCEPT !.config[k] = v]
    OBVIOUS
  <2>4. new \in Record
    BY <2>3 DEF Record, Config, ConfigKeys
  <2>5. new.uuid = old.uuid /\ new.config = [old.config EXCEPT ![k] = v]
    BY <2>3 DEF Record
  <2>6. \A j \in Keys : new.config[j] = old.config[j]
    BY <2>5, KeyAssumption DEF Record, Config, ConfigKeys
  <2>7. Owned(new, key, nonce, target)
    BY <2>2, <2>5, <2>6, FewerKeysOwned
  <2>8. Store(slot, new) /\ strays' = strays
    BY <2>1, <2>2, <2>3 DEF OperatorEdit
  <2> QED
    BY <1>s, <2>4, <2>7, <2>8
<1>2. CASE \E slot \in Slots, k \in Keys : OperatorDropsKey(slot, k)
  <2>1. PICK slot \in Slots, k \in Keys : OperatorDropsKey(slot, k)
    BY <1>2
  <2>2. PICK old \in Record : old = instances[slot] /\ Owned(old, key, nonce, target)
    BY <2>1, <1>u DEF OperatorDropsKey
  <2>3. PICK new : new = [old EXCEPT !.config[k] = Absent]
    OBVIOUS
  <2>4. new \in Record
    BY <2>3 DEF Record, Config, ConfigKeys
  <2>5. new.uuid = old.uuid /\ new.config = [old.config EXCEPT ![k] = Absent]
    BY <2>3 DEF Record
  <2>6. \A j \in Keys : new.config[j] \in {old.config[j], Absent}
    BY <2>5 DEF Record, Config, ConfigKeys
  <2> QED
    BY <1>s, <2>1, <2>2, <2>3, <2>4, <2>5, <2>6, FewerKeysOwned DEF OperatorDropsKey
<1>3. CASE \E slot \in Slots, loc \in Locations : Migrate(slot, loc)
  <2>1. PICK slot \in Slots, loc \in Locations : Migrate(slot, loc)
    BY <1>3
  <2>2. PICK old \in Record : old = instances[slot] /\ Owned(old, key, nonce, target)
    BY <2>1, <1>u DEF Migrate
  <2>3. PICK new : new = [old EXCEPT !.location = loc]
    OBVIOUS
  <2>4. new \in Record /\ new.uuid = old.uuid /\ new.config = old.config
    BY <2>3 DEF Record
  <2> QED
    BY <1>s, <2>1, <2>2, <2>3, <2>4, FewerKeysOwned DEF Migrate
<1>4. CASE \E slot \in Slots : Delete(slot)
  <2>1. PICK slot \in Slots : Delete(slot)
    BY <1>4
  <2>2. /\ instances' = [instances EXCEPT ![slot] = Absent]
        /\ UNCHANGED <<strays, exposed>>
    BY <2>1 DEF Delete
  <2>3. ConfigInv' /\ ExposedInv'
    BY <1>t, <2>2, SettledKeeps DEF ChannelInv, ConfigInv, ExposedInv, Present
  <2> QED
    BY <1>r, <2>2, <2>3 DEF ChannelInv
<1>5. CASE \E slot \in Slots, rec \in InitialRecords : Create(slot, rec)
  <2>1. PICK slot \in Slots, rec \in InitialRecords : Create(slot, rec)
    BY <1>5
  <2>2. rec \in Record
    <3>1. PICK pop \in InitialInstances : \E p \in Slots : rec = pop[p] /\ rec # Absent
      BY <2>1 DEF InitialRecords
    <3> QED
      BY <3>1, PopulationAssumption
  <2>3. Owned(rec, key, nonce, target)
    BY <2>1 DEF Create, Owned
  <2> QED
    BY <1>s, <2>1, <2>2, <2>3 DEF Create
<1>6. CASE \E from, to \in Slots : Relocate(from, to)
  <2>1. PICK from \in Slots, to \in Slots : Relocate(from, to)
    BY <1>6
  <2>2. /\ Present(from) /\ ~Present(to)
        /\ instances' = [instances EXCEPT ![from] = Absent, ![to] = instances[from]]
        /\ UNCHANGED <<strays, exposed>>
    BY <2>1 DEF Relocate
  <2>3. from # to
    BY <2>2 DEF Present
  <2>4. \A s \in Slots : instances'[s] = IF s = to THEN instances[from]
                                         ELSE IF s = from THEN Absent ELSE instances[s]
    BY <1>t, <2>2, <2>3
  <2>5. ConfigInv' /\ ExposedInv'
    BY <2>2, <2>4, SettledKeeps DEF ChannelInv, ConfigInv, ExposedInv, Present
  <2> QED
    BY <1>r, <2>2, <2>5 DEF ChannelInv
<1>7. CASE \E q \in strays : StrayApplied(q)
  <2>1. PICK q \in strays : StrayApplied(q)
    BY <1>7
  <2>2. /\ q \in Request /\ OwnKeyOnly(q, key, nonce, target)
        /\ ETagMatches(q) /\ Store(q.slot, Rewritten(instances[q.slot], q.body))
        /\ strays' \subseteq strays
    BY <1>t, <2>1 DEF StrayApplied, ApplyRequest, ChannelInv, RequestInv
  <2>3. q.slot \in Slots /\ Rewritten(instances[q.slot], q.body) \in Record
    BY <2>2, AppliedRecord DEF SafeTypes, TypeOK
  <2>4. Owned(instances[q.slot], key, nonce, target)
    BY <1>u, <2>2, <2>3 DEF ETagMatches
  <2>5. Owned(Rewritten(instances[q.slot], q.body), key, nonce, target)
    BY <2>2, <2>4, AppliedOwned
  <2> QED
    BY <1>r, <2>2, <2>3, <2>5, StoreOwned DEF ChannelInv
<1> QED
  BY <1>1, <1>2, <1>3, <1>4, <1>5, <1>6, <1>7 DEF Foreign, ForeignStep

(* The whole step: configurations, exposures and requests stay owned.      *)
LEMMA NextChannel ==
    ASSUME SafeTypes, ChannelInv, [Next]_vars
    PROVE  ChannelInv'
<1>0. Settled
  BY NextSettles
<1>t. inflight \in [Attempts -> Request \cup {Absent}]
  BY DEF SafeTypes, TypeOK, HostTypeOK
<1>s. CASE UNCHANGED <<instances, exposed, strays, inflight>>
  BY <1>0, <1>s, ShiftKeeps
<1>1. ASSUME NEW a \in Attempts, NEW n, NEW err, GiveUp(a, n, err)
      PROVE  ChannelInv'
  <2>1. /\ instances' = instances /\ exposed' = exposed
        /\ strays' = strays \cup ({inflight[a]} \ {Absent})
        /\ inflight' = [inflight EXCEPT ![a] = Absent]
    BY <1>1 DEF GiveUp, Abandon
  <2> QED
    BY <1>0, <1>t, <2>1, ShiftKeeps
<1>2. ASSUME NEW a \in Attempts, SetNonceStep(a)
      PROVE  ChannelInv'
  <2>1. /\ target[a] \in Snapshot /\ key[a] \in Keys /\ nonce[a] \in Nonces \cup {Absent}
    BY <1>2 DEF SetNonceStep, At, SafeTypes, TypeOK, ServerTypeOK, ControlInv, Holding
  <2>2. MutateStep(a, target[a], key[a], nonce[a])
    BY <1>2 DEF SetNonceStep
  <2> QED
    BY <1>0, <2>1, <2>2, MutateKeepsChannel
<1>3. ASSUME NEW a \in Attempts, UnsetNonceStep(a)
      PROVE  ChannelInv'
  <2>1. target[a] \in Snapshot /\ key[a] \in Keys
    BY <1>3 DEF UnsetNonceStep, At, SafeTypes, TypeOK, ServerTypeOK, ControlInv, Holding
  <2>2. MutateStep(a, target[a], key[a], Absent)
    BY <1>3 DEF UnsetNonceStep
  <2> QED
    BY <1>0, <2>1, <2>2, MutateKeepsChannel
<1>4. ASSUME NEW a \in Attempts,
             \/ PayloadRejected(a) \/ Cancel(a)
             \/ \E p \in Payloads : PayloadReceived(a, p)
      PROVE  ChannelInv'
  BY <1>s, <1>4 DEF PayloadRejected, PayloadReceived, Cancel, incusVars, hostVars
<1>5. ASSUME NEW a \in Attempts, Handler(a)
      PROVE  ChannelInv'
  <2>1. CASE SetNonceGivesUp(a) \/ UnsetNonceGivesUp(a)
    BY <1>1, <2>1 DEF SetNonceGivesUp, UnsetNonceGivesUp
  <2>2. CASE ~(SetNonceGivesUp(a) \/ UnsetNonceGivesUp(a))
    BY <1>s, <1>5, <2>2 DEF Handler, Lookup, Resolve, LookupFails, ReadRandomPair, RandomFails,
        SetNonceReturns, SendChallenge, ReceiveResponse, ResponseFails, CleanupReturns,
        SendAttributes, incusVars, hostVars
  <2> QED
    BY <2>1, <2>2
<1>6. CASE Crash
  <2>1. /\ instances' = instances /\ exposed' = exposed
        /\ strays' \subseteq strays \cup ({inflight[a] : a \in Attempts} \ {Absent})
        /\ \A a \in Attempts : inflight'[a] \in {inflight[a], Absent}
    BY <1>6 DEF Crash
  <2> QED
    BY <1>0, <2>1, ShiftKeeps
<1>7. CASE Foreign
  BY <1>0, <1>7, ForeignKeepsChannel
<1>8. CASE UNCHANGED vars
  BY <1>s, <1>8 DEF vars, incusVars, hostVars
<1> QED
  BY <1>2, <1>3, <1>4, <1>5, <1>6, <1>7, <1>8 DEF Next

-----------------------------------------------------------------------------
(* The verdict.                                                            *)

(* A step that leaves the verdict variables of every attempt but a alone,  *)
(* sends no attributes and does not take a on towards a grant.             *)
LEMMA QuietVerdict ==
    ASSUME SafeTypes, Settled, VerdictInv, NEW a \in Attempts, pc[a] # "done",
           attrs' = attrs, responder' = responder,
           \A b \in Attempts : b # a => /\ pc'[b] = pc[b]
                                        /\ result'[b] = result[b]
                                        /\ target'[b] = target[b],
           pc'[a] # "attrs",
           pc'[a] = "unset" => result'[a] # "pending"
    PROVE  VerdictInv'
BY DEF VerdictInv

(* Nothing of the verdict changes.                                         *)
LEMMA SameVerdict ==
    ASSUME VerdictInv, UNCHANGED <<pc, result, attrs, responder, target>>
    PROVE  VerdictInv'
BY DEF VerdictInv

(* A guest that sends the attempt's nonce runs in the attempt's target.    *)
LEMMA OnlyTargetAnswers ==
    ASSUME SafeTypes, DistinctInv, ExposedInv, NEW a \in Attempts, At(a, "recv"),
           NEW vm \in UUIDs, NEW got \in Answers(vm), VerifyNonce(nonce[a], got)
    PROVE  vm = target[a].uuid
<1>1. key[a] # Absent /\ nonce[a] # Absent
  BY DEF At, SafeTypes, ControlInv, Holding
<1>2. PICK e \in exposed : e[1] = vm /\ e[2] = nonce[a]
  BY <1>1 DEF Answers, VerifyNonce
<1>3. PICK b \in Attempts : key[b] # Absent /\ e = <<target[b].uuid, nonce[b]>>
  BY DEF ExposedInv, OwnPair
<1>4. b = a
  BY <1>1, <1>2, <1>3 DEF DistinctInv
<1> QED
  BY <1>2, <1>3, <1>4

(* The whole step: only a nonce read in the target leads to attributes.    *)
LEMMA NextVerdict ==
    ASSUME SafeTypes, DistinctInv, ExposedInv, VerdictInv, [Next]_vars
    PROVE  VerdictInv'
<1>0. Settled
  BY NextSettles
<1>t. /\ pc \in [Attempts -> Active \cup {"idle", "done", "crashed"}]
      /\ result \in [Attempts -> ErrorClasses \cup {"pending", "ok"}]
      /\ responder \in [Attempts -> UUIDs \cup {Absent}]
      /\ target \in [Attempts -> Snapshot \cup {Absent}]
      /\ attrs \in [Attempts -> Attributes \cup {Absent}]
      /\ phase \in [Attempts -> Phases]
  BY DEF SafeTypes, TypeOK, HostTypeOK, ServerTypeOK
<1>1. ASSUME NEW a \in Attempts, Handler(a)
      PROVE  VerdictInv'
  <2>e. ASSUME NEW class, pc[a] # "done", ReturnError(a, class), attrs' = attrs,
               responder' = responder, \A b \in Attempts : b # a => target'[b] = target[b]
        PROVE  VerdictInv'
    <3>1. pc' = [pc EXCEPT ![a] = "done"] /\ result' = [result EXCEPT ![a] = class]
      BY <2>e DEF ReturnError, Conclude, Enter
    <3>2. pc'[a] = "done" /\ \A b \in Attempts : b # a => pc'[b] = pc[b] /\ result'[b] = result[b]
      BY <1>t, <3>1
    <3> QED
      BY <1>0, <2>e, <3>2, QuietVerdict
  <2>c. ASSUME NEW class, class # "pending", pc[a] # "done", ReturnAfterCleanup(a, class),
               UNCHANGED <<attrs, responder, target>>
        PROVE  VerdictInv'
    <3>1. pc' = [pc EXCEPT ![a] = "unset"] /\ result' = [result EXCEPT ![a] = class]
      BY <2>c DEF ReturnAfterCleanup, RunCleanup, Conclude, Enter
    <3>2. /\ pc'[a] = "unset" /\ result'[a] = class
          /\ \A b \in Attempts : b # a => pc'[b] = pc[b] /\ result'[b] = result[b]
      BY <1>t, <3>1
    <3> QED
      BY <1>0, <2>c, <3>2, QuietVerdict
  <2>m. ASSUME NEW stage, stage \notin {"attrs", "unset"}, pc[a] # "done", Enter(a, stage),
               UNCHANGED <<result, attrs, responder>>,
               \A b \in Attempts : b # a => target'[b] = target[b]
        PROVE  VerdictInv'
    <3>1. pc' = [pc EXCEPT ![a] = stage]
      BY <2>m DEF Enter
    <3>2. pc'[a] = stage /\ \A b \in Attempts : b # a => pc'[b] = pc[b] /\ result'[b] = result[b]
      BY <1>t, <2>m, <3>1
    <3> QED
      BY <1>0, <2>m, <3>2, QuietVerdict
  <2>1. CASE Lookup(a)
    BY <2>1, <2>e, SameVerdict DEF Lookup, At
  <2>2. CASE Resolve(a)
    <3>1. CASE ReturnError(a, "denied") /\ target' = target
      BY <2>2, <2>e, <3>1 DEF Resolve, At
    <3>2. CASE target' = [target EXCEPT ![a] = search[a].matched] /\ Enter(a, "draw")
               /\ result' = result
      <4>1. \A b \in Attempts : b # a => target'[b] = target[b]
        BY <1>t, <3>2
      <4> QED
        BY <2>2, <2>m, <3>2, <4>1 DEF Resolve, At
    <3> QED
      BY <2>2, <3>1, <3>2 DEF Resolve
  <2>3. CASE LookupFails(a) \/ RandomFails(a)
    BY <2>3, <2>e DEF LookupFails, RandomFails, At, localVars
  <2>4. CASE \E k \in Keys, n \in Nonces : ReadRandomPair(a, k, n)
    BY <2>4, <2>m DEF ReadRandomPair, At
  <2>5. CASE SetNonceGivesUp(a) \/ UnsetNonceGivesUp(a)
    BY <2>5, SameVerdict DEF SetNonceGivesUp, UnsetNonceGivesUp, localVars
  <2>6. CASE SetNonceReturns(a)
    BY <2>6, <2>m, <2>c DEF SetNonceReturns, Returned, ContextErrors, At, localVars
  <2>7. CASE SendChallenge(a)
    BY <2>7, <2>m, <2>c DEF SendChallenge, At, localVars
  <2>8. CASE ResponseFails(a)
    BY <2>8, <2>c DEF ResponseFails, ContextEnds, At, localVars
  <2>9. CASE \E vm \in UUIDs : \E got \in Answers(vm) : ReceiveResponse(a, vm, got)
    <3>1. PICK vm \in UUIDs : \E got \in Answers(vm) : ReceiveResponse(a, vm, got)
      BY <2>9
    <3>2. PICK got \in Answers(vm) : ReceiveResponse(a, vm, got)
      BY <3>1
    <3>3. At(a, "recv") /\ pc[a] = "recv" /\ UNCHANGED <<attrs, target>>
      BY <3>2 DEF ReceiveResponse, At
    <3>4. CASE ~VerifyNonce(nonce[a], got)
      BY <2>c, <3>2, <3>3, <3>4 DEF ReceiveResponse
    <3>5. CASE VerifyNonce(nonce[a], got)
      <4>1. vm = target[a].uuid
        BY <3>3, <3>5, OnlyTargetAnswers
      <4>2. /\ responder' = [responder EXCEPT ![a] = vm]
            /\ pc' = [pc EXCEPT ![a] = "unset"]
            /\ result' = result
        BY <3>2, <3>5 DEF ReceiveResponse, RunCleanup, Enter
      <4> QED
        BY <1>t, <3>3, <4>1, <4>2 DEF VerdictInv
    <3> QED
      BY <3>4, <3>5
  <2>10. CASE CleanupReturns(a)
    <3>1. /\ pc[a] = "unset"
          /\ result' = [result EXCEPT ![a] = AnnotateCleanup(result[a], phase[a])]
          /\ pc' = [pc EXCEPT ![a] = IF result'[a] = "pending" THEN "attrs" ELSE "done"]
          /\ UNCHANGED <<attrs, target, responder>>
          /\ phase[a] \in Returned
      BY <2>10 DEF CleanupReturns, At, Conclude, Enter, localVars
    <3>2. result'[a] = "pending" => result[a] = "pending"
      BY <1>t, <3>1 DEF AnnotateCleanup, Returned, ContextErrors
    <3> QED
      BY <1>t, <3>1, <3>2 DEF VerdictInv
  <2>11. CASE SendAttributes(a)
    <3>1. /\ pc[a] = "attrs"
          /\ pc' = [pc EXCEPT ![a] = "done"]
          /\ \A b \in Attempts : b # a => result'[b] = result[b]
          /\ UNCHANGED <<target, responder>>
          /\ attrs' \in {attrs, [attrs EXCEPT ![a] = BuildAttributes(target[a])]}
      BY <1>t, <2>11 DEF SendAttributes, At, Conclude, Enter
    <3>2. target[a] \in Snapshot /\ target[a] # Absent
      BY <1>t, <3>1 DEF SafeTypes, ControlInv, Holding
    <3>3. BuildAttributes(target[a]).agentID = target[a].uuid
      BY <3>2, AttributesType
    <3> QED
      BY <1>t, <3>1, <3>2, <3>3 DEF VerdictInv
  <2> QED
    BY <1>1, <2>1, <2>2, <2>3, <2>4, <2>5, <2>6, <2>7, <2>8, <2>9, <2>10, <2>11 DEF Handler
<1>2. ASSUME NEW a \in Attempts, PayloadRejected(a) \/ \E p \in Payloads : PayloadReceived(a, p)
      PROVE  VerdictInv'
  <2>1. /\ pc[a] = "idle"
        /\ \E stage \in {"done", "lookup"} : pc' = [pc EXCEPT ![a] = stage]
        /\ \E class : result' = [result EXCEPT ![a] = class] \/ result' = result
        /\ UNCHANGED <<attrs, responder, target>>
    BY <1>2 DEF PayloadRejected, PayloadReceived, ReturnError, Conclude, Enter, At, localVars
  <2>2. /\ pc'[a] \in {"done", "lookup"}
        /\ \A b \in Attempts : b # a => pc'[b] = pc[b] /\ result'[b] = result[b]
    BY <1>t, <2>1
  <2> QED
    BY <1>0, <2>1, <2>2, QuietVerdict
<1>3. ASSUME NEW a \in Attempts, SetNonceStep(a) \/ UnsetNonceStep(a) \/ Cancel(a)
      PROVE  VerdictInv'
  BY <1>3, SameVerdict DEF SetNonceStep, UnsetNonceStep, Cancel, localVars
<1>4. CASE Crash
  <2>1. /\ \A a \in Attempts : pc'[a] = pc[a] \/ (pc'[a] = "crashed" /\ pc[a] # "done")
        /\ UNCHANGED <<result, attrs, responder, target>>
    BY <1>4, <1>t DEF Crash, localVars, Active
  <2> QED
    BY <2>1 DEF VerdictInv
<1>5. CASE Foreign \/ UNCHANGED vars
  BY <1>5, SameVerdict DEF Foreign, vars, localVars
<1> QED
  BY <1>1, <1>2, <1>3, <1>4, <1>5 DEF Next

-----------------------------------------------------------------------------
(* The cleanup.                                                            *)

CleanupInv ==
    \A a \in Attempts :
        /\ pc[a] = "attrs" => cleanup[a] = "ok"
        /\ result[a] = "ok" => cleanup[a] = "ok" /\ pc[a] = "done"
        /\ pc[a] = "done" /\ key[a] # Absent => cleanup[a] \in {"ok", "err"}

(* A step that leaves the control of every attempt but a alone, and takes  *)
(* a to where CleanupInv asks nothing.                                     *)
LEMMA QuietCleanup ==
    ASSUME CleanupInv, NEW a \in Attempts,
           \A b \in Attempts : b # a => /\ pc'[b] = pc[b]
                                        /\ result'[b] = result[b]
                                        /\ cleanup'[b] = cleanup[b]
                                        /\ key'[b] = key[b],
           pc'[a] # "attrs",
           result'[a] # "ok",
           pc'[a] = "done" => key'[a] = Absent
    PROVE  CleanupInv'
BY DEF CleanupInv

(* The whole step: a return passes through the cleanup, if one was armed.  *)
LEMMA NextCleanup ==
    ASSUME SafeTypes, CleanupInv, [Next]_vars
    PROVE  CleanupInv'
<1>t. /\ pc \in [Attempts -> Active \cup {"idle", "done", "crashed"}]
      /\ result \in [Attempts -> ErrorClasses \cup {"pending", "ok"}]
      /\ cleanup \in [Attempts -> {"none", "armed", "ok", "err"}]
      /\ key \in [Attempts -> Keys \cup {Absent}]
      /\ phase \in [Attempts -> Phases]
  BY DEF SafeTypes, TypeOK, HostTypeOK, ServerTypeOK
<1>s. CASE UNCHANGED <<pc, result, cleanup, key>>
  BY <1>s DEF CleanupInv
<1>e. ASSUME NEW a \in Attempts, NEW class, class # "ok", pc[a] \in {"idle", "lookup", "draw"},
             ReturnError(a, class), key' = key
      PROVE  CleanupInv'
  <2>1. pc' = [pc EXCEPT ![a] = "done"] /\ result' = [result EXCEPT ![a] = class]
        /\ cleanup' = cleanup
    BY <1>e DEF ReturnError, Conclude, Enter
  <2>2. key[a] = Absent
    BY <1>e DEF SafeTypes, ControlInv
  <2> QED
    BY <1>t, <1>e, <2>1, <2>2, QuietCleanup
<1>c. ASSUME NEW a \in Attempts, NEW class, class # "ok", ReturnAfterCleanup(a, class), key' = key
      PROVE  CleanupInv'
  <2>1. pc' = [pc EXCEPT ![a] = "unset"] /\ result' = [result EXCEPT ![a] = class]
        /\ cleanup' = cleanup
    BY <1>c DEF ReturnAfterCleanup, RunCleanup, Conclude, Enter
  <2> QED
    BY <1>t, <1>c, <2>1, QuietCleanup
<1>m. ASSUME NEW a \in Attempts, NEW stage, stage \notin {"attrs", "done"}, pc[a] # "done",
             Enter(a, stage), result' = result,
             \A b \in Attempts : b # a => cleanup'[b] = cleanup[b] /\ key'[b] = key[b]
      PROVE  CleanupInv'
  <2>1. pc' = [pc EXCEPT ![a] = stage]
    BY <1>m DEF Enter
  <2>2. result[a] # "ok"
    BY <1>m DEF CleanupInv
  <2> QED
    BY <1>t, <1>m, <2>1, <2>2, QuietCleanup
<1>1. ASSUME NEW a \in Attempts, Handler(a)
      PROVE  CleanupInv'
  <2>1. CASE Lookup(a)
    BY <1>e, <1>s, <2>1 DEF Lookup, At
  <2>2. CASE Resolve(a)
    BY <1>e, <1>m, <2>2 DEF Resolve, At
  <2>3. CASE LookupFails(a) \/ RandomFails(a)
    BY <1>e, <2>3 DEF LookupFails, RandomFails, ContextEnds, At, localVars
  <2>4. CASE \E k \in Keys, n \in Nonces : ReadRandomPair(a, k, n)
    <3>1. /\ pc[a] = "draw" /\ Enter(a, "set") /\ result' = result
          /\ \A b \in Attempts : b # a => cleanup'[b] = cleanup[b] /\ key'[b] = key[b]
      BY <1>t, <2>4 DEF ReadRandomPair, At
    <3> QED
      BY <1>m, <3>1
  <2>5. CASE SetNonceGivesUp(a) \/ UnsetNonceGivesUp(a)
    BY <1>s, <2>5 DEF SetNonceGivesUp, UnsetNonceGivesUp, localVars
  <2>6. CASE SetNonceReturns(a)
    BY <1>m, <1>c, <2>6 DEF SetNonceReturns, At, localVars
  <2>7. CASE SendChallenge(a)
    BY <1>m, <1>c, <2>7 DEF SendChallenge, At, localVars
  <2>8. CASE ResponseFails(a)
    BY <1>c, <2>8 DEF ResponseFails, ContextEnds, At, localVars
  <2>9. CASE \E vm \in UUIDs : \E got \in Answers(vm) : ReceiveResponse(a, vm, got)
    BY <1>m, <1>c, <2>9 DEF ReceiveResponse, RunCleanup, At
  <2>10. CASE CleanupReturns(a)
    <3>1. /\ pc[a] = "unset"
          /\ cleanup' = [cleanup EXCEPT ![a] = IF phase[a] = "ok" THEN "ok" ELSE "err"]
          /\ result' = [result EXCEPT ![a] = AnnotateCleanup(result[a], phase[a])]
          /\ pc' = [pc EXCEPT ![a] = IF result'[a] = "pending" THEN "attrs" ELSE "done"]
          /\ key' = key
          /\ phase[a] \in Returned
      BY <2>10 DEF CleanupReturns, At, Conclude, Enter, localVars
    <3>2. result[a] # "ok"
      BY <3>1 DEF CleanupInv
    <3>3. result'[a] # "ok" /\ (result'[a] = "pending" => phase[a] = "ok")
      BY <1>t, <3>1, <3>2 DEF AnnotateCleanup, Returned, ContextErrors
    <3> QED
      BY <1>t, <3>1, <3>2, <3>3 DEF CleanupInv
  <2>11. CASE SendAttributes(a)
    <3>1. /\ pc[a] = "attrs"
          /\ pc' = [pc EXCEPT ![a] = "done"]
          /\ \A b \in Attempts : b # a => result'[b] = result[b]
          /\ UNCHANGED <<key, cleanup>>
      BY <1>t, <2>11 DEF SendAttributes, At, Conclude, Enter
    <3> QED
      BY <1>t, <3>1 DEF CleanupInv
  <2> QED
    BY <1>1, <2>1, <2>2, <2>3, <2>4, <2>5, <2>6, <2>7, <2>8, <2>9, <2>10, <2>11 DEF Handler
<1>2. ASSUME NEW a \in Attempts, PayloadRejected(a)
      PROVE  CleanupInv'
  BY <1>e, <1>2 DEF PayloadRejected, At, localVars
<1>3. ASSUME NEW a \in Attempts, NEW p \in Payloads, PayloadReceived(a, p)
      PROVE  CleanupInv'
  BY <1>e, <1>m, <1>3 DEF PayloadReceived, At
<1>4. ASSUME NEW a \in Attempts, SetNonceStep(a) \/ UnsetNonceStep(a) \/ Cancel(a)
      PROVE  CleanupInv'
  BY <1>4, <1>s DEF SetNonceStep, UnsetNonceStep, Cancel, localVars
<1>5. CASE Crash
  <2>1. /\ \A a \in Attempts : pc'[a] = pc[a] \/ (pc'[a] = "crashed" /\ pc[a] # "done")
        /\ UNCHANGED <<result, cleanup, key>>
    BY <1>5, <1>t DEF Crash, localVars, Active
  <2> QED
    BY <2>1 DEF CleanupInv
<1>6. CASE Foreign \/ UNCHANGED vars
  BY <1>6, <1>s DEF Foreign, vars, localVars
<1> QED
  BY <1>1, <1>2, <1>3, <1>4, <1>5, <1>6 DEF Next

-----------------------------------------------------------------------------
(* The theorems.                                                           *)

(* The initial state satisfies every part.                                 *)
LEMMA InitNonce == Init => NonceInv /\ CleanupInv
<1> SUFFICES ASSUME Init PROVE NonceInv /\ CleanupInv
  OBVIOUS
<1>1. DistinctInv /\ ExposedInv /\ RequestInv
  BY DEF Init, IncusInit, HostInit, DistinctInv, ExposedInv, RequestInv
<1>2. ConfigInv
  BY PopulationAssumption DEF Init, IncusInit, ConfigInv, Owned, Present
<1>3. VerdictInv /\ CleanupInv
  BY DEF Init, VerdictInv, CleanupInv
<1> QED
  BY <1>1, <1>2, <1>3 DEF NonceInv

(* The inductive invariant behind the theorems: types, key ownership,      *)
(* verdicts and cleanups together.                                         *)
THEOREM Invariance == Spec => [](SafeTypes /\ NonceInv /\ CleanupInv)
<1>1. Init => SafeTypes /\ NonceInv /\ CleanupInv
  BY InitSafeTypes, InitNonce
<1>2. SafeTypes /\ NonceInv /\ CleanupInv /\ [Next]_vars => (SafeTypes /\ NonceInv /\ CleanupInv)'
  <2> SUFFICES ASSUME SafeTypes, NonceInv, CleanupInv, [Next]_vars
               PROVE  SafeTypes' /\ NonceInv' /\ CleanupInv'
    OBVIOUS
  <2>1. SafeTypes'
    BY NextSafeTypes
  <2>2. DistinctInv' /\ VerdictInv'
    BY NextDistinct, NextVerdict DEF NonceInv
  <2>3. ChannelInv'
    BY NextChannel DEF NonceInv, ChannelInv
  <2>4. CleanupInv'
    BY NextCleanup
  <2> QED
    BY <2>1, <2>2, <2>3, <2>4 DEF NonceInv, ChannelInv
<1> QED
  BY <1>1, <1>2, PTL DEF Spec

(* However many attempts share the host client, whoever edits, deletes,    *)
(* recreates or renames VMs, and whenever a lost update lands: a nonce was *)
(* only ever readable in the VM its own attempt resolved.                  *)
THEOREM NonceConfined == Spec => []NonceReachesOnlyTarget
<1>1. SafeTypes /\ NonceInv => NonceReachesOnlyTarget
  <2> SUFFICES ASSUME SafeTypes, NonceInv, NEW a \in Attempts, NEW e \in exposed, e[2] = nonce[a]
               PROVE  target[a] # Absent /\ e[1] = target[a].uuid
    BY DEF NonceReachesOnlyTarget
  <2>1. PICK b \in Attempts : key[b] # Absent /\ e = <<target[b].uuid, nonce[b]>>
    BY DEF NonceInv, ExposedInv, OwnPair
  <2>2. b = a
    BY <2>1 DEF NonceInv, DistinctInv
  <2>3. target[a] # Absent
    BY <2>1, <2>2 DEF SafeTypes, ControlInv
  <2> QED
    BY <2>1, <2>2, <2>3
<1> QED
  BY <1>1, Invariance, PTL

(* A granted identity is the resolved VM's, and a guest of that VM sent    *)
(* the nonce: Attest vouches for residency, for every set of peers.        *)
THEOREM ResidencyHolds == Spec => []Residency
<1>1. NonceInv => Residency
  BY DEF NonceInv, VerdictInv, Residency
<1> QED
  BY <1>1, Invariance, PTL

-----------------------------------------------------------------------------
(* Key-only updates.                                                       *)

(* Records are equal when their fields are.                                *)
LEMMA SameFields ==
    ASSUME NEW r \in Record, NEW s \in Record,
           r.type = s.type, r.uuid = s.uuid, r.location = s.location,
           r.cloudInitID = s.cloudInitID, r.profiles = s.profiles, r.config = s.config
    PROVE  r = s
<1>1. ASSUME NEW x \in Record
      PROVE  x = [type |-> x.type, uuid |-> x.uuid, location |-> x.location,
                  cloudInitID |-> x.cloudInitID, profiles |-> x.profiles, config |-> x.config]
  BY DEF Record
<1> QED
  BY <1>1

(* A record that differs from old in one challenge key only.               *)
KeyOnlyChange(old, new) == \E k \in Keys : new = [old EXCEPT !.config[k] = new.config[k]]

(* Equal records but for key k of the configuration.                       *)
LEMMA OneKeyChange ==
    ASSUME NEW old \in Record, NEW new \in Record, NEW k \in Keys, NEW v,
           new.type = old.type, new.uuid = old.uuid, new.location = old.location,
           new.cloudInitID = old.cloudInitID, new.profiles = old.profiles,
           new.config = [old.config EXCEPT ![k] = v]
    PROVE  KeyOnlyChange(old, new)
<1>1. k \in ConfigKeys /\ old.config \in Config /\ new.config \in Config
  BY DEF ConfigKeys, Record
<1>2. new.config[k] = v /\ new.config[k] \in Values \cup Nonces \cup {Absent}
  BY <1>1 DEF Config
<1>3. PICK alt : alt = [old EXCEPT !.config[k] = new.config[k]]
  OBVIOUS
<1>4. alt \in Record
  BY <1>1, <1>2, <1>3 DEF Record, Config
<1>5. /\ alt.type = old.type /\ alt.uuid = old.uuid /\ alt.location = old.location
      /\ alt.cloudInitID = old.cloudInitID /\ alt.profiles = old.profiles
      /\ alt.config = [old.config EXCEPT ![k] = v]
  BY <1>2, <1>3 DEF Record
<1>6. alt = new
  BY <1>4, <1>5, SameFields
<1> QED
  BY <1>3, <1>6 DEF KeyOnlyChange

(* Applying a handler's request changes one challenge key.                 *)
LEMMA AppliedKeyOnly ==
    ASSUME SafeTypes, NEW q \in Request, ETagMatches(q), OwnKeyOnly(q, key, nonce, target)
    PROVE  KeyOnlyChange(instances[q.slot], Rewritten(instances[q.slot], q.body))
<1> DEFINE old == instances[q.slot]
           new == Rewritten(old, q.body)
<1>1. old \in Record /\ new \in Record /\ q.by \in Attempts
  BY AppliedRecord DEF SafeTypes, TypeOK, Request
<1>2. /\ old.uuid = q.etag.uuid /\ old.config = q.etag.config
      /\ old.cloudInitID = q.etag.cloudInitID /\ old.profiles = q.etag.profiles
  BY DEF ETagMatches, Writable
<1>3. /\ new.uuid = q.body.uuid /\ new.config = q.body.config
      /\ new.cloudInitID = q.body.cloudInitID /\ new.profiles = q.body.profiles
      /\ new.type = old.type /\ new.location = old.location
  BY <1>1 DEF Rewritten, Record
<1>4. PICK n : new.config = [old.config EXCEPT ![key[q.by]] = n]
  BY <1>2, <1>3 DEF OwnKeyOnly
<1>5. key[q.by] \in Keys
  BY <1>1 DEF OwnKeyOnly, SafeTypes, TypeOK, ServerTypeOK
<1>6. new.uuid = old.uuid /\ new.cloudInitID = old.cloudInitID /\ new.profiles = old.profiles
  BY <1>2, <1>3 DEF OwnKeyOnly
<1> QED
  BY <1>1, <1>3, <1>4, <1>5, <1>6, OneKeyChange

(* What one step does to the record of a slot that stays occupied: nothing *)
(* at all, no change of a challenge key, or a change of exactly one.       *)
LEMMA NextKeyOnly ==
    ASSUME SafeTypes, ChannelInv, [Next]_vars, NEW slot \in Slots,
           instances[slot] # Absent, instances'[slot] # Absent,
           \E k \in Keys : instances[slot].config[k] # instances'[slot].config[k]
    PROVE  KeyOnlyChange(instances[slot], instances'[slot])
<1>t. /\ instances \in [Slots -> Record \cup {Absent}]
      /\ strays \subseteq Request
      /\ inflight \in [Attempts -> Request \cup {Absent}]
  BY DEF SafeTypes, TypeOK, IncusTypeOK, HostTypeOK
<1>u. CASE instances' = instances
  BY <1>u
<1>a. ASSUME NEW q \in Request, ETagMatches(q), ApplyRequest(q),
             OwnKeyOnly(q, key, nonce, target)
      PROVE  KeyOnlyChange(instances[slot], instances'[slot])
  <2>1. q.slot \in Slots
    BY DEF Request
  <2>2. instances' = [instances EXCEPT ![q.slot] = Rewritten(instances[q.slot], q.body)]
    BY <1>a DEF ApplyRequest, Store
  <2>3. slot = q.slot
    BY <1>t, <2>1, <2>2
  <2>4. instances'[slot] = Rewritten(instances[q.slot], q.body)
    BY <1>t, <2>1, <2>2, <2>3
  <2> QED
    BY <1>a, <2>3, <2>4, AppliedKeyOnly
<1>1. CASE \E a \in Attempts : UpdateApplied(a)
  <2>1. PICK a \in Attempts : UpdateApplied(a)
    BY <1>1
  <2>2. inflight[a] \in Request /\ inflight[a] # Absent
    BY <2>1 DEF UpdateApplied, SafeTypes, TypeOK, HostTypeOK
  <2>3. OwnKeyOnly(inflight[a], key, nonce, target)
    BY <2>2 DEF ChannelInv, RequestInv
  <2> QED
    BY <1>a, <2>1, <2>2, <2>3 DEF UpdateApplied
<1>2. CASE Foreign
  <2>w. ASSUME NEW s \in Slots, NEW rec, Store(s, rec)
        PROVE  s = slot /\ rec = instances'[slot]
    BY <1>t, <2>w DEF Store
  <2>1. ASSUME NEW s \in Slots, NEW k \in UserKeys, NEW v, OperatorEdit(s, k, v)
        PROVE  FALSE
    <3>1. s = slot /\ instances'[slot] = [instances[slot] EXCEPT !.config[k] = v]
      BY <2>1, <2>w DEF OperatorEdit
    <3>2. instances[slot] \in Record
      BY <1>t
    <3>3. instances'[slot].config = [instances[slot].config EXCEPT ![k] = v]
      BY <3>1, <3>2 DEF Record
    <3>4. \A j \in Keys : instances'[slot].config[j] = instances[slot].config[j]
      BY <3>2, <3>3, KeyAssumption DEF Record, Config, ConfigKeys
    <3> QED
      BY <3>4
  <2>2. ASSUME NEW s \in Slots, NEW k \in Keys, OperatorDropsKey(s, k)
        PROVE  KeyOnlyChange(instances[slot], instances'[slot])
    <3>1. s = slot /\ instances'[slot] = [instances[slot] EXCEPT !.config[k] = Absent]
      BY <2>2, <2>w DEF OperatorDropsKey
    <3>2. PICK old \in Record : old = instances[slot]
      BY <1>t
    <3>3. PICK new : new = [old EXCEPT !.config[k] = Absent] /\ new = instances'[slot]
      BY <3>1, <3>2
    <3>0. [old.config EXCEPT ![k] = Absent] \in Config
      BY DEF Record, Config, ConfigKeys
    <3>4. new \in Record
      BY <3>0, <3>3 DEF Record
    <3>5. /\ new.type = old.type /\ new.uuid = old.uuid /\ new.location = old.location
          /\ new.cloudInitID = old.cloudInitID /\ new.profiles = old.profiles
          /\ new.config = [old.config EXCEPT ![k] = Absent]
      BY <3>3 DEF Record
    <3>6. KeyOnlyChange(old, new)
      BY <3>4, <3>5, OneKeyChange
    <3> QED
      BY <3>2, <3>3, <3>6
  <2>3. ASSUME NEW s \in Slots, NEW loc, Migrate(s, loc)
        PROVE  FALSE
    <3>1. s = slot /\ instances'[slot] = [instances[slot] EXCEPT !.location = loc]
      BY <2>3, <2>w DEF Migrate
    <3>2. instances[slot] \in Record
      BY <1>t
    <3> QED
      BY <3>1, <3>2 DEF Record
  <2>4. ASSUME NEW s \in Slots, Delete(s)
        PROVE  FALSE
    BY <1>t, <2>4 DEF Delete
  <2>5. ASSUME NEW s \in Slots, NEW rec, Create(s, rec)
        PROVE  FALSE
    BY <2>5, <2>w DEF Create, Present
  <2>6. ASSUME NEW from \in Slots, NEW to \in Slots, Relocate(from, to)
        PROVE  FALSE
    BY <1>t, <2>6 DEF Relocate, Present
  <2>7. ASSUME NEW q \in strays, StrayApplied(q)
        PROVE  KeyOnlyChange(instances[slot], instances'[slot])
    BY <1>a, <1>t, <2>7 DEF StrayApplied, ChannelInv, RequestInv
  <2> QED
    BY <1>2, <2>1, <2>2, <2>3, <2>4, <2>5, <2>6, <2>7 DEF Foreign, ForeignStep
<1>3. ASSUME NEW a \in Attempts, SetNonceStep(a) \/ UnsetNonceStep(a)
      PROVE  instances' = instances \/ UpdateApplied(a)
  BY <1>3 DEF SetNonceStep, UnsetNonceStep, MutateStep, MutateOnce, FetchRefused, UpdateRetried,
      UpdateRefused, UpdateLost, WaitSucceeds, WaitFails, incusVars
<1>4. ASSUME NEW a \in Attempts, Handler(a)
      PROVE  instances' = instances
  BY <1>4 DEF Handler, Lookup, Resolve, LookupFails, ReadRandomPair, RandomFails, GiveUp,
      SetNonceGivesUp, SetNonceReturns, SendChallenge, ReceiveResponse, ResponseFails,
      UnsetNonceGivesUp, CleanupReturns, SendAttributes, incusVars
<1>5. ASSUME NEW a \in Attempts,
             \/ PayloadRejected(a) \/ Cancel(a)
             \/ \E p \in Payloads : PayloadReceived(a, p)
      PROVE  instances' = instances
  BY <1>5 DEF PayloadRejected, PayloadReceived, Cancel, incusVars
<1>6. ASSUME Crash \/ UNCHANGED vars
      PROVE  instances' = instances
  BY <1>6 DEF Crash, vars, incusVars
<1> QED
  BY <1>u, <1>1, <1>2, <1>3, <1>4, <1>5, <1>6 DEF Next

(* Whatever the interleaving of attempts, operators and late updates, the  *)
(* read-modify-write of mutateOnce changes one challenge key of a VM and   *)
(* undoes nobody else's change.                                            *)
THEOREM UpdatesTouchOneKey == Spec => KeyOnlyUpdates
<1>1. SafeTypes /\ NonceInv /\ [Next]_vars =>
        [\A slot \in Slots :
           LET old == instances[slot]
               new == instances'[slot] IN
           (/\ old # Absent
            /\ new # Absent
            /\ NewInstanceUUID(old.uuid) = NewInstanceUUID(new.uuid)
            /\ \E k \in Keys : old.config[k] # new.config[k])
           => \E k \in Keys : new = [old EXCEPT !.config[k] = new.config[k]]]_vars
  BY NextKeyOnly DEF NonceInv, ChannelInv, KeyOnlyChange
<1> QED
  BY <1>1, Invariance, PTL DEF Spec, KeyOnlyUpdates
=============================================================================
