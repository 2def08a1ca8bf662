------------------------------ MODULE IncusAPI ------------------------------
(***************************************************************************)
(* The Incus server as the host client uses it: instance records at        *)
(* (project, name), a conditional full update under an ETag, and everybody *)
(* else who changes instances while attestations run.  Incus is not part   *)
(* of this repository; its behaviour here is what mutation.go relies on.   *)
(*                                                                         *)
(* The ETag is a digest of an instance's writable content.  It covers      *)
(* volatile.uuid, which is configuration, and not the location.  Being a   *)
(* digest of content, it repeats when the content does.                    *)
(***************************************************************************)
EXTENDS AttestDomain

CONSTANTS
    Attempts,           \* concurrent Attest handlers
    InitialInstances,   \* the populations a behaviour may start from
    Disturbances,       \* which kinds of foreign activity happen
    MaxStrays           \* bound: broken connections leave at most so many strays

VARIABLES
    instances,  \* slot -> record or Absent
    strays,     \* requests no handler waits for and Incus may yet apply
    exposed,    \* history: <<uuid, nonce>> that VM's configuration has held
    moved       \* history: VMs renamed or moved to another project

incusVars == <<instances, strays, exposed, moved>>

DisturbanceKinds ==
    {"edit", "drop", "migrate", "delete", "create", "relocate", "cancel", "crash"}

(* InstancePut: what a client reads, edits and writes back.                *)
Writable(rec) == [uuid |-> rec.uuid, cloudInitID |-> rec.cloudInitID,
                  profiles |-> rec.profiles, config |-> rec.config]

Writables == [uuid : RawUUIDs, cloudInitID : CloudInitIDs \cup {""},
              profiles : SUBSET Profiles, config : Config]

(* A PUT under If-Match; by is the handler that sent it.                   *)
Request == [by : Attempts, slot : Slots, etag : Writables, body : Writables]

NonceKeysOf(rec) == {k \in Keys : rec.config[k] # Absent}

(* What the guest of rec can read over its own socket.                     *)
Reveals(rec) == {<<NewInstanceUUID(rec.uuid), rec.config[k]>> : k \in NonceKeysOf(rec)}

ASSUME PopulationAssumption ==
    /\ \A pop \in InitialInstances :
        /\ pop \in [Slots -> Record \cup {Absent}]
        /\ \A s \in Slots : pop[s] # Absent => NonceKeysOf(pop[s]) = {}
    /\ Disturbances \subseteq DisturbanceKinds
    /\ MaxStrays \in Nat
    /\ Absent \notin Request

IncusTypeOK ==
    /\ instances \in [Slots -> Record \cup {Absent}]
    /\ strays \subseteq Request
    /\ exposed \subseteq ((UUIDs \cup {""}) \X (Values \cup Nonces))
    /\ moved \subseteq UUIDs \cup {""}

IncusInit ==
    /\ instances \in InitialInstances
    /\ strays = {}
    /\ exposed = {}
    /\ moved = {}

-----------------------------------------------------------------------------
(* Storing a record makes its nonce keys readable in that VM.              *)
Store(slot, rec) ==
    /\ instances' = [instances EXCEPT ![slot] = rec]
    /\ exposed' = exposed \cup Reveals(rec)

Present(slot) == instances[slot] # Absent

(* Incus accepts request q: the ETag still names the stored content.       *)
ETagMatches(q) ==
    /\ Present(q.slot)
    /\ Writable(instances[q.slot]) = q.etag

(* The instance with its writable content replaced by w.                   *)
Rewritten(rec, w) == [rec EXCEPT !.uuid = w.uuid, !.cloudInitID = w.cloudInitID,
                                 !.profiles = w.profiles, !.config = w.config]

ApplyRequest(q) == Store(q.slot, Rewritten(instances[q.slot], q.body))

(* A stray stands for one or more identical copies: it may remain.         *)
StrayApplied(q) ==
    /\ q \in strays
    /\ ETagMatches(q)
    /\ ApplyRequest(q)
    /\ strays' \in {strays, strays \ {q}}
    /\ UNCHANGED moved

-----------------------------------------------------------------------------
(* Foreign activity.                                                       *)

(* An operator sets or clears an ordinary key.                             *)
OperatorEdit(slot, k, v) ==
    /\ "edit" \in Disturbances
    /\ Present(slot)
    /\ instances[slot].config[k] # v
    /\ Store(slot, [instances[slot] EXCEPT !.config[k] = v])
    /\ UNCHANGED <<strays, moved>>

(* An operator removes a nonce key, residual or not.                       *)
OperatorDropsKey(slot, k) ==
    /\ "drop" \in Disturbances
    /\ Present(slot)
    /\ k \in NonceKeysOf(instances[slot])
    /\ Store(slot, [instances[slot] EXCEPT !.config[k] = Absent])
    /\ UNCHANGED <<strays, moved>>

(* The VM moves to another cluster member; its writable content stays.     *)
Migrate(slot, loc) ==
    /\ "migrate" \in Disturbances
    /\ Present(slot)
    /\ instances[slot].location # loc
    /\ Store(slot, [instances[slot] EXCEPT !.location = loc])
    /\ UNCHANGED <<strays, moved>>

Delete(slot) ==
    /\ "delete" \in Disturbances
    /\ Present(slot)
    /\ instances' = [instances EXCEPT ![slot] = Absent]
    /\ UNCHANGED <<strays, exposed, moved>>

UUIDInUse(u) ==
    \E s \in Slots : Present(s) /\ NewInstanceUUID(instances[s].uuid) = u

(* Somebody creates an instance, or restores a deleted one: no challenge   *)
(* keys, and a UUID that no present instance has.                          *)
Create(slot, rec) ==
    /\ "create" \in Disturbances
    /\ ~Present(slot)
    /\ NonceKeysOf(rec) = {}
    /\ ~UUIDInUse(NewInstanceUUID(rec.uuid))
    /\ Store(slot, rec)
    /\ UNCHANGED <<strays, moved>>

(* A rename or a project move keeps the UUID and the configuration.        *)
Relocate(from, to) ==
    /\ "relocate" \in Disturbances
    /\ Present(from)
    /\ ~Present(to)
    /\ instances' = [instances EXCEPT ![from] = Absent, ![to] = instances[from]]
    /\ moved' = moved \cup {NewInstanceUUID(instances[from].uuid)}
    /\ UNCHANGED <<strays, exposed>>

(* The records Create may introduce: one of the initial populations'.      *)
InitialRecords == {pop[s] : pop \in InitialInstances, s \in Slots} \ {Absent}

ForeignStep ==
    \/ \E slot \in Slots, k \in UserKeys, v \in Values \cup {Absent} :
          OperatorEdit(slot, k, v)
    \/ \E slot \in Slots, k \in Keys : OperatorDropsKey(slot, k)
    \/ \E slot \in Slots, loc \in Locations : Migrate(slot, loc)
    \/ \E slot \in Slots : Delete(slot)
    \/ \E slot \in Slots, rec \in InitialRecords : Create(slot, rec)
    \/ \E from, to \in Slots : Relocate(from, to)
    \/ \E q \in strays : StrayApplied(q)
=============================================================================
