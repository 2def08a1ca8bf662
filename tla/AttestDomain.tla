---------------------------- MODULE AttestDomain ----------------------------
(***************************************************************************)
(* The vocabulary of the attestor: guest payloads and claims, the instance *)
(* records Incus keeps, the snapshot the server takes of one, and the pure *)
(* decisions made on them (internal/attest, internal/wire/payload.go and   *)
(* internal/incus/host/map.go).  Names, UUIDs, nonces and values are       *)
(* opaque; "" is the empty string field of the Go types.                   *)
(***************************************************************************)
EXTENDS Integers, Sequences, FiniteSets, FiniteSetsExt

CONSTANTS
    Projects,           \* Incus project names
    Names,              \* instance names
    RawUUIDs,           \* UUID spellings a record or a guest may hold
    Canonical,          \* spelling -> canonical lowercase UUID, "" if malformed
    Locations,          \* cluster members
    CloudInitIDs,       \* cloud-init instance ids
    Profiles,           \* profile names
    UserKeys,           \* operator-owned configuration keys
    Values,             \* values of the operator-owned keys
    FromProfiles,       \* set of profiles -> the user keys it contributes
    Keys,               \* keys under user.spire.attestor.nonce.
    Nonces,             \* the 16-byte challenge secrets
    Absent,             \* no value, no instance
    AllowList,          \* the configured projects, in order
    UserSelectors,      \* the configured user selector keys
    StandaloneLocation, \* cached server name; "" when Incus is clustered
    MaxSelectors,       \* maxSelectors
    MaxSelectorBytes,   \* maxSelectorValueBytes
    SelectorLen(_)      \* selector -> bytes of its value

InstanceTypeVirtualMachine == "virtual-machine"

Types == {InstanceTypeVirtualMachine, "container"}

UUIDs == {Canonical[r] : r \in RawUUIDs} \ {""}

ConfigKeys == UserKeys \cup Keys

Config == [ConfigKeys -> Values \cup Nonces \cup {Absent}]

Slots == Projects \X Names

(* An instance as Incus stores it: config is the local configuration.      *)
Record == [type        : Types,
           uuid        : RawUUIDs,
           location    : Locations \cup {"", "none"},
           cloudInitID : CloudInitIDs \cup {""},
           profiles    : SUBSET Profiles,
           config      : Config]

(* attest.Instance: the detached copy of a record that an attempt keeps.   *)
Snapshot == [project     : Projects,
             name        : Names,
             uuid        : UUIDs,
             type        : Types,
             location    : Locations \cup {StandaloneLocation},
             cloudInitID : CloudInitIDs \cup {""},
             profiles    : SUBSET Profiles,
             config      : Config]

(* The data object of a guest-claims message.  project = Absent is a       *)
(* message without the member.                                             *)
Payload == [project     : Projects \cup {"", Absent},
            name        : Names \cup {""},
            uuid        : RawUUIDs \cup {""},
            type        : Types \cup {""},
            location    : Locations \cup {""},
            cloudInitID : CloudInitIDs \cup {""}]

(* attest.Claims.                                                          *)
Claims == [project     : Projects \cup {""},
           name        : Names \cup {""},
           uuid        : RawUUIDs \cup {""},
           type        : Types \cup {""},
           location    : Locations \cup {""},
           cloudInitID : CloudInitIDs \cup {""}]

ASSUME UUIDAssumption ==
    /\ Canonical \in [RawUUIDs -> RawUUIDs \cup {""}]
    /\ \A u \in UUIDs : u \in RawUUIDs /\ Canonical[u] = u
    /\ "" \notin RawUUIDs
    /\ Absent \notin UUIDs

ASSUME KeyAssumption ==
    /\ UserKeys \cap Keys = {}
    /\ Absent \notin Values \cup Nonces
    /\ Absent \notin Record
    /\ Absent \notin Snapshot
    /\ Absent \notin Claims
    /\ Absent \notin Keys

ASSUME ConfigurationAssumption ==
    /\ AllowList \in Seq(Projects) /\ AllowList # <<>>
    /\ "" \notin Projects
    /\ UserSelectors \subseteq ConfigKeys
    /\ FromProfiles \in [SUBSET Profiles -> [UserKeys -> Values \cup {Absent}]]
    /\ MaxSelectors \in Nat /\ MaxSelectorBytes \in Nat

-----------------------------------------------------------------------------
(* Decoding and validating what a guest says.                              *)

(* Mutant: the parsed UUID is stored in the spelling it came in.           *)
UncanonicalUUID(raw) ==
    IF raw \in RawUUIDs /\ Canonical[raw] # "" THEN raw ELSE ""

NewInstanceUUID(raw) == IF raw \in RawUUIDs THEN Canonical[raw] ELSE ""

(* wire.DecodePayload accepts p: every member but project is present and   *)
(* non-empty, and the UUID parses.                                         *)
DecodablePayload(p) ==
    /\ p.name # "" /\ p.type # "" /\ p.location # "" /\ p.cloudInitID # ""
    /\ NewInstanceUUID(p.uuid) # ""
    /\ p.project # ""

DecodePayload(p) ==
    [p EXCEPT !.uuid = NewInstanceUUID(p.uuid),
              !.project = IF p.project = Absent THEN "" ELSE p.project]

RequireVirtualMachine(t) == t = InstanceTypeVirtualMachine

ValidateClaims(c) ==
    /\ c.name # "" /\ c.location # "" /\ c.cloudInitID # ""
    /\ RequireVirtualMachine(c.type)
    /\ NewInstanceUUID(c.uuid) # ""

ValidateInstance(i) ==
    /\ i.project # "" /\ i.name # "" /\ i.location # "" /\ i.cloudInitID # ""
    /\ RequireVirtualMachine(i.type)
    /\ NewInstanceUUID(i.uuid) # ""

MatchClaims(c, i) ==
    /\ ValidateClaims(c)
    /\ ValidateInstance(i)
    /\ c.project \in {"", i.project}
    /\ c.name = i.name
    /\ c.type = i.type
    /\ c.location = i.location
    /\ c.cloudInitID = i.cloudInitID
    /\ NewInstanceUUID(c.uuid) = NewInstanceUUID(i.uuid)

-----------------------------------------------------------------------------
(* Reading an instance record.                                             *)

(* Profile-contributed values show through where the local ones are absent *)
ExpandedConfig(rec) ==
    [k \in ConfigKeys |->
        IF rec.config[k] = Absent /\ k \in UserKeys
        THEN FromProfiles[rec.profiles][k]
        ELSE rec.config[k]]

(* Mutant: the standalone sentinel is not translated.                      *)
RawLocation(rec) == rec.location

(* A standalone server reports the location "none" for its instances.      *)
ResolvedLocation(rec) ==
    IF rec.location = "none" THEN StandaloneLocation ELSE rec.location

(* mapInstance succeeds on rec.                                            *)
Mappable(rec) ==
    /\ NewInstanceUUID(rec.uuid) # ""
    /\ ResolvedLocation(rec) # ""

MapInstance(slot, rec) ==
    [project     |-> slot[1],
     name        |-> slot[2],
     uuid        |-> NewInstanceUUID(rec.uuid),
     type        |-> rec.type,
     location    |-> ResolvedLocation(rec),
     cloudInitID |-> rec.cloudInitID,
     profiles    |-> rec.profiles,
     config      |-> ExpandedConfig(rec)]

-----------------------------------------------------------------------------
(* The verdict.                                                            *)

(* Mutant: only the length of the answer is compared.                      *)
VerifyNonceLength(expected, got) == got \in Nonces

VerifyNonce(expected, got) == got = expected

(* The compacted selector list as a set of <<kind, value>>.                *)
BuildSelectors(i) ==
    {<<"project", i.project>>, <<"name", i.name>>,
     <<"location", i.location>>, <<"uuid", NewInstanceUUID(i.uuid)>>}
    \cup {<<"profile", p>> : p \in i.profiles}
    \cup {<<k, i.config[k]>> :
             k \in {u \in UserSelectors : i.config[u] # Absent}}

SelectorValueBytes(sels) == MapThenSumSet(LAMBDA s : SelectorLen(s), sels)

(* BuildAttributes returns attributes rather than ErrDenied.               *)
Attributable(i) ==
    /\ ValidateInstance(i)
    /\ UserSelectors \cap Keys = {}
    /\ Cardinality(BuildSelectors(i)) <= MaxSelectors
    /\ SelectorValueBytes(BuildSelectors(i)) <= MaxSelectorBytes

BuildAttributes(i) ==
    [agentID   |-> NewInstanceUUID(i.uuid),
     selectors |-> BuildSelectors(i)]
=============================================================================
