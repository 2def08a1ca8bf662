---------------------------- MODULE PluginConfig ----------------------------
(***************************************************************************)
(* Decoding and validating plugin_data (internal/config) and the core      *)
(* configuration beside it (decodeValidServer and decodeValidAgent of      *)
(* internal/spire).  An attribute that is not set is Absent; a duration is *)
(* a number, or Garbled when it does not parse.  HCL itself is external:   *)
(* a document either fits the schema or has an error, an unknown attribute *)
(* included.                                                               *)
(***************************************************************************)
EXTENDS Integers, Sequences, FiniteSets, SequencesExt, Functions

CONSTANTS
    Absent,
    Garbled,
    Strings,          \* strings an attribute may hold, "" among them
    UserPrefixed,     \* those that start with "user."
    BareUser,         \* the string "user."
    ReservedKey,      \* the string "user.spire.attestor.nonce"
    ReservedPrefixed, \* those that start with "user.spire.attestor.nonce."
    MaxProjects,      \* maxProjects
    MaxUserSelectors  \* maxUserSelectors

ASSUME StringAssumption ==
    /\ "" \in Strings \ UserPrefixed
    /\ {BareUser, ReservedKey} \cup ReservedPrefixed \subseteq UserPrefixed
    /\ UserPrefixed \subseteq Strings
    /\ MaxProjects \in Nat /\ MaxUserSelectors \in Nat

Durations == Int \cup {Absent, Garbled}

(* rawServer and rawAgent; fits is whether the document has their schema.  *)
RawServer == [fits                       : BOOLEAN,
              incus_endpoint             : Strings \cup {Absent},
              tls_ca_path                : Strings \cup {Absent},
              tls_cert_path              : Strings \cup {Absent},
              tls_key_path               : Strings \cup {Absent},
              projects                   : Seq(Strings) \cup {Absent},
              user_selectors             : Seq(Strings) \cup {Absent},
              incus_timeout              : Durations,
              challenge_response_timeout : Durations,
              cleanup_timeout            : Durations]

RawAgent == [fits         : BOOLEAN,
             project      : Strings \cup {Absent},
             poll_timeout : Durations]

-----------------------------------------------------------------------------
(* Decoding.                                                               *)

defaultPollTimeout == 5
defaultIncusTimeout == 5
defaultChallengeResponseTimeout == 10
defaultCleanupTimeout == 5

OptionalString(raw) == IF raw = Absent THEN "" ELSE raw

OptionalList(raw) == IF raw = Absent THEN <<>> ELSE raw

(* The value, the default, or Garbled, which fails the decoding.           *)
ParseOptionalDuration(raw, default) == IF raw = Absent THEN default ELSE raw

ServerFields(raw) ==
    [incusEndpoint            |-> OptionalString(raw.incus_endpoint),
     tlsCAPath                |-> OptionalString(raw.tls_ca_path),
     tlsCertPath              |-> OptionalString(raw.tls_cert_path),
     tlsKeyPath               |-> OptionalString(raw.tls_key_path),
     projects                 |-> OptionalList(raw.projects),
     userSelectors            |-> OptionalList(raw.user_selectors),
     incusTimeout             |-> ParseOptionalDuration(raw.incus_timeout, defaultIncusTimeout),
     challengeResponseTimeout |-> ParseOptionalDuration(raw.challenge_response_timeout,
                                                        defaultChallengeResponseTimeout),
     cleanupTimeout           |-> ParseOptionalDuration(raw.cleanup_timeout, defaultCleanupTimeout)]

(* The decoded configuration, or Absent for an error.                      *)
DecodeServer(raw) ==
    LET cfg == ServerFields(raw) IN
    IF raw.fits /\ Garbled \notin {cfg.incusTimeout, cfg.challengeResponseTimeout, cfg.cleanupTimeout}
    THEN cfg ELSE Absent

DecodeAgent(raw) ==
    LET poll == ParseOptionalDuration(raw.poll_timeout, defaultPollTimeout) IN
    IF raw.fits /\ poll # Garbled
    THEN [project |-> OptionalString(raw.project), pollTimeout |-> poll] ELSE Absent

-----------------------------------------------------------------------------
(* Validating.  The loops remember what they have seen and how many        *)
(* entries they complained about.                                          *)

RequireNonempty(s) == s # ""

(* Mutant: zero is let through.                                            *)
RequireNotNegative(d) == d >= 0

RequirePositive(d) == d > 0

(* Mutant: an entry is compared with the one before it only.               *)
VisitAdjacent(allowed, acc, entry) ==
    IF allowed /\ entry \notin acc.seen
    THEN [acc EXCEPT !.seen = {entry}]
    ELSE [acc EXCEPT !.errs = @ + 1]

(* One turn of either loop: a refused or repeated entry is an error, and   *)
(* a refused one is not remembered.                                        *)
Visit(allowed, acc, entry) ==
    IF allowed /\ entry \notin acc.seen
    THEN [acc EXCEPT !.seen = @ \cup {entry}]
    ELSE [acc EXCEPT !.errs = @ + 1]

Complaints(allowed, list) ==
    FoldLeft(LAMBDA acc, entry : Visit(entry \in allowed, acc, entry), [seen |-> {}, errs |-> 0], list).errs

(* Mutant: the projects are not counted.                                   *)
ValidateProjectsUncounted(list) ==
    /\ Len(list) # 0
    /\ Complaints({p \in ToSet(list) : RequireNonempty(p)}, list) = 0

ValidateProjects(list) ==
    /\ Len(list) # 0
    /\ Len(list) <= MaxProjects
    /\ Complaints({p \in ToSet(list) : RequireNonempty(p)}, list) = 0

ValidateUserSelector(key) ==
    /\ key # ""
    /\ key \in UserPrefixed /\ key # BareUser
    /\ key # ReservedKey /\ key \notin ReservedPrefixed

(* Mutant: the selectors are counted only from one more on.                *)
ValidateUserSelectorsLate(list) ==
    /\ Len(list) <= MaxUserSelectors + 1
    /\ Complaints({k \in ToSet(list) : ValidateUserSelector(k)}, list) = 0

ValidateUserSelectors(list) ==
    /\ Len(list) <= MaxUserSelectors
    /\ Complaints({k \in ToSet(list) : ValidateUserSelector(k)}, list) = 0

ValidateServer(cfg, trustDomain) ==
    /\ RequireNonempty(trustDomain)
    /\ \A s \in {cfg.incusEndpoint, cfg.tlsCAPath, cfg.tlsCertPath, cfg.tlsKeyPath} : RequireNonempty(s)
    /\ \A d \in {cfg.incusTimeout, cfg.challengeResponseTimeout, cfg.cleanupTimeout} : RequirePositive(d)
    /\ ValidateProjects(cfg.projects)
    /\ ValidateUserSelectors(cfg.userSelectors)

ValidateAgent(cfg, trustDomain) ==
    RequireNonempty(trustDomain) /\ RequirePositive(cfg.pollTimeout)

-----------------------------------------------------------------------------
(* Config RPC requests: core is the trust domain, or Absent without a core *)
(* configuration; a nil request is Absent altogether.                      *)

DecodeValidServer(req) ==
    LET cfg == DecodeServer(req.hcl) IN
    IF req.core # Absent /\ cfg # Absent /\ ValidateServer(cfg, req.core) THEN cfg ELSE Absent

DecodeValidAgent(req) ==
    LET cfg == DecodeAgent(req.hcl) IN
    IF req.core # Absent /\ cfg # Absent /\ ValidateAgent(cfg, req.core) THEN cfg ELSE Absent

(* The Valid field Validate answers.                                       *)
ServerRequestValid(req) == req # Absent /\ DecodeValidServer(req) # Absent

AgentRequestValid(req) == req # Absent /\ DecodeValidAgent(req) # Absent
=============================================================================
