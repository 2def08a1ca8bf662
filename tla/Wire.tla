-------------------------------- MODULE Wire --------------------------------
(***************************************************************************)
(* The v1 JSON codecs (internal/wire), at the level of JSON values: what   *)
(* is an object, its members in order and how their names are spelled, an  *)
(* array, a string, a number or null.  A message that the plugin encoded   *)
(* passes through SPIRE; another encoder may produce one that differs from *)
(* it in order, in letter case, or in anything else.                       *)
(*                                                                         *)
(* encoding/json is external: it matches names to fields regardless of     *)
(* case, lets a later member of a field win, and takes null for "nothing". *)
(***************************************************************************)
EXTENDS AttestDomain, SequencesExt

CONSTANTS
    NonceSpellings, \* strings a nonce member may hold, beside the nonces
    Spelled,        \* string -> [nonce, digits, newlines, slack]
    GuestClaims,    \* the claims a guest encodes
    ForeignStrings, \* strings another encoder may put in a member
    MaxEdits        \* bound: differences from what the plugin encodes

ASSUME WireAssumption ==
    /\ Spelled \in [NonceSpellings \cup Nonces ->
                      [nonce : Nonces, digits : Nat, newlines : Nat, slack : BOOLEAN]]
    /\ \A n \in Nonces : Spelled[n] = [nonce |-> n, digits |-> 22, newlines |-> 0, slack |-> FALSE]
    /\ GuestClaims \subseteq Claims
    /\ MaxEdits \in Nat

-----------------------------------------------------------------------------
(* JSON values.  A member is exact when its name is spelled like the field *)
(* it belongs to.                                                          *)

Nil == [t |-> "nil"]        \* a Go nil: no member was there
Null == [t |-> "null"]
Num(n) == [t |-> "num", n |-> n]
Str(s) == [t |-> "str", s |-> s]
Arr(items) == [t |-> "arr", items |-> items]
Obj(members) == [t |-> "obj", members |-> members]

Member(name, v) == [name |-> name, exact |-> TRUE, value |-> v]

Inside(v) == CASE v.t = "obj" -> {m.value : m \in ToSet(v.members)}
               [] v.t = "arr" -> ToSet(v.items)
               [] OTHER       -> {}

(* A value and everything nested in it.                                    *)
RECURSIVE Within(_)
Within(v) == {v} \cup UNION {Within(w) : w \in Inside(v)}

Objects(v) == {w \in Within(v) : w.t = "obj"}

-----------------------------------------------------------------------------
(* Encoding.                                                               *)

guestClaimsType == "incus-guest-claims"
configNonceType == "incus-config-nonce"

TypedObject(type, data) ==
    Obj(<<Member("type", Str(type)), Member("version", Num(1)), Member("data", data)>>)

Envelope(name, body) == Obj(<<Member("version", Num(1)), Member(name, body)>>)

(* EncodePayload goes through; it writes the canonical UUID.               *)
Encodable(c) ==
    /\ NewInstanceUUID(c.uuid) # ""
    /\ c.name # "" /\ c.type # "" /\ c.location # "" /\ c.cloudInitID # ""

ClaimsData(c, uuid) ==
    Obj(<<Member("instance_name", Str(c.name))>>
        \o (IF c.project = "" THEN <<>> ELSE <<Member("project", Str(c.project))>>)
        \o <<Member("instance_type", Str(c.type)), Member("uuid", Str(uuid)),
             Member("location", Str(c.location)), Member("cloud_init_id", Str(c.cloudInitID))>>)

PayloadWithUUID(c, uuid) ==
    Envelope("evidence", Arr(<<TypedObject(guestClaimsType, ClaimsData(c, uuid))>>))

EncodePayload(c) == PayloadWithUUID(c, NewInstanceUUID(c.uuid))

EncodeChallenge(k) ==
    Envelope("challenge", TypedObject(configNonceType, Obj(<<Member("config_key", Str(k))>>)))

EncodeResponse(n) ==
    Envelope("response", TypedObject(configNonceType, Obj(<<Member("nonce", Str(n))>>)))

-----------------------------------------------------------------------------
(* Decoding.                                                               *)

Ok(v) == [class |-> "ok", value |-> v]
Failure(class) == [class |-> class]

Then(r, Continue(_)) == IF r.class = "ok" THEN Continue(r.value) ELSE r

(* The first check that is not "ok" decides.                               *)
Unless(checks, r) ==
    LET bad == SelectInSeq(checks, LAMBDA c : c # "ok") IN
    IF bad = 0 THEN r ELSE Failure(checks[bad])

RepeatsName(o) ==
    \E i, j \in DOMAIN o.members :
        /\ i # j
        /\ o.members[i].name = o.members[j].name
        /\ o.members[i].exact = o.members[j].exact

RejectDuplicateNames(v) ==
    IF \E o \in Objects(v) : RepeatsName(o) THEN "invalid" ELSE "ok"

(* decodeRaw: size, UTF-8 and single value, and duplicates at any nesting. *)
DecodeRaw(msg) ==
    Unless(<<IF msg.flaw = "none" THEN "ok" ELSE "invalid",
             RejectDuplicateNames(msg.value)>>,
           Ok(msg.value))

(* The Go structs messages are decoded into: field -> its type.            *)
EnvelopeShape(name) == [f \in {"version", name} |-> IF f = "version" THEN "*int" ELSE "raw"]

TypedShape == [type |-> "*string", version |-> "*int", data |-> "raw"]

DataShape == [f \in {"instance_name", "project", "instance_type", "uuid", "location",
                     "cloud_init_id"} |-> IF f = "project" THEN "raw" ELSE "string"]

ZeroOf(shape) == [f \in DOMAIN shape |-> IF shape[f] = "string" THEN Str("") ELSE Nil]

Fits(type, v) == CASE type = "*int"                -> v.t \in {"num", "null"}
                   [] type \in {"string", "*string"} -> v.t \in {"str", "null"}
                   [] OTHER                          -> TRUE

(* What a member makes of its field: null leaves a string as it was.       *)
Assign(type, old, v) ==
    IF v # Null \/ type = "raw" THEN v
    ELSE IF type = "string" THEN old ELSE Nil

(* Mutant: DisallowUnknownFields is not called.                            *)
DecodeLoosely(v, shape) ==
    LET known == IF v.t = "obj" THEN SelectSeq(v.members, LAMBDA m : m.name \in DOMAIN shape)
                 ELSE <<>> IN
    CASE v = Null       -> Ok(ZeroOf(shape))
      [] v.t = "obj" /\ \A m \in ToSet(known) : Fits(shape[m.name], m.value) ->
            Ok(FoldLeft(LAMBDA acc, m : [acc EXCEPT ![m.name] = Assign(shape[m.name], @, m.value)],
                        ZeroOf(shape), known))
      [] OTHER          -> Failure("invalid")

DecodeStrict(v, shape) ==
    CASE v = Null -> Ok(ZeroOf(shape))
      [] v.t = "obj" /\ \A m \in ToSet(v.members) :
                            m.name \in DOMAIN shape /\ Fits(shape[m.name], m.value) ->
            Ok(FoldLeft(LAMBDA acc, m : [acc EXCEPT ![m.name] = Assign(shape[m.name], @, m.value)],
                        ZeroOf(shape), v.members))
      [] OTHER -> Failure("invalid")

RequireVersion(got) ==
    CASE got = Nil -> "invalid" [] got = Num(1) -> "ok" [] OTHER -> "unsupported"

RequireType(got, want) ==
    CASE got \in {Nil, Str("")} -> "invalid"
      [] got = Str(want)        -> "ok"
      [] OTHER                  -> "unsupported"

(* Mutant: an empty member passes for a value.                             *)
RequireNothing(present) == "ok"

Require(present) == IF present THEN "ok" ELSE "invalid"

DecodeTypedObject(raw, want) ==
    IF raw = Nil THEN Failure("invalid")
    ELSE Then(DecodeStrict(raw, TypedShape), LAMBDA o :
            Unless(<<RequireType(o.type, want), RequireVersion(o.version),
                     Require(o.data # Nil)>>,
                   Ok(o.data)))

(* The envelope of a message, down to the member called name.              *)
DecodeEnvelope(msg, name) ==
    Then(DecodeRaw(msg), LAMBDA v :
        Then(DecodeStrict(v, EnvelopeShape(name)), LAMBDA env :
            Unless(<<RequireVersion(env.version)>>, Ok(env[name]))))

(* Exactly one evidence item; null is no item.                             *)
SingleEvidence(raw) ==
    IF raw.t = "arr" /\ Len(raw.items) = 1 THEN Ok(raw.items[1]) ELSE Failure("invalid")

(* Mutant: a message without a project is refused.                         *)
DecodeRequiredHint(raw) ==
    IF raw.t = "str" /\ raw # Str("") THEN Ok(raw.s) ELSE Failure("invalid")

(* The optional project: absent, or a string that is not empty.            *)
DecodeProjectHint(raw) ==
    CASE raw = Nil                         -> Ok("")
      [] raw.t = "str" /\ raw # Str("")    -> Ok(raw.s)
      [] OTHER                             -> Failure("invalid")

DecodeClaims(d) ==
    Unless([i \in 1 .. 4 |-> Require(
                <<d.instance_name, d.instance_type, d.location, d.cloud_init_id>>[i] # Str(""))]
             \o <<Require(NewInstanceUUID(d.uuid.s) # "")>>,
           Then(DecodeProjectHint(d.project), LAMBDA hint :
                Ok([project |-> hint, name |-> d.instance_name.s,
                    uuid |-> NewInstanceUUID(d.uuid.s), type |-> d.instance_type.s,
                    location |-> d.location.s, cloudInitID |-> d.cloud_init_id.s])))

DecodePayloadMessage(msg) ==
    Then(DecodeEnvelope(msg, "evidence"), LAMBDA evidence :
        Then(SingleEvidence(evidence), LAMBDA item :
            Then(DecodeTypedObject(item, guestClaimsType), LAMBDA data :
                Then(DecodeStrict(data, DataShape), DecodeClaims))))

(* NewConfigKey: the exact grammar, or no key.                             *)
NewConfigKey(raw) == IF raw \in Keys THEN Ok(raw) ELSE Failure("invalid")

DecodeChallenge(msg) ==
    Then(DecodeEnvelope(msg, "challenge"), LAMBDA body :
        Then(DecodeTypedObject(body, configNonceType), LAMBDA data :
            Then(DecodeStrict(data, [config_key |-> "string"]), LAMBDA d :
                NewConfigKey(d.config_key.s))))

(* Mutant: the length of the string is not compared first.                 *)
ParseNonceAnyLength(raw) ==
    IF raw \in DOMAIN Spelled /\ ~Spelled[raw].slack /\ Spelled[raw].digits = 22
    THEN Ok(Spelled[raw].nonce) ELSE Failure("invalid")

(* 22 characters, of which the base64 decoder skips line breaks; strict    *)
(* about the unused last bits; and 16 bytes must come out.                 *)
ParseNonce(raw) ==
    IF /\ raw \in DOMAIN Spelled
       /\ Spelled[raw].digits + Spelled[raw].newlines = 22
       /\ Spelled[raw].digits % 4 # 1 /\ ~Spelled[raw].slack
       /\ (Spelled[raw].digits * 6) \div 8 = 16
    THEN Ok(Spelled[raw].nonce) ELSE Failure("invalid")

DecodeResponse(msg) ==
    Then(DecodeEnvelope(msg, "response"), LAMBDA body :
        Then(DecodeTypedObject(body, configNonceType), LAMBDA data :
            Then(DecodeStrict(data, [nonce |-> "string"]), LAMBDA d :
                ParseNonce(d.nonce.s))))
=============================================================================
