----------------------------- MODULE WireEdits ------------------------------
(***************************************************************************)
(* A message as this plugin encodes it, and the messages that differ from  *)
(* it by a few edits: what any other encoder of the same protocol, or of a *)
(* later version of it, could send.                                        *)
(***************************************************************************)
EXTENDS Wire

VARIABLES
    kind,     \* which message was encoded
    meant,    \* the value that was encoded
    msg,      \* the message as it is now
    edits,    \* how many edits it has gone through
    altered   \* whether one of them did more than reorder or respell

vars == <<kind, meant, msg, edits, altered>>

Kinds == {"payload", "challenge", "response"}

Meanings(k) == CASE k = "payload"   -> {c \in GuestClaims : Encodable(c)}
                 [] k = "challenge" -> Keys
                 [] k = "response"  -> Nonces

Encode(k, v) == CASE k = "payload"   -> EncodePayload(v)
                  [] k = "challenge" -> EncodeChallenge(v)
                  [] k = "response"  -> EncodeResponse(v)

Decode(k, m) == CASE k = "payload"   -> DecodePayloadMessage(m)
                  [] k = "challenge" -> DecodeChallenge(m)
                  [] k = "response"  -> DecodeResponse(m)

Init ==
    /\ kind \in Kinds
    /\ meant \in Meanings(kind)
    /\ msg = [value |-> Encode(kind, meant), flaw |-> "none"]
    /\ edits = 0
    /\ altered = FALSE

-----------------------------------------------------------------------------
(* One edit of one value.                                                  *)

Scalars == {Null, Num(2), Arr(<<>>)} \cup {Str(s) : s \in ForeignStrings \cup {""}}

(* A name no struct has, and the bodies of the other messages.             *)
ExtraMembers ==
    {Member("extension", Null)}
    \cup {Member("challenge", TypedObject(configNonceType, Obj(<<Member("config_key", Str(k))>>))) : k \in Keys}
    \cup {Member("response", TypedObject(configNonceType, Obj(<<Member("nonce", Str(n))>>))) : n \in Nonces}

SwappedAt(s, i) == [s EXCEPT ![i] = s[i + 1], ![i + 1] = s[i]]

RootEdits(how, v) ==
    LET ms == IF v.t = "obj" THEN v.members ELSE <<>> IN
    CASE how = "reorder" -> {Obj(SwappedAt(ms, i)) : i \in 1 .. Len(ms) - 1}
      [] how = "respell" -> {Obj([ms EXCEPT ![i].exact = ~@]) : i \in DOMAIN ms}
      [] how = "replace" -> Scalars \ {v}
      [] how = "drop"    -> {Obj(RemoveAt(ms, i)) : i \in DOMAIN ms}
                            \cup {Arr(RemoveAt(v.items, i)) :
                                    i \in IF v.t = "arr" THEN DOMAIN v.items ELSE {}}
      [] how = "repeat"  -> {Obj(Append(ms, [ms[i] EXCEPT !.value = w, !.exact = e])) :
                                i \in DOMAIN ms, w \in Scalars, e \in BOOLEAN}
                            \cup {Arr(Append(v.items, v.items[i])) :
                                    i \in IF v.t = "arr" THEN DOMAIN v.items ELSE {}}
      [] how = "extend"  -> {Obj(Append(ms, x)) : x \in IF v.t = "obj" THEN ExtraMembers ELSE {}}

(* The same edit made at the root or anywhere inside.                      *)
RECURSIVE EditsOf(_, _)
EditsOf(how, v) ==
    RootEdits(how, v)
    \cup (IF v.t = "obj"
          THEN {Obj([v.members EXCEPT ![i].value = w]) :
                  <<i, w>> \in UNION {{i} \X EditsOf(how, v.members[i].value) : i \in DOMAIN v.members}}
          ELSE {})
    \cup (IF v.t = "arr"
          THEN {Arr([v.items EXCEPT ![i] = w]) :
                  <<i, w>> \in UNION {{i} \X EditsOf(how, v.items[i]) : i \in DOMAIN v.items}}
          ELSE {})

Edit(how) ==
    /\ edits < MaxEdits
    /\ \E w \in EditsOf(how, msg.value) : msg' = [msg EXCEPT !.value = w]
    /\ edits' = edits + 1
    /\ altered' = (altered \/ how \notin {"reorder", "respell"})
    /\ UNCHANGED <<kind, meant>>

Spoil(flaw) ==
    /\ edits < MaxEdits
    /\ msg' = [msg EXCEPT !.flaw = flaw]
    /\ edits' = edits + 1
    /\ altered' = TRUE
    /\ UNCHANGED <<kind, meant>>

Next ==
    \/ \E how \in {"reorder", "respell", "replace", "drop", "repeat", "extend"} : Edit(how)
    \/ \E flaw \in {"oversize", "not UTF-8", "trailing data"} : Spoil(flaw)

Spec == Init /\ [][Next]_vars
-----------------------------------------------------------------------------
(* Properties.                                                             *)

Accepted(k) == Decode(k, msg).class = "ok"

(* One field of an object is given by two members of different spelling.   *)
GivenTwice(o) ==
    \E i, j \in DOMAIN o.members :
        o.members[i].name = o.members[j].name /\ o.members[i].exact # o.members[j].exact

(* A value without the order and the spelling of its members.              *)
RECURSIVE Content(_)
Content(v) ==
    CASE v.t = "obj" -> <<"obj", {<<m.name, Content(m.value)>> : m \in ToSet(v.members)}>>
      [] v.t = "arr" -> <<"arr", [i \in DOMAIN v.items |-> Content(v.items[i])]>>
      [] OTHER       -> <<"leaf", v>>

(* The encodings of a decoded value: a payload may spell its UUID freely.  *)
EncodingsOf(k, v) ==
    IF k = "payload"
    THEN {PayloadWithUUID(v, raw) : raw \in {r \in RawUUIDs : Canonical[r] = v.uuid}}
    ELSE {Encode(k, v)}

(* Decoding loses nothing: a message a decoder accepts is, up to order and *)
(* letter case, the encoding of the value it returns.  Nothing rides along *)
(* in it, no nonce has a second spelling, and no other version or type is  *)
(* taken for v1.  (Members that give one field twice are set aside.)       *)
AcceptedIsAnEncoding ==
    \A k \in Kinds :
        Accepted(k) /\ ~(\E o \in Objects(msg.value) : GivenTwice(o))
        => Content(msg.value) \in {Content(e) : e \in EncodingsOf(k, Decode(k, msg).value)}

(* What the plugins encode they decode to the same value, whatever order   *)
(* the members arrive in.                                                  *)
DecodesToWhatWasMeant == ~altered => Decode(kind, msg) = Ok(meant)

(* No message is accepted as two different kinds: a challenge and a        *)
(* response share their type and version and differ only in member names.  *)
KindsNeverConfused ==
    \A k1, k2 \in Kinds : Accepted(k1) /\ Accepted(k2) => k1 = k2

(* What an accepted payload decodes to is what the domain's abstract       *)
(* payloads decode to: the server model's inputs leave nothing out.        *)
PayloadAsModelled ==
    Accepted("payload") =>
        LET c == Decode("payload", msg).value
            p == [c EXCEPT !.project = IF @ = "" THEN Absent ELSE @] IN
        c \in Claims => p \in Payload /\ DecodablePayload(p) /\ DecodePayload(p) = c

(* The package comment: "Unknown fields and duplicate member names are     *)
(* rejected at every object nesting."  So an accepted message gives no     *)
(* field twice.                                                            *)
NoFieldGivenTwice ==
    \A k \in Kinds : Accepted(k) => ~(\E o \in Objects(msg.value) : GivenTwice(o))
=============================================================================
