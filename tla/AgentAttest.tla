---------------------------- MODULE AgentAttest -----------------------------
(***************************************************************************)
(* Service.Attest of internal/agent over the guest client of               *)
(* internal/incus/guest: read three sources of claims, send the payload,   *)
(* receive one challenge, poll the challenged key until it is visible or   *)
(* the poll timeout passes, and answer with the nonce found there.         *)
(*                                                                         *)
(* The guest's own view of its VM is the variable guest; the agent never   *)
(* changes it.  Time is counted in units of initialPollDelay, and only     *)
(* while the agent polls: in its waits and in reads that take long.        *)
(***************************************************************************)
EXTENDS AttestDomain

CONSTANTS
    Attempts,         \* AidAttestation calls
    ProjectHint,      \* the configured project, or ""
    InitialPollDelay, \* initialPollDelay
    MaxPollDelay,     \* maxPollDelay
    PollTimeout       \* poll_timeout

(* What a guest can learn of its VM: /1.0, /1.0/meta-data, the DMI file    *)
(* and /1.0/config.                                                        *)
Guest == [name        : Names \cup {""},
          uuid        : RawUUIDs \cup {""},
          type        : Types \cup {""},
          location    : Locations \cup {StandaloneLocation, ""},
          cloudInitID : CloudInitIDs \cup {""},
          config      : Config]

ASSUME AgentAssumption ==
    /\ ProjectHint \in Projects \cup {""}
    /\ InitialPollDelay \in Nat \ {0}
    /\ MaxPollDelay \in Nat
    /\ InitialPollDelay <= MaxPollDelay
    /\ PollTimeout \in Nat \ {0}
    /\ Absent # ""

VARIABLES
    guest,     \* attempt -> what the guest can read now
    stage,     \* attempt -> the statement group of Attest
    stream,    \* attempt -> whether the stream context is live
    gathered,  \* attempt -> the claims read so far
    offered,   \* attempt -> the payload sent, or Absent
    asked,     \* attempt -> the challenged key, or Absent
    delay,     \* attempt -> the next wait of pollConfig
    left,      \* attempt -> what is left of the current wait
    elapsed,   \* attempt -> time since polling began
    reads,     \* history: attempt -> the configuration keys it has read
    missed,    \* history: attempt -> time the key was visible and not yet read
    flaky,     \* history: attempt -> a read was slow, or failed and was retried
    answered,  \* attempt -> the nonce sent in the response, or Absent
    outcome    \* attempt -> class of the returned error, "ok", or "pending"

pollVars == <<delay, left, elapsed, missed, flaky>>
sentVars == <<offered, asked, answered>>
agentVars == <<stage, stream, gathered, sentVars, pollVars, reads, outcome>>
vars == <<guest, agentVars>>

NoClaims == [project |-> "", name |-> "", uuid |-> "", type |-> "",
             location |-> "", cloudInitID |-> ""]

(* The claims while they are being read.                                   *)
Gathered == [project     : Projects \cup {""},
             name        : Names \cup {""},
             uuid        : UUIDs \cup {""},
             type        : Types \cup {""},
             location    : Locations \cup {StandaloneLocation, ""},
             cloudInitID : CloudInitIDs \cup {""}]

Stages == {"info", "meta", "dmi", "payload", "challenge", "poll", "wait", "done"}

Outcomes == {"pending", "ok", "canceled", "deadline", "invalid", "denied", "other"}

AgentTypeOK ==
    /\ guest \in [Attempts -> Guest]
    /\ stage \in [Attempts -> Stages]
    /\ stream \in [Attempts -> {"live", "canceled"}]
    /\ gathered \in [Attempts -> Gathered]
    /\ \A a \in Attempts : offered[a] # Absent => DecodablePayload(offered[a])
    /\ asked \in [Attempts -> ConfigKeys \cup {Absent}]
    /\ delay \in [Attempts -> Nat]
    /\ left \in [Attempts -> Nat]
    /\ elapsed \in [Attempts -> 0 .. PollTimeout]
    /\ reads \in [Attempts -> SUBSET ConfigKeys]
    /\ missed \in [Attempts -> 0 .. PollTimeout]
    /\ flaky \in [Attempts -> BOOLEAN]
    /\ answered \in [Attempts -> Nonces \cup {Absent}]
    /\ outcome \in [Attempts -> Outcomes]

AgentInit ==
    /\ stage = [a \in Attempts |-> "info"]
    /\ stream = [a \in Attempts |-> "live"]
    /\ gathered = [a \in Attempts |-> [NoClaims EXCEPT !.project = ProjectHint]]
    /\ offered = [a \in Attempts |-> Absent]
    /\ asked = [a \in Attempts |-> Absent]
    /\ delay = [a \in Attempts |-> InitialPollDelay]
    /\ left = [a \in Attempts |-> 0]
    /\ elapsed = [a \in Attempts |-> 0]
    /\ reads = [a \in Attempts |-> {}]
    /\ missed = [a \in Attempts |-> 0]
    /\ flaky = [a \in Attempts |-> FALSE]
    /\ answered = [a \in Attempts |-> Absent]
    /\ outcome = [a \in Attempts |-> "pending"]

-----------------------------------------------------------------------------
Proceed(a, s) == stage' = [stage EXCEPT ![a] = s]

Return(a, class) ==
    /\ Proceed(a, "done")
    /\ outcome' = [outcome EXCEPT ![a] = class]

(* A request under the stream context can end in its cancellation.         *)
StreamEnds(a) == IF stream[a] = "canceled" THEN {"canceled"} ELSE {}

(* How statusError, transportError and the decoders of the guest client    *)
(* are told apart: a context error fails, a transient one may be polled    *)
(* again, any other is permanent.                                          *)
RequestErrors == {"transient", "permanent"}

-----------------------------------------------------------------------------
(* Claims: none of the three reads is retried.                             *)

ReadInfo(a) ==
    /\ stage[a] = "info"
    /\ stream[a] = "live"
    /\ gathered' = [gathered EXCEPT ![a].type = guest[a].type,
                                    ![a].location = guest[a].location]
    /\ Proceed(a, "meta")
    /\ UNCHANGED <<stream, sentVars, pollVars, reads, outcome>>

(* Mutant: instance-id and local-hostname are swapped.                     *)
SwappedMetadata(a) ==
    /\ stage[a] = "meta"
    /\ stream[a] = "live"
    /\ gathered' = [gathered EXCEPT ![a].name = guest[a].cloudInitID,
                                    ![a].cloudInitID = guest[a].name]
    /\ Proceed(a, "dmi")
    /\ UNCHANGED <<stream, sentVars, pollVars, reads, outcome>>

ReadMetadata(a) ==
    /\ stage[a] = "meta"
    /\ stream[a] = "live"
    /\ gathered' = [gathered EXCEPT ![a].name = guest[a].name,
                                    ![a].cloudInitID = guest[a].cloudInitID]
    /\ Proceed(a, "dmi")
    /\ UNCHANGED <<stream, sentVars, pollVars, reads, outcome>>

(* The product UUID is parsed to its canonical form; the claims are then   *)
(* validated.                                                              *)
ReadProductUUID(a) ==
    LET id == NewInstanceUUID(guest[a].uuid)
        c  == [gathered[a] EXCEPT !.uuid = id] IN
    /\ stage[a] = "dmi"
    /\ gathered' = [gathered EXCEPT ![a] = c]
    /\ \/ id = "" /\ Return(a, "other")
       \/ id # "" /\ ~ValidateClaims(c) /\ Return(a, "denied")
       \/ id # "" /\ ValidateClaims(c) /\ Proceed(a, "payload") /\ UNCHANGED outcome
    /\ UNCHANGED <<stream, sentVars, pollVars, reads>>

(* The DMI file is read without a context.                                 *)
ClaimsFail(a) ==
    /\ \/ stage[a] \in {"info", "meta"} /\ \E class \in {"other"} \cup StreamEnds(a) : Return(a, class)
       \/ stage[a] = "dmi" /\ Return(a, "other")
    /\ UNCHANGED <<stream, gathered, sentVars, pollVars, reads>>

(* omitempty: an empty hint is a message without the member.               *)
EncodePayload(c) == [c EXCEPT !.project = IF c.project = "" THEN Absent ELSE c.project]

SendPayload(a) ==
    /\ stage[a] = "payload"
    /\ \/ /\ offered' = [offered EXCEPT ![a] = EncodePayload(gathered[a])]
          /\ Proceed(a, "challenge")
          /\ UNCHANGED outcome
       \/ /\ Return(a, "other")
          /\ UNCHANGED offered
    /\ UNCHANGED <<stream, gathered, asked, answered, pollVars, reads>>

-----------------------------------------------------------------------------
(* The challenge.                                                          *)

(* Mutant: any configuration key may be challenged.                        *)
AnyConfigKey(k) == k \in ConfigKeys

(* NewConfigKey accepts only the challenge-key grammar.                    *)
NewConfigKey(k) == k \in Keys

(* The server's message: a key, or something that does not decode.         *)
ReceiveChallenge(a, msg) ==
    /\ stage[a] = "challenge"
    /\ \/ /\ NewConfigKey(msg)
          /\ asked' = [asked EXCEPT ![a] = msg]
          /\ Proceed(a, "poll")
          /\ UNCHANGED outcome
       \/ /\ ~NewConfigKey(msg)
          /\ Return(a, "invalid")
          /\ UNCHANGED asked
    /\ UNCHANGED <<stream, gathered, offered, answered, pollVars, reads>>

(* Recv fails: the stream context's error, once there is one, replaces     *)
(* Recv's own.                                                             *)
ChallengeFails(a) ==
    /\ stage[a] = "challenge"
    /\ Return(a, IF stream[a] = "canceled" THEN "canceled" ELSE "other")
    /\ UNCHANGED <<stream, gathered, sentVars, pollVars, reads>>

-----------------------------------------------------------------------------
(* pollConfig.                                                             *)

(* Mutant: the wait doubles without a cap.                                 *)
UncappedPollDelay(d) == 2 * d

NextPollDelay(d) == IF 2 * d > MaxPollDelay THEN MaxPollDelay ELSE 2 * d

(* Mutant: the poll context has no deadline of its own.                    *)
PollNeverExpires(a) == FALSE

PollExpired(a) == elapsed[a] = PollTimeout

(* How the poll context can be over: its own timeout, or the stream's end. *)
PollEnds(a) == (IF PollExpired(a) THEN {"deadline"} ELSE {}) \cup StreamEnds(a)

(* A read begins, under a poll context that is not over.                   *)
ReadConfig(a) ==
    /\ stage[a] = "poll"
    /\ PollEnds(a) = {}
    /\ reads' = [reads EXCEPT ![a] = @ \cup {asked[a]}]

Visible(a) == guest[a].config[asked[a]] # Absent

StartWait(a) ==
    /\ Proceed(a, "wait")
    /\ left' = [left EXCEPT ![a] = delay[a]]
    /\ UNCHANGED <<outcome, answered>>

(* A visible value: parse it, encode the response and send it.             *)
ConfigFound(a) ==
    LET value == guest[a].config[asked[a]] IN
    /\ ReadConfig(a)
    /\ Visible(a)
    /\ \/ /\ value \notin Nonces
          /\ Return(a, "invalid")
          /\ UNCHANGED answered
       \/ /\ value \in Nonces
          /\ \/ Return(a, "ok") /\ answered' = [answered EXCEPT ![a] = value]
             \/ Return(a, "other") /\ UNCHANGED answered
    /\ UNCHANGED <<stream, gathered, offered, asked, pollVars>>

(* 404: not visible yet.                                                   *)
ConfigNotFound(a) ==
    /\ ReadConfig(a)
    /\ ~Visible(a)
    /\ StartWait(a)
    /\ missed' = [missed EXCEPT ![a] = 0]
    /\ UNCHANGED <<stream, gathered, offered, asked, delay, elapsed, flaky>>

ConfigReadFails(a, err) ==
    /\ ReadConfig(a)
    /\ \/ err = "transient" /\ StartWait(a) /\ flaky' = [flaky EXCEPT ![a] = TRUE]
       \/ err = "permanent" /\ Return(a, "other") /\ UNCHANGED <<left, answered, flaky>>
    /\ UNCHANGED <<stream, gathered, offered, asked, delay, elapsed, missed>>

(* The poll context ends in a read or in a wait.                           *)
PollGivesUp(a) ==
    /\ stage[a] \in {"poll", "wait"}
    /\ \E class \in PollEnds(a) : Return(a, class)
    /\ UNCHANGED <<stream, gathered, sentVars, pollVars, reads>>

(* One unit of polling time, in which a visible key may go unread.         *)
TimePasses(a) ==
    /\ ~PollExpired(a)
    /\ elapsed' = [elapsed EXCEPT ![a] = IF @ = PollTimeout THEN @ ELSE @ + 1]
    /\ missed' = [missed EXCEPT ![a] = IF ~Visible(a) THEN 0 ELSE @ + (elapsed'[a] - elapsed[a])]

Tick(a) ==
    /\ stage[a] = "wait"
    /\ left[a] > 0
    /\ TimePasses(a)
    /\ left' = [left EXCEPT ![a] = @ - 1]
    /\ UNCHANGED <<stage, stream, gathered, sentVars, delay, flaky, reads, outcome>>

(* A read under way takes its time; only the poll context ends it.         *)
SlowRead(a) ==
    /\ stage[a] = "poll"
    /\ stream[a] = "live"
    /\ TimePasses(a)
    /\ flaky' = [flaky EXCEPT ![a] = TRUE]
    /\ UNCHANGED <<stage, stream, gathered, sentVars, delay, left, reads, outcome>>

(* The timer of waitDuration fires.                                        *)
WaitEnds(a) ==
    /\ stage[a] = "wait"
    /\ left[a] = 0
    /\ delay' = [delay EXCEPT ![a] = NextPollDelay(@)]
    /\ Proceed(a, "poll")
    /\ UNCHANGED <<stream, gathered, sentVars, left, elapsed, missed, flaky, reads, outcome>>

CancelStream(a) ==
    /\ stage[a] # "done"
    /\ stream[a] = "live"
    /\ stream' = [stream EXCEPT ![a] = "canceled"]
    /\ UNCHANGED <<stage, gathered, sentVars, pollVars, reads, outcome>>

(* What the agent does by itself, without a message from the server.       *)
AgentStep(a) ==
    \/ ReadInfo(a) \/ ReadMetadata(a) \/ ReadProductUUID(a) \/ ClaimsFail(a)
    \/ SendPayload(a) \/ ChallengeFails(a)
    \/ ConfigFound(a) \/ ConfigNotFound(a)
    \/ \E err \in RequestErrors : ConfigReadFails(a, err)
    \/ PollGivesUp(a) \/ Tick(a) \/ SlowRead(a) \/ WaitEnds(a)

(* The host changes what the guest sees: configuration, or the location.   *)
HostWrites(a) ==
    \/ \E k \in ConfigKeys, v \in Values \cup Nonces \cup {Absent} :
          guest' = [guest EXCEPT ![a].config[k] = v]
    \/ \E loc \in Locations : guest' = [guest EXCEPT ![a].location = loc]

CONSTANT Guests   \* what a guest may find at first

ASSUME GuestsAssumption == Guests \subseteq Guest

Init == AgentInit /\ guest \in [Attempts -> Guests]

Next ==
    \/ \E a \in Attempts :
          \/ AgentStep(a) /\ UNCHANGED guest
          \/ CancelStream(a) /\ UNCHANGED guest
          \/ \E msg \in ConfigKeys \cup {Absent} : ReceiveChallenge(a, msg) /\ UNCHANGED guest
          \/ HostWrites(a) /\ UNCHANGED agentVars

Spec == Init /\ [][Next]_vars

(* The agent keeps running: its timers fire and its guest requests return. *)
(* Nothing is assumed of the server.                                       *)
Fairness == \A a \in Attempts : WF_vars(AgentStep(a) /\ UNCHANGED guest)

FairSpec == Spec /\ Fairness
-----------------------------------------------------------------------------
(* Properties.                                                             *)

(* Whatever the server asks for, the agent reads challenge keys only, and  *)
(* answers with nothing but a nonce: a server cannot make it disclose any  *)
(* other configuration value (DecodeChallenge before pollConfig, ParseNonce *)
(* before EncodeResponse).                                                 *)
DisclosesOnlyNonces ==
    \A a \in Attempts : reads[a] \subseteq Keys /\ answered[a] \in Nonces \cup {Absent}

(* A poll that times out, though every read was answered at once, did not  *)
(* overlook a value that had been visible for longer than the longest wait *)
(* (the cap in nextPollDelay).                                             *)
TimeoutMeansLate ==
    \A a \in Attempts :
        outcome[a] = "deadline" /\ ~flaky[a] => missed[a] <= MaxPollDelay

(* Once polling has begun, the agent returns: answered, refused or timed   *)
(* out, however long the key stays invisible or the guest API hangs or     *)
(* fails (the deadline of pollCtx in pollConfig).                          *)
PollingEnds ==
    \A a \in Attempts : stage[a] \in {"poll", "wait"} ~> stage[a] = "done"
=============================================================================
