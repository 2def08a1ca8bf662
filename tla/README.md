# Formal model of incus-spire-attestor

This directory models the two SPIRE node-attestor plugins of the repository in TLA+: what the server
and the agent do, statement group by statement group, beside an Incus that other people use at the
same time. TLC checks the modules on small instances; TLAPS proves most of the safety properties,
the refinements and the composition's properties, for every instance. `PROJECT.json` lists
components, runs, mutants, findings, hazards, theorems, and the source lines behind every
definition.

## The system

An agent in an Incus VM wants a SPIFFE identity. It tells the server plugin which VM it claims to
be in. The server finds that VM over the Incus API, writes a random nonce under a random key
`user.spire.attestor.nonce.<id>` into the VM's configuration, and names the key to the agent. Only
a process in the VM can read it back, over the guest API. The server compares the answer, removes
the key, and sends the VM's identity and selectors.

| Component | State it keeps | Operations | Hard because |
|---|---|---|---|
| Server service, `internal/server` | per attempt: claims, resolved snapshot, key, nonce, armed cleanup | `Attest`, `resolveInstance`, `cleanup.run`, `annotateCleanup` | attempts run concurrently; the VM can change between resolution and write; every exit after arming must clean up, under a context of its own |
| Host client, `internal/incus/host` | the connected client, the standalone location | `New`, `Lookup`, `SetNonce`, `UnsetNonce`, `CloseIdleConnections` | read-modify-write of a whole instance under an ETag, retries without a count, updates whose outcome is unknown |
| Domain, `internal/attest` | none | validation, matching, UUID canonical form, nonce comparison, selectors | guest, API and claims describe one VM in different spellings |
| Agent service, `internal/agent` | per attempt: claims, challenged key, poll delay | `Attest`, `pollConfig` | the key appears later than the challenge; the key comes from the peer |
| Guest client, `internal/incus/guest` | none | `Claims`, `ReadConfig` | three reads make one set of claims; errors are transient, permanent or the context's |
| Wire, `internal/wire` | none | encode and decode three messages | two passes over one text that must agree; optional hint; base64 that is not one-to-one |
| Configuration, `internal/config` | none | decode and validate HCL | defaults, limits and duplicates in loops that collect errors |
| SPIRE adapters, `internal/spire` | the published runtime, the configure mutex; per stream a receive goroutine and its channel | `Configure`, `Validate`, `Attest`, `AidAttestation`, the exchanges | `Configure` overlaps attempts and other `Configure`s while TLS files are rotated; a timeout races a late response |
| Incus (external) | instances | conditional update, guest API | operators edit, rename, delete, recreate, migrate |

Interaction: SPIRE calls the adapters over gRPC streams. The server service calls the host client,
which calls Incus; the agent service calls the guest client, which reads what Incus stores. Agent
and server exchange three messages. Nothing is persisted by the plugins; a crash forgets the
attempts and leaves keys and requests behind.

What makes each part correct:

* server: an identity goes only to a peer that reads the configuration of the VM it names; a nonce
  is visible in no other VM; every return follows the cleanup, which no cancellation reaches, and
  gives the first error met; every attempt returns;
* host client: a write changes one challenge key and undoes nobody's change;
* resolution: the one allowed instance that matches, or a denial;
* agent: it discloses only nonces, overlooks no visible nonce, and stops;
* both together: an honest agent is not denied, and a grant is to the VM it runs in;
* runtime: what is published is complete and in order, its clients are retired without taking a
  connection from a request under way, and it behaves as one register, so that an attempt runs on a
  runtime that was current when it began or later, and keeps it;
* stream: what the receive returns has a cause and stands whatever comes late, the handler returns,
  and the goroutine ends;
* shared client: a call's requests stay in its project and under its context;
* messages: an accepted message is an encoding of what it decodes to, and of one kind only;
* configuration: valid means documented;
* selectors: the sorted list says what the instance's facts say, or the whole is refused.

## Modules

| Module | Models |
|---|---|
| `AttestDomain` | `internal/attest`, `mapInstance`, payload decoding: pure operators over records, claims and snapshots |
| `IncusAPI` | Incus as the host client uses it (external), late updates, foreign activity |
| `HostClient` | `mutate`, `mutateOnce`, `matchResolvedTarget`, `isRetryable`: EXTENDS `IncusAPI` |
| `ServerAttest` | `Service.Attest` with resolution and cleanup; EXTENDS `HostClient`; server properties |
| `NonceChallenge` | the abstract contract: bind, show, withdraw, grant |
| `ServerAttestProofs`, `ServerContractProofs` | theorems about `ServerAttest`: types, nonces and cleanup; then the refinement of `NonceChallenge`, the residue and the resolution |
| `AttestationProofs` | theorems about `Attestation`, from those about the server |
| `AgentAttestProofs`, `PluginRuntimeProofs`, `AgentRuntimeProofs`, `ServerExchangeProofs`, `ScopedClientProofs` | theorems about the module each is named after |
| `AgentAttest` | `Service.Attest` of the agent over the guest client |
| `Attestation` | `ServerAttest` and an instance of `AgentAttest` per attempt, and the stream between them |
| `PluginRuntime` | `ServerPlugin.Configure`, `buildServerRuntime`, `Attest`'s snapshot and its connection, file rotation |
| `PluginConfig` | decoding and validation of both configurations, `decodeValid*`, `Validate`: pure operators |
| `ConfigEdits` | an operator who edits a working configuration; EXTENDS `PluginConfig` |
| `AgentRuntime` | `AgentPlugin.Configure`, `buildAgentRuntime`, `AidAttestation`'s snapshot; EXTENDS `ConfigEdits` |
| `RuntimeRegister` | the abstract register that both runtimes implement |
| `ServerExchange` | `serverExchange`: the receive goroutine, its channel, the select, the two contexts |
| `ScopedClient` | `Client.scoped` and `withContext`: concurrent calls on one Incus client object |
| `Wire` | the three encoders and decoders over JSON values: pure operators |
| `WireEdits` | messages up to a few edits away from an encoded one; EXTENDS `Wire` |
| `SelectorList` | `buildSelectors`, loop by loop, compared with `AttestDomain`'s set for whatever was resolved; EXTENDS `ServerAttest` |
| `MCServer`, `MCResolve`, `MCAgent`, `MCAttestation`, `MCAgentRuntime`, `MCWire` | constants for TLC |
| `MCServerProcess` | `ServerExchange` and `ScopedClient` side by side, as in one server process |

Definitions marked "Mutant" in a module are plausible mistakes in the code the next definition
models. They are used by nothing; `PROJECT.json` pairs each with the property that must notice it.

### State and actions

*Server.* `pc[a]` names the statement group an attempt is in: `idle` (before the payload), `lookup`
(one project per step), `draw` (`readRandomPair`), `set`, `send`, `recv`, `unset` (the cleanup),
`attrs`, `done`, `crashed`. While it is in `set` or `unset` its mutate call has a `phase`: `fetch`,
`await` (a PUT is outstanding), `applied` (waiting for the operation), or the class of what it
returned. `result[a]` is the primary error's class from the moment it is known, so that
`AnnotateCleanup` can keep it. Errors are reduced to the classes `mapRPCError` tells apart.
`ReturnAfterCleanup` is each `return annotateCleanup(err, armed.run())`.

*Incus.* `instances` maps (project, name) to a record. An ETag is the writable content itself, as a
digest would be: it covers configuration (with `volatile.uuid` and the profiles) and not the
location, and it repeats when the content repeats. `strays` are updates nobody waits for. `exposed`
remembers which VM's configuration ever held which nonce; `moved` which VMs were renamed or moved.

*Agent.* `stage[a]` follows `Attest`: three reads of claims, payload, challenge, `poll`/`wait`, done.
Time is counted in units of `initialPollDelay` while polling, in waits (`Tick`) and in slow reads
(`SlowRead`).

*Runtime.* Each `Configure` call is a process with `cpc`; a runtime is named by the call that built
it. TLS files have versions; a certificate and a key go together when their versions agree. `conn[h]`
is the attempt's connection in its runtime's pool: `busy` during a request, `idle` after the answer,
`closed` when `Retire` finds it idle. `AgentRuntime` has the same `Configure` without files, client
or retirement; its `Call` takes the configuration as the operator has edited it by then, and its
`Build` runs the decoder and validation of `PluginConfig` on it.

*Composition.* `Home[a]` is the VM agent `a` runs in; its guest API shows what Incus stores for that VM
(`GuestView`). `challenge` is the message on its way to the agent; `offered` and `answered`, the
agent's own, are the other two. `uprooted` remembers the attempts whose VM was migrated, renamed,
moved or deleted: only they may be denied (`HonestNeverDenied`).

*Stream.* `handler` is where `Attest` stands in its exchange (`payload`, `challenge`, `select`,
`rest`, `returned`), `worker` is the goroutine of `ReceiveResponse` (`recv`, `put`, `gone`),
`results` its channel of capacity one. `sent` and `taken` are gRPC's: messages in order, `io.EOF`
after a half-close, a status error once the stream context is over.

*Shared client.* `heap` maps each Incus client object to its context and project, `ref` a call to the
object it uses. `UseProject` copies, `WithContext` writes to its receiver, as in the pinned library.

*Messages.* A JSON value is a null, number, string, array or object; an object is a sequence of
members, each with the field it belongs to and whether it is spelled exactly like it. Decoders run
the code's passes in its order: `DecodeRaw` (flaws of the text, then `RejectDuplicateNames`),
`DecodeStrict` per struct, versions and types, required members, `NewInstanceUUID`, the hint.
`Spelled` describes a nonce string by its digits, line breaks and spare bits.

*Configuration.* An attribute is `Absent` or a value; a duration is a number or `Garbled`. The two
loops of `validate.go` are folds over what they have seen and how often they complained.

### Abstractions

* Keys and nonces are model values; `Fresh` states that the 16 random bytes of each do not repeat.
  This is the only cryptographic assumption. The comparison is modelled by its result, not its time.
* A UUID is a spelling; `Canonical` maps spellings to canonical form, `""` when it does not parse.
* Expanded configuration is the local configuration over that of the profiles (`FromProfiles`).
* An answer to `GetInstance` has the name and project that were asked for.
* The pause between two tries, and a retryable failure of the refetch, leave no trace: stuttering.
* A 5xx answer after the update was applied is a lost answer (`UpdateLost`, then `StrayApplied`).
* The RPC's own deadline is a cancellation with another class; both end the same contexts.
* A stray stands for one or more identical requests: it may stay after it was applied.
* `Create` may bring back a UUID that was deleted (a restore), never one that is in use.
* In `ServerAttest` the goroutine around `Recv` is folded into the choice between a message, an
  error and the end of a context. `ServerExchange` has the goroutine, and two of its properties
  justify the folding: an accepted response is the second message (`VerdictExplained`), and nothing
  late is used (`VerdictStands`).
* In `PluginRuntime` a configuration is accepted or refused by choice; `AgentRuntime` and
  `ConfigEdits` run the validation itself.
* In `Wire`, size, UTF-8 and trailing data are flaws a message has or has not; a name other than a
  field's in every letter case is one unknown name; numbers are 1 or not. `encoding/json` is
  external: case-insensitive names, later members win, null leaves a string and clears a pointer.
* A message of `ServerAttest` is the record that `DecodePayload` gives; `PayloadAsModelled` compares
  the two decoders.
* A peer in `ServerAttest` is any guest of any VM: it answers with any nonce its own VM's
  configuration ever held, or with none. `AgentsFitServer` shows the real agent is such a peer.
* HCL text, JSON lexing, log and error wording are left out.

## Runs

| Run | Question | Instance |
|---|---|---|
| `disturbed` | nonce confinement, residue, `CleanupBeforeReturn`, `KeyOnlyUpdates`, `FirstErrorKept`, refinement of `NonceChallenge` | one attempt, two slots and VMs, every disturbance but migration, one stray from a broken connection |
| `concurrent` | `Residency`, `KeyOnlyUpdates` | two attempts for the same or different VMs, dropped keys, symmetry |
| `resolve` | `ResolutionCorrect`, `SelectorsAsModelled`, `EveryAttemptReturns` | 16 x 11 records in two allowed projects, one project not allowed, 13 payloads; limits of 7 selectors and 9 bytes; cancel; fairness |
| `residue` (violation) | does a cleanup that reports success leave no key? | one attempt |
| `polls` | the agent's four properties | one agent, any server and host; waits 1, 2, 3, 3; timeout 12 |
| `together` | `HonestNeverDenied`, `GrantedToHome`, `AgentsFitServer` | agent and server; standalone or cluster; drop, cancel, migrate, delete, rename or move |
| `runtime` | seven properties of the server's runtime, refinement of `RuntimeRegister` and `ConfigureReturns` among them | two `Configure`s, two `Attest`s, each file replaced at most once; fairness |
| `agent_runtime` | `ValidMeansDocumented`; `AgentRuntimesServiceable`, refinement of `RuntimeRegister` | everything within two edits of a working configuration of either plugin, lists that are otherwise valid at and one above each limit; three `Configure`s of the agent beside two attestations |
| `process` | `VerdictExplained`, `VerdictStands`, `ReceiveReturns`, `WorkerReleased`; `RequestsKeepTheirScope` | one stream, up to three messages of any kind, half-close, cancel, deadlines; beside it two calls of the shared client in two projects; fairness |
| `exchange_codes` (violation) | does the end of a stream keep its code? | one stream, up to two messages |
| `wire` | four properties of the codecs | every message and everything within two edits |
| `wire_duplicates` (violation) | is a field never given twice? | within one edit |

Why the bounds are enough. The server's properties relate an attempt to its VM and to one other
actor, so one attempt among disturbances and two attempts beside each other cover the pairs (a
migration changes nothing a write depends on, and is left to `together`); the theorems remove the
bound for the safety properties. Two slots are what a rename, a replacement and an ambiguous search
need. `MaxStrays` bounds only the strays of broken connections; cancels, timeouts and crashes add
theirs without a bound. In `polls`, the cap of the delay is reached twice and the timeout is long
enough for an uncapped wait to overshoot it. Two `Configure` calls are what superseding needs, and
two attempts leave one idle and one busy when it happens. A stream needs two messages, and a third
for one that arrives too late. Calls of the shared client meet only at its one object, so two show
what any pair can do to each other. Two edits of a message are what a second member of a field needs
beside a change elsewhere, and what a response smuggled into a challenge needs; two edits of a
configuration are a pair of attributes that could mask each other. `maxProjects` and
`maxUserSelectors` are 3 instead of 32, with enough distinct names and keys for lists of three and
four entries in which nothing but the count can be wrong. Deadlock checking is off where attempts or
edits simply end. In `together` the agent polls at most twice (`PollTimeout` 1): what it adds to
`polls` and `disturbed` is who talks to whom. The runs have at most half a million states.

What `residue` shows. `UnsetNonce` returns success when the refetched configuration does not hold
the key, when the refetch answers 404, and when another instance has the name. So a set whose answer
was lost can be applied after the cleanup looked, and a VM that was renamed keeps its key. The
documentation (`docs/docs/explanation/security-model.md:116`) names only a crash as a cause of
residue. `ResidueExplained` is the exact statement that holds: a key outlives a successful cleanup
only after an abandoned set or a rename or move. Residual keys are harmless to later attempts
(`Residency` does not depend on their absence).

What `exchange_codes` shows. When a stream ends, `Recv` fails with a gRPC status error, which is no
context error to `errors.Is`. `ReceivePayload` always, and `ReceiveResponse` when its select takes
the worker's result first, return it as it is, and `mapRPCError` makes `Unknown` of it, although its
comment (`runtime.go:138`) says that cancellations and deadlines keep their codes.
`agentExchange.ReceiveChallenge` looks at the stream context first. `VerdictExplained` states what
does hold: the class `other` is a half-close or an ended stream. No safety property depends on the
code.

What `wire_duplicates` shows. The package comment says that duplicate member names are rejected at
every nesting. Names are compared exactly for that, but matched to fields regardless of case by
`encoding/json`, so `nonce` beside `NONCE` is accepted and the later one counts.
`AcceptedIsAnEncoding` is the statement that holds when no field is given twice. Both parties use
the same decoder, and what it returns is checked like any other value.

### Fairness

* `ServerAttest`: weak fairness of each handler as a whole. Each of its waits is bounded by a
  context with a timeout (`incus_timeout`, `challenge_response_timeout`, `cleanup_timeout`). Nothing
  is assumed of the peer or of Incus, and nothing of the time before the payload: `ReceivePayload`
  has no timeout, so `EveryAttemptReturns` begins at the payload.
* `AgentAttest`: weak fairness of the agent's own steps: timers fire, the poll context expires.
  `ReceiveChallenge` has no timeout, so `PollingEnds` begins at the challenge.
* `PluginRuntime`: a `Configure` that holds the mutex goes on (file reads end, the connection ends
  with the call's context); strong fairness of `Lock`, since a Go mutex hands over to a waiter that
  has starved for a millisecond.
* `ServerExchange`: weak fairness of the handler, of the worker and of the end of the
  challenge-response context (a timer); and gRPC ends the stream of a handler that has returned.
  Nothing is assumed of the peer, and nothing of the stream while the handler waits.

## Proofs

A theorem is for arbitrary constants: any number of attempts, VMs, projects, calls, messages and
edits, any timeouts. Its only premises are the named ASSUMEs of the modules, which TLC evaluates in
the runs, and the hypotheses of `ResidueAccounted`, `ResolutionHolds` and `HonestAccepted`, given
below. Each follows from an inductive invariant that TLC checked on the run's instance before it was
proved.

### The server

* `TypeCorrect`: `Spec => []TypeOK`. `TypeOK` is not inductive; `ControlInv` adds which of
  claims, target, key and nonce exist at which `pc`. Together they are `SafeTypes`.
* `Invariance`: `Spec => [](SafeTypes /\ NonceInv /\ CleanupInv)`, the inductive invariant.
  `NonceInv` has five parts: keys and nonces are distinct (`DistinctInv`); each challenge key in a
  configuration is that of an attempt whose target is this VM (`ConfigInv`); so is each nonce ever
  exposed (`ExposedInv`); each request, awaited or stray, has an ETag with the target's UUID and
  a body that differs in the attempt's own key (`RequestInv`); and an attempt about to grant was
  answered from its target (`VerdictInv`). `RequestInv` is what carries late updates: an ETag is
  content, so whenever such a request is applied it meets the same VM.
* `NonceConfined`, `ResidencyHolds`: `[]NonceReachesOnlyTarget`, `[]Residency`, from the invariant.
* `UpdatesTouchOneKey`: the action property `KeyOnlyUpdates`, from `RequestInv`.
* `ContractImplemented`: `Spec => ImplementsContract`, the refinement of `NonceChallenge`. Two more
  invariants are needed. What a stored configuration shows is recorded as shown (`RevealedInv`), so
  that an operator's edit, a rename or a restore shows nothing new. No verdict precedes the cleanup,
  and the nonce of an attempt that may still be granted was shown to its VM (`ProgressInv`). Then
  each action of `Next` maps to one action of the contract or to a stutter (`HandlerMoves` and the
  lemmas before it): the draw binds, an applied set shows, the end of the cleanup withdraws or
  refuses, the attributes grant, and a crash loses all running attempts at once.
* `CleanupPrecedesReturn`: `Spec => []CleanupBeforeReturn`. The order is `CleanupInv`. That no
  cancellation reaches the cleanup is inductive as `CancelInv`: a mutate call that ended as cancelled
  was `SetNonce` under a cancelled RPC, and the right answer comes only after it.
* `FirstErrorReturned`: the action property `FirstErrorKept`. `ProgressInv` leaves `CleanupReturns` as
  the only step that can meet an error already found.
* `ResidueAccounted`: `OneTypePerUUID => (Spec => []ResidueExplained)`. The invariant `ResidueInv`
  says: an instance keeps its UUID and type, and what was resolved is a VM (`KindInv`); a key is at
  the slot its attempt put it in, unless its VM was moved (`PlaceInv`); a request that would set a
  key is awaited by `SetNonce`, or its attempt gave up on it (`SendInv`); and from the moment
  `UnsetNonce` found the key gone or removed it, a key that is still resident is explained
  (`CleanInv`).

  The hypothesis is needed. The proof attempt without it fails where `UnsetNonce` skips an instance
  that is no VM: a late set could land on a container restored with the VM's UUID and content, since
  the ETag does not cover the type, and the cleanup would take the key for gone. Incus gives each
  instance a UUID of its own, which is what `OneTypePerUUID` says of the records; the populations of
  the server runs satisfy it. Nothing else in the project depends on it.

* `ResolutionHolds`: `SteadyIdentities => (Spec => []ResolutionCorrect)`. The search is many steps
  long, and other attempts' writes, operators' edits and late updates fall between two lookups. None
  of them changes which slots hold a match (`StepKeepsPlaces`, from `RequestInv`). So the invariant
  `ResolvedInv` can relate the count to the matches behind it: with none counted, every match is
  still ahead; with one, it is the one remembered, and no longer ahead; with more, there are two
  (`Counted`). The hypothesis says that nobody migrates, moves, creates or deletes instances and that
  the allow-list has no duplicate; the first is needed, since the property speaks of Incus as it is
  now and the search saw it project by project, the second is what validation establishes. The run
  `resolve` evaluates it.

### Agents and server together

* `AgentsFit`: `AttestationSpec => AgentsFitServer`. Each step of the composition is a step of
  `ServerAttest` or leaves the handlers alone, so every theorem above holds of it. The invariant is
  `TogetherInv`: the server's, and `PeerInv` of the agents. What an agent claims is about its own VM
  and complete before it is sent (`ClaimInv`); the challenge and the key it polls are its attempt's
  (`AskInv`); an answer is the attempt's nonce, was readable in the agent's VM, and ends the agent
  (`AnswerInv`); only the agent answers (`ResponderInv`). `PeersAssumption` says that the handlers'
  `Payloads` include what the agents could send.
* `GrantReachesHome`: `AttestationSpec => []GrantedToHome`, from `TogetherInv` and `VerdictInv`.
* `HonestAccepted`: `Deployable => (AttestationSpec => []HonestNeverDenied)`. The invariant
  `HonestInv` says: UUIDs stay unique and records mappable (`PlacesInv`); while the VM of an agent
  keeps its identity, what the agent has gathered so far, after one, two or three reads, is what the
  record says (`RootedInv`); the search has counted that VM exactly if its project is behind
  (`SearchInv`); and what was found is a valid instance (`FoundInv`). `Deployable` describes a
  deployment in which the agents can be attested at all: a VM in an allowed project that the hint does
  not contradict, mappable records with unique UUIDs, attributes within SPIRE's limits. The run
  `together` evaluates it (`DeployableAssumption`).

### The agent, the plugins, the stream and the shared client

* Agent: `AgentTypes`, `AgentDisclosure`, `AgentTimeouts` (`DisclosesOnlyNonces`,
  `TimeoutMeansLate`). `TimeoutMeansLate` speaks of the last moment only; inductively, while all
  reads were prompt, the time a visible value went unobserved plus what is left of the wait is at
  most the delay, and the delay at most the cap (`PollInv`).
* Server runtime: `RuntimeTypes`, `PublishedComplete`, `NoRegression`, `ClientsRetired`,
  `RequestsSurvive` (an action property) and `ServerRegister` (the refinement of
  `RuntimeRegister`). All rest on `LockInv`, that the mutex is held by exactly the call between
  `Lock` and its return. `SwapInv` says which calls have published and that the last of them is in
  force; `ClientInv` counts open clients in every stage of the holder and not only between
  calls; `OrderInv` says that a call which has yet to publish has read nothing older than what was
  published, which holds because it began to read after the previous holder had swapped.
* Agent runtime: `AgentServiceable`, `AgentRegister`, by the same argument without files or clients;
  what was built is the validated request's runtime (`BuildInv`), what is held was stored
  (`StoredInv`).
* Stream: `ExchangeTypes`, `ExchangeExplained`, `ExchangeFinal` (the action property
  `VerdictStands`: every stage that returns a verdict has none before it, `StageInv`). The worker's
  one result says what the stream was like when `Recv` returned, and that stays true while it waits
  in the channel (`Genuine`, `ResultInv`); `WorkerInv` says that no one else receives in the meantime.
* Shared client: `ScopeTypes`, `ScopeKept`: a call past `UseProject` refers to its
  own copy and the shared object is never written (`CopyInv`).

Assumptions worth knowing. The value that stands for "none" is no member of the sets it is
joined to (`Absent` in `UUIDAssumption`, `KeyAssumption`, `AttributesAssumption` and, beside the empty
string, `AgentAssumption`; `None` in `RuntimeAssumption` and `AgentRuntimeAssumption`): it is a nil
pointer, or a second result of a Go function. `UUIDAssumption` says that parsing a canonical UUID
gives it back; `ConfigurationAssumption` and the bounds in `AgentAssumption` are what validation
establishes.

### Only model-checked

* Liveness under fairness (`EveryAttemptReturns`, `PollingEnds`, `ConfigureReturns`,
  `ReceiveReturns`, `WorkerReleased`): out of the prover's reach.
* The codecs (`AcceptedIsAnEncoding`, `DecodesToWhatWasMeant`, `KindsNeverConfused`,
  `PayloadAsModelled`): JSON values nest and their operators are recursive.
* `ValidMeansDocumented` and `SelectorsAsModelled`: what a fold over a list of any length computes
  takes an induction over data.

## Not modelled

The lexing of JSON and the parsing of HCL, which are libraries: a text becomes a value or is refused.
The wording of errors, notes and logs. The idle timeout of `net/http`'s pool: a connection spared by
`CloseIdleConnections` is left to it. The read of `/1.0` after the connection is a constant (the
standalone location); the documentation accepts that it is refreshed by the next `Configure` only.
The executables hand one plugin to the SDK and keep no state; mocks are generated; packaging and
documentation are not part of the running system.

## Plan

Done: domain, Incus, host client, server service, contract; agent; composition; both runtimes and
their register; stream; shared client; codecs; configuration; selectors; a theorem for every safety
property of the concurrent parts.

Left, with a prover that has induction over data: the codecs, the validation loops and the selector
list for inputs of any length, which stay bounded checks here; and liveness, which stays with TLC.
