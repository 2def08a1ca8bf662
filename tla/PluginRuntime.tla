--------------------------- MODULE PluginRuntime ----------------------------
(***************************************************************************)
(* The server plugin beside its attempts (internal/spire): Configure       *)
(* builds a complete runtime under a mutex, swaps it in atomically and     *)
(* retires the old one; Attest loads one snapshot and keeps it.  Meanwhile *)
(* operators replace the three TLS files, one at a time.                   *)
(*                                                                         *)
(* A runtime is known by the Configure call that built it.                 *)
(***************************************************************************)
EXTENDS Naturals, Sequences

CONSTANTS
    Configures,   \* Configure calls
    Handlers,     \* Attest calls
    MaxVersion,   \* bound: each file is replaced at most so often
    None

ASSUME RuntimeAssumption ==
    /\ None \notin Configures
    /\ MaxVersion \in Nat
    /\ None \notin 0 .. MaxVersion

Roles == {"tls_ca_path", "tls_cert_path", "tls_key_path"}

Versions == 0 .. MaxVersion

VARIABLES
    files,      \* role -> version of the file on disk
    lock,       \* configureMu: its holder, or None
    published,  \* runtime: the runtime loaded by Attest, or None
    cpc,        \* Configure call -> where it is
    loaded,     \* Configure call -> role -> the version it read
    old,        \* Configure call -> the runtime its Swap returned, or None
    reply,      \* Configure call -> what it returned
    connected,  \* runtimes whose host client connected to Incus
    closed,     \* runtimes whose idle connections were closed
    hpc,        \* Attest call -> where it is
    using,      \* Attest call -> its snapshot, or None
    conn,       \* Attest call -> its connection in its runtime's pool
    swaps       \* history: runtimes in the order of their publication

configureVars == <<lock, published, cpc, loaded, old, reply, connected, closed, swaps>>
attestVars == <<hpc, using, conn>>
vars == <<files, configureVars, attestVars>>

ConfigureStages == {"idle", "entry", "decode"} \cup Roles \cup {"connect", "swap", "retire", "done"}

Replies == {"none", "ok", "invalid", "other", "canceled"}

RuntimeTypeOK ==
    /\ files \in [Roles -> Versions]
    /\ lock \in Configures \cup {None}
    /\ published \in Configures \cup {None}
    /\ cpc \in [Configures -> ConfigureStages]
    /\ loaded \in [Configures -> [Roles -> Versions \cup {None}]]
    /\ old \in [Configures -> Configures \cup {None}]
    /\ reply \in [Configures -> Replies]
    /\ connected \subseteq Configures
    /\ closed \subseteq connected
    /\ hpc \in [Handlers -> {"idle", "entry", "run", "done"}]
    /\ using \in [Handlers -> Configures \cup {None}]
    /\ conn \in [Handlers -> {"none", "busy", "idle", "closed"}]
    /\ swaps \in Seq(Configures)

Init ==
    /\ files = [r \in Roles |-> 0]
    /\ lock = None
    /\ published = None
    /\ cpc = [c \in Configures |-> "idle"]
    /\ loaded = [c \in Configures |-> [r \in Roles |-> None]]
    /\ old = [c \in Configures |-> None]
    /\ reply = [c \in Configures |-> "none"]
    /\ connected = {}
    /\ closed = {}
    /\ hpc = [h \in Handlers |-> "idle"]
    /\ using = [h \in Handlers |-> None]
    /\ conn = [h \in Handlers |-> "none"]
    /\ swaps = <<>>

-----------------------------------------------------------------------------
(* Configure.                                                              *)

Goes(c, s) == cpc' = [cpc EXCEPT ![c] = s]

(* Mutant: a return that leaves the mutex locked.                          *)
ReturnsLocked(c, answer) ==
    /\ Goes(c, "done")
    /\ reply' = [reply EXCEPT ![c] = answer]
    /\ UNCHANGED lock

(* return: the deferred Unlock runs with it.                               *)
Returns(c, answer) ==
    /\ Goes(c, "done")
    /\ reply' = [reply EXCEPT ![c] = answer]
    /\ lock' = IF lock = c THEN None ELSE lock

Call(c) ==
    /\ cpc[c] = "idle"
    /\ Goes(c, "entry")
    /\ UNCHANGED <<files, attestVars, lock, published, loaded, old, reply, connected, closed, swaps>>

(* Mutant: no mutex.                                                       *)
EnterUnlocked(c) ==
    /\ cpc[c] = "entry"
    /\ Goes(c, "decode")
    /\ UNCHANGED <<files, attestVars, lock, published, loaded, old, reply, connected, closed, swaps>>

Lock(c) ==
    /\ cpc[c] = "entry"
    /\ lock = None
    /\ lock' = c
    /\ Goes(c, "decode")
    /\ UNCHANGED <<files, attestVars, published, loaded, old, reply, connected, closed, swaps>>

(* A missing request or core configuration, HCL that does not decode, or   *)
(* values ValidateServer refuses.                                          *)
DecodeValidServer(c) ==
    /\ cpc[c] = "decode"
    /\ \/ Goes(c, "tls_ca_path") /\ UNCHANGED <<reply, lock>>
       \/ Returns(c, "invalid")
    /\ UNCHANGED <<files, attestVars, published, loaded, old, connected, closed, swaps>>

AfterRole(r) == CASE r = "tls_ca_path" -> "tls_cert_path"
                  [] r = "tls_cert_path" -> "tls_key_path"
                  [] r = "tls_key_path" -> "connect"

(* One of the three files is read, or is unreadable or too large.          *)
ReadCredential(c) ==
    /\ cpc[c] \in Roles
    /\ \/ /\ loaded' = [loaded EXCEPT ![c][cpc[c]] = files[cpc[c]]]
          /\ Goes(c, AfterRole(cpc[c]))
          /\ UNCHANGED <<reply, lock>>
       \/ Returns(c, "other") /\ UNCHANGED loaded
    /\ UNCHANGED <<files, attestVars, published, old, connected, closed, swaps>>

(* A client certificate is accepted only with the key it belongs to.       *)
PairMatches(c) == loaded[c]["tls_cert_path"] = loaded[c]["tls_key_path"]

Connect(c) ==
    /\ cpc[c] = "connect"
    /\ PairMatches(c)
    /\ connected' = connected \cup {c}
    /\ \/ /\ Goes(c, "swap")
          /\ UNCHANGED <<reply, lock, closed>>
       \/ (* Incus /1.0 cannot be read or names no server.                 *)
          /\ closed' = closed \cup {c}
          /\ \E answer \in {"other", "canceled"} : Returns(c, answer)
    /\ UNCHANGED <<files, attestVars, published, loaded, old, swaps>>

(* Mutant: the build's error is not looked at.                             *)
IgnoreConnectFailure(c) ==
    /\ cpc[c] = "connect"
    /\ Goes(c, "swap")
    /\ UNCHANGED <<files, attestVars, lock, reply, published, loaded, old, connected, closed, swaps>>

ConnectFails(c) ==
    /\ cpc[c] = "connect"
    /\ \E answer \in {"other", "canceled"} : Returns(c, answer)
    /\ UNCHANGED <<files, attestVars, published, loaded, old, connected, closed, swaps>>

(* Mutant: only the first runtime is ever published.                       *)
PublishOnce(c) == published' = IF published = None THEN c ELSE published

Publish(c) == published' = c

(* runtime.Swap.                                                           *)
Swap(c) ==
    /\ cpc[c] = "swap"
    /\ Publish(c)
    /\ old' = [old EXCEPT ![c] = published]
    /\ swaps' = Append(swaps, c)
    /\ Goes(c, "retire")
    /\ UNCHANGED <<files, attestVars, lock, loaded, reply, connected, closed>>

(* Mutant: the superseded runtime is forgotten.                            *)
RetireNothing(c) == UNCHANGED <<closed, conn>>

(* Mutant: the superseded client is disconnected.                          *)
RetireAll(c) ==
    /\ closed' = closed \cup ({old[c]} \ {None})
    /\ conn' = [h \in Handlers |->
                 IF using[h] = old[c] /\ conn[h] # "none" THEN "closed" ELSE conn[h]]

(* old.closeIdle(): idle connections only; requests under way keep theirs. *)
Retire(c) ==
    /\ closed' = closed \cup ({old[c]} \ {None})
    /\ conn' = [h \in Handlers |->
                 IF using[h] = old[c] /\ conn[h] = "idle" THEN "closed" ELSE conn[h]]

RetireAndReturn(c) ==
    /\ cpc[c] = "retire"
    /\ Retire(c)
    /\ Returns(c, "ok")
    /\ UNCHANGED <<files, published, loaded, old, connected, swaps, hpc, using>>

ConfigureStep(c) ==
    \/ Lock(c) \/ DecodeValidServer(c) \/ ReadCredential(c)
    \/ Connect(c) \/ ConnectFails(c) \/ Swap(c) \/ RetireAndReturn(c)

-----------------------------------------------------------------------------
(* Attest.                                                                 *)

Arrive(h) ==
    /\ hpc[h] = "idle"
    /\ hpc' = [hpc EXCEPT ![h] = "entry"]
    /\ UNCHANGED <<files, configureVars, using, conn>>

(* runtime.Load; a nil runtime is FailedPrecondition.                      *)
LoadRuntime(h) ==
    /\ hpc[h] = "entry"
    /\ using' = [using EXCEPT ![h] = published]
    /\ hpc' = [hpc EXCEPT ![h] = IF published = None THEN "done" ELSE "run"]
    /\ UNCHANGED <<files, configureVars, conn>>

(* Mutant: the plugin's runtime is loaded again for every request.         *)
RequestReloads(h) ==
    /\ hpc[h] = "run"
    /\ conn[h] # "busy"
    /\ using' = [using EXCEPT ![h] = published]
    /\ conn' = [conn EXCEPT ![h] = "busy"]
    /\ UNCHANGED <<files, configureVars, hpc>>

(* A request to Incus takes the idle connection or dials one, and gives it *)
(* back with the answer.                                                   *)
Request(h) ==
    /\ hpc[h] = "run"
    /\ conn[h] # "busy"
    /\ conn' = [conn EXCEPT ![h] = "busy"]
    /\ UNCHANGED <<files, configureVars, hpc, using>>

Answer(h) ==
    /\ conn[h] = "busy"
    /\ conn' = [conn EXCEPT ![h] = "idle"]
    /\ UNCHANGED <<files, configureVars, hpc, using>>

Finish(h) ==
    /\ hpc[h] = "run"
    /\ conn[h] # "busy"
    /\ hpc' = [hpc EXCEPT ![h] = "done"]
    /\ UNCHANGED <<files, configureVars, using, conn>>

-----------------------------------------------------------------------------
(* An operator replaces one of the files.                                  *)
Rotate(r) ==
    /\ files[r] < MaxVersion
    /\ files' = [files EXCEPT ![r] = @ + 1]
    /\ UNCHANGED <<configureVars, attestVars>>

Next ==
    \/ \E c \in Configures : Call(c) \/ ConfigureStep(c)
    \/ \E h \in Handlers : 
        Arrive(h) \/ LoadRuntime(h) \/ Request(h) \/ Answer(h) \/ Finish(h)
    \/ \E r \in Roles : Rotate(r)

Spec == Init /\ [][Next]_vars

(* The reads and the connection end, the latter with the call's context,   *)
(* and a Go mutex starves none of its waiters.                             *)
Fairness == \A c \in Configures :
    SF_vars(Lock(c)) /\ WF_vars(ConfigureStep(c) /\ cpc[c] # "entry")

FairSpec == Spec /\ Fairness
-----------------------------------------------------------------------------
(* Properties.                                                             *)

(* What Attest can load is complete: all three files read, a certificate   *)
(* with its own key even if the files were replaced in between, and a      *)
(* connected client.  A Configure that failed has published nothing.       *)
PublishedIsComplete ==
    \A c \in Configures : c = published \/ (\E h \in Handlers : using[h] = c) =>
        /\ \A r \in Roles : loaded[c][r] # None
        /\ PairMatches(c)
        /\ c \in connected
        /\ reply[c] \in {"none", "ok"}

(* Runtimes are published in the order in which their files were read: a   *)
(* slow Configure never brings replaced credentials back.                  *)
CredentialsNeverRegress ==
    \A i, j \in DOMAIN swaps : i < j =>
        \A r \in Roles : loaded[swaps[i]][r] <= loaded[swaps[j]][r]

(* Whenever no Configure is under way, every client that ever connected is *)
(* the published one or had its idle connections closed; the published     *)
(* one's are open.                                                         *)
NoForgottenClient ==
    lock = None => connected \ closed = {published} \ {None}

(* Reconfiguring never takes a connection from a request under way: an     *)
(* attempt on the superseded runtime can still remove its nonce.           *)
InFlightSurvives ==
    [][\A h \in Handlers : conn[h] = "busy" => conn'[h] \in {"busy", "idle"}]_vars

Register == INSTANCE RuntimeRegister WITH
    value  <- published,
    writes <- [c \in Configures |->
                 CASE cpc[c] = "idle"   -> "idle"
                   [] cpc[c] = "retire" -> "applied"
                   [] cpc[c] = "done"   -> IF reply[c] = "ok" THEN "ok" ELSE "failed"
                   [] OTHER             -> "called"],
    reads  <- [h \in Handlers |->
                 CASE hpc[h] = "idle"  -> "idle"
                   [] hpc[h] = "entry" -> "begun"
                   [] OTHER            -> "read"],
    got    <- using

(* Concurrent Configure and Attest calls see the server's runtime as one   *)
(* register: a Configure that fails anywhere, in decoding, in the files or *)
(* at the connection, leaves the runtime in force as it was; an Attest     *)
(* that begins after a Configure returned success runs on that runtime or  *)
(* on a later one, and keeps it whatever is swapped in underneath.         *)
ServerImplementsRegister == Register!Spec

(* Every Configure returns, whichever calls compete for the mutex.         *)
ConfigureReturns ==
    \A c \in Configures : cpc[c] = "entry" ~> cpc[c] = "done"
=============================================================================
