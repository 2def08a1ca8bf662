---------------------------- MODULE ConfigEdits -----------------------------
(***************************************************************************)
(* An operator edits a working configuration of either plugin, one         *)
(* attribute at a time; SPIRE has the plugin validate the result, and      *)
(* AgentRuntime has the agent plugin configured with it.                   *)
(***************************************************************************)
EXTENDS PluginConfig

CONSTANTS
    StringEdits,    \* what an operator may set a string attribute to
    DurationEdits,  \* the same for a duration
    ProjectEdits,   \* the same for the list of projects
    SelectorEdits,  \* the same for the list of user selectors
    MaxEdits        \* bound: attributes changed

VARIABLES
    plugin,  \* whose configuration it is
    req,     \* the Config request it arrives in
    edits    \* attributes changed so far

configVars == <<plugin, req, edits>>

WorkingServer ==
    [fits |-> TRUE, incus_endpoint |-> "x", tls_ca_path |-> "x", tls_cert_path |-> "x",
     tls_key_path |-> "x", projects |-> <<"x">>, user_selectors |-> Absent,
     incus_timeout |-> Absent, challenge_response_timeout |-> Absent, cleanup_timeout |-> Absent]

WorkingAgent == [fits |-> TRUE, project |-> Absent, poll_timeout |-> Absent]

ConfigInit ==
    /\ plugin \in {"server", "agent"}
    /\ req = [core |-> "x", hcl |-> IF plugin = "server" THEN WorkingServer ELSE WorkingAgent]
    /\ edits = 0

(* What an attribute may be set to.                                        *)
EditsOf(attr) ==
    CASE attr = "fits"                                -> {FALSE}
      [] attr = "projects"                            -> ProjectEdits
      [] attr = "user_selectors"                      -> SelectorEdits
      [] attr \in {"incus_timeout", "challenge_response_timeout",
                   "cleanup_timeout", "poll_timeout"} -> DurationEdits
      [] OTHER                                        -> StringEdits

Edit ==
    /\ edits < MaxEdits /\ req # Absent
    /\ \E attr \in DOMAIN req.hcl : \E v \in EditsOf(attr) : req' = [req EXCEPT !.hcl[attr] = v]
    /\ edits' = edits + 1
    /\ UNCHANGED plugin

(* The core configuration changes or is missing, or the request is nil.    *)
EditCore ==
    /\ edits < MaxEdits /\ req # Absent
    /\ \/ \E td \in StringEdits : req' = [req EXCEPT !.core = td]
       \/ req' = Absent
    /\ edits' = edits + 1
    /\ UNCHANGED plugin

Operate == Edit \/ EditCore
-----------------------------------------------------------------------------
(* Properties.                                                             *)

PositiveOrDefault(d) == d = Absent \/ (d # Garbled /\ d > 0)

(* docs/docs/reference/configuration.md, table by table.                   *)
ServerDocumented(raw) ==
    /\ raw.fits
    /\ \A a \in {"incus_endpoint", "tls_ca_path", "tls_cert_path", "tls_key_path"} :
        raw[a] \notin {Absent, ""}
    /\ \A a \in {"incus_timeout", "challenge_response_timeout", "cleanup_timeout"} :
        PositiveOrDefault(raw[a])
    /\ raw.projects # Absent /\ Len(raw.projects) \in 1 .. MaxProjects
    /\ IsInjective(raw.projects) /\ "" \notin Range(raw.projects)
    /\ raw.user_selectors # Absent =>
        /\ Len(raw.user_selectors) <= MaxUserSelectors
        /\ IsInjective(raw.user_selectors)
        /\ Range(raw.user_selectors) \subseteq
             UserPrefixed \ ({BareUser, ReservedKey} \cup ReservedPrefixed)

AgentDocumented(raw) == raw.fits /\ PositiveOrDefault(raw.poll_timeout)

(* A request is valid exactly when it says what the reference documents:   *)
(* the validation loops, defaults and early returns neither miss an entry  *)
(* nor refuse a documented one.                                            *)
ValidMeansDocumented ==
    CASE plugin = "server" ->
            ServerRequestValid(req) <=>
                req # Absent /\ req.core \notin {Absent, ""} /\ ServerDocumented(req.hcl)
      [] plugin = "agent" ->
            AgentRequestValid(req) <=>
                req # Absent /\ req.core \notin {Absent, ""} /\ AgentDocumented(req.hcl)
=============================================================================
