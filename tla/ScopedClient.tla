---------------------------- MODULE ScopedClient ----------------------------
(***************************************************************************)
(* How concurrent calls of the host client share one Incus client object   *)
(* (internal/incus/host/client.go): scoped copies the shared object for a  *)
(* project and then attaches the call's context to the copy.  In the Incus *)
(* library UseProject returns a copy, context included, while WithContext  *)
(* changes the object it is called on; the shared object carries the       *)
(* context it was connected under, which is over once Configure returned.  *)
(***************************************************************************)
CONSTANTS
    Calls,    \* Lookup, SetNonce and UnsetNonce calls; each has a context
    Projects,
    Default   \* the project a client object starts with

ASSUME ScopeAssumption ==
    /\ Default \in Projects
    /\ {"shared", "configure", "none"} \cap Calls = {}

Contexts == Calls \cup {"configure"}
Objects == Calls \cup {"shared"}

VARIABLES
    heap,   \* object -> its context and project; a call's own is its copy
    ref,    \* call -> the object it works with, or "none"
    scope,  \* call -> the project it was asked for
    step    \* call -> where it is

scopeVars == <<heap, ref, scope, step>>

(* The types of all state: every client object has the context of some     *)
(* call or of Configure.                                                   *)
ScopeTypeOK ==
    /\ heap \in [Objects -> [ctx : Contexts, project : Projects]]
    /\ ref \in [Calls -> Objects \cup {"none"}]
    /\ scope \in [Calls -> Projects]
    /\ step \in [Calls -> {"idle", "scoping", "requesting", "done"}]

ScopeInit ==
    /\ heap = [o \in Objects |-> [ctx |-> "configure", project |-> Default]]
    /\ ref = [c \in Calls |-> "none"]
    /\ scope \in [Calls -> Projects]
    /\ step = [c \in Calls |-> "idle"]

(* Mutant: no copy is made for the project the shared object already has.  *)
UseProjectIfNeeded(c) ==
    IF scope[c] = heap["shared"].project
    THEN ref' = [ref EXCEPT ![c] = "shared"] /\ UNCHANGED heap
    ELSE /\ heap' = [heap EXCEPT ![c] = [ctx |-> heap["shared"].ctx, project |-> scope[c]]]
         /\ ref' = [ref EXCEPT ![c] = c]

(* c.server.UseProject(project).                                           *)
UseProject(c) ==
    /\ heap' = [heap EXCEPT ![c] = [ctx |-> heap["shared"].ctx, project |-> scope[c]]]
    /\ ref' = [ref EXCEPT ![c] = c]

(* scoped: the copy ...                                                    *)
Copy(c) ==
    /\ step[c] = "idle"
    /\ UseProject(c)
    /\ step' = [step EXCEPT ![c] = "scoping"]
    /\ UNCHANGED scope

(* Mutant: a nil context is attached.                                      *)
WithNilContext(c) ==
    /\ step[c] = "scoping"
    /\ heap' = [heap EXCEPT ![ref[c]].ctx = "none"]
    /\ step' = [step EXCEPT ![c] = "requesting"]
    /\ UNCHANGED <<ref, scope>>

(* ... and clone.WithContext(ctx) on it.                                   *)
WithContext(c) ==
    /\ step[c] = "scoping"
    /\ heap' = [heap EXCEPT ![ref[c]].ctx = c]
    /\ step' = [step EXCEPT ![c] = "requesting"]
    /\ UNCHANGED <<ref, scope>>

(* The call's requests run with the object it refers to; it returns.       *)
Finish(c) ==
    /\ step[c] = "requesting"
    /\ step' = [step EXCEPT ![c] = "done"]
    /\ UNCHANGED <<heap, ref, scope>>

ScopeNext == \E c \in Calls : Copy(c) \/ WithContext(c) \/ Finish(c)

ScopeSpec == ScopeInit /\ [][ScopeNext]_scopeVars
-----------------------------------------------------------------------------
(* Properties.                                                             *)

(* A call that can make requests makes them in the project it was asked    *)
(* for and under its own context, whatever calls run beside it: neither    *)
(* Configure's context, which is over, nor the deadline or cancellation of *)
(* another attempt ends them.                                              *)
RequestsKeepTheirScope ==
    \A c \in Calls : step[c] = "requesting" =>
        heap[ref[c]] = [ctx |-> c, project |-> scope[c]]
=============================================================================
