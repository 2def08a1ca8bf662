------------------------ MODULE ScopedClientProofs --------------------------
(***************************************************************************)
(* For any number of calls and projects: sharing one Incus client object   *)
(* is safe, because each call works on a copy of its own and the shared    *)
(* object is never written.                                                *)
(***************************************************************************)
EXTENDS ScopedClient, TLAPS

(* What UseProject's copy provides: the shared object stays as Configure   *)
(* left it, a call past the copy refers to its own object, that object has *)
(* the call's project, and the call's context once it was attached.        *)
CopyInv ==
    /\ heap["shared"] = [ctx |-> "configure", project |-> Default]
    /\ \A c \in Calls :
        /\ step[c] # "idle" => ref[c] = c /\ heap[c].project = scope[c]
        /\ step[c] \in {"requesting", "done"} => heap[c].ctx = c

ScopeInv == ScopeTypeOK /\ CopyInv

(* At first there is the shared object, as Configure left it.              *)
LEMMA ScopeInitially == ScopeInit => ScopeInv
<1> SUFFICES ASSUME ScopeInit PROVE ScopeInv
  OBVIOUS
<1>1. ScopeTypeOK
  BY ScopeAssumption DEF ScopeInit, ScopeTypeOK, Objects, Contexts
<1>2. CopyInv
  BY DEF ScopeInit, CopyInv, Objects
<1> QED
  BY <1>1, <1>2 DEF ScopeInv

(* Every action touches at most the acting call's own object.              *)
LEMMA ScopeStep == ScopeInv /\ [ScopeNext]_scopeVars => ScopeInv'
<1> SUFFICES ASSUME ScopeInv, [ScopeNext]_scopeVars PROVE ScopeInv'
  OBVIOUS
<1> USE DEF ScopeInv
<1>0. \A c \in Calls : c # "shared" /\ c # "none" /\ c # "configure"
  BY ScopeAssumption
<1>1. ASSUME NEW c \in Calls, Copy(c) PROVE ScopeInv'
  <2>1. heap["shared"].ctx \in Contexts /\ scope[c] \in Projects
    BY DEF ScopeTypeOK, Objects
  <2>2. ScopeTypeOK'
    BY <1>1, <2>1 DEF Copy, UseProject, ScopeTypeOK, Objects
  <2>3. CopyInv'
    BY <1>0, <1>1 DEF Copy, UseProject, ScopeTypeOK, CopyInv, Objects
  <2> QED
    BY <1>1, <2>2, <2>3 DEF Copy
<1>2. ASSUME NEW c \in Calls, WithContext(c) PROVE ScopeInv'
  <2>1. ref[c] = c
    BY <1>2 DEF WithContext, CopyInv
  <2>2. ScopeTypeOK'
    BY <1>2, <2>1 DEF WithContext, ScopeTypeOK, Objects, Contexts
  <2>3. CopyInv'
    BY <1>0, <1>2, <2>1 DEF WithContext, ScopeTypeOK, CopyInv, Objects
  <2> QED
    BY <1>2, <2>2, <2>3 DEF WithContext
<1>3. ASSUME NEW c \in Calls, Finish(c) PROVE ScopeInv'
  BY <1>3 DEF Finish, ScopeTypeOK, CopyInv
<1>4. CASE UNCHANGED scopeVars
  BY <1>4 DEF scopeVars, ScopeTypeOK, CopyInv
<1> QED
  BY <1>1, <1>2, <1>3, <1>3, <1>4 DEF ScopeNext

(* The invariant holds throughout.                                         *)
LEMMA ScopeInvariance == ScopeSpec => []ScopeInv
BY ScopeInitially, ScopeStep, PTL DEF ScopeSpec

(* Every client object always has a context and a project.                 *)
THEOREM ScopeTypes == ScopeSpec => []ScopeTypeOK
<1>1. ScopeInv => ScopeTypeOK
  BY DEF ScopeInv
<1> QED
  BY <1>1, ScopeInvariance, PTL

(* Client.scoped: a call's requests run in the project it was asked for    *)
(* and under its own context, however the copies of other calls interleave. *)
THEOREM ScopeKept == ScopeSpec => []RequestsKeepTheirScope
<1>1. ScopeInv => RequestsKeepTheirScope
  <2> SUFFICES ASSUME ScopeInv, NEW c \in Calls, step[c] = "requesting"
               PROVE  heap[ref[c]] = [ctx |-> c, project |-> scope[c]]
    BY DEF RequestsKeepTheirScope
  <2>1. heap[c] \in [ctx : Contexts, project : Projects]
    BY DEF ScopeInv, ScopeTypeOK, Objects
  <2>2. ref[c] = c /\ heap[c].project = scope[c] /\ heap[c].ctx = c
    BY DEF ScopeInv, CopyInv
  <2> QED
    BY <2>1, <2>2
<1> QED
  BY <1>1, ScopeInvariance, PTL
=============================================================================
