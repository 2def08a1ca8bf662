--------------------------- MODULE MCServerProcess ---------------------------
(***************************************************************************)
(* One server plugin process: a stream's handler and worker beside the     *)
(* calls that attempts make with the one shared Incus client.              *)
(***************************************************************************)
EXTENDS ServerExchange, ScopedClient

ProcessInit == Init /\ ScopeInit

ProcessNext ==
    \/ Next /\ UNCHANGED scopeVars
    \/ ScopeNext /\ UNCHANGED vars

ProcessSpec ==
    /\ ProcessInit
    /\ [][ProcessNext]_<<vars, scopeVars>>
    /\ Fairness
=============================================================================
