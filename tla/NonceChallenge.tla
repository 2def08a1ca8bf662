--------------------------- MODULE NonceChallenge ---------------------------
(***************************************************************************)
(* What the server side promises, without saying how: each attempt is      *)
(* bound to one VM, its nonce is shown to that VM and to no other, and the *)
(* VM's identity is granted only after the VM was shown the nonce and the  *)
(* nonce was withdrawn.  A nonce may be shown late, after the attempt is   *)
(* over: a write whose outcome the server does not know can still land.    *)
(***************************************************************************)
CONSTANTS Attempts, VMs, None

VARIABLES
    stage,   \* attempt -> its progress
    bound,   \* attempt -> the VM it challenges, or None
    shown,   \* the <<attempt, VM>> such that the VM could read the nonce
    agent    \* attempt -> the VM whose identity was granted, or None

vars == <<stage, bound, shown, agent>>

Final == {"granted", "refused", "lost"}

Init ==
    /\ stage = [a \in Attempts |-> "open"]
    /\ bound = [a \in Attempts |-> None]
    /\ shown = {}
    /\ agent = [a \in Attempts |-> None]

Advance(a, s) == stage' = [stage EXCEPT ![a] = s]

Bind(a, vm) ==
    /\ stage[a] = "open"
    /\ Advance(a, "challenged")
    /\ bound' = [bound EXCEPT ![a] = vm]
    /\ UNCHANGED <<shown, agent>>

Show(a) ==
    /\ bound[a] # None
    /\ shown' = shown \cup {<<a, bound[a]>>}
    /\ UNCHANGED <<stage, bound, agent>>

Withdraw(a) ==
    /\ stage[a] = "challenged"
    /\ <<a, bound[a]>> \in shown
    /\ Advance(a, "withdrawn")
    /\ UNCHANGED <<bound, shown, agent>>

Grant(a) ==
    /\ stage[a] = "withdrawn"
    /\ Advance(a, "granted")
    /\ agent' = [agent EXCEPT ![a] = bound[a]]
    /\ UNCHANGED <<bound, shown>>

Refuse(a) ==
    /\ stage[a] \notin Final
    /\ Advance(a, "refused")
    /\ UNCHANGED <<bound, shown, agent>>

(* A crash takes every attempt that has begun, and only those.             *)
LoseAll(S) ==
    /\ \A a \in S : stage[a] \notin Final
    /\ stage' = [a \in Attempts |-> IF a \in S THEN "lost" ELSE stage[a]]
    /\ UNCHANGED <<bound, shown, agent>>

Next ==
    \/ \E a \in Attempts, vm \in VMs : Bind(a, vm)
    \/ \E a \in Attempts : Show(a) \/ Withdraw(a) \/ Grant(a) \/ Refuse(a)
    \/ \E S \in SUBSET Attempts : LoseAll(S)

Spec == Init /\ [][Next]_vars
=============================================================================
