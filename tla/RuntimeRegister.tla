-------------------------- MODULE RuntimeRegister ---------------------------
(***************************************************************************)
(* What both plugins promise of their runtime: it behaves as one register. *)
(* A Configure call that succeeds takes effect at one moment between its   *)
(* call and its return, one that fails takes no effect, and an attestation *)
(* reads the register once, at a moment after it began.                    *)
(***************************************************************************)
CONSTANTS Configures, Handlers, None

VARIABLES
    value,   \* the runtime in force, known by its Configure call, or None
    writes,  \* Configure call -> how far it has come
    reads,   \* attestation -> how far it has come
    got      \* attestation -> the runtime it read, or None

vars == <<value, writes, reads, got>>

Init ==
    /\ value = None
    /\ writes = [c \in Configures |-> "idle"]
    /\ reads = [h \in Handlers |-> "idle"]
    /\ got = [h \in Handlers |-> None]

Write(c, from, to) ==
    /\ writes[c] = from
    /\ writes' = [writes EXCEPT ![c] = to]
    /\ UNCHANGED <<reads, got>>

Call(c) == Write(c, "idle", "called") /\ UNCHANGED value

TakeEffect(c) == Write(c, "called", "applied") /\ value' = c

Succeed(c) == Write(c, "applied", "ok") /\ UNCHANGED value

Fail(c) == Write(c, "called", "failed") /\ UNCHANGED value

Begin(h) ==
    /\ reads[h] = "idle"
    /\ reads' = [reads EXCEPT ![h] = "begun"]
    /\ UNCHANGED <<value, writes, got>>

Read(h) ==
    /\ reads[h] = "begun"
    /\ reads' = [reads EXCEPT ![h] = "read"]
    /\ got' = [got EXCEPT ![h] = value]
    /\ UNCHANGED <<value, writes>>

Next ==
    \/ \E c \in Configures : Call(c) \/ TakeEffect(c) \/ Succeed(c) \/ Fail(c)
    \/ \E h \in Handlers : Begin(h) \/ Read(h)

Spec == Init /\ [][Next]_vars
=============================================================================
