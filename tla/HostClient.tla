----------------------------- MODULE HostClient -----------------------------
(***************************************************************************)
(* The host client's nonce mutations (internal/incus/host/mutation.go and  *)
(* retry.go): refetch, revalidate the target, write the whole writable     *)
(* content back under its ETag with one key changed, wait for the          *)
(* operation, and retry until the call's context ends.  SetNonce passes a  *)
(* nonce; UnsetNonce passes Absent, the nil pointer of the code.           *)
(*                                                                         *)
(* One call at a time per attempt.  The pause between two tries and the    *)
(* retryable refetch failures change nothing here: they are stuttering.    *)
(***************************************************************************)
EXTENDS IncusAPI

VARIABLES
    phase,      \* attempt -> where its mutate call stands
    inflight,   \* attempt -> the request it waits for, or Absent
    abandoned   \* history: attempts that gave up waiting on a set request

hostVars == <<phase, inflight, abandoned>>

ContextErrors == {"canceled", "deadline"}

(* "fetch": about to refetch; "await": a PUT is outstanding; "applied":    *)
(* Incus accepted it and the client waits for the operation.               *)
Busy == {"fetch", "await", "applied"}
Returned == {"ok", "other"} \cup ContextErrors
Phases == {"idle"} \cup Busy \cup Returned

HostTypeOK ==
    /\ phase \in [Attempts -> Phases]
    /\ inflight \in [Attempts -> Request \cup {Absent}]
    /\ \A a \in Attempts : phase[a] = "await" => inflight[a] # Absent
    /\ abandoned \subseteq Attempts

HostInit ==
    /\ phase = [a \in Attempts |-> "idle"]
    /\ inflight = [a \in Attempts |-> Absent]
    /\ abandoned = {}

GoTo(a, ph) == phase' = [phase EXCEPT ![a] = ph]

SlotOf(tgt) == <<tgt.project, tgt.name>>

-----------------------------------------------------------------------------
(* Mutant: the type is compared, the UUID is not.                          *)
MatchTypeOnly(tgt, rec) == rec.type = InstanceTypeVirtualMachine

(* matchResolvedTarget: the record at the slot is still the resolved VM.   *)
MatchResolvedTarget(tgt, rec) ==
    /\ rec.type = InstanceTypeVirtualMachine
    /\ NewInstanceUUID(rec.uuid) = tgt.uuid

(* The refetch answers with the resolved VM, not with 404 or another one.  *)
FindsTarget(tgt) ==
    /\ Present(SlotOf(tgt))
    /\ MatchResolvedTarget(tgt, instances[SlotOf(tgt)])

(* Mutant: the edit starts from the expanded configuration.                *)
EditedExpanded(rec, k, n) ==
    [Writable(rec) EXCEPT !.config = [ExpandedConfig(rec) EXCEPT ![k] = n]]

(* The content written back: what was read, with exactly key k changed to  *)
(* the nonce n, or removed when n is Absent.                               *)
EditedWritable(rec, k, n) == [Writable(rec) EXCEPT !.config[k] = n]

(* The read half of mutateOnce, up to sending the update.                  *)
MutateOnce(a, tgt, k, n) ==
    LET slot == SlotOf(tgt) IN
    /\ phase[a] = "fetch"
    /\ \/ /\ ~FindsTarget(tgt)
          /\ GoTo(a, IF n = Absent THEN "ok" ELSE "other")
          /\ UNCHANGED inflight
       \/ /\ FindsTarget(tgt)
          /\ n = Absent
          /\ instances[slot].config[k] = Absent
          /\ GoTo(a, "ok")
          /\ UNCHANGED inflight
       \/ /\ FindsTarget(tgt)
          /\ n # Absent \/ instances[slot].config[k] # Absent
          /\ inflight' = [inflight EXCEPT ![a] =
                [by   |-> a,
                 slot |-> slot,
                 etag |-> Writable(instances[slot]),
                 body |-> EditedWritable(instances[slot], k, n)]]
          /\ GoTo(a, "await")
    /\ UNCHANGED <<incusVars, abandoned>>

(* The refetch fails for good (forbidden, no request context, ...).        *)
FetchRefused(a) ==
    /\ phase[a] = "fetch"
    /\ GoTo(a, "other")
    /\ UNCHANGED <<incusVars, inflight, abandoned>>

UpdateApplied(a) ==
    /\ phase[a] = "await"
    /\ ETagMatches(inflight[a])
    /\ ApplyRequest(inflight[a])
    /\ inflight' = [inflight EXCEPT ![a] = Absent]
    /\ GoTo(a, "applied")
    /\ UNCHANGED <<strays, moved, abandoned>>

(* Mutant: a conflicting update is taken for done.                         *)
ConflictIgnored(a) ==
    /\ phase[a] = "await"
    /\ inflight' = [inflight EXCEPT ![a] = Absent]
    /\ GoTo(a, "ok")
    /\ UNCHANGED <<incusVars, abandoned>>

(* 412 Precondition Failed, or a retryable status before anything changed. *)
UpdateRetried(a) ==
    /\ phase[a] = "await"
    /\ inflight' = [inflight EXCEPT ![a] = Absent]
    /\ GoTo(a, "fetch")
    /\ UNCHANGED <<incusVars, abandoned>>

(* Any other status, 404 included, and an operation that fails unapplied.  *)
UpdateRefused(a) ==
    /\ phase[a] = "await"
    /\ inflight' = [inflight EXCEPT ![a] = Absent]
    /\ GoTo(a, "other")
    /\ UNCHANGED <<incusVars, abandoned>>

(* Nobody waits for a's request any longer, but Incus may still get it.    *)
Abandon(a, n) ==
    /\ strays' = strays \cup ({inflight[a]} \ {Absent})
    /\ inflight' = [inflight EXCEPT ![a] = Absent]
    /\ abandoned' = IF n # Absent /\ inflight[a] # Absent
                    THEN abandoned \cup {a} ELSE abandoned

(* The connection breaks before the answer: retryable, outcome unknown.    *)
UpdateLost(a, n) ==
    /\ phase[a] = "await"
    /\ Cardinality(strays) < MaxStrays
    /\ Abandon(a, n)
    /\ GoTo(a, "fetch")
    /\ UNCHANGED <<instances, exposed, moved>>

WaitSucceeds(a) ==
    /\ phase[a] = "applied"
    /\ GoTo(a, "ok")
    /\ UNCHANGED <<incusVars, inflight, abandoned>>

(* The operation ran but waiting for it failed, retryably or not.          *)
WaitFails(a) ==
    /\ phase[a] = "applied"
    /\ \E ph \in {"fetch", "other"} : GoTo(a, ph)
    /\ UNCHANGED <<incusVars, inflight, abandoned>>

(* The context of the call ends, in a request, in WaitContext or in wait.  *)
GiveUp(a, n, err) ==
    /\ phase[a] \in Busy
    /\ Abandon(a, n)
    /\ GoTo(a, err)
    /\ UNCHANGED <<instances, exposed, moved>>

(* Steps of a mutate call whose context is still live.                     *)
MutateStep(a, tgt, k, n) ==
    \/ MutateOnce(a, tgt, k, n)
    \/ FetchRefused(a)
    \/ UpdateApplied(a)
    \/ UpdateRetried(a)
    \/ UpdateRefused(a)
    \/ UpdateLost(a, n)
    \/ WaitSucceeds(a)
    \/ WaitFails(a)
=============================================================================
