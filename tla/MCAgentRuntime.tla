--------------------------- MODULE MCAgentRuntime ---------------------------
(* Small instances of AgentRuntime for TLC.                                *)
EXTENDS AgentRuntime

MCSymmetry == Permutations(Configures) \cup Permutations(Handlers)

MCPlain == {"x", "y", "z", "w"}
MCKeys == {"user.a", "user.b", "user.c", "user.d"}
MCReservedPrefixed == {"user.spire.attestor.nonce.k"}
MCUserPrefixed == MCKeys \cup {"user.", "user.spire.attestor.nonce"} \cup MCReservedPrefixed
MCStrings == {""} \cup MCPlain \cup MCUserPrefixed
MCStringEdits == {Absent, "", "x"}
MCDurationEdits == {Absent, Garbled, -1, 0, 1}

(* Any list up to the limit, and lists of one entry more in which nothing  *)
(* else is wrong.                                                          *)
MCLists(entries, good, limit) ==
    BoundedSeq(entries, limit) \cup {s \in [1 .. limit + 1 -> good] : IsInjective(s)}

MCProjectEdits ==
    MCLists({"", "x", "y", "z"}, MCPlain, MaxProjects) \cup {Absent}
MCSelectorEdits ==
    MCLists(({"", "x"} \cup MCUserPrefixed) \ {"user.d"}, MCKeys, MaxUserSelectors) \cup {Absent}
=============================================================================
