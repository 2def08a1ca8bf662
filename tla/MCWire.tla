------------------------------- MODULE MCWire -------------------------------
(* Small instances of WireEdits for TLC.                                   *)
EXTENDS WireEdits

MCProjects == {"p1"}
MCNames == {"vm"}
MCRawUUIDs == {"u1", "U1", "garbled"}
MCCanonical == [r \in MCRawUUIDs |-> IF r = "garbled" THEN "" ELSE "u1"]
MCOne == {"m1"}
MCCloudInitIDs == {"c1"}
MCKeys == {"k1"}
MCNonces == {"n1"}
MCUserKeys == {"user.role"}
MCFromProfiles == [ps \in SUBSET {"base"} |-> [k \in MCUserKeys |-> Absent]]
MCAllowList == <<"p1">>
MCSelectorLen(sel) == 1

(* Full length with set slack bits; line breaks beside or instead of       *)
(* digits; one byte short.                                                 *)
MCNonceSpellings == {"n1 slack", "n1 folded", "n1 cut", "n1 short"}
MCSpelled ==
    [s \in MCNonceSpellings \cup MCNonces |->
        CASE s = "n1"        -> [nonce |-> "n1", digits |-> 22, newlines |-> 0, slack |-> FALSE]
          [] s = "n1 slack"  -> [nonce |-> "n1", digits |-> 22, newlines |-> 0, slack |-> TRUE]
          [] s = "n1 folded" -> [nonce |-> "n1", digits |-> 22, newlines |-> 1, slack |-> FALSE]
          [] s = "n1 cut"    -> [nonce |-> "n1", digits |-> 20, newlines |-> 2, slack |-> FALSE]
          [] s = "n1 short"  -> [nonce |-> "n1", digits |-> 21, newlines |-> 1, slack |-> FALSE]]

Claim(p, u) == [project |-> p, name |-> "vm", uuid |-> u, type |-> "virtual-machine",
                location |-> "m1", cloudInitID |-> "c1"]

MCGuestClaims == {Claim("", "u1"), Claim("p1", "u1")}

MCForeignStrings == {"U1", "garbled", "p1"} \cup MCNonceSpellings
=============================================================================
