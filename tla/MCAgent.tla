------------------------------ MODULE MCAgent -------------------------------
(* Small instances of AgentAttest for TLC.                                 *)
EXTENDS AgentAttest

MCRawUUIDs == {"u1", "U1", "garbled"}
MCCanonical == [r \in MCRawUUIDs |-> IF r = "garbled" THEN "" ELSE "u1"]
MCUserKeys == {"user.role"}
MCFromProfiles == [ps \in SUBSET Profiles |-> [k \in MCUserKeys |-> Absent]]
MCAllowList == <<"p1">>
MCSelectorLen(sel) == 1

Sees(u, type, cid) ==
    [name |-> "vm", uuid |-> u, type |-> type, location |-> "m1", cloudInitID |-> cid,
     config |-> [k \in ConfigKeys |-> IF k = "user.role" THEN "db" ELSE Absent]]

MCGuests == {Sees("U1", "virtual-machine", "c1"), Sees("garbled", "virtual-machine", "c1"),
             Sees("u1", "container", "c1"), Sees("u1", "virtual-machine", "")}
=============================================================================
