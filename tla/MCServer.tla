------------------------------ MODULE MCServer ------------------------------
(* Small instances of ServerAttest for TLC.                                *)
EXTENDS ServerAttest, TLC

MCProjects == {"p1", "p2"}
MCNames == {"vm"}
MCRawUUIDs == {"u1", "U1", "u2", "garbled"}
MCCanonical == [r \in MCRawUUIDs |->
                  CASE r = "u1" -> "u1" [] r = "U1" -> "u1"
                    [] r = "u2" -> "u2" [] r = "garbled" -> ""]
MCLocations == {"m1", "m2"}
MCCloudInitIDs == {"c1", "c2"}
MCProfiles == {"base"}
MCUserKeys == {"user.role"}
MCValues == {"db"}
MCFromProfiles == [ps \in SUBSET MCProfiles |->
                     [k \in MCUserKeys |-> IF ps = {} THEN Absent ELSE "db"]]
MCAllowList == <<"p1", "p2">>
MCUserSelectors == MCUserKeys
MCSelectorLen(sel) == 1

Plain == [k \in ConfigKeys |-> Absent]

VM(u, loc) == [type |-> "virtual-machine", uuid |-> u, location |-> loc,
               cloudInitID |-> "c1", profiles |-> {"base"}, config |-> Plain]

Population(r1, r2) == [s \in Slots |-> IF s[1] = "p1" THEN r1 ELSE r2]

(* Two VMs of the same name.                                               *)
MCTwoVMs == {Population(VM("U1", "m1"), VM("u2", "m1"))}

MCOneVM == {Population(VM("U1", "m1"), Absent)}

Says(project, u) == [project |-> project, name |-> "vm", uuid |-> u,
                     type |-> "virtual-machine", location |-> "m1", cloudInitID |-> "c1"]

MCPayloads == {Says(Absent, "U1")}
MCBothPayloads == {Says(Absent, "U1"), Says("p2", "u2")}

MCSymmetry == Permutations(Attempts) \cup Permutations(Keys) \cup Permutations(Nonces)
=============================================================================
