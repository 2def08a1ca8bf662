--------------------------- MODULE MCAttestation ----------------------------
(* Small instances of Attestation for TLC.                                 *)
EXTENDS Attestation

MCRawUUIDs == {"u1", "U1", "u2"}
MCCanonical == [r \in MCRawUUIDs |-> IF r = "u2" THEN "u2" ELSE "u1"]
MCUserKeys == {"user.role"}
MCFromProfiles == [ps \in SUBSET Profiles |->
                     [k \in MCUserKeys |-> IF ps = {} THEN Absent ELSE "db"]]
MCAllowList == <<"p1", "p2">>
MCSelectorLen(sel) == 1
MCHome == [a \in Attempts |-> "u1"]

VM(u, loc) == [type |-> "virtual-machine", uuid |-> u, location |-> loc,
               cloudInitID |-> "c1", profiles |-> {"base"},
               config |-> [k \in ConfigKeys |-> Absent]]

Population(r1, r2) == [s \in Slots |-> IF s[1] = "p1" THEN r1 ELSE r2]

(* On a standalone server, with another VM of the same name in the other   *)
(* project; or in a cluster, where no record says "none" and the cached    *)
(* name is not used, with a free slot to move to.                          *)
MCPopulations == {Population(VM("u2", "none"), VM("U1", "none")),
                  Population(VM("U1", "m1"), Absent)}

(* What an agent in u1 sends without a project hint.                       *)
MCPayloads == {[project |-> Absent, name |-> "vm", uuid |-> "u1",
                type |-> "virtual-machine", location |-> loc, cloudInitID |-> "c1"] :
                  loc \in Locations}

(* The deployments checked here are ones in which agents can be attested.  *)
ASSUME DeployableAssumption == Deployable
=============================================================================
