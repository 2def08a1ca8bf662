----------------------------- MODULE MCResolve ------------------------------
(* Instances for the resolution of claims, whatever the records in Incus,  *)
(* and for the selectors of what was resolved.                             *)
EXTENDS MCServer, SelectorList

(* One profile sets one of the two keys; values have scaled-down lengths.  *)
MCSelectorKeys == {"user.role", "user.tier"}
MCSelectorProfiles == {"base", "db", "web"}
MCSelectorValues == {"db", "long"}
MCRoleFromBase ==
    [ps \in SUBSET MCSelectorProfiles |->
        [k \in MCSelectorKeys |-> IF k = "user.role" /\ "base" \in ps THEN "db" ELSE Absent]]
MCValueLen(sel) == IF sel[2] = "long" THEN 4 ELSE 1

(* Populations for resolution: two allowed projects and one that is not.   *)
MCThreeProjects == {"p1", "p2", "p3"}

ResolvableRecords ==
    {Absent, VM("U1", "m1"), VM("u2", "m1"), VM("u1", "none"), VM("u1", "m2"),
     VM("garbled", "m1"), VM("u1", ""),
     [VM("u1", "m1") EXCEPT !.type = "container"],
     [VM("u1", "m1") EXCEPT !.cloudInitID = "c2"],
     [VM("u1", "m1") EXCEPT !.cloudInitID = ""],
     [VM("u1", "m1") EXCEPT !.profiles = {}]}

(* At and past the limits of 7 selectors and 9 bytes.                      *)
RichRecords ==
    {[VM("u1", "m1") EXCEPT !.profiles = ps] :
        ps \in {{"db", "web"}, {"base", "web"}, {"base", "db", "web"}}}
    \cup {[VM("u1", "m1") EXCEPT !.config["user.role"] = "long"],
          [VM("u1", "m1") EXCEPT !.config["user.role"] = "long", !.config["user.tier"] = "db"]}

MCPopulations ==
    {[s \in Slots |-> CASE s[1] = "p1" -> r1 [] s[1] = "p2" -> r2
                        [] s[1] = "p3" -> VM("U1", "m1")] :
        r1 \in ResolvableRecords \cup RichRecords, r2 \in ResolvableRecords}

MCAllPayloads ==
    {Says(p, u) : p \in {Absent, "", "p1", "p2", "p3"}, u \in {"U1", "garbled"}}
    \cup {[Says(Absent, "u1") EXCEPT !.name = ""],
          [Says("p1", "u1") EXCEPT !.type = "container"],
          [Says(Absent, "u1") EXCEPT !.location = "m2"]}

(* The order of the selector strings, up to the names used here.           *)
Labels == <<"location", "name", "profile", "project", "user.role", "user.tier", "uuid">>
Texts == <<"base", "db", "long", "m1", "m2", "p1", "p2", "u1", "vm", "web">>
Place(s, seq) == CHOOSE n \in DOMAIN seq : seq[n] = s
MCRank(sel) == Place(sel[1], Labels) * 10 + Place(sel[2], Texts)

(* Instances keep their places here, as the theorem supposes.              *)
ASSUME SteadyAssumption == SteadyIdentities
=============================================================================
