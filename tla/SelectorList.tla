---------------------------- MODULE SelectorList ----------------------------
(***************************************************************************)
(* buildSelectors (internal/attest/attributes.go) as the code computes it: *)
(* a list, appended in the order of the instance's profiles and of the     *)
(* configured keys, sorted, compacted, and then bounded by count and, in a *)
(* running sum, by bytes.  AttestDomain has the set of selectors that      *)
(* ServerAttest grants; here the two are compared for what was resolved.   *)
(***************************************************************************)
EXTENDS ServerAttest, SequencesExt

CONSTANT Rank(_)   \* a selector's place in the order of slices.Sort

(* The order of profiles and of user_selectors is Incus's and the          *)
(* operator's; a profile may be listed twice.                              *)
Listings(i) ==
    {list \in BoundedSeq(i.profiles, Cardinality(i.profiles) + 1) : ToSet(list) = i.profiles}

Appended(i, profiles, order) ==
    LET present == SelectSeq(order, LAMBDA k : i.config[k] # Absent) IN
    <<<<"project", i.project>>, <<"name", i.name>>,
      <<"location", i.location>>, <<"uuid", NewInstanceUUID(i.uuid)>>>>
    \o [n \in DOMAIN profiles |-> <<"profile", profiles[n]>>]
    \o [n \in DOMAIN present |-> <<present[n], i.config[present[n]]>>]

Sorted(list) == SortSeq(list, LAMBDA x, y : Rank(x) < Rank(y))

(* slices.Compact: of equal neighbours the first stays.                    *)
Compact(list) ==
    FoldLeft(LAMBDA acc, s : IF acc # <<>> /\ Last(acc) = s THEN acc ELSE Append(acc, s),
             <<>>, list)

Final(list) == Compact(Sorted(list))

(* Mutant: the sum is compared before the last selector is added.          *)
OverBudgetLate(list) ==
    FoldLeft(LAMBDA acc, s : [bytes |-> acc.bytes + SelectorLen(s),
                              over  |-> acc.over \/ acc.bytes > MaxSelectorBytes],
             [bytes |-> 0, over |-> FALSE], list).over

(* The loop over the value lengths leaves early.                           *)
OverBudget(list) ==
    FoldLeft(LAMBDA acc, s : [bytes |-> acc.bytes + SelectorLen(s),
                              over  |-> acc.over \/ acc.bytes + SelectorLen(s) > MaxSelectorBytes],
             [bytes |-> 0, over |-> FALSE], list).over

Refused(i, order, list) ==
    \/ ~ValidateInstance(i)
    \/ \E n \in DOMAIN order : order[n] \in Keys
    \/ Len(list) > MaxSelectors
    \/ OverBudget(list)

-----------------------------------------------------------------------------
(* The list says what the facts of the resolved VM say and nothing else:   *)
(* each of them once, in one order however profiles and keys were listed,  *)
(* and the whole is refused exactly when the facts exceed the count or the *)
(* bytes SPIRE accepts, never truncated.                                   *)
SelectorsAsModelled ==
    \A a \in Attempts : pc[a] = "attrs" =>
        \A profiles \in Listings(target[a]), order \in SetToSeqs(UserSelectors) :
            LET i    == target[a]
                list == Final(Appended(i, profiles, order)) IN
            /\ Refused(i, order, list) <=> ~Attributable(i)
            /\ ~Refused(i, order, list) =>
                /\ ToSet(list) = BuildSelectors(i)
                /\ \A m, n \in DOMAIN list : m < n => Rank(list[m]) < Rank(list[n])
=============================================================================
