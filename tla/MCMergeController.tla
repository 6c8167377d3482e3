------------------------- MODULE MCMergeController -------------------------
(***************************************************************************)
(* Small instances of MergeController for TLC: one SoT change and one      *)
(* change of the enforcement surface, by one author, whose landings change *)
(* each other's keys; and one plain change, pushed to again and again.     *)
(***************************************************************************)
EXTENDS MergeController, TLC

CONSTANTS sot, surface, plain, dev, lead, f1, c1, c2, tree, unused, config

MCAuthor == [pr \in PR |-> dev]
CallerSymmetry == Permutations(Caller)

ReviewClear   == [format_ok |-> TRUE, clear |-> TRUE, open |-> {}]
ReviewBlocked == [format_ok |-> TRUE, clear |-> FALSE, open |-> {f1}]
SweepClear    == [clear |-> TRUE, open |-> {}]

MCConsistencyReport  == {ReviewBlocked}
MCCompletenessReport == {SweepClear}
MCClearReport        == {ReviewClear}

NoPush      == [pr \in PR |-> 0]
OnePush     == [pr \in PR |-> IF pr = sot THEN 1 ELSE 0]
OneApproval == [pr \in PR |-> 1]
ThreePushes == [pr \in PR |-> 3]

\* The second commit of the SoT change alters what only the sweep reads; the change
\* of the enforcement surface raises the review policy epoch, a component of both.
MCJudgedPart ==
    [pr \in PR |-> [h \in 0..MaxHead[pr] |-> IF pr = sot THEN {tree} ELSE {config}]]
MCSweptPart ==
    [pr \in PR |-> [h \in 0..MaxHead[pr] |->
        IF pr # sot THEN {config} ELSE IF h = 0 THEN {tree} ELSE {tree, unused}]]

=============================================================================
