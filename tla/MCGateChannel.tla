--------------------------- MODULE MCGateChannel ---------------------------
(***************************************************************************)
(* Small instances of GateChannel for TLC: one PR by dev; lead may decide, *)
(* bot is on the list but no human.                                        *)
(***************************************************************************)
EXTENDS GateChannel

CONSTANTS sot, surface, dev, lead, bot, f1, tree, unused

MCAuthor == [pr \in PR |-> dev]
TwoCommits == [pr \in PR |-> 2]

\* Commit 1 alters no component; commit 2 the body of a rule no document declares,
\* which only the sweep reads.
MCJudgedPart == [pr \in PR |-> [h \in 0..2 |-> {tree}]]
MCSweptPart  == [pr \in PR |-> [h \in 0..2 |-> IF h < 2 THEN {tree} ELSE {tree, unused}]]
MCMaxApprovals == [pr \in PR |-> 1]

MCConsistencyReport ==
    {[format_ok |-> TRUE, clear |-> FALSE, open |-> {f1}],
     [format_ok |-> FALSE, clear |-> TRUE, open |-> {}],
     [format_ok |-> TRUE, clear |-> TRUE, open |-> {f1}], None}
MCCompletenessReport ==
    {[clear |-> TRUE, open |-> {}], [clear |-> FALSE, open |-> {f1}]}

=============================================================================
