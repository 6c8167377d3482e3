---------------------------- MODULE AuditedMain ----------------------------
(***************************************************************************)
(* What the merge controller promises of the main branch, without saying   *)
(* how: a change lands under the two keys of the content that lands; a     *)
(* landing is recorded before the next one, or its record is lost for      *)
(* good; nothing else is ever recorded.                                    *)
(***************************************************************************)
EXTENDS SotGate

VARIABLES
    history,   \* the landings, in order
    records,   \* the records, in order
    owed       \* the last landing still has to be recorded

Keys(content) == [judgment |-> JudgmentKey(content), completeness |-> SweepKey(content)]

Init ==
    /\ history = <<>>
    /\ records = <<>>
    /\ owed = FALSE

\* Any content may land; its record follows, unless it is lost here and now.
Land ==
    /\ ~owed
    /\ Len(history') = Len(history) + 1
    /\ LET landing == history'[Len(history')]
       IN  /\ history' = Append(history, landing)
           /\ landing.keys = Keys(landing.landed)
    /\ owed' \in BOOLEAN
    /\ UNCHANGED records

Record ==
    /\ owed
    /\ records' = Append(records, history[Len(history)].keys)
    /\ owed' = FALSE
    /\ UNCHANGED history

Spec == Init /\ [][Land \/ Record]_<<history, records, owed>>

=============================================================================
