------------------------- MODULE MCMilestoneCommit -------------------------
(***************************************************************************)
(* One task, a task with an id that is not well formed and another file.   *)
(* The tables of the working tree: empty, one row in several states, two   *)
(* rows of one task, rows that lint refuses, broken; the reports: done, in *)
(* progress, of another task, broken, missing.                             *)
(***************************************************************************)
EXTENDS MilestoneCommit

CONSTANTS t1, bad, v1

MCWaveOf == [t \in Task |-> IF t = t1 THEN "w1" ELSE None]

Row(t, status) == [task |-> t, wave |-> "w1", status |-> status, dated |-> TRUE]

MCContent ==
    [p \in Path |->
        IF p = Progress
        THEN {<<>>, <<Row(t1, "todo")>>, <<Row(t1, "accepted")>>, <<Row(t1, "rejected")>>,
              <<Row(t1, "superseded")>>, <<Row(t1, "accepted"), Row(t1, "todo")>>,
              <<Row(t1, "accepted"), Row(bad, "todo")>>,
              <<[Row(t1, "todo") EXCEPT !.wave = "w2"]>>, Broken}
        ELSE IF p = t1
        THEN {[id |-> t1, status |-> "done"], [id |-> t1, status |-> "in-progress"],
              [id |-> bad, status |-> "done"], Broken, None}
        ELSE IF p = Other THEN {v1}
        ELSE {}]

=============================================================================
