--------------------------- MODULE MCProgressBoard ---------------------------
(***************************************************************************)
(* Two tasks of one wave; reports of the first in every state, one with a  *)
(* word of the Maintainer's vocabulary, one of the other task, broken and  *)
(* missing.                                                                *)
(***************************************************************************)
EXTENDS ProgressBoard

CONSTANTS t1, t2

MCWaveOf == [t \in Task |-> "w1"]
MCReportFile ==
    [t \in Task |->
        IF t = t1 THEN {[id |-> t1, status |-> s] : s \in ReportStatuses \cup {"accepted"}}
                       \cup {[id |-> t2, status |-> "done"], Broken, None}
                  ELSE {[id |-> t2, status |-> "done"], None}]

=============================================================================
