--------------------------- MODULE ProgressSchema ---------------------------
(***************************************************************************)
(* The vocabulary of progress tracking (axdt/progress/schema.py): states   *)
(* of a task as its Leader reports it and as the Maintainer accepts it,    *)
(* the norm for edits, the severity of a pair of states, the roll-up of a  *)
(* wave.                                                                   *)
(***************************************************************************)

CONSTANT None     \* Python's None: no file, no finding, no earlier row

ReportStatuses == {"todo", "in-progress", "blocked", "done", "needs-spec"}
ProgressStatuses == {"todo", "in-progress", "blocked", "in-review", "accepted",
                     "rejected", "paused", "superseded"}
Terminal == {"accepted", "superseded"}

\* Mutant: accepted work may be sent back.
AllowedReopening(status) ==
    CASE status = "accepted"   -> {"rejected", "superseded"}
      [] status = "superseded" -> {}
      [] OTHER                 -> ProgressStatuses \ {status}

\* The norm for one edit by the Maintainer.
AllowedTransitions(status) ==
    CASE status = "todo"        -> {"in-progress", "blocked", "paused", "in-review",
                                    "accepted", "superseded"}
      [] status = "in-progress" -> {"blocked", "paused", "in-review", "accepted",
                                    "rejected", "superseded"}
      [] status = "blocked"     -> {"in-progress", "paused", "in-review", "accepted",
                                    "superseded"}
      [] status = "paused"      -> {"todo", "in-progress", "blocked", "in-review",
                                    "accepted", "superseded"}
      [] status = "in-review"   -> {"accepted", "rejected", "in-progress", "blocked",
                                    "paused", "superseded"}
      [] status = "rejected"    -> {"in-progress", "blocked", "paused", "in-review",
                                    "accepted", "superseded"}
      [] OTHER                  -> {}

\* Mutant: a claim of the Leader that waits for the Maintainer is no warning.
WarnedOfRaceOnly(report) ==
    CASE report \in {"todo", "needs-spec", None} -> {"in-review", "rejected"}
      [] report \in {"in-progress", "blocked"}   -> {"in-review", "rejected", "paused"}
      [] report = "done"                         -> {"rejected", "paused"}

\* The WARN entries of a report's row of _PAIR_SEVERITY.
Warned(report) ==
    CASE report = "todo"        -> {"in-review", "rejected"}
      [] report = "in-progress" -> {"in-review", "rejected", "paused"}
      [] report = "blocked"     -> {"todo", "in-progress", "in-review", "rejected", "paused"}
      [] report = "done"        -> {"todo", "in-progress", "blocked", "rejected", "paused"}
      [] report = "needs-spec"  -> {"todo", "in-progress", "in-review", "rejected"}
      [] report = None          -> {"in-progress", "in-review", "rejected"}

\* Its only ERROR column is "accepted", for every report but "done".
PairSeverity(report, progress) ==
    IF progress = "accepted" /\ report # "done" THEN "ERROR"
    ELSE IF progress \in Warned(report) THEN "WARN"
    ELSE None

\* Mutant: a wave with nothing but finished and waiting tasks counts as finished.
WaveRollupSkippingReview(statuses) ==
    IF statuses = {} THEN "empty"
    ELSE IF "blocked" \in statuses THEN "blocked"
    ELSE IF "paused" \in statuses THEN "paused"
    ELSE IF statuses \subseteq Terminal \cup {"in-review"} THEN "done"
    ELSE "in-progress"

\* The state of a wave from the set of its tasks' states; the first match counts.
WaveRollup(statuses) ==
    IF statuses = {} THEN "empty"
    ELSE IF "blocked" \in statuses THEN "blocked"
    ELSE IF "paused" \in statuses THEN "paused"
    ELSE IF statuses \subseteq Terminal
         THEN IF "accepted" \in statuses THEN "done" ELSE "superseded"
    ELSE IF statuses \subseteq {"todo", "superseded"} THEN "todo"
    ELSE IF statuses \cap {"todo", "in-progress", "rejected"} = {} /\ "in-review" \in statuses
         THEN "in-review"
    ELSE "in-progress"

=============================================================================
