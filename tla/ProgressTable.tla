---------------------------- MODULE ProgressTable ----------------------------
(***************************************************************************)
(* What the progress tools compute from one reading of the files: the      *)
(* reports (axdt/progress/table.py), the findings of lint.py, the lists of *)
(* recover.py, and the row checks of commit.py.                            *)
(*                                                                         *)
(* A parsed progress.md is a sequence of rows [task, wave, status, dated]; *)
(* the leader column is free text and "dated" says that "updated" is a     *)
(* date.  A file that parse_progress or parse_report refuses is Broken, a  *)
(* missing one None.  A report is its frontmatter [id, status].            *)
(***************************************************************************)
EXTENDS ProgressSchema, Naturals, Sequences

CONSTANTS
    Broken,   \* a file that is there and cannot be parsed
    Task,     \* what stands in the task column
    WaveOf    \* [Task -> wave of the id, None if the id is not well formed]

TasksOf(table) == {table[i].task : i \in DOMAIN table}

----------------------------------------------------------------------------
\* lint.py: findings of a row.

Duplicated(table, task) ==
    \E i, j \in DOMAIN table : i # j /\ table[i].task = task /\ table[j].task = task

\* The codes of section 4.1 that commit.py scopes to the rows of the change.
RowCodes(row) ==
    (IF row.status \notin ProgressStatuses THEN {"bad-status"} ELSE {})
    \cup (IF WaveOf[row.task] = None THEN {"bad-task-id"}
          ELSE IF row.wave # WaveOf[row.task] THEN {"wave-mismatch"} ELSE {})
    \cup (IF ~row.dated THEN {"bad-updated"} ELSE {})

ReportCodes(file, task) ==
    IF file = None THEN {}
    ELSE IF file = Broken THEN {"report-frontmatter"}
    ELSE (IF file.id # task THEN {"report-id-mismatch"} ELSE {})
         \cup (IF file.status \notin ReportStatuses THEN {"report-status"} ELSE {})

\* The pair is looked at only if both states are known; a missing report counts as None.
PairFinding(row, file) ==
    IF row.status \notin ProgressStatuses \/ ReportCodes(file, row.task) # {} THEN None
    ELSE PairSeverity(IF file = None THEN None ELSE file.status, row.status)

----------------------------------------------------------------------------
\* recover.py: its own reading of a report, and the lists a row is put in.

\* Mutant: a report is believed whatever task it names.
ReadReportOfAnyTask(file, task) ==
    IF file = None THEN [status |-> None, invalid |-> FALSE]
    ELSE IF file = Broken THEN [status |-> None, invalid |-> TRUE]
    ELSE IF file.status \notin ReportStatuses THEN [status |-> None, invalid |-> TRUE]
    ELSE [status |-> file.status, invalid |-> FALSE]

ReadCanonicalReport(file, task) ==
    IF file = None THEN [status |-> None, invalid |-> FALSE]
    ELSE IF file = Broken THEN [status |-> None, invalid |-> TRUE]
    ELSE IF file.id # task \/ file.status \notin ReportStatuses
         THEN [status |-> None, invalid |-> TRUE]
    ELSE [status |-> file.status, invalid |-> FALSE]

\* Mutant: a rejected task is not offered again.
PendingButRejected(row, file) ==
    /\ ReadCanonicalReport(file, row.task).status = "done"
    /\ row.status \notin Terminal \cup {"rejected"}

PendingAcceptance(row, file) ==
    /\ ReadCanonicalReport(file, row.task).status = "done"
    /\ row.status \notin Terminal

PendingBlockerAcceptance(row, file) ==
    /\ ReadCanonicalReport(file, row.task).status \in {"blocked", "needs-spec"}
    /\ row.status \in {"todo", "in-progress", "in-review", "rejected"}

NeedsAttention(row, file) ==
    LET report == ReadCanonicalReport(file, row.task)
    IN  \/ report.invalid
        \/ row.status \notin ProgressStatuses
        \/ PairSeverity(report.status, row.status) \in {"WARN", "ERROR"}

Rollup(table, wave) ==
    WaveRollup({table[i].status : i \in {j \in DOMAIN table : table[j].wave = wave}})

----------------------------------------------------------------------------
\* commit.py: the change from one table to the next, and what refuses it.

\* base_by_task: of several rows of a task the last one counts.
StatusIn(table, task) ==
    LET last == CHOOSE i \in DOMAIN table :
                    /\ table[i].task = task
                    /\ \A j \in DOMAIN table : table[j].task = task => j <= i
    IN  table[last].status

Before(base, task) == IF task \in TasksOf(base) THEN StatusIn(base, task) ELSE None

DiffProgress(base, new) ==
    {[task |-> new[i].task, before |-> Before(base, new[i].task), after |-> new[i].status] :
        i \in {j \in DOMAIN new : Before(base, new[j].task) # new[j].status}}

Changed(events) == {e.task : e \in events}

TerminalResumed(events) == \E e \in events : e.before \in Terminal
RowDeleted(base, new)   == ~(TasksOf(base) \subseteq TasksOf(new))

\* Mutant: only the rows of the change are looked at.
LintScopedRows(table, changed) ==
    /\ table # Broken
    /\ \E i \in DOMAIN table : table[i].task \in changed /\ RowCodes(table[i]) # {}

\* A table that is broken by now has a finding of another code: no objection here.
LintScopedViolation(table, changed) ==
    /\ table # Broken
    /\ \/ \E i \in DOMAIN table : Duplicated(table, table[i].task)
       \/ \E i \in DOMAIN table : table[i].task \in changed /\ RowCodes(table[i]) # {}

\* A report as the blob in the index shows it.
Verified(file, task) == file # None /\ file # Broken /\ file.id = task /\ file.status = "done"

=============================================================================
