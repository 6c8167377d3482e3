---------------------------- MODULE ProgressBoard ----------------------------
(***************************************************************************)
(* Progress tracking between two milestones: the Maintainer registers      *)
(* tasks and edits their states, one allowed step at a time or with a slip *)
(* of the pen; Leaders write reports, sound or not; now and then a         *)
(* milestone is committed.  After every step lint.py, recover.py and the   *)
(* checks of commit.py, which read the same files each in its own way, are *)
(* compared with one another.                                              *)
(***************************************************************************)
EXTENDS ProgressTable

CONSTANT ReportFile   \* bound: [Task -> files its Leader leaves at the path of its report]

\* A row of a parsed table; a word that is no state stands for all such words.
Row == [task : Task, wave : {WaveOf[t] : t \in Task}, status : ProgressStatuses \cup {"typo"},
        dated : BOOLEAN]

ASSUME BoardAssumption ==
    /\ None \notin {WaveOf[t] : t \in Task}
    /\ None \notin ReportStatuses \cup ProgressStatuses \cup {"typo", "WARN", "ERROR"}
    /\ Broken \notin Seq(Row)

VARIABLES
    progress,   \* rows of progress.md
    report,     \* [Task -> the file at its report path]
    base,       \* progress.md of the last milestone commit
    normal      \* every edit since then followed AllowedTransitions

vars == <<progress, report, base, normal>>

Init ==
    /\ progress = <<>>
    /\ report = [t \in Task |-> None]
    /\ base = <<>>
    /\ normal = TRUE

Register(t) ==
    /\ t \notin TasksOf(progress)
    /\ progress' = Append(progress,
           [task |-> t, wave |-> WaveOf[t], status |-> "todo", dated |-> TRUE])
    /\ UNCHANGED <<report, base, normal>>

Edit(i, status) ==
    /\ status \in AllowedTransitions(progress[i].status)
    /\ progress' = [progress EXCEPT ![i].status = status]
    /\ UNCHANGED <<report, base, normal>>

\* A slip: a word outside the vocabulary, later put right to any state.
Slip(i) ==
    /\ \/ progress' = [progress EXCEPT ![i].status = "typo"]
       \/ /\ progress[i].status = "typo"
          /\ \E s \in ProgressStatuses : progress' = [progress EXCEPT ![i].status = s]
    /\ normal' = FALSE
    /\ UNCHANGED <<report, base>>

LeaderReports(t, file) ==
    /\ report' = [report EXCEPT ![t] = file]
    /\ UNCHANGED <<progress, base, normal>>

Refused ==
    LET events == DiffProgress(base, progress)
    IN  \/ TerminalResumed(events)
        \/ RowDeleted(base, progress)
        \/ LintScopedViolation(progress, Changed(events))

Overclaimed ==
    \E e \in DiffProgress(base, progress) :
        e.after = "accepted" /\ ~Verified(report[e.task], e.task)

Milestone ==
    /\ ~Refused /\ ~Overclaimed
    /\ base' = progress
    /\ normal' = TRUE
    /\ UNCHANGED <<progress, report>>

Next ==
    \/ \E t \in Task : Register(t) \/ \E file \in ReportFile[t] : LeaderReports(t, file)
    \/ \E i \in DOMAIN progress : Slip(i) \/ \E s \in ProgressStatuses : Edit(i, s)
    \/ Milestone

Spec == Init /\ [][Next]_vars

----------------------------------------------------------------------------

\* A milestone skips the steps in between, and its checks look at the ends only: they
\* must refuse no sequence of allowed edits, however long (the rules of commit.py are
\* the closure of ALLOWED_TRANSITIONS; its docstring says so).
AllowedEditsAreNotRefused == normal => ~Refused

\* recover.py reads reports by code of its own.  A row needs attention exactly when
\* lint.py has something to say about its state, its report or the pair of them.
RecoverAgreesWithLint ==
    \A i \in DOMAIN progress :
        LET row == progress[i]
        IN  NeedsAttention(row, report[row.task]) <=>
                \/ "bad-status" \in RowCodes(row)
                \/ ReportCodes(report[row.task], row.task) # {}
                \/ PairFinding(row, report[row.task]) # None

\* The Maintainer is offered for acceptance exactly the open tasks that commit.py would
\* let it accept, and accepting one of them clears what lint.py says about it.
PendingExactlyWhenAcceptable ==
    \A i \in DOMAIN progress :
        LET row == progress[i]
            accepted == [row EXCEPT !.status = "accepted"]
        IN  /\ PendingAcceptance(row, report[row.task]) <=>
                   row.status \notin Terminal /\ Verified(report[row.task], row.task)
            /\ PendingAcceptance(row, report[row.task]) =>
                   PairFinding(accepted, report[row.task]) = None

\* What waits for the Maintainer is flagged: a row in a pending list also needs
\* attention, but for the normal wait of a task in review.
WaitingIsFlagged ==
    \A i \in DOMAIN progress :
        LET row == progress[i]
        IN  \/ PendingBlockerAcceptance(row, report[row.task])
            \/ PendingAcceptance(row, report[row.task]) /\ row.status # "in-review"
            => NeedsAttention(row, report[row.task])

\* A wave that is done or superseded stays so, as long as edits follow the norm and no
\* task is added to it (finished tasks are not reopened; a regression is a new task).
FinishedWavesStay ==
    [][\A w \in {WaveOf[t] : t \in Task} :
        /\ Rollup(progress, w) \in {"done", "superseded"}
        /\ normal' /\ TasksOf(progress') = TasksOf(progress)
        => Rollup(progress', w) = Rollup(progress, w)]_vars

=============================================================================
