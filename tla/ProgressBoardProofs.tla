------------------------ MODULE ProgressBoardProofs ------------------------
(***************************************************************************)
(* The readers of progress.md and the reports agree, for every table and   *)
(* every report; and a milestone refuses no sequence of allowed edits.     *)
(* The second needs to know how far the table of now may be from that of   *)
(* the last milestone: no row of a task twice, no task lost, and while the *)
(* edits follow the norm a terminal state is the one it was.               *)
(***************************************************************************)
EXTENDS ProgressBoard, TLAPS

\* What every table of the board is: one sound row per task, but for its state.
WellKept(table) ==
    /\ table \in Seq(Row)
    /\ \A i \in DOMAIN table : table[i].wave = WaveOf[table[i].task] /\ table[i].dated
    /\ \A i, j \in DOMAIN table : table[i].task = table[j].task => i = j

\* No word outside the vocabulary.
Spelled(table) == \A i \in DOMAIN table : table[i].status \in ProgressStatuses

\* What was terminal at the last milestone is what it was.
TerminalKept ==
    \A i \in DOMAIN base, j \in DOMAIN progress :
        base[i].task = progress[j].task /\ base[i].status \in Terminal
        => progress[j].status = base[i].status

IInv ==
    /\ WellKept(progress) /\ WellKept(base) /\ Spelled(base)
    /\ TasksOf(base) \subseteq TasksOf(progress)
    /\ normal => Spelled(progress) /\ TerminalKept

----------------------------------------------------------------------------
\* In a table with one row per task, the state of a task is that of its row.
LEMMA StatusInIsRow ==
    ASSUME NEW table, WellKept(table), NEW i \in DOMAIN table
    PROVE  StatusIn(table, table[i].task) = table[i].status
<1> DEFINE IsLast(k) == /\ table[k].task = table[i].task
                        /\ \A j \in DOMAIN table : table[j].task = table[i].task => j <= k
           last == CHOOSE k \in DOMAIN table : IsLast(k)
<1>1. \A j \in DOMAIN table : table[j].task = table[i].task => j = i
    BY DEF WellKept
<1>2. i \in Nat
    BY DEF WellKept
<1>3. IsLast(i)
    BY <1>1, <1>2
<1>4. last \in DOMAIN table /\ IsLast(last)
    <2> HIDE DEF IsLast
    <2> QED
        BY <1>3
<1>5. last = i
    <2>1. table[last].task = table[i].task
        BY <1>4
    <2> HIDE DEF last
    <2> QED
        BY <1>1, <1>4, <2>1
<1>6. StatusIn(table, table[i].task) = table[last].status
    BY DEF StatusIn
<1> QED
    BY <1>5, <1>6

\* What a milestone compares with: the row of the task in the table before, if any.
LEMMA BeforeIsRow ==
    ASSUME NEW old, WellKept(old), NEW task
    PROVE  \/ task \notin TasksOf(old) /\ Before(old, task) = None
           \/ \E i \in DOMAIN old : old[i].task = task /\ Before(old, task) = old[i].status
<1>1. CASE task \notin TasksOf(old)
    BY <1>1 DEF Before
<1>2. CASE task \in TasksOf(old)
    <2>1. PICK i \in DOMAIN old : old[i].task = task
        BY <1>2 DEF TasksOf
    <2>2. StatusIn(old, task) = old[i].status
        BY <2>1, StatusInIsRow
    <2> QED
        BY <1>2, <2>1, <2>2 DEF Before
<1> QED
    BY <1>1, <1>2

\* An event is a row whose state is not the one before.
LEMMA EventsAreRows ==
    ASSUME NEW old, NEW new, NEW e \in DiffProgress(old, new)
    PROVE  \E i \in DOMAIN new : /\ e.task = new[i].task /\ e.after = new[i].status
                                 /\ e.before = Before(old, new[i].task)
                                 /\ e.before # e.after
<1>1. PICK i \in DOMAIN new :
          /\ Before(old, new[i].task) # new[i].status
          /\ e = [task |-> new[i].task, before |-> Before(old, new[i].task),
                  after |-> new[i].status]
    BY DEF DiffProgress
<1> QED
    BY <1>1

LEMMA RowsAreEvents ==
    ASSUME NEW old, NEW new, NEW i \in DOMAIN new,
           Before(old, new[i].task) # new[i].status
    PROVE  new[i].task \in Changed(DiffProgress(old, new))
<1>1. PICK e : e = [task |-> new[i].task, before |-> Before(old, new[i].task),
                    after |-> new[i].status]
    OBVIOUS
<1>2. e \in DiffProgress(old, new)
    BY <1>1 DEF DiffProgress
<1>3. e.task = new[i].task
    BY <1>1
<1> QED
    BY <1>2, <1>3 DEF Changed

----------------------------------------------------------------------------
\* A table no row of which is misspelled, and that keeps what was terminal, is let pass.
LEMMA NormalIsNotRefused ==
    ASSUME IInv, normal
    PROVE  ~Refused
<1>1. ~TerminalResumed(DiffProgress(base, progress))
    <2>1. SUFFICES ASSUME NEW e \in DiffProgress(base, progress), e.before \in Terminal
                   PROVE  FALSE
        BY DEF TerminalResumed
    <2>0. PICK old, new : old = base /\ new = progress
        OBVIOUS
    <2>2. PICK j \in DOMAIN new :
              /\ e.after = new[j].status
              /\ e.before = Before(old, new[j].task)
              /\ e.before # e.after
        BY <2>1, <2>0, EventsAreRows
    <2>3. e.before # None
        BY <2>1, BoardAssumption DEF Terminal, ProgressStatuses
    <2>4. WellKept(old) /\ TerminalKept
        BY <2>0 DEF IInv
    <2>5. PICK i \in DOMAIN old : old[i].task = new[j].task /\ e.before = old[i].status
        BY <2>2, <2>3, <2>4, BeforeIsRow
    <2> QED
        BY <2>1, <2>2, <2>4, <2>5, <2>0 DEF TerminalKept
<1>2. ~RowDeleted(base, progress)
    BY DEF IInv, RowDeleted
<1>3. \A i \in DOMAIN progress : ~Duplicated(progress, progress[i].task)
    BY DEF IInv, WellKept, Duplicated
<1>4. ASSUME NEW i \in DOMAIN progress PROVE RowCodes(progress[i]) = {}
    <2>1. progress[i] \in Row /\ progress[i].wave = WaveOf[progress[i].task]
          /\ progress[i].dated /\ progress[i].status \in ProgressStatuses
        <3>1. WellKept(progress) /\ Spelled(progress) /\ progress \in Seq(Row)
            BY DEF IInv, WellKept
        <3>2. progress[i] \in Row
            BY <1>4, <3>1
        <3> QED
            BY <1>4, <3>1, <3>2 DEF WellKept, Spelled
    <2>2. progress[i].task \in Task
        BY <2>1 DEF Row
    <2>3. WaveOf[progress[i].task] # None
        BY <2>2, BoardAssumption
    <2> QED
        BY <2>1, <2>3 DEF RowCodes
<1> QED
    BY <1>1, <1>2, <1>3, <1>4 DEF Refused, LintScopedViolation

\* What a milestone lets pass is spelled, for a row that it does not look at stands as
\* it stood at the last one.
LEMMA PassedIsSpelled ==
    ASSUME IInv, ~Refused
    PROVE  Spelled(progress)
<1>1. SUFFICES ASSUME NEW i \in DOMAIN progress, progress[i].status \notin ProgressStatuses
               PROVE  FALSE
    BY DEF Spelled
<1>2. RowCodes(progress[i]) # {}
    BY <1>1 DEF RowCodes
<1>3. CASE Before(base, progress[i].task) # progress[i].status
    <2>1. progress[i].task \in Changed(DiffProgress(base, progress))
        BY <1>3, RowsAreEvents
    <2>2. progress # Broken
        BY BoardAssumption DEF IInv, WellKept
    <2>3. LintScopedViolation(progress, Changed(DiffProgress(base, progress)))
        BY <1>2, <2>1, <2>2 DEF LintScopedViolation
    <2> QED
        BY <2>3 DEF Refused
<1>4. CASE Before(base, progress[i].task) = progress[i].status
    <2>1. CASE progress[i].task \notin TasksOf(base)
        <3>1. progress[i].status = None
            BY <1>4, <2>1 DEF Before
        <3>2. progress \in Seq(Row)
            BY DEF IInv, WellKept
        <3>3. progress[i] \in Row
            BY <3>2
        <3> QED
            BY <3>1, <3>3, BoardAssumption DEF Row
    <2>2. CASE progress[i].task \in TasksOf(base)
        <3>1. PICK old, task : old = base /\ task = progress[i].task
            OBVIOUS
        <3>2. WellKept(old) /\ Spelled(old)
            BY <3>1 DEF IInv
        <3>3. \E j \in DOMAIN old : Before(old, task) = old[j].status
            BY <2>2, <3>1, <3>2, BeforeIsRow
        <3> QED
            BY <1>1, <1>4, <3>1, <3>2, <3>3 DEF Spelled
    <2> QED
        BY <2>1, <2>2
<1> QED
    BY <1>3, <1>4

----------------------------------------------------------------------------
LEMMA InitIInv == Init => IInv
BY DEF Init, IInv, WellKept, Spelled, TasksOf, TerminalKept

\* A new task gets a row of its own.
LEMMA RegisterKeeps ==
    ASSUME IInv, NEW t \in Task, Register(t)
    PROVE  IInv'
<1> DEFINE row == [task |-> t, wave |-> WaveOf[t], status |-> "todo", dated |-> TRUE]
<1>1. row \in Row
    BY DEF Row, ProgressStatuses
<1>2. WellKept(progress) /\ progress \in Seq(Row) /\ WellKept(base) /\ Spelled(base)
    BY DEF IInv, WellKept
<1>3. progress' = Append(progress, row) /\ base' = base /\ normal' = normal
      /\ t \notin TasksOf(progress)
    BY DEF Register
<1>4. row.task = t /\ row.wave = WaveOf[t] /\ row.status = "todo" /\ row.dated
    OBVIOUS
<1> HIDE DEF row
<1>5. /\ progress' \in Seq(Row)
      /\ Len(progress') = Len(progress) + 1 /\ Len(progress) \in Nat
      /\ DOMAIN progress' = 1..Len(progress')
      /\ DOMAIN progress = 1..Len(progress)
      /\ progress'[Len(progress')] = row
      /\ \A i \in DOMAIN progress : progress'[i] = progress[i]
    BY <1>1, <1>2, <1>3
<1>6. \A i \in DOMAIN progress' : i \in DOMAIN progress \/ i = Len(progress')
    BY <1>5
<1>7. \A i \in DOMAIN progress : progress[i].task # t
    BY <1>3 DEF TasksOf
<1>8. WellKept(progress')
    BY <1>2, <1>4, <1>5, <1>6, <1>7 DEF WellKept
<1>9. TasksOf(base) \subseteq TasksOf(progress')
    <2>1. TasksOf(progress) \subseteq TasksOf(progress')
        BY <1>5 DEF TasksOf
    <2> QED
        BY <2>1 DEF IInv
<1>10. ASSUME normal PROVE Spelled(progress') /\ TerminalKept'
    <2>1. Spelled(progress) /\ TerminalKept
        BY <1>10 DEF IInv
    <2>2. Spelled(progress')
        BY <1>4, <1>5, <1>6, <2>1 DEF Spelled, ProgressStatuses
    <2>3. \A i \in DOMAIN base : base[i].task # t
        BY <1>3 DEF IInv, TasksOf
    <2>4. TerminalKept'
        BY <1>3, <1>4, <1>5, <1>6, <2>1, <2>3 DEF TerminalKept
    <2> QED
        BY <2>2, <2>4
<1> QED
    BY <1>2, <1>3, <1>8, <1>9, <1>10 DEF IInv

\* Another word in the place of a state.
LEMMA RewordKeeps ==
    ASSUME NEW i \in DOMAIN progress, NEW s \in ProgressStatuses \cup {"typo"},
           WellKept(progress), progress' = [progress EXCEPT ![i].status = s]
    PROVE  /\ WellKept(progress')
           /\ DOMAIN progress' = DOMAIN progress
           /\ TasksOf(progress') = TasksOf(progress)
           /\ progress'[i].status = s
           /\ \A j \in DOMAIN progress : /\ progress'[j].task = progress[j].task
                                         /\ progress'[j].wave = progress[j].wave
                                         /\ j # i => progress'[j] = progress[j]
<1>1. progress \in Seq(Row)
    BY DEF WellKept
<1>2. PICK r : r = [progress[i] EXCEPT !.status = s]
    OBVIOUS
<1>3. progress[i] \in Row
    BY <1>1
<1>4. r \in Row /\ r.status = s /\ r.task = progress[i].task /\ r.wave = progress[i].wave
      /\ r.dated = progress[i].dated
    BY <1>2, <1>3 DEF Row
<1>5. progress' = [progress EXCEPT ![i] = r]
    BY <1>2
<1>6. progress' \in Seq(Row) /\ DOMAIN progress' = DOMAIN progress
    BY <1>1, <1>4, <1>5
<1>7. progress'[i] = r /\ \A j \in DOMAIN progress : j # i => progress'[j] = progress[j]
    BY <1>1, <1>5
<1>8. \A j \in DOMAIN progress : /\ progress'[j].task = progress[j].task
                                 /\ progress'[j].wave = progress[j].wave
                                 /\ progress'[j].dated = progress[j].dated
    BY <1>4, <1>7
<1>9. WellKept(progress')
    BY <1>6, <1>8 DEF WellKept
<1>10. TasksOf(progress') = TasksOf(progress)
    BY <1>6, <1>8 DEF TasksOf
<1> QED
    BY <1>4, <1>6, <1>7, <1>8, <1>9, <1>10

\* An allowed edit leaves what is terminal as it is.
LEMMA EditKeeps ==
    ASSUME IInv, NEW i \in DOMAIN progress, NEW s \in ProgressStatuses, Edit(i, s)
    PROVE  IInv'
<1>1. /\ s \in AllowedTransitions(progress[i].status)
      /\ progress' = [progress EXCEPT ![i].status = s] /\ base' = base /\ normal' = normal
    BY DEF Edit
<1>2. WellKept(progress)
    BY DEF IInv
<1>3. /\ WellKept(progress') /\ DOMAIN progress' = DOMAIN progress
      /\ TasksOf(progress') = TasksOf(progress)
      /\ progress'[i].status = s
      /\ \A j \in DOMAIN progress : /\ progress'[j].task = progress[j].task
                                    /\ j # i => progress'[j] = progress[j]
    BY <1>1, <1>2, RewordKeeps
<1>4. progress[i].status \notin Terminal
    BY <1>1 DEF AllowedTransitions, Terminal
<1>5. ASSUME normal PROVE Spelled(progress') /\ TerminalKept'
    <2>1. Spelled(progress) /\ TerminalKept
        BY <1>5 DEF IInv
    <2>2. Spelled(progress')
        BY <1>3, <2>1 DEF Spelled
    <2>3. TerminalKept'
        BY <1>1, <1>3, <1>4, <2>1 DEF TerminalKept
    <2> QED
        BY <2>2, <2>3
<1> QED
    BY <1>1, <1>3, <1>5 DEF IInv

\* A slip, or its correction, ends the claim that the edits follow the norm.
LEMMA SlipKeeps ==
    ASSUME IInv, NEW i \in DOMAIN progress, Slip(i)
    PROVE  IInv'
<1>1. PICK s \in ProgressStatuses \cup {"typo"} : progress' = [progress EXCEPT ![i].status = s]
    BY DEF Slip
<1>2. base' = base /\ normal' = FALSE
    BY DEF Slip
<1>3. WellKept(progress') /\ TasksOf(progress') = TasksOf(progress)
    BY <1>1, RewordKeeps DEF IInv
<1> QED
    BY <1>2, <1>3 DEF IInv

\* A milestone is the new base, and differs from itself in no row.
LEMMA MilestoneKeeps ==
    ASSUME IInv, Milestone
    PROVE  IInv'
<1>1. base' = progress /\ progress' = progress /\ Spelled(progress)
    BY PassedIsSpelled DEF Milestone
<1>2. WellKept(progress)
    BY DEF IInv
<1>3. TerminalKept'
    BY <1>1, <1>2 DEF TerminalKept, WellKept
<1> QED
    BY <1>1, <1>2, <1>3 DEF IInv

LEMMA NextIInv ==
    ASSUME IInv, [Next]_vars
    PROVE  IInv'
<1>1. ASSUME NEW t \in Task, NEW file, LeaderReports(t, file) PROVE IInv'
    BY <1>1 DEF LeaderReports, IInv, TerminalKept
<1>2. CASE UNCHANGED vars
    BY <1>2 DEF vars, IInv, TerminalKept
<1> QED
    BY <1>1, <1>2, RegisterKeeps, EditKeeps, SlipKeeps, MilestoneKeeps DEF Next

\* On the board there is one row per task, none is lost between milestones, the last
\* milestone has no misspelled state, and what was terminal then stays so by the norm.
THEOREM Invariance == Spec => []IInv
<1>1. Init => IInv
    BY InitIInv
<1>2. IInv /\ [Next]_vars => IInv'
    BY NextIInv
<1> QED
    BY <1>1, <1>2, PTL DEF Spec

\* commit.py refuses no sequence of edits that ALLOWED_TRANSITIONS allows one by one.
THEOREM AllowedEditsPass == Spec => []AllowedEditsAreNotRefused
<1>1. IInv => AllowedEditsAreNotRefused
    BY NormalIsNotRefused DEF AllowedEditsAreNotRefused
<1> QED
    BY <1>1, Invariance, PTL

----------------------------------------------------------------------------
\* The severity of a pair, where there is one.
LEMMA Severities ==
    ASSUME NEW r, NEW s
    PROVE  PairSeverity(r, s) \in {"WARN", "ERROR", None}
BY DEF PairSeverity

\* recover.py sees in a report what lint.py and commit.py see in it.
LEMMA ReadAlike ==
    ASSUME NEW file, NEW task
    PROVE  LET read == ReadCanonicalReport(file, task)
           IN  /\ read.invalid <=> ReportCodes(file, task) # {}
               /\ read.status = "done" <=> Verified(file, task)
               /\ ~read.invalid => read.status = IF file = None THEN None ELSE file.status
               /\ read.status \in ReportStatuses \cup {None}
<1> USE DEF ReadCanonicalReport, ReportCodes, Verified
<1>1. None # "done" /\ "done" \in ReportStatuses
    BY BoardAssumption DEF ReportStatuses
<1>2. CASE file = None
    BY <1>1, <1>2
<1>3. CASE file # None /\ file = Broken
    BY <1>1, <1>3
<1>4. CASE file # None /\ file # Broken /\ file.id # task
    BY <1>1, <1>4
<1>5. CASE file # None /\ file # Broken /\ file.id = task /\ file.status \notin ReportStatuses
    BY <1>1, <1>5
<1>6. CASE file # None /\ file # Broken /\ file.id = task /\ file.status \in ReportStatuses
    BY <1>1, <1>6
<1> QED
    BY <1>2, <1>3, <1>4, <1>5, <1>6

\* A row needs attention exactly when lint.py has something to say about it.
THEOREM RecoveryAgrees == Spec => []RecoverAgreesWithLint
<1>1. ASSUME NEW row, NEW file
      PROVE  NeedsAttention(row, file) <=>
                 \/ "bad-status" \in RowCodes(row)
                 \/ ReportCodes(file, row.task) # {}
                 \/ PairFinding(row, file) # None
    <2> DEFINE read == ReadCanonicalReport(file, row.task)
    <2>1. /\ read.invalid <=> ReportCodes(file, row.task) # {}
          /\ ~read.invalid => read.status = IF file = None THEN None ELSE file.status
        BY ReadAlike
    <2>2. "bad-status" \in RowCodes(row) <=> row.status \notin ProgressStatuses
        BY DEF RowCodes
    <2>3. /\ PairSeverity(read.status, row.status) \in {"WARN", "ERROR", None}
          /\ None \notin {"WARN", "ERROR"}
        BY BoardAssumption, Severities
    <2> HIDE DEF read
    <2>4. NeedsAttention(row, file) <=>
              \/ read.invalid
              \/ row.status \notin ProgressStatuses
              \/ PairSeverity(read.status, row.status) \in {"WARN", "ERROR"}
        BY DEF NeedsAttention, read
    <2> QED
        BY <2>1, <2>2, <2>3, <2>4 DEF PairFinding
<1>2. RecoverAgreesWithLint
    BY <1>1 DEF RecoverAgreesWithLint
<1> QED
    BY <1>2, PTL

\* The Maintainer is offered for acceptance exactly what commit.py would let it accept,
\* and to accept it clears what lint.py says about it.
THEOREM OffersAreAcceptable == Spec => []PendingExactlyWhenAcceptable
<1>1. ASSUME NEW row \in Row, NEW file
      PROVE  LET accepted == [row EXCEPT !.status = "accepted"]
             IN  /\ PendingAcceptance(row, file) <=>
                        row.status \notin Terminal /\ Verified(file, row.task)
                 /\ PendingAcceptance(row, file) => PairFinding(accepted, file) = None
    <2>1. PICK accepted : accepted = [row EXCEPT !.status = "accepted"]
        OBVIOUS
    <2>2. accepted.status = "accepted" /\ accepted.task = row.task
        BY <2>1 DEF Row
    <2>3. PendingAcceptance(row, file) <=>
              row.status \notin Terminal /\ Verified(file, row.task)
        BY ReadAlike DEF PendingAcceptance
    <2>4. PairSeverity("done", "accepted") = None
        BY DEF PairSeverity, Warned
    <2>5. Verified(file, row.task) =>
              file # None /\ file.status = "done" /\ ReportCodes(file, row.task) = {}
        BY DEF Verified, ReportCodes, ReportStatuses
    <2>6. PendingAcceptance(row, file) => PairFinding(accepted, file) = None
        BY <2>2, <2>3, <2>4, <2>5 DEF PairFinding
    <2> QED
        BY <2>1, <2>3, <2>6
<1>2. IInv => PendingExactlyWhenAcceptable
    <2>1. SUFFICES ASSUME IInv, NEW i \in DOMAIN progress
                   PROVE  LET row == progress[i]
                              accepted == [row EXCEPT !.status = "accepted"]
                          IN  /\ PendingAcceptance(row, report[row.task]) <=>
                                     row.status \notin Terminal /\ Verified(report[row.task], row.task)
                              /\ PendingAcceptance(row, report[row.task]) =>
                                     PairFinding(accepted, report[row.task]) = None
        BY DEF PendingExactlyWhenAcceptable
    <2>2. progress \in Seq(Row)
        BY <2>1 DEF IInv, WellKept
    <2>3. PICK row, file : row = progress[i] /\ file = report[row.task]
        OBVIOUS
    <2>4. row \in Row
        BY <2>2, <2>3
    <2> QED
        BY <1>1, <2>3, <2>4
<1> QED
    BY <1>2, Invariance, PTL

\* What waits for the Maintainer is flagged, but for the normal wait in review.
THEOREM WaitersAreFlagged == Spec => []WaitingIsFlagged
<1>1. ASSUME NEW row \in Row, NEW file,
             \/ PendingBlockerAcceptance(row, file)
             \/ PendingAcceptance(row, file) /\ row.status # "in-review"
      PROVE  NeedsAttention(row, file)
    <2> DEFINE read == ReadCanonicalReport(file, row.task)
    <2>1. CASE row.status \notin ProgressStatuses
        BY <2>1 DEF NeedsAttention
    <2>2. CASE row.status \in ProgressStatuses /\ PendingBlockerAcceptance(row, file)
        <3>1. read.status \in {"blocked", "needs-spec"}
              /\ row.status \in {"todo", "in-progress", "in-review", "rejected"}
            BY <2>2 DEF PendingBlockerAcceptance
        <3>2. row.status \in Warned(read.status) /\ row.status # "accepted"
            <4> HIDE DEF read
            <4> QED
                BY <3>1, BoardAssumption DEF Warned, ReportStatuses
        <3> QED
            BY <3>2 DEF NeedsAttention, PairSeverity
    <2>3. CASE row.status \in ProgressStatuses /\ PendingAcceptance(row, file)
                 /\ row.status # "in-review"
        <3>1. read.status = "done" /\ row.status \notin Terminal
            BY <2>3 DEF PendingAcceptance
        <3>2. row.status \in {"todo", "in-progress", "blocked", "rejected", "paused"}
            BY <2>3, <3>1 DEF ProgressStatuses, Terminal
        <3>3. row.status \in Warned(read.status) /\ row.status # "accepted"
            <4> HIDE DEF read
            <4> QED
                BY <3>1, <3>2, BoardAssumption DEF Warned, ReportStatuses
        <3> QED
            BY <3>3 DEF NeedsAttention, PairSeverity
    <2> QED
        BY <1>1, <2>1, <2>2, <2>3
<1>2. IInv => WaitingIsFlagged
    <2>1. SUFFICES ASSUME IInv, NEW i \in DOMAIN progress
                   PROVE  LET row == progress[i]
                          IN  \/ PendingBlockerAcceptance(row, report[row.task])
                              \/ PendingAcceptance(row, report[row.task]) /\ row.status # "in-review"
                              => NeedsAttention(row, report[row.task])
        BY DEF WaitingIsFlagged
    <2>2. progress \in Seq(Row)
        BY <2>1 DEF IInv, WellKept
    <2>3. PICK row, file : row = progress[i] /\ file = report[row.task]
        OBVIOUS
    <2>4. row \in Row
        BY <2>2, <2>3
    <2> QED
        BY <1>1, <2>3, <2>4
<1> QED
    BY <1>2, Invariance, PTL

----------------------------------------------------------------------------
\* A wave is finished only if all its tasks are.
LEMMA FinishedIsTerminal ==
    ASSUME NEW table, NEW w, Rollup(table, w) \in {"done", "superseded"}
    PROVE  \A i \in DOMAIN table : table[i].wave = w => table[i].status \in Terminal
<1>1. PICK statuses :
          statuses = {table[i].status : i \in {j \in DOMAIN table : table[j].wave = w}}
    OBVIOUS
<1>2. WaveRollup(statuses) \in {"done", "superseded"}
    BY <1>1 DEF Rollup
<1>3. statuses \subseteq Terminal
    BY <1>2 DEF WaveRollup
<1> QED
    BY <1>1, <1>3

\* The norm leaves a finished wave finished, as it was.
THEOREM WavesStayFinished == Spec => FinishedWavesStay
<1>1. ASSUME IInv, Next, NEW w, Rollup(progress, w) \in {"done", "superseded"}, normal',
             TasksOf(progress') = TasksOf(progress)
      PROVE  Rollup(progress', w) = Rollup(progress, w)
    <2>1. ASSUME NEW t \in Task, Register(t) PROVE FALSE
        <3>1. PICK row : /\ row = [task |-> t, wave |-> WaveOf[t], status |-> "todo",
                                   dated |-> TRUE]
                         /\ progress' = Append(progress, row)
            BY <2>1 DEF Register
        <3>2. row.task = t /\ progress \in Seq(Row)
            BY <1>1, <3>1 DEF IInv, WellKept
        <3>3. Len(progress') \in DOMAIN progress' /\ progress'[Len(progress')] = row
            BY <3>1, <3>2
        <3>4. t \in TasksOf(progress')
            BY <3>2, <3>3 DEF TasksOf
        <3> QED
            BY <1>1, <2>1, <3>4 DEF Register
    <2>2. ASSUME NEW i \in DOMAIN progress, NEW s \in ProgressStatuses, Edit(i, s)
          PROVE  Rollup(progress', w) = Rollup(progress, w)
        <3>1. /\ s \in AllowedTransitions(progress[i].status)
              /\ progress' = [progress EXCEPT ![i].status = s]
            BY <2>2 DEF Edit
        <3>2. /\ DOMAIN progress' = DOMAIN progress
              /\ \A j \in DOMAIN progress : /\ progress'[j].wave = progress[j].wave
                                            /\ j # i => progress'[j] = progress[j]
            BY <1>1, <3>1, RewordKeeps DEF IInv
        <3>3. progress[i].status \notin Terminal
            BY <3>1 DEF AllowedTransitions, Terminal
        <3>4. progress[i].wave # w
            BY <1>1, <3>3, FinishedIsTerminal
        <3>5. {j \in DOMAIN progress' : progress'[j].wave = w}
                 = {j \in DOMAIN progress : progress[j].wave = w}
            BY <3>2
        <3>6. {progress'[j].status : j \in {k \in DOMAIN progress' : progress'[k].wave = w}}
                 = {progress[j].status : j \in {k \in DOMAIN progress : progress[k].wave = w}}
            BY <3>2, <3>4, <3>5
        <3> QED
            BY <3>6 DEF Rollup
    <2>3. ASSUME NEW i \in DOMAIN progress, Slip(i) PROVE FALSE
        BY <1>1, <2>3 DEF Slip
    <2>4. ASSUME NEW t \in Task, NEW file, LeaderReports(t, file) PROVE progress' = progress
        BY <2>4 DEF LeaderReports
    <2>5. ASSUME Milestone PROVE progress' = progress
        BY <2>5 DEF Milestone
    <2>6. CASE progress' = progress
        BY <2>6
    <2> QED
        BY <1>1, <2>1, <2>2, <2>3, <2>4, <2>5, <2>6 DEF Next
<1>2. IInv /\ [Next]_vars =>
          [\A w \in {WaveOf[t] : t \in Task} :
              (/\ Rollup(progress, w) \in {"done", "superseded"}
               /\ normal' /\ TasksOf(progress') = TasksOf(progress))
              => Rollup(progress', w) = Rollup(progress, w)]_vars
    BY <1>1
<1> QED
    BY <1>2, Invariance, PTL DEF Spec, FinishedWavesStay
=============================================================================
