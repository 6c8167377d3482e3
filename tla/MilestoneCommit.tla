-------------------------- MODULE MilestoneCommit --------------------------
(***************************************************************************)
(* milestone_commit and plan_milestone (axdt/progress/commit.py) over a    *)
(* git repository: the commit at HEAD, the index and the working tree,     *)
(* each a function from paths to contents.  Every read of a file and every *)
(* git command is a step; any command may fail, and the process may be     *)
(* killed between two of them.  Three commands run with check=False, and   *)
(* the code goes on when they fail: git show of HEAD's progress.md (taken  *)
(* for a HEAD without one), git show of a report in the index (taken for a *)
(* report that is not done) and git diff (taken for a difference).         *)
(*                                                                         *)
(* progress.md and the reports of this working copy have one writer, the   *)
(* Maintainer (rule progress-single-writer), who waits for the command it  *)
(* has called: they change between calls.  Other files, and what is staged *)
(* of them, change at any time.                                            *)
(***************************************************************************)
EXTENDS ProgressTable

CONSTANTS
    Progress,   \* the path of progress.md; the path of a report is its task
    Other,      \* a path that is neither
    Content,    \* bound: [Path -> what the working tree may hold there]
    MaxEdits    \* bound: edits, additions and commits by hand

Path == Task \cup {Progress, Other}

IsTable(file) == DOMAIN file \subseteq Nat /\ TasksOf(file) \subseteq Task

ASSUME MilestoneAssumption ==
    /\ None # Broken
    /\ Progress \notin Task /\ Other \notin Task /\ Progress # Other
    /\ DOMAIN Content = Path
    /\ \A file \in Content[Progress] : file \in {None, Broken} \/ IsTable(file)
    /\ MaxEdits \in Nat

VARIABLES
    tip,     \* the commit at HEAD: its tree and the events its message lists
    index,   \* [Path -> what is staged there]
    work,    \* [Path -> file in the working tree]
    pc,      \* the next step of milestone_commit, "idle" when it is not running
    call,    \* its arguments and what it has read and computed
    edits

vars == <<tip, index, work, pc, call, edits>>

NoCall == [reasons |-> {}, extra |-> {}, gates |-> FALSE, base |-> <<>>, misread |-> FALSE,
           new |-> <<>>, events |-> {}, paths |-> {}, unread |-> FALSE, empty |-> FALSE]

Init ==
    /\ index = [p \in Path |-> None]
    /\ tip = [tree |-> index, events |-> None]
    /\ work = index
    /\ pc = "idle"
    /\ call = NoCall
    /\ edits = 0

----------------------------------------------------------------------------
\* The working copy between and, for other files, during calls.

MayTouch(p) == pc = "idle" \/ p = Other

EditFile(p, content) ==
    /\ MayTouch(p)
    /\ work' = [work EXCEPT ![p] = content]
    /\ UNCHANGED <<tip, index, pc, call>>

AddFile(p) ==
    /\ MayTouch(p)
    /\ index' = [index EXCEPT ![p] = work[p]]
    /\ UNCHANGED <<tip, work, pc, call>>

CommitByHand ==
    /\ pc = "idle" /\ index # tip.tree
    /\ tip' = [tree |-> index, events |-> None]
    /\ UNCHANGED <<index, work, pc, call>>

Maintain ==
    /\ edits < MaxEdits /\ edits' = edits + 1
    /\ \/ \E p \in Path : AddFile(p) \/ \E content \in Content[p] : EditFile(p, content)
       \/ CommitByHand

----------------------------------------------------------------------------
\* One call.

Goto(from, to) == pc = from /\ pc' = to

\* The end of a call, by return or by an exception.
Leave == pc' = "idle" /\ call' = NoCall

Begin(reasons, extra, gates) ==
    /\ Goto("idle", "base")
    /\ call' = [NoCall EXCEPT !.reasons = reasons, !.extra = extra, !.gates = gates]
    /\ UNCHANGED <<tip, index, work, edits>>

Table(file) == IF file = None THEN <<>> ELSE file

\* Mutant: git show :progress.md, the index for HEAD.
ReadBaseFromIndex ==
    /\ \/ /\ pc = "base" /\ index[Progress] = Broken
          /\ Leave
       \/ /\ index[Progress] # Broken
          /\ Goto("base", "new")
          /\ call' = [call EXCEPT !.base = Table(index[Progress])]
    /\ UNCHANGED <<tip, index, work, edits>>

\* git show HEAD:progress.md.  A table that cannot be parsed ends the call; a command
\* that fails over a table that is there leaves the base empty, and the call goes on.
ReadBase ==
    /\ \/ /\ pc = "base" /\ tip.tree[Progress] = Broken
          /\ Leave
       \/ /\ tip.tree[Progress] # Broken
          /\ Goto("base", "new")
          /\ call' = [call EXCEPT !.base = Table(tip.tree[Progress])]
       \/ /\ tip.tree[Progress] # None
          /\ Goto("base", "new")
          /\ call' = [call EXCEPT !.misread = TRUE]
    /\ UNCHANGED <<tip, index, work, edits>>

ReadNew ==
    /\ \/ /\ pc = "new" /\ work[Progress] \in {None, Broken}
          /\ Leave
       \/ /\ work[Progress] \notin {None, Broken}
          /\ Goto("new", "check")
          /\ call' = [call EXCEPT !.new = work[Progress],
                                  !.events = DiffProgress(call.base, work[Progress])]
    /\ UNCHANGED <<tip, index, work, edits>>

\* Checks 1, 2 and 4: the last has lint read progress.md again.
RowsRefused(base, new, events, file) ==
    \/ TerminalResumed(events)
    \/ RowDeleted(base, new)
    \/ file = None
    \/ LintScopedViolation(file, Changed(events))

\* Mutant: milestone_commit has lost the check that plan_milestone has.
CheckRowsButDeletion ==
    /\ \/ /\ pc = "check"
          /\ TerminalResumed(call.events) \/ LintScopedViolation(work[Progress], Changed(call.events))
          /\ Leave
       \/ /\ Goto("check", "paths")
          /\ ~TerminalResumed(call.events)
          /\ ~LintScopedViolation(work[Progress], Changed(call.events))
          /\ UNCHANGED call
    /\ UNCHANGED <<tip, index, work, edits>>

CheckRows ==
    /\ \/ /\ pc = "check" /\ RowsRefused(call.base, call.new, call.events, work[Progress])
          /\ Leave
       \/ /\ ~RowsRefused(call.base, call.new, call.events, work[Progress])
          /\ Goto("check", "paths")
          /\ UNCHANGED call
    /\ UNCHANGED <<tip, index, work, edits>>

PathsOf(events, extra) ==
    {Progress} \cup {t \in Changed(events) : work[t] # None} \cup extra

PickPaths ==
    /\ Goto("paths", "add")
    /\ call' = [call EXCEPT !.paths = PathsOf(call.events, call.extra)]
    /\ UNCHANGED <<tip, index, work, edits>>

\* The tree with the paths of the call taken from another.
Over(tree, paths, other) == [p \in Path |-> IF p \in paths THEN other[p] ELSE tree[p]]

\* Mutant: only progress.md is staged.
StageProgress ==
    /\ Goto("add", "reports")
    /\ index' = Over(index, {Progress}, work)
    /\ UNCHANGED <<tip, work, call, edits>>

\* git add: every path or, if one matches no file, none.
StagePaths ==
    /\ \/ /\ pc = "add" /\ \E p \in call.paths : work[p] = None /\ index[p] = None
          /\ Leave /\ UNCHANGED index
       \/ /\ \A p \in call.paths : work[p] # None \/ index[p] # None
          /\ Goto("add", "reports")
          /\ index' = Over(index, call.paths, work)
          /\ UNCHANGED call
    /\ UNCHANGED <<tip, work, edits>>

\* Check 3: git show :report for every event that accepts.  Where the command itself
\* fails (unread), the report counts as missing.
Accepting == {e \in call.events : e.after = "accepted"}
Overclaimed(unread) == unread \/ \E e \in Accepting : ~Verified(index[e.task], e.task)

CheckReports ==
    /\ pc = "reports"
    /\ \E unread \in BOOLEAN :
           /\ unread => Accepting # {}
           /\ call' = [call EXCEPT !.unread = unread]
           /\ pc' = IF Overclaimed(unread) THEN "unstage" ELSE "message"
    /\ UNCHANGED <<tip, index, work, edits>>

\* format_milestone_message raises ValueError.
NoMessage(events, reasons, gates) ==
    \/ \E e \in events : e.after = "rejected" /\ e.task \notin reasons
    \/ events = {} /\ ~gates

FormatMessage ==
    /\ pc = "message"
    /\ pc' = IF NoMessage(call.events, call.reasons, call.gates) THEN "unstage" ELSE "diff"
    /\ UNCHANGED <<tip, index, work, call, edits>>

\* git reset -- paths, then the exception.
Unstage ==
    /\ pc = "unstage"
    /\ index' = Over(index, call.paths, tip.tree)
    /\ Leave
    /\ UNCHANGED <<tip, work, edits>>

\* git diff --cached --quiet: anything but exit 0 counts as a difference.
DiffCached ==
    /\ Goto("diff", "commit")
    /\ \/ call' = [call EXCEPT !.empty = \A p \in call.paths : index[p] = tip.tree[p]]
       \/ UNCHANGED call
    /\ UNCHANGED <<tip, index, work, edits>>

\* Mutant: git commit takes the whole index in every case.
CommitIndex ==
    /\ pc = "commit"
    /\ tip' = [tree |-> index, events |-> call.events]
    /\ Leave
    /\ UNCHANGED <<index, work, edits>>

\* git commit --allow-empty takes the whole index; git commit -- paths takes the paths
\* from the working tree, stages them, and refuses to commit nothing.
Commit ==
    /\ pc = "commit"
    /\ \/ /\ call.empty
          /\ tip' = [tree |-> index, events |-> call.events]
          /\ UNCHANGED index
       \/ /\ ~call.empty
          /\ Over(tip.tree, call.paths, work) # tip.tree
          /\ tip' = [tree |-> Over(tip.tree, call.paths, work), events |-> call.events]
          /\ index' = Over(index, call.paths, work)
    /\ Leave
    /\ UNCHANGED <<work, edits>>

\* A git command fails (a hook, a lock) or the process is killed: nothing is undone.
Abort ==
    /\ pc # "idle"
    /\ Leave
    /\ UNCHANGED <<tip, index, work, edits>>

----------------------------------------------------------------------------
\* plan_milestone: the same reads and checks, no git add; None for an exception.

PlanMilestone(reasons, extra, gates, misread) ==
    LET shown  == IF misread THEN None ELSE tip.tree[Progress]
        base   == Table(shown)
        new    == work[Progress]
        events == DiffProgress(base, new)
    IN  IF shown = Broken \/ new \in {None, Broken} THEN None
        ELSE IF RowsRefused(base, new, events, new) THEN None
        ELSE IF NoMessage(events, reasons, gates) THEN None
        ELSE [events |-> events, staged |-> PathsOf(events, extra)]

Next ==
    \/ \E reasons \in SUBSET Task, extra \in SUBSET {Other}, gates \in BOOLEAN :
           Begin(reasons, extra, gates)
    \/ ReadBase \/ ReadNew \/ CheckRows \/ PickPaths \/ StagePaths \/ CheckReports
    \/ FormatMessage \/ Unstage \/ DiffCached \/ Commit \/ Abort
    \/ Maintain

Spec == Init /\ [][Next]_vars

----------------------------------------------------------------------------

\* A commit of the tool, and the tables before and after it: HEAD's own, and the one the
\* call compared with, which is empty if git show failed.
Committing  == pc = "commit" /\ tip' # tip
OldTable    == Table(tip.tree[Progress])
TableShown  == IF call.misread THEN <<>> ELSE OldTable

Lawful(old, new) ==
    /\ TasksOf(old) \subseteq TasksOf(new)
    /\ \A i \in DOMAIN new :
           LET before == Before(old, new[i].task)
           IN  /\ ~Duplicated(new, new[i].task)
               /\ before \in Terminal => new[i].status = before
               /\ before # new[i].status => RowCodes(new[i]) = {}

\* What is committed keeps the rules of the docstring, measured on the two commits: no
\* finished task resumes, no row is lost, the table parses, has one row per task, and the
\* rows whose state changes are well formed.  Files staged before, calls that failed or
\* were killed after staging and commits by hand do not change that.  Only a failed git
\* show does: such a call is measured against no table, so every row counts as changed.
LawfulCommit ==
    [][Committing => /\ tip'.tree[Progress] \notin {None, Broken}
                     /\ Lawful(TableShown, tip'.tree[Progress])]_vars

\* The message of a milestone lists exactly the changes of its commit, so that git log
\* tells the history of progress.md (section 6.3 of the design); after a failed git show
\* it lists every row as new.
MessageTellsDiff ==
    [][Committing => tip'.events = DiffProgress(TableShown, tip'.tree[Progress])]_vars

\* A commit that changes progress.md takes nothing along but what its message names and
\* its caller asked for, whatever any command answered on the way: what anybody staged of
\* other files stays staged and out of the commit.
OthersStayOut ==
    [][Committing /\ tip'.tree[Progress] # tip.tree[Progress] =>
        \A p \in Path \ ({Progress} \cup Changed(tip'.events) \cup call.extra) :
            tip'.tree[p] = tip.tree[p] /\ index'[p] = index[p]]_vars

\* A task is accepted only in a commit that holds its report, done and its own, as long
\* as the working tree has that report: the index that is checked and the working tree
\* that is committed agree there.
AcceptedOnDoneReport ==
    [][Committing => \A e \in call.events :
        e.after = "accepted" /\ work[e.task] # None =>
            Verified(tip'.tree[e.task], e.task)]_vars

\* The dry run foretells the call, where git show answers both alike: what it accepts is
\* committed with the same events and paths, unless a report is not done or not shown;
\* what it refuses is never committed.
PlanForetells ==
    LET plan == PlanMilestone(call.reasons, call.extra, call.gates, call.misread)
    IN  /\ pc = "commit" => plan = [events |-> call.events, staged |-> call.paths]
        /\ pc = "unstage" => plan = None \/ Overclaimed(call.unread)

=============================================================================
