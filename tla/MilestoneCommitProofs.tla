----------------------- MODULE MilestoneCommitProofs -----------------------
(***************************************************************************)
(* What a milestone commit guarantees, for every set of tasks and every    *)
(* content of the files.  The invariant says what each step of a call      *)
(* knows of the repository: progress.md and the reports stand still during *)
(* a call, so what was read is still there when it is committed.           *)
(***************************************************************************)
EXTENDS MilestoneCommit, TLAPS

Our == Task \cup {Progress}   \* the paths that stand still during a call

Stages == {"idle", "base", "new", "check", "paths", "add", "reports", "message", "diff",
           "commit", "unstage"}
AfterBase  == {"new", "check", "paths", "add", "reports", "message", "diff", "commit", "unstage"}
AfterNew   == AfterBase \ {"new"}
AfterCheck == AfterNew \ {"check"}
AfterPaths == AfterCheck \ {"paths"}
AfterAdd   == AfterPaths \ {"add"}

IsTree(f) == f = [p \in Path |-> f[p]]

IsCall ==
    call = [reasons |-> call.reasons, extra |-> call.extra, gates |-> call.gates,
            base |-> call.base, misread |-> call.misread, new |-> call.new,
            events |-> call.events, paths |-> call.paths, unread |-> call.unread,
            empty |-> call.empty]

\* Shapes, and tables whose rows name tasks.
Shape ==
    /\ IsTree(index) /\ IsTree(work) /\ IsTree(tip.tree)
    /\ IsCall
    /\ pc \in Stages
    /\ work[Progress] \in {None, Broken} \/ IsTable(work[Progress])
    /\ call.extra \subseteq {Other}
    /\ call.misread \in BOOLEAN /\ call.unread \in BOOLEAN

\* The base is the table that git show answered with; a broken one is not read.
BaseRead ==
    pc \in AfterBase => /\ call.base = TableShown
                        /\ (call.misread \/ tip.tree[Progress] # Broken)

NotMisread == pc = "base" => ~call.misread /\ call.base = <<>>

NewRead ==
    pc \in AfterNew =>
        /\ work[Progress] \notin {None, Broken}
        /\ call.new = work[Progress]
        /\ call.events = DiffProgress(call.base, work[Progress])

RowsChecked ==
    pc \in AfterCheck => ~RowsRefused(call.base, call.new, call.events, work[Progress])

PathsPicked == pc \in AfterPaths => call.paths = PathsOf(call.events, call.extra)

Staged == pc \in AfterAdd => \A p \in call.paths \cap Our : index[p] = work[p]

ReportsChecked == pc \in {"message", "diff", "commit"} => ~Overclaimed(call.unread)

MessageMade ==
    pc \in {"diff", "commit"} => ~NoMessage(call.events, call.reasons, call.gates)

EmptySeen ==
    call.empty => pc = "commit" /\ \A p \in call.paths \cap Our : index[p] = tip.tree[p]

Refusing ==
    pc = "unstage" => Overclaimed(call.unread) \/ NoMessage(call.events, call.reasons, call.gates)

IInv ==
    /\ Shape /\ NotMisread /\ BaseRead /\ NewRead /\ RowsChecked /\ PathsPicked /\ Staged
    /\ ReportsChecked /\ MessageMade /\ EmptySeen /\ Refusing

----------------------------------------------------------------------------

\* An event is a change of a row of the new table (diff_progress).
LEMMA EventsAreRows ==
    ASSUME NEW base, NEW new, NEW e \in DiffProgress(base, new)
    PROVE  e.task \in TasksOf(new)
BY DEF DiffProgress, TasksOf

\* So an event names a task.
LEMMA ChangedAreTasks ==
    ASSUME IInv, pc \in AfterNew
    PROVE  Changed(call.events) \subseteq Task
BY EventsAreRows DEF IInv, Shape, NewRead, Changed, IsTable

\* During a call the working copy changes at other paths only.
LEMMA StandStill ==
    ASSUME IInv, MilestoneAssumption, Maintain, pc # "idle"
    PROVE  /\ tip' = tip /\ call' = call /\ pc' = pc
           /\ \A p \in Our : index'[p] = index[p] /\ work'[p] = work[p]
           /\ IsTree(index') /\ IsTree(work')
<1>1. Other \notin Our /\ Our \subseteq Path
    BY MilestoneAssumption DEF Our, Path
<1>2. IsTree(index) /\ IsTree(work)
    BY DEF IInv, Shape
<1>3. ASSUME NEW p \in Path, AddFile(p)
      PROVE  /\ tip' = tip /\ call' = call /\ pc' = pc
             /\ \A q \in Our : index'[q] = index[q] /\ work'[q] = work[q]
             /\ IsTree(index') /\ IsTree(work')
    BY <1>1, <1>2, <1>3 DEF AddFile, MayTouch, IsTree
<1>4. ASSUME NEW p \in Path, NEW content, EditFile(p, content)
      PROVE  /\ tip' = tip /\ call' = call /\ pc' = pc
             /\ \A q \in Our : index'[q] = index[q] /\ work'[q] = work[q]
             /\ IsTree(index') /\ IsTree(work')
    BY <1>1, <1>2, <1>4 DEF EditFile, MayTouch, IsTree
<1>5. ~CommitByHand
    BY DEF CommitByHand
<1> QED
    BY <1>3, <1>4, <1>5 DEF Maintain

\* The facts of a call survive what happens beside it.
LEMMA MaintainKeeps ==
    ASSUME IInv, MilestoneAssumption, Maintain
    PROVE  IInv'
<1>1. CASE pc = "idle"
    <2>1. pc' = "idle" /\ call' = call
        BY <1>1 DEF Maintain, AddFile, EditFile, CommitByHand
    <2>2. IsTree(index') /\ IsTree(work') /\ IsTree(tip'.tree)
        BY DEF IInv, Shape, IsTree, Maintain, AddFile, EditFile, CommitByHand
    <2>3. work'[Progress] \in {None, Broken} \/ IsTable(work'[Progress])
        <3>1. CASE work' = work
            BY <3>1 DEF IInv, Shape
        <3>2. CASE \E p \in Path : \E content \in Content[p] : EditFile(p, content)
            <4>0. PICK p \in Path : \E content \in Content[p] : EditFile(p, content)
                BY <3>2
            <4>1. PICK content \in Content[p] : work' = [work EXCEPT ![p] = content]
                BY <4>0 DEF EditFile
            <4>2. CASE p = Progress
                <5>1. work'[Progress] = content
                    BY <4>1, <4>2 DEF IInv, Shape, IsTree
                <5> QED
                    BY <4>2, <5>1, MilestoneAssumption DEF MilestoneAssumption
            <4>3. CASE p # Progress
                BY <4>1, <4>3 DEF IInv, Shape, IsTree, Path
            <4> QED
                BY <4>2, <4>3
        <3> QED
            BY <3>1, <3>2 DEF Maintain, AddFile, CommitByHand
    <2>4. Shape'
        BY <2>1, <2>2, <2>3 DEF IInv, Shape, IsCall, Stages
    <2> QED
        BY <1>1, <2>1, <2>4 DEF IInv, NotMisread, BaseRead, NewRead, RowsChecked, PathsPicked, Staged,
            ReportsChecked, MessageMade, EmptySeen, Refusing, AfterBase, AfterNew, AfterCheck,
            AfterPaths, AfterAdd
<1>2. CASE pc # "idle"
    <2>1. /\ tip' = tip /\ call' = call /\ pc' = pc
          /\ \A p \in Our : index'[p] = index[p] /\ work'[p] = work[p]
          /\ IsTree(index') /\ IsTree(work')
        BY <1>2, StandStill
    <2>2. work'[Progress] = work[Progress]
        BY <2>1 DEF Our
    <2>3. /\ Shape' /\ NotMisread' /\ BaseRead' /\ NewRead' /\ RowsChecked' /\ MessageMade'
        BY <2>1, <2>2 DEF IInv, Shape, IsCall, NotMisread, BaseRead, NewRead, RowsChecked,
            MessageMade, TableShown, OldTable
    <2>4. pc \in AfterNew => Changed(call.events) \subseteq Task
        BY ChangedAreTasks
    <2>5. pc \in AfterNew => (Overclaimed(call.unread)' <=> Overclaimed(call.unread))
        BY <2>1, <2>4 DEF Overclaimed, Accepting, Changed, Our
    <2>6. pc \in AfterNew => PathsOf(call.events, call.extra)' = PathsOf(call.events, call.extra)
        BY <2>1, <2>4 DEF PathsOf, Our
    <2>7. PathsPicked'
        BY <2>1, <2>6 DEF IInv, PathsPicked, AfterPaths, AfterCheck
    <2>8. Staged' /\ EmptySeen'
        BY <2>1 DEF IInv, Staged, EmptySeen
    <2>9. ReportsChecked' /\ Refusing'
        BY <2>1, <2>5 DEF IInv, ReportsChecked, Refusing, AfterNew, AfterBase
    <2> QED
        BY <2>3, <2>7, <2>8, <2>9 DEF IInv
<1> QED
    BY <1>1, <1>2

----------------------------------------------------------------------------

\* Once a call is over, nothing is claimed of it.
LEMMA LeaveKeeps ==
    ASSUME IInv, Leave, work' = work, IsTree(index'), IsTree(tip'.tree)
    PROVE  IInv'
<1>1. pc' = "idle" /\ call' = NoCall
    BY DEF Leave
<1>2. Shape'
    BY <1>1 DEF IInv, Shape, IsCall, NoCall, Stages
<1> QED
    BY <1>1, <1>2 DEF NoCall, Begin, IInv, NotMisread, BaseRead, NewRead, RowsChecked, PathsPicked,
        Staged, ReportsChecked, MessageMade, EmptySeen, Refusing, AfterBase, AfterNew, AfterCheck,
        AfterPaths, AfterAdd

\* What Over takes from each of the two trees.
LEMMA OverIsTree ==
    ASSUME NEW tree, NEW paths, NEW other
    PROVE  /\ IsTree(Over(tree, paths, other))
           /\ \A p \in Path : p \in paths => Over(tree, paths, other)[p] = other[p]
           /\ \A p \in Path : p \notin paths => Over(tree, paths, other)[p] = tree[p]
BY DEF IsTree, Over

\* The call begins with its arguments and knows nothing yet.
LEMMA BeginKeeps ==
    ASSUME IInv, NEW reasons \in SUBSET Task, NEW extra \in SUBSET {Other}, NEW gates \in BOOLEAN,
           Begin(reasons, extra, gates)
    PROVE  IInv'
<1>1. pc' = "base" /\ tip' = tip /\ index' = index /\ work' = work
    BY DEF Begin, Goto
<1>2. Shape'
    BY <1>1 DEF Begin, NoCall, IInv, Shape, IsCall, Stages
<1> QED
    BY <1>1, <1>2 DEF NoCall, Begin, IInv, NotMisread, BaseRead, NewRead, RowsChecked, PathsPicked,
        Staged, ReportsChecked, MessageMade, EmptySeen, Refusing, AfterBase, AfterNew, AfterCheck,
        AfterPaths, AfterAdd

\* git show HEAD:progress.md: the base is HEAD's table, or empty if the command failed.
LEMMA ReadBaseKeeps ==
    ASSUME IInv, ReadBase
    PROVE  IInv'
<1>1. CASE Leave
    BY <1>1, LeaveKeeps DEF ReadBase, IInv, Shape
<1>2. CASE /\ tip.tree[Progress] # Broken
           /\ Goto("base", "new")
           /\ call' = [call EXCEPT !.base = Table(tip.tree[Progress])]
    <2>1. pc = "base" /\ pc' = "new" /\ tip' = tip /\ index' = index /\ work' = work
        BY <1>2 DEF ReadBase, Goto
    <2>2. /\ Shape' /\ call'.base = Table(tip.tree[Progress])
          /\ call'.misread = call.misread /\ call'.empty = call.empty
        BY <1>2, <2>1 DEF IInv, Shape, IsCall, Stages
    <2>3. BaseRead'
        BY <1>2, <2>1, <2>2 DEF IInv, NotMisread, Shape, IsCall, BaseRead, TableShown, OldTable, Goto
    <2> QED
        BY <2>1, <2>2, <2>3 DEF IInv, NotMisread, NewRead, RowsChecked, PathsPicked, Staged,
            ReportsChecked, MessageMade, EmptySeen, Refusing, AfterBase, AfterNew, AfterCheck,
            AfterPaths, AfterAdd
<1>3. CASE Goto("base", "new") /\ call' = [call EXCEPT !.misread = TRUE]
    <2>1. pc = "base" /\ pc' = "new" /\ tip' = tip /\ index' = index /\ work' = work
        BY <1>3 DEF ReadBase, Goto
    <2>2. Shape' /\ call'.base = <<>> /\ call'.misread /\ call'.empty = call.empty
        BY <1>3, <2>1 DEF IInv, NotMisread, Shape, IsCall, Stages
    <2>3. BaseRead'
        BY <2>2 DEF BaseRead, TableShown
    <2> QED
        BY <2>1, <2>2, <2>3 DEF IInv, NotMisread, NewRead, RowsChecked, PathsPicked, Staged,
            ReportsChecked, MessageMade, EmptySeen, Refusing, AfterBase, AfterNew, AfterCheck,
            AfterPaths, AfterAdd
<1> QED
    BY <1>1, <1>2, <1>3 DEF ReadBase

\* progress.md is read: the events are its difference from the base.
LEMMA ReadNewKeeps ==
    ASSUME IInv, ReadNew
    PROVE  IInv'
<1>1. CASE Leave
    BY <1>1, LeaveKeeps DEF ReadNew, IInv, Shape
<1>2. CASE /\ work[Progress] \notin {None, Broken}
           /\ Goto("new", "check")
           /\ call' = [call EXCEPT !.new = work[Progress],
                                   !.events = DiffProgress(call.base, work[Progress])]
    <2>1. pc = "new" /\ pc' = "check" /\ tip' = tip /\ index' = index /\ work' = work
        BY <1>2 DEF ReadNew, Goto
    <2>2. /\ Shape' /\ call'.new = work[Progress] /\ call'.base = call.base
          /\ call'.misread = call.misread /\ call'.empty = call.empty
          /\ call'.events = DiffProgress(call.base, work[Progress])
        BY <1>2, <2>1 DEF IInv, Shape, IsCall, Stages
    <2>3. BaseRead' /\ NewRead'
        BY <1>2, <2>1, <2>2 DEF IInv, NotMisread, BaseRead, NewRead, TableShown, OldTable, AfterBase
    <2> QED
        BY <2>1, <2>2, <2>3 DEF IInv, NotMisread, RowsChecked, PathsPicked, Staged,
            ReportsChecked, MessageMade, EmptySeen, Refusing, AfterBase, AfterNew, AfterCheck,
            AfterPaths, AfterAdd
<1> QED
    BY <1>1, <1>2 DEF ReadNew

\* Past checks 1, 2 and 4 nothing refuses the rows.
LEMMA CheckRowsKeeps ==
    ASSUME IInv, CheckRows
    PROVE  IInv'
<1>1. CASE Leave
    BY <1>1, LeaveKeeps DEF CheckRows, IInv, Shape
<1>2. CASE /\ ~RowsRefused(call.base, call.new, call.events, work[Progress])
           /\ Goto("check", "paths")
           /\ UNCHANGED call
    <2>1. /\ pc = "check" /\ pc' = "paths"
          /\ tip' = tip /\ index' = index /\ work' = work /\ call' = call
        BY <1>2 DEF CheckRows, Goto
    <2>2. Shape' /\ BaseRead' /\ NewRead'
        BY <2>1 DEF IInv, Shape, IsCall, Stages, BaseRead, NewRead, TableShown, OldTable, AfterBase, AfterNew
    <2>3. RowsChecked'
        BY <1>2, <2>1 DEF RowsChecked
    <2> QED
        BY <2>1, <2>2, <2>3 DEF IInv, NotMisread, PathsPicked, Staged,
            ReportsChecked, MessageMade, EmptySeen, Refusing, AfterBase, AfterNew, AfterCheck,
            AfterPaths, AfterAdd
<1> QED
    BY <1>1, <1>2 DEF CheckRows

\* The paths of the call are the ones PathsOf names.
LEMMA PickPathsKeeps ==
    ASSUME IInv, PickPaths
    PROVE  IInv'
<1>1. /\ pc = "paths" /\ pc' = "add" /\ tip' = tip /\ index' = index /\ work' = work
      /\ call' = [call EXCEPT !.paths = PathsOf(call.events, call.extra)]
    BY DEF PickPaths, Goto
<1>2. /\ Shape' /\ call'.base = call.base /\ call'.new = call.new
      /\ call'.misread = call.misread /\ call'.empty = call.empty
      /\ call'.events = call.events /\ call'.extra = call.extra
      /\ call'.paths = PathsOf(call.events, call.extra)
    BY <1>1 DEF IInv, Shape, IsCall, Stages
<1>3. BaseRead' /\ NewRead' /\ RowsChecked'
    BY <1>1, <1>2 DEF IInv, NotMisread, BaseRead, NewRead, RowsChecked, TableShown, OldTable, AfterBase, AfterNew, AfterCheck
<1>4. PathsPicked'
    BY <1>1, <1>2 DEF PathsPicked, PathsOf
<1> QED
    BY <1>1, <1>2, <1>3, <1>4 DEF IInv, NotMisread, Staged, ReportsChecked, MessageMade, EmptySeen,
        Refusing, AfterBase, AfterNew, AfterCheck, AfterPaths, AfterAdd

\* From here on the facts about what was read only have to be carried along.
LEMMA CallGoesOn ==
    ASSUME IInv, pc \in AfterPaths, pc' \in AfterPaths, tip' = tip, work' = work, IsTree(index'),
           IsCall', call'.base = call.base, call'.misread = call.misread, call'.unread \in BOOLEAN, call'.new = call.new, call'.events = call.events,
           call'.extra = call.extra, call'.paths = call.paths
    PROVE  Shape' /\ BaseRead' /\ NewRead' /\ RowsChecked' /\ PathsPicked'
<1>1. /\ AfterPaths \subseteq AfterCheck /\ AfterCheck \subseteq AfterNew
      /\ AfterNew \subseteq AfterBase /\ AfterBase \subseteq Stages
    BY DEF AfterPaths, AfterCheck, AfterNew, AfterBase, Stages
<1>2. Shape'
    BY <1>1 DEF IInv, Shape
<1>3. BaseRead' /\ NewRead' /\ RowsChecked'
    BY <1>1 DEF IInv, NotMisread, BaseRead, NewRead, RowsChecked, TableShown, OldTable
<1>4. PathsPicked'
    BY <1>1 DEF IInv, PathsPicked, PathsOf
<1> QED
    BY <1>2, <1>3, <1>4

\* git add makes index and working tree agree on the paths of the call.
LEMMA StagePathsKeeps ==
    ASSUME IInv, StagePaths
    PROVE  IInv'
<1>1. CASE Leave /\ UNCHANGED index
    BY <1>1, LeaveKeeps DEF StagePaths, IInv, Shape
<1>2. CASE /\ Goto("add", "reports")
           /\ index' = Over(index, call.paths, work)
           /\ UNCHANGED call
    <2>1. /\ pc = "add" /\ pc' = "reports" /\ tip' = tip /\ work' = work /\ call' = call
        BY <1>2 DEF StagePaths, Goto
    <2>2. IsTree(index') /\ \A p \in Path : p \in call.paths => index'[p] = work[p]
        BY <1>2, OverIsTree
    <2>3. Shape' /\ BaseRead' /\ NewRead' /\ RowsChecked' /\ PathsPicked'
        BY <2>1, <2>2, CallGoesOn
           DEF IInv, Shape, IsCall, AfterPaths, AfterCheck, AfterNew, AfterBase
    <2>4. Staged'
        BY <2>1, <2>2 DEF Staged, Our, Path
    <2> QED
        BY <2>1, <2>3, <2>4 DEF IInv, NotMisread, ReportsChecked, MessageMade, EmptySeen, Refusing
<1> QED
    BY <1>1, <1>2 DEF StagePaths

\* Check 3 passes only if no event claims more than its report.
LEMMA CheckReportsKeeps ==
    ASSUME IInv, CheckReports
    PROVE  IInv'
<1>1. PICK unread \in BOOLEAN :
           /\ call' = [call EXCEPT !.unread = unread]
           /\ pc' = IF Overclaimed(unread) THEN "unstage" ELSE "message"
    BY DEF CheckReports
<1>2. pc = "reports" /\ tip' = tip /\ index' = index /\ work' = work
    BY DEF CheckReports
<1>3. /\ IsCall' /\ call'.base = call.base /\ call'.misread = call.misread
      /\ call'.new = call.new /\ call'.events = call.events /\ call'.extra = call.extra
      /\ call'.paths = call.paths /\ call'.reasons = call.reasons /\ call'.gates = call.gates
      /\ call'.unread = unread /\ call'.empty = call.empty
    BY <1>1 DEF IInv, Shape, IsCall
<1>4. Shape' /\ BaseRead' /\ NewRead' /\ RowsChecked' /\ PathsPicked'
    BY <1>1, <1>2, <1>3, CallGoesOn DEF IInv, Shape, AfterPaths, AfterCheck, AfterNew, AfterBase
<1>5. Staged'
    BY <1>2, <1>3 DEF IInv, Staged, AfterAdd, AfterPaths, AfterCheck, AfterNew, AfterBase
<1>6. Overclaimed(call.unread)' <=> Overclaimed(unread)
    BY <1>2, <1>3 DEF Overclaimed, Accepting
<1>7. ReportsChecked' /\ Refusing'
    BY <1>1, <1>6 DEF ReportsChecked, Refusing
<1> QED
    BY <1>1, <1>2, <1>3, <1>4, <1>5, <1>7 DEF IInv, NotMisread, MessageMade, EmptySeen

\* The message is made only if every event has what it needs.
LEMMA FormatMessageKeeps ==
    ASSUME IInv, FormatMessage
    PROVE  IInv'
<1>1. /\ pc = "message" /\ tip' = tip /\ index' = index /\ work' = work /\ call' = call
      /\ pc' = IF NoMessage(call.events, call.reasons, call.gates) THEN "unstage" ELSE "diff"
    BY DEF FormatMessage
<1>2. Shape' /\ BaseRead' /\ NewRead' /\ RowsChecked' /\ PathsPicked'
    BY <1>1, CallGoesOn DEF IInv, Shape, IsCall, AfterPaths, AfterCheck, AfterNew, AfterBase
<1>3. Staged'
    BY <1>1 DEF IInv, Staged, AfterAdd, AfterPaths, AfterCheck, AfterNew, AfterBase
<1>4. ReportsChecked'
    BY <1>1 DEF IInv, ReportsChecked, Overclaimed, Accepting
<1>5. MessageMade' /\ Refusing'
    BY <1>1 DEF MessageMade, Refusing
<1> QED
    BY <1>1, <1>2, <1>3, <1>4, <1>5 DEF IInv, NotMisread, EmptySeen

\* git diff --cached tells whether the paths of the call differ from HEAD.
LEMMA DiffCachedKeeps ==
    ASSUME IInv, DiffCached
    PROVE  IInv'
<1>1. /\ pc = "diff" /\ pc' = "commit" /\ tip' = tip /\ index' = index /\ work' = work
    BY DEF DiffCached, Goto
<1>0. \/ call' = [call EXCEPT !.empty = \A p \in call.paths : index[p] = tip.tree[p]]
      \/ call' = call
    BY DEF DiffCached
<1>2. /\ IsCall' /\ call'.base = call.base /\ call'.new = call.new
      /\ call'.misread = call.misread /\ call'.unread = call.unread
      /\ call'.events = call.events /\ call'.extra = call.extra /\ call'.paths = call.paths
      /\ call'.reasons = call.reasons /\ call'.gates = call.gates
    BY <1>0 DEF IInv, Shape, IsCall
<1>3. Shape' /\ BaseRead' /\ NewRead' /\ RowsChecked' /\ PathsPicked'
    BY <1>1, <1>2, CallGoesOn DEF IInv, Shape, AfterPaths, AfterCheck, AfterNew, AfterBase
<1>4. Staged'
    BY <1>1, <1>2 DEF IInv, Staged, AfterAdd, AfterPaths, AfterCheck, AfterNew, AfterBase
<1>5. ReportsChecked' /\ MessageMade'
    BY <1>1, <1>2 DEF IInv, ReportsChecked, MessageMade, Overclaimed, Accepting
<1>6. call'.empty => \A p \in call.paths : index[p] = tip.tree[p]
    <2>1. CASE call' = [call EXCEPT !.empty = \A p \in call.paths : index[p] = tip.tree[p]]
        BY <2>1 DEF IInv, Shape, IsCall
    <2>2. CASE call' = call
        BY <1>1, <2>2 DEF IInv, EmptySeen
    <2> QED
        BY <1>0, <2>1, <2>2
<1>7. EmptySeen'
    BY <1>1, <1>2, <1>6 DEF EmptySeen
<1> QED
    BY <1>1, <1>3, <1>4, <1>5, <1>7 DEF IInv, NotMisread, Refusing

\* git commit ends the call.
LEMMA CommitKeeps ==
    ASSUME IInv, Commit
    PROVE  IInv'
<1>1. IsTree(tip'.tree) /\ IsTree(index')
    BY OverIsTree DEF Commit, IInv, Shape
<1> QED
    BY <1>1, LeaveKeeps DEF Commit

\* A refusal after git add ends the call.
LEMMA UnstageKeeps ==
    ASSUME IInv, Unstage
    PROVE  IInv'
BY LeaveKeeps, OverIsTree DEF Unstage, IInv, Shape

\* So does the failure of a git command.
LEMMA AbortKeeps ==
    ASSUME IInv, Abort
    PROVE  IInv'
BY LeaveKeeps DEF Abort, IInv, Shape

\* The facts of a call hold at each of its steps.
THEOREM Invariance == Spec => []IInv
<1> USE MilestoneAssumption
<1>1. Init => IInv
    BY DEF Init, IInv, Shape, IsTree, IsCall, NoCall, Stages, Path, NotMisread, BaseRead, NewRead,
        RowsChecked, PathsPicked, Staged, ReportsChecked, MessageMade, EmptySeen, Refusing,
        AfterBase, AfterNew, AfterCheck, AfterPaths, AfterAdd
<1>2. IInv /\ [Next]_vars => IInv'
    <2> SUFFICES ASSUME IInv, [Next]_vars PROVE IInv'
        OBVIOUS
    <2>1. CASE UNCHANGED vars
        BY <2>1 DEF vars, IInv, Shape, IsTree, IsCall, NotMisread, BaseRead, NewRead,
            RowsChecked, PathsPicked, PathsOf, Staged, ReportsChecked, Overclaimed, Accepting,
            MessageMade, EmptySeen, Refusing, TableShown, OldTable
    <2>2. CASE Next
        BY <2>2, BeginKeeps, ReadBaseKeeps, ReadNewKeeps, CheckRowsKeeps, PickPathsKeeps,
           StagePathsKeeps, CheckReportsKeeps, FormatMessageKeeps, DiffCachedKeeps, CommitKeeps,
           UnstageKeeps, AbortKeeps, MaintainKeeps DEF Next
    <2> QED
        BY <2>1, <2>2
<1> QED
    BY <1>1, <1>2, PTL DEF Spec

----------------------------------------------------------------------------

\* A step that moves HEAD at the end of a call is git commit.
LEMMA CommittingIsCommit ==
    ASSUME IInv, MilestoneAssumption, [Next]_vars, Committing
    PROVE  Commit
<1>1. pc = "commit" /\ tip' # tip
    BY DEF Committing
<1>2. ~Maintain
    BY <1>1, StandStill
<1> QED
    BY <1>1, <1>2 DEF Next, vars, Begin, ReadBase, ReadNew, CheckRows, PickPaths, StagePaths,
        CheckReports, FormatMessage, Unstage, DiffCached, Abort, Goto

\* What the commit of the tool holds at progress.md and the reports of its events.
LEMMA Committed ==
    ASSUME IInv, MilestoneAssumption, Commit
    PROVE  /\ tip'.events = call.events
           /\ Progress \in call.paths
           /\ \A p \in call.paths \cap Our : tip'.tree[p] = work[p]
<1>1. pc = "commit"
    BY DEF Commit
<1>2. Our \subseteq Path
    BY DEF Our, Path
<1>3. \A p \in call.paths \cap Our : index[p] = work[p]
    BY <1>1 DEF IInv, Staged, AfterAdd, AfterPaths, AfterCheck, AfterNew, AfterBase
<1>4. \A p \in call.paths \cap Our : tip'.tree[p] = work[p]
    BY <1>2, <1>3, OverIsTree DEF Commit
<1>5. Progress \in call.paths
    BY <1>1 DEF IInv, PathsPicked, PathsOf, AfterPaths, AfterCheck, AfterNew, AfterBase
<1> QED
    BY <1>4, <1>5 DEF Commit

\* What a call that is about to commit has read and checked.
LEMMA AboutToCommit ==
    ASSUME IInv, pc = "commit"
    PROVE  /\ work[Progress] \notin {None, Broken}
           /\ IsTable(work[Progress])
           /\ call.misread \/ tip.tree[Progress] # Broken
           /\ call.base = TableShown /\ call.new = work[Progress]
           /\ call.events = DiffProgress(TableShown, work[Progress])
           /\ call.paths = PathsOf(call.events, call.extra)
           /\ ~RowsRefused(call.base, call.new, call.events, work[Progress])
           /\ ~Overclaimed(call.unread) /\ ~NoMessage(call.events, call.reasons, call.gates)
<1>1. pc \in AfterBase /\ pc \in AfterNew /\ pc \in AfterCheck /\ pc \in AfterPaths
    BY DEF AfterPaths, AfterCheck, AfterNew, AfterBase
<1> QED
    BY <1>1 DEF IInv, Shape, BaseRead, NewRead, RowsChecked, PathsPicked, ReportsChecked, MessageMade

\* Rows that nothing refuses make a lawful change.
LEMMA NotRefusedIsLawful ==
    ASSUME NEW old, NEW new, new \notin {None, Broken},
           ~RowsRefused(old, new, DiffProgress(old, new), new)
    PROVE  Lawful(old, new)
<1>1. TasksOf(old) \subseteq TasksOf(new)
    BY DEF RowsRefused, RowDeleted
<1>2. ASSUME NEW i \in DOMAIN new
      PROVE  ~Duplicated(new, new[i].task)
    BY DEF RowsRefused, LintScopedViolation
<1>3. ASSUME NEW i \in DOMAIN new, Before(old, new[i].task) # new[i].status
      PROVE  Before(old, new[i].task) \notin Terminal /\ RowCodes(new[i]) = {}
    <2> DEFINE e == [task |-> new[i].task, before |-> Before(old, new[i].task),
                     after |-> new[i].status]
    <2>1. e \in DiffProgress(old, new)
        BY <1>3 DEF DiffProgress
    <2>2. new[i].task \in Changed(DiffProgress(old, new))
        <3>1. e.task = new[i].task
            OBVIOUS
        <3> HIDE DEF e
        <3> QED
            BY <2>1, <3>1 DEF Changed
    <2>3. RowCodes(new[i]) = {}
        BY <2>2 DEF RowsRefused, LintScopedViolation
    <2>4. Before(old, new[i].task) \notin Terminal
        <3>1. e.before = Before(old, new[i].task)
            OBVIOUS
        <3> HIDE DEF e
        <3> QED
            BY <2>1, <3>1 DEF RowsRefused, TerminalResumed
    <2> QED
        BY <2>3, <2>4
<1> QED
    BY <1>1, <1>2, <1>3 DEF Lawful

\* Every commit of the tool keeps the rules, measured on the two commits.
THEOREM LawfulCommits == Spec => LawfulCommit
<1> USE MilestoneAssumption
<1>1. ASSUME IInv, [Next]_vars, Committing
      PROVE  /\ tip'.tree[Progress] \notin {None, Broken}
             /\ Lawful(TableShown, tip'.tree[Progress])
    <2>1. tip'.tree[Progress] = work[Progress]
        BY <1>1, CommittingIsCommit, Committed DEF Our
    <2> QED
        BY <1>1, <2>1, AboutToCommit, NotRefusedIsLawful DEF Committing
<1> QED
    BY <1>1, Invariance, PTL DEF Spec, LawfulCommit

\* The message of every commit of the tool lists exactly the changes between the commits.
THEOREM MessagesTellDiffs == Spec => MessageTellsDiff
<1> USE MilestoneAssumption
<1>1. ASSUME IInv, [Next]_vars, Committing
      PROVE  tip'.events = DiffProgress(TableShown, tip'.tree[Progress])
    <2>1. tip'.tree[Progress] = work[Progress] /\ tip'.events = call.events
        BY <1>1, CommittingIsCommit, Committed DEF Our
    <2> QED
        BY <1>1, <2>1, AboutToCommit DEF Committing
<1> QED
    BY <1>1, Invariance, PTL DEF Spec, MessageTellsDiff

\* An accepted task has its own done report in the commit, unless the working tree has
\* lost the file.
THEOREM AcceptedHaveReports == Spec => AcceptedOnDoneReport
<1> USE MilestoneAssumption
<1>1. ASSUME IInv, [Next]_vars, Committing,
             NEW e \in call.events, e.after = "accepted", work[e.task] # None
      PROVE  Verified(tip'.tree[e.task], e.task)
    <2>1. pc = "commit" /\ pc \in AfterNew /\ pc \in AfterAdd
        BY <1>1 DEF Committing, AfterAdd, AfterPaths, AfterCheck, AfterNew, AfterBase
    <2>2. e.task \in Changed(call.events) /\ e.task \in Task
        BY <1>1, <2>1, ChangedAreTasks DEF Changed
    <2>3. e.task \in call.paths \cap Our
        BY <1>1, <2>1, <2>2, AboutToCommit DEF PathsOf, Our
    <2>4. index[e.task] = work[e.task]
        BY <1>1, <2>1, <2>3 DEF IInv, Staged
    <2>5. tip'.tree[e.task] = work[e.task]
        BY <1>1, <2>3, CommittingIsCommit, Committed
    <2>6. Verified(index[e.task], e.task)
        BY <1>1, <2>1, AboutToCommit DEF Overclaimed, Accepting
    <2> QED
        BY <2>4, <2>5, <2>6
<1>2. IInv /\ [Next]_vars =>
        (Committing => \A e \in call.events :
            e.after = "accepted" /\ work[e.task] # None =>
                Verified(tip'.tree[e.task], e.task))
    BY <1>1
<1> QED
    BY <1>2, Invariance, PTL DEF Spec, AcceptedOnDoneReport

\* A milestone that changes progress.md leaves the files of others as they were, staged or
\* not, whatever git show and git diff answered.
THEOREM OthersAreLeftOut == Spec => OthersStayOut
<1> USE MilestoneAssumption
<1>1. ASSUME IInv, [Next]_vars, Committing, tip'.tree[Progress] # tip.tree[Progress],
             NEW p \in Path \ ({Progress} \cup Changed(tip'.events) \cup call.extra)
      PROVE  tip'.tree[p] = tip.tree[p] /\ index'[p] = index[p]
    <2>1. pc = "commit" /\ pc \in AfterAdd
        BY <1>1 DEF Committing, AfterAdd, AfterPaths, AfterCheck, AfterNew, AfterBase
    <2>2. /\ Commit /\ Progress \in call.paths \cap Our
          /\ tip'.tree[Progress] = work[Progress] /\ tip'.events = call.events
        BY <1>1, CommittingIsCommit, Committed DEF Our
    <2>3. ~call.empty
        <3> SUFFICES ASSUME call.empty PROVE FALSE
            OBVIOUS
        <3>1. work[Progress] = tip.tree[Progress]
            BY <1>1, <2>1, <2>2 DEF IInv, Staged, EmptySeen
        <3> QED
            BY <1>1, <2>2, <3>1
    <2>4. p \notin call.paths
        BY <1>1, <2>1, <2>2, AboutToCommit DEF PathsOf, Changed
    <2> QED
        BY <2>2, <2>3, <2>4, OverIsTree DEF Commit
<1>2. IInv /\ [Next]_vars =>
        (Committing /\ tip'.tree[Progress] # tip.tree[Progress] =>
            \A p \in Path \ ({Progress} \cup Changed(tip'.events) \cup call.extra) :
                tip'.tree[p] = tip.tree[p] /\ index'[p] = index[p])
    BY <1>1
<1> QED
    BY <1>2, Invariance, PTL DEF Spec, OthersStayOut

\* The dry run foretells what the call commits and what it refuses late, as long as git
\* show answers both alike.
THEOREM PlansForetell == Spec => []PlanForetells
<1>1. ASSUME IInv
      PROVE  PlanForetells
    <2> DEFINE shown == IF call.misread THEN None ELSE tip.tree[Progress]
               events == DiffProgress(Table(shown), work[Progress])
               plan == PlanMilestone(call.reasons, call.extra, call.gates, call.misread)
    <2>0. /\ Table(shown) = TableShown
          /\ call.misread \/ tip.tree[Progress] # Broken => shown # Broken
        BY MilestoneAssumption DEF MilestoneAssumption, TableShown, OldTable, Table
    <2>1. CASE pc = "commit"
        BY <1>1, <2>0, <2>1, AboutToCommit DEF PlanForetells, PlanMilestone
    <2>2. CASE pc = "unstage"
        <3>1. pc \in AfterNew
            BY <2>2 DEF AfterNew, AfterBase
        <3>2. call.events = events
            BY <1>1, <2>0, <3>1 DEF IInv, BaseRead, NewRead, AfterNew, AfterBase
        <3>3. Overclaimed(call.unread) \/ NoMessage(events, call.reasons, call.gates)
            BY <1>1, <2>2, <3>2 DEF IInv, Refusing
        <3>4. plan = None \/ Overclaimed(call.unread)
            BY <3>3 DEF PlanMilestone
        <3> QED
            BY <2>2, <3>4 DEF PlanForetells
    <2> QED
        BY <2>1, <2>2 DEF PlanForetells
<1> QED
    BY <1>1, Invariance, PTL

=============================================================================
