-------------------------- MODULE LeaderLifecycle --------------------------
(***************************************************************************)
(* The axdt workspace, container, leader and hub commands (axdt/cli.py)    *)
(* over the hub: working copies cloned from it (workspace.py), tmux        *)
(* windows that run docker (tmux.py, container.py) and their composition   *)
(* (backend.py, leader.py).                                                *)
(*                                                                         *)
(* A task's commands are given by one Maintainer who waits for each; that  *)
(* is how the infra README describes the work, the code takes no lock.     *)
(* The hub commands, and other tasks' commands, run at the same time.      *)
(***************************************************************************)
EXTENDS Hub

CONSTANTS
    Commit,     \* bound: what Leaders may commit
    MaxCalls    \* bound: axdt commands

WorkingCopy == [clone : BOOLEAN, branch : (SUBSET Commit) \cup {None}, hubRef : (SUBSET Commit) \cup {None}]

ASSUME LifecycleAssumption ==
    /\ MaxCalls \in Nat
    /\ \A K \in SUBSET Commit : K # None
    /\ \A w \in WorkingCopy : w # None

VARIABLES
    ws,         \* [Task -> None or a working copy: its task branch and hub/<branch>]
    window,     \* [Task -> the task's window: "none" or how far its docker run is]
    container,  \* [Task -> its container; "adrift" runs without its working copy]
    shell,      \* the window a new tmux session opens with
    calls

sessions == <<window, container, shell>>
vars == <<hubVars, todo, call, ws, sessions, calls>>

\* A directory that is no clone: git, called in it, acts on a repository
\* around it if there is one.
Husk == [clone |-> FALSE, branch |-> None, hubRef |-> None]

Init ==
    /\ HubInit
    /\ ws = [t \in Task |-> None]
    /\ window = [t \in Task |-> "none"]
    /\ container = [t \in Task |-> "none"]
    /\ shell = FALSE
    /\ calls = 0

Commits(t) == IF ws[t] = None \/ ws[t].branch = None THEN {} ELSE ws[t].branch

Unpushed(t) == Commits(t) \ PushedTo(t)

Session == shell \/ \E t \in Task : window[t] # "none"

----------------------------------------------------------------------------
\* The commands.

Provision == <<"exists">> \o InitHub \o ServeHub \o <<"clone", "configure">>
Teardown == <<"there", "fetch", "count", "remove">>
StopSession == <<"kill_window", "docker_stop", "docker_rm">>
Up == Provision \o <<"look">> \o ServeHub \o <<"ensure", "new_window", "capture">>

\* Mutant: a stop that removes the container before it closes the window.
DownBackwards == <<"docker_stop", "docker_rm", "kill_window">> \o Teardown

Down == StopSession \o Teardown

\* What the command does, and whether it is about one task.
Steps == [workspace_create |-> Provision, workspace_rm |-> Teardown,
          leader_up |-> Up, leader_down |-> Down,
          container_stop |-> <<"docker_stop">>, container_rm |-> <<"docker_rm">>,
          hub_init |-> InitHub, hub_serve |-> ServeHub, hub_stop_daemon |-> StopDaemon]

HubCommand == {"hub_init", "hub_serve", "hub_stop_daemon"}
Forcible == {"workspace_create", "workspace_rm", "leader_down"}

Waits(t) == \A c \in Caller : Idle(c) \/ call[c].task # t

Begin(c, cmd, t, force, seed) ==
    /\ Idle(c) /\ calls < MaxCalls /\ calls' = calls + 1
    /\ IF cmd \in HubCommand THEN t = None ELSE t \in Task /\ Waits(t)
    /\ force => cmd \in Forcible
    /\ seed => cmd = "hub_init"
    /\ Goto(c, Steps[cmd],
            [NoCall EXCEPT !.cmd = cmd, !.task = t, !.force = force, !.seed = seed,
                           !.seen = IF t = None THEN {} ELSE Commits(t)])
    /\ UNCHANGED <<hubVars, ws, sessions>>

----------------------------------------------------------------------------
\* provision.  The list of the steps left names the task: call[c].task.

Exists(c, t) ==
    /\ At(c, "exists")
    /\ \/ ws[t] = None /\ Proceed(c)
       \/ ws[t] # None /\ ~call[c].force /\ Raise(c)
       \/ ws[t] # None /\ call[c].force /\ Goto(c, Tail(Teardown) \o Tail(todo[c]), call[c])
    /\ UNCHANGED <<hubVars, ws, sessions, calls>>

\* git clone --branch main, unchecked; without a main it fails.
Clone(c, t) ==
    /\ At(c, "clone") /\ Proceed(c)
    /\ \/ /\ hub = "repo" /\ main # "none" /\ ws[t] = None
          /\ ws' = [ws EXCEPT ![t] = [Husk EXCEPT !.clone = TRUE, !.hubRef = pushed[t]]]
       \/ UNCHANGED ws
    /\ UNCHANGED <<hubVars, sessions, calls>>

\* git remote rename, unchecked, then git remote add and git checkout -b,
\* which fail when there is no directory.
Configure(c, t) ==
    /\ At(c, "configure")
    /\ \/ /\ ws[t] # None
          /\ ws' = IF ws[t].clone THEN [ws EXCEPT ![t].branch = {}] ELSE ws
          /\ Proceed(c)
       \/ UNCHANGED ws /\ Raise(c)
    /\ UNCHANGED <<hubVars, sessions, calls>>

----------------------------------------------------------------------------
\* teardown.  A forced one vouches for nothing.

There(c, t) ==
    /\ At(c, "there")
    /\ \/ ws[t] = None /\ Skip(c, 3)
       \/ ws[t] # None /\ ~call[c].force /\ Proceed(c)
       \/ ws[t] # None /\ call[c].force /\ Goto(c, <<"remove">>, [call[c] EXCEPT !.seen = {}])
    /\ UNCHANGED <<hubVars, ws, sessions, calls>>

Fetch(c, t) ==
    /\ At(c, "fetch") /\ Proceed(c)
    /\ \/ /\ ws[t].clone /\ hub = "repo" /\ pushed[t] # None
          /\ ws' = [ws EXCEPT ![t].hubRef = pushed[t]]
       \/ UNCHANGED ws
    /\ UNCHANGED <<hubVars, sessions, calls>>

\* Mutant: the ends of the range swapped.
CountSwapped(c, t) ==
    /\ At(c, "count")
    /\ LET blind == ws[t].branch = None \/ ws[t].hubRef = None IN
       \/ blind /\ Note(c, [call[c] EXCEPT !.seen = {}])
       \/ /\ ~blind /\ ws[t].hubRef \subseteq ws[t].branch
          /\ Note(c, [call[c] EXCEPT !.seen = ws[t].branch])
       \/ ~blind /\ ~(ws[t].hubRef \subseteq ws[t].branch) /\ Raise(c)
    /\ UNCHANGED <<hubVars, ws, sessions, calls>>

\* git rev-list --count hub/<branch>..<branch> fails when one is missing, and
\* its empty output counts as nothing unpushed: the call vouches for nothing.
Count(c, t) ==
    /\ At(c, "count")
    /\ LET blind == ws[t].branch = None \/ ws[t].hubRef = None IN
       \/ blind /\ Note(c, [call[c] EXCEPT !.seen = {}])
       \/ /\ ~blind /\ ws[t].branch \subseteq ws[t].hubRef
          /\ Note(c, [call[c] EXCEPT !.seen = ws[t].branch])
       \/ ~blind /\ ~(ws[t].branch \subseteq ws[t].hubRef) /\ Raise(c)
    /\ UNCHANGED <<hubVars, ws, sessions, calls>>

Mount(t) == IF container[t] = "running" THEN "adrift" ELSE container[t]

\* shutil.rmtree, of teardown and of the compensation in up; one that fails
\* or is killed half way leaves a directory that is no working copy.
Remove(c, t) ==
    /\ At(c, "remove") \/ At(c, "compensate")
    /\ \/ ws' = [ws EXCEPT ![t] = None] /\ Proceed(c)
       \/ ws[t] # None /\ ws' = [ws EXCEPT ![t] = Husk] /\ Goto(c, <<>>, NoCall)
    /\ container' = [container EXCEPT ![t] = Mount(t)]
    /\ UNCHANGED <<hubVars, window, shell, calls>>

----------------------------------------------------------------------------
\* start and stop of the backend.

\* Mutant: start without its look at what is there.
LookAway(c, t) ==
    /\ At(c, "look")
    /\ Note(c, [call[c] EXCEPT !.rescue = <<"compensate">>])
    /\ UNCHANGED <<hubVars, ws, sessions, calls>>

\* The working copy, the window and the container are looked at once: while
\* the task's Maintainer waits none of them can come into being in between.
\* list-windows and docker ps are unchecked: what a failed one would have
\* listed is taken not to be there.
Look(c, t) ==
    /\ At(c, "look")
    /\ LET free == window[t] = "none" /\ container[t] = "none" IN
       \/ /\ ws[t] # None
          /\ Note(c, [call[c] EXCEPT !.rescue = <<"compensate">>, !.misread = ~free])
       \/ (ws[t] = None \/ ~free) /\ Goto(c, <<"compensate">>, call[c])
    /\ UNCHANGED <<hubVars, ws, sessions, calls>>

\* has-session is unchecked: after one that failed new-session is a duplicate.
Ensure(c) ==
    /\ At(c, "ensure")
    /\ \/ /\ shell' = (shell \/ ~Session)
          /\ Note(c, [call[c] EXCEPT !.rescue = StopSession \o <<"compensate">>])
       \/ Raise(c) /\ UNCHANGED shell
    /\ UNCHANGED <<hubVars, ws, window, container, calls>>

\* A window of the name is an error, unless its listing fails again: then
\* there are two, but one container of the name, and the model has one window.
NewWindow(c, t) ==
    /\ At(c, "new_window")
    /\ \/ /\ Session
          /\ window' = [window EXCEPT ![t] = IF @ = "none" THEN "run" ELSE @]
          /\ Note(c, [call[c] EXCEPT !.opened = TRUE])
       \/ UNCHANGED window /\ Raise(c)
    /\ UNCHANGED <<hubVars, ws, container, shell, calls>>

StartCapture(c) ==
    /\ At(c, "capture")
    /\ Proceed(c) \/ Raise(c)
    /\ UNCHANGED <<hubVars, ws, sessions, calls>>

\* list-windows and kill-window are unchecked: the window may stay open.
KillWindow(c, t) ==
    /\ At(c, "kill_window")
    /\ \/ window' = [window EXCEPT ![t] = "none"] /\ Proceed(c)
       \/ /\ window[t] # "none" /\ UNCHANGED window
          /\ Note(c, [call[c] EXCEPT !.unclosed = TRUE])
    /\ UNCHANGED <<hubVars, ws, container, shell, calls>>

Attached(t) == IF window[t] = "attached" THEN "none" ELSE window[t]

\* docker stop and docker rm -f, unchecked: they may fail in silence.
DockerStop(c, t) ==
    /\ At(c, "docker_stop") /\ Proceed(c)
    /\ \/ /\ container[t] \in {"running", "adrift"}
          /\ container' = [container EXCEPT ![t] = "exited"]
          /\ window' = [window EXCEPT ![t] = Attached(t)]
       \/ UNCHANGED <<window, container>>
    /\ UNCHANGED <<hubVars, ws, shell, calls>>

DockerRm(c, t) ==
    /\ At(c, "docker_rm")
    /\ \/ /\ container' = [container EXCEPT ![t] = "none"]
          /\ window' = [window EXCEPT ![t] = Attached(t)]
          /\ Proceed(c)
       \/ /\ container[t] # "none" /\ UNCHANGED <<window, container>>
          /\ Note(c, [call[c] EXCEPT !.failed = TRUE])
    /\ UNCHANGED <<hubVars, ws, shell, calls>>

----------------------------------------------------------------------------
\* Around the calls: docker run in its window, the Leader in its container,
\* the operator's shell.

\* docker run is refused the name of a container that is there.
DockerCreate(t) ==
    /\ window[t] = "run"
    /\ IF container[t] = "none"
       THEN /\ window' = [window EXCEPT ![t] = "created"]
            /\ container' = [container EXCEPT ![t] = "created"]
       ELSE window' = [window EXCEPT ![t] = "none"] /\ UNCHANGED container
    /\ UNCHANGED ws

\* docker makes the directory it mounts when it is not there.
DockerStart(t) ==
    /\ window[t] = "created"
    /\ IF container[t] = "created"
       THEN /\ window' = [window EXCEPT ![t] = "attached"]
            /\ container' = [container EXCEPT ![t] = "running"]
            /\ ws' = IF ws[t] = None THEN [ws EXCEPT ![t] = Husk] ELSE ws
       ELSE window' = [window EXCEPT ![t] = "none"] /\ UNCHANGED <<ws, container>>

CommandEnds(t) ==
    /\ container[t] \in {"running", "adrift"}
    /\ container' = [container EXCEPT ![t] = "exited"]
    /\ window' = [window EXCEPT ![t] = Attached(t)]
    /\ UNCHANGED ws

LeaderCommits(t, k) ==
    /\ container[t] = "running" /\ ws[t].branch # None
    /\ ws' = [ws EXCEPT ![t].branch = @ \cup {k}]
    /\ UNCHANGED <<window, container>>

LeaderPushes(t) ==
    /\ container[t] = "running" /\ ws[t].branch # None
    /\ Receive(t, ws[t].branch)

World ==
    /\ \/ /\ \E t \in Task : \/ DockerCreate(t) \/ DockerStart(t) \/ CommandEnds(t)
                             \/ \E k \in Commit : LeaderCommits(t, k)
          /\ UNCHANGED <<hubVars, todo, call, shell>>
       \/ /\ \/ \E t \in Task : LeaderPushes(t)
             \/ (\E t \in Task : container[t] = "running") /\ ReceiveMain
             \/ DaemonDies
          /\ UNCHANGED <<ws, sessions>>
       \/ /\ shell /\ shell' = FALSE
          /\ UNCHANGED <<hubVars, todo, call, ws, window, container>>
    /\ UNCHANGED calls

----------------------------------------------------------------------------
Start(c) ==
    \E cmd \in DOMAIN Steps, t \in Task \cup {None}, force, seed \in BOOLEAN :
        Begin(c, cmd, t, force, seed)

TaskStep(c, t) ==
    \/ Exists(c, t) \/ Clone(c, t) \/ Configure(c, t)
    \/ There(c, t) \/ Fetch(c, t) \/ Count(c, t) \/ Remove(c, t)
    \/ Look(c, t) \/ NewWindow(c, t) \/ KillWindow(c, t)
    \/ DockerStop(c, t) \/ DockerRm(c, t)

Run(c) ==
    \/ TaskStep(c, call[c].task)
    \/ Ensure(c) \/ StartCapture(c)
    \/ HubStep(c) /\ UNCHANGED <<ws, sessions, calls>>
    \/ RefuseWhile(c, Session) /\ UNCHANGED <<ws, sessions, calls>>

Next == World \/ \E c \in Caller : Start(c) \/ Run(c)

Spec == Init /\ [][Next]_vars

----------------------------------------------------------------------------
(***************************************************************************)
(* Properties                                                              *)
(***************************************************************************)

\* Every variable holds one of the values its declaration lists.
TypeOK ==
    /\ hub \in {"absent", "partial", "repo"} /\ main \in {"none", "seed", "pushed"}
    /\ pushed \in [Task -> (SUBSET Commit) \cup {None}]
    /\ hook \in [full : BOOLEAN, exec : BOOLEAN]
    /\ daemon \in BOOLEAN /\ pidfile \in {"none", "daemon", "other"}
    /\ DOMAIN todo = Caller
    /\ \A c \in Caller : /\ Idle(c) => call[c] = NoCall
                        /\ call[c].task \in Task \cup {None}
                        /\ call[c].seen \subseteq Commit
                        /\ call[c].mine \in {"none", "daemon", "other"}
    /\ ws \in [Task -> WorkingCopy \cup {None}]
    /\ window \in [Task -> {"none", "run", "created", "attached"}]
    /\ container \in [Task -> {"none", "created", "running", "adrift", "exited"}]
    /\ shell \in BOOLEAN /\ calls \in 0..MaxCalls

\* A commit the hub does not have is lost only by a call that never vouched
\* for it: a forced removal, one whose rev-list failed, or, for a commit made
\* after rev-list, any.  A removal that counted, and the compensation of a
\* failed up, lose none of the commits they saw (workspace.teardown, leader.up).
Entitled(c, t, k) ==
    /\ call[c].task = t /\ k \notin call[c].seen
    /\ At(c, "remove") \/ At(c, "compensate")

CommitsSurvive ==
    [][\A t \in Task : \A k \in Unpushed(t) :
          k \notin Commits(t)' => \E c \in Caller : Entitled(c, t, k)]_vars

\* leader.down, and an up that fails after it opened its window, get to the
\* working copy only when no window and no container of the task is left, but
\* for what tmux or docker would not remove: the order of _cleanup and stop in
\* backend.py closes the window before the container is removed, so only one
\* that was not closed can create a container behind them.
PastStop(c) ==
    \/ call[c].cmd = "leader_down" /\ Head(todo[c]) \in {"there", "fetch", "count", "remove"}
    \/ call[c].cmd = "leader_up" /\ call[c].opened /\ Head(todo[c]) = "compensate"

StopLeavesNothing ==
    \A c \in Caller : ~Idle(c) /\ PastStop(c) =>
        /\ window[call[c].task] = "none" \/ call[c].unclosed
        /\ container[call[c].task] = "none" \/ call[c].failed \/ call[c].unclosed

\* The cleanup of a failed up finds a window or a container by the task's
\* name and destroys it: it is never that of a session that was there before
\* and that its look was shown (TmuxDockerBackend.start, _cleanup).
Cleans(c) ==
    /\ ~Idle(c) /\ call[c].cmd = "leader_up"
    /\ Head(todo[c]) \in {"kill_window", "docker_stop", "docker_rm"}

NothingThere(t) == window[t] = "none" /\ container[t] = "none"

CleanupIsOwn ==
    \A c \in Caller : Cleans(c) /\ ~call[c].misread => call[c].opened \/ NothingThere(call[c].task)

\* Whichever calls were killed, and however init, serve and the daemon's end
\* interleave, a repository is never served whose hook git would skip (serve
\* installs the gate before it starts the daemon).
ServedWithHook == Serves => hook.exec

\* "Refused when there is unpushed work and no force" (the Phase 3 design,
\* workspace.teardown): a removal does not get past its count.
UnpushedIsRefused ==
    [][\A c \in Caller : At(c, "count") /\ Unpushed(call[c].task) # {} =>
          ~(todo'[c] # <<>> /\ Head(todo'[c]) = "remove")]_vars

=============================================================================
