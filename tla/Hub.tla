-------------------------------- MODULE Hub --------------------------------
(***************************************************************************)
(* The bare hub repository (axdt/infra/hub.py): its creation, the          *)
(* pre-receive gate installed in it, and the git daemon that serves it.    *)
(*                                                                         *)
(* A call is the list of the steps it has left.  Every git or tmux command *)
(* and every file operation is a step; between two steps other calls, the  *)
(* daemon and the Leaders' pushes run, and the call may be killed.  A step *)
(* that raises leaves what the call has to do in its except clauses.       *)
(***************************************************************************)
EXTENDS Naturals, Sequences

CONSTANTS
    Caller,     \* processes that may be inside an axdt command
    Task,       \* task identifiers, and with them task branches
    None

ASSUME HubAssumption == None \notin Task

VARIABLES
    hub,        \* the directory: "absent" (or empty), "partial" or a "repo"sitory
    main,       \* the hub's main: "none", the "seed"'s or one that was "pushed"
    pushed,     \* [Task -> None or the commits of the hub's task branch]
    hook,       \* hooks/pre-receive: is it full, is it executable
    daemon,     \* git daemon listens on the hub's port
    pidfile,    \* daemon.pid names "none", the "daemon" or an "other" process
    todo,       \* [Caller -> the steps its call has left]
    call        \* [Caller -> what the call was given and has seen]

repository == <<hub, main, pushed>>
service == <<daemon, pidfile>>
hubVars == <<hub, main, pushed, hook, daemon, pidfile>>

NoCall == [cmd |-> "none", task |-> None, force |-> FALSE, seed |-> FALSE, rescue |-> <<>>,
           seen |-> {}, misread |-> FALSE, opened |-> FALSE, unclosed |-> FALSE,
           failed |-> FALSE, mine |-> "none"]

HubInit ==
    /\ hub = "absent" /\ main = "none"
    /\ pushed = [t \in Task |-> None]
    /\ hook = [full |-> FALSE, exec |-> FALSE]
    /\ daemon = FALSE /\ pidfile = "none"
    /\ todo = [c \in Caller |-> <<>>]
    /\ call = [c \in Caller |-> NoCall]

----------------------------------------------------------------------------
\* Calls.

Idle(c) == todo[c] = <<>>

At(c, step) == ~Idle(c) /\ Head(todo[c]) = step

\* Mutant: what a call has seen is kept when it is over.
GotoKeeping(c, steps, seen) ==
    /\ todo' = [todo EXCEPT ![c] = steps]
    /\ call' = [call EXCEPT ![c] = seen]

Goto(c, steps, seen) ==
    /\ todo' = [todo EXCEPT ![c] = steps]
    /\ call' = [call EXCEPT ![c] = IF steps = <<>> THEN NoCall ELSE seen]

Proceed(c) == Goto(c, Tail(todo[c]), call[c])

Note(c, seen) == Goto(c, Tail(todo[c]), seen)

\* An early return: the rest of a procedure of n more steps is skipped.
Skip(c, n) == Goto(c, SubSeq(todo[c], n + 2, Len(todo[c])), call[c])

Raise(c) == Goto(c, call[c].rescue, [call[c] EXCEPT !.rescue = <<>>])

Abort(c) == ~Idle(c) /\ Goto(c, <<>>, NoCall) /\ UNCHANGED hubVars

InstallGate == <<"open_hook", "write_hook", "chmod_hook", "configure_hub">>
InitHub == <<"populated", "create">> \o InstallGate
\* Mutant: a serve that trusts the gate of an earlier init.
ServeUngated == <<"port", "spawn", "write_pid", "ready">>

ServeHub == InstallGate \o <<"port", "spawn", "write_pid", "ready">>
StopDaemon == <<"windows", "kill_daemon", "unlink_pid">>

----------------------------------------------------------------------------
\* install_gate: write_text truncates the hook where it stands.

OpenHook(c) ==
    /\ At(c, "open_hook") /\ Proceed(c)
    /\ hub' = IF hub = "absent" THEN "partial" ELSE hub
    /\ hook' = [hook EXCEPT !.full = FALSE]
    /\ UNCHANGED <<main, pushed, service>>

WriteHook(c) ==
    /\ At(c, "write_hook")
    /\ \/ Proceed(c) /\ hook' = [hook EXCEPT !.full = TRUE]
       \/ Raise(c) /\ UNCHANGED hook
    /\ UNCHANGED <<repository, service>>

ChmodHook(c) ==
    /\ At(c, "chmod_hook") /\ Proceed(c)
    /\ hook' = [hook EXCEPT !.exec = TRUE]
    /\ UNCHANGED <<repository, service>>

\* The two git config commands; on a directory that is no repository they
\* reach the repository around it, or fail.
ConfigureHub(c) ==
    /\ At(c, "configure_hub")
    /\ Proceed(c) \/ Raise(c)
    /\ UNCHANGED hubVars

\* git skips a hook that is not executable.  An empty one accepts all: so does
\* one that was truncated when it had started, or by a call that then failed.
Gated == hook.full /\ hook.exec

----------------------------------------------------------------------------
\* init and serve.

Populated(c) ==
    /\ At(c, "populated")
    /\ IF hub = "absent" THEN Proceed(c) ELSE Skip(c, Len(InitHub) - 1)
    /\ UNCHANGED hubVars

\* git clone --mirror into a directory that is not empty fails.
CloneSeed(c) ==
    /\ call[c].seed
    /\ \/ /\ hub = "absent" /\ hub' = "repo" /\ main' = "seed"
          /\ Proceed(c)
       \/ /\ hub' \in {hub, IF hub = "absent" THEN "partial" ELSE hub}
          /\ Raise(c) /\ UNCHANGED main

InitBare(c) ==
    /\ ~call[c].seed /\ UNCHANGED main
    /\ \/ hub' = "repo" /\ Proceed(c)
       \/ hub' = (IF hub = "absent" THEN "partial" ELSE hub) /\ Raise(c)

Create(c) ==
    /\ At(c, "create")
    /\ CloneSeed(c) \/ InitBare(c)
    /\ UNCHANGED <<pushed, hook, service>>

Port(c) ==
    /\ At(c, "port")
    /\ IF daemon THEN Skip(c, 3) ELSE Proceed(c)
    /\ UNCHANGED hubVars

\* A daemon that finds the port taken, or cannot run, exits.
Spawn(c) ==
    /\ At(c, "spawn")
    /\ \/ ~daemon /\ daemon' = TRUE /\ Note(c, [call[c] EXCEPT !.mine = "daemon"])
       \/ UNCHANGED daemon /\ Note(c, [call[c] EXCEPT !.mine = "other"])
    /\ UNCHANGED <<repository, hook, pidfile>>

WritePid(c) ==
    /\ At(c, "write_pid") /\ Proceed(c)
    /\ pidfile' = call[c].mine
    /\ UNCHANGED <<repository, hook, daemon>>

Ready(c) ==
    /\ At(c, "ready")
    /\ IF daemon THEN Proceed(c) ELSE Raise(c)
    /\ UNCHANGED hubVars

----------------------------------------------------------------------------
\* The process whose pid is known as the daemon's is the daemon no more.
DaemonEnds ==
    /\ daemon' = FALSE
    /\ pidfile' = IF pidfile = "daemon" THEN "other" ELSE pidfile
    /\ call' = [c \in Caller |-> [call[c] EXCEPT !.mine = IF @ = "daemon" THEN "other" ELSE @]]

\* stop_daemon; windows is what tmux has to list.  The listing is unchecked:
\* one that fails is empty.

RefuseWhile(c, windows) ==
    /\ At(c, "windows")
    /\ \/ windows /\ Raise(c)
       \/ Proceed(c)
    /\ UNCHANGED hubVars

KillDaemon(c) ==
    /\ At(c, "kill_daemon")
    /\ \/ pidfile = "none" /\ Skip(c, 1) /\ UNCHANGED service
       \/ pidfile = "other" /\ Proceed(c) /\ UNCHANGED service
       \/ pidfile = "daemon" /\ todo' = [todo EXCEPT ![c] = Tail(@)] /\ DaemonEnds
    /\ UNCHANGED <<repository, hook>>

UnlinkPid(c) ==
    /\ At(c, "unlink_pid") /\ Proceed(c)
    /\ pidfile' = "none"
    /\ UNCHANGED <<repository, hook, daemon>>

HubStep(c) ==
    \/ OpenHook(c) \/ WriteHook(c) \/ ChmodHook(c) \/ ConfigureHub(c)
    \/ Populated(c) \/ Create(c)
    \/ Port(c) \/ Spawn(c) \/ WritePid(c) \/ Ready(c)
    \/ KillDaemon(c) \/ UnlinkPid(c)
    \/ Abort(c)

----------------------------------------------------------------------------
\* The daemon: pushes of Leaders, and its end.

Serves == daemon /\ hub = "repo"

PushedTo(t) == IF pushed[t] = None THEN {} ELSE pushed[t]

\* A push that is not a fast-forward, and one of no commits, changes nothing.
Receive(t, commits) ==
    /\ Serves
    /\ PushedTo(t) \subseteq commits
    /\ pushed' = [pushed EXCEPT ![t] = commits]
    /\ UNCHANGED <<hub, main, hook, service, todo, call>>

ReceiveMain ==
    /\ Serves /\ ~Gated
    /\ main' = "pushed"
    /\ UNCHANGED <<hub, pushed, hook, service, todo, call>>

DaemonDies == daemon /\ DaemonEnds /\ UNCHANGED <<repository, hook, todo>>

=============================================================================
