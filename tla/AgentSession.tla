---------------------------- MODULE AgentSession ----------------------------
(***************************************************************************)
(* AgentRunner (axdt/agent_runner/runner.py) on one CLI session.  Several  *)
(* processes drive the session, each with a runner of its own: one starts  *)
(* it, the others attach.  What they see of it is its life and the state   *)
(* file its hooks write after the fact; what they do to it is typing text  *)
(* and pressing keys, each a command of its own that may fail.             *)
(* The session, its hooks and the lock of the callers are external: they   *)
(* follow PLATFORM_MATRIX.md and the docstring of protocol/inject.py.      *)
(***************************************************************************)
EXTENDS Naturals, Sequences

CONSTANTS
    None,
    Runners,
    MaxLine       \* bound: texts in the input line at once

AgentState == {"starting", "idle", "busy", "waiting_input", "stopped", "error"}

ASSUME AgentSessionAssumption ==
    /\ None \notin Runners /\ None \notin AgentState
    /\ MaxLine \in Nat \ {0}

VARIABLES
    phase,      \* of the session: "none", the AgentStates it can be in, and "ended" or
                \* "failed" once its process is gone, by its exit code
    file, due,  \* the state file; a record its hook has not written yet; or None
    line,       \* the input line: whose texts it holds
    runner,     \* [there, started, stop, last]: an AgentRunner, last is _last_state
    call,       \* the call its process is in: at, late; and of a send cleared, and as
                \* history blind, what its poll could not know, and sent and found, the
                \* line and the phase its Enter met
    pending     \* history: no poll has seen the effect of the last Enter

sessionVars == <<phase, file, due, line>>
vars == <<sessionVars, runner, call, pending>>

Alive == phase \in {"starting", "idle", "busy", "waiting_input"}

NoRunner == [there |-> FALSE, started |-> FALSE, stop |-> FALSE, last |-> "starting"]
NoCall   == [at |-> "none", late |-> FALSE, cleared |-> FALSE, blind |-> "no",
             sent |-> <<>>, found |-> "none"]

Init ==
    /\ phase = "none" /\ file = None /\ due = None /\ line = <<>>
    /\ runner = [r \in Runners |-> NoRunner]
    /\ call = [r \in Runners |-> NoCall]
    /\ pending = FALSE

----------------------------------------------------------------------------
\* The session.  Its hooks run before it goes on, and write after the change.

Change(to, record) ==
    /\ phase' = to /\ due' = record
    /\ UNCHANGED <<file, line, runner, call, pending>>

SessionStep ==
    /\ due = None
    /\ \/ phase = "starting" /\ Change("idle", "idle")
       \/ phase = "busy" /\ Change("idle", "idle")
       \/ phase = "busy" /\ Change("waiting_input", "waiting_input")
       \/ phase = "waiting_input" /\ Change("busy", "busy")     \* a person answers

\* The hook replaces the file, and the agent may spoil it until the next record.
HookWrites ==
    /\ due # None
    /\ file' = due /\ due' = None
    /\ UNCHANGED <<phase, line, runner, call, pending>>

FileSpoiled ==
    /\ phase = "busy" /\ file # "garbage"
    /\ file' = "garbage"
    /\ UNCHANGED <<phase, due, line, runner, call, pending>>

\* The file goes with the container.
Dead ==
    /\ phase' \in {"ended", "failed"}
    /\ line' = <<>> /\ due' = None /\ file' = None

SessionDies ==
    /\ Alive
    /\ Dead
    /\ UNCHANGED <<runner, call, pending>>

\* What Enter does to it: submits a prompt, queues one, or approves what it asked.
Enter ==
    /\ phase' = IF phase \in {"idle", "waiting_input"} THEN "busy" ELSE phase
    /\ due' = IF phase \in {"idle", "waiting_input"} THEN "busy" ELSE due
    /\ line' = <<>>
    /\ UNCHANGED <<file>>

----------------------------------------------------------------------------
\* The runner.

Free(r) == runner[r].there /\ call[r].at = "none"

\* No other process is between its poll and its Enter, or looks for the effect of it.
Sending == {"clear", "text", "submit", "observe"}
LockFree(r) == \A q \in Runners \ {r} : call[q].at \notin Sending

\* (A process that finds a session attaches to it.)
Construct(r) ==
    /\ ~runner[r].there /\ phase = "none"
    /\ runner' = [runner EXCEPT ![r] = [NoRunner EXCEPT !.there = TRUE]]
    /\ UNCHANGED <<sessionVars, call, pending>>

\* The role's artifacts are there and right, or nothing is started; a launch that
\* fails shows as a dead session.
StartSession(r) ==
    /\ Free(r) /\ ~runner[r].started /\ ~runner[r].stop
    /\ phase = "none"
    /\ phase' \in {"starting", "failed"}
    /\ runner' = [runner EXCEPT ![r].started = TRUE, ![r].last = "starting"]
    /\ UNCHANGED <<file, due, line, call, pending>>

Attach(r) ==
    /\ ~runner[r].there
    /\ Alive
    /\ runner' = [runner EXCEPT ![r] = [there |-> TRUE, started |-> TRUE, stop |-> FALSE,
                                        last |-> "starting"]]
    /\ UNCHANGED <<sessionVars, call, pending>>

\* Mutant: how the process ended is looked at before what was asked of it.
PollExitFirst(r, read) ==
    IF ~runner[r].started THEN IF runner[r].stop THEN "stopped" ELSE "starting"
    ELSE IF ~Alive THEN IF phase = "failed" THEN "error" ELSE "stopped"
    ELSE IF runner[r].stop THEN "stopped"
    ELSE IF read \in AgentState THEN read
    ELSE runner[r].last

\* Mutant: the state is kept once it is known.
PollRemembers(r, read) ==
    IF ~runner[r].started THEN IF runner[r].stop THEN "stopped" ELSE "starting"
    ELSE IF runner[r].stop THEN "stopped"
    ELSE IF ~Alive THEN IF phase = "failed" THEN "error" ELSE "stopped"
    ELSE IF runner[r].last = "idle" THEN "idle"
    ELSE IF read \in AgentState THEN read
    ELSE runner[r].last

\* Mutant: whatever the file holds is taken for a state.
PollUnchecked(r, read) ==
    IF ~runner[r].started THEN IF runner[r].stop THEN "stopped" ELSE "starting"
    ELSE IF runner[r].stop THEN "stopped"
    ELSE IF ~Alive THEN IF phase = "failed" THEN "error" ELSE "stopped"
    ELSE IF read # None THEN read
    ELSE runner[r].last

\* poll_state, with what the reading of the file gave: its contents, or None.
PollState(r, read) ==
    IF ~runner[r].started THEN IF runner[r].stop THEN "stopped" ELSE "starting"
    ELSE IF runner[r].stop THEN "stopped"
    ELSE IF ~Alive THEN IF phase = "failed" THEN "error" ELSE "stopped"
    ELSE IF read \in AgentState THEN read
    ELSE runner[r].last

\* A poll keeps its result, unless there is no session yet; pending ends when one
\* reads a record that says the session has left idle.
Polled(r, read) ==
    /\ runner' = IF runner[r].started THEN [runner EXCEPT ![r].last = PollState(r, read)]
                 ELSE runner
    /\ pending' = (pending /\ ~(runner[r].started /\ read \in AgentState \ {"idle"}))

Poll(r) ==
    /\ Free(r)
    /\ \E read \in {file, None} : Polled(r, read)
    /\ UNCHANGED <<sessionVars, call>>

\* send_when_idle (cleared) and send_prompt begin with a poll; the lock of the caller is
\* taken before.  blind: what the poll could not know.
Send(r, cleared) ==
    /\ Free(r) /\ LockFree(r)
    /\ \E read \in {file, None} :
           LET state == PollState(r, read)
               blind == IF pending THEN "pending" ELSE IF read \notin AgentState THEN "unread"
                        ELSE "no"
           IN  /\ Polled(r, read)
               /\ call' = IF state # "idle" THEN call
                          ELSE [call EXCEPT ![r] =
                                   [NoCall EXCEPT !.at = IF cleared THEN "clear" ELSE "text",
                                                  !.cleared = cleared, !.blind = blind]]
    /\ UNCHANGED sessionVars

\* A command fails or the guard of it raises: the call ends there.
Fail(r) ==
    /\ call[r].at \in {"clear", "text", "submit"}
    /\ call' = [call EXCEPT ![r] = NoCall]
    /\ UNCHANGED <<sessionVars, runner, pending>>

\* Mutant: the line is left as it is.
ClearInputNothing(r) ==
    /\ call[r].at = "clear" /\ Alive
    /\ call' = [call EXCEPT ![r].at = "text"]
    /\ UNCHANGED <<sessionVars, runner, pending>>

ClearInput(r) ==
    /\ call[r].at = "clear" /\ Alive
    /\ line' = <<>>
    /\ call' = [call EXCEPT ![r].at = "text"]
    /\ UNCHANGED <<phase, file, due, runner, pending>>

\* send_text has no guard of its own; the text is typed though the answer may be lost.
SendText(r) ==
    /\ call[r].at = "text" /\ Len(line) < MaxLine
    /\ line' = IF Alive THEN Append(line, r) ELSE line
    /\ \/ call' = [call EXCEPT ![r].at = "submit"]
       \/ call' = [call EXCEPT ![r] = NoCall]
    /\ UNCHANGED <<phase, file, due, runner, pending>>

Submit(r) ==
    /\ call[r].at = "submit" /\ Alive
    /\ Enter
    /\ pending' = TRUE
    /\ call' = [call EXCEPT ![r].at = "observe", ![r].sent = line, ![r].found = phase]
    /\ UNCHANGED runner

\* inject, step 6: the caller looks until the session has left idle, or gives up.
Observe(r) ==
    /\ call[r].at = "observe"
    /\ \E read \in {file, None} :
           /\ Polled(r, read)
           /\ call' = IF PollState(r, read) # "idle" THEN [call EXCEPT ![r] = NoCall] ELSE call
    /\ UNCHANGED sessionVars

GiveUp(r) ==
    /\ call[r].at = "observe"
    /\ call' = [call EXCEPT ![r] = NoCall]
    /\ UNCHANGED <<sessionVars, runner, pending>>

----------------------------------------------------------------------------

WaitUntilIdle(r) ==
    /\ Free(r)
    /\ call' = [call EXCEPT ![r].at = "wait"]
    /\ UNCHANGED <<sessionVars, runner, pending>>

DeadlinePasses(r) ==
    /\ call[r].at = "wait" /\ ~call[r].late
    /\ call' = [call EXCEPT ![r].late = TRUE]
    /\ UNCHANGED <<sessionVars, runner, pending>>

\* Mutant: the call returns for an idle session only.
WaitStepForIdle(r) ==
    /\ call[r].at = "wait"
    /\ \E read \in {file, None} :
           LET state == PollState(r, read)
           IN  /\ Polled(r, read)
               /\ call' = IF state = "idle" THEN [call EXCEPT ![r] = NoCall] ELSE call
    /\ UNCHANGED sessionVars

\* One turn of the loop: a poll, and the end of the call if it may end.
WaitStep(r) ==
    /\ call[r].at = "wait"
    /\ \E read \in {file, None} :
           LET state == PollState(r, read)
           IN  /\ Polled(r, read)
               /\ call' = IF state \in {"idle", "waiting_input", "error", "stopped"}
                             \/ call[r].late
                          THEN [call EXCEPT ![r] = NoCall] ELSE call
    /\ UNCHANGED sessionVars

StopRequested(r) ==
    /\ Free(r)
    /\ runner' = [runner EXCEPT ![r].stop = TRUE]
    /\ call' = [call EXCEPT ![r].at = "stop"]
    /\ UNCHANGED <<sessionVars, pending>>

\* The backend's stop kills the session, which may end in any way, or raises.
Stop(r) ==
    /\ call[r].at = "stop"
    /\ \/ /\ IF runner[r].started /\ Alive
             THEN Dead
             ELSE UNCHANGED sessionVars
          /\ runner' = [runner EXCEPT ![r].last = "stopped"]
       \/ runner[r].started /\ UNCHANGED <<sessionVars, runner>>
    /\ call' = [call EXCEPT ![r] = NoCall]
    /\ UNCHANGED pending

\* A process ends, wherever its call is; its lock is free.
ProcessDies(r) ==
    /\ runner[r].there
    /\ runner' = [runner EXCEPT ![r] = NoRunner]
    /\ call' = [call EXCEPT ![r] = NoCall]
    /\ UNCHANGED <<sessionVars, pending>>

Next ==
    \/ SessionStep \/ HookWrites \/ FileSpoiled \/ SessionDies
    \/ \E r \in Runners :
           \/ Construct(r) \/ StartSession(r) \/ Attach(r) \/ Poll(r)
           \/ \E cleared \in BOOLEAN : Send(r, cleared)
           \/ Fail(r) \/ ClearInput(r) \/ SendText(r) \/ Submit(r)
           \/ Observe(r) \/ GiveUp(r)
           \/ WaitUntilIdle(r) \/ DeadlinePasses(r) \/ WaitStep(r)
           \/ StopRequested(r) \/ Stop(r) \/ ProcessDies(r)

Spec == Init /\ [][Next]_vars

\* A process in the loop goes on, and the clock does.
FairSpec == Spec /\ \A r \in Runners : WF_vars(WaitStep(r)) /\ WF_vars(DeadlinePasses(r))

----------------------------------------------------------------------------

RunnerStates == [there : BOOLEAN, started : BOOLEAN, stop : BOOLEAN, last : AgentState]
Calls == [at : Sending \cup {"none", "wait", "stop"}, late : BOOLEAN, cleared : BOOLEAN,
          blind : {"no", "pending", "unread"}, sent : Seq(Runners),
          found : {"none", "starting", "idle", "busy", "waiting_input"}]

TypeOK ==
    /\ phase \in {"none", "starting", "idle", "busy", "waiting_input", "ended", "failed"}
    /\ file \in AgentState \cup {None, "garbage"} /\ due \in AgentState \cup {None}
    /\ line \in Seq(Runners) /\ Len(line) <= MaxLine
    /\ runner \in [Runners -> RunnerStates]
    /\ call \in [Runners -> Calls]
    /\ pending \in BOOLEAN

\* An Enter of send_when_idle submits the text of its caller, whole and alone, whatever
\* other callers left in the line by dying or failing before their own Enter (under
\* the lock that inject asks of them).
WholePrompts ==
    \A r \in Runners : call[r].at = "observe" /\ call[r].cleared => call[r].sent = <<r>>

\* An Enter finds the session idle (and answers no approval prompt) when the poll of
\* the call read the state file and the effect of the last Enter had been seen by
\* some poll; nothing else the code does or the processes suffer opens that window.
EnterFindsIdle ==
    \A r \in Runners : call[r].at = "observe" /\ call[r].blind = "no" => call[r].found = "idle"

\* A runner that was told to stop reports STOPPED from then on, in whatever way the
\* session ended (poll_state, stop).
DeliberateStopIsNoError ==
    [][\A r \in Runners :
          runner[r].stop /\ runner'[r].there /\ runner'[r].last # runner[r].last
          => runner'[r].last = "stopped"]_vars

\* wait_until_idle returns, whatever the session does and whatever is read of it.
WaitUntilIdleEnds ==
    \A r \in Runners : (call[r].at = "wait") ~> (call[r].at # "wait")

=============================================================================
