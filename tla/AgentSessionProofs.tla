------------------------- MODULE AgentSessionProofs -------------------------
(***************************************************************************)
(* Why an Enter of send_when_idle carries its caller's text alone and      *)
(* finds the session idle.  The invariant relates what a caller under the  *)
(* lock has done so far to the input line, and the state file to the       *)
(* session behind it.                                                      *)
(***************************************************************************)
EXTENDS AgentSession, TLAPS

\* The lock: of two processes only one is in a send.
OneSends ==
    \A q, r \in Runners : call[q].at \in Sending /\ call[r].at \in Sending => q = r

\* Before there is a session nothing can have been sent or written.
NothingYet ==
    phase = "none" =>
        /\ file = None /\ due = None
        /\ \A r \in Runners : ~runner[r].started /\ call[r].at \notin Sending

\* What the caller knows of the line.
LineIsOwn ==
    \A r \in Runners :
        /\ call[r].at = "text" /\ call[r].cleared => line = <<>>
        /\ call[r].at = "submit" /\ call[r].cleared /\ Alive => line = <<r>>

\* An idle record that is due or was read is true, but for an Enter nobody has seen.
IdleIsTrue ==
    /\ due = "idle" => phase = "idle"
    /\ Alive /\ file = "idle" /\ ~pending => phase = "idle"

\* A caller whose poll was not blind has an idle session before it.
IdleBeforeEnter ==
    \A r \in Runners :
        call[r].at \in Sending \ {"observe"} /\ call[r].blind = "no" /\ Alive => phase = "idle"

IInv ==
    /\ TypeOK /\ OneSends /\ NothingYet /\ LineIsOwn /\ IdleIsTrue /\ IdleBeforeEnter
    /\ WholePrompts /\ EnterFindsIdle

LEMMA EmptyLine ==
    ASSUME AgentSessionAssumption
    PROVE  <<>> \in Seq(Runners) /\ Len(<<>>) <= MaxLine
BY DEF AgentSessionAssumption

LEMMA InitInv ==
    ASSUME AgentSessionAssumption, Init
    PROVE  IInv
<1>1. NoRunner \in RunnerStates /\ NoCall \in Calls
    BY DEF NoRunner, RunnerStates, NoCall, Calls, AgentState
<1>2. TypeOK
  <2>1. line \in Seq(Runners) /\ Len(line) <= MaxLine
    BY EmptyLine DEF Init
  <2>2. runner \in [Runners -> RunnerStates] /\ call \in [Runners -> Calls]
    BY <1>1 DEF Init
  <2> QED
    BY <2>1, <2>2 DEF Init, TypeOK
<1>3. \A r \in Runners : call[r] = NoCall /\ runner[r] = NoRunner
    BY DEF Init
<1>4. OneSends /\ NothingYet /\ LineIsOwn
    BY <1>3 DEF Init, OneSends, NothingYet, LineIsOwn, NoCall, NoRunner, Sending
<1>5. IdleIsTrue /\ IdleBeforeEnter /\ WholePrompts /\ EnterFindsIdle
    BY <1>3 DEF AgentSessionAssumption, Init, IdleIsTrue, IdleBeforeEnter, WholePrompts,
                EnterFindsIdle, NoCall, Sending, AgentState
<1> QED
    BY <1>2, <1>4, <1>5 DEF IInv

\* A poll gives a state, and idle only of a live session that is not told to stop.
LEMMA PollGives ==
    ASSUME AgentSessionAssumption, TypeOK, NEW r \in Runners, NEW read \in {file, None}
    PROVE  /\ PollState(r, read) \in AgentState
           /\ PollState(r, read) = "idle" => runner[r].started /\ Alive
           /\ PollState(r, read) = "idle" /\ read \in AgentState => read = file /\ file = "idle"
BY DEF AgentSessionAssumption, TypeOK, RunnerStates, PollState, AgentState, Alive

\* A poll keeps the shapes, and the truth of the state file.
LEMMA PolledKeeps ==
    ASSUME AgentSessionAssumption, TypeOK, IdleIsTrue, NothingYet, NEW r \in Runners,
           NEW read \in {file, None}, Polled(r, read), UNCHANGED sessionVars
    PROVE  /\ runner' \in [Runners -> RunnerStates] /\ pending' \in BOOLEAN
           /\ \A q \in Runners : runner'[q].started = runner[q].started
           /\ IdleIsTrue'
<1>1. /\ runner' \in [Runners -> RunnerStates]
      /\ \A q \in Runners : runner'[q].started = runner[q].started
    BY PollGives DEF TypeOK, RunnerStates, Polled
<1>2. pending' \in BOOLEAN
    BY DEF TypeOK, Polled
<1>3. IdleIsTrue'
    BY DEF IdleIsTrue, Polled, sessionVars, Alive, AgentSessionAssumption, AgentState
<1> QED
    BY <1>1, <1>2, <1>3

----------------------------------------------------------------------------
\* Steps of the session.

\* What a step of the session alone has to keep: the files' truth, and no change of an
\* idle session under a caller.
LEMMA SessionInv ==
    ASSUME AgentSessionAssumption, IInv, UNCHANGED <<runner, call, pending>>,
           phase' \in {"starting", "idle", "busy", "waiting_input", "ended", "failed"},
           phase # "none",
           file' \in AgentState \cup {None, "garbage"}, due' \in AgentState \cup {None},
           \/ line' = line
           \/ line' = <<>> /\ ~Alive',
           Alive' => Alive /\ (phase = "idle" => phase' = "idle"),
           IdleIsTrue'
    PROVE  IInv'
<1>1. TypeOK'
  <2>1. line' \in Seq(Runners) /\ Len(line') <= MaxLine
    BY EmptyLine DEF IInv, TypeOK
  <2> QED
    BY <2>1 DEF IInv, TypeOK
<1>2. OneSends' /\ NothingYet' /\ WholePrompts' /\ EnterFindsIdle'
    BY DEF IInv, OneSends, NothingYet, WholePrompts, EnterFindsIdle
<1>3. LineIsOwn' /\ IdleBeforeEnter'
    BY DEF IInv, LineIsOwn, IdleBeforeEnter
<1> QED
    BY <1>1, <1>2, <1>3 DEF IInv

LEMMA SessionStepInv ==
    ASSUME AgentSessionAssumption, IInv, SessionStep \/ HookWrites \/ FileSpoiled \/ SessionDies
    PROVE  IInv'
<1> USE DEF IInv, TypeOK, IdleIsTrue, NothingYet, Alive, AgentState, AgentSessionAssumption
<1>1. CASE SessionStep
    BY <1>1, SessionInv DEF SessionStep, Change
<1>2. CASE HookWrites
    BY <1>2, SessionInv DEF HookWrites
<1>3. CASE FileSpoiled
    BY <1>3, SessionInv DEF FileSpoiled
<1>4. CASE SessionDies
    BY <1>4, SessionInv DEF SessionDies, Dead
<1> QED
    BY <1>1, <1>2, <1>3, <1>4

----------------------------------------------------------------------------
\* Steps of a process that leave the session as it is.

\* The call of a process may go on as it was or change to one that is no send.
LEMMA RunnerInv ==
    ASSUME AgentSessionAssumption, IInv, UNCHANGED sessionVars,
           runner' \in [Runners -> RunnerStates], pending' \in BOOLEAN, IdleIsTrue',
           phase = "none" => \A q \in Runners : ~runner'[q].started,
           call' \in [Runners -> Calls],
           \A q \in Runners : call'[q] = call[q] \/ call'[q].at \notin Sending
    PROVE  IInv'
<1> USE DEF sessionVars
<1>1. TypeOK'
    BY DEF IInv, TypeOK
<1>2. OneSends' /\ NothingYet'
    BY DEF IInv, OneSends, NothingYet
<1>3. LineIsOwn'
    BY DEF IInv, LineIsOwn, Alive, Sending
<1>4. IdleBeforeEnter'
    BY DEF IInv, IdleBeforeEnter, Alive
<1>5. WholePrompts' /\ EnterFindsIdle'
    BY DEF IInv, WholePrompts, EnterFindsIdle, Sending
<1> QED
    BY <1>1, <1>2, <1>3, <1>4, <1>5 DEF IInv

\* The shapes of the calls that are no send.
LEMMA QuietCalls ==
    ASSUME IInv, NEW r \in Runners, NEW c \in Calls, c.at \notin Sending,
           call' = [call EXCEPT ![r] = c]
    PROVE  /\ call' \in [Runners -> Calls]
           /\ \A q \in Runners : call'[q] = call[q] \/ call'[q].at \notin Sending
BY DEF IInv, TypeOK

LEMMA NoCallIsQuiet == NoCall \in Calls /\ NoCall.at \notin Sending
BY DEF NoCall, Calls, Sending

\* Looking at the session and no more: Poll, a turn of the loop, looking for the effect
\* of an Enter.
LEMMA LookInv ==
    ASSUME AgentSessionAssumption, IInv, NEW r \in Runners, NEW read \in {file, None},
           Polled(r, read), UNCHANGED sessionVars,
           call' = call \/ call' = [call EXCEPT ![r] = NoCall]
    PROVE  IInv'
<1>1. /\ runner' \in [Runners -> RunnerStates] /\ pending' \in BOOLEAN
      /\ \A q \in Runners : runner'[q].started = runner[q].started
      /\ IdleIsTrue'
    BY PolledKeeps DEF IInv
<1>2. /\ call' \in [Runners -> Calls]
      /\ \A q \in Runners : call'[q] = call[q] \/ call'[q].at \notin Sending
    BY QuietCalls, NoCallIsQuiet DEF IInv, TypeOK
<1>3. phase = "none" => \A q \in Runners : ~runner'[q].started
    BY <1>1 DEF IInv, NothingYet
<1> QED
    BY <1>1, <1>2, <1>3, RunnerInv

\* The runner and its call change, the session and what is known of it do not.
LEMMA OwnInv ==
    ASSUME AgentSessionAssumption, IInv, NEW r \in Runners, UNCHANGED <<sessionVars, pending>>,
           NEW o \in RunnerStates, phase = "none" => ~o.started,
           runner' = runner \/ runner' = [runner EXCEPT ![r] = o],
           NEW c \in Calls, c.at \notin Sending,
           call' = call \/ call' = [call EXCEPT ![r] = c]
    PROVE  IInv'
<1>1. runner' \in [Runners -> RunnerStates] /\ pending' \in BOOLEAN
    BY DEF IInv, TypeOK
<1>2. IdleIsTrue'
    BY DEF IInv, IdleIsTrue, Alive, sessionVars
<1>3. phase = "none" => \A q \in Runners : ~runner'[q].started
    BY DEF IInv, TypeOK, NothingYet
<1>4. /\ call' \in [Runners -> Calls]
      /\ \A q \in Runners : call'[q] = call[q] \/ call'[q].at \notin Sending
    BY QuietCalls DEF IInv, TypeOK
<1> QED
    BY <1>1, <1>2, <1>3, <1>4, RunnerInv

LEMMA NothingStarted ==
    ASSUME IInv, NEW r \in Runners
    PROVE  runner[r] \in RunnerStates /\ (phase = "none" => ~runner[r].started)
BY DEF IInv, TypeOK, NothingYet

LEMMA QuietStepInv ==
    ASSUME AgentSessionAssumption, IInv, NEW r \in Runners,
           \/ Construct(r) \/ Attach(r) \/ Poll(r) \/ Fail(r) \/ Observe(r) \/ GiveUp(r)
           \/ WaitUntilIdle(r) \/ DeadlinePasses(r) \/ WaitStep(r) \/ StopRequested(r)
           \/ ProcessDies(r)
    PROVE  IInv'
<1>0. call[r] \in Calls /\ runner[r] \in RunnerStates /\ NoCall \in Calls
      /\ NoRunner \in RunnerStates /\ NoCall.at \notin Sending /\ ~NoRunner.started
    BY NoCallIsQuiet DEF IInv, TypeOK, NoRunner, RunnerStates, AgentState
<1>1. CASE Construct(r)
  <2>1. [NoRunner EXCEPT !.there = TRUE] \in RunnerStates
        /\ ~[NoRunner EXCEPT !.there = TRUE].started
    BY DEF NoRunner, RunnerStates, AgentState
  <2> QED
    BY <1>1, <1>0, <2>1, OwnInv DEF Construct
<1>2. CASE Attach(r)
  <2> DEFINE o == [there |-> TRUE, started |-> TRUE, stop |-> FALSE, last |-> "starting"]
  <2>1. o \in RunnerStates /\ phase # "none"
    BY <1>2 DEF RunnerStates, AgentState, Attach, Alive
  <2> QED
    BY <1>2, <1>0, <2>1, OwnInv DEF Attach
<1>3. CASE Poll(r)
    BY <1>3, LookInv DEF Poll
<1>4. CASE Fail(r)
    BY <1>4, <1>0, OwnInv, NothingStarted DEF Fail
<1>5. CASE Observe(r)
    BY <1>5, LookInv DEF Observe
<1>6. CASE GiveUp(r)
    BY <1>6, <1>0, OwnInv, NothingStarted DEF GiveUp
<1>7. CASE WaitUntilIdle(r)
  <2>1. [call[r] EXCEPT !.at = "wait"] \in Calls
        /\ [call[r] EXCEPT !.at = "wait"].at \notin Sending
    BY <1>0 DEF Calls, Sending
  <2>2. call' = [call EXCEPT ![r] = [call[r] EXCEPT !.at = "wait"]]
    BY <1>7 DEF WaitUntilIdle
  <2> QED
    BY <1>7, <1>0, <2>1, <2>2, OwnInv, NothingStarted DEF WaitUntilIdle
<1>8. CASE DeadlinePasses(r)
  <2>1. [call[r] EXCEPT !.late = TRUE] \in Calls
        /\ [call[r] EXCEPT !.late = TRUE].at \notin Sending
    BY <1>8, <1>0 DEF Calls, Sending, DeadlinePasses
  <2>2. call' = [call EXCEPT ![r] = [call[r] EXCEPT !.late = TRUE]]
    BY <1>8 DEF DeadlinePasses
  <2> QED
    BY <1>8, <1>0, <2>1, <2>2, OwnInv, NothingStarted DEF DeadlinePasses
<1>9. CASE WaitStep(r)
    BY <1>9, LookInv DEF WaitStep
<1>10. CASE StopRequested(r)
  <2>1. [call[r] EXCEPT !.at = "stop"] \in Calls
        /\ [call[r] EXCEPT !.at = "stop"].at \notin Sending
    BY <1>0 DEF Calls, Sending
  <2>2. [runner[r] EXCEPT !.stop = TRUE] \in RunnerStates
        /\ [runner[r] EXCEPT !.stop = TRUE].started = runner[r].started
    BY <1>0 DEF RunnerStates
  <2>3. /\ call' = [call EXCEPT ![r] = [call[r] EXCEPT !.at = "stop"]]
        /\ runner' = [runner EXCEPT ![r] = [runner[r] EXCEPT !.stop = TRUE]]
    BY <1>10 DEF StopRequested
  <2> QED
    BY <1>10, <2>1, <2>2, <2>3, OwnInv, NothingStarted DEF StopRequested
<1>11. CASE ProcessDies(r)
    BY <1>11, <1>0, OwnInv DEF ProcessDies
<1> QED
    BY <1>1, <1>2, <1>3, <1>4, <1>5, <1>6, <1>7, <1>8, <1>9, <1>10, <1>11

LEMMA StartSessionInv ==
    ASSUME AgentSessionAssumption, IInv, NEW r \in Runners, StartSession(r)
    PROVE  IInv'
<1> USE DEF StartSession
<1>1. TypeOK'
    BY DEF IInv, TypeOK, RunnerStates, AgentState
<1>2. \A q \in Runners : call[q].at \notin Sending
    BY DEF IInv, NothingYet
<1>3. OneSends' /\ LineIsOwn' /\ IdleBeforeEnter' /\ WholePrompts' /\ EnterFindsIdle'
    BY <1>2 DEF OneSends, LineIsOwn, IdleBeforeEnter, WholePrompts, EnterFindsIdle, Sending
<1>4. NothingYet'
    BY DEF NothingYet
<1>5. IdleIsTrue'
    BY DEF IInv, NothingYet, IdleIsTrue, AgentSessionAssumption, AgentState
<1> QED
    BY <1>1, <1>3, <1>4, <1>5 DEF IInv

LEMMA StopInv ==
    ASSUME AgentSessionAssumption, IInv, NEW r \in Runners, Stop(r)
    PROVE  IInv'
<1> DEFINE o == [runner[r] EXCEPT !.last = "stopped"]
<1>1. /\ o \in RunnerStates /\ o.started = runner[r].started
      /\ NoCall \in Calls /\ NoCall.at \notin Sending
    BY NoCallIsQuiet DEF IInv, TypeOK, RunnerStates, AgentState
<1>2. runner' = runner \/ runner' = [runner EXCEPT ![r] = o]
    BY DEF Stop
<1>3. CASE UNCHANGED sessionVars
  <2> HIDE DEF o
  <2> QED
    BY <1>1, <1>2, <1>3, OwnInv, NothingStarted DEF Stop
<1>4. CASE Alive /\ Dead
  <2>1. TypeOK'
    <3>1. line' \in Seq(Runners) /\ Len(line') <= MaxLine
      BY <1>4, EmptyLine DEF Dead
    <3>2. runner' \in [Runners -> RunnerStates] /\ call' \in [Runners -> Calls]
      <4> HIDE DEF o
      <4> QED
        BY <1>1, <1>2 DEF IInv, TypeOK, Stop
    <3> QED
      BY <1>4, <3>1, <3>2 DEF IInv, TypeOK, Dead, Stop
  <2>2. \A q \in Runners : call'[q] = call[q] \/ call'[q].at \notin Sending
    BY <1>1 DEF IInv, TypeOK, Stop
  <2>3. ~Alive' /\ phase' # "none"
    BY <1>4 DEF Dead, Alive
  <2>4. OneSends' /\ NothingYet'
    BY <2>2, <2>3 DEF IInv, OneSends, NothingYet
  <2>5. LineIsOwn' /\ IdleBeforeEnter'
    BY <1>4, <2>2, <2>3 DEF LineIsOwn, IdleBeforeEnter, Dead
  <2>6. IdleIsTrue'
    BY <1>4, <2>3 DEF IdleIsTrue, Dead, AgentSessionAssumption, AgentState
  <2>7. WholePrompts' /\ EnterFindsIdle'
    BY <2>2 DEF IInv, WholePrompts, EnterFindsIdle, Sending
  <2> QED
    BY <2>1, <2>4, <2>5, <2>6, <2>7 DEF IInv
<1> QED
    BY <1>3, <1>4 DEF Stop, sessionVars

----------------------------------------------------------------------------
\* The four steps of a send.

\* A poll that is not blind and says idle reads a record that is true.
LEMMA SendInv ==
    ASSUME AgentSessionAssumption, IInv, NEW r \in Runners, NEW cleared \in BOOLEAN,
           Send(r, cleared)
    PROVE  IInv'
<1> DEFINE blindOf(read) == IF pending THEN "pending" ELSE IF read \notin AgentState
                            THEN "unread" ELSE "no"
           c(read) == [NoCall EXCEPT !.at = IF cleared THEN "clear" ELSE "text",
                                     !.cleared = cleared, !.blind = blindOf(read)]
<1>1. PICK read \in {file, None} :
          /\ Polled(r, read)
          /\ call' = IF PollState(r, read) # "idle" THEN call
                     ELSE [call EXCEPT ![r] = c(read)]
    BY DEF Send
<1>2. CASE PollState(r, read) # "idle"
    BY <1>1, <1>2, LookInv DEF Send
<1>3. CASE PollState(r, read) = "idle"
  <2> DEFINE k == c(read)
  <2>1. /\ k \in Calls
        /\ k.at = IF cleared THEN "clear" ELSE "text"
        /\ k.cleared = cleared /\ k.blind = blindOf(read)
    <3> DEFINE b == blindOf(read)
               a == IF cleared THEN "clear" ELSE "text"
    <3>1. b \in {"no", "pending", "unread"} /\ a \in {"clear", "text"}
      OBVIOUS
    <3>2. k = [NoCall EXCEPT !.at = a, !.cleared = cleared, !.blind = b]
      OBVIOUS
    <3> HIDE DEF a, b, k
    <3>3. k = [at |-> a, late |-> FALSE, cleared |-> cleared, blind |-> b, sent |-> <<>>,
               found |-> "none"]
      BY <3>2 DEF NoCall
    <3>4. k \in Calls
      BY <3>1, <3>3 DEF Calls, Sending
    <3>5. k.at = a /\ k.cleared = cleared /\ k.blind = b
      BY <3>3
    <3> QED
      BY <3>4, <3>5 DEF a, b
  <2>2. call' = [call EXCEPT ![r] = k]
    BY <1>1, <1>3
  <2> HIDE DEF k
  <2>3. call' \in [Runners -> Calls] /\ call'[r] = k
        /\ \A q \in Runners \ {r} : call'[q] = call[q]
    BY <2>1, <2>2 DEF IInv, TypeOK
  <2>4. UNCHANGED sessionVars /\ LockFree(r)
    BY DEF Send
  <2>5. runner' \in [Runners -> RunnerStates] /\ pending' \in BOOLEAN /\ IdleIsTrue'
        /\ \A q \in Runners : runner'[q].started = runner[q].started
    BY <1>1, <2>4, PolledKeeps DEF IInv
  <2>6. TypeOK'
    BY <2>3, <2>4, <2>5 DEF IInv, TypeOK, sessionVars
  <2>7. OneSends'
    BY <2>3, <2>4 DEF OneSends, LockFree
  <2>8. phase # "none"
    BY <1>3, PollGives DEF IInv, Alive
  <2>9. NothingYet'
    BY <2>4, <2>8 DEF NothingYet, sessionVars
  <2>10. LineIsOwn'
    BY <2>1, <2>3, <2>4 DEF IInv, LineIsOwn, Alive, sessionVars
  <2>11. blindOf(read) = "no" => phase = "idle"
    BY <1>3, PollGives DEF IInv, IdleIsTrue
  <2>12. IdleBeforeEnter'
    BY <2>1, <2>3, <2>4, <2>11 DEF IInv, IdleBeforeEnter, Alive, sessionVars
  <2>13. WholePrompts' /\ EnterFindsIdle'
    BY <2>1, <2>3 DEF IInv, WholePrompts, EnterFindsIdle
  <2> QED
    BY <2>5, <2>6, <2>7, <2>9, <2>10, <2>12, <2>13 DEF IInv
<1> QED
    BY <1>2, <1>3

\* The caller goes from one command to the next; the phase stays.
LEMMA GoOnInv ==
    ASSUME AgentSessionAssumption, IInv, NEW r \in Runners,
           call[r].at \in {"clear", "text"}, NEW at \in {"text", "submit"},
           call' = [call EXCEPT ![r].at = at],
           UNCHANGED <<phase, file, due, runner, pending>>,
           line' \in Seq(Runners), Len(line') <= MaxLine,
           at = "text" /\ call[r].cleared => line' = <<>>,
           at = "submit" /\ call[r].cleared /\ Alive => line' = <<r>>
    PROVE  IInv'
<1> DEFINE k == [call[r] EXCEPT !.at = at]
<1>1. /\ k \in Calls /\ k.at = at /\ k.cleared = call[r].cleared /\ k.blind = call[r].blind
      /\ k.sent = call[r].sent /\ k.found = call[r].found
    BY DEF IInv, TypeOK, Calls, Sending
<1>2. call' = [call EXCEPT ![r] = k]
    OBVIOUS
<1> HIDE DEF k
<1>3. /\ call' \in [Runners -> Calls] /\ call'[r] = k
      /\ \A q \in Runners \ {r} : call'[q] = call[q]
    BY <1>1, <1>2 DEF IInv, TypeOK
<1>4. TypeOK'
    BY <1>3 DEF IInv, TypeOK
<1>5. \A q \in Runners \ {r} : call[q].at \notin Sending
    BY DEF IInv, OneSends, Sending
<1>6. OneSends'
    BY <1>3, <1>5 DEF OneSends
<1>7. phase # "none"
    BY DEF IInv, NothingYet, Sending
<1>8. NothingYet'
    BY <1>7 DEF NothingYet
<1>9. LineIsOwn'
    BY <1>1, <1>3, <1>5 DEF LineIsOwn, Sending, Alive
<1>10. IdleIsTrue' /\ IdleBeforeEnter'
    BY <1>1, <1>3 DEF IInv, IdleIsTrue, IdleBeforeEnter, Sending, Alive
<1>11. WholePrompts' /\ EnterFindsIdle'
    BY <1>1, <1>3 DEF IInv, WholePrompts, EnterFindsIdle
<1> QED
    BY <1>4, <1>6, <1>8, <1>9, <1>10, <1>11 DEF IInv

LEMMA ClearInputInv ==
    ASSUME AgentSessionAssumption, IInv, NEW r \in Runners, ClearInput(r)
    PROVE  IInv'
BY GoOnInv, EmptyLine DEF ClearInput

LEMMA SendTextInv ==
    ASSUME AgentSessionAssumption, IInv, NEW r \in Runners, SendText(r)
    PROVE  IInv'
<1>1. /\ line' \in Seq(Runners) /\ Len(line') <= MaxLine
      /\ call[r].cleared /\ Alive => line' = <<r>>
  <2>1. line \in Seq(Runners) /\ Len(line) < MaxLine /\ MaxLine \in Nat
    BY DEF IInv, TypeOK, SendText, AgentSessionAssumption
  <2>2. call[r].cleared => line = <<>>
    BY DEF IInv, LineIsOwn, SendText
  <2>3. Append(line, r) \in Seq(Runners) /\ Len(Append(line, r)) = Len(line) + 1
    BY <2>1
  <2>4. Len(line) \in Nat /\ Append(<<>>, r) = <<r>>
    BY <2>1
  <2>5. line' = line \/ line' = Append(line, r)
    BY DEF SendText
  <2>6. line' \in Seq(Runners) /\ Len(line') <= MaxLine
    BY <2>1, <2>3, <2>4, <2>5
  <2>7. call[r].cleared /\ Alive => line' = <<r>>
    BY <2>2, <2>4 DEF SendText
  <2> QED
    BY <2>6, <2>7
<1>2. CASE call' = [call EXCEPT ![r].at = "submit"]
    BY <1>1, <1>2, GoOnInv DEF SendText
<1>3. CASE call' = [call EXCEPT ![r] = NoCall]
  <2>1. /\ call' \in [Runners -> Calls] /\ call'[r] = NoCall
        /\ \A q \in Runners \ {r} : call'[q] = call[q]
    BY <1>3, NoCallIsQuiet DEF IInv, TypeOK
  <2>2. TypeOK'
    BY <1>1, <2>1 DEF IInv, TypeOK, SendText
  <2>3. \A q \in Runners : call'[q].at \notin Sending
    BY <2>1, NoCallIsQuiet DEF IInv, OneSends, SendText, Sending
  <2>4. OneSends' /\ LineIsOwn' /\ IdleBeforeEnter' /\ WholePrompts' /\ EnterFindsIdle'
    BY <2>3 DEF OneSends, LineIsOwn, IdleBeforeEnter, WholePrompts, EnterFindsIdle, Sending
  <2>5. NothingYet' /\ IdleIsTrue'
    BY <2>3 DEF IInv, NothingYet, IdleIsTrue, SendText, Alive
  <2> QED
    BY <2>2, <2>4, <2>5 DEF IInv
<1> QED
    BY <1>2, <1>3 DEF SendText

LEMMA SubmitInv ==
    ASSUME AgentSessionAssumption, IInv, NEW r \in Runners, Submit(r)
    PROVE  IInv'
<1> DEFINE k == [call[r] EXCEPT !.at = "observe", !.sent = line, !.found = phase]
<1>1. /\ k \in Calls /\ k.at = "observe" /\ k.cleared = call[r].cleared
      /\ k.blind = call[r].blind /\ k.sent = line /\ k.found = phase
    BY DEF IInv, TypeOK, Calls, Sending, Submit, Alive
<1>2. call' = [call EXCEPT ![r] = k]
    BY DEF Submit
<1> HIDE DEF k
<1>3. /\ call' \in [Runners -> Calls] /\ call'[r] = k
      /\ \A q \in Runners \ {r} : call'[q] = call[q]
    BY <1>1, <1>2 DEF IInv, TypeOK
<1>4. TypeOK'
    BY <1>3, EmptyLine DEF IInv, TypeOK, Submit, Enter, AgentState
<1>5. \A q \in Runners \ {r} : call[q].at \notin Sending
    BY DEF IInv, OneSends, Sending, Submit
<1>6. OneSends'
    BY <1>3, <1>5 DEF OneSends
<1>7. NothingYet'
    BY DEF NothingYet, Submit, Enter, Alive
<1>8. LineIsOwn' /\ IdleBeforeEnter'
    BY <1>1, <1>3, <1>5 DEF LineIsOwn, IdleBeforeEnter, Sending
<1>9. IdleIsTrue'
    BY DEF IInv, IdleIsTrue, Submit, Enter
<1>10. WholePrompts'
    BY <1>1, <1>3 DEF IInv, WholePrompts, LineIsOwn, Submit
<1>11. EnterFindsIdle'
    BY <1>1, <1>3 DEF IInv, EnterFindsIdle, IdleBeforeEnter, Submit, Sending
<1> QED
    BY <1>4, <1>6, <1>7, <1>8, <1>9, <1>10, <1>11 DEF IInv

----------------------------------------------------------------------------

LEMMA NextInv ==
    ASSUME AgentSessionAssumption, IInv, [Next]_vars
    PROVE  IInv'
<1>1. CASE Next
    BY <1>1, SessionStepInv, QuietStepInv, StartSessionInv, StopInv, SendInv, ClearInputInv,
       SendTextInv, SubmitInv DEF Next
<1>2. CASE UNCHANGED vars
    BY <1>2 DEF vars, sessionVars, IInv, TypeOK, OneSends, NothingYet, LineIsOwn, IdleIsTrue,
                IdleBeforeEnter, WholePrompts, EnterFindsIdle, Alive
<1> QED
    BY <1>1, <1>2

\* The strengthened invariant of the sessions and calls holds of every behaviour.
THEOREM Invariance == Spec => []IInv
<1>1. Init => IInv
    BY InitInv, AgentSessionAssumption
<1>2. IInv /\ [Next]_vars => IInv'
    BY NextInv, AgentSessionAssumption
<1> QED
    BY <1>1, <1>2, PTL DEF Spec

\* The states have their shapes whatever fails or dies (runner.py).
THEOREM Typing == Spec => []TypeOK
<1>1. IInv => TypeOK
    BY DEF IInv
<1> QED
    BY <1>1, Invariance, PTL

\* For any number of processes: an Enter of send_when_idle submits its caller's text,
\* whole and alone (runner.py send_when_idle, under the lock of its caller).
THEOREM PromptsAreWhole == Spec => []WholePrompts
<1>1. IInv => WholePrompts
    BY DEF IInv
<1> QED
    BY <1>1, Invariance, PTL

\* For any number of processes: an Enter after a poll that read the file, with no Enter
\* before it unseen, finds the session idle (runner.py poll_state, send_when_idle).
THEOREM EnterMeetsIdle == Spec => []EnterFindsIdle
<1>1. IInv => EnterFindsIdle
    BY DEF IInv
<1> QED
    BY <1>1, Invariance, PTL

----------------------------------------------------------------------------
\* The stop.

\* A process that is gone left no stop behind.
StopIsOfSomeone == \A r \in Runners : runner[r].stop => runner[r].there

Reported(q) ==
    runner[q].stop /\ runner'[q].there /\ runner'[q].last # runner[q].last
    => runner'[q].last = "stopped"

LEMMA PolledReports ==
    ASSUME TypeOK, StopIsOfSomeone, NEW r \in Runners, NEW read, Polled(r, read), NEW q \in Runners
    PROVE  Reported(q) /\ (runner'[q].stop => runner'[q].there)
<1>1. CASE runner[r].started
  <2>1. runner' = [runner EXCEPT ![r].last = PollState(r, read)]
    BY <1>1 DEF Polled
  <2>2. runner[r].stop => PollState(r, read) = "stopped"
    BY <1>1 DEF PollState
  <2>3. CASE q = r
    BY <2>1, <2>2, <2>3 DEF TypeOK, RunnerStates, StopIsOfSomeone, Reported
  <2>4. CASE q # r
    BY <2>1, <2>4 DEF TypeOK, StopIsOfSomeone, Reported
  <2> QED
    BY <2>3, <2>4
<1>2. CASE ~runner[r].started
    BY <1>2 DEF Polled, StopIsOfSomeone, Reported
<1> QED
    BY <1>1, <1>2

LEMMA StopStep ==
    ASSUME TypeOK, StopIsOfSomeone, [Next]_vars, NEW q \in Runners
    PROVE  Reported(q) /\ (runner'[q].stop => runner'[q].there)
<1> USE DEF StopIsOfSomeone, Reported
<1>0. CASE UNCHANGED runner
    BY <1>0
<1>1. CASE SessionStep \/ HookWrites \/ FileSpoiled \/ SessionDies
    BY <1>0, <1>1 DEF SessionStep, Change, HookWrites, FileSpoiled, SessionDies
<1>2. ASSUME NEW r \in Runners,
             Construct(r) \/ StartSession(r) \/ Attach(r) \/ StopRequested(r) \/ Stop(r)
             \/ ProcessDies(r)
      PROVE  Reported(q) /\ (runner'[q].stop => runner'[q].there)
  <2> USE DEF TypeOK, RunnerStates
  <2>1. CASE Construct(r)
      BY <2>1 DEF Construct, NoRunner
  <2>2. CASE StartSession(r)
      BY <2>2 DEF StartSession, Free
  <2>3. CASE Attach(r)
      BY <2>3 DEF Attach
  <2>4. CASE StopRequested(r)
      BY <2>4 DEF StopRequested, Free
  <2>5. CASE Stop(r)
      BY <2>5 DEF Stop
  <2>6. CASE ProcessDies(r)
      BY <2>6 DEF ProcessDies, NoRunner
  <2> QED
    BY <1>2, <2>1, <2>2, <2>3, <2>4, <2>5, <2>6
<1>3. ASSUME NEW r \in Runners,
             Poll(r) \/ (\E cleared \in BOOLEAN : Send(r, cleared)) \/ Observe(r) \/ WaitStep(r)
      PROVE  Reported(q) /\ (runner'[q].stop => runner'[q].there)
  <2>1. PICK read \in {file, None} : Polled(r, read)
    BY <1>3 DEF Poll, Send, Observe, WaitStep
  <2> QED
    BY <2>1, PolledReports
<1>4. ASSUME NEW r \in Runners,
             Fail(r) \/ ClearInput(r) \/ SendText(r) \/ Submit(r) \/ GiveUp(r)
             \/ WaitUntilIdle(r) \/ DeadlinePasses(r)
      PROVE  UNCHANGED runner
    BY <1>4 DEF Fail, ClearInput, SendText, Submit, GiveUp, WaitUntilIdle, DeadlinePasses
<1> QED
    BY <1>0, <1>1, <1>2, <1>3, <1>4 DEF Next, vars

\* For any number of processes: a runner that was told to stop reports STOPPED from
\* then on, though the process of the session ended with an error (runner.py stop).
THEOREM StopsAreNoErrors == Spec => DeliberateStopIsNoError
<1>1. Init => StopIsOfSomeone
    BY DEF Init, StopIsOfSomeone, NoRunner
<1>2. TypeOK /\ StopIsOfSomeone /\ [Next]_vars => StopIsOfSomeone'
    BY StopStep DEF StopIsOfSomeone
<1>3. TypeOK /\ StopIsOfSomeone /\ [Next]_vars
      => [\A r \in Runners :
             runner[r].stop /\ runner'[r].there /\ runner'[r].last # runner[r].last
             => runner'[r].last = "stopped"]_vars
    BY StopStep DEF Reported
<1> QED
    BY <1>1, <1>2, <1>3, Typing, PTL DEF Spec, DeliberateStopIsNoError

=============================================================================
