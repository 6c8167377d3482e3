----------------------------- MODULE ReviewWait -----------------------------
(***************************************************************************)
(* GitHostClient (axdt/git_host/client.py) and the one pull request it     *)
(* works on: a caller opens it, asks for a review, waits for the decision  *)
(* and merges, while people review, dismiss, close and reopen.  Every      *)
(* command of the host's CLI is a step and may fail, with or without       *)
(* effect, and a view may for a moment come without any review; the clock  *)
(* is kept to whether the deadline has passed.                             *)
(***************************************************************************)
EXTENDS Integers, Sequences, FiniteSets

CONSTANTS
    None,
    People,       \* who reviews
    Reviewer,     \* whose decision is waited for
    MaxErrors,    \* max_consecutive_errors
    MaxReviews,   \* bound: reviews submitted
    MaxWaits      \* bound: waits for one request

ASSUME ReviewWaitAssumption ==
    /\ Reviewer \in People
    /\ MaxErrors \in Nat /\ MaxReviews \in Nat /\ MaxWaits \in Nat
    /\ None \notin Nat /\ None \notin {"OPEN", "MERGED", "CLOSED"}

VARIABLES
    prState,    \* of the pull request, None before it is created
    reviews,    \* every review ever submitted, in stream order; its id is its place
    handle,     \* the caller holds the PullRequest
    pc,         \* the next command of the call; "idle" between calls, "returned" when a
                \* wait has ended and the caller has not yet taken its result
    cursor,     \* latest_review_id at the start of the wait
    errors,     \* consecutive_errors
    late,       \* the deadline has passed
    lastState, seenState,   \* last_state; state, read before the reviews
    result,     \* what the last wait returned
    asked, entered, \* history: reviews there at the last request (None before any), and
                    \* when the first wait after it began
    waits,          \* history: waits begun since the request
    known, polled,  \* history: reviews there when the wait began, and when a poll of it
                    \* was last answered with all of them
    blank           \* history: the cursor was read off a view without the reviews

hostVars == <<prState, reviews>>
historyVars == <<asked, entered, waits, known, polled, blank>>
waitVars == <<cursor, errors, late, lastState, seenState, result>>
vars == <<hostVars, handle, pc, waitVars, historyVars>>

Verdicts == {"APPROVED", "CHANGES_REQUESTED", "COMMENTED"}
Terminal == {"APPROVED", "CHANGES_REQUESTED"}      \* TERMINAL_DECISIONS
ClosedStates == {"MERGED", "CLOSED"}               \* CLOSED_STATES

Waiting == {"cursor", "state", "review", "deadline"}

NoResult == [timed_out |-> FALSE, state |-> "none", decision |-> "none"]
Raised   == [timed_out |-> FALSE, state |-> "raised", decision |-> "none"]

Init ==
    /\ prState = None /\ reviews = <<>>
    /\ handle = FALSE /\ pc = "idle"
    /\ cursor = None /\ errors = 0 /\ late = FALSE
    /\ lastState = "UNKNOWN" /\ seenState = "UNKNOWN"
    /\ result = NoResult
    /\ asked = None /\ entered = 0 /\ waits = 0
    /\ known = 0 /\ polled = 0 /\ blank = FALSE

----------------------------------------------------------------------------
\* ReviewSnapshot: the target reviewer's events of a view of the host, in stream order.

Events == {i \in DOMAIN reviews : reviews[i].by = Reviewer /\ reviews[i].shown}

\* The host answers with the reviews, or for a moment with none (parse_review reads an
\* absent list as an empty one).
Views == {Events, {}}

\* parse_review: a state that is not in the map (DISMISSED) reads as COMMENTED.
Decision(i) == IF reviews[i].state \in Verdicts THEN reviews[i].state ELSE "COMMENTED"

LatestReviewId(events) ==
    IF events = {} THEN None ELSE CHOOSE i \in events : \A j \in events : j <= i

After(events, id) ==
    IF id = None THEN events ELSE {i \in events : id \in events /\ id < i}

First(S) == CHOOSE i \in S : \A j \in S : i <= j

\* Mutant: only the newest review is looked at.
TerminalOfLatest(events, id) ==
    LET last == {i \in After(events, id) :
                    i = LatestReviewId(events) /\ Decision(i) \in Terminal}
    IN  IF last = {} THEN "PENDING" ELSE Decision(First(last))

\* Mutant: the cursor is ignored.
TerminalOfAll(events, id) ==
    LET terminal == {i \in events : Decision(i) \in Terminal}
    IN  IF terminal = {} THEN "PENDING" ELSE Decision(First(terminal))

\* PENDING stands for the None of the code, which the callers turn into PENDING.
TerminalAfter(events, id) ==
    LET terminal == {i \in After(events, id) : Decision(i) \in Terminal}
    IN  IF terminal = {} THEN "PENDING" ELSE Decision(First(terminal))

----------------------------------------------------------------------------
\* The host and the people on it.

Submit(p, verdict) ==
    /\ prState = "OPEN"
    /\ Len(reviews) < MaxReviews
    /\ reviews' = Append(reviews, [by |-> p, given |-> verdict, state |-> verdict,
                                   shown |-> TRUE])
    /\ UNCHANGED <<prState, handle, pc, waitVars, historyVars>>

\* A review is dismissed: it stays in the stream with another state, or leaves it.
Dismiss(i) ==
    /\ reviews[i].state \in Terminal /\ reviews[i].shown
    /\ \/ reviews' = [reviews EXCEPT ![i].state = "DISMISSED"]
       \/ reviews' = [reviews EXCEPT ![i].shown = FALSE]
    /\ UNCHANGED <<prState, handle, pc, waitVars, historyVars>>

ChangePrState ==
    /\ \/ prState = "OPEN" /\ prState' \in ClosedStates
       \/ prState = "CLOSED" /\ prState' = "OPEN"
    /\ UNCHANGED <<reviews, handle, pc, waitVars, historyVars>>

DeadlinePasses ==
    /\ pc \in Waiting /\ ~late
    /\ late' = TRUE
    /\ UNCHANGED <<hostVars, handle, pc, cursor, errors, lastState, seenState, result,
                   historyVars>>

----------------------------------------------------------------------------
\* open_pull_request: create, then view.

Create ==
    /\ pc = "idle" /\ ~handle
    /\ \/ /\ prState = None                        \* created, and the answer is read or lost
          /\ prState' = "OPEN"
          /\ pc' \in {"view", "idle"}
       \/ UNCHANGED <<prState, pc>>                \* it failed, or the branch has one already
    /\ UNCHANGED <<reviews, handle, waitVars, historyVars>>

View ==
    /\ pc = "view"
    /\ pc' = "idle"
    /\ handle' \in BOOLEAN
    /\ UNCHANGED <<hostVars, waitVars, historyVars>>

\* The request is made: no review is reset by it.  (One that fails changes nothing.)
RequestReview ==
    /\ pc = "idle" /\ handle
    /\ asked' = Len(reviews) /\ entered' = 0 /\ waits' = 0
    /\ UNCHANGED <<hostVars, handle, pc, waitVars, known, polled, blank>>

Merge ==
    /\ pc = "idle" /\ handle /\ prState = "OPEN"
    /\ prState' = "MERGED"
    /\ UNCHANGED <<reviews, handle, pc, waitVars, historyVars>>

----------------------------------------------------------------------------
\* wait_for_decision

Return(outcome) ==
    /\ result' = outcome
    /\ pc' = "returned"

TimedOut == [timed_out |-> TRUE, state |-> lastState, decision |-> "PENDING"]

WaitForDecision ==
    /\ pc = "idle" /\ handle /\ waits < MaxWaits
    /\ pc' = "cursor"
    /\ UNCHANGED waitVars
    /\ known' = Len(reviews) /\ polled' = 0 /\ waits' = waits + 1
    /\ entered' = IF waits = 0 THEN Len(reviews) ELSE entered
    /\ UNCHANGED <<hostVars, handle, asked, blank>>

\* A missed poll: raise when there were too many in a row.
TooMany == errors + 1 > MaxErrors

CursorCaptured ==
    /\ pc = "cursor"
    /\ \E view \in Views :
          /\ cursor' = LatestReviewId(view)
          /\ blank' = (view # Events)
    /\ errors' = 0
    /\ pc' = "state"
    /\ UNCHANGED <<hostVars, handle, late, lastState, seenState, result,
                   asked, entered, waits, known, polled>>

CursorMissed ==
    /\ pc = "cursor"
    /\ errors' = errors + 1
    /\ \/ TooMany /\ Return(Raised)
       \/ ~TooMany /\ late /\ Return(TimedOut)
       \/ ~TooMany /\ ~late /\ UNCHANGED <<pc, result>>
    /\ UNCHANGED <<hostVars, handle, cursor, late, lastState, seenState, historyVars>>

PollState ==
    /\ pc = "state"
    /\ seenState' = prState
    /\ pc' = "review"
    /\ UNCHANGED <<hostVars, handle, cursor, errors, late, lastState, result, historyVars>>

PollReview ==
    /\ pc = "review"
    /\ errors' = 0
    /\ lastState' = seenState
    /\ \E view \in Views :
          LET decision == TerminalAfter(view, cursor)
          IN  /\ polled' = IF view = Events THEN Len(reviews) ELSE polled
              /\ \/ /\ seenState \in ClosedStates \/ decision # "PENDING"
                    /\ Return([timed_out |-> FALSE, state |-> seenState,
                               decision |-> decision])
                 \/ /\ seenState \notin ClosedStates /\ decision = "PENDING"
                    /\ pc' = "deadline"
                    /\ UNCHANGED result
    /\ UNCHANGED <<hostVars, handle, cursor, late, seenState,
                   asked, entered, waits, known, blank>>

\* Mutant: one miss more than max_consecutive_errors is tolerated.
PollMissedOneMore ==
    /\ pc \in {"state", "review"}
    /\ errors' = errors + 1
    /\ \/ errors > MaxErrors /\ Return(Raised)
       \/ errors <= MaxErrors /\ pc' = "deadline" /\ UNCHANGED result
    /\ UNCHANGED <<hostVars, handle, cursor, late, lastState, seenState, historyVars>>

\* Either of the two commands of a poll fails.
PollMissed ==
    /\ pc \in {"state", "review"}
    /\ errors' = errors + 1
    /\ \/ TooMany /\ Return(Raised)
       \/ ~TooMany /\ pc' = "deadline" /\ UNCHANGED result
    /\ UNCHANGED <<hostVars, handle, cursor, late, lastState, seenState, historyVars>>

\* Mutant: the deadline is looked at before the first poll only.
CheckDeadlineNever ==
    /\ pc = "deadline"
    /\ pc' = "state"
    /\ UNCHANGED <<hostVars, handle, waitVars, historyVars>>

CheckDeadline ==
    /\ pc = "deadline"
    /\ \/ late /\ Return(TimedOut)
       \/ ~late /\ pc' = "state" /\ UNCHANGED result
    /\ UNCHANGED <<hostVars, handle, cursor, errors, late, lastState, seenState,
                   historyVars>>

\* The caller takes the result; the locals of the call are gone.
TakeResult ==
    /\ pc = "returned"
    /\ pc' = "idle"
    /\ cursor' = None /\ errors' = 0 /\ late' = FALSE
    /\ lastState' = "UNKNOWN" /\ seenState' = "UNKNOWN"
    /\ result' = NoResult
    /\ known' = 0 /\ polled' = 0 /\ blank' = FALSE
    /\ UNCHANGED <<hostVars, handle, asked, entered, waits>>

WaitStep ==
    \/ CursorCaptured \/ CursorMissed \/ PollState \/ PollReview \/ PollMissed
    \/ CheckDeadline

Next ==
    \/ \E p \in People, verdict \in Verdicts : Submit(p, verdict)
    \/ \E i \in DOMAIN reviews : Dismiss(i)
    \/ ChangePrState \/ DeadlinePasses
    \/ Create \/ View \/ RequestReview \/ Merge
    \/ WaitForDecision \/ WaitStep \/ TakeResult

Spec == Init /\ [][Next]_vars

\* The caller's thread runs and its commands return; the clock advances.
FairSpec == Spec /\ WF_vars(WaitStep) /\ WF_vars(DeadlinePasses)

----------------------------------------------------------------------------

Review == [by : People, given : Verdicts, state : Verdicts \cup {"DISMISSED"}, shown : BOOLEAN]
Outcome == [timed_out : BOOLEAN, state : ClosedStates \cup {"OPEN", "UNKNOWN"},
            decision : Terminal \cup {"PENDING"}]

\* Types, and the tolerance: a call that still runs has missed at most MaxErrors polls
\* in a row.
TypeOK ==
    /\ prState \in ClosedStates \cup {"OPEN", None}
    /\ reviews \in Seq(Review)
    /\ handle \in BOOLEAN /\ late \in BOOLEAN
    /\ pc \in Waiting \cup {"idle", "view", "returned"}
    /\ cursor = None \/ cursor \in Nat
    /\ errors \in Nat /\ (pc \in Waiting => errors <= MaxErrors)
    /\ {lastState, seenState} \subseteq ClosedStates \cup {"OPEN", "UNKNOWN"}
    /\ result \in Outcome \cup {NoResult, Raised}
    /\ asked = None \/ asked \in Nat
    /\ entered \in Nat /\ waits \in Nat /\ known \in Nat /\ polled \in Nat
    /\ blank \in BOOLEAN

\* A decision that ends a wait was given by the awaited reviewer after the wait began:
\* no decision of an earlier round and none of anybody else resumes the gate, whatever
\* is dismissed in place or leaves the stream (terminal_after, by position).  Only a
\* wait whose cursor came from a view without the reviews may take an older decision,
\* as the README of git_host admits, and even then one of the same reviewer.
DecisionIsNew ==
    result.decision \in Terminal =>
        \E i \in (IF blank THEN 1 ELSE known + 1) .. Len(reviews) :
            reviews[i].by = Reviewer /\ reviews[i].given = result.decision

\* A wait that timed out passed over no decision that it had in sight at a poll that
\* was answered with the reviews: neither a later comment, nor the state of the pull
\* request, nor the misses and empty views that follow hide it.  (Once the cursor's own
\* review has left the stream nothing is in sight any more: the fallback of
\* terminal_after.)
TimedOutUnanswered ==
    /\ result.timed_out
    /\ cursor # None => reviews[cursor].shown
    => \A i \in 1 .. polled :
           /\ reviews[i].by = Reviewer /\ reviews[i].shown
           /\ reviews[i].state \in Terminal
           => cursor # None /\ i <= cursor

\* A call of wait_for_decision ends, whatever the host answers and whatever fails.
WaitEnds == (pc \in Waiting) ~> (pc = "returned")

\* README of git_host: a decision given between the request and the first wait after
\* it costs one more wait and is not lost.  (A second wait for the same request, whose
\* cursor and one of whose polls were answered with all the reviews, times out with
\* such a decision standing.)
OneMoreWaitFinds ==
    result.timed_out /\ ~blank /\ asked # None /\ waits >= 2 =>
        ~\E i \in asked + 1 .. entered :
            /\ i <= polled
            /\ reviews[i].by = Reviewer /\ reviews[i].shown
            /\ reviews[i].state \in Terminal

=============================================================================
