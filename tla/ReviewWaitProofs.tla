-------------------------- MODULE ReviewWaitProofs --------------------------
(***************************************************************************)
(* Why a decision that ends a wait is a new one, and why a wait that timed *)
(* out passed over none.  The invariant says what the cursor and the last  *)
(* answered poll know of the stream of reviews, of which people take away  *)
(* reviews and to which they add some meanwhile.                           *)
(***************************************************************************)
EXTENDS ReviewWait, SequenceTheorems, WellFoundedInduction, TLAPS

----------------------------------------------------------------------------
\* The least and the greatest of a bounded set of places.

LEMMA LeastExists ==
    ASSUME NEW S \in SUBSET Nat, S # {}
    PROVE  \E m \in S : \A k \in S : m <= k
<1>1. PICK m \in S : \A k \in S : ~(<<k, m>> \in OpToRel(<, Nat))
    BY WFMin, NatLessThanWellFounded
<1>2. \A k \in S : ~(k < m)
    BY <1>1 DEF OpToRel
<1> QED
    BY <1>2

LEMMA GreatestExists ==
    ASSUME NEW n \in Nat, NEW S \in SUBSET (1 .. n), S # {}
    PROVE  \E m \in S : \A k \in S : k <= m
<1> DEFINE T == {n - k : k \in S}
<1>1. T \in SUBSET Nat /\ T # {}
  <2>1. \A k \in S : k \in 1 .. n /\ n - k \in Nat
    OBVIOUS
  <2>2. T \in SUBSET Nat
    BY <2>1
  <2>3. PICK k \in S : TRUE
    OBVIOUS
  <2>4. n - k \in T
    OBVIOUS
  <2> QED
    BY <2>2, <2>4
<1>2. PICK t \in T : \A u \in T : t <= u
    <2> HIDE DEF T
    <2> QED
        BY <1>1, LeastExists
<1>3. PICK m \in S : t = n - m
    OBVIOUS
<1>4. ASSUME NEW k \in S PROVE k <= m
  <2>1. n - m <= n - k
    BY <1>2, <1>3
  <2> QED
    BY <2>1
<1> QED
    BY <1>4

LEMMA FirstIsIn ==
    ASSUME NEW S \in SUBSET Nat, S # {}
    PROVE  First(S) \in S
BY LeastExists DEF First

----------------------------------------------------------------------------
\* The invariant.

\* The caller holds a pull request that exists, and waits only with it.
Opened ==
    /\ handle \/ pc = "view" => prState # None
    /\ pc \in Waiting => handle
    /\ pc = "view" => ~handle

\* There is a result between the end of a wait and the taking of it.
ResultIsTaken == pc # "returned" => result = NoResult

\* Between calls no miss is counted.
IdleIsFresh == pc \in {"idle", "view"} => errors = 0

\* A review shows what was given, until it is dismissed.
ShownAsGiven ==
    \A i \in DOMAIN reviews : reviews[i].state \in {reviews[i].given, "DISMISSED"}

Polling == pc \in {"state", "review", "deadline"}

\* What the history variables count is there.
CountsAreThere == known <= Len(reviews) /\ polled <= Len(reviews)

\* The cursor stands at a review of the awaited reviewer.
CursorIsTheirs ==
    cursor # None => cursor \in DOMAIN reviews /\ reviews[cursor].by = Reviewer

\* Unless the view it came from was empty, it stands behind all that were there when
\* the wait began.
CursorIsLast ==
    Polling /\ ~blank =>
        \A i \in 1 .. known :
            reviews[i].by = Reviewer /\ reviews[i].shown => cursor # None /\ i <= cursor

\* No poll is answered before the cursor is read.
NotPolledYet == pc = "cursor" => polled = 0

\* The last answered poll had no decision in sight, if the wait goes on or timed out.
Unanswered(i) ==
    reviews[i].by = Reviewer /\ reviews[i].shown /\ reviews[i].state \in Terminal
    => cursor # None /\ i <= cursor

PolledIsUnanswered ==
    /\ Polling \/ result.timed_out
    /\ cursor # None => reviews[cursor].shown
    => \A i \in 1 .. polled : Unanswered(i)

IInv ==
    /\ TypeOK /\ Opened /\ ResultIsTaken /\ IdleIsFresh /\ ShownAsGiven /\ CountsAreThere
    /\ CursorIsTheirs /\ CursorIsLast /\ NotPolledYet /\ PolledIsUnanswered
    /\ DecisionIsNew

StreamInv ==
    /\ ShownAsGiven /\ CountsAreThere /\ CursorIsTheirs /\ CursorIsLast /\ NotPolledYet
    /\ PolledIsUnanswered /\ DecisionIsNew

LEMMA InitInv ==
    ASSUME ReviewWaitAssumption, Init
    PROVE  IInv
<1> USE DEF Init
<1>1. TypeOK
  <2>1. reviews \in Seq(Review)
    OBVIOUS
  <2>2. result \in Outcome \cup {NoResult, Raised} /\ 0 <= MaxErrors
    BY DEF ReviewWaitAssumption
  <2> QED
    BY <2>1, <2>2 DEF TypeOK, Waiting, ClosedStates
<1>2. Opened /\ ResultIsTaken /\ IdleIsFresh /\ ShownAsGiven /\ CountsAreThere
    BY DEF Opened, ResultIsTaken, IdleIsFresh, ShownAsGiven, CountsAreThere, Waiting
<1>3. CursorIsTheirs /\ CursorIsLast /\ NotPolledYet /\ PolledIsUnanswered /\ DecisionIsNew
    BY DEF CursorIsTheirs, CursorIsLast, NotPolledYet, PolledIsUnanswered, DecisionIsNew,
           Polling, NoResult, Terminal
<1> QED
    BY <1>1, <1>2, <1>3 DEF IInv

\* What the stream and the wait know of each other, while neither moves.
LEMMA StandsStill ==
    ASSUME StreamInv, UNCHANGED <<reviews, cursor, result, known, polled, blank>>,
           Polling' => Polling, pc' = "cursor" => pc = "cursor"
    PROVE  StreamInv'
<1>1. ShownAsGiven' /\ CountsAreThere' /\ CursorIsTheirs' /\ NotPolledYet' /\ DecisionIsNew'
    BY DEF StreamInv, ShownAsGiven, CountsAreThere, CursorIsTheirs, NotPolledYet, DecisionIsNew
<1>2. CursorIsLast'
    BY DEF StreamInv, CursorIsLast
<1>3. PolledIsUnanswered'
    BY DEF StreamInv, PolledIsUnanswered, Unanswered
<1> QED
    BY <1>1, <1>2, <1>3 DEF StreamInv

----------------------------------------------------------------------------
\* Steps that leave the stream and the wait alone.

LEMMA CallerInv ==
    ASSUME ReviewWaitAssumption, IInv,
           ChangePrState \/ DeadlinePasses \/ Create \/ View \/ RequestReview \/ Merge
    PROVE  IInv'
<1> USE DEF waitVars, hostVars, historyVars
<1> DEFINE Still == /\ UNCHANGED <<reviews, cursor, result, known, polled, blank>>
                    /\ Polling' => Polling
                    /\ pc' = "cursor" => pc = "cursor"
<1>0. StreamInv /\ Len(reviews) \in Nat
    BY DEF IInv, StreamInv, TypeOK
<1>1. CASE ChangePrState
  <2>1. TypeOK'
    BY <1>0, <1>1 DEF IInv, TypeOK, ChangePrState, ClosedStates
  <2>2. Opened' /\ ResultIsTaken' /\ IdleIsFresh'
    BY <1>1 DEF IInv, Opened, ResultIsTaken, IdleIsFresh, ClosedStates, ReviewWaitAssumption, ChangePrState
  <2>3. Still
    BY <1>1 DEF ChangePrState, Polling
  <2> QED
    BY <1>0, <2>1, <2>2, <2>3, StandsStill DEF IInv, StreamInv
<1>2. CASE DeadlinePasses
  <2>1. TypeOK'
    BY <1>0, <1>2 DEF IInv, TypeOK, DeadlinePasses
  <2>2. Opened' /\ ResultIsTaken' /\ IdleIsFresh'
    BY <1>2 DEF IInv, Opened, ResultIsTaken, IdleIsFresh, DeadlinePasses
  <2>3. Still
    BY <1>2 DEF DeadlinePasses, Polling
  <2> QED
    BY <1>0, <2>1, <2>2, <2>3, StandsStill DEF IInv, StreamInv
<1>3. CASE Create
  <2>1. TypeOK'
    BY <1>0, <1>3 DEF IInv, TypeOK, Create, ClosedStates, Waiting
  <2>2. Opened' /\ ResultIsTaken' /\ IdleIsFresh'
    BY <1>3 DEF IInv, Opened, ResultIsTaken, IdleIsFresh, Waiting, ReviewWaitAssumption, Create
  <2>3. Still
    BY <1>3 DEF Create, Polling
  <2> QED
    BY <1>0, <2>1, <2>2, <2>3, StandsStill DEF IInv, StreamInv
<1>4. CASE View
  <2>1. TypeOK'
    BY <1>0, <1>4 DEF IInv, TypeOK, View, Waiting
  <2>2. Opened' /\ ResultIsTaken' /\ IdleIsFresh'
    BY <1>4 DEF IInv, Opened, ResultIsTaken, IdleIsFresh, Waiting, ReviewWaitAssumption, View
  <2>3. Still
    BY <1>4 DEF View, Polling
  <2> QED
    BY <1>0, <2>1, <2>2, <2>3, StandsStill DEF IInv, StreamInv
<1>5. CASE RequestReview
  <2>1. TypeOK'
    BY <1>0, <1>5 DEF IInv, TypeOK, RequestReview
  <2>2. Opened' /\ ResultIsTaken' /\ IdleIsFresh'
    BY <1>5 DEF IInv, Opened, ResultIsTaken, IdleIsFresh, RequestReview
  <2>3. Still
    BY <1>5 DEF RequestReview, Polling
  <2> QED
    BY <1>0, <2>1, <2>2, <2>3, StandsStill DEF IInv, StreamInv
<1>6. CASE Merge
  <2>1. TypeOK'
    BY <1>0, <1>6 DEF IInv, TypeOK, Merge, ClosedStates
  <2>2. Opened' /\ ResultIsTaken' /\ IdleIsFresh'
    BY <1>6 DEF IInv, Opened, ResultIsTaken, IdleIsFresh, ClosedStates, ReviewWaitAssumption, Merge
  <2>3. Still
    BY <1>6 DEF Merge, Polling
  <2> QED
    BY <1>0, <2>1, <2>2, <2>3, StandsStill DEF IInv, StreamInv
<1> QED
    BY <1>1, <1>2, <1>3, <1>4, <1>5, <1>6

----------------------------------------------------------------------------
\* Steps of the people: reviews come at the end, and go anywhere.

LEMMA SubmitInv ==
    ASSUME ReviewWaitAssumption, IInv, NEW p \in People, NEW verdict \in Verdicts,
           Submit(p, verdict)
    PROVE  IInv'
<1> DEFINE e == [by |-> p, given |-> verdict, state |-> verdict, shown |-> TRUE]
<1>1. e \in Review /\ e.state = e.given
    BY DEF Review
<1>2. reviews' = Append(reviews, e) /\ reviews \in Seq(Review)
    BY DEF Submit, IInv, TypeOK
<1> HIDE DEF e
<1>3. /\ reviews' \in Seq(Review) /\ Len(reviews) \in Nat /\ Len(reviews') = Len(reviews) + 1
      /\ \A i \in 1 .. Len(reviews) : reviews'[i] = reviews[i]
      /\ reviews'[Len(reviews) + 1] = e
    BY <1>1, <1>2
<1>4. /\ DOMAIN reviews = 1 .. Len(reviews) /\ DOMAIN reviews' = 1 .. Len(reviews) + 1
    BY <1>2, <1>3
<1>5. UNCHANGED <<prState, handle, pc, waitVars, historyVars>>
    BY DEF Submit
<1>6. TypeOK'
    BY <1>3, <1>5 DEF IInv, TypeOK, waitVars, historyVars
<1>7. Opened' /\ ResultIsTaken' /\ IdleIsFresh'
    BY <1>5 DEF IInv, Opened, ResultIsTaken, IdleIsFresh, waitVars
<1>8. known \in Nat /\ polled \in Nat
    BY DEF IInv, TypeOK
<1>9. ShownAsGiven' /\ CountsAreThere'
    BY <1>1, <1>3, <1>4, <1>5, <1>8 DEF IInv, ShownAsGiven, CountsAreThere, historyVars
<1>10. CursorIsTheirs' /\ CursorIsLast' /\ NotPolledYet'
    BY <1>3, <1>4, <1>5, <1>8 DEF IInv, CursorIsTheirs, CursorIsLast, CountsAreThere, Polling,
                                  NotPolledYet, waitVars, historyVars
<1>11. PolledIsUnanswered'
  <2>1. cursor = None \/ cursor \in DOMAIN reviews
    BY DEF IInv, CursorIsTheirs
  <2> QED
    BY <2>1, <1>3, <1>4, <1>5, <1>8
       DEF IInv, PolledIsUnanswered, Unanswered, CountsAreThere, Polling, waitVars, historyVars
<1>12. DecisionIsNew'
    BY <1>3, <1>5, <1>8 DEF IInv, DecisionIsNew, waitVars, historyVars
<1> QED
    BY <1>6, <1>7, <1>9, <1>10, <1>11, <1>12 DEF IInv

LEMMA DismissInv ==
    ASSUME ReviewWaitAssumption, IInv, NEW d \in DOMAIN reviews, Dismiss(d)
    PROVE  IInv'
<1>1. PICK e \in Review :
          /\ reviews' = [reviews EXCEPT ![d] = e]
          /\ e.by = reviews[d].by /\ e.given = reviews[d].given
          /\ e.state \in {reviews[d].state, "DISMISSED"}
          /\ e.shown => reviews[d].shown
  <2>1. reviews \in Seq(Review) /\ reviews[d] \in Review
    BY DEF IInv, TypeOK
  <2>2. CASE reviews' = [reviews EXCEPT ![d].state = "DISMISSED"]
    <3> DEFINE e == [reviews[d] EXCEPT !.state = "DISMISSED"]
    <3>1. /\ e \in Review /\ e.by = reviews[d].by /\ e.given = reviews[d].given
          /\ e.state = "DISMISSED" /\ e.shown = reviews[d].shown
      BY <2>1 DEF Review
    <3>2. reviews' = [reviews EXCEPT ![d] = e]
      BY <2>2
    <3> HIDE DEF e
    <3> QED
      BY <3>1, <3>2
  <2>3. CASE reviews' = [reviews EXCEPT ![d].shown = FALSE]
    <3> DEFINE e == [reviews[d] EXCEPT !.shown = FALSE]
    <3>1. /\ e \in Review /\ e.by = reviews[d].by /\ e.given = reviews[d].given
          /\ e.state = reviews[d].state /\ e.shown = FALSE
      BY <2>1 DEF Review
    <3>2. reviews' = [reviews EXCEPT ![d] = e]
      BY <2>3
    <3> HIDE DEF e
    <3> QED
      BY <3>1, <3>2
  <2> QED
    BY <2>2, <2>3 DEF Dismiss
<1>2. reviews \in Seq(Review) /\ d \in 1 .. Len(reviews)
    BY DEF IInv, TypeOK
<1>3. /\ reviews' \in Seq(Review) /\ Len(reviews') = Len(reviews) /\ DOMAIN reviews' = DOMAIN reviews
      /\ Len(reviews) \in Nat /\ DOMAIN reviews = 1 .. Len(reviews)
    BY <1>1, <1>2, ExceptSeq
<1>4. \A i \in DOMAIN reviews :
          /\ reviews'[i].by = reviews[i].by /\ reviews'[i].given = reviews[i].given
          /\ reviews'[i].state \in {reviews[i].state, "DISMISSED"}
          /\ reviews'[i].shown => reviews[i].shown
    BY <1>1, <1>2, ExceptSeq
<1>5. UNCHANGED <<prState, handle, pc, waitVars, historyVars>>
    BY DEF Dismiss
<1>6. TypeOK'
    BY <1>3, <1>5 DEF IInv, TypeOK, waitVars, historyVars
<1>7. Opened' /\ ResultIsTaken' /\ IdleIsFresh'
    BY <1>5 DEF IInv, Opened, ResultIsTaken, IdleIsFresh, waitVars
<1>8. known \in Nat /\ polled \in Nat
    BY DEF IInv, TypeOK
<1>9. ShownAsGiven' /\ CountsAreThere'
    BY <1>3, <1>4, <1>5 DEF IInv, ShownAsGiven, CountsAreThere, historyVars
<1>10. CursorIsTheirs' /\ CursorIsLast' /\ NotPolledYet'
    BY <1>3, <1>4, <1>5, <1>8 DEF IInv, CursorIsTheirs, CursorIsLast, CountsAreThere, Polling,
                                  NotPolledYet, waitVars, historyVars
<1>11. PolledIsUnanswered'
  <2>1. cursor = None \/ cursor \in DOMAIN reviews
    BY DEF IInv, CursorIsTheirs
  <2>2. "DISMISSED" \notin Terminal
    BY DEF Terminal
  <2> QED
    BY <2>1, <2>2, <1>3, <1>4, <1>5, <1>8
       DEF IInv, PolledIsUnanswered, Unanswered, CountsAreThere, Polling, waitVars, historyVars
<1>12. DecisionIsNew'
    BY <1>3, <1>4, <1>5, <1>8 DEF IInv, DecisionIsNew, waitVars, historyVars
<1> QED
    BY <1>6, <1>7, <1>9, <1>10, <1>11, <1>12 DEF IInv

----------------------------------------------------------------------------
\* What the reading of the stream gives.

\* What a view holds are places of reviews the awaited reviewer gave and shows.
LEMMA ViewsAreEvents ==
    ASSUME TypeOK, NEW view \in Views
    PROVE  view \subseteq Events /\ view \in SUBSET (1 .. Len(reviews)) /\ Len(reviews) \in Nat
BY DEF Views, Events, TypeOK

\* The cursor is the last place of the awaited reviewer in the view, if there is one.
LEMMA LatestGives ==
    ASSUME TypeOK, None \notin Nat, NEW view \in Views
    PROVE  /\ LatestReviewId(view) # None => LatestReviewId(view) \in Events
           /\ LatestReviewId(view) = None \/ LatestReviewId(view) \in Nat
           /\ \A i \in view : LatestReviewId(view) # None /\ i <= LatestReviewId(view)
<1>1. view \subseteq Events /\ Len(reviews) \in Nat /\ view \in SUBSET (1 .. Len(reviews))
    BY ViewsAreEvents
<1>4. \A i \in view : i \in Events /\ i \in Nat
    BY <1>1
<1>2. CASE view = {}
    BY <1>2 DEF LatestReviewId
<1>3. CASE view # {}
  <2>1. \E m \in view : \A k \in view : k <= m
    BY <1>1, <1>3, GreatestExists
  <2>2. LatestReviewId(view) \in view /\ \A k \in view : k <= LatestReviewId(view)
    BY <1>3, <2>1 DEF LatestReviewId
  <2>3. LatestReviewId(view) \in Events /\ LatestReviewId(view) \in Nat
    BY <1>4, <2>2
  <2> QED
    BY <2>2, <2>3
<1> QED
    BY <1>2, <1>3

\* A decision is that of a terminal review behind the cursor; PENDING says there is none.
LEMMA TerminalGives ==
    ASSUME TypeOK, NEW view \in Views, NEW id
    PROVE  /\ TerminalAfter(view, id) \in Terminal =>
                \E i \in After(view, id) : Decision(i) = TerminalAfter(view, id)
           /\ TerminalAfter(view, id) \in Terminal \cup {"PENDING"}
           /\ TerminalAfter(view, id) = "PENDING" =>
                \A i \in After(view, id) : Decision(i) \notin Terminal
<1> DEFINE T == {i \in After(view, id) : Decision(i) \in Terminal}
<1>1. T \in SUBSET Nat
    BY ViewsAreEvents DEF After
<1>2. CASE T = {}
    BY <1>2 DEF TerminalAfter, Terminal
<1>3. CASE T # {}
  <2>1. First(T) \in T
    <3> HIDE DEF T
    <3> QED
      BY <1>1, <1>3, FirstIsIn
  <2>2. TerminalAfter(view, id) = Decision(First(T))
    BY <1>3 DEF TerminalAfter
  <2> QED
    BY <2>1, <2>2 DEF Terminal
<1> QED
    BY <1>2, <1>3

----------------------------------------------------------------------------
\* Steps of the wait.

LEMMA WaitForDecisionInv ==
    ASSUME ReviewWaitAssumption, IInv, WaitForDecision \/ TakeResult
    PROVE  IInv'
<1>1. Len(reviews) \in Nat
    BY DEF IInv, TypeOK
<1>2. result' = NoResult /\ NoResult.decision \notin Terminal /\ ~NoResult.timed_out
    BY DEF IInv, ResultIsTaken, WaitForDecision, TakeResult, waitVars, NoResult, Terminal
<1>3. ~Polling' /\ pc' \in {"cursor", "idle"} /\ UNCHANGED <<hostVars, handle>>
    BY DEF WaitForDecision, TakeResult, Polling
<1>4. CountsAreThere'
    BY <1>1 DEF WaitForDecision, TakeResult, CountsAreThere, hostVars
<1>5. CursorIsTheirs' /\ NotPolledYet'
    BY DEF WaitForDecision, TakeResult, IInv, CursorIsTheirs, NotPolledYet, waitVars, hostVars
<1>9. StreamInv'
    BY <1>2, <1>3, <1>4, <1>5 DEF IInv, StreamInv, ShownAsGiven, CursorIsLast,
                                  PolledIsUnanswered, DecisionIsNew, hostVars
<1>6. Opened' /\ ResultIsTaken'
    BY <1>2, <1>3 DEF IInv, Opened, ResultIsTaken, WaitForDecision, TakeResult, Waiting, hostVars
<1>7. CASE WaitForDecision
  <2>1. pc' \in Waiting => errors' <= MaxErrors
    BY <1>7 DEF IInv, IdleIsFresh, WaitForDecision, waitVars, ReviewWaitAssumption
  <2>2. TypeOK'
    BY <1>1, <1>7, <2>1 DEF IInv, TypeOK, WaitForDecision, waitVars, hostVars, Waiting
  <2> QED
    BY <1>9, <1>6, <1>7, <2>2 DEF IInv, StreamInv, IdleIsFresh, WaitForDecision
<1>8. CASE TakeResult
  <2>1. TypeOK'
    BY <1>8 DEF IInv, TypeOK, TakeResult, hostVars, Waiting
  <2> QED
    BY <1>9, <1>6, <1>8, <2>1 DEF IInv, StreamInv, IdleIsFresh, TakeResult
<1> QED
    BY <1>7, <1>8

LEMMA CursorCapturedInv ==
    ASSUME ReviewWaitAssumption, IInv, CursorCaptured
    PROVE  IInv'
<1> USE DEF CursorCaptured, hostVars, historyVars
<1>0. PICK view \in Views : cursor' = LatestReviewId(view) /\ blank' = (view # Events)
    OBVIOUS
<1>1. /\ cursor' # None => cursor' \in Events
      /\ cursor' = None \/ cursor' \in Nat
      /\ ~blank' => \A i \in Events : cursor' # None /\ i <= cursor'
    BY <1>0, LatestGives DEF IInv, ReviewWaitAssumption
<1>2. TypeOK'
    BY <1>0, <1>1 DEF IInv, TypeOK, ReviewWaitAssumption, Waiting
<1>3. Opened' /\ ResultIsTaken' /\ IdleIsFresh' /\ result' = NoResult
    BY DEF IInv, Opened, ResultIsTaken, IdleIsFresh, Waiting
<1>4. ~result'.timed_out /\ result'.decision \notin Terminal
    BY <1>3 DEF NoResult, Terminal
<1>5. /\ known \in Nat /\ polled = 0 /\ Len(reviews) \in Nat
      /\ known <= Len(reviews) /\ DOMAIN reviews = 1 .. Len(reviews)
    BY DEF IInv, TypeOK, CountsAreThere, NotPolledYet
<1>6. CursorIsTheirs' /\ CursorIsLast'
    BY <1>1, <1>5 DEF CursorIsTheirs, CursorIsLast, Events
<1>7. NotPolledYet' /\ PolledIsUnanswered'
    BY <1>5 DEF NotPolledYet, PolledIsUnanswered
<1>8. DecisionIsNew'
    BY <1>4 DEF DecisionIsNew
<1>9. ShownAsGiven' /\ CountsAreThere'
    BY DEF IInv, ShownAsGiven, CountsAreThere
<1> QED
    BY <1>2, <1>3, <1>6, <1>7, <1>8, <1>9 DEF IInv

\* A miss: of the cursor or of a poll.
LEMMA MissedInv ==
    ASSUME ReviewWaitAssumption, IInv, CursorMissed \/ PollMissed
    PROVE  IInv'
<1>1. /\ UNCHANGED <<hostVars, handle, cursor, late, lastState, seenState, historyVars>>
      /\ errors' = errors + 1 /\ errors \in Nat
      /\ pc \in Waiting /\ result = NoResult
      /\ \/ pc' = "returned" /\ result' \in {Raised, TimedOut}
         \/ ~TooMany /\ pc' = pc /\ pc = "cursor" /\ result' = NoResult
         \/ ~TooMany /\ pc' = "deadline" /\ Polling /\ result' = NoResult
    BY DEF CursorMissed, PollMissed, Return, IInv, TypeOK, ResultIsTaken, Waiting, Polling
<1>2. TimedOut \in Outcome /\ TimedOut.decision \notin Terminal
    BY DEF IInv, TypeOK, TimedOut, Outcome, Terminal
<1>3. result' \in Outcome \cup {NoResult, Raised} /\ result'.decision \notin Terminal
    BY <1>1, <1>2 DEF NoResult, Raised, Terminal
<1>4. errors' \in Nat /\ errors' # 0 /\ (pc' \in Waiting => errors' <= MaxErrors)
    BY <1>1 DEF TooMany, Waiting, ReviewWaitAssumption
<1>5. TypeOK'
    BY <1>1, <1>3, <1>4 DEF IInv, TypeOK, Waiting, hostVars, historyVars
<1>6. Opened' /\ ResultIsTaken' /\ IdleIsFresh'
    BY <1>1 DEF IInv, Opened, ResultIsTaken, IdleIsFresh, Waiting, hostVars
<1>7. CursorIsTheirs' /\ CursorIsLast' /\ NotPolledYet'
    BY <1>1 DEF IInv, CursorIsTheirs, CursorIsLast, NotPolledYet, Polling, hostVars, historyVars
<1>8. PolledIsUnanswered'
  <2>1. Polling \/ (pc = "cursor" /\ polled = 0)
    BY <1>1 DEF IInv, NotPolledYet, Waiting, Polling
  <2> QED
    BY <1>1, <2>1 DEF IInv, PolledIsUnanswered, Unanswered, hostVars, historyVars
<1>9. DecisionIsNew'
    BY <1>3 DEF DecisionIsNew
<1>10. ShownAsGiven' /\ CountsAreThere'
    BY <1>1 DEF IInv, ShownAsGiven, CountsAreThere, hostVars, historyVars
<1> QED
    BY <1>5, <1>6, <1>7, <1>8, <1>9, <1>10 DEF IInv

LEMMA PollStateInv ==
    ASSUME ReviewWaitAssumption, IInv, PollState
    PROVE  IInv'
<1> USE DEF PollState, hostVars, historyVars
<1>1. prState # None
    BY DEF IInv, Opened, Waiting
<1>2. TypeOK'
    BY <1>1 DEF IInv, TypeOK, Waiting
<1>3. Opened' /\ ResultIsTaken' /\ IdleIsFresh'
    BY DEF IInv, Opened, ResultIsTaken, IdleIsFresh, Waiting
<1>4. StreamInv'
    BY StandsStill DEF IInv, StreamInv, Polling
<1> QED
    BY <1>2, <1>3, <1>4 DEF IInv, StreamInv

LEMMA CheckDeadlineInv ==
    ASSUME ReviewWaitAssumption, IInv, CheckDeadline
    PROVE  IInv'
<1> USE DEF CheckDeadline, hostVars, historyVars
<1>1. result = NoResult /\ ~NoResult.timed_out /\ Polling
    BY DEF IInv, ResultIsTaken, NoResult, Polling
<1>2. CASE late /\ Return(TimedOut)
  <2>1. TimedOut \in Outcome /\ TimedOut.decision \notin Terminal
    BY DEF IInv, TypeOK, TimedOut, Outcome, Terminal
  <2>2. TypeOK'
    BY <1>2, <2>1 DEF IInv, TypeOK, Return, Waiting
  <2>3. Opened' /\ ResultIsTaken' /\ IdleIsFresh'
    BY <1>2 DEF IInv, Opened, ResultIsTaken, IdleIsFresh, Return, Waiting
  <2>4. CursorIsTheirs' /\ CursorIsLast' /\ NotPolledYet'
    BY <1>1, <1>2 DEF IInv, CursorIsTheirs, CursorIsLast, NotPolledYet, Return, Polling
  <2>5. PolledIsUnanswered'
    BY <1>1 DEF IInv, PolledIsUnanswered, Unanswered
  <2>6. DecisionIsNew'
    BY <1>2, <2>1 DEF DecisionIsNew, Return
  <2>7. ShownAsGiven' /\ CountsAreThere'
    BY DEF IInv, ShownAsGiven, CountsAreThere
  <2> QED
    BY <2>2, <2>3, <2>4, <2>5, <2>6, <2>7 DEF IInv
<1>3. CASE ~late /\ pc' = "state" /\ UNCHANGED result
  <2>1. TypeOK'
    BY <1>3 DEF IInv, TypeOK, Waiting
  <2>2. Opened' /\ ResultIsTaken' /\ IdleIsFresh'
    BY <1>3 DEF IInv, Opened, ResultIsTaken, IdleIsFresh, Waiting
  <2>3. StreamInv'
    BY <1>3, StandsStill DEF IInv, StreamInv, Polling
  <2> QED
    BY <2>1, <2>2, <2>3 DEF IInv, StreamInv
<1> QED
    BY <1>2, <1>3

LEMMA PollReviewInv ==
    ASSUME ReviewWaitAssumption, IInv, PollReview
    PROVE  IInv'
<1> USE DEF hostVars, historyVars
<1>0. PICK view \in Views :
          LET decision == TerminalAfter(view, cursor)
          IN  /\ polled' = IF view = Events THEN Len(reviews) ELSE polled
              /\ \/ Return([timed_out |-> FALSE, state |-> seenState,
                            decision |-> decision])
                 \/ decision = "PENDING" /\ pc' = "deadline" /\ UNCHANGED result
    BY DEF PollReview
<1> DEFINE d == TerminalAfter(view, cursor)
           out == [timed_out |-> FALSE, state |-> seenState, decision |-> d]
<1>1. /\ pc = "review" /\ errors' = 0 /\ lastState' = seenState
      /\ UNCHANGED <<hostVars, handle, cursor, late, seenState,
                     asked, entered, waits, known, blank>>
      /\ \/ pc' = "returned" /\ result' = out
         \/ pc' = "deadline" /\ result' = result /\ d = "PENDING"
    BY <1>0 DEF PollReview, Return
<1>2. result = NoResult /\ Polling
    BY <1>1 DEF IInv, ResultIsTaken, Polling
<1>3. /\ d \in Terminal => \E i \in After(view, cursor) : Decision(i) = d
      /\ d \in Terminal \cup {"PENDING"}
      /\ d = "PENDING" => \A i \in After(view, cursor) : Decision(i) \notin Terminal
    BY TerminalGives DEF IInv
<1> HIDE DEF d
<1>4. /\ known \in Nat /\ Len(reviews) \in Nat /\ known <= Len(reviews)
      /\ DOMAIN reviews = 1 .. Len(reviews) /\ polled \in Nat /\ polled <= Len(reviews)
    BY DEF IInv, TypeOK, CountsAreThere
<1>5. \A i \in After(view, cursor) :
          /\ i \in 1 .. Len(reviews) /\ (~blank => i \in known + 1 .. Len(reviews))
          /\ reviews[i].by = Reviewer
          /\ Decision(i) \in Terminal => reviews[i].given = Decision(i)
  <2>0. view \subseteq Events
    BY ViewsAreEvents DEF IInv
  <2>1. ASSUME NEW i \in After(view, cursor)
        PROVE  /\ i \in 1 .. Len(reviews) /\ reviews[i].by = Reviewer /\ reviews[i].shown
               /\ cursor = None \/ (cursor \in 1 .. Len(reviews) /\ cursor < i)
    BY <1>4, <2>0 DEF After, Events
  <2>2. ASSUME NEW i \in After(view, cursor), ~blank PROVE i \in known + 1 .. Len(reviews)
    BY <1>2, <1>4, <2>1, <2>2 DEF IInv, CursorIsLast
  <2>3. ASSUME NEW i \in After(view, cursor), Decision(i) \in Terminal
        PROVE  reviews[i].given = Decision(i)
    BY <2>1, <2>3, <1>4 DEF IInv, ShownAsGiven, Decision, Terminal, Verdicts
  <2> QED
    BY <2>1, <2>2, <2>3
<1>6. out \in Outcome /\ ~out.timed_out /\ out.decision = d
    BY <1>3 DEF IInv, TypeOK, Outcome
<1> HIDE DEF out
<1>14. polled' \in Nat /\ polled' <= Len(reviews)
    BY <1>0, <1>4
<1>7. TypeOK'
    BY <1>1, <1>4, <1>6, <1>14 DEF IInv, TypeOK, Waiting, ReviewWaitAssumption
<1>8. Opened' /\ ResultIsTaken' /\ IdleIsFresh'
    BY <1>1, <1>2 DEF IInv, Opened, ResultIsTaken, IdleIsFresh, Waiting
<1>9. ShownAsGiven' /\ CountsAreThere' /\ CursorIsTheirs' /\ CursorIsLast' /\ NotPolledYet'
    BY <1>1, <1>2, <1>4, <1>14
       DEF IInv, ShownAsGiven, CountsAreThere, CursorIsTheirs, CursorIsLast, NotPolledYet
<1>10. DecisionIsNew'
  <2>1. CASE result' = out
    BY <1>1, <1>3, <1>5, <1>6, <2>1 DEF DecisionIsNew
  <2>2. CASE result' = result
    BY <1>2, <2>2 DEF DecisionIsNew, NoResult, Terminal
  <2> QED
    BY <1>1, <2>1, <2>2
<1>11. ~result'.timed_out
    BY <1>1, <1>2, <1>6 DEF NoResult
<1>12. ASSUME d = "PENDING", cursor # None => reviews[cursor].shown, NEW i \in 1 .. polled'
       PROVE  Unanswered(i)
  <2>1. CASE view # Events
    BY <1>0, <1>2, <1>12, <2>1 DEF IInv, PolledIsUnanswered
  <2>2. CASE view = Events
    <3>1. SUFFICES ASSUME reviews[i].by = Reviewer, reviews[i].shown,
                          reviews[i].state \in Terminal
                   PROVE  cursor # None /\ i <= cursor
      BY DEF Unanswered
    <3>2. i \in Events /\ Decision(i) \in Terminal /\ i \in Nat
      BY <1>4, <1>12, <1>14, <3>1 DEF Events, Decision, Terminal, Verdicts
    <3>3. i \notin After(Events, cursor)
      BY <1>3, <1>12, <2>2, <3>2
    <3>4. cursor # None => cursor \in Events /\ cursor \in Nat
      BY <1>4, <1>12 DEF IInv, CursorIsTheirs, Events
    <3> QED
      BY <3>2, <3>3, <3>4 DEF After
  <2> QED
    BY <2>1, <2>2
<1>13. PolledIsUnanswered'
    BY <1>1, <1>11, <1>12 DEF PolledIsUnanswered, Unanswered, Polling
<1> QED
    BY <1>7, <1>8, <1>9, <1>10, <1>13 DEF IInv

----------------------------------------------------------------------------

LEMMA StutterInv ==
    ASSUME IInv, UNCHANGED vars
    PROVE  IInv'
<1> USE DEF vars, hostVars, waitVars, historyVars
<1>1. TypeOK'
    BY DEF IInv, TypeOK
<1>2. Opened' /\ ResultIsTaken' /\ IdleIsFresh'
    BY DEF IInv, Opened, ResultIsTaken, IdleIsFresh
<1>3. StreamInv'
    BY StandsStill DEF IInv, StreamInv, Polling
<1> QED
    BY <1>1, <1>2, <1>3 DEF IInv, StreamInv

LEMMA NextInv ==
    ASSUME ReviewWaitAssumption, IInv, [Next]_vars
    PROVE  IInv'
BY SubmitInv, DismissInv, CallerInv, WaitForDecisionInv, CursorCapturedInv, MissedInv,
   PollStateInv, PollReviewInv, CheckDeadlineInv, StutterInv DEF Next, WaitStep

\* The strengthened invariant of the waits and the stream holds of every behaviour.
THEOREM Invariance == Spec => []IInv
<1>1. Init => IInv
    BY InitInv, ReviewWaitAssumption
<1>2. IInv /\ [Next]_vars => IInv'
    BY NextInv, ReviewWaitAssumption
<1> QED
    BY <1>1, <1>2, PTL DEF Spec

\* The states have their shapes, and no call goes on after more misses in a row than
\* max_consecutive_errors (client.py wait_for_decision).
THEOREM Typing == Spec => []TypeOK
<1>1. IInv => TypeOK
    BY DEF IInv
<1> QED
    BY <1>1, Invariance, PTL

\* For any number of people, reviews, misses and empty views: a decision that ends a
\* wait is one the awaited reviewer gave after the wait began, unless the view the
\* cursor came from lacked the reviews (models.py terminal_after).
THEOREM DecisionsAreNew == Spec => []DecisionIsNew
<1>1. IInv => DecisionIsNew
    BY DEF IInv
<1> QED
    BY <1>1, Invariance, PTL

\* And a wait that timed out passed over no decision that was in sight at a poll
\* answered with the reviews (client.py wait_for_decision, models.py terminal_after).
THEOREM TimedOutMeansUnanswered == Spec => []TimedOutUnanswered
<1>1. IInv => TimedOutUnanswered
    BY DEF IInv, TimedOutUnanswered, PolledIsUnanswered, Unanswered
<1> QED
    BY <1>1, Invariance, PTL

=============================================================================
