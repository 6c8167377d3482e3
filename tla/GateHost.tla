----------------------------- MODULE GateHost -----------------------------
(***************************************************************************)
(* The code host as the SoT gate sees it through GateHostPorts             *)
(* (axdt/sot_gate/ports.py): pull requests, the artifacts of the review    *)
(* CI, the decision stream, the approvals, the current roles, the ruleset  *)
(* and the main branch.  The host is not code of this repository: what     *)
(* may happen here is what the ports' contracts and the evaluation in      *)
(* gate.py reckon with.                                                    *)
(*                                                                         *)
(* A commit of a PR branch is a number that only grows (ruleset RS-C       *)
(* forbids force-push on sot/ branches; controller.py relies on it).  Only *)
(* the controller moves main (ruleset RS-A).  The two landing keys digest  *)
(* content, never a commit id (axdt/sot_gate/keys.py), and not the same   *)
(* content: "judged" is what the components of the judgment key show,      *)
(* "swept" what those of the completeness sweep key show.  A push may      *)
(* change neither, one of them or both; what main already holds counts     *)
(* in either.                                                              *)
(***************************************************************************)
EXTENDS SotGate, FiniteSets

CONSTANTS
    PR, Actor,
    Author,             \* [PR -> Actor]
    Allowlist, Human,   \* sets of actors; the allowlist is the controller's own
    TouchesSot, TouchesSurface,   \* sets of PRs, by what their merge changes
    Fork, SotRef,       \* PRs from a fork, PRs whose branch is named sot/...
    Change,             \* what a change alters in the components of a key
    JudgedPart, SweptPart,   \* [PR -> [commit -> changes it brings into each key]]
    Finding,            \* finding ids with their digests
    ConsistencyReport,  \* what the consistency review may publish
    CompletenessReport, \* what the completeness review may publish
    Speaker,            \* bound: the actors that comment and approve
    RoleChanges,        \* bound: the actors whose role changes
    MaxHead,            \* bound: [PR -> its last commit]
    MaxComments,        \* bound: entries of one decision stream
    MaxApprovals        \* bound: [PR -> approvals given to it]

ASSUME HostAssumption ==
    /\ Author \in [PR -> Actor]
    /\ Allowlist \subseteq Actor /\ Human \subseteq Actor
    /\ TouchesSot \subseteq PR /\ TouchesSurface \subseteq PR
    /\ Fork \subseteq PR /\ SotRef \subseteq PR
    /\ ConsistencyReport \subseteq
          [format_ok : BOOLEAN, clear : BOOLEAN, open : SUBSET Finding] \cup {None}
    /\ CompletenessReport \subseteq [clear : BOOLEAN, open : SUBSET Finding] \cup {None}
    /\ Speaker \subseteq Actor /\ RoleChanges \subseteq Actor
    /\ MaxHead \in [PR -> Nat] /\ MaxApprovals \in [PR -> Nat] /\ MaxComments \in Nat
    /\ \A pr \in PR : /\ JudgedPart[pr] \in [0..MaxHead[pr] -> SUBSET Change]
                      /\ SweptPart[pr] \in [0..MaxHead[pr] -> SUBSET Change]

VARIABLES
    head,       \* [PR -> commit at the tip of its branch]
    prState,    \* [PR -> "OPEN", "MERGED" or "CLOSED"]
    artifacts,  \* [PR -> the two review artifacts, or None]
    channel,    \* [PR -> decision stream, as the adapter parses it]
    approvals,  \* [PR -> approval reviews, withdrawn ones included]
    admins,     \* actors whose role is admin now
    rulesetOk,  \* the live ruleset is the declared one
    main        \* what landed, in order

hostVars == <<head, prState, artifacts, channel, approvals, admins, rulesetOk, main>>

Sensitive == TouchesSot \cup TouchesSurface

\* What main holds: the content that landed last.
LandedContent ==
    IF main = <<>> THEN [judged |-> {}, swept |-> {}] ELSE main[Len(main)].landed

\* The content of the proposed merge of pr at commit h.
ContentAt(pr, h) ==
    IF pr \in Sensitive
    THEN [judged |-> LandedContent.judged \cup JudgedPart[pr][h],
          swept  |-> LandedContent.swept \cup SweptPart[pr][h]]
    ELSE LandedContent
Content(pr)      == ContentAt(pr, head[pr])

HostInit ==
    /\ head = [pr \in PR |-> 0]
    /\ prState = [pr \in PR |-> "OPEN"]
    /\ artifacts = [pr \in PR |-> [consistency |-> None, completeness |-> None]]
    /\ channel = [pr \in PR |-> <<>>]
    /\ approvals = [pr \in PR |-> {}]
    /\ admins = Actor
    /\ rulesetOk = TRUE
    /\ main = <<>>

----------------------------------------------------------------------------
\* What the ports return: the raw facts, with the roles of the moment.

RoleOf(actor) == IF actor \in admins THEN "admin" ELSE "write"

ReadPrMetadata(pr) ==
    [author |-> Author[pr], sot_ref |-> pr \in SotRef, fork |-> pr \in Fork,
     head_sha |-> head[pr], state |-> prState[pr], touches_sot |-> pr \in TouchesSot,
     touches_enforcement_surface |-> pr \in TouchesSurface]

ReadChannelDecisions(pr) ==
    [i \in DOMAIN channel[pr] |->
        LET c == channel[pr][i]
        IN  [key |-> c.key, author |-> c.author, comment_id |-> c.comment_id,
             edited |-> c.edited, deleted |-> c.deleted,
             author_role |-> RoleOf(c.author), author_is_human |-> c.author \in Human]]

ReadApprovals(pr) ==
    {[approver |-> a.approver,
      approved_judgment |-> JudgmentKey(a.content),
      approved_completeness |-> SweepKey(a.content),
      approver_role |-> RoleOf(a.approver), approver_is_human |-> a.approver \in Human,
      dismissed |-> a.dismissed] : a \in approvals[pr]}

----------------------------------------------------------------------------
\* People, the review CI and the adapter's faults.

Dismissed(a) == [a EXCEPT !.dismissed = TRUE]

\* A push of one or several commits; the host may withdraw the approvals of the PR.
Push(pr) ==
    /\ prState[pr] = "OPEN"
    /\ \E h \in (head[pr] + 1)..MaxHead[pr] : head' = [head EXCEPT ![pr] = h]
    /\ \/ UNCHANGED approvals
       \/ approvals' = [approvals EXCEPT ![pr] = {Dismissed(a) : a \in @}]
    /\ UNCHANGED <<prState, artifacts, channel, admins, rulesetOk, main>>

ClosePr(pr) ==
    /\ prState[pr] = "OPEN"
    /\ prState' = [prState EXCEPT ![pr] = "CLOSED"]
    /\ UNCHANGED <<head, artifacts, channel, approvals, admins, rulesetOk, main>>

\* The review CI ends a run on the current content with one report of each kind
\* (None: an artifact that cannot be parsed).  A key has one finished artifact:
\* it is not replaced while the content stays the same.
ConsistencyAfter(pr, r) ==
    LET old == artifacts[pr].consistency
        key == JudgmentKey(Content(pr))
    IN  IF old # None /\ old.judgment = key THEN old
        ELSE IF r = None THEN None
        ELSE [judgment |-> key, format_ok |-> r.format_ok, review_clear |-> r.clear,
              open_blocking |-> {BindingKey(key, f) : f \in r.open}]

CompletenessAfter(pr, r) ==
    LET old == artifacts[pr].completeness
        key == SweepKey(Content(pr))
    IN  IF old # None /\ old.sweep_key = key THEN old
        ELSE IF r = None THEN None
        ELSE [sweep_key |-> key, completeness_clear |-> r.clear,
              open_blocking |-> {BindingKey(key, f) : f \in r.open}]

PublishReviews(pr) ==
    /\ prState[pr] = "OPEN" /\ pr \in TouchesSot
    /\ \E r \in ConsistencyReport, q \in CompletenessReport :
           artifacts' = [artifacts EXCEPT ![pr] =
               [consistency |-> ConsistencyAfter(pr, r),
                completeness |-> CompletenessAfter(pr, q)]]
    /\ UNCHANGED <<head, prState, channel, approvals, admins, rulesetOk, main>>

OpenFindings(pr) ==
    (IF artifacts[pr].consistency = None THEN {} ELSE artifacts[pr].consistency.open_blocking)
    \cup
    (IF artifacts[pr].completeness = None THEN {} ELSE artifacts[pr].completeness.open_blocking)

\* Comment ids grow with time; a redelivered entry repeats the id it has.
NextCommentId(pr) == Cardinality({channel[pr][i].comment_id : i \in DOMAIN channel[pr]}) + 1

Comment(pr, actor, key) ==
    /\ prState[pr] = "OPEN" /\ Len(channel[pr]) < MaxComments
    /\ key \in OpenFindings(pr)
    /\ channel' = [channel EXCEPT ![pr] =
           Append(@, [key |-> key, author |-> actor, comment_id |-> NextCommentId(pr),
                      edited |-> FALSE, deleted |-> FALSE])]
    /\ UNCHANGED <<head, prState, artifacts, approvals, admins, rulesetOk, main>>

\* Editing a comment may make it name another finding.
EditComment(pr, id, key) ==
    /\ prState[pr] = "OPEN"
    /\ \E i \in DOMAIN channel[pr] : channel[pr][i].comment_id = id /\ ~channel[pr][i].deleted
    /\ key \in OpenFindings(pr)
    /\ channel' = [channel EXCEPT ![pr] =
           [i \in DOMAIN @ |-> IF @[i].comment_id = id
                               THEN [@[i] EXCEPT !.key = key, !.edited = TRUE] ELSE @[i]]]
    /\ UNCHANGED <<head, prState, artifacts, approvals, admins, rulesetOk, main>>

DeleteComment(pr, id) ==
    /\ prState[pr] = "OPEN"
    /\ \E i \in DOMAIN channel[pr] : channel[pr][i].comment_id = id /\ ~channel[pr][i].deleted
    /\ channel' = [channel EXCEPT ![pr] =
           [i \in DOMAIN @ |-> IF @[i].comment_id = id
                               THEN [@[i] EXCEPT !.deleted = TRUE] ELSE @[i]]]
    /\ UNCHANGED <<head, prState, artifacts, approvals, admins, rulesetOk, main>>

\* The adapter hands one comment over twice.
Redeliver(pr, i) ==
    /\ prState[pr] = "OPEN" /\ Len(channel[pr]) < MaxComments
    /\ channel' = [channel EXCEPT ![pr] = Append(@, @[i])]
    /\ UNCHANGED <<head, prState, artifacts, approvals, admins, rulesetOk, main>>

\* An approval is bound to the content the approver saw, never recomputed.
Approve(pr, actor) ==
    LET a == [approver |-> actor, content |-> Content(pr), dismissed |-> FALSE]
    IN  /\ prState[pr] = "OPEN" /\ a \notin approvals[pr]
        /\ Cardinality(approvals[pr]) < MaxApprovals[pr]
        /\ approvals' = [approvals EXCEPT ![pr] = @ \cup {a}]
        /\ UNCHANGED <<head, prState, artifacts, channel, admins, rulesetOk, main>>

WithdrawApproval(pr, a) ==
    /\ prState[pr] = "OPEN" /\ ~a.dismissed
    /\ approvals' = [approvals EXCEPT ![pr] = (@ \ {a}) \cup {Dismissed(a)}]
    /\ UNCHANGED <<head, prState, artifacts, channel, admins, rulesetOk, main>>

ChangeRole(actor) ==
    /\ admins' = IF actor \in admins THEN admins \ {actor} ELSE admins \cup {actor}
    /\ UNCHANGED <<head, prState, artifacts, channel, approvals, rulesetOk, main>>

ChangeRuleset ==
    /\ rulesetOk' = ~rulesetOk
    /\ UNCHANGED <<head, prState, artifacts, channel, approvals, admins, main>>

HostNext ==
    \/ \E pr \in PR :
           \/ Push(pr) \/ ClosePr(pr) \/ PublishReviews(pr)
           \/ \E actor \in Speaker, key \in OpenFindings(pr) : Comment(pr, actor, key)
           \/ \E id \in 1..MaxComments, key \in OpenFindings(pr) : EditComment(pr, id, key)
           \/ \E id \in 1..MaxComments : DeleteComment(pr, id)
           \/ \E i \in DOMAIN channel[pr] : Redeliver(pr, i)
           \/ \E actor \in Speaker : Approve(pr, actor)
           \/ \E a \in approvals[pr] : WithdrawApproval(pr, a)
    \/ \E actor \in RoleChanges : ChangeRole(actor)
    \/ ChangeRuleset

----------------------------------------------------------------------------
\* One undisturbed read-set, in the shape MergeController._build_inputs builds.

ReadSet(pr) ==
    [meta |-> ReadPrMetadata(pr), landing_judgment |-> JudgmentKey(Content(pr)),
     landing_completeness |-> SweepKey(Content(pr)), allowlist |-> Allowlist,
     consistency_artifact |-> artifacts[pr].consistency,
     completeness_artifact |-> artifacts[pr].completeness,
     decisions |-> ReadChannelDecisions(pr), approvals |-> ReadApprovals(pr)]

\* What evaluate() shows for a PR at this moment.
Verdict(pr) == EvaluateGate(ReadSet(pr))

----------------------------------------------------------------------------
\* The merge API.  It pins the head it is given; with the declared ruleset
\* (RS-B) it also asks for a standing approval of someone but the author.

RulesetAllows(pr) ==
    rulesetOk => \E a \in approvals[pr] : ~a.dismissed /\ a.approver # Author[pr]

MergeAccepted(pr, pin) ==
    prState[pr] = "OPEN" /\ head[pr] = pin /\ RulesetAllows(pr)

\* The host's merge, with the two keys the controller passes along.
Land(pr, judgment, completeness) ==
    /\ main' = Append(main, [pr |-> pr, head |-> head[pr], landed |-> Content(pr),
                             judgment |-> judgment, completeness |-> completeness])
    /\ prState' = [prState EXCEPT ![pr] = "MERGED"]
    /\ UNCHANGED <<head, artifacts, channel, approvals, admins, rulesetOk>>

----------------------------------------------------------------------------

Contents    == [judged : SUBSET Change, swept : SUBSET Change]
ReviewKeys  == [kind : {"judgment", "sweep"}, content : SUBSET Change]
BindingKeys == [review_key : ReviewKeys, finding : Finding]

ConsistencyArtifacts ==
    [judgment : ReviewKeys, format_ok : BOOLEAN, review_clear : BOOLEAN,
     open_blocking : SUBSET BindingKeys]
CompletenessArtifacts ==
    [sweep_key : ReviewKeys, completeness_clear : BOOLEAN, open_blocking : SUBSET BindingKeys]

Comments  == [key : BindingKeys, author : Actor, comment_id : Nat,
              edited : BOOLEAN, deleted : BOOLEAN]
Approvals == [approver : Actor, content : Contents, dismissed : BOOLEAN]
Landings  == [pr : PR, head : Nat, landed : Contents,
              judgment : ReviewKeys, completeness : ReviewKeys]

\* The host's state has the shapes the ports' return types give it.
HostTypeOK ==
    /\ head \in [PR -> Nat]
    /\ \A pr \in PR : head[pr] <= MaxHead[pr]
    /\ prState \in [PR -> {"OPEN", "MERGED", "CLOSED"}]
    /\ artifacts \in [PR -> [consistency : ConsistencyArtifacts \cup {None},
                            completeness : CompletenessArtifacts \cup {None}]]
    /\ channel \in [PR -> Seq(Comments)]
    /\ approvals \in [PR -> SUBSET Approvals]
    /\ admins \subseteq Actor
    /\ rulesetOk \in BOOLEAN
    /\ main \in Seq(Landings)

=============================================================================
