------------------------------ MODULE SotGate ------------------------------
(***************************************************************************)
(* The pure core of the SoT completion gate: evaluate_gate and its private *)
(* helpers (axdt/sot_gate/gate.py), a function from one read-set           *)
(* (GateInputs) to GREEN or RED with the reason of the first check that    *)
(* fails.                                                                  *)
(*                                                                         *)
(* Data: a decision stream is a sequence, because the same comment handed  *)
(* over twice is an input the gate must refuse; approvals and open         *)
(* blocking findings are sets, the code only asks whether one exists.      *)
(* "edited" stands for updated_at # created_at, "finding" for the pair     *)
(* (F-n, content digest), "sot_ref" for a head_ref that fully matches      *)
(* SOT_BRANCH_RE.  The value of a decision (accepted or rejected) is left  *)
(* out: the gate never reads it.                                           *)
(***************************************************************************)
EXTENDS Naturals, Sequences

CONSTANT None     \* Python's None: no artifact (models.py), nothing read yet

\* The two keys of a content.  Each is over its own components: equal components
\* make equal keys, whatever commit they come from (keys.py).
JudgmentKey(c) == [kind |-> "judgment", content |-> c.judged]

\* Mutant: the sweep key is made of the components of the other key.
SweepKeyOfJudged(c) == [kind |-> "sweep", content |-> c.judged]
SweepKey(c)         == [kind |-> "sweep", content |-> c.swept]

\* FullBindingKey: a finding is bound to the key of the review that raised it.
BindingKey(reviewKey, finding) == [review_key |-> reviewKey, finding |-> finding]

Green       == [status |-> "GREEN", reason |-> ""]
Red(reason) == [status |-> "RED", reason |-> reason]

Authorized(role, actor, isHuman, allowlist) ==
    role = "admin" /\ actor \in allowlist /\ isHuman

----------------------------------------------------------------------------
\* (3) approval

\* Mutant: the keys of the approval are not compared.
ValidSotApprovalOfAnyContent(inputs, a) ==
    /\ ~a.dismissed
    /\ a.approver # inputs.meta.author
    /\ Authorized(a.approver_role, a.approver, a.approver_is_human, inputs.allowlist)

ValidSotApproval(inputs, a) ==
    /\ ~a.dismissed
    /\ a.approved_judgment = inputs.landing_judgment
    /\ a.approved_completeness = inputs.landing_completeness
    /\ a.approver # inputs.meta.author
    /\ Authorized(a.approver_role, a.approver, a.approver_is_human, inputs.allowlist)

ValidSotApprovalExists(inputs) ==
    \E a \in inputs.approvals : ValidSotApproval(inputs, a)

----------------------------------------------------------------------------
\* (2) review: every open blocking finding is closed by a valid decision

\* Mutant: authors may decide on their own PR.
ValidDecisionOfAnyone(inputs, blocking, d) ==
    /\ d.key = blocking
    /\ ~d.deleted
    /\ Authorized(d.author_role, d.author, d.author_is_human, inputs.allowlist)

\* Mutant: a decision is matched by its finding alone, whatever review raised it.
ValidDecisionByFinding(inputs, blocking, d) ==
    /\ d.key.finding = blocking.finding
    /\ ~d.deleted
    /\ d.author # inputs.meta.author
    /\ Authorized(d.author_role, d.author, d.author_is_human, inputs.allowlist)

ValidDecision(inputs, blocking, d) ==
    /\ d.key = blocking
    /\ ~d.deleted
    /\ d.author # inputs.meta.author
    /\ Authorized(d.author_role, d.author, d.author_is_human, inputs.allowlist)

\* The positions of the stream that hold a valid decision on this finding.
ValidDecisions(inputs, blocking) ==
    {i \in DOMAIN inputs.decisions : ValidDecision(inputs, blocking, inputs.decisions[i])}

Unresolved(inputs, blocking) == ValidDecisions(inputs, blocking) = {}

Conflicting(inputs, blocking) ==
    \E i, j \in ValidDecisions(inputs, blocking) :
        i # j /\ inputs.decisions[i].comment_id = inputs.decisions[j].comment_id

\* Mutant: the winner is chosen before the entries are filtered.
TamperedBeforeFilter(inputs, blocking) ==
    LET candidates == {i \in DOMAIN inputs.decisions : inputs.decisions[i].key = blocking}
    IN  \E i \in candidates :
            /\ \A j \in candidates :
                   inputs.decisions[j].comment_id <= inputs.decisions[i].comment_id
            /\ inputs.decisions[i].edited

\* The winner (greatest comment_id) was edited after it was posted.
Tampered(inputs, blocking) ==
    \E i \in ValidDecisions(inputs, blocking) :
        /\ \A j \in ValidDecisions(inputs, blocking) :
               inputs.decisions[j].comment_id <= inputs.decisions[i].comment_id
        /\ inputs.decisions[i].edited

\* Checks 8, 11 and 9, each over all findings of the artifact before the next.
ResolveOpenBlocking(inputs, artifact) ==
    IF \E b \in artifact.open_blocking : Unresolved(inputs, b)
    THEN Red("unresolved blocking finding")
    ELSE IF \E b \in artifact.open_blocking : Conflicting(inputs, b)
    THEN Red("conflicting decisions at same comment_id")
    ELSE IF \E b \in artifact.open_blocking : Tampered(inputs, b)
    THEN Red("tampered decision")
    ELSE Green

----------------------------------------------------------------------------
\* The invariant of an artifact: the review is clear exactly when nothing is open.
Malformed(clear, artifact) == clear # (artifact.open_blocking = {})

\* Checks 2 to 11 in the code's order.
EvaluateSot(inputs) ==
    LET meta         == inputs.meta
        consistency  == inputs.consistency_artifact
        completeness == inputs.completeness_artifact
    IN  IF ~meta.sot_ref THEN Red("invalid head_ref")
        ELSE IF meta.fork THEN Red("fork")
        ELSE IF consistency = None THEN Red("no consistency artifact")
        ELSE IF completeness = None THEN Red("no completeness artifact")
        ELSE IF Malformed(consistency.review_clear, consistency)
             THEN Red("consistency artifact invariant violated")
        ELSE IF Malformed(completeness.completeness_clear, completeness)
             THEN Red("completeness artifact invariant violated")
        ELSE IF ~consistency.format_ok THEN Red("format not ok")
        ELSE IF consistency.judgment # inputs.landing_judgment
             THEN Red("consistency judgment key mismatch")
        ELSE IF completeness.sweep_key # inputs.landing_completeness
             THEN Red("completeness sweep key mismatch")
        ELSE IF ResolveOpenBlocking(inputs, consistency) # Green
             THEN ResolveOpenBlocking(inputs, consistency)
        ELSE IF ResolveOpenBlocking(inputs, completeness) # Green
             THEN ResolveOpenBlocking(inputs, completeness)
        ELSE IF ~ValidSotApprovalExists(inputs) THEN Red("no valid approval")
        ELSE Green

\* A PR that changes the enforcement machinery itself: no review, no key, but
\* not from a fork and approved by someone with the right to decide.
AuthorizedApproval(inputs, a) ==
    /\ ~a.dismissed
    /\ a.approver # inputs.meta.author
    /\ Authorized(a.approver_role, a.approver, a.approver_is_human, inputs.allowlist)

EvaluateEnforcementSurface(inputs) ==
    IF inputs.meta.fork THEN Red("fork")
    ELSE IF \E a \in inputs.approvals : AuthorizedApproval(inputs, a) THEN Green
    ELSE Red("no authorized approval")

EvaluateGate(inputs) ==
    IF inputs.meta.state # "OPEN" THEN Red("pr not open")
    ELSE IF inputs.meta.touches_sot THEN EvaluateSot(inputs)
    ELSE IF inputs.meta.touches_enforcement_surface THEN EvaluateEnforcementSurface(inputs)
    ELSE Green

=============================================================================
