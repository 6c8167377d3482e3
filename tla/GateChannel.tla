---------------------------- MODULE GateChannel ----------------------------
(***************************************************************************)
(* The gate as a function of a PR's channel: people push, comment, edit,   *)
(* delete, approve and withdraw, the review CI publishes, roles change,    *)
(* and the verdict MergeController.evaluate would show is compared, after  *)
(* every step, with what makes a PR complete.                              *)
(***************************************************************************)
EXTENDS GateHost

ChannelSpec == HostInit /\ [][HostNext]_hostVars

\* The right to decide, at this moment: admin, on the list, human, not the author.
MayDecide(actor, pr) ==
    actor \in admins \cap Allowlist \cap Human /\ actor # Author[pr]

\* The entries of the stream that count: by those who may decide, not deleted.
Counts(pr) == {i \in DOMAIN channel[pr] :
                  ~channel[pr][i].deleted /\ MayDecide(channel[pr][i].author, pr)}

\* A finding is settled when one comment about it is the newest that counts, was
\* handed over once like all the others, and stands as it was posted.
Settled(pr, finding) ==
    LET about == {i \in Counts(pr) : channel[pr][i].key = finding}
        ids   == {channel[pr][i].comment_id : i \in about}
    IN  /\ Cardinality(ids) = Cardinality(about)
        /\ \E i \in about : /\ \A id \in ids : id <= channel[pr][i].comment_id
                            /\ ~channel[pr][i].edited

Approved(pr) ==
    \E a \in approvals[pr] :
        ~a.dismissed /\ MayDecide(a.approver, pr)
        /\ (pr \in TouchesSot => a.content = Content(pr))

Reviewed(pr) ==
    LET r == artifacts[pr].consistency
        q == artifacts[pr].completeness
    IN  /\ r # None /\ q # None
        /\ r.judgment.content = Content(pr).judged /\ q.sweep_key.content = Content(pr).swept
        /\ r.format_ok
        /\ r.review_clear <=> r.open_blocking = {}
        /\ q.completeness_clear <=> q.open_blocking = {}
        /\ \A finding \in OpenFindings(pr) : Settled(pr, finding)

Complete(pr) ==
    /\ prState[pr] = "OPEN"
    /\ pr \in TouchesSot \cup TouchesSurface => pr \notin Fork /\ Approved(pr)
    /\ pr \in TouchesSot => pr \in SotRef /\ Reviewed(pr)

----------------------------------------------------------------------------

\* The gate is GREEN exactly for a complete PR: the early returns of gate.py, over
\* two artifacts, two keys and a stream with edits, deletions and redeliveries,
\* leave no complete PR out and let no other in.
GreenExactlyWhenComplete ==
    \A pr \in PR : (Verdict(pr).status = "GREEN") <=> Complete(pr)

\* Nobody without the right to decide moves a verdict by commenting, by editing or
\* by deleting, neither to open the gate nor to block it for good (_resolve_open_blocking
\* filters before it looks for duplicates and edits).
BystandersMoveNothing ==
    [][\A pr \in PR :
        /\ channel'[pr] # channel[pr]
        /\ {channel[pr][i] : i \in Counts(pr)} = {channel'[pr][i] : i \in Counts(pr)'}
        /\ Cardinality(Counts(pr)) = Cardinality(Counts(pr)')
        => Verdict(pr)' = Verdict(pr)]_hostVars

\* A GREEN SoT change stays GREEN over a push exactly when the push alters neither
\* what was judged nor what was swept, and the host withdrew no approval: reviews,
\* decisions and the approval are reused for the same keys whatever commit they were
\* given on (sot-readiness.md:39), and for another key, be it one of the two, they
\* count for nothing (sot-readiness.md:68).
GreenFollowsContent ==
    [][\A pr \in TouchesSot :
        head'[pr] # head[pr] /\ Verdict(pr).status = "GREEN" =>
            ((Verdict(pr)'.status = "GREEN") <=>
                /\ JudgedPart[pr][head'[pr]] = JudgedPart[pr][head[pr]]
                /\ SweptPart[pr][head'[pr]] = SweptPart[pr][head[pr]]
                /\ approvals'[pr] = approvals[pr])]_hostVars

=============================================================================
