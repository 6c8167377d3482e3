-------------------------- MODULE MergeController --------------------------
(***************************************************************************)
(* MergeController.merge_if_green (axdt/sot_gate/controller.py): callers   *)
(* take one lock, check the ruleset, read the five ports one after the     *)
(* other, bracket the read-set with a second look at the head, evaluate,   *)
(* merge with the head pinned and record the merge.  Every port call is a  *)
(* step of its own: the host changes between any two of them, and any of   *)
(* them may raise.                                                         *)
(***************************************************************************)
EXTENDS GateHost

CONSTANTS
    Caller,       \* threads that call merge_if_green
    NoCaller,     \* the lock is free
    MaxAttempts   \* _MAX_MERGE_ATTEMPTS

ASSUME ControllerAssumption ==
    /\ NoCaller \notin Caller
    /\ MaxAttempts \in Nat \ {0}

VARIABLES
    lock,     \* holder of self._lock
    pc,       \* [Caller -> the next port call, or where it waits]
    target,   \* [Caller -> PR of its call]
    attempt,  \* [Caller -> rounds of the loop begun]
    seen,     \* [Caller -> GateInputs read so far in this round]
    audit     \* _audit_log

controllerVars == <<lock, pc, target, attempt, seen, audit>>
vars == <<hostVars, controllerVars>>

NoInputs ==
    [meta |-> None, landing_judgment |-> None, landing_completeness |-> None,
     allowlist |-> Allowlist, consistency_artifact |-> None,
     completeness_artifact |-> None, decisions |-> <<>>, approvals |-> {}]

Init ==
    /\ HostInit
    /\ lock = NoCaller
    /\ pc = [c \in Caller |-> "idle"]
    /\ target = [c \in Caller |-> None]
    /\ attempt = [c \in Caller |-> 0]
    /\ seen = [c \in Caller |-> NoInputs]
    /\ audit = <<>>

----------------------------------------------------------------------------
\* Leaving the with block, by return or by an exception, frees the lock; what the
\* caller is told is state of the caller, not of the controller.
Leave(c) ==
    /\ lock' = NoCaller
    /\ pc' = [pc EXCEPT ![c] = "idle"]
    /\ target' = [target EXCEPT ![c] = None]
    /\ attempt' = [attempt EXCEPT ![c] = 0]
    /\ seen' = [seen EXCEPT ![c] = NoInputs]

\* continue: the next round, or fail closed when the rounds are used up.
Retry(c) ==
    \/ /\ attempt[c] < MaxAttempts
       /\ attempt' = [attempt EXCEPT ![c] = @ + 1]
       /\ pc' = [pc EXCEPT ![c] = "metadata"]
       /\ seen' = [seen EXCEPT ![c] = NoInputs]
       /\ UNCHANGED <<lock, target>>
    \/ /\ attempt[c] = MaxAttempts
       /\ Leave(c)

Goto(c, from, to) ==
    /\ pc[c] = from
    /\ pc' = [pc EXCEPT ![c] = to]

Call(c, pr) ==
    /\ Goto(c, "idle", "waiting")
    /\ target' = [target EXCEPT ![c] = pr]
    /\ UNCHANGED <<hostVars, lock, attempt, seen, audit>>

Acquire(c) ==
    /\ lock = NoCaller
    /\ Goto(c, "waiting", "verify")
    /\ lock' = c
    /\ UNCHANGED <<hostVars, target, attempt, seen, audit>>

VerifyRuleset(c) ==
    /\ \/ /\ rulesetOk
          /\ Goto(c, "verify", "metadata")
          /\ attempt' = [attempt EXCEPT ![c] = 1]
          /\ UNCHANGED <<lock, target, seen>>
       \/ /\ pc[c] = "verify" /\ ~rulesetOk
          /\ Leave(c)
    /\ UNCHANGED <<hostVars, audit>>

----------------------------------------------------------------------------
\* _build_inputs: five ports, in this order.

ReadsOn(c) == UNCHANGED <<hostVars, lock, target, attempt, audit>>

ReadMetadata(c) ==
    /\ Goto(c, "metadata", "keys")
    /\ seen' = [seen EXCEPT ![c].meta = ReadPrMetadata(target[c])]
    /\ ReadsOn(c)

ComputeLandingKeys(c) ==
    /\ Goto(c, "keys", "artifacts")
    /\ seen' = [seen EXCEPT ![c].landing_judgment = JudgmentKey(Content(target[c])),
                            ![c].landing_completeness = SweepKey(Content(target[c]))]
    /\ ReadsOn(c)

ReadCiArtifacts(c) ==
    /\ Goto(c, "artifacts", "decisions")
    /\ seen' = [seen EXCEPT ![c].consistency_artifact = artifacts[target[c]].consistency,
                            ![c].completeness_artifact = artifacts[target[c]].completeness]
    /\ ReadsOn(c)

ReadDecisions(c) ==
    /\ Goto(c, "decisions", "approvals")
    /\ seen' = [seen EXCEPT ![c].decisions = ReadChannelDecisions(target[c])]
    /\ ReadsOn(c)

ReadApprovalEvents(c) ==
    /\ Goto(c, "approvals", "bracket")
    /\ seen' = [seen EXCEPT ![c].approvals = ReadApprovals(target[c])]
    /\ ReadsOn(c)

----------------------------------------------------------------------------
\* The head is read again; a torn read-set is thrown away, a RED one returned.
Bracket(c) ==
    /\ pc[c] = "bracket"
    /\ LET torn == seen[c].meta.head_sha # head[target[c]]
           outcome == EvaluateGate(seen[c])
       IN  \/ torn /\ Retry(c)
           \/ ~torn /\ outcome.status # "GREEN" /\ Leave(c)
           \/ /\ ~torn /\ outcome.status = "GREEN"
              /\ Goto(c, "bracket", "merge")
              /\ UNCHANGED <<lock, target, attempt, seen>>
    /\ UNCHANGED <<hostVars, audit>>

\* Mutant: the read-set is dropped before the merge is recorded.
MergeLandsForgetting(c) ==
    /\ Goto(c, "merge", "audit")
    /\ MergeAccepted(target[c], seen[c].meta.head_sha)
    /\ Land(target[c], seen[c].landing_judgment, seen[c].landing_completeness)
    /\ seen' = [seen EXCEPT ![c] = NoInputs]
    /\ UNCHANGED <<lock, target, attempt, audit>>

\* Mutant: the head to pin is asked for again at the merge.
MergeLandsAtNewHead(c) ==
    /\ Goto(c, "merge", "audit")
    /\ MergeAccepted(target[c], head[target[c]])
    /\ Land(target[c], seen[c].landing_judgment, seen[c].landing_completeness)
    /\ UNCHANGED <<lock, target, attempt, seen, audit>>

\* Mutant: the lock does not cover the record.
MergeLandsUnlocking(c) ==
    /\ Goto(c, "merge", "audit")
    /\ MergeAccepted(target[c], seen[c].meta.head_sha)
    /\ Land(target[c], seen[c].landing_judgment, seen[c].landing_completeness)
    /\ lock' = NoCaller
    /\ UNCHANGED <<target, attempt, seen, audit>>

MergeLands(c) ==
    /\ Goto(c, "merge", "audit")
    /\ MergeAccepted(target[c], seen[c].meta.head_sha)
    /\ Land(target[c], seen[c].landing_judgment, seen[c].landing_completeness)
    /\ UNCHANGED <<lock, target, attempt, seen, audit>>

\* Mutant: every failed merge is taken for a moved head.
MergeFailed(c) ==
    /\ pc[c] = "merge"
    /\ Retry(c)
    /\ UNCHANGED <<hostVars, audit>>

\* HeadMovedError: the pinned head is not the head any more.
MergeHeadMoved(c) ==
    /\ pc[c] = "merge"
    /\ head[target[c]] # seen[c].meta.head_sha
    /\ Retry(c)
    /\ UNCHANGED <<hostVars, audit>>

\* The merge lands and the answer is lost: an exception, and no record.
MergeReplyLost(c) ==
    /\ pc[c] = "merge"
    /\ MergeAccepted(target[c], seen[c].meta.head_sha)
    /\ Land(target[c], seen[c].landing_judgment, seen[c].landing_completeness)
    /\ Leave(c)
    /\ UNCHANGED audit

\* Mutant: an exception leaves the lock taken.
PortRaisesLocked(c) ==
    /\ lock = c /\ pc[c] # "audit"
    /\ pc' = [pc EXCEPT ![c] = "idle"]
    /\ target' = [target EXCEPT ![c] = None]
    /\ attempt' = [attempt EXCEPT ![c] = 0]
    /\ seen' = [seen EXCEPT ![c] = NoInputs]
    /\ UNCHANGED <<hostVars, lock, audit>>

\* Any port call may raise without effect: the host refuses (closed PR, missing
\* approval) or does not answer.  Nothing here catches it.
PortRaises(c) ==
    /\ lock = c /\ pc[c] # "audit"
    /\ Leave(c)
    /\ UNCHANGED <<hostVars, audit>>

RecordAudit(c) ==
    /\ pc[c] = "audit"
    /\ audit' = Append(audit,
           [judgment |-> seen[c].landing_judgment,
            completeness |-> seen[c].landing_completeness,
            decisions |-> [i \in DOMAIN seen[c].decisions |->
                LET d == seen[c].decisions[i]
                IN  [key |-> d.key, author |-> d.author, comment_id |-> d.comment_id]],
            approvals |-> seen[c].approvals])
    /\ Leave(c)
    /\ UNCHANGED hostVars

----------------------------------------------------------------------------
\* What the controller does on its own once called: every step but Call.
Serve(c) ==
    \/ Acquire(c) \/ VerifyRuleset(c)
    \/ ReadMetadata(c) \/ ComputeLandingKeys(c) \/ ReadCiArtifacts(c)
    \/ ReadDecisions(c) \/ ReadApprovalEvents(c)
    \/ Bracket(c) \/ MergeLands(c) \/ MergeHeadMoved(c) \/ MergeReplyLost(c)
    \/ PortRaises(c) \/ RecordAudit(c)

Next ==
    \/ \E c \in Caller : Serve(c) \/ \E pr \in PR : Call(c, pr)
    \/ HostNext /\ UNCHANGED controllerVars

Spec == Init /\ [][Next]_vars

\* A call under way goes on: each port call returns or raises in the end.
FairSpec == Spec /\ \A c \in Caller : WF_vars(Serve(c))

----------------------------------------------------------------------------

Metadata ==
    [author : Actor, sot_ref : BOOLEAN, fork : BOOLEAN, head_sha : Nat,
     state : {"OPEN", "MERGED", "CLOSED"}, touches_sot : BOOLEAN,
     touches_enforcement_surface : BOOLEAN]
DecisionsRead ==
    [key : BindingKeys, author : Actor, comment_id : Nat, edited : BOOLEAN,
     deleted : BOOLEAN, author_role : {"admin", "write"}, author_is_human : BOOLEAN]
ApprovalsRead ==
    [approver : Actor, approved_judgment : ReviewKeys, approved_completeness : ReviewKeys,
     approver_role : {"admin", "write"}, approver_is_human : BOOLEAN, dismissed : BOOLEAN]
GateInputs ==
    [meta : Metadata \cup {None}, landing_judgment : ReviewKeys \cup {None},
     landing_completeness : ReviewKeys \cup {None}, allowlist : {Allowlist},
     consistency_artifact : ConsistencyArtifacts \cup {None},
     completeness_artifact : CompletenessArtifacts \cup {None},
     decisions : Seq(DecisionsRead), approvals : SUBSET ApprovalsRead]
AuditRecords ==
    [judgment : ReviewKeys, completeness : ReviewKeys,
     decisions : Seq([key : BindingKeys, author : Actor, comment_id : Nat]),
     approvals : SUBSET ApprovalsRead]

Reading  == {"metadata", "keys", "artifacts", "decisions", "approvals", "bracket", "merge"}
Stages   == {"idle", "waiting", "verify", "audit"} \cup Reading
Critical == {"verify", "audit"} \cup Reading   \* inside the with block

\* Every variable has its type; a read-set field is None until its port is read,
\* and never more than MaxAttempts rounds are begun.
TypeOK ==
    /\ HostTypeOK
    /\ lock \in Caller \cup {NoCaller}
    /\ pc \in [Caller -> Stages]
    /\ target \in [Caller -> PR \cup {None}]
    /\ attempt \in [Caller -> 0..MaxAttempts]
    /\ seen \in [Caller -> GateInputs]
    /\ audit \in Seq(AuditRecords)

\* The freshness invariant of the design: whatever lands on main, lands with the
\* two keys that were judged, although the head moves, other calls land and main
\* grows while the read-set is read (controller.py, read-set bracket, head pin,
\* lock around it all).
FreshVerdict ==
    \A i \in DOMAIN main :
        /\ main[i].judgment = JudgmentKey(main[i].landed)
        /\ main[i].completeness = SweepKey(main[i].landed)

\* Someone with the right to decide, as far as no role change can undo it.
Decider(pr) == (Allowlist \cap Human) \ {Author[pr]}

\* A SoT change lands only if a decider approved exactly the content that landed
\* (not an older push, not the same push on an older main); an enforcement change
\* only if a decider approved the PR.
ApprovedLanding ==
    \A i \in DOMAIN main :
        LET pr == main[i].pr
        IN  /\ pr \in TouchesSot =>
                   \E a \in approvals[pr] :
                       a.content = main[i].landed /\ a.approver \in Decider(pr)
            /\ pr \in TouchesSurface =>
                   \E a \in approvals[pr] : a.approver \in Decider(pr)

\* A SoT change lands only with both reviews done on exactly its content, its
\* format clean, and every open finding answered by a decider in the decisions
\* that the record of the merge shows.
AuditJustifies ==
    \A k \in DOMAIN audit :
        \E i \in DOMAIN main :
            LET pr == main[i].pr
            IN  /\ audit[k].judgment = main[i].judgment
                /\ audit[k].completeness = main[i].completeness
                /\ pr \in TouchesSot =>
                    /\ artifacts[pr].consistency.judgment = audit[k].judgment
                    /\ artifacts[pr].completeness.sweep_key = audit[k].completeness
                    /\ artifacts[pr].consistency.format_ok
                    /\ \A b \in OpenFindings(pr) : \E j \in DOMAIN audit[k].decisions :
                           /\ audit[k].decisions[j].key = b
                           /\ audit[k].decisions[j].author \in Decider(pr)

\* The view of the state that AuditedMain has.
History ==
    [i \in DOMAIN main |->
        [landed |-> main[i].landed,
         keys |-> [judgment |-> main[i].judgment, completeness |-> main[i].completeness]]]
Records ==
    [k \in DOMAIN audit |->
        [judgment |-> audit[k].judgment, completeness |-> audit[k].completeness]]
Owed == \E c \in Caller : pc[c] = "audit"

Abstract == INSTANCE AuditedMain WITH history <- History, records <- Records, owed <- Owed

\* The controller implements AuditedMain: landings under their own keys, one at a
\* time, each followed by its record before the next (global serialisation with
\* the record inside it); only an exception out of the merge call loses a record.
ImplementsAuditedMain == Abstract!Spec

\* A round is repeated only because the head moved: the k-th round of a call runs
\* on a branch that was pushed to at least k - 1 times, so rounds that ran out mean
\* MaxAttempts pushes, never a RED or a failed port taken for a moved head.
RetriesNeedPushes ==
    \A c \in Caller : attempt[c] > 0 => head[target[c]] >= attempt[c] - 1

\* A call that holds the lock gives it back, however often the head moves and
\* whichever port raises.
CallsEnd == \A c \in Caller : (lock = c) ~> (lock # c)

----------------------------------------------------------------------------
\* A statement of the design document that the code does not keep.

\* "The controller records every merge": with no call between its merge and its
\* record, there are as many records as landings.
EveryLandingRecorded ==
    (\A c \in Caller : pc[c] # "audit") => Len(audit) = Len(main)

=============================================================================
