----------------------- MODULE MergeControllerProofs -----------------------
(***************************************************************************)
(* MergeController for any number of PRs, callers, pushes and rounds: its  *)
(* variables keep their types, what lands is what was judged, and a round  *)
(* is repeated only because the head moved.                                *)
(*                                                                         *)
(* The argument: only the holder of the lock is past the lock, so main     *)
(* stands still from its first read to its merge; its keys are those of a  *)
(* commit between the head it read first and the head of now (heads only   *)
(* grow); the merge is accepted only when these two are one.               *)
(*                                                                         *)
(* On that invariant rest, each in a section of its own: the refinement of *)
(* AuditedMain, ApprovedLanding, and AuditJustifies.                       *)
(***************************************************************************)
EXTENDS MergeController, GateChannelProofs

AfterMeta == {"keys", "artifacts", "decisions", "approvals", "bracket", "merge", "audit"}
AfterKeys == {"artifacts", "decisions", "approvals", "bracket", "merge"}

\* The read-set of c begins with a head that its branch has reached, and that is
\* no older than the rounds c has begun.
MetadataRead(c) ==
    /\ seen[c].meta \in Metadata
    /\ attempt[c] - 1 <= seen[c].meta.head_sha
    /\ seen[c].meta.head_sha <= head[target[c]]

\* The keys of c are those of a commit between that head and the head of now, on
\* the main of now.
KeysRead(c) ==
    \E h \in Nat :
        /\ seen[c].meta.head_sha <= h /\ h <= head[target[c]]
        /\ seen[c].landing_judgment = JudgmentKey(ContentAt(target[c], h))
        /\ seen[c].landing_completeness = SweepKey(ContentAt(target[c], h))

\* c has just landed its PR: its keys are those of the last landing.
LandedLast(c) ==
    /\ Len(main) > 0
    /\ main[Len(main)].judgment = seen[c].landing_judgment
    /\ main[Len(main)].completeness = seen[c].landing_completeness

\* What c holds and knows at each stage of its call.
Stage(c) ==
    /\ pc[c] \in Critical <=> lock = c
    /\ pc[c] # "idle" => target[c] \in PR
    /\ attempt[c] > 0 => /\ pc[c] \in Reading \cup {"audit"}
                         /\ head[target[c]] >= attempt[c] - 1
    /\ pc[c] \in AfterMeta => MetadataRead(c)
    /\ pc[c] \in AfterKeys => KeysRead(c)
    /\ pc[c] = "audit" => LandedLast(c)

\* The inductive invariant.
IInv ==
    /\ TypeOK
    /\ FreshVerdict
    /\ \A c \in Caller : Stage(c)

----------------------------------------------------------------------------
\* What the ports return has the types of models.py.

LEMMA ReadTypes ==
    ASSUME HostAssumption, HostTypeOK, NEW pr \in PR
    PROVE  /\ ReadPrMetadata(pr) \in Metadata
           /\ ReadPrMetadata(pr).head_sha = head[pr]
           /\ ReadChannelDecisions(pr) \in Seq(DecisionsRead)
           /\ ReadApprovals(pr) \in SUBSET ApprovalsRead
<1>1. ReadPrMetadata(pr) \in Metadata /\ ReadPrMetadata(pr).head_sha = head[pr]
    BY DEF ReadPrMetadata, Metadata, HostAssumption, HostTypeOK
<1>2. ReadChannelDecisions(pr) \in Seq(DecisionsRead)
    <2> DEFINE s == channel[pr]
               t == ReadChannelDecisions(pr)
    <2>1. s \in Seq(Comments)
        BY DEF HostTypeOK
    <2>2. \A i \in DOMAIN s : s[i] \in Comments
        BY <2>1
    <2>3. \A i \in DOMAIN s : t[i] \in DecisionsRead
        BY <2>2 DEF ReadChannelDecisions, Comments, DecisionsRead, RoleOf
    <2>4. t = [i \in DOMAIN s |-> t[i]]
        BY DEF ReadChannelDecisions
    <2> HIDE DEF s, t
    <2>5. t \in Seq(DecisionsRead)
        BY <2>1, <2>3, <2>4, IsASeq
    <2> QED
        BY <2>5 DEF t
<1>3. ReadApprovals(pr) \in SUBSET ApprovalsRead
    <2>1. ASSUME NEW a \in approvals[pr]
          PROVE  [approver |-> a.approver,
                  approved_judgment |-> JudgmentKey(a.content),
                  approved_completeness |-> SweepKey(a.content),
                  approver_role |-> RoleOf(a.approver),
                  approver_is_human |-> a.approver \in Human,
                  dismissed |-> a.dismissed] \in ApprovalsRead
        <3>1. a \in Approvals
            BY DEF HostTypeOK
        <3>2. JudgmentKey(a.content) \in ReviewKeys /\ SweepKey(a.content) \in ReviewKeys
            BY <3>1 DEF Approvals, Contents, JudgmentKey, SweepKey, ReviewKeys
        <3>3. RoleOf(a.approver) \in {"admin", "write"}
            BY DEF RoleOf
        <3> QED
            BY <3>1, <3>2, <3>3 DEF Approvals, ApprovalsRead
    <2> QED
        BY <2>1 DEF ReadApprovals
<1> QED
    BY <1>1, <1>2, <1>3

\* Before the first read there is nothing to know.
LEMMA NoInputsType == NoInputs \in GateInputs
BY DEF NoInputs, GateInputs

\* Reading one port fills its fields and keeps the shape of the read-set.
LEMMA SeenTypes ==
    ASSUME NEW s \in GateInputs
    PROVE  /\ \A m \in Metadata : [s EXCEPT !.meta = m] \in GateInputs
           /\ \A j, k \in ReviewKeys :
                [s EXCEPT !.landing_judgment = j, !.landing_completeness = k] \in GateInputs
           /\ \A x \in ConsistencyArtifacts \cup {None},
                 y \in CompletenessArtifacts \cup {None} :
                [s EXCEPT !.consistency_artifact = x, !.completeness_artifact = y]
                    \in GateInputs
           /\ \A d \in Seq(DecisionsRead) : [s EXCEPT !.decisions = d] \in GateInputs
           /\ \A a \in SUBSET ApprovalsRead : [s EXCEPT !.approvals = a] \in GateInputs
BY DEF GateInputs

\* A record of what was read is a well-formed audit record.
LEMMA AuditType ==
    ASSUME NEW s \in GateInputs,
           s.landing_judgment \in ReviewKeys, s.landing_completeness \in ReviewKeys
    PROVE  [judgment |-> s.landing_judgment, completeness |-> s.landing_completeness,
            decisions |-> [i \in DOMAIN s.decisions |->
                LET d == s.decisions[i]
                IN  [key |-> d.key, author |-> d.author, comment_id |-> d.comment_id]],
            approvals |-> s.approvals] \in AuditRecords
<1> DEFINE T == [key : BindingKeys, author : Actor, comment_id : Nat]
           ds == s.decisions
           t == [i \in DOMAIN ds |->
                   [key |-> ds[i].key, author |-> ds[i].author, comment_id |-> ds[i].comment_id]]
<1>1. ds \in Seq(DecisionsRead) /\ s.approvals \in SUBSET ApprovalsRead
    BY DEF GateInputs
<1>2. \A i \in DOMAIN ds : ds[i] \in DecisionsRead
    BY <1>1
<1>3. \A i \in DOMAIN ds : t[i] \in T
    BY <1>2 DEF DecisionsRead
<1>4. t = [i \in DOMAIN ds |-> t[i]]
    OBVIOUS
<1>5. t \in Seq(T)
    <2> HIDE DEF T, ds, t
    <2> QED
        BY <1>1, <1>3, <1>4, IsASeq
<1> HIDE DEF t
<1>6. [judgment |-> s.landing_judgment, completeness |-> s.landing_completeness,
       decisions |-> t, approvals |-> s.approvals] \in AuditRecords
    BY <1>1, <1>5 DEF AuditRecords
<1> QED
    BY <1>6 DEF t

----------------------------------------------------------------------------
\* Whoever does not hold the lock is before it, whatever the holder does.
LEMMA Bystander ==
    ASSUME NEW c \in Caller, NEW d \in Caller \ {c}, TypeOK, Stage(d), lock = c,
           lock' \in {c, NoCaller}, ControllerAssumption,
           pc'[d] = pc[d], target'[d] = target[d], attempt'[d] = attempt[d]
    PROVE  Stage(d)'
<1>1. pc[d] \notin Critical /\ lock' # d
    BY DEF Stage, ControllerAssumption
<1>2. ~(attempt[d] > 0)
    BY <1>1 DEF Stage, Critical
<1> QED
    BY <1>1, <1>2 DEF Stage, Critical, AfterMeta, AfterKeys, Reading

\* A call that leaves knows nothing any more and holds nothing.
LEMMA Leaving ==
    ASSUME NEW c \in Caller, ControllerAssumption, TypeOK, Leave(c), lock = c,
           \A d \in Caller : Stage(d)
    PROVE  /\ \A d \in Caller : Stage(d)'
           /\ lock' \in Caller \cup {NoCaller}
           /\ pc' \in [Caller -> Stages]
           /\ target' \in [Caller -> PR \cup {None}]
           /\ attempt' \in [Caller -> 0..MaxAttempts]
           /\ seen' \in [Caller -> GateInputs]
<1>1. Stage(c)'
    BY DEF Leave, Stage, TypeOK, ControllerAssumption, Critical, Reading, AfterMeta, AfterKeys
<1>2. ASSUME NEW d \in Caller \ {c} PROVE Stage(d)'
    BY <1>2, Bystander DEF Leave, TypeOK
<1>3. seen' \in [Caller -> GateInputs]
    BY NoInputsType DEF Leave, TypeOK
<1> QED
    BY <1>1, <1>2, <1>3 DEF Leave, TypeOK, Stages, ControllerAssumption

\* A further round begins only after the head passed the one of this round.
LEMMA Retrying ==
    ASSUME NEW c \in Caller, ControllerAssumption, TypeOK, Retry(c),
           pc[c] \in {"bracket", "merge"}, head[target[c]] # seen[c].meta.head_sha,
           UNCHANGED <<hostVars, audit>>, \A d \in Caller : Stage(d)
    PROVE  TypeOK' /\ \A d \in Caller : Stage(d)'
<1>1. lock = c /\ target[c] \in PR /\ MetadataRead(c)
    BY DEF Stage, Critical, Reading, AfterMeta
<1>2. CASE Leave(c)
    <2>1. HostTypeOK' /\ audit' \in Seq(AuditRecords)
        BY DEF TypeOK, HostTypeOK, hostVars
    <2> QED
        BY <1>1, <1>2, <2>1, Leaving DEF TypeOK
<1>3. CASE /\ attempt[c] < MaxAttempts
           /\ attempt' = [attempt EXCEPT ![c] = @ + 1]
           /\ pc' = [pc EXCEPT ![c] = "metadata"]
           /\ seen' = [seen EXCEPT ![c] = NoInputs]
           /\ UNCHANGED <<lock, target>>
    <2>1. HostTypeOK' /\ audit' \in Seq(AuditRecords)
        BY DEF TypeOK, HostTypeOK, hostVars
    <2>2. seen' \in [Caller -> GateInputs]
        BY <1>3, NoInputsType DEF TypeOK
    <2>3. attempt' \in [Caller -> 0..MaxAttempts]
        BY <1>3 DEF TypeOK, ControllerAssumption
    <2>4. TypeOK'
        BY <1>3, <2>1, <2>2, <2>3 DEF TypeOK, Stages, Reading
    <2>5. head[target[c]] >= attempt[c]
        <3>1. head[target[c]] \in Nat /\ attempt[c] \in Nat /\ seen[c].meta.head_sha \in Nat
            BY <1>1 DEF TypeOK, HostTypeOK, MetadataRead, Metadata, ControllerAssumption
        <3> QED
            BY <1>1, <3>1 DEF MetadataRead
    <2>6. Stage(c)'
        <3>1. /\ pc'[c] = "metadata" /\ lock' = c /\ target'[c] = target[c]
              /\ attempt'[c] = attempt[c] + 1 /\ head' = head /\ attempt[c] \in Nat
            BY <1>1, <1>3 DEF TypeOK, hostVars, ControllerAssumption
        <3> QED
            BY <1>1, <2>5, <3>1 DEF Stage, Critical, Reading, AfterMeta, AfterKeys
    <2>7. ASSUME NEW d \in Caller \ {c} PROVE Stage(d)'
        BY <1>1, <1>3, Bystander DEF TypeOK
    <2> QED
        BY <2>4, <2>6, <2>7
<1> QED
    BY <1>2, <1>3 DEF Retry

----------------------------------------------------------------------------
\* While the host stands still, so do the content to land and its keys.
LEMMA SameContent ==
    ASSUME main' = main, NEW pr, NEW h
    PROVE  ContentAt(pr, h)' = ContentAt(pr, h)
BY DEF ContentAt, LandedContent, Sensitive

\* A read of the holder: the shapes hold, the others are where they were.
LEMMA ReadStep ==
    ASSUME NEW c \in Caller, ControllerAssumption, TypeOK, \A d \in Caller : Stage(d),
           NEW from \in Reading \cup {"verify"}, NEW to \in Reading,
           Goto(c, from, to), lock' = lock, target' = target, audit' = audit, UNCHANGED hostVars,
           attempt' \in [Caller -> 0..MaxAttempts], seen' \in [Caller -> GateInputs],
           \A d \in Caller \ {c} : attempt'[d] = attempt[d]
    PROVE  /\ TypeOK'
           /\ lock = c /\ lock' = c /\ pc'[c] = to /\ target[c] \in PR
           /\ \A d \in Caller \ {c} : Stage(d)'
<1>1. lock = c /\ target[c] \in PR
    BY DEF Stage, Goto, Critical, Reading
<1>2. HostTypeOK'
    BY DEF TypeOK, HostTypeOK, hostVars
<1>3. pc' \in [Caller -> Stages] /\ pc'[c] = to
    BY DEF Goto, TypeOK, Stages
<1>4. TypeOK'
    BY <1>2, <1>3 DEF TypeOK
<1>5. ASSUME NEW d \in Caller \ {c} PROVE Stage(d)'
    BY <1>1, Bystander DEF Goto, TypeOK
<1> QED
    BY <1>1, <1>3, <1>4, <1>5

\* What c read first is read no more, and stays behind the head.
LEMMA MetadataKept ==
    ASSUME NEW c \in Caller, MetadataRead(c), target'[c] = target[c],
           attempt'[c] = attempt[c], head' = head, seen'[c].meta = seen[c].meta
    PROVE  MetadataRead(c)'
BY DEF MetadataRead

\* Nor do its keys change, while the host stands still.
LEMMA KeysKept ==
    ASSUME NEW c \in Caller, KeysRead(c), target'[c] = target[c], UNCHANGED hostVars,
           seen'[c].meta = seen[c].meta,
           seen'[c].landing_judgment = seen[c].landing_judgment,
           seen'[c].landing_completeness = seen[c].landing_completeness
    PROVE  KeysRead(c)'
<1>1. main' = main /\ head' = head
    BY DEF hostVars
<1> QED
    BY <1>1, SameContent DEF KeysRead

----------------------------------------------------------------------------
\* The steps of the controller, one by one.

\* A call names its PR and waits.
LEMMA CallStep ==
    ASSUME NEW c \in Caller, NEW pr \in PR, HostAssumption, ControllerAssumption, IInv, Call(c, pr)
    PROVE  IInv'
<1>1. HostTypeOK' /\ FreshVerdict'
    BY DEF Call, IInv, TypeOK, HostTypeOK, FreshVerdict, hostVars
<1>2. TypeOK'
    BY <1>1 DEF Call, Goto, IInv, TypeOK, Stages
<1>3. Stage(c)'
    <2>1. ~(attempt[c] > 0) /\ pc'[c] = "waiting" /\ target'[c] = pr /\ lock # c
        BY DEF Call, Goto, IInv, Stage, TypeOK, Reading, Critical
    <2> QED
        BY <2>1 DEF Call, Stage, Critical, Reading, AfterMeta, AfterKeys
<1>4. ASSUME NEW d \in Caller \ {c} PROVE Stage(d)'
    <2>1. Stage(d) /\ pc'[d] = pc[d] /\ target'[d] = target[d]
        BY DEF Call, Goto, IInv, TypeOK
    <2>2. UNCHANGED <<lock, attempt, seen, head, main>>
        BY DEF Call, hostVars
    <2> QED
        BY <2>1, <2>2, SameContent DEF Stage, MetadataRead, KeysRead, LandedLast
<1> QED
    BY <1>1, <1>2, <1>3, <1>4 DEF IInv

\* The lock is free, so nobody has begun to read.
LEMMA AcquireStep ==
    ASSUME NEW c \in Caller, HostAssumption, ControllerAssumption, IInv, Acquire(c)
    PROVE  IInv'
<1>1. HostTypeOK' /\ FreshVerdict'
    BY DEF Acquire, IInv, TypeOK, HostTypeOK, FreshVerdict, hostVars
<1>2. TypeOK'
    BY <1>1 DEF Acquire, Goto, IInv, TypeOK, Stages
<1>3. Stage(c)'
    <2>1. /\ ~(attempt[c] > 0) /\ target[c] \in PR
          /\ pc'[c] = "verify" /\ lock' = c
        BY DEF Acquire, Goto, IInv, Stage, TypeOK, Reading
    <2> QED
        BY <2>1 DEF Acquire, Stage, Critical, Reading, AfterMeta, AfterKeys
<1>4. ASSUME NEW d \in Caller \ {c} PROVE Stage(d)'
    <2>1. pc[d] \notin Critical /\ ~(attempt[d] > 0) /\ (pc[d] # "idle" => target[d] \in PR)
        BY DEF Acquire, IInv, Stage, Critical, ControllerAssumption
    <2>2. pc'[d] = pc[d] /\ lock' # d /\ target'[d] = target[d] /\ attempt'[d] = attempt[d]
        BY DEF Acquire, Goto, IInv, TypeOK
    <2> QED
        BY <2>1, <2>2 DEF Stage, Critical, Reading, AfterMeta, AfterKeys
<1> QED
    BY <1>1, <1>2, <1>3, <1>4 DEF IInv

\* verify_ruleset_config: leave, or begin the first round.
LEMMA VerifyStep ==
    ASSUME NEW c \in Caller, HostAssumption, ControllerAssumption, IInv, VerifyRuleset(c)
    PROVE  IInv'
<1>1. HostTypeOK' /\ FreshVerdict' /\ UNCHANGED <<hostVars, audit>>
    BY DEF VerifyRuleset, IInv, TypeOK, HostTypeOK, FreshVerdict, hostVars
<1>2. CASE Leave(c)
    <2>1. lock = c
        BY DEF VerifyRuleset, Goto, IInv, Stage, Critical
    <2> QED
        BY <1>1, <1>2, <2>1, Leaving DEF IInv, TypeOK
<1>3. CASE /\ Goto(c, "verify", "metadata")
           /\ attempt' = [attempt EXCEPT ![c] = 1]
           /\ UNCHANGED <<lock, target, seen>>
    <2>1. attempt' \in [Caller -> 0..MaxAttempts] /\ seen' \in [Caller -> GateInputs]
        BY <1>3 DEF IInv, TypeOK, ControllerAssumption
    <2>2. /\ TypeOK' /\ lock' = c /\ pc'[c] = "metadata" /\ target[c] \in PR
          /\ \A d \in Caller \ {c} : Stage(d)'
        BY <1>1, <1>3, <2>1, ReadStep DEF IInv, Reading
    <2>3. Stage(c)'
        <3>1. attempt'[c] = 1 /\ head' = head /\ target' = target /\ head[target[c]] \in Nat
            BY <1>1, <1>3, <2>2 DEF hostVars, IInv, TypeOK, HostTypeOK
        <3> QED
            BY <2>2, <3>1 DEF Stage, Critical, Reading, AfterMeta, AfterKeys
    <2> QED
        BY <1>1, <2>2, <2>3 DEF IInv
<1> QED
    BY <1>2, <1>3 DEF VerifyRuleset

\* The first read fixes the head that the round is about.
LEMMA MetadataStep ==
    ASSUME NEW c \in Caller, HostAssumption, ControllerAssumption, IInv, ReadMetadata(c)
    PROVE  IInv'
<1>1. FreshVerdict' /\ UNCHANGED <<hostVars, lock, target, attempt, audit>>
    BY DEF ReadMetadata, ReadsOn, IInv, FreshVerdict, hostVars
<1>2. target[c] \in PR /\ head[target[c]] >= attempt[c] - 1
    <2>1. pc[c] = "metadata" /\ Stage(c)
        BY DEF ReadMetadata, Goto, IInv
    <2>2. target[c] \in PR
        BY <2>1 DEF Stage
    <2>3. head[target[c]] \in Nat /\ attempt[c] \in Nat
        BY <2>2 DEF IInv, TypeOK, HostTypeOK, ControllerAssumption
    <2> QED
        BY <2>1, <2>2, <2>3 DEF Stage
<1>3. /\ ReadPrMetadata(target[c]) \in Metadata
      /\ ReadPrMetadata(target[c]).head_sha = head[target[c]]
    BY <1>2, ReadTypes DEF IInv, TypeOK
<1>4. seen' = [seen EXCEPT ![c] = [@ EXCEPT !.meta = ReadPrMetadata(target[c])]]
    BY DEF ReadMetadata
<1>5. seen[c] \in GateInputs
    BY DEF IInv, TypeOK
<1>6. seen' \in [Caller -> GateInputs]
    BY <1>3, <1>4, <1>5, SeenTypes DEF IInv, TypeOK
<1>7. seen'[c].meta = ReadPrMetadata(target[c])
    BY <1>4, <1>5 DEF IInv, TypeOK, GateInputs
<1>8. /\ TypeOK' /\ lock' = c /\ pc'[c] = "keys"
      /\ \A d \in Caller \ {c} : Stage(d)'
    BY <1>1, <1>6, ReadStep DEF ReadMetadata, IInv, TypeOK, Reading
<1>9. MetadataRead(c)'
    <2>1. head[target[c]] \in Nat
        BY <1>2 DEF IInv, TypeOK, HostTypeOK
    <2> QED
        BY <1>1, <1>2, <1>3, <1>7, <2>1 DEF MetadataRead, hostVars
<1>10. Stage(c)'
    BY <1>1, <1>2, <1>8, <1>9 DEF Stage, Critical, Reading, AfterMeta, AfterKeys, hostVars
<1> QED
    BY <1>1, <1>8, <1>10 DEF IInv

\* The keys are those of the head of now, at or past the head read first.
LEMMA KeysStep ==
    ASSUME NEW c \in Caller, HostAssumption, ControllerAssumption, IInv, ComputeLandingKeys(c)
    PROVE  IInv'
<1> DEFINE J == JudgmentKey(Content(target[c]))
           K == SweepKey(Content(target[c]))
<1>1. FreshVerdict' /\ UNCHANGED <<hostVars, lock, target, attempt, audit>>
    BY DEF ComputeLandingKeys, ReadsOn, IInv, FreshVerdict, hostVars
<1>2. target[c] \in PR /\ MetadataRead(c) /\ Stage(c) /\ pc[c] = "keys"
    BY DEF ComputeLandingKeys, Goto, IInv, Stage, AfterMeta
<1>3. head[target[c]] \in Nat
    BY <1>2 DEF IInv, TypeOK, HostTypeOK
<1>4. J \in ReviewKeys /\ K \in ReviewKeys
    BY <1>2, ContentType, HeadType DEF Content, IInv, TypeOK
<1>5. seen[c] \in GateInputs
    BY DEF IInv, TypeOK
<1>6. seen' = [seen EXCEPT ![c] =
                  [@ EXCEPT !.landing_judgment = J, !.landing_completeness = K]]
    BY <1>5 DEF ComputeLandingKeys, IInv, TypeOK
<1> HIDE DEF J, K
<1>7. seen' \in [Caller -> GateInputs]
    BY <1>4, <1>5, <1>6, SeenTypes DEF IInv, TypeOK
<1>8. /\ seen'[c].meta = seen[c].meta
      /\ seen'[c].landing_judgment = J /\ seen'[c].landing_completeness = K
    BY <1>5, <1>6 DEF IInv, TypeOK, GateInputs
<1>9. /\ TypeOK' /\ lock' = c /\ pc'[c] = "artifacts"
      /\ \A d \in Caller \ {c} : Stage(d)'
    BY <1>1, <1>7, ReadStep DEF ComputeLandingKeys, IInv, TypeOK, Reading
<1>10. MetadataRead(c)'
    BY <1>1, <1>2, <1>8, MetadataKept DEF hostVars
<1>11. KeysRead(c)'
    <2>1. ContentAt(target[c], head[target[c]])' = Content(target[c])
        BY <1>1, SameContent DEF hostVars, Content, ContentAt, LandedContent, Sensitive
    <2>2. seen[c].meta.head_sha <= head[target[c]]
        BY <1>2 DEF MetadataRead
    <2>3. head[target[c]] <= head[target[c]]
        BY <1>3
    <2> QED
        BY <1>1, <1>3, <1>8, <2>1, <2>2, <2>3 DEF KeysRead, hostVars, J, K, JudgmentKey, SweepKey
<1>12. Stage(c)'
    BY <1>1, <1>2, <1>9, <1>10, <1>11 DEF Stage, Critical, Reading, AfterMeta, AfterKeys, hostVars
<1> QED
    BY <1>1, <1>9, <1>12 DEF IInv

\* The three reads after the keys fill fields that no later step depends on here.
LEMMA LaterRead ==
    ASSUME NEW c \in Caller, HostAssumption, ControllerAssumption, IInv,
           NEW from \in AfterKeys, NEW to \in AfterKeys, Goto(c, from, to), ReadsOn(c),
           seen' \in [Caller -> GateInputs],
           seen'[c].meta = seen[c].meta,
           seen'[c].landing_judgment = seen[c].landing_judgment,
           seen'[c].landing_completeness = seen[c].landing_completeness
    PROVE  IInv'
<1>1. FreshVerdict' /\ UNCHANGED <<hostVars, lock, target, attempt, audit>>
    BY DEF ReadsOn, IInv, FreshVerdict, hostVars
<1>2. Stage(c) /\ MetadataRead(c) /\ KeysRead(c)
    BY DEF Goto, IInv, Stage, AfterMeta, AfterKeys
<1>3. /\ TypeOK' /\ lock' = c /\ pc'[c] = to /\ target[c] \in PR
      /\ \A d \in Caller \ {c} : Stage(d)'
    <2>1. from \in Reading /\ to \in Reading
        BY DEF Reading, AfterKeys
    <2>2. attempt' \in [Caller -> 0..MaxAttempts]
        BY <1>1 DEF IInv, TypeOK
    <2>3. TypeOK /\ \A d \in Caller : Stage(d)
        BY DEF IInv
    <2> QED
        BY <1>1, <2>1, <2>2, <2>3, ReadStep
<1>4. MetadataRead(c)' /\ KeysRead(c)'
    BY <1>1, <1>2, MetadataKept, KeysKept DEF hostVars
<1>5. to \in Critical \ {"audit", "idle"} /\ to \in Reading
    BY DEF AfterKeys, Critical, Reading
<1>6. Stage(c)'
    BY <1>1, <1>2, <1>3, <1>4, <1>5 DEF Stage, hostVars
<1> QED
    BY <1>1, <1>3, <1>6 DEF IInv

\* read_ci_artifacts.
LEMMA ArtifactsStep ==
    ASSUME NEW c \in Caller, HostAssumption, ControllerAssumption, IInv, ReadCiArtifacts(c)
    PROVE  IInv'
<1> DEFINE x == artifacts[target[c]].consistency
           y == artifacts[target[c]].completeness
<1>1. seen[c] \in GateInputs /\ target[c] \in PR
    BY DEF ReadCiArtifacts, Goto, IInv, TypeOK, Stage
<1>2. x \in ConsistencyArtifacts \cup {None} /\ y \in CompletenessArtifacts \cup {None}
    BY <1>1 DEF IInv, TypeOK, HostTypeOK
<1>3. seen' = [seen EXCEPT ![c] = [@ EXCEPT !.consistency_artifact = x,
                                          !.completeness_artifact = y]]
    BY <1>1 DEF ReadCiArtifacts, IInv, TypeOK
<1> HIDE DEF x, y
<1>4. seen' \in [Caller -> GateInputs]
    BY <1>1, <1>2, <1>3, SeenTypes DEF IInv, TypeOK
<1>5. /\ seen'[c].meta = seen[c].meta
      /\ seen'[c].landing_judgment = seen[c].landing_judgment
      /\ seen'[c].landing_completeness = seen[c].landing_completeness
    BY <1>1, <1>3 DEF IInv, TypeOK, GateInputs
<1> QED
    BY <1>4, <1>5, LaterRead DEF ReadCiArtifacts, AfterKeys

\* read_channel_decisions.
LEMMA DecisionsStep ==
    ASSUME NEW c \in Caller, HostAssumption, ControllerAssumption, IInv, ReadDecisions(c)
    PROVE  IInv'
<1>1. seen[c] \in GateInputs /\ target[c] \in PR
    BY DEF ReadDecisions, Goto, IInv, TypeOK, Stage
<1>2. ReadChannelDecisions(target[c]) \in Seq(DecisionsRead)
    BY <1>1, ReadTypes DEF IInv, TypeOK
<1>3. seen' = [seen EXCEPT ![c] = [@ EXCEPT !.decisions = ReadChannelDecisions(target[c])]]
    BY DEF ReadDecisions
<1>4. seen' \in [Caller -> GateInputs]
    BY <1>1, <1>2, <1>3, SeenTypes DEF IInv, TypeOK
<1>5. /\ seen'[c].meta = seen[c].meta
      /\ seen'[c].landing_judgment = seen[c].landing_judgment
      /\ seen'[c].landing_completeness = seen[c].landing_completeness
    BY <1>1, <1>3 DEF IInv, TypeOK, GateInputs
<1> QED
    BY <1>4, <1>5, LaterRead DEF ReadDecisions, AfterKeys

\* read_approvals.
LEMMA ApprovalsStep ==
    ASSUME NEW c \in Caller, HostAssumption, ControllerAssumption, IInv, ReadApprovalEvents(c)
    PROVE  IInv'
<1>1. seen[c] \in GateInputs /\ target[c] \in PR
    BY DEF ReadApprovalEvents, Goto, IInv, TypeOK, Stage
<1>2. ReadApprovals(target[c]) \in SUBSET ApprovalsRead
    BY <1>1, ReadTypes DEF IInv, TypeOK
<1>3. seen' = [seen EXCEPT ![c] = [@ EXCEPT !.approvals = ReadApprovals(target[c])]]
    BY DEF ReadApprovalEvents
<1>4. seen' \in [Caller -> GateInputs]
    BY <1>1, <1>2, <1>3, SeenTypes DEF IInv, TypeOK
<1>5. /\ seen'[c].meta = seen[c].meta
      /\ seen'[c].landing_judgment = seen[c].landing_judgment
      /\ seen'[c].landing_completeness = seen[c].landing_completeness
    BY <1>1, <1>3 DEF IInv, TypeOK, GateInputs
<1> QED
    BY <1>4, <1>5, LaterRead DEF ReadApprovalEvents, AfterKeys

\* Repeat, leave, or go on to the merge.
LEMMA BracketStep ==
    ASSUME NEW c \in Caller, HostAssumption, ControllerAssumption, IInv, Bracket(c)
    PROVE  IInv'
<1>1. /\ FreshVerdict' /\ UNCHANGED <<hostVars, audit>> /\ pc[c] = "bracket" /\ lock = c
      /\ HostTypeOK' /\ audit' \in Seq(AuditRecords)
    BY DEF Bracket, Goto, IInv, FreshVerdict, hostVars, Stage, Critical, Reading,
           TypeOK, HostTypeOK
<1>2. CASE seen[c].meta.head_sha # head[target[c]] /\ Retry(c)
    BY <1>1, <1>2, Retrying DEF IInv
<1>3. CASE Leave(c)
    BY <1>1, <1>3, Leaving DEF IInv, TypeOK
<1>4. CASE Goto(c, "bracket", "merge") /\ UNCHANGED <<lock, target, attempt, seen>>
    BY <1>1, <1>4, LaterRead DEF ReadsOn, AfterKeys, IInv, TypeOK
<1> QED
    BY <1>2, <1>3, <1>4 DEF Bracket

----------------------------------------------------------------------------
\* The merge: at the pinned head, the keys that were read are those of the content.
LEMMA Landing ==
    ASSUME NEW c \in Caller, HostAssumption, ControllerAssumption, IInv, pc[c] = "merge",
           MergeAccepted(target[c], seen[c].meta.head_sha),
           Land(target[c], seen[c].landing_judgment, seen[c].landing_completeness)
    PROVE  /\ HostTypeOK' /\ FreshVerdict' /\ lock = c /\ target[c] \in PR
           /\ seen[c].landing_judgment \in ReviewKeys
           /\ seen[c].landing_completeness \in ReviewKeys
           /\ MetadataRead(c) /\ head' = head
           /\ Len(main') > 0
           /\ main'[Len(main')].judgment = seen[c].landing_judgment
           /\ main'[Len(main')].completeness = seen[c].landing_completeness
<1>1. lock = c /\ target[c] \in PR /\ MetadataRead(c) /\ KeysRead(c)
    BY DEF IInv, Stage, Critical, Reading, AfterMeta, AfterKeys
<1>2. head[target[c]] \in Nat /\ seen[c].meta.head_sha = head[target[c]]
    BY <1>1 DEF MergeAccepted, IInv, TypeOK, HostTypeOK
<1>3. PICK h \in Nat :
          /\ seen[c].meta.head_sha <= h /\ h <= head[target[c]]
          /\ seen[c].landing_judgment = JudgmentKey(ContentAt(target[c], h))
          /\ seen[c].landing_completeness = SweepKey(ContentAt(target[c], h))
    BY <1>1 DEF KeysRead
<1>4. h = head[target[c]]
    BY <1>2, <1>3
<1>5. /\ seen[c].landing_judgment = JudgmentKey(Content(target[c]))
      /\ seen[c].landing_completeness = SweepKey(Content(target[c]))
    BY <1>3, <1>4 DEF Content
<1>6. seen[c].landing_judgment \in ReviewKeys /\ seen[c].landing_completeness \in ReviewKeys
    BY <1>1, <1>2, <1>5, ContentType, HeadType DEF Content, IInv, TypeOK
<1>7. HostTypeOK'
    BY <1>1, <1>6, LandType DEF IInv, TypeOK
<1>8. FreshVerdict'
    <2> DEFINE landing == [pr |-> target[c], head |-> head[target[c]],
                           landed |-> Content(target[c]),
                           judgment |-> seen[c].landing_judgment,
                           completeness |-> seen[c].landing_completeness]
    <2>1. main' = Append(main, landing) /\ main \in Seq(Landings)
        BY DEF Land, IInv, TypeOK, HostTypeOK
    <2>2. /\ landing.judgment = JudgmentKey(landing.landed)
          /\ landing.completeness = SweepKey(landing.landed)
        BY <1>5
    <2> HIDE DEF landing
    <2>3. ASSUME NEW i \in DOMAIN main'
          PROVE  (i \in DOMAIN main /\ main'[i] = main[i]) \/ main'[i] = landing
        BY <2>1
    <2> QED
        BY <2>2, <2>3 DEF IInv, FreshVerdict, JudgmentKey, SweepKey
<1>9. /\ Len(main') > 0
      /\ main'[Len(main')].judgment = seen[c].landing_judgment
      /\ main'[Len(main')].completeness = seen[c].landing_completeness
    BY DEF Land, IInv, TypeOK, HostTypeOK
<1> QED
    BY <1>1, <1>6, <1>7, <1>8, <1>9 DEF Land

\* The merge lands and its record is due.
LEMMA MergeLandsStep ==
    ASSUME NEW c \in Caller, HostAssumption, ControllerAssumption, IInv, MergeLands(c)
    PROVE  IInv'
<1>1. /\ HostTypeOK' /\ FreshVerdict' /\ lock = c /\ target[c] \in PR
      /\ seen[c].landing_judgment \in ReviewKeys
      /\ seen[c].landing_completeness \in ReviewKeys
      /\ MetadataRead(c) /\ head' = head
      /\ Len(main') > 0
      /\ main'[Len(main')].judgment = seen[c].landing_judgment
      /\ main'[Len(main')].completeness = seen[c].landing_completeness
    BY Landing DEF MergeLands, Goto
<1>2. UNCHANGED <<lock, target, attempt, seen, audit>> /\ pc'[c] = "audit"
    BY DEF MergeLands, Goto, IInv, TypeOK
<1>3. TypeOK'
    BY <1>1, <1>2 DEF MergeLands, Goto, IInv, TypeOK, Stages
<1>4. Stage(c)'
    <2>1. MetadataRead(c)'
        BY <1>1, <1>2, MetadataKept
    <2>2. Stage(c) /\ pc[c] = "merge"
        BY DEF MergeLands, Goto, IInv
    <2> QED
        BY <1>1, <1>2, <2>1, <2>2 DEF Stage, LandedLast, Critical, Reading, AfterMeta, AfterKeys
<1>5. ASSUME NEW d \in Caller \ {c} PROVE Stage(d)'
    BY <1>1, <1>2, Bystander DEF MergeLands, Goto, IInv, TypeOK
<1> QED
    BY <1>1, <1>3, <1>4, <1>5 DEF IInv

\* The merge lands and the call is gone.
LEMMA MergeReplyLostStep ==
    ASSUME NEW c \in Caller, HostAssumption, ControllerAssumption, IInv, MergeReplyLost(c)
    PROVE  IInv'
<1>1. HostTypeOK' /\ FreshVerdict' /\ lock = c
    BY Landing DEF MergeReplyLost
<1>2. audit' \in Seq(AuditRecords)
    BY DEF MergeReplyLost, IInv, TypeOK
<1> QED
    BY <1>1, <1>2, Leaving DEF MergeReplyLost, IInv, TypeOK

\* HeadMovedError: the head passed the one that was pinned.
LEMMA MergeHeadMovedStep ==
    ASSUME NEW c \in Caller, HostAssumption, ControllerAssumption, IInv, MergeHeadMoved(c)
    PROVE  IInv'
<1>1. FreshVerdict'
    BY DEF MergeHeadMoved, IInv, FreshVerdict, hostVars
<1> QED
    BY <1>1, Retrying DEF MergeHeadMoved, IInv

\* An exception gives the lock back and leaves no trace.
LEMMA PortRaisesStep ==
    ASSUME NEW c \in Caller, HostAssumption, ControllerAssumption, IInv, PortRaises(c)
    PROVE  IInv'
<1>1. HostTypeOK' /\ FreshVerdict' /\ audit' \in Seq(AuditRecords)
    BY DEF PortRaises, IInv, TypeOK, HostTypeOK, FreshVerdict, hostVars
<1> QED
    BY <1>1, Leaving DEF PortRaises, IInv, TypeOK

\* The record holds the keys of the last landing.
LEMMA RecordAuditStep ==
    ASSUME NEW c \in Caller, HostAssumption, ControllerAssumption, IInv, RecordAudit(c)
    PROVE  IInv'
<1>1. HostTypeOK' /\ FreshVerdict'
    BY DEF RecordAudit, IInv, TypeOK, HostTypeOK, FreshVerdict, hostVars
<1>2. /\ seen[c] \in GateInputs /\ lock = c
      /\ seen[c].landing_judgment \in ReviewKeys
      /\ seen[c].landing_completeness \in ReviewKeys
    <2>1. seen[c] \in GateInputs /\ lock = c /\ LandedLast(c)
        BY DEF RecordAudit, IInv, TypeOK, Stage, Critical
    <2>2. main[Len(main)] \in Landings
        BY <2>1 DEF IInv, TypeOK, HostTypeOK, LandedLast
    <2> QED
        BY <2>1, <2>2 DEF LandedLast, Landings
<1>3. audit' \in Seq(AuditRecords)
    <2> DEFINE r == [judgment |-> seen[c].landing_judgment,
                     completeness |-> seen[c].landing_completeness,
                     decisions |-> [i \in DOMAIN seen[c].decisions |->
                         LET d == seen[c].decisions[i]
                         IN  [key |-> d.key, author |-> d.author, comment_id |-> d.comment_id]],
                     approvals |-> seen[c].approvals]
    <2>1. r \in AuditRecords
        BY <1>2, AuditType
    <2>2. audit' = Append(audit, r)
        BY DEF RecordAudit
    <2> HIDE DEF r
    <2> QED
        BY <2>1, <2>2 DEF IInv, TypeOK
<1>4. Leave(c)
    BY DEF RecordAudit
<1> QED
    BY <1>1, <1>2, <1>3, <1>4, Leaving DEF IInv, TypeOK

\* The host moves heads forward and main not at all.
LEMMA HostStep ==
    ASSUME HostAssumption, ControllerAssumption, IInv, HostNext, UNCHANGED controllerVars
    PROVE  IInv'
<1>1. HostTypeOK' /\ main' = main /\ \A pr \in PR : head'[pr] >= head[pr]
    BY HostStepType, HostStepFrame DEF IInv, TypeOK
<1>2. UNCHANGED <<lock, pc, target, attempt, seen, audit>>
    BY DEF controllerVars
<1>3. TypeOK' /\ FreshVerdict'
    BY <1>1, <1>2 DEF IInv, TypeOK, FreshVerdict
<1>4. ASSUME NEW c \in Caller PROVE Stage(c)'
    <2>1. Stage(c) /\ attempt[c] \in Nat
        BY DEF IInv, TypeOK, ControllerAssumption
    <2>2. ASSUME pc[c] # "idle"
          PROVE  /\ target[c] \in PR /\ head[target[c]] \in Nat /\ head'[target[c]] \in Nat
                 /\ head'[target[c]] >= head[target[c]]
        BY <1>1, <2>1, <2>2 DEF Stage, IInv, TypeOK, HostTypeOK
    <2>3. ASSUME pc[c] \in AfterMeta PROVE MetadataRead(c)'
        <3>1. MetadataRead(c) /\ pc[c] # "idle"
            BY <2>1, <2>3 DEF Stage, AfterMeta
        <3>2. seen[c].meta.head_sha \in Nat
            BY <3>1 DEF MetadataRead, Metadata
        <3> QED
            BY <1>2, <2>2, <3>1, <3>2 DEF MetadataRead
    <2>4. ASSUME pc[c] \in AfterKeys PROVE KeysRead(c)'
        <3>1. MetadataRead(c) /\ KeysRead(c) /\ pc[c] # "idle"
            BY <2>1, <2>4 DEF Stage, AfterMeta, AfterKeys
        <3>2. PICK h \in Nat :
                  /\ seen[c].meta.head_sha <= h /\ h <= head[target[c]]
                  /\ seen[c].landing_judgment = JudgmentKey(ContentAt(target[c], h))
                  /\ seen[c].landing_completeness = SweepKey(ContentAt(target[c], h))
            BY <3>1 DEF KeysRead
        <3>3. h <= head'[target[c]]
            BY <2>2, <3>1, <3>2
        <3>4. ContentAt(target[c], h)' = ContentAt(target[c], h)
            BY <1>1, <1>2 DEF ContentAt, LandedContent, Sensitive
        <3> QED
            BY <1>2, <3>2, <3>3, <3>4 DEF KeysRead, JudgmentKey, SweepKey
    <2>5. attempt[c] > 0 => pc[c] \in Reading \cup {"audit"} /\ head'[target[c]] >= attempt[c] - 1
        BY <2>1, <2>2 DEF Stage, Reading
    <2>6. LandedLast(c) => LandedLast(c)'
        BY <1>1, <1>2 DEF LandedLast
    <2> QED
        BY <1>2, <2>1, <2>3, <2>4, <2>5, <2>6 DEF Stage
<1> QED
    BY <1>3, <1>4 DEF IInv

----------------------------------------------------------------------------

\* The invariant holds at the start: nothing landed, nobody called.
LEMMA InitIInv ==
    ASSUME HostAssumption, ControllerAssumption, Init
    PROVE  IInv
<1>1. TypeOK
    BY HostInitType, NoInputsType DEF Init, TypeOK, Stages, ControllerAssumption
<1>2. FreshVerdict
    BY DEF Init, HostInit, FreshVerdict
<1>3. \A c \in Caller : Stage(c)
    BY DEF Init, Stage, Critical, Reading, AfterMeta, AfterKeys, ControllerAssumption
<1> QED
    BY <1>1, <1>2, <1>3 DEF IInv

\* Every step keeps it.
LEMMA NextIInv ==
    ASSUME HostAssumption, ControllerAssumption, IInv, [Next]_vars
    PROVE  IInv'
<1>1. ASSUME NEW c \in Caller, Serve(c) PROVE IInv'
    BY <1>1, AcquireStep, VerifyStep, MetadataStep, KeysStep, ArtifactsStep, DecisionsStep,
       ApprovalsStep, BracketStep, MergeLandsStep, MergeHeadMovedStep, MergeReplyLostStep,
       PortRaisesStep, RecordAuditStep DEF Serve
<1>2. ASSUME NEW c \in Caller, NEW pr \in PR, Call(c, pr) PROVE IInv'
    BY <1>2, CallStep
<1>3. CASE HostNext /\ UNCHANGED controllerVars
    BY <1>3, HostStep
<1>4. CASE UNCHANGED vars
    BY <1>4, SameContent
       DEF IInv, TypeOK, HostTypeOK, FreshVerdict, Stage, MetadataRead, KeysRead, LandedLast,
           vars, hostVars, controllerVars
<1> QED
    BY <1>1, <1>2, <1>3, <1>4 DEF Next

\* The inductive invariant holds throughout.
THEOREM Invariance == Spec => []IInv
BY HostAssumption, ControllerAssumption, InitIInv, NextIInv, PTL DEF Spec

\* Every variable of the controller and of the host keeps its type; a record is
\* never written from a read-set that lacks a key.
THEOREM TypeCorrect == Spec => []TypeOK
<1>1. IInv => TypeOK
    BY DEF IInv
<1> QED
    BY <1>1, Invariance, PTL

\* Whatever lands on main lands with the two keys that were judged.
THEOREM FreshVerdicts == Spec => []FreshVerdict
<1>1. IInv => FreshVerdict
    BY DEF IInv
<1> QED
    BY <1>1, Invariance, PTL

\* The k-th round of a call runs on a branch pushed to at least k - 1 times.
THEOREM RetriesBounded == Spec => []RetriesNeedPushes
<1>1. IInv => RetriesNeedPushes
    BY DEF IInv, Stage, RetriesNeedPushes
<1> QED
    BY <1>1, Invariance, PTL

----------------------------------------------------------------------------
(***************************************************************************)
(* MergeController implements AuditedMain: every merge is a Land, every    *)
(* _record_audit is a Record, all other steps stutter.  The caller between *)
(* its merge and its record holds the lock and the keys of the last landing. *)
(***************************************************************************)

\* The view of main has the length of main, and grows with it.
LEMMA HistoryView ==
    ASSUME HostTypeOK
    PROVE  /\ Len(History) = Len(main)
           /\ \A l \in Landings : main' = Append(main, l) =>
                /\ Len(History') = Len(History) + 1
                /\ History'[Len(History')] =
                       [landed |-> l.landed,
                        keys |-> [judgment |-> l.judgment, completeness |-> l.completeness]]
                /\ History' = Append(History, History'[Len(History')])
<1> DEFINE V(l) == [landed |-> l.landed,
                    keys |-> [judgment |-> l.judgment, completeness |-> l.completeness]]
<1>1. main \in Seq(Landings) /\ Len(main) \in Nat /\ DOMAIN main = 1..Len(main)
    BY DEF HostTypeOK
<1>2. History = [i \in 1..Len(main) |-> V(main[i])]
    BY <1>1 DEF History
<1>3. Len(History) = Len(main) /\ History \in Seq({V(main[i]) : i \in DOMAIN main})
    BY <1>1, <1>2
<1> HIDE DEF V
<1>4. ASSUME NEW l \in Landings, main' = Append(main, l)
      PROVE  /\ Len(History') = Len(History) + 1
             /\ History'[Len(History')] = V(l)
             /\ History' = Append(History, V(l))
    <2>1. /\ DOMAIN main' = 1..(Len(main) + 1) /\ main'[Len(main) + 1] = l
          /\ \A i \in 1..Len(main) : main'[i] = main[i]
        BY <1>1, <1>4
    <2>2. History' = [i \in 1..(Len(main) + 1) |-> V(main'[i])]
        BY <2>1 DEF History, V
    <2>3. Append(History, V(l)) = [i \in 1..(Len(main) + 1) |->
                                      IF i \in 1..Len(main) THEN V(main[i]) ELSE V(l)]
        BY <1>1, <1>2, <1>3
    <2>4. History' = Append(History, V(l))
        BY <1>1, <2>1, <2>2, <2>3
    <2>5. Len(History') = Len(main) + 1 /\ History'[Len(main) + 1] = V(l)
        BY <1>1, <2>1, <2>2
    <2> QED
        BY <1>3, <2>4, <2>5
<1> QED
    BY <1>3, <1>4 DEF V

\* So does the view of the audit log.
LEMMA RecordsView ==
    ASSUME audit \in Seq(AuditRecords), NEW r \in AuditRecords, audit' = Append(audit, r)
    PROVE  Records' = Append(Records, [judgment |-> r.judgment,
                                       completeness |-> r.completeness])
<1> DEFINE V(x) == [judgment |-> x.judgment, completeness |-> x.completeness]
<1>1. Len(audit) \in Nat /\ DOMAIN audit = 1..Len(audit)
    OBVIOUS
<1>2. Records = [i \in 1..Len(audit) |-> V(audit[i])]
    BY <1>1 DEF Records
<1>3. Len(Records) = Len(audit) /\ Records \in Seq({V(audit[i]) : i \in DOMAIN audit})
    BY <1>1, <1>2
<1>4. /\ DOMAIN audit' = 1..(Len(audit) + 1) /\ audit'[Len(audit) + 1] = r
      /\ \A i \in 1..Len(audit) : audit'[i] = audit[i]
    BY <1>1
<1>5. Records' = [i \in 1..(Len(audit) + 1) |-> V(audit'[i])]
    BY <1>4 DEF Records
<1> HIDE DEF V
<1>6. Append(Records, V(r)) = [i \in 1..(Len(audit) + 1) |->
                                  IF i \in 1..Len(audit) THEN V(audit[i]) ELSE V(r)]
    BY <1>1, <1>2, <1>3
<1>7. Records' = Append(Records, V(r))
    BY <1>1, <1>4, <1>5, <1>6
<1> QED
    BY <1>7 DEF V

\* One caller at most owes a record: the holder of the lock.
LEMMA OwedByHolder ==
    ASSUME IInv, NEW c \in Caller, lock = c
    PROVE  Owed <=> pc[c] = "audit"
BY DEF IInv, Stage, Owed, Critical

----------------------------------------------------------------------------
\* A merge is an abstract Land; whether a record follows is known by then.
LEMMA MergeRefines ==
    ASSUME HostAssumption, ControllerAssumption, IInv, IInv', NEW c \in Caller, pc[c] = "merge",
           MergeAccepted(target[c], seen[c].meta.head_sha),
           Land(target[c], seen[c].landing_judgment, seen[c].landing_completeness),
           audit' = audit
    PROVE  Abstract!Land
<1> DEFINE l == [pr |-> target[c], head |-> head[target[c]], landed |-> Content(target[c]),
                 judgment |-> seen[c].landing_judgment,
                 completeness |-> seen[c].landing_completeness]
<1>1. lock = c /\ main' = Append(main, l) /\ HostTypeOK /\ HostTypeOK'
    BY DEF IInv, TypeOK, Stage, Critical, Reading, Land
<1>2. main'[Len(main')] = l /\ Len(main') \in DOMAIN main' /\ l \in Landings
    <2> HIDE DEF l
    <2>1. main \in Seq(Landings) /\ main' \in Seq(Landings)
        BY <1>1 DEF HostTypeOK
    <2> QED
        BY <1>1, <2>1
<1>3. /\ l.judgment = JudgmentKey(l.landed) /\ l.completeness = SweepKey(l.landed)
    <2> HIDE DEF l
    <2> QED
        BY <1>2 DEF IInv, FreshVerdict, JudgmentKey, SweepKey
<1> HIDE DEF l
<1>4. ~Owed
    BY <1>1, OwedByHolder
<1>5. /\ Len(History') = Len(History) + 1
      /\ History' = Append(History, History'[Len(History')])
      /\ History'[Len(History')] =
             [landed |-> l.landed,
              keys |-> [judgment |-> l.judgment, completeness |-> l.completeness]]
    BY <1>1, <1>2, HistoryView
<1>6. History'[Len(History')].keys
          = [judgment |-> JudgmentKey(History'[Len(History')].landed),
             completeness |-> SweepKey(History'[Len(History')].landed)]
    BY <1>3, <1>5 DEF JudgmentKey, SweepKey
<1>7. Owed' \in BOOLEAN /\ Records' = Records
    BY DEF Owed, Records
<1> QED
    BY <1>4, <1>5, <1>6, <1>7
       DEF Abstract!Land, Abstract!Keys, Abstract!JudgmentKey, Abstract!SweepKey,
           JudgmentKey, SweepKey

\* _record_audit is an abstract Record: it writes the keys of the last landing.
LEMMA RecordRefines ==
    ASSUME HostAssumption, ControllerAssumption, IInv, IInv', NEW c \in Caller, RecordAudit(c)
    PROVE  Abstract!Record
<1> DEFINE r == [judgment |-> seen[c].landing_judgment,
                 completeness |-> seen[c].landing_completeness,
                 decisions |-> [i \in DOMAIN seen[c].decisions |->
                     LET d == seen[c].decisions[i]
                     IN  [key |-> d.key, author |-> d.author, comment_id |-> d.comment_id]],
                 approvals |-> seen[c].approvals]
<1>1. /\ pc[c] = "audit" /\ lock = c /\ lock' = NoCaller /\ main' = main
      /\ audit' = Append(audit, r) /\ audit \in Seq(AuditRecords) /\ audit' \in Seq(AuditRecords)
      /\ LandedLast(c) /\ HostTypeOK
    BY DEF RecordAudit, Leave, hostVars, IInv, TypeOK, Stage, Critical
<1>2. /\ r.judgment = main[Len(main)].judgment
      /\ r.completeness = main[Len(main)].completeness
    BY <1>1 DEF LandedLast
<1> HIDE DEF r
<1>3. r \in AuditRecords
    <2>1. audit'[Len(audit')] = r /\ Len(audit') \in DOMAIN audit'
        BY <1>1
    <2> QED
        BY <1>1, <2>1
<1>4. Records' = Append(Records, [judgment |-> r.judgment, completeness |-> r.completeness])
    BY <1>1, <1>3, RecordsView
<1>5. History[Len(History)].keys = [judgment |-> r.judgment, completeness |-> r.completeness]
    <2>1. Len(History) = Len(main) /\ Len(main) \in DOMAIN main
        BY <1>1, HistoryView DEF LandedLast, HostTypeOK
    <2> QED
        BY <1>2, <2>1 DEF History
<1>6. Owed /\ ~Owed'
    <2>1. \A d \in Caller : pc'[d] # "audit"
        BY <1>1 DEF IInv, Stage, Critical, ControllerAssumption
    <2> QED
        BY <1>1, <2>1 DEF Owed
<1>7. History' = History
    BY <1>1 DEF History
<1>8. Owed' = FALSE
    BY <1>6 DEF Owed
<1> QED
    BY <1>4, <1>5, <1>6, <1>7, <1>8 DEF Abstract!Record

\* A step that moves neither main, nor the audit log, nor a call to or from its
\* record is invisible.
LEMMA Invisible ==
    ASSUME main' = main, audit' = audit,
           \A c \in Caller : pc'[c] = "audit" <=> pc[c] = "audit"
    PROVE  UNCHANGED <<History, Records, Owed>>
BY DEF History, Records, Owed

\* Reading and deciding are invisible.
LEMMA QuietStep ==
    ASSUME HostAssumption, ControllerAssumption, IInv, IInv', NEW c \in Caller,
           \/ Acquire(c) \/ VerifyRuleset(c) \/ ReadMetadata(c) \/ ComputeLandingKeys(c)
           \/ ReadCiArtifacts(c) \/ ReadDecisions(c) \/ ReadApprovalEvents(c)
           \/ Bracket(c) \/ MergeHeadMoved(c) \/ PortRaises(c)
    PROVE  UNCHANGED <<History, Records, Owed>>
<1>0. pc \in [Caller -> Stages]
    BY DEF IInv, TypeOK
<1>1. main' = main /\ audit' = audit
    BY DEF Acquire, VerifyRuleset, ReadMetadata, ComputeLandingKeys, ReadCiArtifacts,
           ReadDecisions, ReadApprovalEvents, ReadsOn, Bracket, MergeHeadMoved, PortRaises,
           hostVars
<1>2. pc[c] # "audit"
    BY DEF Acquire, VerifyRuleset, ReadMetadata, ComputeLandingKeys, ReadCiArtifacts,
           ReadDecisions, ReadApprovalEvents, Bracket, MergeHeadMoved, PortRaises, Goto
<1>3. \E to \in Stages \ {"audit"} : pc' = [pc EXCEPT ![c] = to]
    <2>1. CASE Leave(c)
        BY <2>1 DEF Leave, Stages
    <2>2. CASE Retry(c)
        BY <2>1, <2>2 DEF Retry, Stages, Reading
    <2>3. CASE \E from, to \in Stages : to # "audit" /\ Goto(c, from, to)
        BY <2>3 DEF Goto
    <2> QED
        BY <2>1, <2>2, <2>3
           DEF Acquire, VerifyRuleset, ReadMetadata, ComputeLandingKeys, ReadCiArtifacts,
               ReadDecisions, ReadApprovalEvents, Bracket, MergeHeadMoved, PortRaises,
               Stages, Reading
<1>4. \A d \in Caller : pc'[d] = "audit" <=> pc[d] = "audit"
    BY <1>0, <1>2, <1>3
<1> QED
    BY <1>1, <1>4, Invisible

\* Every step of the controller or of the host is one of AuditedMain or a stutter.
LEMMA StepRefines ==
    ASSUME HostAssumption, ControllerAssumption, IInv, IInv', [Next]_vars
    PROVE  [Abstract!Land \/ Abstract!Record]_<<History, Records, Owed>>
<1>1. ASSUME NEW c \in Caller, Serve(c)
      PROVE  Abstract!Land \/ Abstract!Record \/ UNCHANGED <<History, Records, Owed>>
    <2>1. CASE MergeLands(c) \/ MergeReplyLost(c)
        BY <2>1, MergeRefines DEF MergeLands, MergeReplyLost, Goto
    <2>2. CASE RecordAudit(c)
        BY <2>2, RecordRefines
    <2> QED
        BY <1>1, <2>1, <2>2, QuietStep DEF Serve
<1>2. ASSUME NEW c \in Caller, NEW pr \in PR, Call(c, pr)
      PROVE  UNCHANGED <<History, Records, Owed>>
    <2>1. /\ main' = main /\ audit' = audit
          /\ \A d \in Caller : pc'[d] = "audit" <=> pc[d] = "audit"
        BY <1>2 DEF Call, Goto, hostVars, IInv, TypeOK
    <2> QED
        BY <2>1, Invisible
<1>3. CASE HostNext /\ UNCHANGED controllerVars
    BY <1>3, HostStepFrame, Invisible DEF IInv, TypeOK, controllerVars
<1>4. CASE UNCHANGED vars
    BY <1>4, Invisible DEF vars, hostVars, controllerVars
<1> QED
    BY <1>1, <1>2, <1>3, <1>4 DEF Next

\* Nothing landed, nothing recorded, nothing owed.
LEMMA InitRefines ==
    ASSUME Init
    PROVE  Abstract!Init
<1>1. main = <<>> /\ audit = <<>> /\ \A c \in Caller : pc[c] # "audit"
    BY DEF Init, HostInit
<1>2. History = <<>> /\ Records = <<>>
    BY <1>1 DEF History, Records
<1>3. Owed = FALSE
    BY <1>1 DEF Owed
<1> QED
    BY <1>2, <1>3 DEF Abstract!Init

\* The controller implements the audited main branch: landings under their own
\* keys, one at a time, each recorded before the next unless its record is lost.
THEOREM Implementation == Spec => ImplementsAuditedMain
<1>1. Init => Abstract!Init
    BY InitRefines
<1>2. IInv /\ IInv' /\ [Next]_vars
          => [Abstract!Land \/ Abstract!Record]_<<History, Records, Owed>>
    BY HostAssumption, ControllerAssumption, StepRefines
<1> QED
    BY <1>1, <1>2, Invariance, PTL DEF Spec, ImplementsAuditedMain, Abstract!Spec

----------------------------------------------------------------------------
(***************************************************************************)
(* ApprovedLanding.  A GREEN read-set names an approval of its own keys; the *)
(* approval was given on the host and is never forgotten there (only marked *)
(* as dismissed); and the keys are those of the content that lands         *)
(* (FreshVerdict).                                                         *)
(***************************************************************************)

\* The metadata c judges by are those of its PR, whatever happened since.
MetadataOf(c) ==
    /\ seen[c].meta.author = Author[target[c]]
    /\ seen[c].meta.touches_sot = (target[c] \in TouchesSot)
    /\ seen[c].meta.touches_enforcement_surface = (target[c] \in TouchesSurface)

\* Every approval c judges by was given on its PR, for the content of its keys.
ApprovalsGiven(c) ==
    \A s \in seen[c].approvals :
        \E a \in approvals[target[c]] :
            /\ s.approver = a.approver
            /\ s.approved_judgment = JudgmentKey(a.content)
            /\ s.approved_completeness = SweepKey(a.content)
            /\ s.approver_is_human = (a.approver \in Human)

Vouched(c) ==
    /\ pc[c] \in AfterMeta => MetadataOf(c)
    /\ pc[c] \in {"bracket", "merge"} => ApprovalsGiven(c)
    /\ pc[c] = "merge" => EvaluateGate(seen[c]).status = "GREEN"

\* The inductive invariant, next to IInv.
AInv ==
    /\ ApprovedLanding
    /\ \A c \in Caller : Vouched(c)

----------------------------------------------------------------------------
\* Of all the ways through the gate, a SoT change has only the one with an approval.
LEMMA GreenSot ==
    ASSUME NEW inputs, inputs.meta.touches_sot = TRUE, EvaluateGate(inputs).status = "GREEN"
    PROVE  ValidSotApprovalExists(inputs)
<1>1. EvaluateSot(inputs).status = "GREEN"
    BY DEF EvaluateGate, Red
<1>2. ASSUME NEW artifact, ResolveOpenBlocking(inputs, artifact) # Green
      PROVE  ResolveOpenBlocking(inputs, artifact).status # "GREEN"
    BY <1>2 DEF ResolveOpenBlocking, Red
<1> QED
    BY <1>1, <1>2 DEF EvaluateSot, Red

\* And so has an enforcement change.
LEMMA GreenSurface ==
    ASSUME NEW inputs, inputs.meta.touches_sot = FALSE,
           inputs.meta.touches_enforcement_surface = TRUE,
           EvaluateGate(inputs).status = "GREEN"
    PROVE  \E a \in inputs.approvals : AuthorizedApproval(inputs, a)
BY DEF EvaluateGate, EvaluateEnforcementSurface, Red

\* An approval once given stays on the host: a push or a withdrawal marks it.
LEMMA ApprovalsStay ==
    ASSUME HostTypeOK, HostNext, NEW pr \in PR, NEW a \in approvals[pr]
    PROVE  \E b \in approvals'[pr] : b.approver = a.approver /\ b.content = a.content
<1>0. a \in Approvals /\ Dismissed(a).approver = a.approver /\ Dismissed(a).content = a.content
    BY DEF HostTypeOK, Dismissed, Approvals
<1>1. CASE approvals' = approvals
    BY <1>1
<1>2. ASSUME NEW p \in PR, Push(p) PROVE a \in approvals'[pr] \/ Dismissed(a) \in approvals'[pr]
    <2>1. \/ approvals' = approvals
          \/ approvals' = [approvals EXCEPT ![p] = {Dismissed(b) : b \in @}]
        BY <1>2 DEF Push
    <2>2. CASE approvals' = [approvals EXCEPT ![p] = {Dismissed(b) : b \in @}]
        <3>1. CASE p = pr
            BY <2>2, <3>1 DEF HostTypeOK
        <3>2. CASE p # pr
            BY <2>2, <3>2 DEF HostTypeOK
        <3> QED
            BY <3>1, <3>2
    <2> QED
        BY <2>1, <2>2
<1>3. ASSUME NEW p \in PR, NEW b \in approvals[p], WithdrawApproval(p, b)
      PROVE  a \in approvals'[pr] \/ Dismissed(a) \in approvals'[pr]
    BY <1>3 DEF WithdrawApproval, HostTypeOK
<1>4. ASSUME NEW p \in PR, NEW actor \in Speaker, Approve(p, actor) PROVE a \in approvals'[pr]
    BY <1>4 DEF Approve, HostTypeOK
<1>5. ASSUME NEW p \in PR, NEW x, NEW y, NEW z,
             \/ ClosePr(p) \/ PublishReviews(p) \/ Comment(p, x, y) \/ EditComment(p, z, y)
             \/ DeleteComment(p, z) \/ Redeliver(p, z)
      PROVE  approvals' = approvals
    BY <1>5 DEF ClosePr, PublishReviews, Comment, EditComment, DeleteComment, Redeliver
<1>6. ASSUME NEW x, ChangeRole(x) \/ ChangeRuleset PROVE approvals' = approvals
    BY <1>6 DEF ChangeRole, ChangeRuleset
<1> QED
    BY <1>0, <1>1, <1>2, <1>3, <1>4, <1>5, <1>6 DEF HostNext

\* Landings of the past keep their approval as long as approvals stay.
LEMMA LandingsKept ==
    ASSUME ApprovedLanding, HostTypeOK,
           \A pr \in PR : \A a \in approvals[pr] :
               \E b \in approvals'[pr] : b.approver = a.approver /\ b.content = a.content,
           NEW i \in DOMAIN main, main'[i] = main[i]
    PROVE  LET pr == main'[i].pr
           IN  /\ pr \in TouchesSot =>
                      \E a \in approvals'[pr] :
                          a.content = main'[i].landed /\ a.approver \in Decider(pr)
               /\ pr \in TouchesSurface =>
                      \E a \in approvals'[pr] : a.approver \in Decider(pr)
<1>1. main[i].pr \in PR
    <2>1. main[i] \in Landings
        BY DEF HostTypeOK
    <2> QED
        BY <2>1 DEF Landings
<1>2. ASSUME main[i].pr \in TouchesSot
      PROVE  \E b \in approvals'[main[i].pr] :
                 b.content = main[i].landed /\ b.approver \in Decider(main[i].pr)
    <2>1. PICK a \in approvals[main[i].pr] :
              a.content = main[i].landed /\ a.approver \in Decider(main[i].pr)
        BY <1>2 DEF ApprovedLanding
    <2> QED
        BY <1>1, <2>1
<1>3. ASSUME main[i].pr \in TouchesSurface
      PROVE  \E b \in approvals'[main[i].pr] : b.approver \in Decider(main[i].pr)
    <2>1. PICK a \in approvals[main[i].pr] : a.approver \in Decider(main[i].pr)
        BY <1>3 DEF ApprovedLanding
    <2> QED
        BY <1>1, <2>1
<1> QED
    BY <1>2, <1>3

----------------------------------------------------------------------------
\* Whoever does not hold the lock is before it, and stays where it is.
LEMMA OthersStandBy ==
    ASSUME ControllerAssumption, IInv, NEW c \in Caller, Serve(c), NEW d \in Caller \ {c}
    PROVE  pc[d] \notin Critical /\ pc'[d] = pc[d]
<1>1. lock = c \/ lock = NoCaller
    BY DEF IInv, Stage, Serve, Acquire, VerifyRuleset, ReadMetadata, ComputeLandingKeys,
           ReadCiArtifacts, ReadDecisions, ReadApprovalEvents, Bracket, MergeLands,
           MergeHeadMoved, MergeReplyLost, PortRaises, RecordAudit, Goto, Critical, Reading
<1>2. pc[d] \notin Critical
    BY <1>1 DEF IInv, Stage, ControllerAssumption
<1>3. pc'[d] = pc[d]
    <2>1. \/ Leave(c) \/ Retry(c) \/ \E from, to \in Stages : Goto(c, from, to)
        BY DEF Serve, Acquire, VerifyRuleset, ReadMetadata, ComputeLandingKeys,
           ReadCiArtifacts, ReadDecisions, ReadApprovalEvents, Bracket, MergeLands,
           MergeHeadMoved, MergeReplyLost, PortRaises, RecordAudit, Stages, Reading
    <2> QED
        BY <2>1 DEF Leave, Retry, Goto, IInv, TypeOK
<1> QED
    BY <1>2, <1>3

\* So it has judged nothing yet.
LEMMA OthersOutside ==
    ASSUME ControllerAssumption, IInv, NEW c \in Caller, Serve(c), NEW d \in Caller \ {c}
    PROVE  Vouched(d)'
BY OthersStandBy DEF Vouched, AfterMeta, Critical, Reading

\* The gate reads nothing but its inputs.
LEMMA GateIsPure ==
    ASSUME NEW c \in Caller
    PROVE  EvaluateGate(seen[c])' = EvaluateGate(seen'[c])
BY DEF EvaluateGate, EvaluateSot, EvaluateEnforcementSurface, ResolveOpenBlocking,
       ValidSotApprovalExists, ValidSotApproval, AuthorizedApproval, Authorized,
       Unresolved, Conflicting, Tampered, ValidDecisions, ValidDecision, Malformed, Green, Red

\* A step of the lock's holder that moves nothing on the host keeps AInv if the
\* holder stays vouched for.
LEMMA QuietKeeps ==
    ASSUME ControllerAssumption, IInv, AInv, NEW c \in Caller, Serve(c), UNCHANGED hostVars,
           Vouched(c)'
    PROVE  AInv'
<1>1. ApprovedLanding'
    BY DEF AInv, ApprovedLanding, hostVars
<1> QED
    BY <1>1, OthersOutside DEF AInv

\* A call that ends or begins again has judged nothing.
LEMMA NothingJudged ==
    ASSUME IInv, NEW c \in Caller, Leave(c) \/ Retry(c)
    PROVE  Vouched(c)'
<1>1. pc'[c] \in {"idle", "metadata"}
    BY DEF Leave, Retry, IInv, TypeOK
<1> QED
    BY <1>1 DEF Vouched, AfterMeta

\* A later read that leaves metadata and approvals alone keeps what was judged.
LEMMA ReadKeeps ==
    ASSUME IInv, AInv, NEW c \in Caller,
           NEW from \in {"keys", "artifacts", "decisions"},
           NEW to \in {"artifacts", "decisions", "approvals"},
           Goto(c, from, to), target' = target, seen'[c].meta = seen[c].meta
    PROVE  Vouched(c)'
<1>1. MetadataOf(c) /\ pc'[c] = to
    BY DEF AInv, Vouched, Goto, IInv, TypeOK, AfterMeta
<1> QED
    BY <1>1 DEF Vouched, MetadataOf

\* What the ports say of a PR's approvals and metadata is what the host holds.
LEMMA MetadataSays ==
    ASSUME NEW pr
    PROVE  /\ ReadPrMetadata(pr).author = Author[pr]
           /\ ReadPrMetadata(pr).touches_sot = (pr \in TouchesSot)
           /\ ReadPrMetadata(pr).touches_enforcement_surface = (pr \in TouchesSurface)
BY DEF ReadPrMetadata

\* And the approvals it hands over are those of the host.
LEMMA ApprovalsSay ==
    ASSUME NEW pr, NEW s \in ReadApprovals(pr)
    PROVE  \E a \in approvals[pr] :
              /\ s.approver = a.approver
              /\ s.approved_judgment = JudgmentKey(a.content)
              /\ s.approved_completeness = SweepKey(a.content)
              /\ s.approver_is_human = (a.approver \in Human)
BY DEF ReadApprovals

\* What it means that the approvals read were given, after a step.
LEMMA ApprovalsGivenNext ==
    ASSUME NEW c
    PROVE  ApprovalsGiven(c)' <=>
               \A s \in seen'[c].approvals :
                   \E a \in approvals'[target'[c]] :
                       /\ s.approver = a.approver
                       /\ s.approved_judgment = JudgmentKey(a.content)
                       /\ s.approved_completeness = SweepKey(a.content)
                       /\ s.approver_is_human = (a.approver \in Human)
BY DEF ApprovalsGiven, JudgmentKey, SweepKey

\* The first read says which PR is judged, and by whose metadata.
LEMMA MetadataVouched ==
    ASSUME IInv, NEW c \in Caller, ReadMetadata(c)
    PROVE  Vouched(c)'
<1>1. pc'[c] = "keys" /\ target' = target
    BY DEF ReadMetadata, ReadsOn, Goto, IInv, TypeOK
<1>2. seen'[c].meta = ReadPrMetadata(target[c])
    BY DEF ReadMetadata, IInv, TypeOK, GateInputs
<1>3. MetadataOf(c)'
    BY <1>1, <1>2, MetadataSays DEF MetadataOf
<1> QED
    BY <1>1, <1>3 DEF Vouched

\* The last read adds approvals that were given on the host.
LEMMA ApprovalsVouched ==
    ASSUME IInv, AInv, NEW c \in Caller, ReadApprovalEvents(c)
    PROVE  Vouched(c)'
<1>1. /\ pc[c] = "approvals" /\ pc'[c] = "bracket" /\ target' = target /\ approvals' = approvals
    BY DEF ReadApprovalEvents, ReadsOn, hostVars, Goto, IInv, TypeOK
<1>2. seen'[c].meta = seen[c].meta /\ seen'[c].approvals = ReadApprovals(target[c])
    BY DEF ReadApprovalEvents, IInv, TypeOK, GateInputs
<1>3. MetadataOf(c)'
    BY <1>1, <1>2 DEF AInv, Vouched, AfterMeta, MetadataOf
<1>4. ApprovalsGiven(c)'
    BY <1>1, <1>2, ApprovalsSay, ApprovalsGivenNext
<1> QED
    BY <1>1, <1>3, <1>4 DEF Vouched

\* Only a GREEN read-set goes on to the merge.
LEMMA BracketVouched ==
    ASSUME IInv, AInv, NEW c \in Caller, Bracket(c)
    PROVE  Vouched(c)'
<1>1. CASE Leave(c) \/ Retry(c)
    BY <1>1, NothingJudged
<1>2. CASE /\ EvaluateGate(seen[c]).status = "GREEN"
           /\ Goto(c, "bracket", "merge")
           /\ UNCHANGED <<lock, target, attempt, seen>>
    <2>1. pc[c] = "bracket" /\ pc'[c] = "merge" /\ approvals' = approvals
        BY <1>2 DEF Goto, IInv, TypeOK, Bracket, hostVars
    <2>2. MetadataOf(c)' /\ ApprovalsGiven(c)'
        BY <1>2, <2>1 DEF AInv, Vouched, AfterMeta, MetadataOf, ApprovalsGiven, JudgmentKey, SweepKey
    <2>3. EvaluateGate(seen[c])' = EvaluateGate(seen'[c])
        BY GateIsPure
    <2> QED
        BY <1>2, <2>1, <2>2, <2>3 DEF Vouched
<1> QED
    BY <1>1, <1>2 DEF Bracket

----------------------------------------------------------------------------
\* The merge of a vouched read-set: its approval is one of the content that lands.
LEMMA LandingApproved ==
    ASSUME HostAssumption, ControllerAssumption, IInv, AInv, NEW c \in Caller, pc[c] = "merge",
           MergeAccepted(target[c], seen[c].meta.head_sha),
           Land(target[c], seen[c].landing_judgment, seen[c].landing_completeness),
           FreshVerdict'
    PROVE  ApprovedLanding'
<1> DEFINE pr == target[c]
           l == [pr |-> pr, head |-> head[pr], landed |-> Content(pr),
                 judgment |-> seen[c].landing_judgment,
                 completeness |-> seen[c].landing_completeness]
<1>1. /\ MetadataOf(c) /\ ApprovalsGiven(c) /\ EvaluateGate(seen[c]).status = "GREEN"
      /\ seen[c] \in GateInputs /\ HostTypeOK /\ pr \in PR
    BY DEF AInv, Vouched, AfterMeta, IInv, TypeOK, Stage
<1>2. /\ main' = Append(main, l) /\ approvals' = approvals /\ main \in Seq(Landings)
      /\ main'[Len(main')] = l /\ Len(main') \in DOMAIN main'
      /\ \A i \in DOMAIN main' : (i \in DOMAIN main /\ main'[i] = main[i]) \/ main'[i] = l
    <2>1. main' = Append(main, l) /\ approvals' = approvals /\ main \in Seq(Landings)
        BY <1>1 DEF Land, HostTypeOK
    <2> HIDE DEF l
    <2> QED
        BY <2>1
<1>3. /\ seen[c].landing_judgment = JudgmentKey(Content(pr))
      /\ seen[c].landing_completeness = SweepKey(Content(pr))
    <2>1. /\ main'[Len(main')].judgment = JudgmentKey(main'[Len(main')].landed)
          /\ main'[Len(main')].completeness = SweepKey(main'[Len(main')].landed)
        BY <1>2 DEF FreshVerdict, JudgmentKey, SweepKey
    <2> QED
        BY <1>2, <2>1
<1>4. seen[c].allowlist = Allowlist
    BY <1>1 DEF GateInputs
<1>5. ASSUME pr \in TouchesSot
      PROVE  \E a \in approvals[pr] : a.content = Content(pr) /\ a.approver \in Decider(pr)
    <2>1. PICK s \in seen[c].approvals : ValidSotApproval(seen[c], s)
        BY <1>1, <1>5, GreenSot DEF MetadataOf, ValidSotApprovalExists
    <2>2. PICK a \in approvals[pr] :
              /\ s.approver = a.approver
              /\ s.approved_judgment = JudgmentKey(a.content)
              /\ s.approved_completeness = SweepKey(a.content)
              /\ s.approver_is_human = (a.approver \in Human)
        BY <1>1 DEF ApprovalsGiven
    <2>3. a.content = Content(pr)
        <3>1. /\ JudgmentKey(a.content) = JudgmentKey(Content(pr))
              /\ SweepKey(a.content) = SweepKey(Content(pr))
            BY <1>3, <2>1, <2>2 DEF ValidSotApproval
        <3>2. a.content \in Contents /\ Content(pr) \in Contents
            BY <1>1, HostAssumption, ContentType, HeadType
               DEF Content, HostTypeOK, Approvals
        <3> QED
            BY <3>1, <3>2, KeysDetermine
    <2>4. a.approver \in Decider(pr)
        BY <1>1, <1>4, <2>1, <2>2 DEF ValidSotApproval, Authorized, MetadataOf, Decider
    <2> QED
        BY <2>3, <2>4
<1>6. ASSUME pr \in TouchesSurface
      PROVE  \E a \in approvals[pr] : a.approver \in Decider(pr)
    <2>1. CASE pr \in TouchesSot
        BY <1>5, <2>1
    <2>2. CASE pr \notin TouchesSot
        <3>1. PICK s \in seen[c].approvals : AuthorizedApproval(seen[c], s)
            <4>1. /\ seen[c].meta.touches_sot = FALSE
                  /\ seen[c].meta.touches_enforcement_surface = TRUE
                <5>1. (target[c] \in TouchesSot) = FALSE
                    BY <2>2
                <5>2. (target[c] \in TouchesSurface) = TRUE
                    BY <1>6
                <5> QED
                    BY <1>1, <5>1, <5>2, Zenon DEF MetadataOf
            <4> QED
                BY <1>1, <4>1, GreenSurface
        <3>2. PICK a \in approvals[pr] :
                  /\ s.approver = a.approver
                  /\ s.approved_judgment = JudgmentKey(a.content)
                  /\ s.approved_completeness = SweepKey(a.content)
                  /\ s.approver_is_human = (a.approver \in Human)
            BY <1>1 DEF ApprovalsGiven
        <3> QED
            BY <1>1, <1>4, <3>1, <3>2 DEF AuthorizedApproval, Authorized, MetadataOf, Decider
    <2> QED
        BY <2>1, <2>2
<1>7. ASSUME NEW i \in DOMAIN main', main'[i] = l
      PROVE  LET p == main'[i].pr
             IN  /\ p \in TouchesSot =>
                        \E a \in approvals'[p] :
                            a.content = main'[i].landed /\ a.approver \in Decider(p)
                 /\ p \in TouchesSurface => \E a \in approvals'[p] : a.approver \in Decider(p)
    <2>1. main'[i].pr = pr /\ main'[i].landed = Content(pr)
        BY <1>7
    <2> HIDE DEF l, pr
    <2> QED
        BY <1>2, <1>5, <1>6, <2>1
<1>8. ASSUME NEW i \in DOMAIN main, main'[i] = main[i]
      PROVE  LET p == main'[i].pr
             IN  /\ p \in TouchesSot =>
                        \E a \in approvals'[p] :
                            a.content = main'[i].landed /\ a.approver \in Decider(p)
                 /\ p \in TouchesSurface => \E a \in approvals'[p] : a.approver \in Decider(p)
    BY <1>1, <1>2, <1>8, LandingsKept DEF AInv
<1> QED
    BY <1>2, <1>7, <1>8 DEF ApprovedLanding, Decider

----------------------------------------------------------------------------

\* Every step of the controller keeps AInv.
LEMMA ServeKeeps ==
    ASSUME HostAssumption, ControllerAssumption, IInv, AInv, IInv', NEW c \in Caller, Serve(c)
    PROVE  AInv'
<1>1. CASE MergeLands(c)
    <2>1. ApprovedLanding'
        BY <1>1, LandingApproved DEF MergeLands, Goto, IInv
    <2>2. pc[c] = "merge" /\ pc'[c] = "audit" /\ UNCHANGED <<target, seen>>
        BY <1>1 DEF MergeLands, Goto, IInv, TypeOK
    <2>3. Vouched(c)'
        BY <2>2 DEF AInv, Vouched, AfterMeta, MetadataOf
    <2> QED
        BY <2>1, <2>3, OthersOutside DEF AInv
<1>2. CASE MergeReplyLost(c)
    <2>1. ApprovedLanding'
        BY <1>2, LandingApproved DEF MergeReplyLost, IInv
    <2> QED
        BY <1>2, <2>1, NothingJudged, OthersOutside DEF AInv, MergeReplyLost
<1>3. CASE Acquire(c) \/ VerifyRuleset(c)
    <2>1. pc'[c] \in {"verify", "metadata", "idle"} /\ UNCHANGED hostVars
        BY <1>3 DEF Acquire, VerifyRuleset, Goto, Leave, IInv, TypeOK
    <2>2. Vouched(c)'
        BY <2>1 DEF Vouched, AfterMeta
    <2> QED
        BY <2>1, <2>2, QuietKeeps
<1>4. CASE ReadMetadata(c)
    BY <1>4, MetadataVouched, QuietKeeps DEF ReadMetadata, ReadsOn
<1>5. CASE ComputeLandingKeys(c)
    <2>1. seen'[c].meta = seen[c].meta
        BY <1>5 DEF ComputeLandingKeys, IInv, TypeOK, GateInputs
    <2> QED
        BY <1>5, <2>1, ReadKeeps, QuietKeeps DEF ComputeLandingKeys, ReadsOn
<1>6. CASE ReadCiArtifacts(c)
    <2>1. seen'[c].meta = seen[c].meta
        BY <1>6 DEF ReadCiArtifacts, IInv, TypeOK, GateInputs
    <2> QED
        BY <1>6, <2>1, ReadKeeps, QuietKeeps DEF ReadCiArtifacts, ReadsOn
<1>7. CASE ReadDecisions(c)
    <2>1. seen'[c].meta = seen[c].meta
        BY <1>7 DEF ReadDecisions, IInv, TypeOK, GateInputs
    <2> QED
        BY <1>7, <2>1, ReadKeeps, QuietKeeps DEF ReadDecisions, ReadsOn
<1>8. CASE ReadApprovalEvents(c)
    BY <1>8, ApprovalsVouched, QuietKeeps DEF ReadApprovalEvents, ReadsOn
<1>9. CASE Bracket(c)
    BY <1>9, BracketVouched, QuietKeeps DEF Bracket
<1>10. CASE MergeHeadMoved(c) \/ PortRaises(c) \/ RecordAudit(c)
    <2>1. UNCHANGED hostVars /\ (Leave(c) \/ Retry(c))
        BY <1>10 DEF MergeHeadMoved, PortRaises, RecordAudit
    <2> QED
        BY <2>1, NothingJudged, QuietKeeps
<1> QED
    BY <1>1, <1>2, <1>3, <1>4, <1>5, <1>6, <1>7, <1>8, <1>9, <1>10 DEF Serve

\* A new call disturbs no other.
LEMMA CallKeeps ==
    ASSUME IInv, AInv, NEW c \in Caller, NEW pr \in PR, Call(c, pr)
    PROVE  AInv'
<1>1. ApprovedLanding'
    BY DEF AInv, ApprovedLanding, Call, hostVars
<1>2. Vouched(c)'
    BY DEF Call, Goto, IInv, TypeOK, Vouched, AfterMeta
<1>3. ASSUME NEW d \in Caller \ {c} PROVE Vouched(d)'
    <2>1. /\ pc'[d] = pc[d] /\ target'[d] = target[d]
          /\ seen' = seen /\ approvals' = approvals
        BY DEF Call, Goto, hostVars, IInv, TypeOK
    <2>2. EvaluateGate(seen[d])' = EvaluateGate(seen'[d])
        BY GateIsPure
    <2>3. ApprovalsGiven(d)' <=> ApprovalsGiven(d)
        BY <2>1, ApprovalsGivenNext DEF ApprovalsGiven
    <2> QED
        BY <2>1, <2>2, <2>3 DEF AInv, Vouched, MetadataOf
<1> QED
    BY <1>1, <1>2, <1>3 DEF AInv

\* People and the review CI cannot take away what was vouched for.
LEMMA HostKeeps ==
    ASSUME IInv, AInv, HostNext, UNCHANGED controllerVars
    PROVE  AInv'
<1>1. HostTypeOK /\ main' = main
    BY HostAssumption, HostStepFrame DEF IInv, TypeOK
<1>2. \A pr \in PR : \A a \in approvals[pr] :
          \E b \in approvals'[pr] : b.approver = a.approver /\ b.content = a.content
    BY <1>1, ApprovalsStay
<1>3. ApprovedLanding'
    BY <1>1, <1>2, LandingsKept DEF AInv, ApprovedLanding, Decider
<1>4. ASSUME NEW c \in Caller PROVE Vouched(c)'
    <2>1. UNCHANGED <<pc, target, seen>>
        BY DEF controllerVars
    <2>2. ASSUME ApprovalsGiven(c), target[c] \in PR PROVE ApprovalsGiven(c)'
        <3>1. ASSUME NEW s \in seen[c].approvals
              PROVE  \E b \in approvals'[target[c]] :
                        /\ s.approver = b.approver
                        /\ s.approved_judgment = JudgmentKey(b.content)
                        /\ s.approved_completeness = SweepKey(b.content)
                        /\ s.approver_is_human = (b.approver \in Human)
            <4>1. PICK a \in approvals[target[c]] :
                      /\ s.approver = a.approver
                      /\ s.approved_judgment = JudgmentKey(a.content)
                      /\ s.approved_completeness = SweepKey(a.content)
                      /\ s.approver_is_human = (a.approver \in Human)
                BY <2>2 DEF ApprovalsGiven
            <4> QED
                BY <1>2, <2>2, <4>1
        <3> QED
            BY <2>1, <3>1 DEF ApprovalsGiven, JudgmentKey, SweepKey
    <2>3. pc[c] \in {"bracket", "merge"} => target[c] \in PR
        BY DEF IInv, Stage
    <2>4. EvaluateGate(seen[c])' = EvaluateGate(seen'[c])
        BY GateIsPure
    <2> QED
        BY <2>1, <2>2, <2>3, <2>4 DEF AInv, Vouched, MetadataOf
<1> QED
    BY <1>3, <1>4 DEF AInv

\* Nothing has landed and nothing is judged at the start.
LEMMA InitAInv ==
    ASSUME Init
    PROVE  AInv
BY DEF Init, HostInit, AInv, ApprovedLanding, Vouched, AfterMeta

\* Every step keeps AInv.
LEMMA NextAInv ==
    ASSUME HostAssumption, ControllerAssumption, IInv, IInv', AInv, [Next]_vars
    PROVE  AInv'
<1>1. ASSUME NEW c \in Caller, Serve(c) PROVE AInv'
    BY <1>1, ServeKeeps
<1>2. ASSUME NEW c \in Caller, NEW pr \in PR, Call(c, pr) PROVE AInv'
    BY <1>2, CallKeeps
<1>3. CASE HostNext /\ UNCHANGED controllerVars
    BY <1>3, HostKeeps
<1>4. CASE UNCHANGED vars
    <2>1. UNCHANGED <<main, approvals, pc, target, seen>>
        BY <1>4 DEF vars, hostVars, controllerVars
    <2>2. ASSUME NEW c \in Caller PROVE EvaluateGate(seen[c])' = EvaluateGate(seen'[c])
        BY GateIsPure
    <2> QED
        BY <2>1, <2>2
           DEF AInv, ApprovedLanding, Decider, Vouched, MetadataOf, ApprovalsGiven, JudgmentKey, SweepKey
<1> QED
    BY <1>1, <1>2, <1>3, <1>4 DEF Next

\* merge_if_green never lands a SoT change without a decider's approval of exactly
\* the content that lands, nor an enforcement change without a decider's approval.
THEOREM ApprovedLandings == Spec => []ApprovedLanding
<1>1. Init => IInv /\ AInv
    BY HostAssumption, ControllerAssumption, InitIInv, InitAInv
<1>2. IInv /\ AInv /\ [Next]_vars => (IInv /\ AInv)'
    BY HostAssumption, ControllerAssumption, NextIInv, NextAInv
<1>3. AInv => ApprovedLanding
    BY DEF AInv
<1> QED
    BY <1>1, <1>2, <1>3, PTL DEF Spec

----------------------------------------------------------------------------
(***************************************************************************)
(* AuditJustifies.  An artifact of a key is not replaced while the content *)
(* stays the same, so as long as the head has not moved the artifacts that *)
(* were read under the landing keys are those the host holds; a GREEN      *)
(* read-set has them, and a decision by a decider on each open finding; a  *)
(* landed PR is closed, so nothing publishes another artifact for it.      *)
(***************************************************************************)

\* The artifacts c judges by are those of its PR, unless the head moved meanwhile.
ArtifactsCurrent(c) ==
    head[target[c]] = seen[c].meta.head_sha =>
        /\ (/\ seen[c].consistency_artifact # None
            /\ seen[c].consistency_artifact.judgment = seen[c].landing_judgment)
           => artifacts[target[c]].consistency = seen[c].consistency_artifact
        /\ (/\ seen[c].completeness_artifact # None
            /\ seen[c].completeness_artifact.sweep_key = seen[c].landing_completeness)
           => artifacts[target[c]].completeness = seen[c].completeness_artifact

\* A decision is one of a human exactly when its author is human.
DecisionsSigned(c) ==
    \A j \in DOMAIN seen[c].decisions :
        seen[c].decisions[j].author_is_human = (seen[c].decisions[j].author \in Human)

\* The reviews of pr are those of the keys of c, and the decisions c read answer
\* every finding they leave open.
Justified(c, pr) ==
    /\ artifacts[pr].consistency.judgment = seen[c].landing_judgment
    /\ artifacts[pr].completeness.sweep_key = seen[c].landing_completeness
    /\ artifacts[pr].consistency.format_ok
    /\ \A b \in OpenFindings(pr) : \E j \in DOMAIN seen[c].decisions :
           /\ seen[c].decisions[j].key = b
           /\ seen[c].decisions[j].author \in Decider(pr)

Evidence(c) ==
    /\ pc[c] \in {"decisions", "approvals", "bracket", "merge"} => ArtifactsCurrent(c)
    /\ pc[c] \in {"approvals", "bracket", "merge"} => DecisionsSigned(c)
    /\ pc[c] = "audit" => /\ main[Len(main)].pr = target[c]
                          /\ target[c] \in TouchesSot => Justified(c, target[c])

LandedClosed == \A i \in DOMAIN main : prState[main[i].pr] = "MERGED"

\* The inductive invariant, next to IInv and AInv.
JInv ==
    /\ AuditJustifies
    /\ LandedClosed
    /\ \A c \in Caller : Evidence(c)

\* What a record k says of landing i.
Justifies(k, i) ==
    LET pr == main[i].pr
    IN  /\ audit[k].judgment = main[i].judgment
        /\ audit[k].completeness = main[i].completeness
        /\ pr \in TouchesSot =>
            /\ artifacts[pr].consistency.judgment = audit[k].judgment
            /\ artifacts[pr].completeness.sweep_key = audit[k].completeness
            /\ artifacts[pr].consistency.format_ok
            /\ \A b \in OpenFindings(pr) : \E j \in DOMAIN audit[k].decisions :
                   /\ audit[k].decisions[j].key = b
                   /\ audit[k].decisions[j].author \in Decider(pr)

----------------------------------------------------------------------------
\* A GREEN SoT change has both artifacts, clean and of its keys, and no finding of
\* theirs without a valid decision.
LEMMA GreenReviews ==
    ASSUME NEW inputs, inputs.meta.touches_sot = TRUE, EvaluateGate(inputs).status = "GREEN"
    PROVE  /\ inputs.consistency_artifact # None
           /\ inputs.consistency_artifact.format_ok
           /\ inputs.consistency_artifact.judgment = inputs.landing_judgment
           /\ inputs.completeness_artifact # None
           /\ inputs.completeness_artifact.sweep_key = inputs.landing_completeness
           /\ \A b \in inputs.consistency_artifact.open_blocking
                       \cup inputs.completeness_artifact.open_blocking :
                 \E i \in DOMAIN inputs.decisions : ValidDecision(inputs, b, inputs.decisions[i])
<1>1. EvaluateSot(inputs).status = "GREEN"
    BY DEF EvaluateGate, Red
<1>2. ASSUME NEW artifact, NEW b \in artifact.open_blocking, Unresolved(inputs, b)
      PROVE  /\ ResolveOpenBlocking(inputs, artifact) # Green
             /\ ResolveOpenBlocking(inputs, artifact).status # "GREEN"
    BY <1>2 DEF ResolveOpenBlocking, Red, Green
<1>3. ASSUME NEW artifact, ResolveOpenBlocking(inputs, artifact) # Green
      PROVE  ResolveOpenBlocking(inputs, artifact).status # "GREEN"
    BY <1>3 DEF ResolveOpenBlocking, Red
<1>4. /\ inputs.consistency_artifact # None
      /\ inputs.consistency_artifact.format_ok
      /\ inputs.consistency_artifact.judgment = inputs.landing_judgment
      /\ inputs.completeness_artifact # None
      /\ inputs.completeness_artifact.sweep_key = inputs.landing_completeness
      /\ ResolveOpenBlocking(inputs, inputs.consistency_artifact) = Green
      /\ ResolveOpenBlocking(inputs, inputs.completeness_artifact) = Green
    BY <1>1, <1>3 DEF EvaluateSot, Red
<1>5. ASSUME NEW b \in inputs.consistency_artifact.open_blocking
                       \cup inputs.completeness_artifact.open_blocking
      PROVE  \E i \in DOMAIN inputs.decisions : ValidDecision(inputs, b, inputs.decisions[i])
    <2>1. ~Unresolved(inputs, b)
        BY <1>2, <1>4
    <2> QED
        BY <2>1 DEF Unresolved, ValidDecisions
<1> QED
    BY <1>4, <1>5

\* No step of the host changes the artifacts of a closed PR.
LEMMA ClosedStays ==
    ASSUME HostTypeOK, HostNext, NEW pr \in PR, prState[pr] # "OPEN"
    PROVE  artifacts'[pr] = artifacts[pr] /\ prState'[pr] = prState[pr]
<1>1. ASSUME NEW p \in PR, Push(p) \/ ClosePr(p)
      PROVE  artifacts' = artifacts /\ prState'[pr] = prState[pr]
    BY <1>1 DEF Push, ClosePr, HostTypeOK
<1>2. ASSUME NEW p \in PR, PublishReviews(p)
      PROVE  artifacts'[pr] = artifacts[pr] /\ prState' = prState
    BY <1>2 DEF PublishReviews, HostTypeOK
<1>3. ASSUME NEW p \in PR, NEW x, NEW y, NEW z,
             \/ Comment(p, x, y) \/ EditComment(p, z, y) \/ DeleteComment(p, z)
             \/ Redeliver(p, z) \/ Approve(p, x) \/ WithdrawApproval(p, z)
      PROVE  artifacts' = artifacts /\ prState' = prState
    BY <1>3 DEF Comment, EditComment, DeleteComment, Redeliver, Approve, WithdrawApproval
<1>4. ASSUME NEW x, ChangeRole(x) \/ ChangeRuleset
      PROVE  artifacts' = artifacts /\ prState' = prState
    BY <1>4 DEF ChangeRole, ChangeRuleset
<1> QED
    BY <1>1, <1>2, <1>3, <1>4 DEF HostNext

\* An artifact of the key of the present content is not replaced.
LEMMA ArtifactStays ==
    ASSUME HostTypeOK, HostNext, NEW pr \in PR, head'[pr] = head[pr]
    PROVE  /\ (/\ artifacts[pr].consistency # None
               /\ artifacts[pr].consistency.judgment = JudgmentKey(Content(pr)))
              => artifacts'[pr].consistency = artifacts[pr].consistency
           /\ (/\ artifacts[pr].completeness # None
               /\ artifacts[pr].completeness.sweep_key = SweepKey(Content(pr)))
              => artifacts'[pr].completeness = artifacts[pr].completeness
<1>1. ASSUME NEW p \in PR, Push(p) \/ ClosePr(p) PROVE artifacts' = artifacts
    BY <1>1 DEF Push, ClosePr
<1>2. ASSUME PublishReviews(pr)
      PROVE  /\ (/\ artifacts[pr].consistency # None
                 /\ artifacts[pr].consistency.judgment = JudgmentKey(Content(pr)))
                => artifacts'[pr].consistency = artifacts[pr].consistency
             /\ (/\ artifacts[pr].completeness # None
                 /\ artifacts[pr].completeness.sweep_key = SweepKey(Content(pr)))
                => artifacts'[pr].completeness = artifacts[pr].completeness
    <2>1. PICK r \in ConsistencyReport, q \in CompletenessReport :
              artifacts' = [artifacts EXCEPT ![pr] =
                  [consistency |-> ConsistencyAfter(pr, r),
                   completeness |-> CompletenessAfter(pr, q)]]
        BY <1>2 DEF PublishReviews
    <2>2. /\ artifacts'[pr].consistency = ConsistencyAfter(pr, r)
          /\ artifacts'[pr].completeness = CompletenessAfter(pr, q)
        BY <2>1 DEF HostTypeOK
    <2> QED
        BY <2>2 DEF ConsistencyAfter, CompletenessAfter
<1>3. ASSUME NEW p \in PR \ {pr}, PublishReviews(p) PROVE artifacts'[pr] = artifacts[pr]
    BY <1>3 DEF PublishReviews, HostTypeOK
<1>4. ASSUME NEW p \in PR, NEW x, NEW y, NEW z,
             \/ Comment(p, x, y) \/ EditComment(p, z, y) \/ DeleteComment(p, z)
             \/ Redeliver(p, z) \/ Approve(p, x) \/ WithdrawApproval(p, z)
      PROVE  artifacts' = artifacts
    BY <1>4 DEF Comment, EditComment, DeleteComment, Redeliver, Approve, WithdrawApproval
<1>5. ASSUME NEW x, ChangeRole(x) \/ ChangeRuleset PROVE artifacts' = artifacts
    BY <1>5 DEF ChangeRole, ChangeRuleset
<1>6. CASE \E p \in PR : PublishReviews(p)
    BY <1>2, <1>3, <1>6
<1> QED
    BY <1>1, <1>4, <1>5, <1>6 DEF HostNext

----------------------------------------------------------------------------
\* Two states that agree on what a record refers to agree on what it says.
LEMMA RecordKept ==
    ASSUME NEW k, NEW i, Justifies(k, i), main'[i] = main[i], audit'[k] = audit[k],
           artifacts'[main[i].pr] = artifacts[main[i].pr]
    PROVE  Justifies(k, i)'
BY DEF Justifies, OpenFindings, Decider

\* The records of the past stay justified by the landings of the past.
LEMMA RecordsKept ==
    ASSUME JInv, HostTypeOK, audit' = audit,
           \A i \in DOMAIN main : /\ i \in DOMAIN main' /\ main'[i] = main[i]
                                  /\ artifacts'[main[i].pr] = artifacts[main[i].pr]
    PROVE  AuditJustifies'
<1>1. ASSUME NEW k \in DOMAIN audit PROVE \E i \in DOMAIN main' : Justifies(k, i)'
    <2>1. PICK i \in DOMAIN main : Justifies(k, i)
        BY DEF JInv, AuditJustifies, Justifies
    <2> QED
        BY <2>1, RecordKept
<1> QED
    BY <1>1 DEF AuditJustifies, Justifies

\* Whoever does not hold the lock has no evidence yet.
LEMMA OthersWithoutEvidence ==
    ASSUME ControllerAssumption, IInv, NEW c \in Caller, Serve(c), NEW d \in Caller \ {c}
    PROVE  Evidence(d)'
BY OthersStandBy DEF Evidence, Critical, Reading

\* A step of the lock's holder that moves neither the host nor the audit log.
LEMMA QuietKeepsJ ==
    ASSUME ControllerAssumption, IInv, JInv, NEW c \in Caller, Serve(c), UNCHANGED hostVars,
           audit' = audit, Evidence(c)'
    PROVE  JInv'
<1>1. UNCHANGED <<main, artifacts, prState>>
    BY DEF hostVars
<1>2. AuditJustifies' /\ LandedClosed'
    BY <1>1, RecordsKept DEF JInv, LandedClosed, IInv, TypeOK
<1> QED
    BY <1>2, OthersWithoutEvidence DEF JInv

\* A call before its reads, or after it, has no evidence to keep.
LEMMA NoEvidence ==
    ASSUME NEW c, pc'[c] \in {"idle", "waiting", "verify", "metadata", "keys", "artifacts"}
    PROVE  Evidence(c)'
BY DEF Evidence

\* The next read keeps the artifacts and decisions read before it.
LEMMA EvidenceKept ==
    ASSUME NEW c, ArtifactsCurrent(c), UNCHANGED hostVars, target' = target,
           seen'[c].meta = seen[c].meta,
           seen'[c].landing_judgment = seen[c].landing_judgment,
           seen'[c].landing_completeness = seen[c].landing_completeness,
           seen'[c].consistency_artifact = seen[c].consistency_artifact,
           seen'[c].completeness_artifact = seen[c].completeness_artifact
    PROVE  ArtifactsCurrent(c)'
<1>1. UNCHANGED <<head, artifacts>>
    BY DEF hostVars
<1> QED
    BY <1>1 DEF ArtifactsCurrent

\* The CI artifacts are read as they are.
LEMMA ArtifactsGathered ==
    ASSUME IInv, NEW c \in Caller, ReadCiArtifacts(c)
    PROVE  Evidence(c)'
<1>1. /\ pc'[c] = "decisions" /\ target' = target /\ UNCHANGED hostVars
      /\ seen'[c].consistency_artifact = artifacts[target[c]].consistency
      /\ seen'[c].completeness_artifact = artifacts[target[c]].completeness
    BY DEF ReadCiArtifacts, ReadsOn, Goto, IInv, TypeOK, GateInputs
<1>2. artifacts' = artifacts
    BY <1>1 DEF hostVars
<1> QED
    BY <1>1, <1>2 DEF Evidence, ArtifactsCurrent

\* The decisions are read with the humanity of their authors.
LEMMA DecisionsGathered ==
    ASSUME IInv, JInv, NEW c \in Caller, ReadDecisions(c)
    PROVE  Evidence(c)'
<1>1. /\ pc[c] = "decisions" /\ pc'[c] = "approvals" /\ target' = target /\ UNCHANGED hostVars
      /\ seen'[c].decisions = ReadChannelDecisions(target[c])
      /\ seen'[c].meta = seen[c].meta
      /\ seen'[c].landing_judgment = seen[c].landing_judgment
      /\ seen'[c].landing_completeness = seen[c].landing_completeness
      /\ seen'[c].consistency_artifact = seen[c].consistency_artifact
      /\ seen'[c].completeness_artifact = seen[c].completeness_artifact
    BY DEF ReadDecisions, ReadsOn, Goto, IInv, TypeOK, GateInputs
<1>2. ArtifactsCurrent(c)'
    BY <1>1, EvidenceKept DEF JInv, Evidence
<1>3. ASSUME NEW j \in DOMAIN ReadChannelDecisions(target[c])
      PROVE  ReadChannelDecisions(target[c])[j].author_is_human
                 = (ReadChannelDecisions(target[c])[j].author \in Human)
    BY DEF ReadChannelDecisions
<1>4. DecisionsSigned(c)'
    BY <1>1, <1>3 DEF DecisionsSigned
<1> QED
    BY <1>1, <1>2, <1>4 DEF Evidence

\* The approvals and the bracket leave both alone.
LEMMA EvidenceRests ==
    ASSUME IInv, JInv, NEW c \in Caller, ReadApprovalEvents(c) \/ Bracket(c)
    PROVE  Evidence(c)'
<1>1. CASE Bracket(c) /\ (Leave(c) \/ Retry(c))
    <2>1. pc'[c] \in {"idle", "metadata"}
        BY <1>1 DEF Leave, Retry, IInv, TypeOK
    <2> QED
        BY <2>1, NoEvidence
<1>2. CASE \/ ReadApprovalEvents(c)
           \/ Bracket(c) /\ Goto(c, "bracket", "merge") /\ UNCHANGED <<target, seen>>
    <2>1. /\ pc[c] \in {"approvals", "bracket"} /\ pc'[c] \in {"bracket", "merge"}
          /\ target' = target /\ UNCHANGED hostVars
          /\ seen'[c].decisions = seen[c].decisions
          /\ seen'[c].meta = seen[c].meta
          /\ seen'[c].landing_judgment = seen[c].landing_judgment
          /\ seen'[c].landing_completeness = seen[c].landing_completeness
          /\ seen'[c].consistency_artifact = seen[c].consistency_artifact
          /\ seen'[c].completeness_artifact = seen[c].completeness_artifact
        BY <1>2 DEF ReadApprovalEvents, ReadsOn, Bracket, Goto, IInv, TypeOK, GateInputs
    <2>2. ArtifactsCurrent(c)'
        BY <2>1, EvidenceKept DEF JInv, Evidence
    <2>3. DecisionsSigned(c)'
        BY <2>1 DEF JInv, Evidence, DecisionsSigned
    <2> QED
        BY <2>1, <2>2, <2>3 DEF Evidence
<1> QED
    BY <1>1, <1>2 DEF Bracket

----------------------------------------------------------------------------
\* A GREEN read-set whose head has not moved is justified by what the host holds.
LEMMA GreenJustified ==
    ASSUME IInv, AInv, JInv, NEW c \in Caller, pc[c] = "merge", target[c] \in TouchesSot,
           head[target[c]] = seen[c].meta.head_sha
    PROVE  Justified(c, target[c])
<1> DEFINE pr == target[c]
           r == seen[c].consistency_artifact
           q == seen[c].completeness_artifact
<1>1. /\ MetadataOf(c) /\ EvaluateGate(seen[c]).status = "GREEN"
      /\ ArtifactsCurrent(c) /\ DecisionsSigned(c) /\ seen[c].allowlist = Allowlist
    BY DEF AInv, Vouched, AfterMeta, JInv, Evidence, IInv, TypeOK, GateInputs
<1>2. seen[c].meta.touches_sot = TRUE
    <2>1. (target[c] \in TouchesSot) = TRUE
        OBVIOUS
    <2> QED
        BY <1>1, <2>1, Zenon DEF MetadataOf
<1>3. /\ r # None /\ r.format_ok /\ r.judgment = seen[c].landing_judgment
      /\ q # None /\ q.sweep_key = seen[c].landing_completeness
      /\ \A b \in r.open_blocking \cup q.open_blocking :
            \E i \in DOMAIN seen[c].decisions :
                ValidDecision(seen[c], b, seen[c].decisions[i])
    <2>1. PICK inputs : inputs = seen[c]
        OBVIOUS
    <2> QED
        BY <1>1, <1>2, <2>1, GreenReviews
<1>4. artifacts[pr].consistency = r /\ artifacts[pr].completeness = q
    BY <1>1, <1>3 DEF ArtifactsCurrent
<1>5. OpenFindings(pr) = r.open_blocking \cup q.open_blocking
    BY <1>3, <1>4 DEF OpenFindings
<1>6. ASSUME NEW b \in OpenFindings(pr)
      PROVE  \E j \in DOMAIN seen[c].decisions :
                /\ seen[c].decisions[j].key = b
                /\ seen[c].decisions[j].author \in Decider(pr)
    <2>1. PICK i \in DOMAIN seen[c].decisions :
              ValidDecision(seen[c], b, seen[c].decisions[i])
        BY <1>3, <1>5
    <2>2. seen[c].decisions[i].author_is_human = (seen[c].decisions[i].author \in Human)
        BY <1>1 DEF DecisionsSigned
    <2>3. seen[c].decisions[i].author \in Decider(pr)
        BY <1>1, <2>1, <2>2 DEF ValidDecision, Authorized, MetadataOf, Decider
    <2> QED
        BY <2>1, <2>3 DEF ValidDecision
<1> QED
    BY <1>3, <1>4, <1>6 DEF Justified

\* A landing closes its PR and leaves the records of the past as they were.
LEMMA LandingKeepsRecords ==
    ASSUME IInv, JInv, NEW c \in Caller, target[c] \in PR, audit' = audit,
           Land(target[c], seen[c].landing_judgment, seen[c].landing_completeness)
    PROVE  /\ AuditJustifies' /\ LandedClosed'
           /\ main'[Len(main')].pr = target[c]
<1> DEFINE l == [pr |-> target[c], head |-> head[target[c]], landed |-> Content(target[c]),
                 judgment |-> seen[c].landing_judgment,
                 completeness |-> seen[c].landing_completeness]
<1>1. /\ HostTypeOK /\ main \in Seq(Landings) /\ main' = Append(main, l)
      /\ artifacts' = artifacts /\ prState' = [prState EXCEPT ![target[c]] = "MERGED"]
    BY DEF IInv, TypeOK, HostTypeOK, Land
<1>2. l.pr = target[c]
    OBVIOUS
<1> HIDE DEF l
<1>3. /\ DOMAIN main' = DOMAIN main \cup {Len(main) + 1} /\ Len(main') = Len(main) + 1
      /\ main'[Len(main) + 1] = l
      /\ \A i \in DOMAIN main : i \in DOMAIN main' /\ main'[i] = main[i]
    BY <1>1
<1>4. ASSUME NEW i \in DOMAIN main PROVE main[i].pr \in PR
    <2>1. main[i] \in Landings
        BY <1>1
    <2> QED
        BY <2>1 DEF Landings
<1>5. AuditJustifies'
    BY <1>1, <1>3, RecordsKept
<1>6. LandedClosed'
    BY <1>1, <1>2, <1>3, <1>4 DEF JInv, LandedClosed, HostTypeOK
<1> QED
    BY <1>2, <1>3, <1>5, <1>6

\* What justifies a landing is still there after it.
LEMMA JustifiedKept ==
    ASSUME NEW c, NEW pr, Justified(c, pr), artifacts'[pr] = artifacts[pr], seen' = seen
    PROVE  Justified(c, pr)'
BY DEF Justified, OpenFindings, Decider

\* merge_pull_request, answered or not.
LEMMA MergeKeepsJ ==
    ASSUME ControllerAssumption, IInv, AInv, JInv, NEW c \in Caller,
           MergeLands(c) \/ MergeReplyLost(c)
    PROVE  JInv'
<1>1. /\ pc[c] = "merge" /\ target[c] \in PR /\ audit' = audit
      /\ head[target[c]] = seen[c].meta.head_sha
      /\ Land(target[c], seen[c].landing_judgment, seen[c].landing_completeness)
    BY DEF MergeLands, MergeReplyLost, Goto, MergeAccepted, IInv, Stage
<1>2. AuditJustifies' /\ LandedClosed' /\ main'[Len(main')].pr = target[c]
    BY <1>1, LandingKeepsRecords
<1>3. Evidence(c)'
    <2>1. CASE MergeReplyLost(c)
        <3>1. pc'[c] = "idle"
            BY <2>1 DEF MergeReplyLost, Leave, IInv, TypeOK
        <3> QED
            BY <3>1, NoEvidence
    <2>2. CASE MergeLands(c)
        <3>1. pc'[c] = "audit" /\ target' = target /\ seen' = seen /\ artifacts' = artifacts
            BY <2>2 DEF MergeLands, Goto, Land, IInv, TypeOK
        <3>2. ASSUME target[c] \in TouchesSot PROVE Justified(c, target[c])'
            <4>1. PICK pr : pr = target[c]
                OBVIOUS
            <4>2. Justified(c, pr)'
                BY <1>1, <3>1, <3>2, <4>1, GreenJustified, JustifiedKept
            <4> QED
                BY <3>1, <4>1, <4>2 DEF Justified, OpenFindings, Decider
        <3>3. target'[c] \in TouchesSot => Justified(c, target[c])'
            BY <3>1, <3>2
        <3> QED
            BY <1>2, <3>1, <3>3 DEF Evidence
    <2> QED
        BY <2>1, <2>2
<1> QED
    BY <1>2, <1>3, OthersWithoutEvidence DEF JInv, Serve

\* _record_audit writes down what justified the last landing.
LEMMA RecordKeepsJ ==
    ASSUME ControllerAssumption, IInv, JInv, NEW c \in Caller, RecordAudit(c)
    PROVE  JInv'
<1> DEFINE ds == seen[c].decisions
           t == [i \in DOMAIN ds |->
                     [key |-> ds[i].key, author |-> ds[i].author,
                      comment_id |-> ds[i].comment_id]]
           r == [judgment |-> seen[c].landing_judgment,
                 completeness |-> seen[c].landing_completeness,
                 decisions |-> t, approvals |-> seen[c].approvals]
<1>0. PICK n, last : n = Len(audit) + 1 /\ last = Len(main)
    OBVIOUS
<1>1. /\ pc[c] = "audit" /\ LandedLast(c) /\ HostTypeOK /\ audit \in Seq(AuditRecords)
      /\ UNCHANGED <<main, artifacts, prState>> /\ pc'[c] = "idle"
      /\ audit' = Append(audit, r)
    BY DEF RecordAudit, Leave, hostVars, IInv, TypeOK, Stage
<1>2. /\ r.judgment = seen[c].landing_judgment
      /\ r.completeness = seen[c].landing_completeness
      /\ DOMAIN r.decisions = DOMAIN ds
      /\ \A j \in DOMAIN ds : /\ r.decisions[j].key = ds[j].key
                              /\ r.decisions[j].author = ds[j].author
    OBVIOUS
<1> HIDE DEF r
<1>3. /\ DOMAIN audit' = DOMAIN audit \cup {n} /\ audit'[n] = r
      /\ \A k \in DOMAIN audit : audit'[k] = audit[k]
    BY <1>0, <1>1
<1>4. /\ last \in DOMAIN main
      /\ main[last].judgment = r.judgment /\ main[last].completeness = r.completeness
    BY <1>0, <1>1, <1>2 DEF LandedLast, HostTypeOK
<1>5. main[last].pr \in TouchesSot => Justified(c, main[last].pr)
    BY <1>0, <1>1 DEF JInv, Evidence
<1>6. Justifies(n, last)'
    <2>1. /\ main' = main /\ audit'[n] = r
          /\ \A pr : OpenFindings(pr)' = OpenFindings(pr)
        BY <1>1, <1>3 DEF OpenFindings
    <2> QED
        BY <1>1, <1>2, <1>4, <1>5, <2>1 DEF Justified, Justifies, Decider
<1>7. ASSUME NEW k \in DOMAIN audit PROVE \E i \in DOMAIN main' : Justifies(k, i)'
    <2>1. PICK i \in DOMAIN main : Justifies(k, i)
        BY DEF JInv, AuditJustifies, Justifies
    <2> QED
        BY <1>1, <1>3, <2>1, RecordKept
<1>8. AuditJustifies'
    <2>1. ASSUME NEW k \in DOMAIN audit' PROVE \E i \in DOMAIN main' : Justifies(k, i)'
        BY <1>1, <1>3, <1>4, <1>6, <1>7
    <2> QED
        BY <2>1 DEF AuditJustifies, Justifies
<1>9. LandedClosed' /\ Evidence(c)'
    BY <1>1, NoEvidence DEF JInv, LandedClosed
<1> QED
    BY <1>8, <1>9, OthersWithoutEvidence DEF JInv, Serve

\* Every step of the controller keeps JInv.
LEMMA ServeKeepsJ ==
    ASSUME ControllerAssumption, IInv, AInv, JInv, NEW c \in Caller, Serve(c)
    PROVE  JInv'
<1>1. CASE MergeLands(c) \/ MergeReplyLost(c)
    BY <1>1, MergeKeepsJ
<1>2. CASE RecordAudit(c)
    BY <1>2, RecordKeepsJ
<1>3. CASE Acquire(c) \/ VerifyRuleset(c) \/ ReadMetadata(c) \/ ComputeLandingKeys(c)
    <2>1. /\ UNCHANGED hostVars /\ audit' = audit
          /\ pc'[c] \in {"idle", "verify", "metadata", "keys", "artifacts"}
        BY <1>3 DEF Acquire, VerifyRuleset, ReadMetadata, ComputeLandingKeys, ReadsOn, Goto,
                    Leave, IInv, TypeOK
    <2> QED
        BY <2>1, NoEvidence, QuietKeepsJ
<1>4. CASE MergeHeadMoved(c) \/ PortRaises(c)
    <2>1. UNCHANGED hostVars /\ audit' = audit /\ pc'[c] \in {"idle", "metadata"}
        BY <1>4 DEF MergeHeadMoved, PortRaises, Leave, Retry, IInv, TypeOK
    <2> QED
        BY <2>1, NoEvidence, QuietKeepsJ
<1>5. CASE ReadCiArtifacts(c)
    BY <1>5, ArtifactsGathered, QuietKeepsJ DEF ReadCiArtifacts, ReadsOn
<1>6. CASE ReadDecisions(c)
    BY <1>6, DecisionsGathered, QuietKeepsJ DEF ReadDecisions, ReadsOn
<1>7. CASE ReadApprovalEvents(c) \/ Bracket(c)
    BY <1>7, EvidenceRests, QuietKeepsJ DEF ReadApprovalEvents, Bracket, ReadsOn
<1> QED
    BY <1>1, <1>2, <1>3, <1>4, <1>5, <1>6, <1>7 DEF Serve

\* A new call disturbs no other.
LEMMA CallKeepsJ ==
    ASSUME IInv, JInv, NEW c \in Caller, NEW pr \in PR, Call(c, pr)
    PROVE  JInv'
<1>1. UNCHANGED <<head, main, artifacts, prState, seen, audit>>
    BY DEF Call, hostVars
<1>2. AuditJustifies' /\ LandedClosed'
    BY <1>1, RecordsKept DEF JInv, LandedClosed, IInv, TypeOK
<1>3. Evidence(c)'
    <2>1. pc'[c] = "waiting"
        BY DEF Call, Goto, IInv, TypeOK
    <2> QED
        BY <2>1, NoEvidence
<1>4. ASSUME NEW d \in Caller \ {c} PROVE Evidence(d)'
    <2>1. pc'[d] = pc[d] /\ target'[d] = target[d]
        BY DEF Call, Goto, IInv, TypeOK
    <2> QED
        BY <1>1, <2>1 DEF JInv, Evidence, ArtifactsCurrent, DecisionsSigned, Justified,
                          OpenFindings, Decider
<1> QED
    BY <1>2, <1>3, <1>4 DEF JInv

\* The artifacts a call has read stay those of the host, unless its head moves.
LEMMA HostKeepsCurrent ==
    ASSUME HostTypeOK, HostNext, NEW c \in Caller, target[c] \in PR,
           MetadataRead(c), KeysRead(c), ArtifactsCurrent(c), UNCHANGED controllerVars
    PROVE  ArtifactsCurrent(c)'
<1> DEFINE pr == target[c]
<1>1. UNCHANGED <<target, seen>>
    BY DEF controllerVars
<1>2. SUFFICES ASSUME head'[pr] = seen[c].meta.head_sha PROVE ArtifactsCurrent(c)'
    BY <1>1 DEF ArtifactsCurrent
<1>3. head'[pr] = head[pr] /\ head[pr] = seen[c].meta.head_sha
    <2>1. head'[pr] >= head[pr] /\ seen[c].meta.head_sha <= head[pr]
        BY HostAssumption, HostStepFrame DEF MetadataRead
    <2>2. head[pr] \in Nat /\ seen[c].meta.head_sha \in Nat
        BY DEF HostTypeOK, MetadataRead, Metadata
    <2> QED
        BY <1>2, <2>1, <2>2
<1>4. /\ seen[c].landing_judgment = JudgmentKey(Content(pr))
      /\ seen[c].landing_completeness = SweepKey(Content(pr))
    <2>1. PICK h \in Nat :
              /\ seen[c].meta.head_sha <= h /\ h <= head[pr]
              /\ seen[c].landing_judgment = JudgmentKey(ContentAt(pr, h))
              /\ seen[c].landing_completeness = SweepKey(ContentAt(pr, h))
        BY DEF KeysRead
    <2>2. head[pr] \in Nat
        BY DEF HostTypeOK
    <2>3. h = head[pr]
        BY <1>3, <2>1, <2>2
    <2> QED
        BY <2>1, <2>3 DEF Content
<1>5. /\ (/\ artifacts[pr].consistency # None
          /\ artifacts[pr].consistency.judgment = JudgmentKey(Content(pr)))
         => artifacts'[pr].consistency = artifacts[pr].consistency
      /\ (/\ artifacts[pr].completeness # None
          /\ artifacts[pr].completeness.sweep_key = SweepKey(Content(pr)))
         => artifacts'[pr].completeness = artifacts[pr].completeness
    BY <1>3, ArtifactStays
<1> QED
    BY <1>1, <1>3, <1>4, <1>5 DEF ArtifactsCurrent

\* People and the review CI cannot take away what justifies a landing.
LEMMA HostKeepsJ ==
    ASSUME IInv, JInv, HostNext, UNCHANGED controllerVars
    PROVE  JInv'
<1>1. HostTypeOK /\ main' = main /\ UNCHANGED <<lock, pc, target, attempt, seen, audit>>
    BY HostAssumption, HostStepFrame DEF IInv, TypeOK, controllerVars
<1>2. ASSUME NEW i \in DOMAIN main
      PROVE  /\ artifacts'[main[i].pr] = artifacts[main[i].pr]
             /\ prState'[main[i].pr] = "MERGED"
    <2>1. main[i] \in Landings /\ prState[main[i].pr] = "MERGED"
        BY <1>1 DEF HostTypeOK, JInv, LandedClosed
    <2> QED
        BY <1>1, <2>1, ClosedStays DEF Landings
<1>3. AuditJustifies' /\ LandedClosed'
    BY <1>1, <1>2, RecordsKept DEF LandedClosed
<1>4. ASSUME NEW c \in Caller PROVE Evidence(c)'
    <2>1. ASSUME pc[c] \in {"decisions", "approvals", "bracket", "merge"}
          PROVE  ArtifactsCurrent(c)'
        <3>1. target[c] \in PR /\ MetadataRead(c) /\ KeysRead(c) /\ ArtifactsCurrent(c)
            BY <2>1 DEF IInv, Stage, AfterMeta, AfterKeys, JInv, Evidence
        <3> QED
            BY <1>1, <3>1, HostKeepsCurrent
    <2>2. DecisionsSigned(c) => DecisionsSigned(c)'
        BY <1>1 DEF DecisionsSigned
    <2>3. ASSUME pc[c] = "audit", target[c] \in TouchesSot PROVE Justified(c, target[c])'
        <3>1. Justified(c, target[c]) /\ artifacts'[target[c]] = artifacts[target[c]]
            <4>1. main[Len(main)].pr = target[c] /\ Justified(c, target[c])
                BY <2>3 DEF JInv, Evidence
            <4>2. Len(main) \in DOMAIN main
                BY <1>1, <2>3 DEF IInv, Stage, LandedLast, HostTypeOK
            <4> QED
                BY <1>2, <4>1, <4>2
        <3> QED
            BY <1>1, <3>1 DEF Justified, OpenFindings, Decider
    <2> QED
        BY <1>1, <2>1, <2>2, <2>3 DEF JInv, Evidence
<1> QED
    BY <1>3, <1>4 DEF JInv

\* Nothing has landed and nothing is read at the start.
LEMMA InitJInv ==
    ASSUME Init
    PROVE  JInv
BY DEF Init, HostInit, JInv, AuditJustifies, LandedClosed, Evidence

\* Every step keeps JInv.
LEMMA NextJInv ==
    ASSUME ControllerAssumption, IInv, AInv, JInv, [Next]_vars
    PROVE  JInv'
<1>1. ASSUME NEW c \in Caller, Serve(c) PROVE JInv'
    BY <1>1, ServeKeepsJ
<1>2. ASSUME NEW c \in Caller, NEW pr \in PR, Call(c, pr) PROVE JInv'
    BY <1>2, CallKeepsJ
<1>3. CASE HostNext /\ UNCHANGED controllerVars
    BY <1>3, HostKeepsJ
<1>4. CASE UNCHANGED vars
    <2>1. UNCHANGED <<head, main, artifacts, prState, pc, target, seen, audit>>
        BY <1>4 DEF vars, hostVars, controllerVars
    <2>2. AuditJustifies' /\ LandedClosed'
        BY <2>1, RecordsKept DEF JInv, LandedClosed, IInv, TypeOK
    <2> QED
        BY <2>1, <2>2 DEF JInv, Evidence, ArtifactsCurrent, DecisionsSigned, Justified,
                          OpenFindings, Decider
<1> QED
    BY <1>1, <1>2, <1>3, <1>4 DEF Next

\* Every record of merge_if_green is one of a landing; that of a SoT change shows
\* both reviews of exactly its content, a clean format, and a decider's answer to
\* every finding the reviews left open.
THEOREM RecordsJustify == Spec => []AuditJustifies
<1>1. Init => IInv /\ AInv /\ JInv
    BY HostAssumption, ControllerAssumption, InitIInv, InitAInv, InitJInv
<1>2. IInv /\ AInv /\ JInv /\ [Next]_vars => (IInv /\ AInv /\ JInv)'
    BY HostAssumption, ControllerAssumption, NextIInv, NextAInv, NextJInv
<1>3. JInv => AuditJustifies
    BY DEF JInv
<1> QED
    BY <1>1, <1>2, <1>3, PTL DEF Spec

=============================================================================
