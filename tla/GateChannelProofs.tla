------------------------- MODULE GateChannelProofs -------------------------
(***************************************************************************)
(* What every step of the host keeps: the shapes of its state, heads that  *)
(* only grow, a main branch that only the merge API moves.  Then why the   *)
(* gate is exact: the valid decisions it picks are the entries that count, *)
(* the newest of them exists since ids stay within their stream, and each  *)
(* artifact on file is under the kind of key its review computes.          *)
(***************************************************************************)
EXTENDS GateChannel, FiniteSetTheorems, TLAPS

\* A landing key is made of changes, those of main and those of the commit.
LEMMA ContentType ==
    ASSUME HostAssumption, HostTypeOK, NEW pr \in PR, NEW h \in 0..MaxHead[pr]
    PROVE  /\ ContentAt(pr, h) \in Contents
           /\ JudgmentKey(ContentAt(pr, h)) \in ReviewKeys
           /\ SweepKey(ContentAt(pr, h)) \in ReviewKeys
<1>1. LandedContent \in Contents
    <2>1. CASE main = <<>>
        BY <2>1 DEF LandedContent, Contents
    <2>2. CASE main # <<>>
        <3>1. main \in Seq(Landings) /\ main[Len(main)] \in Landings
            BY <2>2 DEF HostTypeOK
        <3> QED
            BY <2>2, <3>1 DEF LandedContent, Landings
    <2> QED
        BY <2>1, <2>2
<1>2. JudgedPart[pr][h] \subseteq Change /\ SweptPart[pr][h] \subseteq Change
    BY DEF HostAssumption
<1>3. ContentAt(pr, h) \in Contents
    BY <1>1, <1>2 DEF ContentAt, Contents
<1> QED
    BY <1>3 DEF ReviewKeys, Contents, JudgmentKey, SweepKey

\* Two contents under the same two keys are the same; either key alone says less.
LEMMA KeysDetermine ==
    ASSUME NEW c \in Contents, NEW d \in Contents
    PROVE  JudgmentKey(c) = JudgmentKey(d) /\ SweepKey(c) = SweepKey(d) <=> c = d
<1>1. /\ JudgmentKey(c).content = c.judged /\ JudgmentKey(d).content = d.judged
      /\ SweepKey(c).content = c.swept /\ SweepKey(d).content = d.swept
    BY DEF JudgmentKey, SweepKey
<1>2. c.judged = d.judged /\ c.swept = d.swept => c = d
    BY DEF Contents
<1> QED
    BY <1>1, <1>2

\* The head of a branch is one of its commits.
LEMMA HeadType ==
    ASSUME HostAssumption, HostTypeOK, NEW pr \in PR
    PROVE  head[pr] \in 0..MaxHead[pr]
BY DEF HostAssumption, HostTypeOK

\* The state the host starts in has the declared shapes.
LEMMA HostInitType ==
    ASSUME HostAssumption, HostInit
    PROVE  HostTypeOK
BY DEF HostAssumption, HostInit, HostTypeOK

\* Withdrawing, editing and deleting change one field and keep the shape.
LEMMA DismissedType ==
    ASSUME NEW a \in Approvals
    PROVE  Dismissed(a) \in Approvals
BY DEF Dismissed, Approvals

LEMMA EditedType ==
    ASSUME NEW c \in Comments, NEW key \in BindingKeys
    PROVE  [c EXCEPT !.key = key, !.edited = TRUE] \in Comments
BY DEF Comments

LEMMA DeletedType ==
    ASSUME NEW c \in Comments
    PROVE  [c EXCEPT !.deleted = TRUE] \in Comments
BY DEF Comments

\* A map over the positions of a sequence gives a sequence.
LEMMA IsASeq ==
    ASSUME NEW S, NEW T, NEW s \in Seq(S), NEW t,
           t = [i \in DOMAIN s |-> t[i]], \A i \in DOMAIN s : t[i] \in T
    PROVE  t \in Seq(T)
<1>1. Len(s) \in Nat /\ DOMAIN s = 1..Len(s)
    OBVIOUS
<1>2. t \in [1..Len(s) -> T]
    BY <1>1
<1> QED
    BY <1>1, <1>2

\* The ids the host gives out are numbers.
LEMMA CommentIdType ==
    ASSUME HostTypeOK, NEW pr \in PR
    PROVE  NextCommentId(pr) \in Nat
<1>1. channel[pr] \in Seq(Comments)
    BY DEF HostTypeOK
<1>2. DOMAIN channel[pr] = 1..Len(channel[pr]) /\ Len(channel[pr]) \in Nat
    BY <1>1
<1>3. IsFiniteSet(DOMAIN channel[pr])
    BY <1>2, FS_Interval
<1> DEFINE ids == {channel[pr][i].comment_id : i \in DOMAIN channel[pr]}
           idOf == [i \in DOMAIN channel[pr] |-> channel[pr][i].comment_id]
<1>4. idOf \in Surjection(DOMAIN channel[pr], ids)
    BY DEF Surjection
<1>5. IsFiniteSet(ids)
    BY <1>3, <1>4, FS_Surjection
<1> QED
    BY <1>5, FS_CardinalityType DEF NextCommentId

\* Every step of the people, the review CI and the adapter keeps the shapes.
LEMMA HostStepType ==
    ASSUME HostAssumption, HostTypeOK, HostNext
    PROVE  HostTypeOK'
<1>1. ASSUME NEW pr \in PR, Push(pr) PROVE HostTypeOK'
    <2>1. head' \in [PR -> Nat] /\ \A p \in PR : head'[p] <= MaxHead[p]
        <3>1. PICK h \in (head[pr] + 1)..MaxHead[pr] : head' = [head EXCEPT ![pr] = h]
            BY <1>1 DEF Push
        <3>2. h \in Nat /\ h <= MaxHead[pr]
            BY <3>1 DEF HostAssumption, HostTypeOK
        <3> QED
            BY <3>1, <3>2 DEF HostTypeOK
    <2>2. approvals' \in [PR -> SUBSET Approvals]
        <3>1. {Dismissed(a) : a \in approvals[pr]} \subseteq Approvals
            BY DismissedType DEF HostTypeOK
        <3> QED
            BY <1>1, <3>1 DEF Push, HostTypeOK
    <2> QED
        BY <1>1, <2>1, <2>2 DEF Push, HostTypeOK
<1>2. ASSUME NEW pr \in PR, ClosePr(pr) PROVE HostTypeOK'
    BY <1>2 DEF ClosePr, HostTypeOK
<1>3. ASSUME NEW pr \in PR, PublishReviews(pr) PROVE HostTypeOK'
    <2>1. PICK r \in ConsistencyReport, q \in CompletenessReport :
              artifacts' = [artifacts EXCEPT ![pr] =
                  [consistency |-> ConsistencyAfter(pr, r),
                   completeness |-> CompletenessAfter(pr, q)]]
        BY <1>3 DEF PublishReviews
    <2>2. /\ JudgmentKey(Content(pr)) \in ReviewKeys
          /\ SweepKey(Content(pr)) \in ReviewKeys
        BY ContentType DEF Content, HostTypeOK
    <2>3. ConsistencyAfter(pr, r) \in ConsistencyArtifacts \cup {None}
        <3> DEFINE key == JudgmentKey(Content(pr))
        <3>1. artifacts[pr].consistency \in ConsistencyArtifacts \cup {None}
            BY DEF HostTypeOK
        <3>2. r \in [format_ok : BOOLEAN, clear : BOOLEAN, open : SUBSET Finding] \cup {None}
            BY DEF HostAssumption
        <3>3. ASSUME r # None
              PROVE  {BindingKey(key, f) : f \in r.open} \subseteq BindingKeys
            BY <2>2, <3>2, <3>3 DEF BindingKey, BindingKeys
        <3> HIDE DEF key
        <3>4. ASSUME r # None
              PROVE  [judgment |-> key, format_ok |-> r.format_ok, review_clear |-> r.clear,
                      open_blocking |-> {BindingKey(key, f) : f \in r.open}]
                         \in ConsistencyArtifacts
            BY <2>2, <3>2, <3>3, <3>4 DEF ConsistencyArtifacts, key
        <3> QED
            BY <3>1, <3>4 DEF ConsistencyAfter, key
    <2>4. CompletenessAfter(pr, q) \in CompletenessArtifacts \cup {None}
        <3> DEFINE key == SweepKey(Content(pr))
        <3>1. artifacts[pr].completeness \in CompletenessArtifacts \cup {None}
            BY DEF HostTypeOK
        <3>2. q \in [clear : BOOLEAN, open : SUBSET Finding] \cup {None}
            BY DEF HostAssumption
        <3>3. ASSUME q # None
              PROVE  {BindingKey(key, f) : f \in q.open} \subseteq BindingKeys
            BY <2>2, <3>2, <3>3 DEF BindingKey, BindingKeys
        <3> HIDE DEF key
        <3>4. ASSUME q # None
              PROVE  [sweep_key |-> key, completeness_clear |-> q.clear,
                      open_blocking |-> {BindingKey(key, f) : f \in q.open}]
                         \in CompletenessArtifacts
            BY <2>2, <3>2, <3>3, <3>4 DEF CompletenessArtifacts, key
        <3> QED
            BY <3>1, <3>4 DEF CompletenessAfter, key
    <2>5. artifacts' \in [PR -> [consistency : ConsistencyArtifacts \cup {None},
                                completeness : CompletenessArtifacts \cup {None}]]
        BY <2>1, <2>3, <2>4 DEF HostTypeOK
    <2> QED
        BY <1>3, <2>5 DEF PublishReviews, HostTypeOK
<1>4. ASSUME NEW pr \in PR PROVE OpenFindings(pr) \subseteq BindingKeys
    <2>1. /\ artifacts[pr].consistency \in ConsistencyArtifacts \cup {None}
          /\ artifacts[pr].completeness \in CompletenessArtifacts \cup {None}
        BY DEF HostTypeOK
    <2> QED
        BY <2>1 DEF OpenFindings, ConsistencyArtifacts, CompletenessArtifacts
<1>5. ASSUME NEW pr \in PR, NEW actor \in Speaker, NEW key \in OpenFindings(pr),
             Comment(pr, actor, key)
      PROVE  HostTypeOK'
    <2> DEFINE c == [key |-> key, author |-> actor, comment_id |-> NextCommentId(pr),
                     edited |-> FALSE, deleted |-> FALSE]
    <2>1. c \in Comments
        BY <1>4, CommentIdType DEF Comments, HostAssumption
    <2>2. Append(channel[pr], c) \in Seq(Comments)
        BY <2>1 DEF HostTypeOK
    <2>3. channel' \in [PR -> Seq(Comments)]
        BY <1>5, <2>2 DEF Comment, HostTypeOK
    <2> QED
        BY <1>5, <2>3 DEF Comment, HostTypeOK
<1>6. ASSUME NEW pr \in PR, NEW id \in 1..MaxComments, NEW key \in OpenFindings(pr),
             EditComment(pr, id, key)
      PROVE  HostTypeOK'
    <2>1. channel[pr] \in Seq(Comments) /\ key \in BindingKeys
        BY <1>4 DEF HostTypeOK
    <2> DEFINE s == channel[pr]
               t == [i \in DOMAIN s |-> IF s[i].comment_id = id
                                        THEN [s[i] EXCEPT !.key = key, !.edited = TRUE]
                                        ELSE s[i]]
    <2>2. \A i \in DOMAIN s : s[i] \in Comments
        BY <2>1
    <2>3. \A i \in DOMAIN s : t[i] \in Comments
        BY <2>1, <2>2, EditedType
    <2>4. t \in Seq(Comments)
        <3> HIDE DEF s
        <3>1. s \in Seq(Comments)
            BY <2>1 DEF s
        <3> QED
            BY <3>1, <2>3, IsASeq
    <2>5. channel' = [channel EXCEPT ![pr] = t]
        BY <1>6 DEF EditComment, HostTypeOK
    <2> HIDE DEF t
    <2>6. channel' \in [PR -> Seq(Comments)]
        BY <2>4, <2>5 DEF HostTypeOK
    <2> QED
        BY <1>6, <2>6 DEF EditComment, HostTypeOK
<1>7. ASSUME NEW pr \in PR, NEW id \in 1..MaxComments, DeleteComment(pr, id)
      PROVE  HostTypeOK'
    <2>1. channel[pr] \in Seq(Comments)
        BY DEF HostTypeOK
    <2> DEFINE s == channel[pr]
               t == [i \in DOMAIN s |-> IF s[i].comment_id = id
                                        THEN [s[i] EXCEPT !.deleted = TRUE]
                                        ELSE s[i]]
    <2>2. \A i \in DOMAIN s : s[i] \in Comments
        BY <2>1
    <2>3. \A i \in DOMAIN s : t[i] \in Comments
        BY <2>1, <2>2, DeletedType
    <2>4. t \in Seq(Comments)
        <3> HIDE DEF s
        <3>1. s \in Seq(Comments)
            BY <2>1 DEF s
        <3> QED
            BY <3>1, <2>3, IsASeq
    <2>5. channel' = [channel EXCEPT ![pr] = t]
        BY <1>7 DEF DeleteComment, HostTypeOK
    <2> HIDE DEF t
    <2>6. channel' \in [PR -> Seq(Comments)]
        BY <2>4, <2>5 DEF HostTypeOK
    <2> QED
        BY <1>7, <2>6 DEF DeleteComment, HostTypeOK
<1>8. ASSUME NEW pr \in PR, NEW i \in DOMAIN channel[pr], Redeliver(pr, i)
      PROVE  HostTypeOK'
    <2>1. Append(channel[pr], channel[pr][i]) \in Seq(Comments)
        BY DEF HostTypeOK
    <2>2. channel' \in [PR -> Seq(Comments)]
        BY <1>8, <2>1 DEF Redeliver, HostTypeOK
    <2> QED
        BY <1>8, <2>2 DEF Redeliver, HostTypeOK
<1>9. ASSUME NEW pr \in PR, NEW actor \in Speaker, Approve(pr, actor)
      PROVE  HostTypeOK'
    <2>1. Content(pr) \in Contents
        BY ContentType DEF Content, HostTypeOK
    <2>2. [approver |-> actor, content |-> Content(pr), dismissed |-> FALSE] \in Approvals
        BY <2>1 DEF Approvals, HostAssumption
    <2>3. approvals' \in [PR -> SUBSET Approvals]
        BY <1>9, <2>2 DEF Approve, HostTypeOK
    <2> QED
        BY <1>9, <2>3 DEF Approve, HostTypeOK
<1>10. ASSUME NEW pr \in PR, NEW a \in approvals[pr], WithdrawApproval(pr, a)
       PROVE  HostTypeOK'
    <2>1. Dismissed(a) \in Approvals
        BY DismissedType DEF HostTypeOK
    <2>2. approvals' \in [PR -> SUBSET Approvals]
        BY <1>10, <2>1 DEF WithdrawApproval, HostTypeOK
    <2> QED
        BY <1>10, <2>2 DEF WithdrawApproval, HostTypeOK
<1>11. ASSUME NEW actor \in RoleChanges, ChangeRole(actor) PROVE HostTypeOK'
    BY <1>11 DEF ChangeRole, HostTypeOK, HostAssumption
<1>12. ASSUME ChangeRuleset PROVE HostTypeOK'
    BY <1>12 DEF ChangeRuleset, HostTypeOK
<1> QED
    BY <1>1, <1>2, <1>3, <1>5, <1>6, <1>7, <1>8, <1>9, <1>10, <1>11, <1>12 DEF HostNext

\* Between merges the heads only grow and main stands still.
LEMMA HostStepFrame ==
    ASSUME HostAssumption, HostTypeOK, HostNext
    PROVE  /\ main' = main
           /\ \A pr \in PR : head'[pr] >= head[pr]
<1>1. ASSUME NEW pr \in PR, Push(pr)
      PROVE  main' = main /\ \A p \in PR : head'[p] >= head[p]
    <2>1. PICK h \in (head[pr] + 1)..MaxHead[pr] : head' = [head EXCEPT ![pr] = h]
        BY <1>1 DEF Push
    <2>2. h \in Int /\ h >= head[pr] /\ head[pr] \in Nat
        BY <2>1 DEF HostTypeOK, HostAssumption
    <2> QED
        BY <1>1, <2>1, <2>2 DEF Push, HostTypeOK
<1>2. ASSUME UNCHANGED <<head, main>>
      PROVE  main' = main /\ \A p \in PR : head'[p] >= head[p]
    BY <1>2 DEF HostTypeOK
<1>3. ASSUME NEW pr \in PR, ClosePr(pr) \/ PublishReviews(pr)
      PROVE  UNCHANGED <<head, main>>
    BY <1>3 DEF ClosePr, PublishReviews
<1>4. ASSUME NEW pr \in PR, NEW actor, NEW key, NEW id,
             \/ Comment(pr, actor, key) \/ EditComment(pr, id, key)
             \/ DeleteComment(pr, id) \/ Redeliver(pr, id)
      PROVE  UNCHANGED <<head, main>>
    BY <1>4 DEF Comment, EditComment, DeleteComment, Redeliver
<1>5. ASSUME NEW pr \in PR, NEW actor, NEW a,
             Approve(pr, actor) \/ WithdrawApproval(pr, a)
      PROVE  UNCHANGED <<head, main>>
    BY <1>5 DEF Approve, WithdrawApproval
<1>6. ASSUME NEW actor, ChangeRole(actor) \/ ChangeRuleset
      PROVE  UNCHANGED <<head, main>>
    BY <1>6 DEF ChangeRole, ChangeRuleset
<1> QED
    BY <1>1, <1>2, <1>3, <1>4, <1>5, <1>6 DEF HostNext

\* A merge appends one well-formed landing, under the keys it was given.
LEMMA LandType ==
    ASSUME HostAssumption, HostTypeOK, NEW pr \in PR,
           NEW j \in ReviewKeys, NEW s \in ReviewKeys, Land(pr, j, s)
    PROVE  HostTypeOK'
<1>1. Content(pr) \in Contents /\ head[pr] \in Nat
    BY ContentType, HeadType DEF Content
<1>2. [pr |-> pr, head |-> head[pr], landed |-> Content(pr),
       judgment |-> j, completeness |-> s] \in Landings
    BY <1>1 DEF Landings
<1>3. main' \in Seq(Landings)
    BY <1>2 DEF Land, HostTypeOK
<1> QED
    BY <1>3 DEF Land, HostTypeOK

----------------------------------------------------------------------------

\* A bounded set of numbers that is not empty has a greatest one.
LEMMA GreatestExists ==
    ASSUME NEW S \in SUBSET Nat, S # {}, NEW n \in Nat, \A s \in S : s <= n
    PROVE  \E m \in S : \A s \in S : s <= m
<1> DEFINE T == {b \in Nat : \A s \in S : s <= b}
<1>1. n \in T
    OBVIOUS
<1>2. IsWellFoundedOn(OpToRel(<, Nat), Nat)
    BY NatLessThanWellFounded
<1> HIDE DEF T
<1>3. PICK m \in T : \A b \in T : ~ (<<b, m>> \in OpToRel(<, Nat))
    <2>1. T \subseteq Nat
        BY DEF T
    <2> QED
        BY <1>1, <1>2, <2>1, WFMin
<1>4. m \in Nat /\ \A s \in S : s <= m
    BY DEF T
<1>5. \A b \in T : b \in Nat => ~(b < m)
    BY <1>3, <1>4 DEF OpToRel
<1>6. m \in S
    <2>1. SUFFICES ASSUME m \notin S PROVE FALSE
        OBVIOUS
    <2>2. ASSUME NEW s \in S PROVE s \in Nat /\ m > 0 /\ s <= m - 1
        <3>1. s \in Nat /\ s <= m /\ s # m
            BY <1>4, <2>1
        <3> QED
            BY <1>4, <3>1
    <2>3. m - 1 \in Nat /\ m - 1 < m
        <3>1. PICK s : s \in S
            OBVIOUS
        <3>2. m > 0
            BY <2>2, <3>1
        <3> QED
            BY <1>4, <3>2
    <2>4. m - 1 \in T
        BY <2>2, <2>3 DEF T
    <2> QED
        BY <1>5, <2>3, <2>4
<1> QED
    BY <1>4, <1>6

----------------------------------------------------------------------------
\* The positions that count and speak about a finding, and the ids found there.
About(pr, finding) == {i \in Counts(pr) : channel[pr][i].key = finding}
Ids(pr, finding) == {channel[pr][i].comment_id : i \in About(pr, finding)}

\* Comment ids are handed out in order: none is beyond the length of its stream.
Numbered(pr) == \A i \in DOMAIN channel[pr] : channel[pr][i].comment_id <= Len(channel[pr])

\* The gate's valid decisions on a finding are the entries that count for it.
LEMMA ValidIsAbout ==
    ASSUME NEW pr \in PR, NEW b
    PROVE  /\ ValidDecisions(ReadSet(pr), b) = About(pr, b)
           /\ \A i \in About(pr, b) :
                 /\ ReadSet(pr).decisions[i].comment_id = channel[pr][i].comment_id
                 /\ ReadSet(pr).decisions[i].edited = channel[pr][i].edited
<1>1. /\ ReadSet(pr).decisions = ReadChannelDecisions(pr)
      /\ ReadSet(pr).meta.author = Author[pr]
      /\ ReadSet(pr).allowlist = Allowlist
    BY DEF ReadSet, ReadPrMetadata
<1>2. DOMAIN ReadChannelDecisions(pr) = DOMAIN channel[pr]
    BY DEF ReadChannelDecisions
<1>3. ASSUME NEW i \in DOMAIN channel[pr]
      PROVE  /\ ReadChannelDecisions(pr)[i].key = channel[pr][i].key
             /\ ReadChannelDecisions(pr)[i].author = channel[pr][i].author
             /\ ReadChannelDecisions(pr)[i].comment_id = channel[pr][i].comment_id
             /\ ReadChannelDecisions(pr)[i].edited = channel[pr][i].edited
             /\ ReadChannelDecisions(pr)[i].deleted = channel[pr][i].deleted
             /\ ReadChannelDecisions(pr)[i].author_role = RoleOf(channel[pr][i].author)
             /\ ReadChannelDecisions(pr)[i].author_is_human = (channel[pr][i].author \in Human)
    BY DEF ReadChannelDecisions
<1>4. ASSUME NEW i \in DOMAIN channel[pr]
      PROVE  ValidDecision(ReadSet(pr), b, ReadSet(pr).decisions[i]) <=> i \in About(pr, b)
    <2>1. RoleOf(channel[pr][i].author) = "admin" <=> channel[pr][i].author \in admins
        BY DEF RoleOf
    <2> QED
        BY <1>1, <1>3, <2>1 DEF ValidDecision, Authorized, About, Counts, MayDecide
<1>5. About(pr, b) \subseteq DOMAIN channel[pr]
    BY DEF About, Counts
<1> QED
    BY <1>1, <1>2, <1>3, <1>4, <1>5 DEF ValidDecisions

\* They are finitely many, with bounded numbers for ids; and none of them shares
\* its id with another exactly when there are as many ids as entries.
LEMMA AboutIds ==
    ASSUME HostTypeOK, NEW pr \in PR, Numbered(pr), NEW b
    PROVE  /\ IsFiniteSet(About(pr, b))
           /\ Ids(pr, b) \subseteq Nat
           /\ Len(channel[pr]) \in Nat /\ \A id \in Ids(pr, b) : id <= Len(channel[pr])
           /\ Cardinality(Ids(pr, b)) = Cardinality(About(pr, b))
              <=> \A i, j \in About(pr, b) :
                     channel[pr][i].comment_id = channel[pr][j].comment_id => i = j
<1>1. channel[pr] \in Seq(Comments)
    BY DEF HostTypeOK
<1>2. DOMAIN channel[pr] = 1..Len(channel[pr]) /\ Len(channel[pr]) \in Nat
    BY <1>1
<1>3. ASSUME NEW i \in DOMAIN channel[pr] PROVE channel[pr][i].comment_id \in Nat
    <2>1. channel[pr][i] \in Comments
        BY <1>1
    <2> QED
        BY <2>1 DEF Comments
<1>4. About(pr, b) \subseteq DOMAIN channel[pr]
    BY DEF About, Counts
<1>5. IsFiniteSet(About(pr, b))
    <2>1. IsFiniteSet(DOMAIN channel[pr])
        BY <1>2, FS_Interval
    <2> QED
        BY <1>4, <2>1, FS_Subset
<1> DEFINE idOf == [i \in About(pr, b) |-> channel[pr][i].comment_id]
<1>6. idOf \in Surjection(About(pr, b), Ids(pr, b))
    BY DEF Surjection, Ids
<1>7. idOf \in Injection(About(pr, b), Ids(pr, b))
      <=> \A i, j \in About(pr, b) :
             channel[pr][i].comment_id = channel[pr][j].comment_id => i = j
    BY <1>6 DEF Injection, IsInjective, Surjection
<1>8. Cardinality(Ids(pr, b)) = Cardinality(About(pr, b))
      <=> idOf \in Injection(About(pr, b), Ids(pr, b))
    BY <1>5, <1>6, FS_Surjection
<1> QED
    BY <1>2, <1>3, <1>4, <1>5, <1>7, <1>8 DEF Ids, Numbered

\* Checks 8, 11 and 9 pass for a finding exactly when it is settled.
LEMMA ResolvedIsSettled ==
    ASSUME HostTypeOK, NEW pr \in PR, Numbered(pr), NEW b
    PROVE  (/\ ~Unresolved(ReadSet(pr), b)
            /\ ~Conflicting(ReadSet(pr), b)
            /\ ~Tampered(ReadSet(pr), b)) <=> Settled(pr, b)
<1> DEFINE A == About(pr, b)
           id(i) == channel[pr][i].comment_id
<1>1. /\ Unresolved(ReadSet(pr), b) <=> A = {}
      /\ Conflicting(ReadSet(pr), b) <=> \E i, j \in A : i # j /\ id(i) = id(j)
      /\ Tampered(ReadSet(pr), b) <=>
            \E i \in A : (\A j \in A : id(j) <= id(i)) /\ channel[pr][i].edited
    BY ValidIsAbout DEF Unresolved, Conflicting, Tampered
<1>2. Settled(pr, b) <=>
          /\ Cardinality(Ids(pr, b)) = Cardinality(A)
          /\ \E i \in A : (\A j \in A : id(j) <= id(i)) /\ ~channel[pr][i].edited
    BY DEF Settled, About, Ids
<1>3. Cardinality(Ids(pr, b)) = Cardinality(A) <=> \A i, j \in A : id(i) = id(j) => i = j
    BY AboutIds
<1>4. ASSUME A # {} PROVE \E i \in A : \A j \in A : id(j) <= id(i)
    <2>1. Ids(pr, b) # {} /\ Ids(pr, b) \in SUBSET Nat
        <3>1. PICK i : i \in A
            BY <1>4
        <3>2. channel[pr][i].comment_id \in Ids(pr, b)
            BY <3>1 DEF Ids
        <3> QED
            BY <3>2, AboutIds
    <2>2. \E m \in Ids(pr, b) : \A s \in Ids(pr, b) : s <= m
        <3>1. PICK n, S : n = Len(channel[pr]) /\ S = Ids(pr, b)
            OBVIOUS
        <3>2. n \in Nat /\ S \in SUBSET Nat /\ S # {} /\ \A s \in S : s <= n
            BY <2>1, <3>1, AboutIds
        <3>3. \E m \in S : \A s \in S : s <= m
            BY <3>2, GreatestExists
        <3> QED
            BY <3>1, <3>3
    <2> QED
        BY <2>2 DEF Ids
<1>5. ASSUME NEW i \in A, NEW j \in A, id(i) <= id(j), id(j) <= id(i) PROVE id(i) = id(j)
    <2>1. id(i) \in Nat /\ id(j) \in Nat
        BY AboutIds DEF Ids
    <2> QED
        BY <1>5, <2>1
<1> HIDE DEF A, id
<1> QED
    BY <1>1, <1>2, <1>3, <1>4, <1>5

----------------------------------------------------------------------------
\* Three passes over the findings, one after the other, refuse none exactly when
\* each finding passes all three.
LEMMA ResolveGreen ==
    ASSUME NEW inputs, NEW artifact
    PROVE  /\ ResolveOpenBlocking(inputs, artifact) = Green <=>
                \A b \in artifact.open_blocking :
                    /\ ~Unresolved(inputs, b)
                    /\ ~Conflicting(inputs, b)
                    /\ ~Tampered(inputs, b)
           /\ ResolveOpenBlocking(inputs, artifact) # Green =>
                ResolveOpenBlocking(inputs, artifact).status = "RED"
<1>1. /\ Red("unresolved blocking finding") # Green
      /\ Red("conflicting decisions at same comment_id") # Green
      /\ Red("tampered decision") # Green
    BY DEF Red, Green
<1>2. \A reason : Red(reason).status = "RED"
    BY DEF Red
<1> DEFINE U == \E b \in artifact.open_blocking : Unresolved(inputs, b)
           C == \E b \in artifact.open_blocking : Conflicting(inputs, b)
           T == \E b \in artifact.open_blocking : Tampered(inputs, b)
<1>3. ResolveOpenBlocking(inputs, artifact) =
          IF U THEN Red("unresolved blocking finding")
          ELSE IF C THEN Red("conflicting decisions at same comment_id")
          ELSE IF T THEN Red("tampered decision")
          ELSE Green
    BY DEF ResolveOpenBlocking
<1>4. ~U /\ ~C /\ ~T <=> \A b \in artifact.open_blocking :
                             /\ ~Unresolved(inputs, b)
                             /\ ~Conflicting(inputs, b)
                             /\ ~Tampered(inputs, b)
    OBVIOUS
<1> HIDE DEF U, C, T
<1>5. /\ ResolveOpenBlocking(inputs, artifact) = Green <=> ~U /\ ~C /\ ~T
      /\ ResolveOpenBlocking(inputs, artifact) # Green =>
            ResolveOpenBlocking(inputs, artifact).status = "RED"
    BY <1>1, <1>2, <1>3
<1> QED
    BY <1>4, <1>5

\* The early returns of the SoT checks leave GREEN exactly for their conjunction.
LEMMA SotGreen ==
    ASSUME NEW inputs
    PROVE  LET r == inputs.consistency_artifact
               q == inputs.completeness_artifact
           IN  EvaluateSot(inputs).status = "GREEN" <=>
                   /\ inputs.meta.sot_ref /\ ~inputs.meta.fork
                   /\ r # None /\ q # None
                   /\ ~Malformed(r.review_clear, r)
                   /\ ~Malformed(q.completeness_clear, q)
                   /\ r.format_ok
                   /\ r.judgment = inputs.landing_judgment
                   /\ q.sweep_key = inputs.landing_completeness
                   /\ ResolveOpenBlocking(inputs, r) = Green
                   /\ ResolveOpenBlocking(inputs, q) = Green
                   /\ ValidSotApprovalExists(inputs)
<1>1. \A reason : Red(reason).status # "GREEN"
    BY DEF Red
<1>2. Green.status = "GREEN"
    BY DEF Green
<1>3. \A artifact : ResolveOpenBlocking(inputs, artifact) # Green =>
                        ResolveOpenBlocking(inputs, artifact).status # "GREEN"
    BY ResolveGreen
<1> QED
    BY <1>1, <1>2, <1>3 DEF EvaluateSot

\* So do those of the three branches.
LEMMA GateGreen ==
    ASSUME NEW inputs
    PROVE  EvaluateGate(inputs).status = "GREEN" <=>
               /\ inputs.meta.state = "OPEN"
               /\ inputs.meta.touches_sot => EvaluateSot(inputs).status = "GREEN"
               /\ ~inputs.meta.touches_sot /\ inputs.meta.touches_enforcement_surface =>
                      /\ ~inputs.meta.fork
                      /\ \E a \in inputs.approvals : AuthorizedApproval(inputs, a)
<1>1. \A reason : Red(reason).status # "GREEN"
    BY DEF Red
<1>2. Green.status = "GREEN"
    BY DEF Green
<1> QED
    BY <1>1, <1>2 DEF EvaluateGate, EvaluateEnforcementSurface

----------------------------------------------------------------------------
\* Each artifact is kept under the kind of key its review computes.
Keyed(pr) ==
    /\ artifacts[pr].consistency # None =>
           artifacts[pr].consistency.judgment.kind = "judgment"
    /\ artifacts[pr].completeness # None =>
           artifacts[pr].completeness.sweep_key.kind = "sweep"

\* The inductive invariant.
ChannelInv ==
    /\ HostTypeOK
    /\ main = <<>>
    /\ \A pr \in PR : Keyed(pr) /\ Numbered(pr)

\* An approval counts for the gate exactly when it is one of the present content
\* by someone who may decide.
LEMMA ApprovedExactly ==
    ASSUME HostAssumption, HostTypeOK, NEW pr \in PR
    PROVE  /\ pr \in TouchesSot => (ValidSotApprovalExists(ReadSet(pr)) <=> Approved(pr))
           /\ pr \notin TouchesSot =>
                 ((\E a \in ReadSet(pr).approvals : AuthorizedApproval(ReadSet(pr), a))
                     <=> Approved(pr))
<1> DEFINE View(a) ==
        [approver |-> a.approver,
         approved_judgment |-> JudgmentKey(a.content),
         approved_completeness |-> SweepKey(a.content),
         approver_role |-> RoleOf(a.approver), approver_is_human |-> a.approver \in Human,
         dismissed |-> a.dismissed]
<1>1. /\ ReadSet(pr).approvals = {View(a) : a \in approvals[pr]}
      /\ ReadSet(pr).meta.author = Author[pr] /\ ReadSet(pr).allowlist = Allowlist
      /\ ReadSet(pr).landing_judgment = JudgmentKey(Content(pr))
      /\ ReadSet(pr).landing_completeness = SweepKey(Content(pr))
    BY DEF ReadSet, ReadApprovals, ReadPrMetadata
<1>2. ASSUME NEW a \in approvals[pr]
      PROVE  /\ AuthorizedApproval(ReadSet(pr), View(a)) <=>
                    ~a.dismissed /\ MayDecide(a.approver, pr)
             /\ ValidSotApproval(ReadSet(pr), View(a)) <=>
                    ~a.dismissed /\ MayDecide(a.approver, pr) /\ a.content = Content(pr)
    <2>1. RoleOf(a.approver) = "admin" <=> a.approver \in admins
        BY DEF RoleOf
    <2>2. (/\ JudgmentKey(a.content) = JudgmentKey(Content(pr))
           /\ SweepKey(a.content) = SweepKey(Content(pr)))
          <=> a.content = Content(pr)
        <3>1. a.content \in Contents /\ Content(pr) \in Contents
            BY ContentType, HeadType DEF HostTypeOK, Approvals, Content
        <3> QED
            BY <3>1, KeysDetermine
    <2> QED
        BY <1>1, <2>1, <2>2 DEF AuthorizedApproval, ValidSotApproval, Authorized, MayDecide
<1> HIDE DEF View
<1> QED
    BY <1>1, <1>2 DEF ValidSotApprovalExists, Approved

\* A SoT read-set is GREEN exactly when its PR is reviewed and approved.
LEMMA SotExactly ==
    ASSUME HostAssumption, HostTypeOK, NEW pr \in TouchesSot, pr \in PR, Keyed(pr), Numbered(pr)
    PROVE  EvaluateSot(ReadSet(pr)).status = "GREEN" <=>
               pr \in SotRef /\ pr \notin Fork /\ Reviewed(pr) /\ Approved(pr)
<1> DEFINE r == artifacts[pr].consistency
           q == artifacts[pr].completeness
<1>1. /\ ReadSet(pr).consistency_artifact = r /\ ReadSet(pr).completeness_artifact = q
      /\ ReadSet(pr).meta.sot_ref = (pr \in SotRef) /\ ReadSet(pr).meta.fork = (pr \in Fork)
      /\ ReadSet(pr).landing_judgment = JudgmentKey(Content(pr))
      /\ ReadSet(pr).landing_completeness = SweepKey(Content(pr))
    BY DEF ReadSet, ReadPrMetadata
<1>2. r \in ConsistencyArtifacts \cup {None} /\ q \in CompletenessArtifacts \cup {None}
    BY DEF HostTypeOK
<1>3. ASSUME r # None
      PROVE  r.judgment = JudgmentKey(Content(pr)) <=> r.judgment.content = Content(pr).judged
    <2>1. r.judgment \in ReviewKeys /\ r.judgment.kind = "judgment"
        BY <1>2, <1>3 DEF ConsistencyArtifacts, Keyed
    <2> QED
        BY <2>1 DEF ReviewKeys, JudgmentKey
<1>4. ASSUME q # None
      PROVE  q.sweep_key = SweepKey(Content(pr)) <=> q.sweep_key.content = Content(pr).swept
    <2>1. q.sweep_key \in ReviewKeys /\ q.sweep_key.kind = "sweep"
        BY <1>2, <1>4 DEF CompletenessArtifacts, Keyed
    <2> QED
        BY <2>1 DEF ReviewKeys, SweepKey
<1>5. ASSUME r # None
      PROVE  Malformed(r.review_clear, r) <=> ~(r.review_clear <=> r.open_blocking = {})
    BY <1>2, <1>5 DEF Malformed, ConsistencyArtifacts
<1>6. ASSUME q # None
      PROVE  Malformed(q.completeness_clear, q)
             <=> ~(q.completeness_clear <=> q.open_blocking = {})
    BY <1>2, <1>6 DEF Malformed, CompletenessArtifacts
<1>7. ASSUME NEW artifact
      PROVE  ResolveOpenBlocking(ReadSet(pr), artifact) = Green
             <=> \A b \in artifact.open_blocking : Settled(pr, b)
    BY ResolveGreen, ResolvedIsSettled
<1>8. ASSUME r # None, q # None
      PROVE  OpenFindings(pr) = r.open_blocking \cup q.open_blocking
    BY <1>8 DEF OpenFindings
<1>9. Approved(pr) <=> ValidSotApprovalExists(ReadSet(pr))
    BY ApprovedExactly
<1>10. EvaluateSot(ReadSet(pr)).status = "GREEN" <=>
           /\ pr \in SotRef /\ pr \notin Fork
           /\ r # None /\ q # None
           /\ ~Malformed(r.review_clear, r) /\ ~Malformed(q.completeness_clear, q)
           /\ r.format_ok
           /\ r.judgment = JudgmentKey(Content(pr))
           /\ q.sweep_key = SweepKey(Content(pr))
           /\ ResolveOpenBlocking(ReadSet(pr), r) = Green
           /\ ResolveOpenBlocking(ReadSet(pr), q) = Green
           /\ Approved(pr)
    <2>1. PICK inputs : inputs = ReadSet(pr)
        OBVIOUS
    <2> QED
        BY <1>1, <1>9, <2>1, SotGreen
<1>11. Reviewed(pr) <=>
           /\ r # None /\ q # None
           /\ r.judgment.content = Content(pr).judged
           /\ q.sweep_key.content = Content(pr).swept
           /\ r.format_ok
           /\ r.review_clear <=> r.open_blocking = {}
           /\ q.completeness_clear <=> q.open_blocking = {}
           /\ \A b \in OpenFindings(pr) : Settled(pr, b)
    BY DEF Reviewed
<1> HIDE DEF r, q
<1> QED
    BY <1>3, <1>4, <1>5, <1>6, <1>7, <1>8, <1>10, <1>11

\* The verdict on a PR whose state is well kept is GREEN exactly when it is complete.
LEMMA VerdictExactly ==
    ASSUME HostAssumption, ChannelInv, NEW pr \in PR
    PROVE  (Verdict(pr).status = "GREEN") <=> Complete(pr)
<1>1. /\ ReadSet(pr).meta.state = prState[pr]
      /\ ReadSet(pr).meta.touches_sot = (pr \in TouchesSot)
      /\ ReadSet(pr).meta.touches_enforcement_surface = (pr \in TouchesSurface)
      /\ ReadSet(pr).meta.fork = (pr \in Fork)
    BY DEF ReadSet, ReadPrMetadata
<1>2. Verdict(pr).status = "GREEN" <=>
          /\ prState[pr] = "OPEN"
          /\ pr \in TouchesSot => EvaluateSot(ReadSet(pr)).status = "GREEN"
          /\ pr \notin TouchesSot /\ pr \in TouchesSurface =>
                /\ pr \notin Fork
                /\ \E a \in ReadSet(pr).approvals : AuthorizedApproval(ReadSet(pr), a)
    <2>1. PICK inputs : inputs = ReadSet(pr)
        OBVIOUS
    <2> QED
        BY <1>1, <2>1, GateGreen DEF Verdict
<1>3. HostTypeOK /\ Keyed(pr) /\ Numbered(pr)
    BY DEF ChannelInv
<1>4. CASE pr \in TouchesSot
    BY <1>2, <1>3, <1>4, SotExactly DEF Complete
<1>5. CASE pr \notin TouchesSot
    BY <1>2, <1>3, <1>5, ApprovedExactly DEF Complete
<1> QED
    BY <1>4, <1>5

----------------------------------------------------------------------------
\* The steps of the host keep the invariant.

\* What a push, a run of the reviews or anything else leaves of the artifacts.
LEMMA KeyedStep ==
    ASSUME HostAssumption, ChannelInv, HostNext, NEW pr \in PR
    PROVE  Keyed(pr)'
<1>1. HostTypeOK /\ Keyed(pr)
    BY DEF ChannelInv
<1>4. CASE artifacts'[pr] = artifacts[pr]
    BY <1>1, <1>4 DEF Keyed
<1>5. CASE PublishReviews(pr)
    <2>1. PICK r \in ConsistencyReport, q \in CompletenessReport :
              artifacts' = [artifacts EXCEPT ![pr] =
                  [consistency |-> ConsistencyAfter(pr, r),
                   completeness |-> CompletenessAfter(pr, q)]]
        BY <1>5 DEF PublishReviews
    <2>2. /\ artifacts'[pr].consistency = ConsistencyAfter(pr, r)
          /\ artifacts'[pr].completeness = CompletenessAfter(pr, q)
        BY <1>1, <1>5, <2>1 DEF HostTypeOK
    <2>3. ConsistencyAfter(pr, r) # None => ConsistencyAfter(pr, r).judgment.kind = "judgment"
        BY <1>1 DEF ConsistencyAfter, Keyed, JudgmentKey
    <2>4. CompletenessAfter(pr, q) # None => CompletenessAfter(pr, q).sweep_key.kind = "sweep"
        BY <1>1 DEF CompletenessAfter, Keyed, SweepKey
    <2> QED
        BY <2>2, <2>3, <2>4 DEF Keyed
<1>6. ASSUME NEW p \in PR, Push(p) \/ ClosePr(p) PROVE artifacts' = artifacts
    BY <1>6 DEF Push, ClosePr
<1>7. ASSUME NEW p \in PR \ {pr}, PublishReviews(p) PROVE artifacts'[pr] = artifacts[pr]
    BY <1>1, <1>7 DEF PublishReviews, HostTypeOK
<1>8. ASSUME NEW p \in PR, NEW x, NEW y, NEW z,
             \/ Comment(p, x, y) \/ EditComment(p, z, y) \/ DeleteComment(p, z)
             \/ Redeliver(p, z) \/ Approve(p, x) \/ WithdrawApproval(p, z)
      PROVE  artifacts' = artifacts
    BY <1>8 DEF Comment, EditComment, DeleteComment, Redeliver, Approve, WithdrawApproval
<1>9. ASSUME NEW x, ChangeRole(x) \/ ChangeRuleset PROVE artifacts' = artifacts
    BY <1>9 DEF ChangeRole, ChangeRuleset
<1>10. CASE \E p \in PR : PublishReviews(p)
    BY <1>4, <1>5, <1>7, <1>10
<1> QED
    BY <1>4, <1>6, <1>8, <1>9, <1>10 DEF HostNext

\* The next id is no greater than the stream will be long.
LEMMA NextIdInStream ==
    ASSUME HostTypeOK, NEW pr \in PR
    PROVE  NextCommentId(pr) <= Len(channel[pr]) + 1
<1>1. channel[pr] \in Seq(Comments)
    BY DEF HostTypeOK
<1>2. DOMAIN channel[pr] = 1..Len(channel[pr]) /\ Len(channel[pr]) \in Nat
    BY <1>1
<1>3. IsFiniteSet(DOMAIN channel[pr]) /\ Cardinality(DOMAIN channel[pr]) = Len(channel[pr])
    BY <1>2, FS_Interval
<1> DEFINE ids == {channel[pr][i].comment_id : i \in DOMAIN channel[pr]}
           idOf == [i \in DOMAIN channel[pr] |-> channel[pr][i].comment_id]
<1>4. idOf \in Surjection(DOMAIN channel[pr], ids)
    BY DEF Surjection
<1>5. IsFiniteSet(ids) /\ Cardinality(ids) <= Cardinality(DOMAIN channel[pr])
    BY <1>3, <1>4, FS_Surjection
<1>6. Cardinality(ids) \in Nat
    BY <1>5, FS_CardinalityType
<1> QED
    BY <1>2, <1>3, <1>5, <1>6 DEF NextCommentId

\* Streams grow by one entry, or keep their length and their ids.
LEMMA NumberedStep ==
    ASSUME HostAssumption, ChannelInv, HostNext, NEW pr \in PR
    PROVE  Numbered(pr)'
<1>1. HostTypeOK /\ Numbered(pr) /\ channel[pr] \in Seq(Comments)
    BY DEF ChannelInv, HostTypeOK
<1>2. CASE channel'[pr] = channel[pr]
    BY <1>1, <1>2 DEF Numbered
<1>3. ASSUME NEW entry \in Comments, channel'[pr] = Append(channel[pr], entry),
             entry.comment_id <= Len(channel[pr]) + 1
      PROVE  Numbered(pr)'
    <2>1. \A i \in DOMAIN channel[pr] : channel[pr][i] \in Comments
        BY <1>1
    <2>2. \A i \in DOMAIN channel[pr] : channel[pr][i].comment_id \in Nat
        BY <2>1 DEF Comments
    <2>3. /\ Len(channel'[pr]) = Len(channel[pr]) + 1 /\ Len(channel[pr]) \in Nat
          /\ DOMAIN channel'[pr] = DOMAIN channel[pr] \cup {Len(channel[pr]) + 1}
          /\ channel'[pr][Len(channel[pr]) + 1] = entry
          /\ \A i \in DOMAIN channel[pr] : channel'[pr][i] = channel[pr][i]
        BY <1>1, <1>3
    <2>4. ASSUME NEW i \in DOMAIN channel[pr]
          PROVE  channel'[pr][i].comment_id <= Len(channel'[pr])
        BY <1>1, <2>2, <2>3 DEF Numbered
    <2> QED
        BY <1>3, <2>3, <2>4 DEF Numbered
<1>4. ASSUME DOMAIN channel'[pr] = DOMAIN channel[pr], channel'[pr] \in Seq(Comments),
             \A i \in DOMAIN channel[pr] : channel'[pr][i].comment_id = channel[pr][i].comment_id
      PROVE  Numbered(pr)'
    <2>1. Len(channel'[pr]) = Len(channel[pr])
        BY <1>1, <1>4
    <2> QED
        BY <1>1, <1>4, <2>1 DEF Numbered
<1>5. channel'[pr] \in Seq(Comments)
    BY <1>1, HostStepType DEF HostTypeOK
<1>6. ASSUME NEW p \in PR, NEW x \in Speaker, NEW y \in OpenFindings(p), Comment(p, x, y)
      PROVE  Numbered(pr)'
    <2>1. CASE p # pr
        BY <1>1, <1>2, <1>6, <2>1 DEF Comment, HostTypeOK
    <2>2. CASE p = pr
        <3>1. PICK entry : /\ entry.comment_id = NextCommentId(pr)
                           /\ channel'[pr] = Append(channel[pr], entry)
            <4>1. PICK e : /\ e.comment_id = NextCommentId(pr)
                           /\ e = [key |-> y, author |-> x, comment_id |-> NextCommentId(pr),
                                   edited |-> FALSE, deleted |-> FALSE]
                OBVIOUS
            <4>2. channel' = [channel EXCEPT ![pr] = Append(@, e)]
                BY <1>6, <2>2, <4>1 DEF Comment
            <4> QED
                BY <1>1, <4>1, <4>2 DEF HostTypeOK
        <3>2. entry \in Comments
            <4>1. Len(channel'[pr]) \in DOMAIN channel'[pr]
                     /\ channel'[pr][Len(channel'[pr])] = entry
                BY <1>1, <3>1
            <4> QED
                BY <1>5, <4>1
        <3> QED
            BY <1>1, <1>3, <3>1, <3>2, NextIdInStream
    <2> QED
        BY <2>1, <2>2
<1>7. ASSUME NEW p \in PR, NEW j \in DOMAIN channel[p], Redeliver(p, j)
      PROVE  Numbered(pr)'
    <2>1. CASE p # pr
        BY <1>1, <1>2, <1>7, <2>1 DEF Redeliver, HostTypeOK
    <2>2. CASE p = pr
        <3>1. channel'[pr] = Append(channel[pr], channel[pr][j])
            BY <1>1, <1>7, <2>2 DEF Redeliver, HostTypeOK
        <3>2. channel[pr][j] \in Comments /\ channel[pr][j].comment_id <= Len(channel[pr])
            BY <1>1, <1>7, <2>2 DEF Numbered
        <3>3. channel[pr][j].comment_id <= Len(channel[pr]) + 1
            <4>1. channel[pr][j].comment_id \in Nat /\ Len(channel[pr]) \in Nat
                BY <1>1, <3>2 DEF Comments
            <4> QED
                BY <3>2, <4>1
        <3> QED
            BY <1>3, <3>1, <3>2, <3>3
    <2> QED
        BY <2>1, <2>2
<1>8. ASSUME NEW p \in PR, NEW id, NEW y, EditComment(p, id, y) \/ DeleteComment(p, id)
      PROVE  Numbered(pr)'
    <2>1. CASE p # pr
        BY <1>1, <1>2, <1>8, <2>1 DEF EditComment, DeleteComment, HostTypeOK
    <2>2. CASE p = pr
        <3>1. /\ DOMAIN channel'[pr] = DOMAIN channel[pr]
              /\ \A i \in DOMAIN channel[pr] :
                    \/ channel'[pr][i] = channel[pr][i]
                    \/ channel'[pr][i] = [channel[pr][i] EXCEPT !.key = y, !.edited = TRUE]
                    \/ channel'[pr][i] = [channel[pr][i] EXCEPT !.deleted = TRUE]
            <4>1. CASE EditComment(p, id, y)
                BY <1>1, <2>2, <4>1 DEF EditComment, HostTypeOK
            <4>2. CASE DeleteComment(p, id)
                BY <1>1, <2>2, <4>2 DEF DeleteComment, HostTypeOK
            <4> QED
                BY <1>8, <4>1, <4>2
        <3>2. \A i \in DOMAIN channel[pr] : channel[pr][i] \in Comments
            BY <1>1
        <3>3. \A i \in DOMAIN channel[pr] :
                  channel'[pr][i].comment_id = channel[pr][i].comment_id
            BY <3>1, <3>2 DEF Comments
        <3> QED
            BY <1>4, <1>5, <3>1, <3>3
    <2> QED
        BY <2>1, <2>2
<1>9. ASSUME NEW p \in PR, NEW x, NEW z,
             \/ Push(p) \/ ClosePr(p) \/ PublishReviews(p) \/ Approve(p, x)
             \/ WithdrawApproval(p, z)
      PROVE  channel' = channel
    BY <1>9 DEF Push, ClosePr, PublishReviews, Approve, WithdrawApproval
<1>10. ASSUME NEW x, ChangeRole(x) \/ ChangeRuleset PROVE channel' = channel
    BY <1>10 DEF ChangeRole, ChangeRuleset
<1> QED
    BY <1>2, <1>6, <1>7, <1>8, <1>9, <1>10 DEF HostNext

\* Nothing is published, said or landed at the start.
LEMMA InitChannelInv ==
    ASSUME HostAssumption, HostInit
    PROVE  ChannelInv
<1>1. HostTypeOK
    BY HostInitType
<1>2. ASSUME NEW pr \in PR PROVE Keyed(pr) /\ Numbered(pr)
    <2>1. /\ artifacts[pr].consistency = None /\ artifacts[pr].completeness = None
          /\ channel[pr] = <<>>
        BY DEF HostInit
    <2> QED
        BY <2>1 DEF Keyed, Numbered
<1> QED
    BY <1>1, <1>2 DEF ChannelInv, HostInit

LEMMA NextChannelInv ==
    ASSUME HostAssumption, ChannelInv, [HostNext]_hostVars
    PROVE  ChannelInv'
<1>1. CASE HostNext
    <2>1. HostTypeOK' /\ main' = <<>>
        BY <1>1, HostStepType, HostStepFrame DEF ChannelInv
    <2> QED
        BY <1>1, <2>1, KeyedStep, NumberedStep DEF ChannelInv
<1>2. CASE UNCHANGED hostVars
    BY <1>2 DEF hostVars, ChannelInv, HostTypeOK, Keyed, Numbered
<1> QED
    BY <1>1, <1>2

\* On the host alone, artifacts are kept under keys of their own kind, and
\* comment ids stay within their stream.
THEOREM ChannelInvariance == ChannelSpec => []ChannelInv
<1>1. HostInit => ChannelInv
    BY HostAssumption, InitChannelInv
<1>2. ChannelInv /\ [HostNext]_hostVars => ChannelInv'
    BY HostAssumption, NextChannelInv
<1> QED
    BY <1>1, <1>2, PTL DEF ChannelSpec

\* The gate is GREEN for the complete PRs and for no other, whatever people, the
\* review CI and the adapter's faults make of the channel.
THEOREM GateIsExact == ChannelSpec => []GreenExactlyWhenComplete
<1>1. ChannelInv => GreenExactlyWhenComplete
    BY HostAssumption, VerdictExactly DEF GreenExactlyWhenComplete
<1> QED
    BY <1>1, ChannelInvariance, PTL

----------------------------------------------------------------------------
\* On the host alone nothing lands: content is what the commit itself brings.
LEMMA OwnContent ==
    ASSUME main = <<>>, NEW pr \in TouchesSot
    PROVE  Content(pr) = [judged |-> JudgedPart[pr][head[pr]], swept |-> SweptPart[pr][head[pr]]]
<1>1. LandedContent = [judged |-> {}, swept |-> {}] /\ pr \in Sensitive
    BY DEF LandedContent, Sensitive
<1> QED
    BY <1>1 DEF Content, ContentAt

LEMMA OwnContentNext ==
    ASSUME main' = <<>>, NEW pr \in TouchesSot
    PROVE  Content(pr)' = [judged |-> JudgedPart[pr][head'[pr]],
                           swept |-> SweptPart[pr][head'[pr]]]
<1>1. LandedContent' = [judged |-> {}, swept |-> {}] /\ pr \in Sensitive
    BY DEF LandedContent, Sensitive
<1> QED
    BY <1>1 DEF Content, ContentAt

\* The step that moves a head is a push to it.
LEMMA HeadMovesByPush ==
    ASSUME HostTypeOK, HostNext, NEW pr \in PR, head'[pr] # head[pr]
    PROVE  Push(pr)
<1>1. ASSUME NEW p \in PR, NEW x, NEW y, NEW z,
             \/ ClosePr(p) \/ PublishReviews(p) \/ Comment(p, x, y) \/ EditComment(p, z, y)
             \/ DeleteComment(p, z) \/ Redeliver(p, z) \/ Approve(p, x)
             \/ WithdrawApproval(p, z) \/ ChangeRole(x) \/ ChangeRuleset
      PROVE  head' = head
    BY <1>1 DEF ClosePr, PublishReviews, Comment, EditComment, DeleteComment, Redeliver,
                Approve, WithdrawApproval, ChangeRole, ChangeRuleset
<1>2. ASSUME NEW p \in PR \ {pr} PROVE ~Push(p)
    BY DEF Push, HostTypeOK
<1> QED
    BY <1>1, <1>2 DEF HostNext

\* A complete SoT change stays complete over a push that alters neither key's
\* components nor an approval, and over no other push.
LEMMA PushKeepsComplete ==
    ASSUME ChannelInv, HostNext, NEW pr \in PR, pr \in TouchesSot,
           head'[pr] # head[pr], Complete(pr)
    PROVE  Complete(pr)' <=>
               /\ JudgedPart[pr][head'[pr]] = JudgedPart[pr][head[pr]]
               /\ SweptPart[pr][head'[pr]] = SweptPart[pr][head[pr]]
               /\ approvals'[pr] = approvals[pr]
<1>1. HostTypeOK /\ main = <<>>
    BY DEF ChannelInv
<1>2. Push(pr)
    BY <1>1, HeadMovesByPush
<1>3. /\ UNCHANGED <<prState, artifacts, channel, admins, main>>
      /\ \/ approvals'[pr] = approvals[pr]
         \/ approvals'[pr] = {Dismissed(a) : a \in approvals[pr]}
    BY <1>1, <1>2 DEF Push, HostTypeOK
<1> DEFINE now  == [judged |-> JudgedPart[pr][head[pr]], swept |-> SweptPart[pr][head[pr]]]
           next == [judged |-> JudgedPart[pr][head'[pr]], swept |-> SweptPart[pr][head'[pr]]]
<1>4. Content(pr) = now /\ Content(pr)' = next
    BY <1>1, <1>3, OwnContent, OwnContentNext
<1>5. (\A f : Settled(pr, f)' <=> Settled(pr, f)) /\ OpenFindings(pr)' = OpenFindings(pr)
    BY <1>3 DEF Settled, Counts, MayDecide, OpenFindings
<1>6. Reviewed(pr) /\ Approved(pr) /\ prState[pr] = "OPEN" /\ pr \in SotRef /\ pr \notin Fork
    BY DEF Complete
<1>7. Complete(pr)' <=> Reviewed(pr)' /\ Approved(pr)'
    BY <1>3, <1>6 DEF Complete
<1>8. ASSUME next = now, approvals'[pr] = approvals[pr]
      PROVE  Reviewed(pr)' /\ Approved(pr)'
    <2>1. Content(pr)' = Content(pr)
        BY <1>4, <1>8
    <2>2. Reviewed(pr)'
        BY <1>3, <1>5, <1>6, <2>1 DEF Reviewed
    <2>3. Approved(pr)'
        BY <1>3, <1>6, <1>8, <2>1 DEF Approved, MayDecide
    <2> QED
        BY <2>2, <2>3
<1>9. ASSUME Reviewed(pr)', Approved(pr)'
      PROVE  /\ JudgedPart[pr][head'[pr]] = JudgedPart[pr][head[pr]]
             /\ SweptPart[pr][head'[pr]] = SweptPart[pr][head[pr]]
             /\ approvals'[pr] = approvals[pr]
    <2>1. Content(pr)'.judged = Content(pr).judged /\ Content(pr)'.swept = Content(pr).swept
        BY <1>3, <1>6, <1>9 DEF Reviewed
    <2>2. PICK a \in approvals'[pr] : ~a.dismissed
        BY <1>9 DEF Approved
    <2>3. \A b \in approvals[pr] : Dismissed(b).dismissed
        BY <1>1 DEF HostTypeOK, Approvals, Dismissed
    <2> QED
        BY <1>3, <1>4, <2>1, <2>2, <2>3
<1> QED
    BY <1>7, <1>8, <1>9

\* A GREEN SoT change stays GREEN over a push exactly when the push alters neither what
\* was judged nor what was swept and the host withdrew no approval.
THEOREM GreenFollows == ChannelSpec => GreenFollowsContent
<1>1. \A pr \in PR : ChannelInv => (Verdict(pr).status = "GREEN" <=> Complete(pr))
    BY HostAssumption, VerdictExactly
<1>2. (\A pr \in PR : ChannelInv => (Verdict(pr).status = "GREEN" <=> Complete(pr)))'
    BY <1>1, PTL
<1>3. ChannelInv /\ ChannelInv' /\ [HostNext]_hostVars =>
          [\A pr \in TouchesSot :
              head'[pr] # head[pr] /\ Verdict(pr).status = "GREEN" =>
                  ((Verdict(pr)'.status = "GREEN") <=>
                      /\ JudgedPart[pr][head'[pr]] = JudgedPart[pr][head[pr]]
                      /\ SweptPart[pr][head'[pr]] = SweptPart[pr][head[pr]]
                      /\ approvals'[pr] = approvals[pr])]_hostVars
    <2>1. ASSUME ChannelInv, ChannelInv', HostNext, NEW pr \in TouchesSot,
                 head'[pr] # head[pr], Verdict(pr).status = "GREEN"
          PROVE  (Verdict(pr)'.status = "GREEN") <=>
                     /\ JudgedPart[pr][head'[pr]] = JudgedPart[pr][head[pr]]
                     /\ SweptPart[pr][head'[pr]] = SweptPart[pr][head[pr]]
                     /\ approvals'[pr] = approvals[pr]
        <3>1. pr \in PR
            BY HostAssumption DEF HostAssumption
        <3>2. Complete(pr)
            BY <1>1, <2>1, <3>1
        <3>3. Verdict(pr)'.status = "GREEN" <=> Complete(pr)'
            BY <1>2, <2>1, <3>1
        <3> QED
            BY <2>1, <3>1, <3>2, <3>3, PushKeepsComplete
    <2> QED
        BY <2>1
<1> QED
    BY <1>3, ChannelInvariance, PTL DEF ChannelSpec, GreenFollowsContent

----------------------------------------------------------------------------
\* Two read-sets that differ in their decisions only, and in no finding's three
\* checks, are judged alike.
LEMMA SameChecks ==
    ASSUME NEW x, NEW y,
           x.meta = y.meta, x.landing_judgment = y.landing_judgment,
           x.landing_completeness = y.landing_completeness, x.allowlist = y.allowlist,
           x.consistency_artifact = y.consistency_artifact,
           x.completeness_artifact = y.completeness_artifact, x.approvals = y.approvals,
           \A b : /\ Unresolved(x, b) <=> Unresolved(y, b)
                  /\ Conflicting(x, b) <=> Conflicting(y, b)
                  /\ Tampered(x, b) <=> Tampered(y, b)
    PROVE  EvaluateGate(x) = EvaluateGate(y)
<1>1. ASSUME NEW artifact
      PROVE  ResolveOpenBlocking(x, artifact) = ResolveOpenBlocking(y, artifact)
    BY DEF ResolveOpenBlocking
<1>2. ValidSotApprovalExists(x) = ValidSotApprovalExists(y)
    BY DEF ValidSotApprovalExists, ValidSotApproval
<1>3. EvaluateSot(x) = EvaluateSot(y)
    BY <1>1, <1>2 DEF EvaluateSot
<1>4. EvaluateEnforcementSurface(x) = EvaluateEnforcementSurface(y)
    BY DEF EvaluateEnforcementSurface, AuthorizedApproval
<1> QED
    BY <1>3, <1>4 DEF EvaluateGate

\* The entries of pr that count are where they were, and say what they said.
CountsKept(pr) ==
    /\ Counts(pr)' = Counts(pr)
    /\ \A i \in Counts(pr) : channel'[pr][i] = channel[pr][i]

\* What ValidIsAbout says, of the state after a step.
LEMMA ValidIsAboutNext ==
    ASSUME NEW pr \in PR, NEW b, NEW y
    PROVE  (y = ReadSet(pr) =>
               /\ ValidDecisions(y, b) = About(pr, b)
               /\ \A i \in About(pr, b) :
                     /\ y.decisions[i].comment_id = channel[pr][i].comment_id
                     /\ y.decisions[i].edited = channel[pr][i].edited)'
<1>1. y = ReadSet(pr) =>
          /\ ValidDecisions(y, b) = About(pr, b)
          /\ \A i \in About(pr, b) :
                /\ y.decisions[i].comment_id = channel[pr][i].comment_id
                /\ y.decisions[i].edited = channel[pr][i].edited
    BY ValidIsAbout
<1> QED
    BY <1>1, PTL

\* If no other entries count than before, the verdict is the one before.
LEMMA SameCounts ==
    ASSUME NEW pr \in PR, CountsKept(pr),
           UNCHANGED <<head, prState, artifacts, approvals, admins, rulesetOk, main>>
    PROVE  Verdict(pr)' = Verdict(pr)
<1>1. PICK x, y : x = ReadSet(pr) /\ y = ReadSet(pr)'
    OBVIOUS
<1>2. /\ x.meta = y.meta /\ x.landing_judgment = y.landing_judgment
      /\ x.landing_completeness = y.landing_completeness /\ x.allowlist = y.allowlist
      /\ x.consistency_artifact = y.consistency_artifact
      /\ x.completeness_artifact = y.completeness_artifact /\ x.approvals = y.approvals
    BY <1>1 DEF ReadSet, ReadPrMetadata, Content, ContentAt, LandedContent, ReadApprovals, RoleOf,
                JudgmentKey, SweepKey
<1>3. ASSUME NEW b
      PROVE  /\ Unresolved(x, b) <=> Unresolved(y, b)
             /\ Conflicting(x, b) <=> Conflicting(y, b)
             /\ Tampered(x, b) <=> Tampered(y, b)
    <2> DEFINE A == About(pr, b)
    <2>1. /\ ValidDecisions(x, b) = A
          /\ \A i \in A : /\ x.decisions[i].comment_id = channel[pr][i].comment_id
                           /\ x.decisions[i].edited = channel[pr][i].edited
        BY <1>1, ValidIsAbout
    <2>2. /\ ValidDecisions(y, b) = A'
          /\ \A i \in A' : /\ y.decisions[i].comment_id = channel'[pr][i].comment_id
                            /\ y.decisions[i].edited = channel'[pr][i].edited
        BY <1>1, ValidIsAboutNext DEF ValidDecisions, ValidDecision, Authorized
    <2>3. A' = A /\ \A i \in A : channel'[pr][i] = channel[pr][i]
        BY DEF CountsKept, About
    <2> HIDE DEF A
    <2> QED
        BY <2>1, <2>2, <2>3 DEF Unresolved, Conflicting, Tampered
<1>4. EvaluateGate(x) = EvaluateGate(y)
    BY <1>2, <1>3, SameChecks
<1>5. Verdict(pr)' = EvaluateGate(y)
    BY <1>1 DEF Verdict, EvaluateGate, EvaluateSot, EvaluateEnforcementSurface,
                ResolveOpenBlocking, ValidSotApprovalExists, ValidSotApproval,
                AuthorizedApproval, Authorized, Unresolved, Conflicting, Tampered,
                ValidDecisions, ValidDecision, Malformed, Green, Red
<1> QED
    BY <1>1, <1>4, <1>5 DEF Verdict

\* The entries that count are finitely many, before and after a step.
LEMMA CountsFinite ==
    ASSUME HostTypeOK, NEW pr \in PR
    PROVE  IsFiniteSet(Counts(pr))
<1>1. channel[pr] \in Seq(Comments)
    BY DEF HostTypeOK
<1>2. DOMAIN channel[pr] = 1..Len(channel[pr]) /\ Len(channel[pr]) \in Nat
    BY <1>1
<1>3. IsFiniteSet(DOMAIN channel[pr])
    BY <1>2, FS_Interval
<1>4. Counts(pr) \subseteq DOMAIN channel[pr]
    BY DEF Counts
<1> QED
    BY <1>3, <1>4, FS_Subset

\* The same of the state after a step.
LEMMA CountsFiniteNext ==
    ASSUME NEW pr \in PR
    PROVE  (HostTypeOK => IsFiniteSet(Counts(pr)))'
<1>1. HostTypeOK => IsFiniteSet(Counts(pr))
    BY CountsFinite
<1> QED
    BY <1>1, PTL

\* A new or redelivered entry counts, and there is one more; or it does not.
LEMMA AppendKeeps ==
    ASSUME HostTypeOK, HostTypeOK', NEW pr \in PR, NEW entry,
           channel'[pr] = Append(channel[pr], entry), admins' = admins,
           Cardinality(Counts(pr)) = Cardinality(Counts(pr)')
    PROVE  CountsKept(pr)
<1>1. channel[pr] \in Seq(Comments) /\ channel'[pr] \in Seq(Comments)
    BY DEF HostTypeOK
<1>2. /\ DOMAIN channel[pr] \subseteq DOMAIN channel'[pr]
      /\ \A i \in DOMAIN channel[pr] : channel'[pr][i] = channel[pr][i]
    BY <1>1
<1>3. \A a : MayDecide(a, pr)' <=> MayDecide(a, pr)
    BY DEF MayDecide
<1>4. Counts(pr) \subseteq Counts(pr)'
    BY <1>2, <1>3 DEF Counts
<1>5. IsFiniteSet(Counts(pr)')
    <2>1. (HostTypeOK => IsFiniteSet(Counts(pr)))'
        BY CountsFiniteNext
    <2> QED
        BY <2>1
<1>6. Counts(pr)' = Counts(pr)
    BY <1>4, <1>5, FS_Subset
<1> QED
    BY <1>2, <1>6 DEF CountsKept, Counts

\* A deleted entry counted, and there is one less; or it did not.
LEMMA DeleteKeeps ==
    ASSUME HostTypeOK, NEW pr \in PR, NEW id, DeleteComment(pr, id),
           Cardinality(Counts(pr)) = Cardinality(Counts(pr)')
    PROVE  CountsKept(pr)
<1>1. channel[pr] \in Seq(Comments)
    BY DEF HostTypeOK
<1>2. \A i \in DOMAIN channel[pr] : channel[pr][i] \in Comments
    BY <1>1
<1>3. /\ DOMAIN channel'[pr] = DOMAIN channel[pr] /\ admins' = admins
      /\ \A i \in DOMAIN channel[pr] :
            \/ channel'[pr][i] = channel[pr][i]
            \/ channel'[pr][i] = [channel[pr][i] EXCEPT !.deleted = TRUE]
    BY DEF DeleteComment, HostTypeOK
<1>4. \A i \in DOMAIN channel[pr] :
          channel'[pr][i] = channel[pr][i] \/ channel'[pr][i].deleted
    BY <1>2, <1>3 DEF Comments
<1>5. \A a : MayDecide(a, pr)' <=> MayDecide(a, pr)
    BY <1>3 DEF MayDecide
<1>6. Counts(pr)' \subseteq Counts(pr)
    BY <1>3, <1>4, <1>5 DEF Counts
<1>7. Counts(pr)' = Counts(pr)
    BY <1>6, CountsFinite, FS_Subset
<1> QED
    BY <1>3, <1>4, <1>7 DEF CountsKept, Counts

\* An edited entry that counts is found among the entries of before only if the
\* edit changed nothing in it.
LEMMA EditKeeps ==
    ASSUME HostTypeOK, NEW pr \in PR, NEW id, NEW key, EditComment(pr, id, key),
           {channel[pr][i] : i \in Counts(pr)} = {channel'[pr][i] : i \in Counts(pr)'}
    PROVE  CountsKept(pr)
<1>1. channel[pr] \in Seq(Comments)
    BY DEF HostTypeOK
<1>2. \A i \in DOMAIN channel[pr] : channel[pr][i] \in Comments
    BY <1>1
<1>3. /\ DOMAIN channel'[pr] = DOMAIN channel[pr] /\ admins' = admins
      /\ \A i \in DOMAIN channel[pr] :
            channel'[pr][i] = IF channel[pr][i].comment_id = id
                              THEN [channel[pr][i] EXCEPT !.key = key, !.edited = TRUE]
                              ELSE channel[pr][i]
    BY DEF EditComment, HostTypeOK
<1>4. ASSUME NEW i \in DOMAIN channel[pr]
      PROVE  /\ channel'[pr][i].author = channel[pr][i].author
             /\ channel'[pr][i].deleted = channel[pr][i].deleted
             /\ channel'[pr][i].comment_id = channel[pr][i].comment_id
             /\ channel[pr][i].comment_id = id =>
                   channel'[pr][i].key = key /\ channel'[pr][i].edited = TRUE
             /\ channel[pr][i].comment_id # id => channel'[pr][i] = channel[pr][i]
             /\ (channel[pr][i].key = key /\ channel[pr][i].edited = TRUE) =>
                   channel'[pr][i] = channel[pr][i]
    <2>1. PICK c, d : c = channel[pr][i] /\ d = [c EXCEPT !.key = key, !.edited = TRUE]
        OBVIOUS
    <2>2. c \in Comments
        BY <1>2, <2>1
    <2>3. /\ d.author = c.author /\ d.deleted = c.deleted /\ d.comment_id = c.comment_id
          /\ d.key = key /\ d.edited = TRUE
          /\ (c.key = key /\ c.edited = TRUE) => d = c
        BY <2>1, <2>2 DEF Comments
    <2>4. channel'[pr][i] = IF c.comment_id = id THEN d ELSE c
        BY <1>3, <2>1
    <2> QED
        BY <2>1, <2>3, <2>4
<1>5. \A a : MayDecide(a, pr)' <=> MayDecide(a, pr)
    BY <1>3 DEF MayDecide
<1>6. Counts(pr)' = Counts(pr)
    BY <1>3, <1>4, <1>5 DEF Counts
<1>7. ASSUME NEW i \in Counts(pr), channel[pr][i].comment_id = id
      PROVE  channel'[pr][i] = channel[pr][i]
    <2>1. PICK j \in Counts(pr) : channel'[pr][j] = channel[pr][i]
        BY <1>6
    <2>2. i \in DOMAIN channel[pr] /\ j \in DOMAIN channel[pr]
        BY DEF Counts
    <2>3. channel[pr][i].key = key /\ channel[pr][i].edited = TRUE
        BY <1>4, <1>7, <2>1, <2>2
    <2> QED
        BY <1>4, <2>2, <2>3
<1> QED
    BY <1>4, <1>6, <1>7 DEF CountsKept, Counts

\* A step of the channel of pr that leaves alone who counts.
LEMMA ChannelStep ==
    ASSUME HostAssumption, ChannelInv, HostNext, NEW pr \in PR, channel'[pr] # channel[pr],
           {channel[pr][i] : i \in Counts(pr)} = {channel'[pr][i] : i \in Counts(pr)'},
           Cardinality(Counts(pr)) = Cardinality(Counts(pr)')
    PROVE  Verdict(pr)' = Verdict(pr)
<1>1. HostTypeOK /\ HostTypeOK'
    BY HostStepType DEF ChannelInv
<1>2. ASSUME NEW p \in PR, NEW x, NEW z,
             \/ Push(p) \/ ClosePr(p) \/ PublishReviews(p) \/ Approve(p, x)
             \/ WithdrawApproval(p, z) \/ ChangeRole(x) \/ ChangeRuleset
      PROVE  channel' = channel
    BY <1>2 DEF Push, ClosePr, PublishReviews, Approve, WithdrawApproval, ChangeRole,
                ChangeRuleset
<1>3. ASSUME NEW p \in PR, NEW x, NEW y, NEW z,
             \/ Comment(p, x, y) \/ EditComment(p, z, y) \/ DeleteComment(p, z)
             \/ Redeliver(p, z)
      PROVE  /\ UNCHANGED <<head, prState, artifacts, approvals, admins, rulesetOk, main>>
             /\ p = pr
    BY <1>1, <1>3 DEF Comment, EditComment, DeleteComment, Redeliver, HostTypeOK
<1>4. ASSUME NEW x, NEW y, Comment(pr, x, y) PROVE CountsKept(pr)
    <2>1. PICK e : e = [key |-> y, author |-> x, comment_id |-> NextCommentId(pr),
                        edited |-> FALSE, deleted |-> FALSE]
        OBVIOUS
    <2>2. channel' = [channel EXCEPT ![pr] = Append(@, e)] /\ admins' = admins
        BY <1>4, <2>1 DEF Comment
    <2>3. channel'[pr] = Append(channel[pr], e)
        BY <1>1, <2>2 DEF HostTypeOK
    <2> QED
        BY <1>1, <2>2, <2>3, AppendKeeps
<1>5. ASSUME NEW i, Redeliver(pr, i) PROVE CountsKept(pr)
    <2>1. PICK e : e = channel[pr][i]
        OBVIOUS
    <2>2. channel'[pr] = Append(channel[pr], e) /\ admins' = admins
        BY <1>1, <1>5, <2>1 DEF Redeliver, HostTypeOK
    <2> QED
        BY <1>1, <2>2, AppendKeeps
<1>6. ASSUME NEW x, NEW y, NEW z,
             \/ Comment(pr, x, y) \/ EditComment(pr, z, y) \/ DeleteComment(pr, z)
             \/ Redeliver(pr, z)
      PROVE  Verdict(pr)' = Verdict(pr)
    <2>1. CountsKept(pr)
        BY <1>1, <1>4, <1>5, <1>6, EditKeeps, DeleteKeeps
    <2> QED
        BY <1>3, <1>6, <2>1, SameCounts
<1> QED
    BY <1>2, <1>3, <1>6 DEF HostNext

\* Nobody without the right to decide moves a verdict by commenting, editing or
\* deleting: the verdict depends on the entries that count, and on nothing else of
\* the stream.
THEOREM BystandersHarmless == ChannelSpec => BystandersMoveNothing
<1>1. ChannelInv /\ [HostNext]_hostVars =>
          [\A pr \in PR :
              (/\ channel'[pr] # channel[pr]
               /\ {channel[pr][i] : i \in Counts(pr)} = {channel'[pr][i] : i \in Counts(pr)'}
               /\ Cardinality(Counts(pr)) = Cardinality(Counts(pr)'))
              => Verdict(pr)' = Verdict(pr)]_hostVars
    BY HostAssumption, ChannelStep
<1> QED
    BY <1>1, ChannelInvariance, PTL DEF ChannelSpec, BystandersMoveNothing

=============================================================================
