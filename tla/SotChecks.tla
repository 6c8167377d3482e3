----------------------------- MODULE SotChecks -----------------------------
(***************************************************************************)
(* The checks C1 to C6 of sot_lint (sot_lint/checks.py, registry.py) on    *)
(* the documents that were read.  A path is <<kind, topic>>; a document    *)
(* keeps of its frontmatter what the checks look at:                       *)
(*   id       what follows the prefix of its kind, or a rule's id; or None *)
(*   items, covers, rules   covers are [topic |-> None or a topic, id]     *)
(*   status   of a rule, None when it is missing or no string              *)
(*   marks    placeholders and banned words of the other lines             *)
(* A violation is [path, line, code, on], line 0 for the whole file.       *)
(***************************************************************************)
EXTENDS SotText, FiniteSets

CONSTANTS
    None,
    Topics,        \* the content files of a kind, numbered in the order of their names
    RuleFiles,     \* the rule files, likewise
    ReqIds, SpecIds, TestIds,   \* FR- and NFR-, SP- and TD- ids
    Placeholder    \* an entry that is still {{...}}

ASSUME SotChecksAssumption ==
    /\ Topics \subseteq Nat /\ RuleFiles \subseteq Nat
    /\ ReqIds \cap SpecIds = {} /\ ReqIds \cap TestIds = {} /\ SpecIds \cap TestIds = {}
    /\ None \notin {"requirements", "specification", "test-design", "rule"}
    /\ Placeholder \notin ReqIds \cup SpecIds \cup TestIds

KINDS == <<"requirements", "specification", "test-design", "rule">>
CONTENT_KINDS == {"requirements", "specification", "test-design"}

Paths == (CONTENT_KINDS \X Topics) \cup ({"rule"} \X RuleFiles)

\* _OWN_ITEM_RE: the kind that may declare an id; None for any other string.
KindOf(id) ==
    IF id \in ReqIds THEN "requirements"
    ELSE IF id \in SpecIds THEN "specification"
    ELSE IF id \in TestIds THEN "test-design" ELSE None

Violation(path, line, code, on) == [path |-> path, line |-> line, code |-> code, on |-> on]

\* What the reading leaves: docs, a function on the paths that parsed, and errored, those
\* that did not.
ContentOf(docs) == {p \in DOMAIN docs : p[1] \in CONTENT_KINDS}
RulesOf(docs)   == {p \in DOMAIN docs : p[1] = "rule"}

----------------------------------------------------------------------------
\* registry.py

DeclaredBy(docs, rid) == {p \in RulesOf(docs) : docs[p].id = rid}

RuleIds(docs) == {docs[p].id : p \in RulesOf(docs)} \ {None}

\* Of two files with the same id the last one counts.
RuleStatus(docs, rid) ==
    docs[CHOOSE p \in DeclaredBy(docs, rid) :
            \A q \in DeclaredBy(docs, rid) : q[2] <= p[2]].status

DuplicateRuleIds(docs) == {r \in RuleIds(docs) : Cardinality(DeclaredBy(docs, r)) > 1}

CheckDuplicateRuleIds(docs) ==
    UNION {{Violation(p, 0, "C3", r) : p \in DeclaredBy(docs, r)} :
              r \in DuplicateRuleIds(docs)}

----------------------------------------------------------------------------

CheckC1(docs) ==
    {Violation(<<k, None>>, 0, "C1", None) : k \in
        {k \in CONTENT_KINDS : \A p \in ContentOf(docs) : p[1] = k => docs[p].items = <<>>}}

\* C2: the id names the file.
CheckC2Id(docs) ==
    {Violation(p, 0, "C2", None) : p \in {p \in ContentOf(docs) : docs[p].id # p[2]}}

\* <<line, id>> of the first bare mention of each id of the document's kind, in view A.
BodyTokens(p, doc) ==
    LET text == BodyViewA(doc.body)
        At(l) == {text[l][i].v : i \in {i \in DOMAIN text[l] :
                     text[l][i].k = "id" /\ KindOf(text[l][i].v) = p[1]}}
    IN  UNION {{<<l, id>> : id \in {id \in At(l) : \A m \in 1 .. l - 1 : id \notin At(m)}} :
                  l \in DOMAIN text}

\* C2: items and body agree.
CheckC2Items(p, doc) ==
    LET tokens   == BodyTokens(p, doc)
        declared == {raw \in ToSet(doc.items) : KindOf(raw) = p[1]}
    IN  {Violation(p, 0, "C2", raw) : raw \in ToSet(doc.items) \ declared}
        \cup {Violation(p, 0, "C2", raw) : raw \in declared \ {t[2] : t \in tokens}}
        \cup {Violation(p, t[1], "C2", t[2]) : t \in {t \in tokens : t[2] \notin declared}}

\* Mutant: an entry of the wrong form is a declaration all the same.
DeclarationsOfAll(docs) ==
    UNION {{<<p, i>> : i \in DOMAIN docs[p].items} : p \in ContentOf(docs)}

\* The declarations <<path, place in items>>.
Declarations(docs) ==
    UNION {{<<p, i>> : i \in {i \in DOMAIN docs[p].items : KindOf(docs[p].items[i]) = p[1]}} :
              p \in ContentOf(docs)}

\* C2: one declaration of each <<topic, id>> in the whole tree.
CheckC2Unique(docs) ==
    LET Key(d) == <<d[1][2], docs[d[1]].items[d[2]]>>
    IN  {Violation(d[1], 0, "C2", Key(d)[2]) : d \in
            {d \in Declarations(docs) : \E e \in Declarations(docs) : d # e /\ Key(d) = Key(e)}}

----------------------------------------------------------------------------
\* C3

ResolveCoversTargetKind(kind, id) ==
    IF KindOf(id) \in (IF kind = "specification" THEN {"requirements"}
                                   ELSE {"requirements", "specification"})
    THEN KindOf(id) ELSE None

CoverTarget(p, ref) ==
    <<ResolveCoversTargetKind(p[1], ref.id), IF ref.topic = None THEN p[2] ELSE ref.topic>>

\* A reference to a document that did not parse is passed over: the run fails anyway.
CoverBroken(docs, errored, p, ref) ==
    LET target == CoverTarget(p, ref)
    IN  /\ ref.id # Placeholder
        /\ \/ target[1] = None
           \/ target \in ContentOf(docs) /\ ref.id \notin ToSet(docs[target].items)
           \/ target[1] # None /\ target \notin ContentOf(docs) /\ target \notin errored

RuleBroken(docs, r) ==
    r # Placeholder /\ (r \notin RuleIds(docs) \/ RuleStatus(docs, r) # "active")

CheckC3(docs, errored, p) ==
    {Violation(p, 0, "C3", ref.id) : ref \in
        {ref \in ToSet(docs[p].covers) :
            p[1] \in {"specification", "test-design"} /\ CoverBroken(docs, errored, p, ref)}}
    \cup {Violation(p, 0, "C3", r) : r \in {r \in ToSet(docs[p].rules) : RuleBroken(docs, r)}}

----------------------------------------------------------------------------
\* C4 and C5: view B and the frontmatter, whose entries may be placeholders too.

FrontMarks(doc) ==
    doc.marks \cup IF Placeholder \in ToSet(doc.items) \cup {ref.id : ref \in ToSet(doc.covers)}
                                         \cup ToSet(doc.rules)
                   THEN {"hole"} ELSE {}

Has(line, mark) == \E i \in DOMAIN line : line[i].k = mark

CheckC4C5(p, doc) ==
    LET text == BodyViewB(doc.body)
        LinesWith(mark) == {l \in DOMAIN text : Has(text[l], mark)}
                       \cup IF mark \in FrontMarks(doc) THEN {0} ELSE {}
    IN  {Violation(p, l, "C4", None) : l \in LinesWith("hole")}
        \cup {Violation(p, l, "C5", None) : l \in LinesWith("banned")}

----------------------------------------------------------------------------
\* C6

IsHeading(line) == line # <<>> /\ line[1].k = "heading"
IsAcceptance(line) == IsHeading(line) /\ line[1].n = 2 /\ line[1].v = "acceptance"

AcceptanceHeadings(text) == {l \in DOMAIN text : IsAcceptance(text[l])}

\* The section's lines: from the first acceptance heading, if there is one, to the next
\* heading.
AcceptanceSectionRange(text) ==
    LET start == Least(AcceptanceHeadings(text))
        ends  == {l \in DOMAIN text : l > start /\ IsHeading(text[l])}
    IN  start + 1 .. (IF ends = {} THEN Len(text) ELSE Least(ends) - 1)

\* The place of the first bare id of a checkbox line, 0 when it has none.
FirstToken(line) ==
    LET ids == {i \in DOMAIN line : line[i].k = "id"}
    IN  IF line = <<>> \/ line[1].k # "box" \/ ids = {} THEN 0 ELSE Least(ids)

\* The first checkbox line of the section whose first id is item; 0 when there is none.
CheckboxFor(text, section, item) ==
    LET boxes == {l \in section : FirstToken(text[l]) # 0
                                  /\ text[l][FirstToken(text[l])].v = item}
    IN  IF boxes = {} THEN 0 ELSE Least(boxes)

\* What is left of a checkbox line without its id says something (inline code counts).
SaysSomething(line) ==
    \E i \in DOMAIN line : i # FirstToken(line)
                           /\ line[i].k \in {"id", "ref", "word", "banned", "hole"}

CheckC6(p, doc) ==
    LET a == BodyViewA(doc.body)
        b == BodyViewB(doc.body)
        section == AcceptanceSectionRange(a)
        Bad(item) ==
            LET l == CheckboxFor(a, section, item)
            IN  \/ l = 0
                \/ ~SaysSomething(a[l])
                \/ Has(b[l], "hole") \/ Has(b[l], "banned")
    IN  IF doc.items = <<>> THEN {}
        ELSE IF AcceptanceHeadings(a) = {} THEN {Violation(p, 0, "C6", None)}
        ELSE {Violation(p, CheckboxFor(a, section, item), "C6", item) :
                 item \in {item \in ToSet(doc.items) : Bad(item)}}

----------------------------------------------------------------------------

\* What a document is charged with for its own text.
OwnViolations(p, doc) == CheckC2Items(p, doc) \cup CheckC4C5(p, doc) \cup CheckC6(p, doc)

RunChecks(docs, errored) ==
    CheckC1(docs) \cup CheckC2Id(docs) \cup CheckC2Unique(docs) \cup CheckDuplicateRuleIds(docs)
    \cup UNION {OwnViolations(p, docs[p]) \cup CheckC3(docs, errored, p) :
                   p \in ContentOf(docs)}

=============================================================================
