------------------------------ MODULE SotLint ------------------------------
(***************************************************************************)
(* sot_lint on a tree that is being written (sot_lint/parser.py, cli.py):  *)
(* a run lists the files of the four directories, reads one after another  *)
(* and judges what it has read, while authors edit, copy, break and remove *)
(* documents.                                                              *)
(***************************************************************************)
EXTENDS SotChecks

CONSTANTS
    Tree,          \* the documents at the start, by path
    Lines,         \* what an author writes on a line
    FrontValues,   \* by kind and field of the frontmatter, what an author puts there
    ErrorCodes,    \* the codes E_* of a file that does not parse
    MaxEdits       \* bound: edits

\* A document: the fields of its frontmatter, its lines, and whether it parses.  A form
\* that "raises" is a frontmatter on which yaml.load raises something else than YAMLError,
\* as on a date there is none of.
FrontFields == {"id", "items", "covers", "rules", "status", "marks"}
Written == Lines \cup UNION {ToSet(Tree[p].body) : p \in DOMAIN Tree}

Fits(field, value) ==
    CASE field = "form"  -> value \in {"ok", "raises"} \cup ErrorCodes
      [] field = "body"  -> value \in Seq(Written)
      [] field = "rules" -> value \in Seq(ToSet(value) \ {None})
      [] field = "marks" -> value \subseteq {"hole", "banned"}
      [] field \in {"items", "covers"} -> value \in Seq(ToSet(value))
      [] OTHER -> TRUE

IsDocument(doc) ==
    /\ DOMAIN doc = FrontFields \cup {"form", "body"}
    /\ \A field \in DOMAIN doc : Fits(field, doc[field])

ASSUME SotLintAssumption ==
    /\ Tree = [p \in DOMAIN Tree |-> Tree[p]]
    /\ DOMAIN Tree \subseteq Paths /\ IsFiniteSet(DOMAIN Tree)
    /\ \A p \in DOMAIN Tree : IsDocument(Tree[p])
    /\ \A line \in Written : IsLine(line)
    /\ \A p \in Paths : \A field \in DOMAIN FrontValues[p[1]] :
           field \in FrontFields /\ \A value \in FrontValues[p[1]][field] : Fits(field, value)
    /\ "ok" \notin ErrorCodes /\ "raises" \notin ErrorCodes /\ "E_READ" \in ErrorCodes
    /\ MaxEdits \in Nat

VARIABLES
    tree,      \* the documents on disk, by path; form is "ok", "raises" or a code
    pc,        \* "idle", "reading", "judged", or "died" of an exception
    listed,    \* the paths still to be read
    docs,      \* those that parsed, by path
    errors,    \* <<path, code>> of the others
    exit,      \* the exit code
    edits, quiet, gone   \* history: edits so far; none since the run began; a file was
                         \* gone when its turn came

vars == <<tree, pc, listed, docs, errors, exit, edits, quiet, gone>>
lintVars == <<pc, listed, docs, errors, exit, gone>>

NoDocs == [p \in {} |-> None]

Init ==
    /\ tree = Tree
    /\ pc = "idle" /\ listed = {} /\ docs = NoDocs /\ errors = {} /\ exit = None
    /\ edits = 0 /\ quiet = TRUE /\ gone = FALSE

----------------------------------------------------------------------------
\* Authors.  (What changes once a run is over changes between two runs.)

Over == pc \in {"judged", "died"}

Edit(next) ==
    /\ ~Over /\ edits < MaxEdits
    /\ tree' = next
    /\ edits' = edits + 1 /\ quiet' = FALSE
    /\ UNCHANGED lintVars

\* A line more or a line less.
Edited(body) ==
    {InsertAt(body, l, line) : l \in 1 .. Len(body) + 1, line \in Lines}
    \cup {RemoveAt(body, l) : l \in DOMAIN body}

EditBody(p) == \E body \in Edited(tree[p].body) : Edit([tree EXCEPT ![p].body = body])

EditFront(p) ==
    \E field \in DOMAIN FrontValues[p[1]] : \E value \in FrontValues[p[1]][field] :
        Edit([tree EXCEPT ![p][field] = value])

Break(p) ==
    \E form \in {"raises"} \cup ErrorCodes : Edit([tree EXCEPT ![p].form = form])

Copy(p, q) ==
    /\ q \notin DOMAIN tree /\ p[1] = q[1]
    /\ Edit([r \in DOMAIN tree \cup {q} |-> tree[IF r = q THEN p ELSE r]])

Delete(p) == Edit([q \in DOMAIN tree \ {p} |-> tree[q]])

----------------------------------------------------------------------------
\* The run.

Rank(kind) == CHOOSE i \in DOMAIN KINDS : KINDS[i] = kind

\* By kind, in the order of KINDS, and within a kind by name.
ComesBefore(p, q) == Rank(p[1]) < Rank(q[1]) \/ (p[1] = q[1] /\ p[2] < q[2])

\* The next path of the list.
IsNext(p) == p \in listed /\ \A q \in listed \ {p} : ComesBefore(p, q)

Discover ==
    /\ pc = "idle"
    /\ pc' = "reading"
    /\ listed' = DOMAIN tree
    /\ docs' = NoDocs /\ errors' = {} /\ gone' = FALSE
    /\ quiet' = TRUE
    /\ UNCHANGED <<tree, exit, edits>>

\* What the reading of a file meets.
Form(p) == IF p \in DOMAIN tree THEN tree[p].form ELSE "E_READ"

\* Mutant: a file that is gone is passed over.
LoadDocumentIfThere(p) ==
    /\ pc = "reading" /\ IsNext(p)
    /\ Form(p) # "raises"
    /\ docs' = IF Form(p) = "ok"
               THEN [q \in DOMAIN docs \cup {p} |-> IF q = p THEN tree[p] ELSE docs[q]]
               ELSE docs
    /\ errors' = IF p \in DOMAIN tree /\ Form(p) # "ok"
                 THEN errors \cup {<<p, Form(p)>>} ELSE errors
    /\ gone' = (gone \/ p \notin DOMAIN tree)
    /\ listed' = listed \ {p}
    /\ UNCHANGED <<tree, pc, exit, edits, quiet>>

LoadDocument(p) ==
    /\ pc = "reading" /\ IsNext(p)
    /\ Form(p) # "raises"
    /\ docs' = IF Form(p) = "ok"
               THEN [q \in DOMAIN docs \cup {p} |-> IF q = p THEN tree[p] ELSE docs[q]]
               ELSE docs
    /\ errors' = IF Form(p) # "ok" THEN errors \cup {<<p, Form(p)>>} ELSE errors
    /\ gone' = (gone \/ p \notin DOMAIN tree)
    /\ listed' = listed \ {p}
    /\ UNCHANGED <<tree, pc, exit, edits, quiet>>

\* What load_document does not catch ends the run with a traceback.
LoadRaises(p) ==
    /\ pc = "reading" /\ IsNext(p)
    /\ Form(p) = "raises"
    /\ pc' = "died" /\ exit' = 1
    /\ UNCHANGED <<tree, listed, docs, errors, edits, quiet, gone>>

\* Mutant: the exit code counts the violations.
JudgeCounting ==
    /\ pc = "reading" /\ listed = {}
    /\ LET violations == RunChecks(docs, {e[1] : e \in errors})
       IN  exit' = IF errors # {} THEN 2 ELSE Cardinality(violations)
    /\ pc' = "judged"
    /\ UNCHANGED <<tree, listed, docs, errors, edits, quiet, gone>>

Judge ==
    /\ pc = "reading" /\ listed = {}
    /\ LET violations == RunChecks(docs, {e[1] : e \in errors})
       IN  exit' = IF errors # {} THEN 2 ELSE IF violations # {} THEN 1 ELSE 0
    /\ pc' = "judged"
    /\ UNCHANGED <<tree, listed, docs, errors, edits, quiet, gone>>

Exit ==
    /\ Over
    /\ pc' = "idle" /\ exit' = None
    /\ listed' = {} /\ docs' = NoDocs /\ errors' = {} /\ gone' = FALSE
    /\ UNCHANGED <<tree, edits, quiet>>

Next ==
    \/ \E p \in DOMAIN tree :
           \/ EditBody(p) \/ EditFront(p) \/ Break(p) \/ Delete(p)
           \/ \E q \in Paths : Copy(p, q)
    \/ \E p \in listed : LoadDocument(p) \/ LoadRaises(p)
    \/ Discover \/ Judge \/ Exit

Spec == Init /\ [][Next]_vars

----------------------------------------------------------------------------
\* What a complete SoT is, said of documents all of which parsed, without the order of
\* the checks.

\* The body mentions an id outside fences.
Mentions(body, id) ==
    \E l \in DOMAIN body \ FencedLines(body) : \E i \in DOMAIN body[l] : body[l][i] = Id(id)

\* The first box about an id in the section of the criteria says something about it.
Filled(body, id) ==
    LET open == DOMAIN body \ FencedLines(body)
        Starts(l)  == body[l] # <<>> /\ body[l][1] = Heading(2, "acceptance")
        InSection(l) == \E s \in open :
            /\ s < l /\ Starts(s) /\ (\A r \in open : r < s => ~Starts(r))
            /\ \A r \in open : s < r /\ r <= l => ~IsHeading(body[r])
        Boxes == {l \in open : InSection(l) /\ body[l] # <<>> /\ body[l][1] = Box
                               /\ \E i \in DOMAIN body[l] : body[l][i] = Id(id) /\
                                     \A j \in 1 .. i - 1 : body[l][j].k # "id"}
    IN  \E l \in Boxes :
            /\ \A m \in Boxes : l <= m
            /\ Cardinality({i \in DOMAIN body[l] :
                   body[l][i].k \in {"id", "ref", "word", "banned", "hole"}}) > 1

Resolved(sot, p, ref) ==
    \E k \in CONTENT_KINDS :
        LET q == <<k, IF ref.topic = None THEN p[2] ELSE ref.topic>>
        IN  /\ KindOf(ref.id) = k
            /\ p[1] = "specification" => k = "requirements"
            /\ p[1] = "test-design" => k # "test-design"
            /\ q \in DOMAIN sot /\ \E i \in DOMAIN sot[q].items : sot[q].items[i] = ref.id

InForce(sot, r) ==
    \E q \in DOMAIN sot : q[1] = "rule" /\ sot[q].id = r /\ sot[q].status = "active"

SoundDocument(sot, p) ==
    LET doc == sot[p]
        items == ToSet(doc.items)
    IN  /\ doc.id = p[2] /\ doc.marks = {}
        /\ Cardinality(items) = Len(doc.items)
        /\ \A id \in items : KindOf(id) = p[1] /\ Mentions(doc.body, id) /\ Filled(doc.body, id)
        /\ \A id \in ReqIds \cup SpecIds \cup TestIds :
               KindOf(id) = p[1] /\ Mentions(doc.body, id) => id \in items
        /\ \A la \in ProseOf(doc.body) : doc.body[la[1]][la[2]].k \notin {"hole", "banned"}
        /\ \A ref \in ToSet(doc.covers) :
               ref.id # Placeholder /\ (p[1] # "requirements" => Resolved(sot, p, ref))
        /\ \A r \in ToSet(doc.rules) : r # Placeholder /\ InForce(sot, r)

Sound(sot) ==
    /\ \A k \in CONTENT_KINDS : \E p \in DOMAIN sot : p[1] = k /\ sot[p].items # <<>>
    /\ \A p \in DOMAIN sot : p[1] # "rule" => SoundDocument(sot, p)
    /\ \A p, q \in DOMAIN sot :
           p[1] = "rule" /\ q[1] = "rule" /\ sot[p].id # None /\ sot[p].id = sot[q].id => p = q

----------------------------------------------------------------------------

TypeOK ==
    /\ DOMAIN tree \subseteq Paths /\ \A p \in DOMAIN tree : IsDocument(tree[p])
    /\ DOMAIN docs \subseteq Paths /\ \A p \in DOMAIN docs : IsDocument(docs[p])
    /\ pc \in {"idle", "reading", "judged", "died"}
    /\ listed \subseteq Paths
    /\ errors \subseteq Paths \X ErrorCodes
    /\ exit \in {None, 0, 1, 2}
    /\ edits \in 0 .. MaxEdits /\ quiet \in BOOLEAN /\ gone \in BOOLEAN

FormOf(form) == \E p \in DOMAIN tree : tree[p].form = form
Unparsable == \E p \in DOMAIN tree : tree[p].form # "ok"

\* A run during which nobody writes tells exactly whether the SoT is complete: 2 when
\* a file did not parse, otherwise 0 for a complete tree and 1 for any other (rule
\* sot-readiness; cli.main).  Two kinds of trees are excepted: one with a file that
\* raises, on which the run dies, and for the verdict on a parsed tree, one with a code
\* span over a line end, since parser.py masks line by line.
QuietVerdictIsExact ==
    Over /\ quiet =>
        IF FormOf("raises") THEN pc = "died" /\ exit = 1
        ELSE IF Unparsable THEN exit = 2
        ELSE (\A p \in ContentOf(tree) : KeepsToLines(tree[p].body)) =>
                 exit = IF Sound(tree) THEN 0 ELSE 1

\* A file that disappears between the listing and its reading fails the run, whatever
\* else was read.
VanishedIsAnError == pc = "judged" /\ gone => exit = 2

\* What follows in a document hides nothing: the placeholders and banned words found
\* in its first lines are those found when it ended there (a fence or a run of
\* backticks further down takes no earlier line out of sight).
LaterLinesHideNothing ==
    pc = "judged" =>
        \A p \in ContentOf(docs) : \A n \in 1 .. Len(docs[p].body) :
            LET doc == docs[p]
                upTo == [doc EXCEPT !.body = SubSeq(doc.body, 1, n)]
            IN  {v \in CheckC4C5(p, doc) : v.line <= n} = CheckC4C5(p, upTo)

\* No document is charged with what another declares: but for the references to others,
\* the existence of its kind and the rule catalogue, it is judged as if it were alone
\* (the ids of the kinds differ, so one id of one topic is declared in one file).
OthersAreNotCharged ==
    pc = "judged" =>
        \A p \in ContentOf(docs) :
            CheckC2Unique([q \in {p} |-> docs[q]]) =
                {v \in CheckC2Unique(docs) : v.path = p}

=============================================================================
