---------------------------- MODULE SotLintProofs ----------------------------
(***************************************************************************)
(* What holds of sot_lint for any tree and any edits between its reads:    *)
(*   - it keeps its types, and a file that disappears fails the run;       *)
(*   - no document is charged with what another declares;                  *)
(*   - what follows in a document hides nothing in it;                     *)
(*   - a run during which nobody writes tells whether the SoT is complete. *)
(* The last two rest on what the recursive functions of the masking        *)
(* compute, by induction over lines and atoms (SetInduction). The masked   *)
(* blocks are CommonMark's because blocks are unique; the masked atoms are *)
(* CommonMark's where every span of the body ends on the line it starts on *)
(* (KeepsToLines): then the spans of one line exist (SpansExist) and are   *)
(* the spans of the body (CodeOfLine).                                     *)
(***************************************************************************)
EXTENDS SotLint, FiniteSetTheorems, WellFoundedInduction, TLAPS

\* A file that was gone left its error; the exit code speaks of the errors.
GoneIsRecorded ==
    /\ gone => errors # {}
    /\ pc = "judged" /\ errors # {} => exit = 2

IInv == TypeOK /\ GoneIsRecorded

\* What the fields of a document are.
LEMMA FieldsFit ==
    ASSUME NEW doc, IsDocument(doc)
    PROVE  /\ doc.form \in {"ok", "raises"} \cup ErrorCodes
           /\ doc.body \in Seq(Written)
           /\ doc.rules \in Seq(ToSet(doc.rules) \ {None})
           /\ doc.marks \subseteq {"hole", "banned"}
           /\ doc.items \in Seq(ToSet(doc.items))
           /\ doc.covers \in Seq(ToSet(doc.covers))
<1>1. \A field \in {"form", "body", "rules", "marks", "items", "covers"} :
          Fits(field, doc[field])
    BY DEF IsDocument, FrontFields
<1>2. Fits("form", doc.form) /\ Fits("body", doc.body) /\ Fits("rules", doc.rules)
      /\ Fits("marks", doc.marks) /\ Fits("items", doc.items) /\ Fits("covers", doc.covers)
    BY <1>1
<1>3. doc.form \in {"ok", "raises"} \cup ErrorCodes
    BY <1>2 DEF Fits
<1>4. doc.body \in Seq(Written)
    BY <1>2 DEF Fits
<1>5. doc.rules \in Seq(ToSet(doc.rules) \ {None})
    BY <1>2 DEF Fits
<1>6. doc.marks \subseteq {"hole", "banned"}
    BY <1>2 DEF Fits
<1>7. doc.items \in Seq(ToSet(doc.items)) /\ doc.covers \in Seq(ToSet(doc.covers))
    BY <1>2 DEF Fits
<1> QED
    BY <1>3, <1>4, <1>5, <1>6, <1>7

\* A field may be replaced by what fits it.
LEMMA ReplacedFits ==
    ASSUME NEW doc, IsDocument(doc), NEW field \in FrontFields \cup {"form", "body"},
           NEW value, Fits(field, value)
    PROVE  IsDocument([doc EXCEPT ![field] = value])
<1>1. PICK new : new = [doc EXCEPT ![field] = value]
    OBVIOUS
<1>2. DOMAIN new = DOMAIN doc /\ new[field] = value
      /\ \A other \in DOMAIN doc \ {field} : new[other] = doc[other]
    BY <1>1 DEF IsDocument
<1>3. \A other \in DOMAIN new : Fits(other, new[other])
    BY <1>2 DEF IsDocument
<1> QED
    BY <1>1, <1>2, <1>3 DEF IsDocument

LEMMA InitInv ==
    ASSUME Init
    PROVE  IInv
<1>1. /\ DOMAIN tree \subseteq Paths /\ \A p \in DOMAIN tree : IsDocument(tree[p])
      /\ edits \in 0 .. MaxEdits
    BY SotLintAssumption DEF Init
<1>2. TypeOK /\ GoneIsRecorded
    BY <1>1 DEF Init, NoDocs, TypeOK, GoneIsRecorded
<1> QED
    BY <1>2 DEF IInv

----------------------------------------------------------------------------

\* An edit touches the tree alone.
LEMMA EditInv ==
    ASSUME IInv, NEW next, Edit(next), DOMAIN next \subseteq Paths,
           \A p \in DOMAIN next : IsDocument(next[p])
    PROVE  IInv'
<1>1. edits' \in 0 .. MaxEdits
    <2>1. edits \in 0 .. MaxEdits /\ edits < MaxEdits /\ edits' = edits + 1 /\ MaxEdits \in Nat
        BY SotLintAssumption DEF IInv, TypeOK, Edit
    <2> QED
        BY <2>1
<1>2. tree' = next
    BY DEF Edit
<1>3. TypeOK' /\ GoneIsRecorded'
    BY <1>1, <1>2 DEF IInv, TypeOK, GoneIsRecorded, Edit, lintVars
<1> QED
    BY <1>3 DEF IInv

\* A line more or less is a body again.
LEMMA EditedType ==
    ASSUME NEW body \in Seq(Written), NEW other \in Edited(body)
    PROVE  other \in Seq(Written)
<1>1. CASE \E l \in 1 .. Len(body) + 1, line \in Lines : other = InsertAt(body, l, line)
    <2>1. PICK l \in 1 .. Len(body) + 1, line \in Lines : other = InsertAt(body, l, line)
        BY <1>1
    <2>2. line \in Written
        BY DEF Written
    <2>3. /\ SubSeq(body, 1, l - 1) \in Seq(Written) /\ SubSeq(body, l, Len(body)) \in Seq(Written)
          /\ <<line>> \in Seq(Written)
        BY <2>1, <2>2
    <2> QED
        BY <2>1, <2>3 DEF InsertAt
<1>2. CASE \E l \in DOMAIN body : other = RemoveAt(body, l)
    <2>1. PICK l \in DOMAIN body : other = RemoveAt(body, l)
        BY <1>2
    <2>2. /\ SubSeq(body, 1, l - 1) \in Seq(Written)
          /\ SubSeq(body, l + 1, Len(body)) \in Seq(Written)
        BY <2>1
    <2> QED
        BY <2>1, <2>2 DEF RemoveAt
<1> QED
    BY <1>1, <1>2 DEF Edited

\* An author's edit is one of a single field, the frontmatter's or the body's, or sets
\* what its reading meets, or copies or removes a document.
LEMMA AuthorInv ==
    ASSUME IInv, NEW p \in DOMAIN tree,
           \/ EditBody(p) \/ EditFront(p) \/ Break(p) \/ Delete(p)
           \/ \E q \in Paths : Copy(p, q)
    PROVE  IInv'
<1>1. DOMAIN tree \subseteq Paths /\ \A q \in DOMAIN tree : IsDocument(tree[q])
    BY DEF IInv, TypeOK
<1>2. ASSUME NEW field, NEW value, IsDocument([tree[p] EXCEPT ![field] = value]),
             Edit([tree EXCEPT ![p][field] = value])
      PROVE  IInv'
    <2>1. PICK next : next = [tree EXCEPT ![p][field] = value]
        OBVIOUS
    <2>2. DOMAIN next = DOMAIN tree
        BY <2>1
    <2>3. ASSUME NEW q \in DOMAIN tree PROVE IsDocument(next[q])
        <3>1. next[q] = IF q = p THEN [tree[p] EXCEPT ![field] = value] ELSE tree[q]
            BY <2>1
        <3> QED
            BY <1>1, <1>2, <3>1
    <2> QED
        BY <1>1, <1>2, <2>1, <2>2, <2>3, EditInv
<1>3. CASE EditBody(p)
    <2>1. PICK body \in Edited(tree[p].body) : Edit([tree EXCEPT ![p].body = body])
        BY <1>3 DEF EditBody
    <2>2. body \in Seq(Written)
        BY <1>1, <2>1, EditedType, FieldsFit
    <2>3. IsDocument([tree[p] EXCEPT !.body = body])
        <3>1. Fits("body", body)
            BY <2>2 DEF Fits
        <3> QED
            BY <1>1, <3>1, ReplacedFits
    <2> QED
        BY <1>2, <2>1, <2>3
<1>4. CASE EditFront(p)
    <2>1. PICK field \in DOMAIN FrontValues[p[1]] : \E value \in FrontValues[p[1]][field] :
              Edit([tree EXCEPT ![p][field] = value])
        BY <1>4 DEF EditFront
    <2>2. PICK value \in FrontValues[p[1]][field] : Edit([tree EXCEPT ![p][field] = value])
        BY <2>1
    <2>3. field \in FrontFields /\ Fits(field, value)
        BY <1>1, <2>1, <2>2, SotLintAssumption
    <2>4. IsDocument([tree[p] EXCEPT ![field] = value])
        BY <1>1, <2>3, ReplacedFits
    <2> QED
        BY <1>2, <2>2, <2>4
<1>5. CASE Break(p)
    <2>1. PICK form \in {"raises"} \cup ErrorCodes : Edit([tree EXCEPT ![p].form = form])
        BY <1>5 DEF Break
    <2>2. IsDocument([tree[p] EXCEPT !.form = form])
        <3>1. Fits("form", form)
            BY DEF Fits
        <3> QED
            BY <1>1, <3>1, ReplacedFits
    <2> QED
        BY <1>2, <2>1, <2>2
<1>6. CASE Delete(p)
    <2>1. PICK next : next = [q \in DOMAIN tree \ {p} |-> tree[q]]
        OBVIOUS
    <2>2. /\ DOMAIN next \subseteq Paths
          /\ \A q \in DOMAIN next : q \in DOMAIN tree /\ next[q] = tree[q]
        BY <1>1, <2>1
    <2> QED
        BY <1>1, <1>6, <2>1, <2>2, EditInv DEF Delete
<1>7. ASSUME NEW q \in Paths, Copy(p, q) PROVE IInv'
    <2>1. PICK next : next = [r \in DOMAIN tree \cup {q} |-> tree[IF r = q THEN p ELSE r]]
        OBVIOUS
    <2>2. DOMAIN next \subseteq Paths
          /\ \A r \in DOMAIN next : \E o \in DOMAIN tree : next[r] = tree[o]
        BY <1>1, <2>1
    <2> QED
        BY <1>1, <1>7, <2>1, <2>2, EditInv DEF Copy
<1> QED
    BY <1>3, <1>4, <1>5, <1>6, <1>7

\* What is read is there: of a file that is gone only an error is kept.
LEMMA LoadDocumentInv ==
    ASSUME IInv, NEW p \in listed, LoadDocument(p)
    PROVE  IInv'
<1> DEFINE form == Form(p)
<1>1. /\ docs' = IF form = "ok"
                 THEN [q \in DOMAIN docs \cup {p} |-> IF q = p THEN tree[p] ELSE docs[q]]
                 ELSE docs
      /\ errors' = IF form # "ok" THEN errors \cup {<<p, form>>} ELSE errors
      /\ gone' = (gone \/ p \notin DOMAIN tree)
      /\ listed' = listed \ {p}
      /\ pc = "reading"
      /\ UNCHANGED <<tree, pc, exit, edits, quiet>>
    BY DEF LoadDocument
<1>2. form \in {"ok"} \cup ErrorCodes
    <2>1. form # "raises"
        BY DEF LoadDocument
    <2> QED
        BY <2>1, SotLintAssumption, FieldsFit DEF IInv, TypeOK, Form
<1>3. p \notin DOMAIN tree => form # "ok"
    BY SotLintAssumption DEF Form
<1>4. p \in Paths
    BY DEF IInv, TypeOK
<1> HIDE DEF form
<1>5. DOMAIN docs' \subseteq Paths /\ \A q \in DOMAIN docs' : IsDocument(docs'[q])
    <2>1. DOMAIN docs \subseteq Paths /\ \A q \in DOMAIN docs : IsDocument(docs[q])
        BY DEF IInv, TypeOK
    <2>2. form = "ok" => IsDocument(tree[p])
        BY SotLintAssumption DEF IInv, TypeOK, form, Form
    <2>3. CASE form = "ok"
        BY <1>1, <1>4, <2>1, <2>2, <2>3
    <2>4. CASE form # "ok"
        BY <1>1, <2>1, <2>4
    <2> QED
        BY <2>3, <2>4
<1>6. errors' \subseteq Paths \X ErrorCodes
    BY <1>1, <1>2, <1>4 DEF IInv, TypeOK
<1>7. TypeOK'
    BY <1>1, <1>5, <1>6 DEF IInv, TypeOK
<1>8. GoneIsRecorded'
    BY <1>1, <1>3 DEF IInv, GoneIsRecorded
<1> QED
    BY <1>7, <1>8 DEF IInv

LEMMA NextInv ==
    ASSUME IInv, [Next]_vars
    PROVE  IInv'
<1>1. CASE Discover
    BY <1>1 DEF Discover, NoDocs, IInv, TypeOK, GoneIsRecorded
<1>2. CASE Judge
    <2>1. (errors # {} => exit' = 2) /\ exit' \in {0, 1, 2}
        BY <1>2 DEF Judge
    <2> QED
        BY <1>2, <2>1 DEF Judge, IInv, TypeOK, GoneIsRecorded
<1>3. CASE Exit
    BY <1>3 DEF Exit, NoDocs, IInv, TypeOK, GoneIsRecorded
<1>4. CASE UNCHANGED vars
    BY <1>4 DEF vars, IInv, TypeOK, GoneIsRecorded
<1>5. ASSUME NEW p \in listed, LoadRaises(p) PROVE IInv'
    BY <1>5 DEF LoadRaises, IInv, TypeOK, GoneIsRecorded
<1> QED
    BY <1>1, <1>2, <1>3, <1>4, <1>5, AuthorInv, LoadDocumentInv DEF Next

\* The strengthened invariant of the run and what it has read holds of every behaviour.
THEOREM Invariance == Spec => []IInv
<1>1. Init => IInv
    BY InitInv
<1> QED
    BY <1>1, NextInv, PTL DEF Spec

\* Whatever authors write meanwhile: what is listed and read are paths of the four
\* directories, every file that did not parse is kept with one of the error codes, and
\* the exit code is one that cli.py documents.
THEOREM Typing == Spec => []TypeOK
<1>1. IInv => TypeOK
    BY DEF IInv
<1> QED
    BY <1>1, Invariance, PTL

\* For any tree and any edits: a run one of whose files disappeared before its turn
\* exits with 2 (parser.py load_document, cli.py main).
THEOREM VanishingFails == Spec => []VanishedIsAnError
<1>1. IInv => VanishedIsAnError
    BY DEF IInv, GoneIsRecorded, VanishedIsAnError
<1> QED
    BY <1>1, Invariance, PTL

----------------------------------------------------------------------------
\* The declarations of one document and of all.

Key(ds, d) == <<d[1][2], ds[d[1]].items[d[2]]>>

\* The kinds have ids of their own, so what two declarations share is in one file.
LEMMA SameKeySameFile ==
    ASSUME NEW ds, DOMAIN ds \subseteq Paths, NEW d \in Declarations(ds),
           NEW e \in Declarations(ds), Key(ds, d) = Key(ds, e)
    PROVE  d[1] = e[1]
<1>1. /\ d[1] \in ContentOf(ds) /\ KindOf(ds[d[1]].items[d[2]]) = d[1][1]
      /\ e[1] \in ContentOf(ds) /\ KindOf(ds[e[1]].items[e[2]]) = e[1][1]
    BY DEF Declarations
<1>2. d[1][2] = e[1][2] /\ d[1][1] = e[1][1]
    BY <1>1 DEF Key
<1>3. d[1] = <<d[1][1], d[1][2]>> /\ e[1] = <<e[1][1], e[1][2]>>
    BY <1>1 DEF ContentOf, Paths
<1> QED
    BY <1>2, <1>3

\* The declarations of a document alone are its own in the tree.
LEMMA DeclarationsAlone ==
    ASSUME NEW ds, NEW p \in ContentOf(ds), NEW alone, alone = [q \in {p} |-> ds[q]]
    PROVE  /\ Declarations(alone) = {d \in Declarations(ds) : d[1] = p}
           /\ \A d \in Declarations(alone) : Key(alone, d) = Key(ds, d)
<1>1. ContentOf(alone) = {p} /\ alone[p] = ds[p]
    BY DEF ContentOf
<1> DEFINE Own(f, q) == {<<q, i>> : i \in {i \in DOMAIN f[q].items : KindOf(f[q].items[i]) = q[1]}}
<1>2. Declarations(alone) = Own(ds, p)
    BY <1>1 DEF Declarations
<1>3. \A q \in ContentOf(ds) : \A d \in Own(ds, q) : d[1] = q
    OBVIOUS
<1>4. Declarations(ds) = UNION {Own(ds, q) : q \in ContentOf(ds)}
    BY DEF Declarations
<1> HIDE DEF Own
<1>5. Declarations(alone) = {d \in Declarations(ds) : d[1] = p}
    BY <1>2, <1>3, <1>4
<1> QED
    BY <1>1, <1>5 DEF Key

LEMMA UniqueAlone ==
    ASSUME NEW ds, DOMAIN ds \subseteq Paths, NEW p \in ContentOf(ds)
    PROVE  CheckC2Unique([q \in {p} |-> ds[q]]) = {v \in CheckC2Unique(ds) : v.path = p}
<1> DEFINE alone == [q \in {p} |-> ds[q]]
           Shared(f) == {d \in Declarations(f) :
                           \E e \in Declarations(f) : d # e /\ Key(f, d) = Key(f, e)}
<1>1. /\ Declarations(alone) = {d \in Declarations(ds) : d[1] = p}
      /\ \A d \in Declarations(alone) : Key(alone, d) = Key(ds, d)
    BY DeclarationsAlone
<1> HIDE DEF alone
<1>2. Shared(alone) = {d \in Shared(ds) : d[1] = p}
    BY <1>1, SameKeySameFile
<1>3. \A f : CheckC2Unique(f) = {Violation(d[1], 0, "C2", Key(f, d)[2]) : d \in Shared(f)}
    BY DEF CheckC2Unique, Key
<1>4. \A d \in Shared(alone) : Key(alone, d) = Key(ds, d)
    BY <1>1
<1> HIDE DEF Shared
<1>5. \A a, b : Violation(a, 0, "C2", b).path = a
    BY DEF Violation
<1>6. CheckC2Unique(alone) = {v \in CheckC2Unique(ds) : v.path = p}
  <2>1. CheckC2Unique(alone)
        = {Violation(d[1], 0, "C2", Key(ds, d)[2]) : d \in {d \in Shared(ds) : d[1] = p}}
    BY <1>2, <1>3, <1>4
  <2> QED
    BY <1>3, <1>5, <2>1
<1> QED
    BY <1>6 DEF alone

\* For any tree: no document is charged with the declarations of another (checks.py,
\* the third part of C2).
THEOREM ChargesAreOwn == Spec => []OthersAreNotCharged
<1>1. IInv => OthersAreNotCharged
    BY UniqueAlone DEF IInv, TypeOK, OthersAreNotCharged
<1> QED
    BY <1>1, Invariance, PTL

----------------------------------------------------------------------------
\* Induction, said of a set.
LEMMA SetInduction ==
    ASSUME NEW T, 0 \in T, \A n \in Nat : n \in T => n + 1 \in T
    PROVE  Nat \subseteq T
<1> DEFINE U == Nat \ T
<1>1. SUFFICES ASSUME U # {} PROVE FALSE
    OBVIOUS
<1>2. IsWellFoundedOn(OpToRel(<, Nat), Nat)
    BY NatLessThanWellFounded
<1> HIDE DEF U
<1>3. U \subseteq Nat
    BY DEF U
<1>4. PICK m \in U : \A b \in U : ~ (<<b, m>> \in OpToRel(<, Nat))
    BY <1>1, <1>2, <1>3, WFMin
<1>5. m \in Nat /\ m \notin T
    BY DEF U
<1>6. m # 0 /\ m - 1 \in Nat /\ m - 1 < m
    BY <1>5
<1>7. m - 1 \notin U
    BY <1>4, <1>5, <1>6 DEF OpToRel
<1> QED
    BY <1>5, <1>6, <1>7 DEF U

\* The fences of a body are what their recursive definition says.
LEMMA FencesDef ==
    ASSUME NEW lines, Len(lines) \in Nat
    PROVE  Fences(lines) = [l \in 0 .. Len(lines) |->
               IF l = 0 THEN Blank ELSE NextFence(Fences(lines)[l - 1], lines[l])]
<1> DEFINE Is(g, n) == g = [l \in 0 .. n |->
                              IF l = 0 THEN Blank ELSE NextFence(g[l - 1], lines[l])]
           T == {n \in Nat : \E g : Is(g, n)}
<1>1. 0 \in T
    <2>1. Is([l \in {0} |-> Blank], 0)
        OBVIOUS
    <2> QED
        BY <2>1
<1>2. ASSUME NEW n \in T PROVE n + 1 \in T
    <2>1. PICK g : Is(g, n)
        OBVIOUS
    <2>2. PICK h : h = [l \in 0 .. n + 1 |-> IF l \in 0 .. n THEN g[l]
                                            ELSE NextFence(g[n], lines[n + 1])]
        OBVIOUS
    <2>3. n \in Nat
        OBVIOUS
    <2>4. \A l \in 0 .. n : g[l] = IF l = 0 THEN Blank ELSE NextFence(g[l - 1], lines[l])
        BY <2>1, Zenon
    <2>5. \A l \in 0 .. n + 1 : h[l] = IF l = 0 THEN Blank ELSE NextFence(h[l - 1], lines[l])
        <3>1. \A l \in 0 .. n : h[l] = g[l]
            BY <2>2, <2>3
        <3>2. h[n + 1] = NextFence(h[n], lines[n + 1])
            BY <2>2, <2>3
        <3>3. ASSUME NEW l \in 0 .. n + 1
              PROVE  h[l] = IF l = 0 THEN Blank ELSE NextFence(h[l - 1], lines[l])
            <4>1. CASE l = 0
                BY <2>3, <2>4, <3>1, <4>1
            <4>2. CASE l = n + 1
                <5>1. l - 1 = n /\ l # 0
                    BY <2>3, <4>2
                <5> QED
                    BY <3>2, <4>2, <5>1
            <4>3. CASE l \in 1 .. n
                <5>1. l \in 0 .. n /\ l - 1 \in 0 .. n /\ l # 0
                    BY <2>3, <4>3
                <5>2. h[l] = g[l] /\ h[l - 1] = g[l - 1]
                    BY <3>1, <5>1
                <5> QED
                    BY <2>4, <5>1, <5>2
            <4> QED
                BY <2>3, <4>1, <4>2, <4>3
        <3> QED
            BY <3>3
    <2>6. Is(h, n + 1)
        <3>1. h = [l \in 0 .. n + 1 |-> h[l]]
            BY <2>2, Zenon
        <3>2. [l \in 0 .. n + 1 |-> h[l]]
                = [l \in 0 .. n + 1 |-> IF l = 0 THEN Blank ELSE NextFence(h[l - 1], lines[l])]
            BY <2>5, Zenon
        <3> QED
            BY <3>1, <3>2, Zenon
    <2> HIDE DEF Is
    <2> QED
        BY <2>3, <2>6
<1>3. Len(lines) \in T
    <2> HIDE DEF T
    <2> QED
        BY <1>1, <1>2, SetInduction
<1>4. PICK g : Is(g, Len(lines))
    BY <1>3
<1>5. Is(Fences(lines), Len(lines))
    BY <1>4 DEF Fences
<1> QED
    BY <1>5

LEMMA FencesAt ==
    ASSUME NEW lines, Len(lines) \in Nat
    PROVE  /\ Fences(lines)[0] = Blank
           /\ \A l \in 1 .. Len(lines) :
                 Fences(lines)[l] = NextFence(Fences(lines)[l - 1], lines[l])
<1>1. \A l \in 0 .. Len(lines) :
          Fences(lines)[l] = IF l = 0 THEN Blank ELSE NextFence(Fences(lines)[l - 1], lines[l])
    BY FencesDef, Zenon
<1>2. 0 \in 0 .. Len(lines) /\ \A l \in 1 .. Len(lines) : l \in 0 .. Len(lines) /\ l # 0
    OBVIOUS
<1> QED
    BY <1>1, <1>2

\* What is open after some lines depends on these lines alone.
LEMMA FencesOfPrefix ==
    ASSUME NEW S, NEW lines \in Seq(S), NEW n \in 0 .. Len(lines)
    PROVE  \A l \in 0 .. n : Fences(SubSeq(lines, 1, n))[l] = Fences(lines)[l]
<1> DEFINE pre == SubSeq(lines, 1, n)
           T == {l \in Nat : l <= n => Fences(pre)[l] = Fences(lines)[l]}
<1>1. Len(lines) \in Nat /\ Len(pre) = n /\ \A l \in 1 .. n : pre[l] = lines[l]
    OBVIOUS
<1> HIDE DEF pre
<1>2. 0 \in T
    BY <1>1, FencesAt
<1>3. ASSUME NEW l \in Nat, l \in T PROVE l + 1 \in T
    <2>1. SUFFICES ASSUME l + 1 <= n PROVE Fences(pre)[l + 1] = Fences(lines)[l + 1]
        OBVIOUS
    <2>2. PICK m : m = l + 1 /\ m \in 1 .. n /\ m - 1 = l /\ m \in 1 .. Len(lines) /\ l <= n
        BY <1>1, <2>1
    <2>3. Fences(pre)[m] = NextFence(Fences(pre)[m - 1], pre[m])
        BY <1>1, <2>2, FencesAt
    <2>4. Fences(lines)[m] = NextFence(Fences(lines)[m - 1], lines[m])
        BY <1>1, <2>2, FencesAt
    <2>5. Fences(pre)[l] = Fences(lines)[l]
        BY <1>3, <2>2
    <2> QED
        BY <1>1, <2>2, <2>3, <2>4, <2>5
<1>4. Nat \subseteq T
    <2> HIDE DEF T
    <2> QED
        BY <1>2, <1>3, SetInduction
<1>5. \A l \in 0 .. n : l \in T /\ l <= n
    BY <1>4
<1>6. \A l \in 0 .. n : Fences(pre)[l] = Fences(lines)[l]
    BY <1>5
<1> QED
    BY <1>6 DEF pre

\* So does what is left of them, in either view.
LEMMA ViewsOfPrefix ==
    ASSUME NEW S, NEW body \in Seq(S), NEW n \in 0 .. Len(body)
    PROVE  /\ DOMAIN BodyViewB(body) = 1 .. Len(body)
           /\ DOMAIN BodyViewB(SubSeq(body, 1, n)) = 1 .. n
           /\ \A l \in 1 .. n : BodyViewB(SubSeq(body, 1, n))[l] = BodyViewB(body)[l]
<1> DEFINE pre == SubSeq(body, 1, n)
<1>1. /\ DOMAIN body = 1 .. Len(body) /\ DOMAIN pre = 1 .. n /\ n <= Len(body)
      /\ Len(body) \in Nat /\ n \in Nat
      /\ \A l \in 1 .. n : pre[l] = body[l] /\ l \in 1 .. Len(body)
                          /\ l - 1 \in 0 .. n /\ l \in 0 .. n
    OBVIOUS
<1>2. \A l \in 0 .. n : Fences(pre)[l] = Fences(body)[l]
    BY FencesOfPrefix
<1> HIDE DEF pre
<1>3. \A l \in 1 .. n : MaskFences(pre)[l] = MaskFences(body)[l]
    BY <1>1, <1>2 DEF MaskFences
<1>4. /\ DOMAIN BodyViewB(body) = 1 .. Len(body)
      /\ DOMAIN BodyViewB(pre) = 1 .. n
    BY <1>1 DEF BodyViewB
<1>5. \A l \in 1 .. n : BodyViewB(pre)[l] = BodyViewB(body)[l]
    BY <1>1, <1>3 DEF BodyViewB, BodyViewA
<1> QED
    BY <1>4, <1>5 DEF pre

\* What C4 and C5 find in the first lines of a document.
LEMMA MarksOfPrefix ==
    ASSUME NEW p, NEW doc, IsDocument(doc), NEW n \in 1 .. Len(doc.body)
    PROVE  {v \in CheckC4C5(p, doc) : v.line <= n}
               = CheckC4C5(p, [doc EXCEPT !.body = SubSeq(doc.body, 1, n)])
<1> DEFINE upTo == [doc EXCEPT !.body = SubSeq(doc.body, 1, n)]
           In(d, mark) == {l \in DOMAIN BodyViewB(d.body) : Has(BodyViewB(d.body)[l], mark)}
           Marked(d, mark) == In(d, mark) \cup IF mark \in FrontMarks(d) THEN {0} ELSE {}
<1>1. /\ upTo.body = SubSeq(doc.body, 1, n)
      /\ upTo.items = doc.items /\ upTo.covers = doc.covers /\ upTo.rules = doc.rules
      /\ upTo.marks = doc.marks
    BY DEF IsDocument, FrontFields
<1>2. doc.body \in Seq(Written) /\ n \in 0 .. Len(doc.body) /\ n \in Nat
    <2>1. doc.body \in Seq(Written)
        BY FieldsFit
    <2> QED
        BY <2>1
<1> HIDE DEF upTo
<1>3. FrontMarks(upTo) = FrontMarks(doc)
    BY <1>1 DEF FrontMarks
<1>4. /\ DOMAIN BodyViewB(doc.body) = 1 .. Len(doc.body)
      /\ DOMAIN BodyViewB(upTo.body) = 1 .. n
      /\ \A l \in 1 .. n : BodyViewB(upTo.body)[l] = BodyViewB(doc.body)[l]
    BY <1>1, <1>2, ViewsOfPrefix
<1>5. ASSUME NEW mark PROVE Marked(upTo, mark) = {l \in Marked(doc, mark) : l <= n}
    <2>1. In(upTo, mark) = {l \in In(doc, mark) : l <= n}
        BY <1>2, <1>4
    <2> HIDE DEF In
    <2> QED
        BY <1>2, <1>3, <2>1
<1>6. \A d : CheckC4C5(p, d) = {Violation(p, l, "C4", None) : l \in Marked(d, "hole")}
                              \cup {Violation(p, l, "C5", None) : l \in Marked(d, "banned")}
    BY DEF CheckC4C5
<1>7. \A l, code : Violation(p, l, code, None).line = l
    BY DEF Violation
<1> HIDE DEF Marked
<1>8. {v \in CheckC4C5(p, doc) : v.line <= n} = CheckC4C5(p, upTo)
    BY <1>5, <1>6, <1>7
<1> QED
    BY <1>8 DEF upTo

\* For any tree: the placeholders and banned words that C4 and C5 find in the first lines
\* of a document are those they find when it ends there (_mask_fences, _mask_inline_code).
THEOREM LaterLinesAreHarmless == Spec => []LaterLinesHideNothing
<1>1. IInv => LaterLinesHideNothing
    <2>1. SUFFICES ASSUME IInv, NEW p \in ContentOf(docs), NEW n \in 1 .. Len(docs[p].body)
                   PROVE  {v \in CheckC4C5(p, docs[p]) : v.line <= n}
                             = CheckC4C5(p, [docs[p] EXCEPT !.body = SubSeq(docs[p].body, 1, n)])
        BY DEF LaterLinesHideNothing
    <2>2. PICK doc : doc = docs[p]
        OBVIOUS
    <2>3. IsDocument(doc)
        BY <2>1, <2>2 DEF IInv, TypeOK, ContentOf
    <2> QED
        BY <2>2, <2>3, MarksOfPrefix
<1> QED
    BY <1>1, Invariance, PTL

----------------------------------------------------------------------------
LEMMA LeastOf ==
    ASSUME NEW S, S \subseteq Nat, S # {}
    PROVE  Least(S) \in S /\ \A y \in S : Least(S) <= y
<1>1. IsWellFoundedOn(OpToRel(<, Nat), Nat)
    BY NatLessThanWellFounded
<1>2. PICK m \in S : \A b \in S : ~ (<<b, m>> \in OpToRel(<, Nat))
    BY <1>1, WFMin
<1>3. \A b \in S : b \in Nat /\ m \in Nat /\ ~ (b < m)
    BY <1>2 DEF OpToRel
<1>4. \A b \in S : m <= b
    BY <1>3
<1> QED
    BY <1>4 DEF Least

----------------------------------------------------------------------------
\* Spans: the members do not overlap and take in where every candidate starts.
AreSpans(B, candidates) ==
    /\ B \subseteq candidates
    /\ \A b, c \in B : b = c \/ b[2] < c[1] \/ c[2] < b[1]
    /\ \A c \in candidates : \E b \in B : c[1] \in b[1] .. b[2]

\* Candidates run forwards from places of their own.
AreCandidates(candidates) ==
    /\ \A c \in candidates : c[1] \in Nat /\ c[2] \in Nat /\ c[1] <= c[2]
    /\ \A c, d \in candidates : c[1] = d[1] => c = d

\* A member of one set that the other has not starts inside one that starts before it,
\* and that the first has not.
LEMMA EarlierDifference ==
    ASSUME NEW C, AreCandidates(C), NEW B, AreSpans(B, C), NEW D, AreSpans(D, C),
           NEW x \in B \ D
    PROVE  \E d \in D \ B : d[1] < x[1]
<1>1. x \in C
    BY DEF AreSpans
<1>2. PICK d \in D : x[1] \in d[1] .. d[2]
    BY <1>1 DEF AreSpans
<1>3. d \in C /\ d # x
    BY DEF AreSpans
<1>4. /\ x[1] \in Nat /\ x[2] \in Nat /\ x[1] <= x[2]
      /\ d[1] \in Nat /\ d[2] \in Nat /\ d[1] <= d[2]
      /\ x[1] # d[1]
    BY <1>1, <1>3 DEF AreCandidates
<1>5. d[1] < x[1]
    BY <1>2, <1>4
<1>6. ASSUME d \in B PROVE FALSE
    <2>1. d[2] < x[1] \/ x[2] < d[1]
        BY <1>3, <1>6 DEF AreSpans
    <2> QED
        BY <1>2, <1>4, <1>5, <2>1
<1> QED
    BY <1>5, <1>6

LEMMA SpansAre ==
    ASSUME NEW C, AreCandidates(C), NEW B, AreSpans(B, C)
    PROVE  Spans(C) = B
<1>1. ASSUME NEW D, AreSpans(D, C) PROVE D = B
    <2> DEFINE Odd == (B \ D) \cup (D \ B)
               starts == {x[1] : x \in Odd}
    <2>1. SUFFICES ASSUME Odd # {} PROVE FALSE
        OBVIOUS
    <2>2. Odd \subseteq C
        BY <1>1 DEF AreSpans
    <2>3. starts \subseteq Nat /\ starts # {}
        <3> HIDE DEF Odd
        <3> QED
            BY <2>1, <2>2 DEF AreCandidates
    <2>4. PICK m : m \in starts /\ \A y \in starts : m <= y
        <3> HIDE DEF starts
        <3> QED
            BY <2>3, LeastOf
    <2>5. PICK x \in Odd : x[1] = m
        BY <2>4
    <2>6. \E d \in Odd : d[1] < x[1]
        BY <1>1, <2>5, EarlierDifference
    <2>7. PICK d \in Odd : d[1] < x[1]
        BY <2>6
    <2>8. d[1] \in starts
        BY <2>7
    <2> HIDE DEF Odd, starts
    <2>9. PICK k : k = d[1]
        OBVIOUS
    <2>10. k \in Nat /\ m \in Nat /\ m <= k
        BY <2>3, <2>4, <2>8, <2>9
    <2>11. k < m
        BY <2>5, <2>7, <2>9
    <2> QED
        BY <2>10, <2>11
<1>2. Spans(C) = CHOOSE D \in SUBSET C : AreSpans(D, C)
    BY DEF Spans, AreSpans
<1>3. B \in SUBSET C
    BY DEF AreSpans
<1> QED
    BY <1>1, <1>2, <1>3

Openers(body) == {o \in DOMAIN body : OpensFence(body[o])}
FenceClosers(body, o) == {c \in o + 1 .. Len(body) : ClosesFence(body[c], body[o][1])}
BlockEnd(body, o) ==
    IF FenceClosers(body, o) = {} THEN Len(body) ELSE Least(FenceClosers(body, o))
Blocks(body) == {<<o, BlockEnd(body, o)>> : o \in Openers(body)}
OpenBlocks(body) ==
    {<<o, BlockEnd(body, o)>> : o \in {o \in Openers(body) : Fences(body)[o - 1] = Blank}}

\* A line of a body is a sequence of atoms.
LEMMA LinesOfBody ==
    ASSUME NEW body \in Seq(Written), NEW l \in DOMAIN body
    PROVE  body[l] \in Seq(ToSet(body[l])) /\ \A i \in DOMAIN body[l] : IsAtom(body[l][i])
<1>1. body[l] \in Written
    OBVIOUS
<1> QED
    BY <1>1, SotLintAssumption DEF IsLine

\* A block ends behind its opener, at the first line that closes it.
LEMMA BlockEnds ==
    ASSUME NEW body \in Seq(Written), NEW o \in Openers(body)
    PROVE  /\ o \in 1 .. Len(body)
           /\ BlockEnd(body, o) \in o .. Len(body)
           /\ \A c \in o + 1 .. BlockEnd(body, o) - 1 : ~ClosesFence(body[c], body[o][1])
           /\ \A l \in o .. Len(body) :
                 (\A c \in o + 1 .. l - 1 : ~ClosesFence(body[c], body[o][1]))
                     => l <= BlockEnd(body, o)
<1>1. o \in 1 .. Len(body) /\ Len(body) \in Nat /\ o \in Nat
    BY DEF Openers
<1> DEFINE S == FenceClosers(body, o)
<1>2. S \subseteq o + 1 .. Len(body) /\ S \subseteq Nat
    BY <1>1 DEF FenceClosers
<1>3. \A c \in o + 1 .. Len(body) : c \in S <=> ClosesFence(body[c], body[o][1])
    BY DEF FenceClosers
<1>4. CASE S = {}
    BY <1>1, <1>3, <1>4 DEF BlockEnd
<1>5. CASE S # {}
    <2>1. PICK m : m = Least(S)
        OBVIOUS
    <2>2. m \in S /\ \A y \in S : m <= y
        <3> HIDE DEF S
        <3> QED
            BY <1>2, <1>5, <2>1, LeastOf
    <2>3. BlockEnd(body, o) = m
        BY <1>5, <2>1 DEF BlockEnd
    <2> HIDE DEF S
    <2>4. m \in o + 1 .. Len(body)
        BY <1>2, <2>2
    <2>5. \A c \in o + 1 .. m - 1 : c \in o + 1 .. Len(body) /\ ~(m <= c)
        BY <1>1, <2>4
    <2>6. \A c \in o + 1 .. m - 1 : ~ClosesFence(body[c], body[o][1])
        BY <1>3, <2>2, <2>5
    <2>7. ASSUME NEW l \in o .. Len(body), l > m
          PROVE  ~ \A c \in o + 1 .. l - 1 : ~ClosesFence(body[c], body[o][1])
        <3>1. m \in o + 1 .. l - 1
            BY <1>1, <2>4, <2>7
        <3>2. ClosesFence(body[m], body[o][1])
            BY <1>3, <2>2, <2>4
        <3> QED
            BY <3>1, <3>2
    <2>8. \A l \in o .. Len(body) :
              (\A c \in o + 1 .. l - 1 : ~ClosesFence(body[c], body[o][1])) => l <= m
        BY <1>1, <2>4, <2>7
    <2> QED
        BY <1>1, <2>3, <2>4, <2>6, <2>8
<1> QED
    BY <1>4, <1>5

\* What opens a fence is no blank.
LEMMA OpenerIsNotBlank ==
    ASSUME NEW line, OpensFence(line)
    PROVE  line[1] # Blank
<1>1. line[1].k \in {"tick", "tilde"} /\ Blank.k = "blank"
    BY DEF OpensFence, Blank, Atom
<1> QED
    BY <1>1

\* A fence that opens outside a block stays open until a line closes it.
LEMMA StaysOpen ==
    ASSUME NEW body \in Seq(Written), NEW o \in Openers(body), Fences(body)[o - 1] = Blank,
           NEW l \in o .. Len(body),
           \A c \in o + 1 .. l : ~ClosesFence(body[c], body[o][1])
    PROVE  Fences(body)[l] = body[o][1]
<1>1. o \in 1 .. Len(body) /\ Len(body) \in Nat /\ o \in Nat /\ OpensFence(body[o])
      /\ l \in Nat
    BY DEF Openers
<1>2. \A m \in 1 .. Len(body) : Fences(body)[m] = NextFence(Fences(body)[m - 1], body[m])
    BY <1>1, FencesAt
<1>3. body[o][1] # Blank
    BY <1>1, OpenerIsNotBlank
<1> DEFINE T == {m \in Nat : o + m <= l => Fences(body)[o + m] = body[o][1]}
<1>4. 0 \in T
    <2>1. Fences(body)[o] = NextFence(Blank, body[o])
        BY <1>1, <1>2
    <2>2. Fences(body)[o] = body[o][1]
        BY <1>1, <2>1 DEF NextFence
    <2> QED
        BY <1>1, <2>2
<1>5. ASSUME NEW m \in Nat, m \in T PROVE m + 1 \in T
    <2>1. SUFFICES ASSUME o + (m + 1) <= l PROVE Fences(body)[o + (m + 1)] = body[o][1]
        OBVIOUS
    <2>2. PICK k : k = o + (m + 1) /\ k \in o + 1 .. l /\ k \in 1 .. Len(body)
                   /\ k - 1 = o + m /\ o + m <= l
        BY <1>1, <2>1
    <2>3. Fences(body)[k - 1] = body[o][1]
        BY <1>5, <2>2
    <2>4. ~ClosesFence(body[k], body[o][1])
        BY <2>2
    <2>5. Fences(body)[k] = NextFence(body[o][1], body[k])
        BY <1>2, <2>2, <2>3
    <2>6. Fences(body)[k] = body[o][1]
        BY <1>3, <2>4, <2>5 DEF NextFence
    <2> QED
        BY <2>2, <2>6
<1>6. Nat \subseteq T
    <2> HIDE DEF T
    <2> QED
        BY <1>4, <1>5, SetInduction
<1>7. l - o \in Nat /\ o + (l - o) = l
    BY <1>1
<1>8. l - o \in T
    BY <1>6, <1>7
<1> QED
    BY <1>7, <1>8

\* What is open after a line was opened outside a block and has not been closed since.
LEMMA OpenSince ==
    ASSUME NEW body \in Seq(Written), NEW l \in 0 .. Len(body), Fences(body)[l] # Blank
    PROVE  \E o \in Openers(body) :
               /\ o <= l /\ Fences(body)[o - 1] = Blank
               /\ Fences(body)[l] = body[o][1]
               /\ \A c \in o + 1 .. l : ~ClosesFence(body[c], body[o][1])
<1>1. Len(body) \in Nat /\ DOMAIN body = 1 .. Len(body)
    OBVIOUS
<1>2. /\ Fences(body)[0] = Blank
      /\ \A m \in 1 .. Len(body) : Fences(body)[m] = NextFence(Fences(body)[m - 1], body[m])
    BY <1>1, FencesAt
<1> DEFINE Since(m, o) == /\ o <= m /\ Fences(body)[o - 1] = Blank
                          /\ Fences(body)[m] = body[o][1]
                          /\ \A c \in o + 1 .. m : ~ClosesFence(body[c], body[o][1])
           T == {m \in Nat : m <= Len(body) /\ Fences(body)[m] # Blank =>
                                 \E o \in Openers(body) : Since(m, o)}
<1>3. 0 \in T
    BY <1>2
<1>4. ASSUME NEW m \in Nat, m \in T PROVE m + 1 \in T
    <2>1. SUFFICES ASSUME m + 1 <= Len(body), Fences(body)[m + 1] # Blank
                   PROVE  \E o \in Openers(body) : Since(m + 1, o)
        OBVIOUS
    <2>2. PICK k : k = m + 1 /\ k \in 1 .. Len(body) /\ k - 1 = m /\ m <= Len(body) /\ k \in Nat
        BY <1>1, <2>1
    <2>3. Fences(body)[k] = NextFence(Fences(body)[k - 1], body[k])
        BY <1>2, <2>2
    <2>4. CASE Fences(body)[m] = Blank
        <3>1. OpensFence(body[k]) /\ Fences(body)[k] = body[k][1]
            BY <2>1, <2>2, <2>3, <2>4 DEF NextFence
        <3>2. k \in Openers(body)
            BY <1>1, <2>2, <3>1 DEF Openers
        <3>3. Since(k, k)
            BY <2>2, <2>4, <3>1
        <3> QED
            BY <2>2, <3>2, <3>3
    <2>5. CASE Fences(body)[m] # Blank
        <3>1. PICK o \in Openers(body) : Since(m, o)
            BY <1>4, <2>2, <2>5
        <3>2. o \in 1 .. Len(body)
            BY <1>1 DEF Openers
        <3>3. ~ClosesFence(body[k], body[o][1]) /\ Fences(body)[k] = body[o][1]
            BY <2>1, <2>2, <2>3, <2>5, <3>1 DEF NextFence
        <3>4. \A c \in o + 1 .. k : c = k \/ c \in o + 1 .. m
            BY <2>2, <3>2
        <3>5. \A c \in o + 1 .. k : ~ClosesFence(body[c], body[o][1])
            BY <3>1, <3>3, <3>4
        <3>6. o <= k
            BY <2>2, <3>1, <3>2
        <3>7. Since(k, o)
            BY <3>1, <3>3, <3>5, <3>6
        <3> QED
            BY <2>2, <3>7
    <2> QED
        BY <2>4, <2>5
<1>5. Nat \subseteq T
    <2> HIDE DEF T
    <2> QED
        BY <1>3, <1>4, SetInduction
<1>6. l \in T /\ l <= Len(body)
    BY <1>1, <1>5
<1> QED
    BY <1>6

\* A line is masked when a block that opened outside the others takes it in.
LEMMA MaskedInBlock ==
    ASSUME NEW body \in Seq(Written), NEW l \in DOMAIN body
    PROVE  (Fences(body)[l - 1] # Blank \/ Fences(body)[l] # Blank)
               <=> \E b \in OpenBlocks(body) : l \in b[1] .. b[2]
<1>1. Len(body) \in Nat /\ DOMAIN body = 1 .. Len(body) /\ l \in 1 .. Len(body)
      /\ l - 1 \in 0 .. Len(body) /\ l \in Nat
    OBVIOUS
<1>2. Fences(body)[l] = NextFence(Fences(body)[l - 1], body[l])
    BY <1>1, FencesAt
<1>3. ASSUME Fences(body)[l - 1] # Blank
      PROVE  \E b \in OpenBlocks(body) : l \in b[1] .. b[2]
    <2>1. PICK o \in Openers(body) :
              /\ o <= l - 1 /\ Fences(body)[o - 1] = Blank
              /\ \A c \in o + 1 .. l - 1 : ~ClosesFence(body[c], body[o][1])
        BY <1>1, <1>3, OpenSince
    <2>2. o \in 1 .. Len(body) /\ l \in o .. Len(body)
        BY <1>1, <2>1 DEF Openers
    <2>3. BlockEnd(body, o) \in o .. Len(body) /\ l <= BlockEnd(body, o)
        BY <2>1, <2>2, BlockEnds
    <2>4. <<o, BlockEnd(body, o)>> \in OpenBlocks(body)
        BY <2>1 DEF OpenBlocks
    <2>5. l \in o .. BlockEnd(body, o)
        BY <2>2, <2>3
    <2> QED
        BY <2>4, <2>5
<1>4. ASSUME Fences(body)[l - 1] = Blank, Fences(body)[l] # Blank
      PROVE  \E b \in OpenBlocks(body) : l \in b[1] .. b[2]
    <2>1. l \in Openers(body)
        BY <1>2, <1>4 DEF NextFence, Openers
    <2>2. BlockEnd(body, l) \in l .. Len(body)
        BY <2>1, BlockEnds
    <2>3. <<l, BlockEnd(body, l)>> \in OpenBlocks(body)
        BY <1>4, <2>1 DEF OpenBlocks
    <2>4. l \in l .. BlockEnd(body, l)
        BY <1>1, <2>2
    <2> QED
        BY <2>3, <2>4
<1>5. ASSUME NEW b \in OpenBlocks(body), l \in b[1] .. b[2], Fences(body)[l - 1] = Blank
      PROVE  Fences(body)[l] # Blank
    <2>1. PICK o \in Openers(body) : Fences(body)[o - 1] = Blank /\ b = <<o, BlockEnd(body, o)>>
        BY DEF OpenBlocks
    <2>2. o \in 1 .. Len(body) /\ OpensFence(body[o])
        BY <1>1 DEF Openers
    <2>3. body[o][1] # Blank
        BY <2>2, OpenerIsNotBlank
    <2>4. /\ BlockEnd(body, o) \in o .. Len(body)
          /\ \A c \in o + 1 .. BlockEnd(body, o) - 1 : ~ClosesFence(body[c], body[o][1])
        BY BlockEnds
    <2>5. l \in o .. BlockEnd(body, o)
        BY <1>5, <2>1
    <2>6. CASE l = o
        BY <1>2, <2>2, <2>3, <2>6, <1>5 DEF NextFence
    <2>7. CASE l # o
        <3>1. PICK k : k = l - 1 /\ k \in o .. Len(body) /\ k <= BlockEnd(body, o) - 1
            BY <1>1, <2>2, <2>4, <2>5, <2>7
        <3>2. \A c \in o + 1 .. k : c \in o + 1 .. BlockEnd(body, o) - 1
            BY <2>2, <2>4, <3>1
        <3>3. Fences(body)[k] = body[o][1]
            BY <2>1, <2>4, <3>1, <3>2, StaysOpen
        <3> QED
            BY <1>5, <2>3, <3>1, <3>3
    <2> QED
        BY <2>6, <2>7
<1> QED
    BY <1>3, <1>4, <1>5

LEMMA OpenBlocksAreSpans ==
    ASSUME NEW body \in Seq(Written)
    PROVE  AreCandidates(Blocks(body)) /\ AreSpans(OpenBlocks(body), Blocks(body))
<1>1. Len(body) \in Nat /\ DOMAIN body = 1 .. Len(body)
    OBVIOUS
<1>2. \A o \in Openers(body) : /\ o \in 1 .. Len(body) /\ o \in DOMAIN body
                               /\ BlockEnd(body, o) \in o .. Len(body)
    BY <1>1, BlockEnds
<1>3. AreCandidates(Blocks(body))
    BY <1>1, <1>2 DEF AreCandidates, Blocks
<1>4. OpenBlocks(body) \subseteq Blocks(body)
    BY DEF OpenBlocks, Blocks
<1>5. ASSUME NEW o \in Openers(body), NEW q \in Openers(body), o < q,
             Fences(body)[o - 1] = Blank, Fences(body)[q - 1] = Blank
      PROVE  BlockEnd(body, o) < q
    <2>1. SUFFICES ASSUME q <= BlockEnd(body, o) PROVE FALSE
        BY <1>1, <1>2
    <2>2. /\ o \in 1 .. Len(body) /\ q \in 1 .. Len(body)
          /\ BlockEnd(body, o) \in o .. Len(body)
          /\ \A c \in o + 1 .. BlockEnd(body, o) - 1 : ~ClosesFence(body[c], body[o][1])
        BY <1>2, BlockEnds
    <2>3. PICK k : k = q - 1 /\ k \in o .. Len(body) /\ k <= BlockEnd(body, o) - 1
        BY <1>1, <1>5, <2>1, <2>2
    <2>4. \A c \in o + 1 .. k : c \in o + 1 .. BlockEnd(body, o) - 1
        BY <2>2, <2>3
    <2>5. Fences(body)[k] = body[o][1]
        BY <1>5, <2>2, <2>3, <2>4, StaysOpen
    <2>6. body[o][1] # Blank
        BY OpenerIsNotBlank DEF Openers
    <2> QED
        BY <1>5, <2>3, <2>5, <2>6
<1>6. ASSUME NEW b \in OpenBlocks(body), NEW c \in OpenBlocks(body)
      PROVE  b = c \/ b[2] < c[1] \/ c[2] < b[1]
    <2>1. PICK o \in Openers(body) : Fences(body)[o - 1] = Blank /\ b = <<o, BlockEnd(body, o)>>
        BY DEF OpenBlocks
    <2>2. PICK q \in Openers(body) : Fences(body)[q - 1] = Blank /\ c = <<q, BlockEnd(body, q)>>
        BY DEF OpenBlocks
    <2>3. o \in Nat /\ q \in Nat
        BY <1>2
    <2>4. o = q \/ o < q \/ q < o
        BY <2>3
    <2> QED
        BY <1>5, <2>1, <2>2, <2>4
<1>7. ASSUME NEW c \in Blocks(body) PROVE \E b \in OpenBlocks(body) : c[1] \in b[1] .. b[2]
    <2>1. PICK o \in Openers(body) : c = <<o, BlockEnd(body, o)>>
        BY DEF Blocks
    <2>2. o \in DOMAIN body /\ o \in 1 .. Len(body)
        BY <1>2
    <2>3. Fences(body)[o - 1] # Blank \/ Fences(body)[o] # Blank
        <3>1. Fences(body)[o] = NextFence(Fences(body)[o - 1], body[o])
            BY <1>1, <2>2, FencesAt
        <3>2. OpensFence(body[o]) /\ body[o][1] # Blank
            BY OpenerIsNotBlank DEF Openers
        <3> QED
            BY <3>1, <3>2 DEF NextFence
    <2>4. \E b \in OpenBlocks(body) : o \in b[1] .. b[2]
        BY <2>2, <2>3, MaskedInBlock
    <2> QED
        BY <2>1, <2>4
<1> QED
    BY <1>3, <1>4, <1>6, <1>7 DEF AreSpans

\* _mask_fences empties the lines that CommonMark calls fenced code, and no others.
LEMMA MasksFencedLines ==
    ASSUME NEW body \in Seq(Written)
    PROVE  /\ DOMAIN MaskFences(body) = DOMAIN body
           /\ \A l \in DOMAIN body :
                 MaskFences(body)[l] = IF l \in FencedLines(body) THEN <<>> ELSE body[l]
<1>1. \A o \in DOMAIN body :
          OpensFence(body[o]) <=>
              /\ body[o] # <<>> /\ body[o][1].k \in {"tick", "tilde"} /\ body[o][1].n > 2
              /\ ~(body[o][1].k = "tick" /\ \E i \in 2 .. Len(body[o]) : body[o][i].k = "tick")
    <2>1. SUFFICES ASSUME NEW o \in DOMAIN body, body[o] # <<>>
                   PROVE  body[o][1].n >= 3 <=> body[o][1].n > 2
        BY DEF OpensFence
    <2>2. 1 \in DOMAIN body[o]
        <3>1. PICK line, S : line = body[o] /\ line \in Seq(S)
            BY LinesOfBody
        <3> QED
            BY <2>1, <3>1
    <2>3. body[o][1].n \in Nat
        BY <2>2, LinesOfBody DEF IsAtom
    <2> QED
        BY <2>3
<1>2. {o \in DOMAIN body : body[o] # <<>> /\ body[o][1].k \in {"tick", "tilde"}
                              /\ body[o][1].n > 2
                              /\ ~(body[o][1].k = "tick"
                                   /\ \E i \in 2 .. Len(body[o]) : body[o][i].k = "tick")}
          = Openers(body)
    BY <1>1 DEF Openers
<1>3. FencedLines(body) = Inside(Spans(Blocks(body)))
    BY <1>2 DEF FencedLines, Blocks, BlockEnd, FenceClosers
<1>4. FencedLines(body) = Inside(OpenBlocks(body))
    BY <1>3, OpenBlocksAreSpans, SpansAre
<1>5. \A l : l \in FencedLines(body) <=> \E b \in OpenBlocks(body) : l \in b[1] .. b[2]
    BY <1>4 DEF Inside
<1> QED
    BY <1>5, MaskedInBlock DEF MaskFences

----------------------------------------------------------------------------
\* The same of inline code.

\* The ends of the spans of a line are what their recursive definition says.
LEMMA SpanEndsDef ==
    ASSUME NEW line, Len(line) \in Nat
    PROVE  SpanEnds(line) = [i \in 0 .. Len(line) |->
               IF i = 0 THEN 0 ELSE NextSpanEnd(SpanEnds(line)[i - 1], line, i)]
<1> DEFINE Is(g, n) == g = [i \in 0 .. n |->
                              IF i = 0 THEN 0 ELSE NextSpanEnd(g[i - 1], line, i)]
           T == {n \in Nat : \E g : Is(g, n)}
<1>1. 0 \in T
    <2>1. Is([i \in {0} |-> 0], 0)
        OBVIOUS
    <2> QED
        BY <2>1
<1>2. ASSUME NEW n \in T PROVE n + 1 \in T
    <2>1. PICK g : Is(g, n)
        OBVIOUS
    <2>2. PICK h : h = [i \in 0 .. n + 1 |-> IF i \in 0 .. n THEN g[i]
                                            ELSE NextSpanEnd(g[n], line, n + 1)]
        OBVIOUS
    <2>3. n \in Nat
        OBVIOUS
    <2>4. \A i \in 0 .. n : g[i] = IF i = 0 THEN 0 ELSE NextSpanEnd(g[i - 1], line, i)
        BY <2>1, Zenon
    <2>5. \A i \in 0 .. n + 1 : h[i] = IF i = 0 THEN 0 ELSE NextSpanEnd(h[i - 1], line, i)
        <3>1. \A i \in 0 .. n : h[i] = g[i]
            BY <2>2, <2>3
        <3>2. h[n + 1] = NextSpanEnd(h[n], line, n + 1)
            BY <2>2, <2>3
        <3>3. ASSUME NEW i \in 0 .. n + 1
              PROVE  h[i] = IF i = 0 THEN 0 ELSE NextSpanEnd(h[i - 1], line, i)
            <4>1. CASE i = 0
                BY <2>3, <2>4, <3>1, <4>1
            <4>2. CASE i = n + 1
                <5>1. i - 1 = n /\ i # 0
                    BY <2>3, <4>2
                <5> QED
                    BY <3>2, <4>2, <5>1
            <4>3. CASE i \in 1 .. n
                <5>1. i \in 0 .. n /\ i - 1 \in 0 .. n /\ i # 0
                    BY <2>3, <4>3
                <5>2. h[i] = g[i] /\ h[i - 1] = g[i - 1]
                    BY <3>1, <5>1
                <5> QED
                    BY <2>4, <5>1, <5>2
            <4> QED
                BY <2>3, <4>1, <4>2, <4>3
        <3> QED
            BY <3>3
    <2>6. Is(h, n + 1)
        <3>1. h = [i \in 0 .. n + 1 |-> h[i]]
            BY <2>2, Zenon
        <3>2. [i \in 0 .. n + 1 |-> h[i]]
                = [i \in 0 .. n + 1 |-> IF i = 0 THEN 0 ELSE NextSpanEnd(h[i - 1], line, i)]
            BY <2>5, Zenon
        <3> QED
            BY <3>1, <3>2, Zenon
    <2> HIDE DEF Is
    <2> QED
        BY <2>3, <2>6
<1>3. Len(line) \in T
    <2> HIDE DEF T
    <2> QED
        BY <1>1, <1>2, SetInduction
<1>4. PICK g : Is(g, Len(line))
    BY <1>3
<1>5. Is(SpanEnds(line), Len(line))
    BY <1>4 DEF SpanEnds
<1> QED
    BY <1>5

LEMMA SpanEndsAt ==
    ASSUME NEW line, Len(line) \in Nat
    PROVE  /\ SpanEnds(line)[0] = 0
           /\ \A i \in 1 .. Len(line) :
                 SpanEnds(line)[i] = NextSpanEnd(SpanEnds(line)[i - 1], line, i)
<1>1. \A i \in 0 .. Len(line) :
          SpanEnds(line)[i] = IF i = 0 THEN 0 ELSE NextSpanEnd(SpanEnds(line)[i - 1], line, i)
    BY SpanEndsDef, Zenon
<1>2. 0 \in 0 .. Len(line) /\ \A i \in 1 .. Len(line) : i \in 0 .. Len(line) /\ i # 0
    OBVIOUS
<1> QED
    BY <1>1, <1>2

\* The code spans of a line taken alone, as text whose code keeps to its lines has them.
InlineCode(line) ==
    LET runs    == {i \in DOMAIN line : line[i].k = "tick"}
        After(i) == {j \in runs : j > i /\ line[j].n = line[i].n}
    IN  Inside(Spans({<<i, Least(After(i))>> : i \in {r \in runs : After(r) # {}}}))

\* The runs of a line that some later run can close, and those of them that open a span.
SpanStarts(line) == {i \in DOMAIN line : line[i].k = "tick" /\ Closers(line, i) # {}}
SpanEnd(line, i) == Least(Closers(line, i))
LineCandidates(line) == {<<i, SpanEnd(line, i)>> : i \in SpanStarts(line)}
OpenSpans(line) ==
    {<<i, SpanEnd(line, i)>> : i \in {i \in SpanStarts(line) : i > SpanEnds(line)[i - 1]}}

LEMMA SpanEndsBehind ==
    ASSUME NEW S, NEW line \in Seq(S), NEW i \in SpanStarts(line)
    PROVE  i \in 1 .. Len(line) /\ SpanEnd(line, i) \in i + 1 .. Len(line)
<1>1. i \in 1 .. Len(line) /\ Len(line) \in Nat
    BY DEF SpanStarts
<1>2. Closers(line, i) \subseteq i + 1 .. Len(line) /\ Closers(line, i) # {}
      /\ Closers(line, i) \subseteq Nat
    BY <1>1 DEF Closers, SpanStarts
<1>3. Least(Closers(line, i)) \in Closers(line, i)
    BY <1>2, LeastOf
<1> QED
    BY <1>1, <1>2, <1>3 DEF SpanEnd

\* From its start on, the last span is the one that starts there.
LEMMA SpanLasts ==
    ASSUME NEW S, NEW line \in Seq(S), NEW o \in SpanStarts(line),
           o > SpanEnds(line)[o - 1], NEW i \in o .. SpanEnd(line, o)
    PROVE  SpanEnds(line)[i] = SpanEnd(line, o)
<1>1. Len(line) \in Nat /\ o \in Nat /\ i \in Nat
      /\ o \in 1 .. Len(line) /\ SpanEnd(line, o) \in o + 1 .. Len(line)
      /\ SpanEnd(line, o) \in Nat
    BY SpanEndsBehind
<1>2. \A m \in 1 .. Len(line) : SpanEnds(line)[m] = NextSpanEnd(SpanEnds(line)[m - 1], line, m)
    BY <1>1, SpanEndsAt
<1> DEFINE T == {m \in Nat : o + m <= i => SpanEnds(line)[o + m] = SpanEnd(line, o)}
<1>3. 0 \in T
    <2>1. SpanEnds(line)[o] = SpanEnd(line, o)
        BY <1>1, <1>2 DEF NextSpanEnd, SpanStarts, SpanEnd
    <2> QED
        BY <1>1, <2>1
<1>4. ASSUME NEW m \in Nat, m \in T PROVE m + 1 \in T
    <2>1. SUFFICES ASSUME o + (m + 1) <= i PROVE SpanEnds(line)[o + (m + 1)] = SpanEnd(line, o)
        OBVIOUS
    <2>2. PICK k : k = o + (m + 1) /\ k \in 1 .. Len(line) /\ k <= SpanEnd(line, o)
                   /\ k - 1 = o + m /\ o + m <= i
        BY <1>1, <2>1
    <2>3. SpanEnds(line)[k - 1] = SpanEnd(line, o)
        BY <1>4, <2>2
    <2>4. SpanEnds(line)[k] = NextSpanEnd(SpanEnd(line, o), line, k)
        BY <1>2, <2>2, <2>3
    <2>5. ~ (k > SpanEnd(line, o))
        BY <1>1, <2>2
    <2> QED
        BY <2>2, <2>4, <2>5 DEF NextSpanEnd
<1>5. Nat \subseteq T
    <2> HIDE DEF T
    <2> QED
        BY <1>3, <1>4, SetInduction
<1>6. i - o \in Nat /\ o + (i - o) = i
    BY <1>1
<1>7. i - o \in T
    BY <1>5, <1>6
<1> QED
    BY <1>6, <1>7

\* An end is that of a span that started before.
LEMMA EndOfSpan ==
    ASSUME NEW S, NEW line \in Seq(S), NEW i \in 0 .. Len(line)
    PROVE  \/ SpanEnds(line)[i] = 0
           \/ \E o \in SpanStarts(line) :
                 /\ o <= i /\ o > SpanEnds(line)[o - 1]
                 /\ SpanEnds(line)[i] = SpanEnd(line, o)
<1>1. Len(line) \in Nat /\ DOMAIN line = 1 .. Len(line)
    OBVIOUS
<1>2. /\ SpanEnds(line)[0] = 0
      /\ \A m \in 1 .. Len(line) : SpanEnds(line)[m] = NextSpanEnd(SpanEnds(line)[m - 1], line, m)
    BY <1>1, SpanEndsAt
<1> DEFINE Ends(m, o) == /\ o <= m /\ o > SpanEnds(line)[o - 1]
                         /\ SpanEnds(line)[m] = SpanEnd(line, o)
           T == {m \in Nat : m <= Len(line) =>
                    SpanEnds(line)[m] = 0 \/ \E o \in SpanStarts(line) : Ends(m, o)}
<1>3. 0 \in T
    BY <1>2
<1>4. ASSUME NEW m \in Nat, m \in T PROVE m + 1 \in T
    <2>1. SUFFICES ASSUME m + 1 <= Len(line)
                   PROVE  SpanEnds(line)[m + 1] = 0 \/ \E o \in SpanStarts(line) : Ends(m + 1, o)
        OBVIOUS
    <2>2. PICK k : k = m + 1 /\ k \in 1 .. Len(line) /\ k - 1 = m /\ m <= Len(line) /\ k \in Nat
        BY <1>1, <2>1
    <2>3. SpanEnds(line)[k] = NextSpanEnd(SpanEnds(line)[k - 1], line, k)
        BY <1>2, <2>2
    <2>4. CASE k > SpanEnds(line)[k - 1] /\ line[k].k = "tick" /\ Closers(line, k) # {}
        <3>1. k \in SpanStarts(line)
            BY <1>1, <2>2, <2>4 DEF SpanStarts
        <3>2. SpanEnds(line)[k] = SpanEnd(line, k)
            BY <2>3, <2>4 DEF NextSpanEnd, SpanEnd
        <3>3. Ends(k, k)
            BY <2>2, <2>4, <3>2
        <3> QED
            BY <2>2, <3>1, <3>3
    <2>5. CASE ~(k > SpanEnds(line)[k - 1] /\ line[k].k = "tick" /\ Closers(line, k) # {})
        <3>1. SpanEnds(line)[k] = SpanEnds(line)[m]
            BY <2>2, <2>3, <2>5 DEF NextSpanEnd
        <3>2. ASSUME NEW o \in SpanStarts(line), Ends(m, o) PROVE Ends(k, o)
            <4>1. o \in Nat
                BY SpanEndsBehind
            <4> QED
                BY <2>2, <3>1, <3>2, <4>1
        <3>3. SpanEnds(line)[m] = 0 \/ \E o \in SpanStarts(line) : Ends(m, o)
            BY <1>4, <2>2
        <3> HIDE DEF Ends
        <3> QED
            BY <2>2, <3>1, <3>2, <3>3
    <2> QED
        BY <2>4, <2>5
<1>5. Nat \subseteq T
    <2> HIDE DEF T
    <2> QED
        BY <1>3, <1>4, SetInduction
<1>6. i \in T /\ i <= Len(line)
    BY <1>1, <1>5
<1> QED
    BY <1>6

\* An atom is masked when a span that opened outside the others takes it in.
LEMMA MaskedInSpan ==
    ASSUME NEW S, NEW line \in Seq(S), NEW i \in DOMAIN line
    PROVE  i <= SpanEnds(line)[i] <=> \E b \in OpenSpans(line) : i \in b[1] .. b[2]
<1>1. Len(line) \in Nat /\ i \in 1 .. Len(line) /\ i \in 0 .. Len(line) /\ i \in Nat /\ i # 0
    OBVIOUS
<1>2. ASSUME i <= SpanEnds(line)[i] PROVE \E b \in OpenSpans(line) : i \in b[1] .. b[2]
    <2>1. SpanEnds(line)[i] # 0
        BY <1>1, <1>2
    <2>2. PICK o \in SpanStarts(line) : /\ o <= i /\ o > SpanEnds(line)[o - 1]
                                        /\ SpanEnds(line)[i] = SpanEnd(line, o)
        BY <1>1, <2>1, EndOfSpan
    <2>3. o \in 1 .. Len(line) /\ SpanEnd(line, o) \in o + 1 .. Len(line)
        BY SpanEndsBehind
    <2>4. <<o, SpanEnd(line, o)>> \in OpenSpans(line)
        BY <2>2 DEF OpenSpans
    <2>5. i \in o .. SpanEnd(line, o)
        BY <1>1, <1>2, <2>2, <2>3
    <2> QED
        BY <2>4, <2>5
<1>3. ASSUME NEW b \in OpenSpans(line), i \in b[1] .. b[2] PROVE i <= SpanEnds(line)[i]
    <2>1. PICK o \in SpanStarts(line) : o > SpanEnds(line)[o - 1] /\ b = <<o, SpanEnd(line, o)>>
        BY DEF OpenSpans
    <2>2. o \in 1 .. Len(line) /\ SpanEnd(line, o) \in o + 1 .. Len(line)
        BY SpanEndsBehind
    <2>3. i \in o .. SpanEnd(line, o)
        BY <1>3, <2>1
    <2>4. SpanEnds(line)[i] = SpanEnd(line, o)
        BY <2>1, <2>3, SpanLasts
    <2> QED
        BY <1>1, <2>2, <2>3, <2>4
<1> QED
    BY <1>2, <1>3

LEMMA OpenSpansAreSpans ==
    ASSUME NEW S, NEW line \in Seq(S)
    PROVE  AreCandidates(LineCandidates(line)) /\ AreSpans(OpenSpans(line), LineCandidates(line))
<1>1. Len(line) \in Nat /\ DOMAIN line = 1 .. Len(line)
    OBVIOUS
<1>2. \A o \in SpanStarts(line) : o \in 1 .. Len(line) /\ SpanEnd(line, o) \in o + 1 .. Len(line)
    BY SpanEndsBehind
<1>3. AreCandidates(LineCandidates(line))
    BY <1>1, <1>2 DEF AreCandidates, LineCandidates
<1>4. OpenSpans(line) \subseteq LineCandidates(line)
    BY DEF OpenSpans, LineCandidates
<1>5. ASSUME NEW o \in SpanStarts(line), NEW q \in SpanStarts(line), o < q,
             o > SpanEnds(line)[o - 1], q > SpanEnds(line)[q - 1]
      PROVE  SpanEnd(line, o) < q
    <2>1. /\ o \in 1 .. Len(line) /\ q \in 1 .. Len(line)
          /\ SpanEnd(line, o) \in o + 1 .. Len(line)
        BY <1>2
    <2>2. SUFFICES ASSUME q <= SpanEnd(line, o) PROVE FALSE
        BY <1>1, <2>1
    <2>3. q - 1 \in o .. SpanEnd(line, o)
        BY <1>1, <1>5, <2>1, <2>2
    <2>4. SpanEnds(line)[q - 1] = SpanEnd(line, o)
        BY <1>5, <2>3, SpanLasts
    <2> QED
        BY <1>1, <1>5, <2>1, <2>2, <2>4
<1>6. ASSUME NEW b \in OpenSpans(line), NEW c \in OpenSpans(line)
      PROVE  b = c \/ b[2] < c[1] \/ c[2] < b[1]
    <2>1. PICK o \in SpanStarts(line) : o > SpanEnds(line)[o - 1] /\ b = <<o, SpanEnd(line, o)>>
        BY DEF OpenSpans
    <2>2. PICK q \in SpanStarts(line) : q > SpanEnds(line)[q - 1] /\ c = <<q, SpanEnd(line, q)>>
        BY DEF OpenSpans
    <2>3. o \in Nat /\ q \in Nat
        BY <1>2
    <2>4. o = q \/ o < q \/ q < o
        BY <2>3
    <2> QED
        BY <1>5, <2>1, <2>2, <2>4
<1>7. ASSUME NEW c \in LineCandidates(line) PROVE \E b \in OpenSpans(line) : c[1] \in b[1] .. b[2]
    <2>1. PICK o \in SpanStarts(line) : c = <<o, SpanEnd(line, o)>>
        BY DEF LineCandidates
    <2>2. o \in 1 .. Len(line) /\ o \in DOMAIN line /\ SpanEnd(line, o) \in o + 1 .. Len(line)
        BY <1>1, <1>2
    <2>3. CASE o > SpanEnds(line)[o - 1]
        <3>1. <<o, SpanEnd(line, o)>> \in OpenSpans(line)
            BY <2>3 DEF OpenSpans
        <3>2. o \in o .. SpanEnd(line, o)
            BY <1>1, <2>2
        <3> QED
            BY <2>1, <3>1, <3>2
    <2>4. CASE ~(o > SpanEnds(line)[o - 1])
        <3>1. o - 1 \in 0 .. Len(line)
            BY <1>1, <2>2
        <3>2. SpanEnds(line)[o - 1] # 0
            BY <2>2, <2>4
        <3>3. PICK q \in SpanStarts(line) : /\ q <= o - 1 /\ q > SpanEnds(line)[q - 1]
                                            /\ SpanEnds(line)[o - 1] = SpanEnd(line, q)
            BY <3>1, <3>2, EndOfSpan
        <3>4. q \in 1 .. Len(line) /\ SpanEnd(line, q) \in q + 1 .. Len(line)
            BY <1>2
        <3>5. o \in q .. SpanEnd(line, q)
            BY <1>1, <2>2, <2>4, <3>3, <3>4
        <3>6. <<q, SpanEnd(line, q)>> \in OpenSpans(line)
            BY <3>3 DEF OpenSpans
        <3> QED
            BY <2>1, <3>5, <3>6
    <2> QED
        BY <2>3, <2>4
<1> QED
    BY <1>3, <1>4, <1>6, <1>7 DEF AreSpans

LEMMA InlineCodeIs ==
    ASSUME NEW S, NEW line \in Seq(S)
    PROVE  InlineCode(line) = Inside(Spans(LineCandidates(line)))
<1>1. Len(line) \in Nat /\ DOMAIN line = 1 .. Len(line)
    OBVIOUS
<1> DEFINE runs == {i \in DOMAIN line : line[i].k = "tick"}
           After(i) == {j \in runs : j > i /\ line[j].n = line[i].n}
<1>2. \A i \in runs : After(i) = Closers(line, i)
    BY <1>1 DEF Closers
<1>3. {r \in runs : After(r) # {}} = SpanStarts(line)
    BY <1>2 DEF SpanStarts
<1>4. \A i \in SpanStarts(line) : Least(After(i)) = SpanEnd(line, i)
    BY <1>2 DEF SpanStarts, SpanEnd
<1>5. {<<i, Least(After(i))>> : i \in {r \in runs : After(r) # {}}} = LineCandidates(line)
    <2> HIDE DEF After, runs
    <2> QED
        BY <1>3, <1>4 DEF LineCandidates
<1> QED
    BY <1>5, Zenon DEF InlineCode

\* _mask_inline_code blanks the code spans of the line, and nothing else.
LEMMA MasksInlineCode ==
    ASSUME NEW S, NEW line \in Seq(S)
    PROVE  /\ DOMAIN MaskInlineCode(line) = DOMAIN line
           /\ \A i \in DOMAIN line :
                 MaskInlineCode(line)[i] = IF i \in InlineCode(line) THEN Blank ELSE line[i]
<1>1. InlineCode(line) = Inside(Spans(LineCandidates(line)))
    BY InlineCodeIs
<1>2. InlineCode(line) = Inside(OpenSpans(line))
    BY <1>1, OpenSpansAreSpans, SpansAre
<1>3. \A i : i \in InlineCode(line) <=> \E b \in OpenSpans(line) : i \in b[1] .. b[2]
    BY <1>2 DEF Inside
<1> QED
    BY <1>3, MaskedInSpan DEF MaskInlineCode

----------------------------------------------------------------------------
\* The code spans of a body: a set of spans exists for any candidates (SpansExist), and
\* where every span ends on its line, those of a line are the spans of the line alone.

\* From a place on, or from behind the candidate that starts there, spans can be added.
LEMMA SpansExist ==
    ASSUME NEW C, AreCandidates(C), NEW N \in Nat, \A c \in C : c[2] <= N
    PROVE  \E B : AreSpans(B, C)
<1> DEFINE From(n) == {c \in C : c[1] + n > N}
           T == {n \in Nat : \A k \in 0 .. n : \E B : AreSpans(B, From(k))}
<1>1. \A c \in C : c[1] \in Nat /\ c[2] \in Nat /\ c[1] <= c[2] /\ c[2] <= N
    BY DEF AreCandidates
<1>2. 0 \in T
    <2>1. From(0) = {}
        BY <1>1
    <2>2. AreSpans({}, From(0))
        BY <2>1 DEF AreSpans
    <2>3. \A k \in 0 .. 0 : k = 0
        OBVIOUS
    <2> HIDE DEF From
    <2> QED
        BY <2>2, <2>3
<1>3. ASSUME NEW n \in Nat, n \in T PROVE n + 1 \in T
    <2>1. \A k \in 0 .. n : \E B : AreSpans(B, From(k))
        BY <1>3
    <2>2. \E B : AreSpans(B, From(n + 1))
        <3>1. CASE \E c \in C : c[1] + n = N
            <4>1. PICK c \in C : c[1] + n = N
                BY <3>1
            <4>2. PICK k : k = N - c[2]
                OBVIOUS
            <4>3. k \in 0 .. n /\ k \in Nat
                BY <1>1, <4>1, <4>2
            <4>4. PICK B : AreSpans(B, From(k))
                BY <2>1, <4>3
            <4>5. \A d \in From(k) : d \in C /\ c[2] < d[1]
                BY <1>1, <4>2
            <4>6. c \in From(n + 1) /\ From(k) \subseteq From(n + 1)
                BY <1>1, <4>1, <4>2, <4>3
            <4>7. \A d \in From(n + 1) : d \in From(k) \/ d[1] \in c[1] .. c[2]
                BY <1>1, <4>1, <4>2
            <4> HIDE DEF From
            <4>8. B \subseteq From(k)
                BY <4>4 DEF AreSpans
            <4>9. \A b, d \in B \cup {c} : b = d \/ b[2] < d[1] \/ d[2] < b[1]
                BY <4>4, <4>5, <4>8 DEF AreSpans
            <4>10. \A d \in From(n + 1) : \E b \in B \cup {c} : d[1] \in b[1] .. b[2]
                BY <4>4, <4>7 DEF AreSpans
            <4>11. AreSpans(B \cup {c}, From(n + 1))
                BY <4>6, <4>8, <4>9, <4>10 DEF AreSpans
            <4> QED
                BY <4>11
        <3>2. CASE ~ \E c \in C : c[1] + n = N
            <4>1. From(n + 1) = From(n)
                BY <1>1, <3>2
            <4>2. n \in 0 .. n
                OBVIOUS
            <4> HIDE DEF From
            <4> QED
                BY <2>1, <4>1, <4>2
        <3> QED
            BY <3>1, <3>2
    <2>3. \A k \in 0 .. n + 1 : k \in 0 .. n \/ k = n + 1
        OBVIOUS
    <2> HIDE DEF From
    <2> QED
        BY <2>1, <2>2, <2>3
<1>4. N + 1 \in T
    <2> HIDE DEF T
    <2> QED
        BY <1>2, <1>3, SetInduction
<1>5. \E B : AreSpans(B, From(N + 1))
    <2>1. N + 1 \in 0 .. N + 1
        OBVIOUS
    <2> HIDE DEF From
    <2> QED
        BY <1>4, <2>1
<1>6. From(N + 1) = C
    BY <1>1
<1> HIDE DEF From
<1> QED
    BY <1>5, <1>6

\* A line is shorter than the width of its body.
LEMMA WidthIs ==
    ASSUME NEW body \in Seq(Written)
    PROVE  /\ Width(body) \in Nat \ {0}
           /\ \A l \in DOMAIN body :
                 /\ DOMAIN body[l] = 1 .. Len(body[l])
                 /\ Len(body[l]) \in Nat /\ Len(body[l]) < Width(body)
<1> DEFINE Lengths(n) == {0} \cup {Len(body[l]) : l \in 1 .. n}
           T == {n \in Nat : n <= Len(body) =>
                    \E m \in Lengths(n) : \A y \in Lengths(n) : m >= y}
<1>1. Len(body) \in Nat /\ DOMAIN body = 1 .. Len(body)
    OBVIOUS
<1>2. \A l \in DOMAIN body : Len(body[l]) \in Nat /\ DOMAIN body[l] = 1 .. Len(body[l])
    <2>1. ASSUME NEW l \in DOMAIN body
          PROVE  Len(body[l]) \in Nat /\ DOMAIN body[l] = 1 .. Len(body[l])
        <3>1. body[l] \in Seq(ToSet(body[l]))
            BY LinesOfBody
        <3>2. PICK line, S : line = body[l] /\ line \in Seq(S)
            BY <3>1
        <3> QED
            BY <3>2
    <2> QED
        BY <2>1
<1>3. 0 \in T
    OBVIOUS
<1>4. ASSUME NEW n \in Nat, n \in T PROVE n + 1 \in T
    <2>1. SUFFICES ASSUME n + 1 <= Len(body)
                   PROVE  \E m \in Lengths(n + 1) : \A y \in Lengths(n + 1) : m >= y
        OBVIOUS
    <2>2. PICK m \in Lengths(n) : \A y \in Lengths(n) : m >= y
        BY <1>1, <1>4, <2>1
    <2>3. Lengths(n + 1) = Lengths(n) \cup {Len(body[n + 1])}
        <3>1. 1 .. n + 1 = (1 .. n) \cup {n + 1}
            OBVIOUS
        <3> QED
            BY <3>1
    <2>4. Len(body[n + 1]) \in Nat /\ Lengths(n) \subseteq Nat
        BY <1>1, <1>2, <2>1
    <2> HIDE DEF Lengths
    <2>5. PICK k : k = Len(body[n + 1]) /\ k \in Nat
        BY <2>4
    <2>6. CASE m >= k
        BY <2>2, <2>3, <2>5, <2>6
    <2>7. CASE k >= m
        <3>1. \A y \in Lengths(n + 1) : k >= y
            BY <2>2, <2>3, <2>4, <2>5, <2>7
        <3> QED
            BY <2>3, <2>5, <3>1
    <2> QED
        BY <2>4, <2>5, <2>6, <2>7
<1>5. Len(body) \in T
    <2> HIDE DEF T
    <2> QED
        BY <1>1, <1>3, <1>4, SetInduction
<1>6. PICK S : S = Lengths(Len(body))
    OBVIOUS
<1>7. S = {0} \cup {Len(body[l]) : l \in DOMAIN body} /\ 0 \in S /\ S \subseteq Nat
    BY <1>1, <1>2, <1>6
<1>8. \E m \in S : \A y \in S : m >= y
    BY <1>1, <1>5, <1>6
<1>9. Max(S) \in S /\ \A y \in S : Max(S) >= y
    BY <1>8 DEF Max
<1>10. Width(body) = 1 + Max(S)
    BY <1>7 DEF Width
<1>11. \A l \in DOMAIN body : Len(body[l]) \in S
    BY <1>7
<1>12. PICK w : w = Width(body) /\ w \in Nat \ {0} /\ \A y \in S : y < w
    <2>1. PICK m \in S : m = Max(S) /\ \A y \in S : m >= y
        BY <1>9
    <2>2. m \in Nat /\ \A y \in S : y \in Nat
        BY <1>7
    <2> HIDE DEF Lengths, T
    <2>3. 1 + m \in Nat \ {0} /\ \A y \in S : y < 1 + m
        BY <2>1, <2>2
    <2> QED
        BY <1>10, <2>1, <2>3
<1> HIDE DEF Lengths, T
<1> QED
    BY <1>2, <1>11, <1>12

\* Places are ordered as one reads.
LEMMA PlaceOrder ==
    ASSUME NEW body \in Seq(Written)
    PROVE  /\ \A l, a \in Nat : Place(body, l, a) \in Nat
           /\ \A l, a, b \in Nat : Place(body, l, a) < Place(body, l, b) <=> a < b
           /\ \A l \in DOMAIN body : \A a \in DOMAIN body[l] :
                 Place(body, l, 0) < Place(body, l, a)
                 /\ Place(body, l, a) < Place(body, l + 1, 0)
           /\ \A l, m \in Nat : l < m => Place(body, l + 1, 0) <= Place(body, m, 0)
<1>1. PICK W : W = Width(body) /\ W \in Nat \ {0}
    BY WidthIs
<1>2. \A l, a \in Nat : Place(body, l, a) = l * W + a /\ l * W \in Nat
    BY <1>1 DEF Place
<1>3. \A l \in Nat : (l + 1) * W = l * W + W
    BY <1>1
<1>4. ASSUME NEW l \in Nat, NEW m \in Nat, l < m PROVE (l + 1) * W <= m * W
    <2>1. PICK d : d \in Nat /\ m = (l + 1) + d
        <3>1. m - (l + 1) \in Nat /\ m = (l + 1) + (m - (l + 1))
            BY <1>4
        <3> QED
            BY <3>1
    <2>2. m * W = (l + 1) * W + d * W /\ d * W \in Nat /\ (l + 1) * W \in Nat
        BY <1>1, <2>1
    <2> QED
        BY <2>2
<1>5. \A l \in DOMAIN body : l \in Nat /\ l + 1 \in Nat
          /\ \A a \in DOMAIN body[l] : a \in Nat /\ 0 < a /\ a < W
    BY <1>1, WidthIs
<1>6. ASSUME NEW l \in Nat, NEW a \in Nat PROVE Place(body, l, a) \in Nat
    <2>1. Place(body, l, a) = l * W + a /\ l * W \in Nat
        BY <1>2
    <2> QED
        BY <2>1
<1>7. ASSUME NEW l \in Nat, NEW a \in Nat, NEW b \in Nat
      PROVE  Place(body, l, a) < Place(body, l, b) <=> a < b
    <2>1. PICK x : x = l * W /\ x \in Nat
        BY <1>2
    <2>2. Place(body, l, a) = x + a /\ Place(body, l, b) = x + b
        BY <1>2, <2>1
    <2>3. x \in Nat
        BY <2>1
    <2> QED
        BY <2>2, <2>3
<1>8. ASSUME NEW l \in DOMAIN body, NEW a \in DOMAIN body[l]
      PROVE  Place(body, l, 0) < Place(body, l, a) /\ Place(body, l, a) < Place(body, l + 1, 0)
    <2>1. PICK x : x = l * W /\ x \in Nat
        BY <1>2, <1>5
    <2>2. Place(body, l, 0) = x /\ Place(body, l, a) = x + a
        BY <1>2, <1>5, <2>1
    <2>3. Place(body, l + 1, 0) = x + W
        <3>1. l \in Nat /\ l + 1 \in Nat /\ (l + 1) * W = l * W + W
            BY <1>3, <1>5
        <3>2. PICK y : y = (l + 1) * W /\ y \in Nat
            BY <1>2, <3>1
        <3>3. Place(body, l + 1, 0) = y + 0
            BY <1>1, <3>2 DEF Place
        <3>4. y = x + W
            BY <2>1, <3>1, <3>2
        <3>5. y \in Nat
            BY <3>2
        <3> QED
            BY <3>3, <3>4, <3>5
    <2>4. a \in Nat /\ 0 < a /\ a < W
        BY <1>5
    <2>5. x \in Nat /\ W \in Nat
        BY <1>1, <2>1
    <2> QED
        BY <2>2, <2>3, <2>4, <2>5
<1>9. ASSUME NEW l \in Nat, NEW m \in Nat, l < m
      PROVE  Place(body, l + 1, 0) <= Place(body, m, 0)
    <2>1. Place(body, l + 1, 0) = (l + 1) * W /\ Place(body, m, 0) = m * W
        BY <1>1 DEF Place
    <2> QED
        BY <1>4, <1>9, <2>1
<1> QED
    BY <1>6, <1>7, <1>8, <1>9

\* The spans a body could have, and that the runs they start from have places of their own.
Candidates(body) ==
    {<<Place(body, r[1], r[2]), Least(Closing(body, r))>> :
        r \in {r \in Runs(body) : Closing(body, r) # {}}}

LEMMA RunsOfBody ==
    ASSUME NEW body \in Seq(Written), NEW r \in Runs(body)
    PROVE  /\ r = <<r[1], r[2]>> /\ r[1] \in DOMAIN body \ FencedLines(body)
           /\ r[2] \in DOMAIN body[r[1]] /\ body[r[1]][r[2]].k = "tick"
           /\ r[1] \in Nat /\ r[2] \in Nat
<1>1. PICK l \in DOMAIN body \ FencedLines(body) : r \in {l} \X DOMAIN body[l]
    BY DEF Runs
<1>2. body[r[1]][r[2]].k = "tick"
    BY DEF Runs
<1>3. l \in Nat /\ r[2] \in Nat
    BY <1>1, WidthIs
<1> QED
    BY <1>1, <1>2, <1>3

\* Of two atoms one is on an earlier line, or earlier on the line.
LEMMA PlacesDiffer ==
    ASSUME NEW body \in Seq(Written), NEW l \in DOMAIN body, NEW m \in DOMAIN body,
           NEW a \in DOMAIN body[l], NEW b \in DOMAIN body[m]
    PROVE  Place(body, l, a) < Place(body, m, b) <=> l < m \/ (l = m /\ a < b)
<1>1. l \in Nat /\ m \in Nat /\ a \in Nat /\ b \in Nat /\ l + 1 \in Nat /\ m + 1 \in Nat
    BY WidthIs
<1>2. /\ Place(body, l, a) \in Nat /\ Place(body, m, b) \in Nat
      /\ Place(body, l, 0) \in Nat /\ Place(body, m, 0) \in Nat
      /\ Place(body, l + 1, 0) \in Nat /\ Place(body, m + 1, 0) \in Nat
    BY <1>1, PlaceOrder
<1>3. /\ Place(body, l, 0) < Place(body, l, a) /\ Place(body, l, a) < Place(body, l + 1, 0)
      /\ Place(body, m, 0) < Place(body, m, b) /\ Place(body, m, b) < Place(body, m + 1, 0)
    BY PlaceOrder
<1>4. l < m => Place(body, l, a) < Place(body, m, b)
    <2>1. l < m => Place(body, l + 1, 0) <= Place(body, m, 0)
        BY <1>1, PlaceOrder
    <2> QED
        BY <1>2, <1>3, <2>1
<1>5. m < l => ~ (Place(body, l, a) < Place(body, m, b))
    <2>1. m < l => Place(body, m + 1, 0) <= Place(body, l, 0)
        BY <1>1, PlaceOrder
    <2> QED
        BY <1>2, <1>3, <2>1
<1>6. l = m => (Place(body, l, a) < Place(body, m, b) <=> a < b)
    BY <1>1, PlaceOrder
<1> QED
    BY <1>1, <1>4, <1>5, <1>6

\* Where a run can be closed lies behind it.
LEMMA ClosingIs ==
    ASSUME NEW body \in Seq(Written), NEW r \in Runs(body), Closing(body, r) # {}
    PROVE  /\ Least(Closing(body, r)) \in Closing(body, r)
           /\ \A x \in Closing(body, r) : Least(Closing(body, r)) <= x
           /\ \A x \in Closing(body, r) : x \in Nat /\ Place(body, r[1], r[2]) < x
           /\ Place(body, r[1], r[2]) \in Nat
<1>1. \A s \in Runs(body) : Place(body, s[1], s[2]) \in Nat
    BY RunsOfBody, PlaceOrder
<1>2. \A x \in Closing(body, r) : x \in Nat /\ Place(body, r[1], r[2]) < x
    BY <1>1 DEF Closing
<1>3. PICK S : S = Closing(body, r)
    OBVIOUS
<1>4. S \subseteq Nat /\ S # {}
    BY <1>2, <1>3
<1> QED
    BY <1>1, <1>2, <1>3, <1>4, LeastOf

LEMMA BodySpans ==
    ASSUME NEW body \in Seq(Written)
    PROVE  /\ AreCandidates(Candidates(body))
           /\ AreSpans(CodeSpans(body), Candidates(body))
<1>1. ASSUME NEW c \in Candidates(body)
      PROVE  \E r \in Runs(body) : /\ Closing(body, r) # {}
                                   /\ c = <<Place(body, r[1], r[2]), Least(Closing(body, r))>>
    BY DEF Candidates
<1>2. ASSUME NEW c \in Candidates(body)
      PROVE  /\ c[1] \in Nat /\ c[2] \in Nat /\ c[1] < c[2]
             /\ c[2] <= Place(body, Len(body) + 1, 0)
    <2>1. PICK r \in Runs(body) : /\ Closing(body, r) # {}
                                  /\ c = <<Place(body, r[1], r[2]), Least(Closing(body, r))>>
        BY <1>1
    <2>2. c[1] \in Nat /\ c[2] \in Nat /\ c[1] < c[2] /\ c[2] \in Closing(body, r)
        BY <2>1, ClosingIs
    <2>3. PICK s \in Runs(body) : c[2] = Place(body, s[1], s[2])
        BY <2>2 DEF Closing
    <2>4. PICK l, a : l = s[1] /\ a = s[2] /\ l \in DOMAIN body /\ a \in DOMAIN body[l]
        BY RunsOfBody
    <2>5. l \in Nat /\ l + 1 \in Nat
        BY <2>4
    <2>6. Place(body, l, a) < Place(body, l + 1, 0)
        BY <2>4, PlaceOrder
    <2>7. PICK n : n = Len(body) + 1 /\ n \in Nat /\ l < n
        <3>1. Len(body) \in Nat /\ l \in 1 .. Len(body)
            BY <2>4
        <3> QED
            BY <3>1
    <2>8. Place(body, l + 1, 0) <= Place(body, n, 0)
        BY <2>5, <2>7, PlaceOrder
    <2>9. Place(body, l + 1, 0) \in Nat /\ Place(body, n, 0) \in Nat
        BY <2>5, <2>7, PlaceOrder
    <2> QED
        BY <2>2, <2>3, <2>4, <2>6, <2>7, <2>8, <2>9
<1>3. ASSUME NEW c \in Candidates(body), NEW d \in Candidates(body), c[1] = d[1]
      PROVE  c = d
    <2>1. PICK r \in Runs(body) : c = <<Place(body, r[1], r[2]), Least(Closing(body, r))>>
        BY <1>1
    <2>2. PICK s \in Runs(body) : d = <<Place(body, s[1], s[2]), Least(Closing(body, s))>>
        BY <1>1
    <2>3. /\ r = <<r[1], r[2]>> /\ r[1] \in DOMAIN body /\ r[2] \in DOMAIN body[r[1]]
          /\ s = <<s[1], s[2]>> /\ s[1] \in DOMAIN body /\ s[2] \in DOMAIN body[s[1]]
          /\ r[1] \in Nat /\ r[2] \in Nat /\ s[1] \in Nat /\ s[2] \in Nat
        BY RunsOfBody
    <2>4. Place(body, r[1], r[2]) = Place(body, s[1], s[2]) /\ Place(body, s[1], s[2]) \in Nat
        BY <1>3, <2>1, <2>2, <2>3, PlaceOrder
    <2>5. ~ (Place(body, r[1], r[2]) < Place(body, s[1], s[2]))
          /\ ~ (Place(body, s[1], s[2]) < Place(body, r[1], r[2]))
        BY <2>4
    <2>6. ~ (r[1] < s[1] \/ (r[1] = s[1] /\ r[2] < s[2]))
          /\ ~ (s[1] < r[1] \/ (s[1] = r[1] /\ s[2] < r[2]))
        BY <2>3, <2>5, PlacesDiffer
    <2>7. r[1] = s[1] /\ r[2] = s[2]
        BY <2>3, <2>6
    <2> QED
        BY <2>1, <2>2, <2>3, <2>7
<1>4. AreCandidates(Candidates(body))
    BY <1>2, <1>3 DEF AreCandidates
<1>5. Place(body, Len(body) + 1, 0) \in Nat
    <2>1. PICK n : n = Len(body) + 1 /\ n \in Nat
        OBVIOUS
    <2> QED
        BY <2>1, PlaceOrder
<1>6. PICK B : AreSpans(B, Candidates(body))
    BY <1>2, <1>4, <1>5, SpansExist
<1>7. CodeSpans(body) = Spans(Candidates(body))
    BY DEF CodeSpans, Candidates
<1> QED
    BY <1>4, <1>6, <1>7, SpansAre

\* An atom between the place before a line and that before the next is on the line.
LEMMA OnTheLine ==
    ASSUME NEW body \in Seq(Written), NEW l \in DOMAIN body, NEW m \in DOMAIN body,
           NEW a \in DOMAIN body[m], Place(body, l, 0) < Place(body, m, a),
           Place(body, m, a) < Place(body, l + 1, 0)
    PROVE  m = l
<1>1. l \in Nat /\ m \in Nat /\ a \in Nat /\ l + 1 \in Nat /\ m + 1 \in Nat
    BY WidthIs
<1>2. /\ Place(body, m, a) \in Nat /\ Place(body, l, 0) \in Nat /\ Place(body, m, 0) \in Nat
      /\ Place(body, l + 1, 0) \in Nat /\ Place(body, m + 1, 0) \in Nat
    BY <1>1, PlaceOrder
<1>3. Place(body, m, 0) < Place(body, m, a) /\ Place(body, m, a) < Place(body, m + 1, 0)
    BY PlaceOrder
<1>4. l < m => Place(body, l + 1, 0) <= Place(body, m, 0)
    BY <1>1, PlaceOrder
<1>5. m < l => Place(body, m + 1, 0) <= Place(body, l, 0)
    BY <1>1, PlaceOrder
<1> QED
    BY <1>1, <1>2, <1>3, <1>4, <1>5

\* A run that can be closed on its line is closed there.
LEMMA LineSpan ==
    ASSUME NEW body \in Seq(Written), NEW l \in DOMAIN body \ FencedLines(body),
           NEW i \in SpanStarts(body[l])
    PROVE  <<Place(body, l, i), Place(body, l, SpanEnd(body[l], i))>> \in Candidates(body)
<1>1. PICK line, S : line = body[l] /\ line \in Seq(S)
    BY LinesOfBody
<1>2. PICK e : e = SpanEnd(body[l], i)
    OBVIOUS
<1>3. i \in DOMAIN body[l] /\ i \in Nat /\ body[l][i].k = "tick" /\ l \in Nat
      /\ Closers(body[l], i) \subseteq Nat /\ Closers(body[l], i) # {}
    BY <1>1 DEF SpanStarts, Closers
<1>4. e \in Closers(body[l], i) /\ \A j \in Closers(body[l], i) : e <= j
    BY <1>2, <1>3, LeastOf DEF SpanEnd
<1>5. e \in DOMAIN body[l] /\ e \in Nat /\ i < e /\ body[l][e].k = "tick"
      /\ body[l][e].n = body[l][i].n
    BY <1>1, <1>3, <1>4 DEF Closers
<1>6. PICK r, s : r = <<l, i>> /\ s = <<l, e>>
    OBVIOUS
<1>7. r \in Runs(body) /\ s \in Runs(body) /\ r[1] = l /\ r[2] = i /\ s[1] = l /\ s[2] = e
    BY <1>3, <1>5, <1>6 DEF Runs
<1>8. Place(body, l, i) < Place(body, l, e)
    BY <1>3, <1>5, PlaceOrder
<1>9. Place(body, l, e) \in Closing(body, r)
    <2>1. InParagraph(body, r[1], s[1])
        <3>1. \A k \in l + 1 .. l : FALSE
            BY <1>3
        <3> QED
            BY <1>7, <3>1 DEF InParagraph
    <2> QED
        BY <1>5, <1>7, <1>8, <2>1 DEF Closing
<1>10. ASSUME NEW x \in Closing(body, r) PROVE Place(body, l, e) <= x
    <2>1. PICK q \in Runs(body) : /\ x = Place(body, q[1], q[2])
                                  /\ Place(body, l, i) < Place(body, q[1], q[2])
                                  /\ body[q[1]][q[2]].n = body[l][i].n
        BY <1>7 DEF Closing
    <2>2. PICK m, j : m = q[1] /\ j = q[2] /\ m \in DOMAIN body /\ j \in DOMAIN body[m]
                      /\ body[m][j].k = "tick" /\ m \in Nat /\ j \in Nat
        BY RunsOfBody
    <2>3. l < m \/ (l = m /\ i < j)
        BY <1>3, <2>1, <2>2, PlacesDiffer
    <2>4. Place(body, m, j) \in Nat /\ Place(body, l, e) \in Nat
        BY <1>3, <1>5, <2>2, PlaceOrder
    <2>5. CASE l < m
        <3>1. Place(body, l, e) < Place(body, m, j)
            BY <1>5, <2>2, <2>5, PlacesDiffer
        <3> QED
            BY <2>1, <2>2, <2>4, <3>1
    <2>6. CASE l = m /\ i < j
        <3>1. j \in Closers(body[l], i)
            BY <1>1, <1>3, <2>1, <2>2, <2>6 DEF Closers
        <3>2. e <= j
            BY <1>4, <3>1
        <3>3. ~ (Place(body, l, j) < Place(body, l, e))
            <4>1. j \in Nat /\ e \in Nat /\ l \in Nat /\ ~ (j < e)
                BY <1>3, <1>5, <2>2, <3>2
            <4>2. Place(body, l, j) < Place(body, l, e) <=> j < e
                BY <4>1, PlaceOrder
            <4> QED
                BY <4>1, <4>2
        <3> QED
            BY <2>1, <2>2, <2>4, <2>6, <3>3
    <2> QED
        BY <2>3, <2>5, <2>6
<1>11. Closing(body, r) # {}
    BY <1>9
<1>12. Least(Closing(body, r)) = Place(body, l, e)
    <2>1. PICK x : x = Least(Closing(body, r)) /\ x \in Closing(body, r)
                   /\ (\A y \in Closing(body, r) : x <= y) /\ x \in Nat
        BY <1>7, <1>11, ClosingIs
    <2>2. x <= Place(body, l, e) /\ Place(body, l, e) <= x /\ Place(body, l, e) \in Nat
        BY <1>3, <1>5, <1>9, <1>10, <2>1, PlaceOrder
    <2> QED
        BY <2>1, <2>2
<1> QED
    BY <1>2, <1>7, <1>11, <1>12 DEF Candidates

\* A candidate that ends on its line is one of the line.
LEMMA SpanOnLine ==
    ASSUME NEW body \in Seq(Written), NEW c \in Candidates(body), NEW l \in DOMAIN body,
           Place(body, l, 0) < c[1], c[2] < Place(body, l + 1, 0)
    PROVE  /\ l \notin FencedLines(body)
           /\ \E i \in SpanStarts(body[l]) :
                 c = <<Place(body, l, i), Place(body, l, SpanEnd(body[l], i))>>
<1>1. PICK r \in Runs(body) : /\ Closing(body, r) # {}
                              /\ c = <<Place(body, r[1], r[2]), Least(Closing(body, r))>>
    BY DEF Candidates
<1>2. /\ c[1] = Place(body, r[1], r[2]) /\ c[1] \in Nat
      /\ c[2] \in Closing(body, r) /\ c[2] \in Nat /\ c[1] < c[2]
    BY <1>1, ClosingIs
<1>3. PICK s \in Runs(body) : /\ c[2] = Place(body, s[1], s[2])
                              /\ body[s[1]][s[2]].n = body[r[1]][r[2]].n
    BY <1>2 DEF Closing
<1>4. PICK m, i : m = r[1] /\ i = r[2] /\ m \in DOMAIN body \ FencedLines(body)
                  /\ i \in DOMAIN body[m] /\ body[m][i].k = "tick" /\ i \in Nat
    BY RunsOfBody
<1>5. PICK n, j : n = s[1] /\ j = s[2] /\ n \in DOMAIN body /\ j \in DOMAIN body[n]
                  /\ body[n][j].k = "tick" /\ j \in Nat
    BY RunsOfBody
<1>6. Place(body, l, 0) \in Nat /\ Place(body, l + 1, 0) \in Nat /\ l \in Nat
    <2>1. l \in Nat /\ l + 1 \in Nat
        OBVIOUS
    <2> QED
        BY <2>1, PlaceOrder
<1>7. /\ Place(body, l, 0) < Place(body, m, i) /\ Place(body, m, i) < Place(body, l + 1, 0)
      /\ Place(body, l, 0) < Place(body, n, j) /\ Place(body, n, j) < Place(body, l + 1, 0)
    BY <1>2, <1>3, <1>4, <1>5, <1>6
<1>8. m = l /\ n = l
    BY <1>4, <1>5, <1>7, OnTheLine
<1>9. i < j
    <2>1. Place(body, l, i) < Place(body, l, j)
        BY <1>2, <1>3, <1>4, <1>5, <1>8
    <2>2. Place(body, l, i) < Place(body, l, j) <=> i < j
        BY <1>4, <1>5, <1>6, PlaceOrder
    <2> QED
        BY <2>1, <2>2
<1>10. i \in SpanStarts(body[l])
    <2>1. PICK line, S : line = body[l] /\ line \in Seq(S)
        BY LinesOfBody
    <2>2. j \in Closers(body[l], i)
        BY <1>3, <1>4, <1>5, <1>8, <1>9, <2>1 DEF Closers
    <2> QED
        BY <1>4, <1>8, <2>2 DEF SpanStarts
<1>11. PICK d : d = <<Place(body, l, i), Place(body, l, SpanEnd(body[l], i))>>
    OBVIOUS
<1>12. d \in Candidates(body) /\ d[1] = c[1]
    BY <1>2, <1>4, <1>8, <1>10, <1>11, LineSpan
<1>13. c = d
    BY <1>12, BodySpans DEF AreCandidates
<1> QED
    BY <1>4, <1>8, <1>10, <1>11, <1>13

\* In a body whose code keeps to its lines, the code of a line is that of the line alone.
LEMMA CodeOfLine ==
    ASSUME NEW body \in Seq(Written), KeepsToLines(body),
           NEW l \in DOMAIN body \ FencedLines(body), NEW i \in DOMAIN body[l]
    PROVE  Place(body, l, i) \in Inside(CodeSpans(body)) <=> i \in InlineCode(body[l])
<1>1. PICK line, S : line = body[l] /\ line \in Seq(S)
    BY LinesOfBody
<1> DEFINE Shifted(b) == <<Place(body, l, b[1]), Place(body, l, b[2])>>
           B == {b \in LineCandidates(line) : Shifted(b) \in CodeSpans(body)}
<1>2. ASSUME NEW b \in LineCandidates(line)
      PROVE  /\ b[1] \in DOMAIN line /\ b[1] \in Nat /\ b[2] \in DOMAIN line /\ b[2] \in Nat
             /\ b[1] < b[2] /\ Shifted(b) \in Candidates(body)
    <2>1. PICK o \in SpanStarts(line) : b = <<o, SpanEnd(line, o)>>
        BY DEF LineCandidates
    <2>2. o \in 1 .. Len(line) /\ SpanEnd(line, o) \in o + 1 .. Len(line)
        BY <1>1, SpanEndsBehind
    <2>3. Shifted(b) \in Candidates(body)
        BY <1>1, <2>1, LineSpan
    <2> QED
        BY <1>1, <2>1, <2>2, <2>3
<1>3. ASSUME NEW s \in CodeSpans(body), NEW j \in DOMAIN line,
             Place(body, l, j) \in s[1] .. s[2]
      PROVE  \E b \in B : s = Shifted(b)
    <2>1. s \in Candidates(body)
        BY BodySpans DEF AreSpans
    <2>2. PICK m \in DOMAIN body : Place(body, m, 0) < s[1] /\ s[2] < Place(body, m + 1, 0)
        BY DEF KeepsToLines
    <2>3. s[1] \in Nat /\ s[2] \in Nat
        BY <2>1, BodySpans DEF AreCandidates
    <2>4. m \in Nat /\ m + 1 \in Nat /\ l \in Nat /\ j \in Nat
        BY <1>1
    <2>5. Place(body, m, 0) \in Nat /\ Place(body, m + 1, 0) \in Nat /\ Place(body, l, j) \in Nat
        BY <2>4, PlaceOrder
    <2>6. Place(body, m, 0) < Place(body, l, j) /\ Place(body, l, j) < Place(body, m + 1, 0)
        BY <1>3, <2>2, <2>3, <2>5
    <2>7. m = l
        BY <1>1, <2>6, OnTheLine
    <2>8. PICK o \in SpanStarts(line) :
              s = <<Place(body, l, o), Place(body, l, SpanEnd(line, o))>>
        BY <1>1, <2>1, <2>2, <2>7, SpanOnLine
    <2>9. PICK b : b = <<o, SpanEnd(line, o)>>
        OBVIOUS
    <2>10. b \in LineCandidates(line) /\ s = Shifted(b)
        BY <2>8, <2>9 DEF LineCandidates
    <2> QED
        BY <2>10
<1>4. \A a, b \in DOMAIN line : Place(body, l, a) < Place(body, l, b) <=> a < b
    <2>1. \A a \in DOMAIN line : a \in Nat
        BY <1>1
    <2>2. l \in Nat
        OBVIOUS
    <2> QED
        BY <2>1, <2>2, PlaceOrder
<1>5. \A a \in DOMAIN line : Place(body, l, a) \in Nat /\ a \in Nat
    <2>1. \A a \in DOMAIN line : a \in Nat
        BY <1>1
    <2>2. l \in Nat
        OBVIOUS
    <2> QED
        BY <2>1, <2>2, PlaceOrder
<1>6. ASSUME NEW b \in LineCandidates(line), NEW j \in DOMAIN line
      PROVE  Place(body, l, j) \in Shifted(b)[1] .. Shifted(b)[2] <=> j \in b[1] .. b[2]
    <2>1. PICK x, y : x = b[1] /\ y = b[2] /\ x \in DOMAIN line /\ y \in DOMAIN line
        BY <1>2
    <2>2. Shifted(b)[1] = Place(body, l, x) /\ Shifted(b)[2] = Place(body, l, y)
        BY <2>1
    <2>3. /\ Place(body, l, j) < Place(body, l, x) <=> j < x
          /\ Place(body, l, y) < Place(body, l, j) <=> y < j
        BY <1>4, <2>1
    <2>4. /\ Place(body, l, j) \in Nat /\ Place(body, l, x) \in Nat /\ Place(body, l, y) \in Nat
          /\ j \in Nat /\ x \in Nat /\ y \in Nat
        BY <1>5, <2>1
    <2> HIDE DEF Shifted
    <2> QED
        BY <2>1, <2>2, <2>3, <2>4
<1>7. AreSpans(B, LineCandidates(line))
    <2>1. ASSUME NEW b \in B, NEW c \in B PROVE b = c \/ b[2] < c[1] \/ c[2] < b[1]
        <3>1. \/ Shifted(b) = Shifted(c) \/ Shifted(b)[2] < Shifted(c)[1]
              \/ Shifted(c)[2] < Shifted(b)[1]
            BY BodySpans DEF AreSpans
        <3>2. Shifted(b)[2] < Shifted(c)[1] => b[2] < c[1]
            BY <1>2, <1>4
        <3>3. Shifted(c)[2] < Shifted(b)[1] => c[2] < b[1]
            BY <1>2, <1>4
        <3>4. ASSUME Shifted(b) = Shifted(c) PROVE b = c
            <4>1. PICK x, y : x = b[1] /\ y = c[1] /\ x \in DOMAIN line /\ y \in DOMAIN line
                BY <1>2
            <4>2. Place(body, l, x) = Place(body, l, y)
                BY <3>4, <4>1
            <4>3. ~ (x < y) /\ ~ (y < x) /\ x \in Nat /\ y \in Nat
                BY <1>4, <1>5, <4>1, <4>2
            <4>4. x = y
                BY <4>3
            <4> HIDE DEF Shifted
            <4> QED
                BY <1>1, <4>1, <4>4, OpenSpansAreSpans DEF AreCandidates
        <3> QED
            BY <3>1, <3>2, <3>3, <3>4
    <2>2. ASSUME NEW c \in LineCandidates(line) PROVE \E b \in B : c[1] \in b[1] .. b[2]
        <3>1. PICK s \in CodeSpans(body) : Shifted(c)[1] \in s[1] .. s[2]
            BY <1>2, BodySpans DEF AreSpans
        <3>2. PICK b \in B : s = Shifted(b)
            BY <1>2, <1>3, <3>1
        <3>3. c[1] \in b[1] .. b[2]
            BY <1>2, <1>6, <3>1, <3>2
        <3> QED
            BY <3>3
    <2> QED
        BY <2>1, <2>2 DEF AreSpans
<1>8. InlineCode(line) = Inside(B)
    <2> HIDE DEF B
    <2>1. Spans(LineCandidates(line)) = B
        BY <1>1, <1>7, OpenSpansAreSpans, SpansAre
    <2> QED
        BY <1>1, <2>1, InlineCodeIs
<1>9. i \in InlineCode(line) => Place(body, l, i) \in Inside(CodeSpans(body))
    <2>1. SUFFICES ASSUME NEW b \in B, i \in b[1] .. b[2]
                   PROVE  Place(body, l, i) \in Inside(CodeSpans(body))
        BY <1>8 DEF Inside
    <2>2. Place(body, l, i) \in Shifted(b)[1] .. Shifted(b)[2] /\ Shifted(b) \in CodeSpans(body)
        BY <1>1, <1>6, <2>1
    <2> QED
        BY <2>2 DEF Inside
<1>10. Place(body, l, i) \in Inside(CodeSpans(body)) => i \in InlineCode(line)
    <2>1. SUFFICES ASSUME NEW s \in CodeSpans(body), Place(body, l, i) \in s[1] .. s[2]
                   PROVE  i \in InlineCode(line)
        BY DEF Inside
    <2>2. PICK b \in B : s = Shifted(b)
        BY <1>1, <1>3, <2>1
    <2>3. i \in b[1] .. b[2]
        BY <1>1, <1>6, <2>1, <2>2
    <2> QED
        BY <1>8, <2>3 DEF Inside
<1> QED
    BY <1>1, <1>9, <1>10

----------------------------------------------------------------------------
\* The two views of a body, and what the checks of one document look for in them.

LEMMA ViewA ==
    ASSUME NEW body \in Seq(Written)
    PROVE  /\ DOMAIN BodyViewA(body) = DOMAIN body
           /\ \A l \in DOMAIN body :
                 BodyViewA(body)[l] = IF l \in FencedLines(body) THEN <<>> ELSE body[l]
    BY MasksFencedLines DEF BodyViewA

LEMMA ViewB ==
    ASSUME NEW body \in Seq(Written)
    PROVE  /\ DOMAIN BodyViewB(body) = DOMAIN body
           /\ \A l \in DOMAIN body \cap FencedLines(body) : DOMAIN BodyViewB(body)[l] = {}
           /\ \A l \in DOMAIN body \ FencedLines(body) :
                 /\ DOMAIN BodyViewB(body)[l] = DOMAIN body[l]
                 /\ \A i \in DOMAIN body[l] :
                       BodyViewB(body)[l][i] =
                           IF i \in InlineCode(body[l]) THEN Blank ELSE body[l][i]
<1>1. DOMAIN BodyViewB(body) = DOMAIN body
      /\ \A l \in DOMAIN body : BodyViewB(body)[l] = MaskInlineCode(BodyViewA(body)[l])
    BY DEF BodyViewB
<1>2. ASSUME NEW l \in DOMAIN body \cap FencedLines(body)
      PROVE  DOMAIN BodyViewB(body)[l] = {}
    <2>1. BodyViewB(body)[l] = MaskInlineCode(<<>>)
        BY <1>1, ViewA
    <2> QED
        BY <2>1 DEF MaskInlineCode
<1>3. ASSUME NEW l \in DOMAIN body \ FencedLines(body)
      PROVE  /\ DOMAIN BodyViewB(body)[l] = DOMAIN body[l]
             /\ \A i \in DOMAIN body[l] :
                   BodyViewB(body)[l][i] =
                       IF i \in InlineCode(body[l]) THEN Blank ELSE body[l][i]
    <2>1. BodyViewB(body)[l] = MaskInlineCode(body[l])
        BY <1>1, ViewA
    <2>2. PICK line, S : line = body[l] /\ line \in Seq(S)
        BY LinesOfBody
    <2> QED
        BY <2>1, <2>2, MasksInlineCode
<1> QED
    BY <1>1, <1>2, <1>3

ProseHas(body, l, mark) == \E la \in ProseOf(body) : la[1] = l /\ body[l][la[2]].k = mark

\* A line of view B has what the prose of the line has.
LEMMA MarkedInProse ==
    ASSUME NEW body \in Seq(Written), KeepsToLines(body),
           NEW l \in DOMAIN body, NEW mark, mark # "blank"
    PROVE  Has(BodyViewB(body)[l], mark) <=> ProseHas(body, l, mark)
<1>1. Blank.k # mark
    BY DEF Blank, Atom
<1>2. \A la : la \in ProseOf(body) /\ la[1] = l
                 <=> \E i \in DOMAIN body[l] :
                        la = <<l, i>> /\ l \notin FencedLines(body) /\ i \notin InlineCode(body[l])
    <2>1. \A la : la \in ProseOf(body) /\ la[1] = l
                     <=> \E i \in DOMAIN body[l] :
                            /\ la = <<l, i>> /\ l \notin FencedLines(body)
                            /\ Place(body, l, i) \notin Inside(CodeSpans(body))
        BY DEF ProseOf
    <2>2. l \notin FencedLines(body) => \A i \in DOMAIN body[l] :
              Place(body, l, i) \in Inside(CodeSpans(body)) <=> i \in InlineCode(body[l])
        BY CodeOfLine
    <2> QED
        BY <2>1, <2>2
<1>3. CASE l \in FencedLines(body)
    BY <1>2, <1>3, ViewB DEF Has, ProseHas
<1>4. CASE l \notin FencedLines(body)
    <2>1. /\ DOMAIN BodyViewB(body)[l] = DOMAIN body[l]
          /\ \A i \in DOMAIN body[l] :
                BodyViewB(body)[l][i] = IF i \in InlineCode(body[l]) THEN Blank ELSE body[l][i]
        BY <1>4, ViewB
    <2>2. Has(BodyViewB(body)[l], mark)
              <=> \E i \in DOMAIN body[l] : i \notin InlineCode(body[l]) /\ body[l][i].k = mark
        BY <1>1, <2>1 DEF Has
    <2>3. ASSUME NEW i \in DOMAIN body[l], i \notin InlineCode(body[l]), body[l][i].k = mark
          PROVE  \E la \in ProseOf(body) : la[1] = l /\ body[l][la[2]].k = mark
        <3>1. PICK la : la = <<l, i>>
            OBVIOUS
        <3>2. la \in ProseOf(body) /\ la[1] = l /\ la[2] = i
            BY <1>2, <1>4, <2>3, <3>1
        <3> QED
            BY <2>3, <3>2
    <2>4. ASSUME NEW la \in ProseOf(body), la[1] = l, body[l][la[2]].k = mark
          PROVE  \E i \in DOMAIN body[l] : i \notin InlineCode(body[l]) /\ body[l][i].k = mark
        BY <1>2, <2>4
    <2> QED
        BY <2>2, <2>3, <2>4 DEF ProseHas
<1> QED
    BY <1>3, <1>4

LEMMA UnmarkedProse ==
    ASSUME NEW body \in Seq(Written), KeepsToLines(body), NEW mark, mark # "blank"
    PROVE  {l \in DOMAIN BodyViewB(body) : Has(BodyViewB(body)[l], mark)} = {}
               <=> \A la \in ProseOf(body) : body[la[1]][la[2]].k # mark
<1>1. \A l \in DOMAIN body : Has(BodyViewB(body)[l], mark) <=> ProseHas(body, l, mark)
    BY MarkedInProse
<1>2. \A la \in ProseOf(body) : la[1] \in DOMAIN body
    BY DEF ProseOf
<1>3. DOMAIN BodyViewB(body) = DOMAIN body
    BY ViewB
<1>4. ASSUME \A l \in DOMAIN body : ~Has(BodyViewB(body)[l], mark), NEW la \in ProseOf(body)
      PROVE  body[la[1]][la[2]].k # mark
    <2>1. PICK l \in DOMAIN body : l = la[1]
        BY <1>2
    <2>2. ~ (la[1] = l /\ body[l][la[2]].k = mark)
        BY <1>1, <1>4 DEF ProseHas
    <2> QED
        BY <2>1, <2>2
<1>5. ASSUME \A la \in ProseOf(body) : body[la[1]][la[2]].k # mark, NEW l \in DOMAIN body
      PROVE  ~Has(BodyViewB(body)[l], mark)
    BY <1>1, <1>2, <1>5 DEF ProseHas
<1> QED
    BY <1>3, <1>4, <1>5

CleanProse(doc) ==
    \A la \in ProseOf(doc.body) : doc.body[la[1]][la[2]].k \notin {"hole", "banned"}

NoPlaceholder(doc) ==
    Placeholder \notin ToSet(doc.items) \cup {ref.id : ref \in ToSet(doc.covers)}
                                        \cup ToSet(doc.rules)

\* C4 and C5 pass a document without placeholders and banned words.
LEMMA MarksPass ==
    ASSUME NEW p, NEW doc, IsDocument(doc), KeepsToLines(doc.body)
    PROVE  CheckC4C5(p, doc) = {} <=> doc.marks = {} /\ NoPlaceholder(doc) /\ CleanProse(doc)
<1>1. doc.body \in Seq(Written) /\ doc.marks \subseteq {"hole", "banned"}
    BY FieldsFit
<1> DEFINE In(mark) == {l \in DOMAIN BodyViewB(doc.body) : Has(BodyViewB(doc.body)[l], mark)}
           Marked(mark) == In(mark) \cup IF mark \in FrontMarks(doc) THEN {0} ELSE {}
<1>2. CheckC4C5(p, doc) = {Violation(p, l, "C4", None) : l \in Marked("hole")}
                              \cup {Violation(p, l, "C5", None) : l \in Marked("banned")}
    BY DEF CheckC4C5
<1>3. CheckC4C5(p, doc) = {} <=> Marked("hole") = {} /\ Marked("banned") = {}
    <2> HIDE DEF Marked
    <2> QED
        BY <1>2
<1>4. \A mark : Marked(mark) = {} <=> In(mark) = {} /\ mark \notin FrontMarks(doc)
    OBVIOUS
<1>5. "hole" \notin FrontMarks(doc) /\ "banned" \notin FrontMarks(doc)
          <=> doc.marks = {} /\ NoPlaceholder(doc)
    BY <1>1 DEF FrontMarks, NoPlaceholder
<1>6. \A mark \in {"hole", "banned"} :
          In(mark) = {} <=> \A la \in ProseOf(doc.body) : doc.body[la[1]][la[2]].k # mark
    BY <1>1, UnmarkedProse
<1> HIDE DEF In, Marked
<1> QED
    BY <1>3, <1>4, <1>5, <1>6 DEF CleanProse

----------------------------------------------------------------------------
\* C2: items and body.

LEMMA IdAtom ==
    ASSUME NEW a, IsAtom(a), NEW id
    PROVE  a = Id(id) <=> a.k = "id" /\ a.v = id
<1>1. ASSUME a = Id(id) PROVE a.k = "id" /\ a.v = id
    BY <1>1 DEF Id, Atom
<1>2. ASSUME a.k = "id", a.v = id PROVE a = Id(id)
    BY <1>2 DEF IsAtom, Id
<1> QED
    BY <1>1, <1>2

\* Among the first mentions are all ids that the body mentions, and no others.
LEMMA TokensAreMentions ==
    ASSUME NEW p, NEW doc, IsDocument(doc), NEW id
    PROVE  (\E t \in BodyTokens(p, doc) : t[2] = id)
               <=> KindOf(id) = p[1] /\ Mentions(doc.body, id)
<1>1. PICK body : body = doc.body /\ body \in Seq(Written)
    BY FieldsFit
<1> DEFINE text == BodyViewA(body)
           At(l) == {text[l][i].v : i \in {i \in DOMAIN text[l] :
                        text[l][i].k = "id" /\ KindOf(text[l][i].v) = p[1]}}
           First(l) == {<<l, x>> : x \in {x \in At(l) : \A m \in 1 .. l - 1 : x \notin At(m)}}
<1>2. BodyTokens(p, doc) = UNION {First(l) : l \in DOMAIN text}
    BY <1>1 DEF BodyTokens
<1>3. DOMAIN text = DOMAIN body /\ DOMAIN body = 1 .. Len(body) /\ Len(body) \in Nat
      /\ \A l \in DOMAIN body : text[l] = IF l \in FencedLines(body) THEN <<>> ELSE body[l]
    BY <1>1, ViewA
<1>4. ASSUME NEW l \in DOMAIN body
      PROVE  id \in At(l) <=> /\ KindOf(id) = p[1] /\ l \notin FencedLines(body)
                              /\ \E i \in DOMAIN body[l] : body[l][i] = Id(id)
    <2>1. CASE l \in FencedLines(body)
        BY <1>3, <2>1
    <2>2. CASE l \notin FencedLines(body)
        <3>1. text[l] = body[l]
            BY <1>3, <2>2
        <3>2. \A i \in DOMAIN body[l] : IsAtom(body[l][i])
            BY <1>1, LinesOfBody
        <3>3. \A i \in DOMAIN body[l] :
                  body[l][i] = Id(id) <=> body[l][i].k = "id" /\ body[l][i].v = id
            BY <3>2, IdAtom
        <3> QED
            BY <2>2, <3>1, <3>3
    <2> QED
        BY <2>1, <2>2
<1> HIDE DEF text, At
<1>5. ASSUME NEW t \in BodyTokens(p, doc), t[2] = id
      PROVE  KindOf(id) = p[1] /\ Mentions(doc.body, id)
    <2>1. PICK l \in DOMAIN body : t \in First(l)
        BY <1>2, <1>3, <1>5
    <2>2. id \in At(l)
        BY <1>5, <2>1
    <2> QED
        BY <1>1, <1>4, <2>2 DEF Mentions
<1>6. ASSUME KindOf(id) = p[1], Mentions(doc.body, id)
      PROVE  \E t \in BodyTokens(p, doc) : t[2] = id
    <2> DEFINE S == {l \in DOMAIN body : id \in At(l)}
    <2>1. S # {} /\ S \subseteq Nat
        BY <1>1, <1>3, <1>4, <1>6 DEF Mentions
    <2>2. PICK l : l \in S /\ \A m \in S : l <= m
        <3> HIDE DEF S
        <3> QED
            BY <2>1, LeastOf
    <2>3. l \in 1 .. Len(body) /\ id \in At(l)
        BY <1>3, <2>2
    <2>4. \A m \in 1 .. l - 1 : m \in 1 .. Len(body) /\ ~(l <= m)
        BY <1>3, <2>3
    <2>5. \A m \in 1 .. l - 1 : id \notin At(m)
        BY <1>3, <2>2, <2>4
    <2>6. <<l, id>> \in First(l)
        BY <2>3, <2>5
    <2>7. <<l, id>> \in BodyTokens(p, doc)
        <3> HIDE DEF First
        <3> QED
            BY <1>2, <1>3, <2>3, <2>6
    <2> QED
        BY <2>7
<1> QED
    BY <1>5, <1>6

\* C2 passes a document whose items are the ids of its kind that its body mentions.
LEMMA ItemsPass ==
    ASSUME NEW p, NEW doc, IsDocument(doc)
    PROVE  CheckC2Items(p, doc) = {} <=>
               /\ \A id \in ToSet(doc.items) : KindOf(id) = p[1] /\ Mentions(doc.body, id)
               /\ \A id : KindOf(id) = p[1] /\ Mentions(doc.body, id) => id \in ToSet(doc.items)
<1>1. PICK tokens : tokens = BodyTokens(p, doc)
    OBVIOUS
<1>2. \A id : (\E t \in tokens : t[2] = id) <=> KindOf(id) = p[1] /\ Mentions(doc.body, id)
    BY <1>1, TokensAreMentions
<1> DEFINE declared == {raw \in ToSet(doc.items) : KindOf(raw) = p[1]}
           A == ToSet(doc.items) \ declared
           B == declared \ {t[2] : t \in tokens}
           C == {t \in tokens : t[2] \notin declared}
<1>3. CheckC2Items(p, doc) =
          {Violation(p, 0, "C2", raw) : raw \in A}
          \cup {Violation(p, 0, "C2", raw) : raw \in B}
          \cup {Violation(p, t[1], "C2", t[2]) : t \in C}
    BY <1>1 DEF CheckC2Items
<1>4. CheckC2Items(p, doc) = {} <=> A = {} /\ B = {} /\ C = {}
    <2> HIDE DEF A, B, C
    <2> QED
        BY <1>3
<1>5. A = {} <=> \A id \in ToSet(doc.items) : KindOf(id) = p[1]
    OBVIOUS
<1>6. B = {} <=> \A id \in declared : \E t \in tokens : t[2] = id
    OBVIOUS
<1>7. C = {} <=> \A id : (\E t \in tokens : t[2] = id) => id \in declared
    OBVIOUS
<1> HIDE DEF A, B, C
<1> QED
    BY <1>2, <1>4, <1>5, <1>6, <1>7

----------------------------------------------------------------------------
\* C6: the acceptance criteria.

\* A finite set with a member has more than one when it has another.
LEMMA AnotherMember ==
    ASSUME NEW T, IsFiniteSet(T), NEW x \in T
    PROVE  Cardinality(T) > 1 <=> \E y \in T : y # x
<1>1. IsFiniteSet(T \ {x}) /\ Cardinality(T \ {x}) = Cardinality(T) - 1
    BY FS_RemoveElement
<1>2. Cardinality(T) \in Nat /\ Cardinality(T \ {x}) \in Nat
    BY <1>1, FS_CardinalityType
<1>3. T \ {x} = {} <=> Cardinality(T \ {x}) = 0
    BY <1>1, FS_EmptySet
<1>4. T \ {x} # {} <=> \E y \in T : y # x
    OBVIOUS
<1>5. Cardinality(T) > 1 <=> Cardinality(T \ {x}) # 0
    BY <1>1, <1>2
<1> QED
    BY <1>3, <1>4, <1>5

\* A box about an id.
IsBoxOf(line, id) ==
    /\ line # <<>> /\ line[1] = Box
    /\ \E i \in DOMAIN line : line[i] = Id(id) /\ \A j \in 1 .. i - 1 : line[j].k # "id"

\* The first id of a checkbox line.
LEMMA FirstTokenIs ==
    ASSUME NEW S, NEW line \in Seq(S), \A i \in DOMAIN line : IsAtom(line[i]), NEW id
    PROVE  /\ FirstToken(line) # 0 /\ line[FirstToken(line)].v = id
                 <=> IsBoxOf(line, id)
           /\ FirstToken(line) # 0 =>
                 FirstToken(line) \in DOMAIN line /\ line[FirstToken(line)].k = "id"
<1>1. DOMAIN line = 1 .. Len(line) /\ Len(line) \in Nat
      /\ (line # <<>> => 1 \in DOMAIN line)
    OBVIOUS
<1> DEFINE ids == {i \in DOMAIN line : line[i].k = "id"}
<1>2. ids \subseteq Nat
    BY <1>1
<1>3. CASE line = <<>> \/ line[1].k # "box" \/ ids = {}
    <2>1. FirstToken(line) = 0
        BY <1>3 DEF FirstToken
    <2>2. \A i \in DOMAIN line : line[i] = Id(id) => i \in ids
        BY IdAtom
    <2>3. Box.k = "box"
        BY DEF Box, Atom
    <2> HIDE DEF ids
    <2> QED
        BY <1>3, <2>1, <2>2, <2>3 DEF IsBoxOf
<1>4. CASE line # <<>> /\ line[1].k = "box" /\ ids # {}
    <2>1. PICK m : m = Least(ids)
        OBVIOUS
    <2>2. FirstToken(line) = m
        BY <1>4, <2>1 DEF FirstToken
    <2>3. m \in ids /\ \A y \in ids : m <= y
        <3> HIDE DEF ids
        <3> QED
            BY <1>2, <1>4, <2>1, LeastOf
    <2>4. m \in DOMAIN line /\ line[m].k = "id" /\ m # 0
        BY <1>1, <2>3
    <2>5. line[1] = Box
        BY <1>1, <1>4 DEF IsAtom
    <2>6. \A j \in 1 .. m - 1 : line[j].k # "id"
        <3>1. ASSUME NEW j \in 1 .. m - 1 PROVE j \notin ids
            BY <1>1, <2>3, <2>4
        <3>2. \A j \in 1 .. m - 1 : j \in DOMAIN line
            BY <1>1, <2>4
        <3> QED
            BY <3>1, <3>2
    <2>7. ASSUME line[m].v = id
          PROVE  \E i \in DOMAIN line : line[i] = Id(id) /\ \A j \in 1 .. i - 1 : line[j].k # "id"
        <3>1. line[m] = Id(id)
            BY <2>4, <2>7, IdAtom
        <3> QED
            BY <2>4, <2>6, <3>1
    <2>8. ASSUME NEW i \in DOMAIN line, line[i] = Id(id), \A j \in 1 .. i - 1 : line[j].k # "id"
          PROVE  line[m].v = id
        <3>1. line[i].k = "id" /\ line[i].v = id
            BY <2>8, IdAtom
        <3>2. m <= i
            BY <2>3, <3>1
        <3>3. ~ (m < i)
            <4>1. SUFFICES ASSUME m < i PROVE FALSE
                OBVIOUS
            <4>2. m \in 1 .. i - 1
                BY <1>1, <2>4, <4>1
            <4> QED
                BY <2>4, <2>8, <4>2
        <3>4. m = i
            BY <1>1, <2>4, <3>2, <3>3
        <3> QED
            BY <3>1, <3>4
    <2> QED
        BY <1>4, <2>2, <2>4, <2>5, <2>7, <2>8 DEF IsBoxOf
<1> QED
    BY <1>3, <1>4

\* The section goes from the first acceptance heading to the next heading.
LEMMA SectionLines ==
    ASSUME NEW S, NEW text \in Seq(S), AcceptanceHeadings(text) # {}, NEW l \in Nat
    PROVE  l \in AcceptanceSectionRange(text) <=>
               /\ l \in DOMAIN text /\ Least(AcceptanceHeadings(text)) < l
               /\ \A r \in DOMAIN text :
                     Least(AcceptanceHeadings(text)) < r /\ r <= l => ~IsHeading(text[r])
<1>1. DOMAIN text = 1 .. Len(text) /\ Len(text) \in Nat
    OBVIOUS
<1>2. PICK start : start = Least(AcceptanceHeadings(text))
    OBVIOUS
<1>3. start \in 1 .. Len(text)
    <2>1. /\ AcceptanceHeadings(text) \subseteq Nat
          /\ AcceptanceHeadings(text) \subseteq 1 .. Len(text)
        BY <1>1 DEF AcceptanceHeadings
    <2> QED
        BY <1>2, <2>1, LeastOf
<1> DEFINE ends == {r \in DOMAIN text : r > start /\ IsHeading(text[r])}
<1>4. ends \subseteq 1 .. Len(text) /\ ends \subseteq Nat
    BY <1>1
<1>5. AcceptanceSectionRange(text)
          = start + 1 .. (IF ends = {} THEN Len(text) ELSE Least(ends) - 1)
    BY <1>2 DEF AcceptanceSectionRange
<1>6. (\A r \in DOMAIN text : start < r /\ r <= l => ~IsHeading(text[r]))
          <=> \A r \in ends : ~ (r <= l)
    BY <1>1, <1>3
<1>7. CASE ends = {}
    BY <1>1, <1>2, <1>3, <1>5, <1>6, <1>7
<1>8. CASE ends # {}
    <2>1. PICK m : m = Least(ends)
        OBVIOUS
    <2>2. m \in ends /\ \A y \in ends : m <= y
        <3> HIDE DEF ends
        <3> QED
            BY <1>4, <1>8, <2>1, LeastOf
    <2>3. m \in 1 .. Len(text)
        BY <1>4, <2>2
    <2>4. AcceptanceSectionRange(text) = start + 1 .. m - 1
        BY <1>5, <1>8, <2>1
    <2> HIDE DEF ends
    <2>5. (\A r \in ends : ~ (r <= l)) <=> l < m
        BY <1>4, <2>2
    <2> QED
        BY <1>1, <1>2, <1>3, <1>6, <2>3, <2>4, <2>5
<1> QED
    BY <1>7, <1>8

\* What Filled says of a body, part by part.
OpenLines(body) == DOMAIN body \ FencedLines(body)
StartsSection(line) == line # <<>> /\ line[1] = Heading(2, "acceptance")
InSection(body, l) ==
    \E s \in OpenLines(body) :
        /\ s < l /\ StartsSection(body[s])
        /\ \A r \in OpenLines(body) : r < s => ~StartsSection(body[r])
        /\ \A r \in OpenLines(body) : s < r /\ r <= l => ~IsHeading(body[r])
BoxesOf(body, id) == {l \in OpenLines(body) : InSection(body, l) /\ IsBoxOf(body[l], id)}
Says(line) == {i \in DOMAIN line : line[i].k \in {"id", "ref", "word", "banned", "hole"}}

LEMMA FilledIs ==
    ASSUME NEW body, NEW id
    PROVE  Filled(body, id) <=>
               \E l \in BoxesOf(body, id) : /\ \A m \in BoxesOf(body, id) : l <= m
                                            /\ Cardinality(Says(body[l])) > 1
    BY Zenon DEF Filled, BoxesOf, IsBoxOf, InSection, StartsSection, OpenLines, Says

\* The headings that view A shows are those outside fences.
LEMMA HeadingsOfView ==
    ASSUME NEW body \in Seq(Written), NEW l \in DOMAIN body
    PROVE  /\ IsHeading(BodyViewA(body)[l]) <=> l \in OpenLines(body) /\ IsHeading(body[l])
           /\ l \in AcceptanceHeadings(BodyViewA(body))
                 <=> l \in OpenLines(body) /\ StartsSection(body[l])
<1>1. /\ DOMAIN BodyViewA(body) = DOMAIN body
      /\ BodyViewA(body)[l] = IF l \in FencedLines(body) THEN <<>> ELSE body[l]
    BY ViewA
<1>2. PICK line, S : line = body[l] /\ line \in Seq(S) /\ \A i \in DOMAIN line : IsAtom(line[i])
    BY LinesOfBody
<1>3. line # <<>> => IsAtom(line[1])
    BY <1>2
<1>4. IsAcceptance(line) <=> StartsSection(line)
    <2>1. ASSUME line # <<>>
          PROVE  line[1] = Heading(2, "acceptance")
                     <=> line[1].k = "heading" /\ line[1].n = 2 /\ line[1].v = "acceptance"
        BY <1>3, <2>1 DEF IsAtom, Heading, Atom
    <2> QED
        BY <2>1 DEF IsAcceptance, IsHeading, StartsSection
<1>5. ~IsHeading(<<>>) /\ ~IsAcceptance(<<>>)
    BY DEF IsHeading, IsAcceptance
<1>6. CASE l \in FencedLines(body)
    BY <1>1, <1>5, <1>6 DEF OpenLines, AcceptanceHeadings
<1>7. CASE l \notin FencedLines(body)
    BY <1>1, <1>2, <1>4, <1>7 DEF OpenLines, AcceptanceHeadings
<1> QED
    BY <1>6, <1>7

\* The view is a sequence too.
LEMMA ViewIsSeq ==
    ASSUME NEW body \in Seq(Written)
    PROVE  BodyViewA(body) \in Seq(Written \cup {<<>>})
<1>1. DOMAIN body = 1 .. Len(body) /\ Len(body) \in Nat
      /\ \A l \in DOMAIN body : body[l] \in Written
    OBVIOUS
<1>2. PICK text : text = BodyViewA(body)
    OBVIOUS
<1>3. /\ DOMAIN text = 1 .. Len(body)
      /\ \A l \in 1 .. Len(body) : text[l] \in Written \cup {<<>>}
    BY <1>1, <1>2, ViewA
<1>4. text = [l \in 1 .. Len(body) |-> text[l]]
    BY <1>1, <1>2 DEF BodyViewA, MaskFences
<1> QED
    BY <1>1, <1>2, <1>3, <1>4

\* The section that the code reads is the one that the criteria stand in.
LEMMA SectionOfView ==
    ASSUME NEW body \in Seq(Written), NEW l \in OpenLines(body)
    PROVE  InSection(body, l) <=> /\ AcceptanceHeadings(BodyViewA(body)) # {}
                                  /\ l \in AcceptanceSectionRange(BodyViewA(body))
<1> DEFINE text == BodyViewA(body)
           H == AcceptanceHeadings(text)
<1>1. /\ DOMAIN body = 1 .. Len(body) /\ Len(body) \in Nat /\ DOMAIN text = DOMAIN body
      /\ text \in Seq(Written \cup {<<>>})
      /\ l \in DOMAIN body
    BY ViewA, ViewIsSeq DEF OpenLines
<1>2. \A r : r \in H <=> r \in OpenLines(body) /\ StartsSection(body[r])
    BY <1>1, HeadingsOfView DEF AcceptanceHeadings, OpenLines
<1>3. \A r \in DOMAIN body : IsHeading(text[r]) <=> r \in OpenLines(body) /\ IsHeading(body[r])
    BY HeadingsOfView
<1>4. H \subseteq Nat /\ OpenLines(body) \subseteq DOMAIN body
    BY <1>1 DEF AcceptanceHeadings, OpenLines
<1>5. l \in Nat
    BY <1>1
<1> HIDE DEF text, H
<1>6. CASE H = {}
    BY <1>2, <1>6 DEF InSection, text, H
<1>7. CASE H # {}
    <2>1. PICK s : s = Least(H) /\ s \in H /\ \A y \in H : s <= y
        BY <1>4, <1>7, LeastOf
    <2>2. l \in AcceptanceSectionRange(text) <=>
              /\ s < l
              /\ \A r \in DOMAIN text : s < r /\ r <= l => ~IsHeading(text[r])
        <3>1. l \in AcceptanceSectionRange(text) <=>
               /\ l \in DOMAIN text /\ Least(AcceptanceHeadings(text)) < l
               /\ \A r \in DOMAIN text :
                     Least(AcceptanceHeadings(text)) < r /\ r <= l => ~IsHeading(text[r])
            BY <1>1, <1>5, <1>7, SectionLines DEF H
        <3> QED
            BY <1>1, <2>1, <3>1 DEF H
    <2>3. (\A r \in DOMAIN text : s < r /\ r <= l => ~IsHeading(text[r]))
              <=> \A r \in OpenLines(body) : s < r /\ r <= l => ~IsHeading(body[r])
        BY <1>1, <1>3, <1>4
    <2>4. \A t \in OpenLines(body) :
              (/\ StartsSection(body[t])
               /\ \A r \in OpenLines(body) : r < t => ~StartsSection(body[r]))
                  <=> t = s
        <3>1. ASSUME NEW t \in OpenLines(body), StartsSection(body[t]),
                     \A r \in OpenLines(body) : r < t => ~StartsSection(body[r])
              PROVE  t = s
            <4>1. t \in H /\ s \in OpenLines(body) /\ StartsSection(body[s])
                BY <1>2, <2>1, <3>1
            <4>2. s <= t /\ ~ (s < t) /\ s \in Nat /\ t \in Nat
                BY <1>4, <2>1, <3>1, <4>1
            <4> QED
                BY <4>2
        <3>2. \A r \in OpenLines(body) : r < s => r \notin H
            BY <1>1, <1>4, <2>1
        <3>3. s \in OpenLines(body) /\ StartsSection(body[s])
            BY <1>2, <2>1
        <3> QED
            BY <1>2, <3>1, <3>2, <3>3
    <2>5. s \in OpenLines(body)
        BY <1>2, <2>1
    <2>6. InSection(body, l) <=>
              s < l /\ \A r \in OpenLines(body) : s < r /\ r <= l => ~IsHeading(body[r])
        BY <2>4, <2>5 DEF InSection
    <2> QED
        BY <1>7, <2>2, <2>3, <2>6 DEF text, H
<1> QED
    BY <1>6, <1>7

\* The boxes that the code finds for an item are those about it.
LEMMA BoxesOfView ==
    ASSUME NEW body \in Seq(Written), AcceptanceHeadings(BodyViewA(body)) # {}, NEW item
    PROVE  {l \in AcceptanceSectionRange(BodyViewA(body)) :
               /\ FirstToken(BodyViewA(body)[l]) # 0
               /\ BodyViewA(body)[l][FirstToken(BodyViewA(body)[l])].v = item}
           = BoxesOf(body, item)
<1> DEFINE text == BodyViewA(body)
           section == AcceptanceSectionRange(text)
<1>1. /\ DOMAIN body = 1 .. Len(body) /\ Len(body) \in Nat /\ DOMAIN text = DOMAIN body
      /\ text \in Seq(Written \cup {<<>>})
      /\ \A l \in DOMAIN body : text[l] = IF l \in FencedLines(body) THEN <<>> ELSE body[l]
    BY ViewA, ViewIsSeq
<1>2. section \subseteq Nat
    <2>1. Least(AcceptanceHeadings(text)) \in Nat
        <3>1. AcceptanceHeadings(text) \subseteq Nat
            BY <1>1 DEF AcceptanceHeadings
        <3> QED
            BY <3>1, LeastOf
    <2>2. PICK start : start = Least(AcceptanceHeadings(text)) /\ start \in Nat
        BY <2>1
    <2>3. PICK ends : ends = {r \in DOMAIN text : r > start /\ IsHeading(text[r])}
        OBVIOUS
    <2>4. ends # {} => Least(ends) \in Nat
        <3>1. ends \subseteq Nat
            BY <1>1, <2>3
        <3> QED
            BY <3>1, LeastOf
    <2>5. section = start + 1 .. (IF ends = {} THEN Len(text) ELSE Least(ends) - 1)
        BY <2>2, <2>3 DEF AcceptanceSectionRange
    <2>6. Len(text) \in Nat
        BY <1>1
    <2> HIDE DEF section
    <2>7. \E n \in Int : section = start + 1 .. n
        <3>1. Len(text) \in Int /\ (ends # {} => Least(ends) - 1 \in Int)
            BY <2>4, <2>6
        <3> QED
            BY <2>5, <3>1, Zenon
    <2>8. PICK n \in Int : section = start + 1 .. n
        BY <2>7
    <2> QED
        BY <2>2, <2>8
<1> HIDE DEF text
<1>3. section \subseteq DOMAIN body
    BY <1>1, <1>2, SectionLines DEF text
<1>4. FirstToken(<<>>) = 0
    BY DEF FirstToken
<1>5. \A l \in OpenLines(body) : InSection(body, l) <=> l \in section
    BY SectionOfView DEF text
<1>6. ASSUME NEW l \in OpenLines(body)
      PROVE  FirstToken(text[l]) # 0 /\ text[l][FirstToken(text[l])].v = item
                 <=> IsBoxOf(body[l], item)
    <2>1. l \in DOMAIN body /\ text[l] = body[l]
        BY <1>1 DEF OpenLines
    <2>2. PICK line, S : line = body[l] /\ line \in Seq(S) /\ \A i \in DOMAIN line : IsAtom(line[i])
        BY <2>1, LinesOfBody
    <2>3. FirstToken(line) # 0 /\ line[FirstToken(line)].v = item
              <=> IsBoxOf(line, item)
        BY <2>2, FirstTokenIs
    <2> QED
        BY <2>1, <2>2, <2>3
<1>7. \A l \in section : FirstToken(text[l]) # 0 => l \in OpenLines(body)
    BY <1>1, <1>3, <1>4 DEF OpenLines
<1> HIDE DEF section
<1>8. {l \in section : FirstToken(text[l]) # 0 /\ text[l][FirstToken(text[l])].v = item}
          = BoxesOf(body, item)
    BY <1>5, <1>6, <1>7 DEF BoxesOf
<1> QED
    BY <1>8 DEF section, text

\* A box says more than its id when more than one of its atoms says something.
LEMMA BoxSays ==
    ASSUME NEW S, NEW line \in Seq(S), \A i \in DOMAIN line : IsAtom(line[i]),
           NEW id, IsBoxOf(line, id)
    PROVE  SaysSomething(line) <=> Cardinality(Says(line)) > 1
<1>1. FirstToken(line) \in DOMAIN line /\ line[FirstToken(line)].k = "id"
    BY FirstTokenIs DEF IsBoxOf
<1>2. FirstToken(line) \in Says(line)
    BY <1>1 DEF Says
<1>3. IsFiniteSet(Says(line))
    <2>1. IsFiniteSet(1 .. Len(line)) /\ Says(line) \subseteq 1 .. Len(line)
        BY FS_Interval DEF Says
    <2> QED
        BY <2>1, FS_Subset
<1>4. Cardinality(Says(line)) > 1 <=> \E i \in Says(line) : i # FirstToken(line)
    BY <1>2, <1>3, AnotherMember
<1> QED
    BY <1>4 DEF SaysSomething, Says

\* C6 passes a document without marks whose items are all filled.
LEMMA CriteriaPass ==
    ASSUME NEW p, NEW doc, IsDocument(doc), KeepsToLines(doc.body), CleanProse(doc)
    PROVE  CheckC6(p, doc) = {} <=> \A id \in ToSet(doc.items) : Filled(doc.body, id)
<1>1. PICK body : body = doc.body /\ body \in Seq(Written) /\ KeepsToLines(body)
    BY FieldsFit
<1>2. PICK a, b : a = BodyViewA(body) /\ b = BodyViewB(body)
    OBVIOUS
<1>3. doc.items = <<>> <=> ToSet(doc.items) = {}
    <2>1. PICK items, S : items = doc.items /\ items \in Seq(S)
        BY FieldsFit
    <2>2. items = <<>> <=> DOMAIN items = {}
        <3>1. items = <<>> => DOMAIN items = {}
            OBVIOUS
        <3>2. DOMAIN items = {} => items = <<>>
            BY <2>1
        <3> QED
            BY <3>1, <3>2
    <2>3. ToSet(items) = {} <=> DOMAIN items = {}
        BY DEF ToSet
    <2> QED
        BY <2>1, <2>2, <2>3
<1> DEFINE section == AcceptanceSectionRange(a)
           Bad(item) ==
               LET l == CheckboxFor(a, section, item)
               IN  \/ l = 0
                   \/ ~SaysSomething(a[l])
                   \/ Has(b[l], "hole") \/ Has(b[l], "banned")
<1>4. CheckC6(p, doc) =
          IF doc.items = <<>> THEN {}
          ELSE IF AcceptanceHeadings(a) = {} THEN {Violation(p, 0, "C6", None)}
          ELSE {Violation(p, CheckboxFor(a, section, item), "C6", item) :
                   item \in {item \in ToSet(doc.items) : Bad(item)}}
    BY <1>1, <1>2, Zenon DEF CheckC6
<1>5. CASE AcceptanceHeadings(a) = {}
    <2>1. \A id : BoxesOf(body, id) = {}
        BY <1>1, <1>2, <1>5, SectionOfView DEF BoxesOf
    <2>2. \A id : ~Filled(body, id)
        BY <2>1, FilledIs
    <2> QED
        BY <1>1, <1>3, <1>4, <1>5, <2>2
<1>6. CASE AcceptanceHeadings(a) # {}
    <2>1. ASSUME NEW item PROVE Bad(item) <=> ~Filled(body, item)
        <3> DEFINE S == BoxesOf(body, item)
        <3>1. CheckboxFor(a, section, item) = IF S = {} THEN 0 ELSE Least(S)
            <4>1. {l \in section : /\ FirstToken(a[l]) # 0
                                   /\ a[l][FirstToken(a[l])].v = item} = S
                BY <1>1, <1>2, <1>6, BoxesOfView
            <4> QED
                BY <4>1, Zenon DEF CheckboxFor
        <3>2. DOMAIN body = 1 .. Len(body) /\ Len(body) \in Nat
            BY <1>1
        <3>3. S \subseteq 1 .. Len(body) /\ S \subseteq Nat
            BY <3>2 DEF BoxesOf, OpenLines
        <3>4. CASE S = {}
            BY <3>1, <3>4, FilledIs
        <3>5. CASE S # {}
            <4>1. PICK l : l = Least(S) /\ l \in S /\ \A m \in S : l <= m
                <5> HIDE DEF S
                <5> QED
                    BY <3>3, <3>5, LeastOf
            <4>2. CheckboxFor(a, section, item) = l /\ l # 0 /\ l \in DOMAIN body
                BY <3>1, <3>2, <3>3, <3>5, <4>1
            <4>3. Filled(body, item) <=> Cardinality(Says(body[l])) > 1
                <5>1. \A m \in S : (\A n \in S : m <= n) => m = l
                    <6> HIDE DEF S
                    <6> QED
                        BY <3>3, <4>1
                <5> QED
                    BY <4>1, <5>1, FilledIs
            <4>4. IsBoxOf(body[l], item) /\ l \in OpenLines(body)
                BY <4>1 DEF BoxesOf
            <4>5. a[l] = body[l]
                BY <1>1, <1>2, <4>2, <4>4, ViewA DEF OpenLines
            <4>6. SaysSomething(body[l]) <=> Cardinality(Says(body[l])) > 1
                <5>1. PICK line, Atoms : line = body[l] /\ line \in Seq(Atoms)
                                         /\ \A i \in DOMAIN line : IsAtom(line[i])
                    BY <1>1, <4>2, LinesOfBody
                <5>2. IsBoxOf(line, item)
                    BY <4>4, <5>1
                <5>3. SaysSomething(line) <=> Cardinality(Says(line)) > 1
                    BY <5>1, <5>2, BoxSays
                <5> QED
                    BY <5>1, <5>3
            <4>7. ~Has(b[l], "hole") /\ ~Has(b[l], "banned")
                <5>1. \A la \in ProseOf(body) : body[la[1]][la[2]].k \notin {"hole", "banned"}
                    BY <1>1 DEF CleanProse
                <5>2. ASSUME NEW mark, mark # "blank"
                      PROVE  Has(b[l], mark) <=> ProseHas(body, l, mark)
                    BY <1>1, <1>2, <4>2, <5>2, MarkedInProse
                <5>3. PICK hole, banned : hole = "hole" /\ banned = "banned"
                    OBVIOUS
                <5>4. ~Has(b[l], hole) /\ ~Has(b[l], banned)
                    BY <5>1, <5>2, <5>3 DEF ProseHas
                <5> QED
                    BY <5>3, <5>4
            <4> QED
                BY <4>2, <4>3, <4>5, <4>6, <4>7
        <3> QED
            BY <3>4, <3>5
    <2>2. doc.items = <<>> \/ CheckC6(p, doc) =
              {Violation(p, CheckboxFor(a, section, item), "C6", item) :
                   item \in {item \in ToSet(doc.items) : Bad(item)}}
        BY <1>4, <1>6
    <2> HIDE DEF Bad, section
    <2>3. CASE doc.items = <<>>
        BY <1>3, <1>4, <2>3
    <2>4. CASE doc.items # <<>>
        <3>1. CheckC6(p, doc) = {} <=> \A item \in ToSet(doc.items) : ~Bad(item)
            BY <2>2, <2>4
        <3> QED
            BY <1>1, <2>1, <3>1
    <2> QED
        BY <2>3, <2>4
<1> QED
    BY <1>5, <1>6

\* A sequence has as many values as places when no value comes twice.
LEMMA NoneTwice ==
    ASSUME NEW S, NEW s \in Seq(S)
    PROVE  Cardinality(ToSet(s)) = Len(s)
               <=> \A i, j \in DOMAIN s : s[i] = s[j] => i = j
<1>1. DOMAIN s = 1 .. Len(s) /\ Len(s) \in Nat
    OBVIOUS
<1>2. IsFiniteSet(DOMAIN s) /\ Cardinality(DOMAIN s) = Len(s)
    BY <1>1, FS_Interval
<1>3. s \in Surjection(DOMAIN s, ToSet(s))
    BY DEF Surjection, ToSet
<1>4. Cardinality(ToSet(s)) = Cardinality(DOMAIN s) <=> s \in Injection(DOMAIN s, ToSet(s))
    BY <1>2, <1>3, FS_Surjection
<1>5. s \in Injection(DOMAIN s, ToSet(s)) <=> \A i, j \in DOMAIN s : s[i] = s[j] => i = j
    BY DEF Injection, IsInjective, ToSet
<1> QED
    BY <1>2, <1>4, <1>5

\* A set of documents all of which parsed.
AllParsed(ds) ==
    /\ DOMAIN ds \subseteq Paths /\ IsFiniteSet(DOMAIN ds)
    /\ \A p \in DOMAIN ds : IsDocument(ds[p])

ItemsFit(ds) == \A p \in ContentOf(ds) : \A id \in ToSet(ds[p].items) : KindOf(id) = p[1]

\* C2 finds no id twice when every document's items differ.
LEMMA UniquePass ==
    ASSUME NEW ds, AllParsed(ds), ItemsFit(ds)
    PROVE  CheckC2Unique(ds) = {} <=>
               \A p \in ContentOf(ds) : Cardinality(ToSet(ds[p].items)) = Len(ds[p].items)
<1>1. CheckC2Unique(ds) = {} <=>
          \A d, e \in Declarations(ds) : Key(ds, d) = Key(ds, e) => d = e
    BY DEF CheckC2Unique, Key
<1>2. \A p \in ContentOf(ds) : \A i \in DOMAIN ds[p].items :
          KindOf(ds[p].items[i]) = p[1]
    BY DEF ItemsFit, ToSet
<1>3. \A d : d \in Declarations(ds) <=>
          \E p \in ContentOf(ds) : \E i \in DOMAIN ds[p].items : d = <<p, i>>
    BY <1>2 DEF Declarations
<1>4. ASSUME NEW p \in ContentOf(ds)
      PROVE  Cardinality(ToSet(ds[p].items)) = Len(ds[p].items)
                 <=> \A i, j \in DOMAIN ds[p].items : ds[p].items[i] = ds[p].items[j] => i = j
    <2>1. IsDocument(ds[p])
        BY DEF AllParsed, ContentOf
    <2>2. PICK s, S : s = ds[p].items /\ s \in Seq(S)
        BY <2>1, FieldsFit
    <2> QED
        BY <2>2, NoneTwice
<1>5. ASSUME \A d, e \in Declarations(ds) : Key(ds, d) = Key(ds, e) => d = e,
             NEW p \in ContentOf(ds), NEW i \in DOMAIN ds[p].items, NEW j \in DOMAIN ds[p].items,
             ds[p].items[i] = ds[p].items[j]
      PROVE  i = j
    <2>1. <<p, i>> \in Declarations(ds) /\ <<p, j>> \in Declarations(ds)
        BY <1>3
    <2>2. Key(ds, <<p, i>>) = Key(ds, <<p, j>>)
        BY <1>5 DEF Key
    <2> QED
        BY <1>5, <2>1, <2>2
<1>6. ASSUME \A p \in ContentOf(ds) : \A i, j \in DOMAIN ds[p].items :
                 ds[p].items[i] = ds[p].items[j] => i = j,
             NEW d \in Declarations(ds), NEW e \in Declarations(ds), Key(ds, d) = Key(ds, e)
      PROVE  d = e
    <2>1. PICK p \in ContentOf(ds) : \E i \in DOMAIN ds[p].items : d = <<p, i>>
        BY <1>3
    <2>2. PICK i \in DOMAIN ds[p].items : d = <<p, i>>
        BY <2>1
    <2>3. PICK q \in ContentOf(ds) : \E j \in DOMAIN ds[q].items : e = <<q, j>>
        BY <1>3
    <2>4. PICK j \in DOMAIN ds[q].items : e = <<q, j>>
        BY <2>3
    <2>5. d[1] = e[1]
        BY <1>6, SameKeySameFile DEF AllParsed
    <2>6. p = q
        BY <2>2, <2>4, <2>5
    <2>7. ds[p].items[i] = ds[p].items[j]
        BY <1>6, <2>2, <2>4, <2>6 DEF Key
    <2> QED
        BY <1>6, <2>2, <2>4, <2>6, <2>7
<1> QED
    BY <1>1, <1>4, <1>5, <1>6

\* No two rule files have the same id.
RulesDiffer(ds) ==
    \A p, q \in DOMAIN ds :
        p[1] = "rule" /\ q[1] = "rule" /\ ds[p].id # None /\ ds[p].id = ds[q].id => p = q

LEMMA DuplicatesPass ==
    ASSUME NEW ds, AllParsed(ds)
    PROVE  CheckDuplicateRuleIds(ds) = {} <=> RulesDiffer(ds)
<1>1. ASSUME NEW r
      PROVE  Cardinality(DeclaredBy(ds, r)) > 1
                 <=> \E p, q \in DeclaredBy(ds, r) : p # q
    <2>1. IsFiniteSet(DeclaredBy(ds, r))
        <3>1. DeclaredBy(ds, r) \subseteq DOMAIN ds
            BY DEF DeclaredBy, RulesOf
        <3> QED
            BY <3>1, FS_Subset DEF AllParsed
    <2>2. CASE DeclaredBy(ds, r) = {}
        <3>1. Cardinality(DeclaredBy(ds, r)) = 0
            BY <2>2, FS_EmptySet
        <3> QED
            BY <2>2, <3>1
    <2>3. ASSUME NEW p \in DeclaredBy(ds, r)
          PROVE  Cardinality(DeclaredBy(ds, r)) > 1
                     <=> \E q, s \in DeclaredBy(ds, r) : q # s
        <3>1. Cardinality(DeclaredBy(ds, r)) > 1 <=> \E q \in DeclaredBy(ds, r) : q # p
            BY <2>1, AnotherMember
        <3> QED
            BY <3>1
    <2> QED
        BY <2>2, <2>3
<1>2. CheckDuplicateRuleIds(ds) = {} <=>
          \A r \in DuplicateRuleIds(ds) : DeclaredBy(ds, r) = {}
    BY DEF CheckDuplicateRuleIds
<1>3. \A r : r \in DuplicateRuleIds(ds) <=>
          r # None /\ \E p, q \in DeclaredBy(ds, r) : p # q
    <2>1. \A r : r \in RuleIds(ds) <=> r # None /\ DeclaredBy(ds, r) # {}
        BY DEF RuleIds, DeclaredBy
    <2> QED
        BY <1>1, <2>1 DEF DuplicateRuleIds
<1>4. CheckDuplicateRuleIds(ds) = {} <=> \A r : r \notin DuplicateRuleIds(ds)
    BY <1>2, <1>3
<1>5. \A p, r : p \in DeclaredBy(ds, r) <=> p \in DOMAIN ds /\ p[1] = "rule" /\ ds[p].id = r
    BY DEF DeclaredBy, RulesOf
<1> QED
    BY <1>3, <1>4, <1>5 DEF RulesDiffer

\* A rule that is named is in force when a file declares it active.
LEMMA RulePasses ==
    ASSUME NEW ds, AllParsed(ds), RulesDiffer(ds), NEW r, r # None
    PROVE  ~RuleBroken(ds, r) <=>
               r = Placeholder \/ \E q \in DOMAIN ds : /\ q[1] = "rule" /\ ds[q].id = r
                                                       /\ ds[q].status = "active"
<1>1. \A p : p \in DeclaredBy(ds, r) <=> p \in DOMAIN ds /\ p[1] = "rule" /\ ds[p].id = r
    BY DEF DeclaredBy, RulesOf
<1>2. r \in RuleIds(ds) <=> DeclaredBy(ds, r) # {}
    BY DEF RuleIds, DeclaredBy
<1>3. \A p, q \in DeclaredBy(ds, r) : p = q
    BY <1>1 DEF RulesDiffer
<1>4. ASSUME NEW q \in DeclaredBy(ds, r) PROVE RuleStatus(ds, r) = ds[q].status
    <2>1. q[2] \in Nat
        <3>1. q \in Paths /\ q[1] = "rule"
            BY <1>1, <1>4 DEF AllParsed
        <3> QED
            BY <3>1, SotChecksAssumption DEF Paths, CONTENT_KINDS
    <2>2. \A p \in DeclaredBy(ds, r) :
              p = q /\ \A s \in DeclaredBy(ds, r) : s[2] <= p[2]
        BY <1>3, <2>1
    <2>3. (CHOOSE p \in DeclaredBy(ds, r) : \A s \in DeclaredBy(ds, r) : s[2] <= p[2]) = q
        BY <1>4, <2>2
    <2> QED
        BY <2>3 DEF RuleStatus
<1> QED
    BY <1>1, <1>2, <1>4 DEF RuleBroken

\* The kinds that ids have.
LEMMA KindsOfIds ==
    ASSUME NEW id
    PROVE  /\ KindOf(id) \in CONTENT_KINDS \cup {None}
           /\ KindOf(id) # None <=> id \in ReqIds \cup SpecIds \cup TestIds
           /\ None \notin CONTENT_KINDS
    BY SotChecksAssumption DEF KindOf, CONTENT_KINDS

\* A reference that C3 passes is resolved.
LEMMA CoverPasses ==
    ASSUME NEW ds, AllParsed(ds), NEW p \in ContentOf(ds), NEW ref, ref.id # Placeholder
    PROVE  (p[1] \in {"specification", "test-design"} => ~CoverBroken(ds, {}, p, ref))
               <=> (p[1] # "requirements" => Resolved(ds, p, ref))
<1>1. p[1] \in CONTENT_KINDS
    BY DEF ContentOf
<1>2. PICK k : k = KindOf(ref.id)
    OBVIOUS
<1>3. PICK topic : topic = IF ref.topic = None THEN p[2] ELSE ref.topic
    OBVIOUS
<1>4. k \in CONTENT_KINDS \cup {None} /\ None \notin CONTENT_KINDS
    BY <1>2, KindsOfIds
<1>5. SUFFICES ASSUME p[1] \in {"specification", "test-design"}
               PROVE  ~CoverBroken(ds, {}, p, ref) <=> Resolved(ds, p, ref)
    BY <1>1 DEF CONTENT_KINDS
<1>6. PICK target : target = CoverTarget(p, ref)
    OBVIOUS
<1>7. target = <<ResolveCoversTargetKind(p[1], ref.id), topic>>
    BY <1>3, <1>6 DEF CoverTarget
<1>8. ResolveCoversTargetKind(p[1], ref.id) =
          IF k \in (IF p[1] = "specification" THEN {"requirements"}
                    ELSE {"requirements", "specification"}) THEN k ELSE None
    BY <1>2 DEF ResolveCoversTargetKind
<1>9. ~CoverBroken(ds, {}, p, ref) <=>
          /\ target[1] # None /\ target \in ContentOf(ds)
          /\ ref.id \in ToSet(ds[target].items)
    BY <1>6 DEF CoverBroken
<1>10. Resolved(ds, p, ref) <=>
          /\ k \in CONTENT_KINDS
          /\ p[1] = "specification" => k = "requirements"
          /\ p[1] = "test-design" => k # "test-design"
          /\ <<k, topic>> \in DOMAIN ds /\ ref.id \in ToSet(ds[<<k, topic>>].items)
    BY <1>2, <1>3 DEF Resolved, ToSet
<1>11. CASE \/ p[1] = "specification" /\ k = "requirements"
            \/ p[1] = "test-design" /\ k \in {"requirements", "specification"}
    <2>1. target = <<k, topic>> /\ k # None /\ k \in CONTENT_KINDS
        BY <1>4, <1>7, <1>8, <1>11 DEF CONTENT_KINDS
    <2>2. target \in ContentOf(ds) <=> target \in DOMAIN ds
        BY <2>1 DEF ContentOf
    <2> QED
        BY <1>9, <1>10, <1>11, <2>1, <2>2
<1>12. CASE ~ \/ p[1] = "specification" /\ k = "requirements"
              \/ p[1] = "test-design" /\ k \in {"requirements", "specification"}
    <2>1. target[1] = None
        BY <1>5, <1>7, <1>8, <1>12
    <2>2. ~Resolved(ds, p, ref)
        BY <1>5, <1>10, <1>12 DEF CONTENT_KINDS
    <2> QED
        BY <1>9, <2>1, <2>2
<1> QED
    BY <1>11, <1>12

\* C3 passes a document whose references resolve and whose rules are in force.
LEMMA ReferencesPass ==
    ASSUME NEW ds, AllParsed(ds), RulesDiffer(ds), NEW p \in ContentOf(ds), NoPlaceholder(ds[p])
    PROVE  CheckC3(ds, {}, p) = {} <=>
               /\ \A ref \in ToSet(ds[p].covers) : p[1] # "requirements" => Resolved(ds, p, ref)
               /\ \A r \in ToSet(ds[p].rules) : InForce(ds, r)
<1> DEFINE Loose == {ref \in ToSet(ds[p].covers) :
                        p[1] \in {"specification", "test-design"} /\ CoverBroken(ds, {}, p, ref)}
           Void == {r \in ToSet(ds[p].rules) : RuleBroken(ds, r)}
<1>1. CheckC3(ds, {}, p) = {Violation(p, 0, "C3", ref.id) : ref \in Loose}
                           \cup {Violation(p, 0, "C3", r) : r \in Void}
    BY DEF CheckC3
<1>2. CheckC3(ds, {}, p) = {} <=> Loose = {} /\ Void = {}
    <2> HIDE DEF Loose, Void
    <2> QED
        BY <1>1
<1>3. Loose = {} <=>
          \A ref \in ToSet(ds[p].covers) : p[1] # "requirements" => Resolved(ds, p, ref)
    <2>1. ASSUME NEW ref \in ToSet(ds[p].covers)
          PROVE  (p[1] \in {"specification", "test-design"} => ~CoverBroken(ds, {}, p, ref))
                     <=> (p[1] # "requirements" => Resolved(ds, p, ref))
        <3>1. ref.id # Placeholder
            BY DEF NoPlaceholder
        <3> QED
            BY <3>1, CoverPasses
    <2>2. Loose = {} <=>
          \A ref \in ToSet(ds[p].covers) :
              p[1] \in {"specification", "test-design"} => ~CoverBroken(ds, {}, p, ref)
        OBVIOUS
    <2> HIDE DEF Loose
    <2> QED
        BY <2>1, <2>2
<1>4. Void = {} <=> \A r \in ToSet(ds[p].rules) : InForce(ds, r)
    <2>1. ASSUME NEW r \in ToSet(ds[p].rules) PROVE ~RuleBroken(ds, r) <=> InForce(ds, r)
        <3>1. r # Placeholder
            BY DEF NoPlaceholder
        <3>2. r # None
            <4>1. IsDocument(ds[p])
                BY DEF AllParsed, ContentOf
            <4>2. PICK rules : rules = ds[p].rules /\ rules \in Seq(ToSet(rules) \ {None})
                BY <4>1, FieldsFit
            <4>3. PICK i \in DOMAIN rules : r = rules[i]
                BY <4>2 DEF ToSet
            <4> QED
                BY <4>2, <4>3
        <3> QED
            BY <3>1, <3>2, RulePasses DEF InForce
    <2>2. Void = {} <=> \A r \in ToSet(ds[p].rules) : ~RuleBroken(ds, r)
        OBVIOUS
    <2> HIDE DEF Void
    <2> QED
        BY <2>1, <2>2
<1> HIDE DEF Loose, Void
<1> QED
    BY <1>2, <1>3, <1>4

\* What the checks ask of one document, C2's uniqueness taken document by document.
DocumentPasses(ds, p) ==
    /\ ds[p].id = p[2]
    /\ Cardinality(ToSet(ds[p].items)) = Len(ds[p].items)
    /\ OwnViolations(p, ds[p]) = {} /\ CheckC3(ds, {}, p) = {}

LEMMA SoundDocumentsPass ==
    ASSUME NEW ds, AllParsed(ds), RulesDiffer(ds), NEW p \in ContentOf(ds),
           KeepsToLines(ds[p].body)
    PROVE  DocumentPasses(ds, p) <=> SoundDocument(ds, p)
<1>1. PICK doc : doc = ds[p] /\ IsDocument(doc)
    BY DEF AllParsed, ContentOf
<1>2. p[1] \in CONTENT_KINDS
    BY DEF ContentOf
<1> DEFINE Items == \A id \in ToSet(doc.items) : KindOf(id) = p[1] /\ Mentions(doc.body, id)
           Body == \A id : KindOf(id) = p[1] /\ Mentions(doc.body, id) => id \in ToSet(doc.items)
           Criteria == \A id \in ToSet(doc.items) : Filled(doc.body, id)
           Covers == \A ref \in ToSet(doc.covers) : p[1] # "requirements" => Resolved(ds, p, ref)
           Rules == \A r \in ToSet(doc.rules) : InForce(ds, r)
<1>3. OwnViolations(p, doc) = {} <=>
          CheckC2Items(p, doc) = {} /\ CheckC4C5(p, doc) = {} /\ CheckC6(p, doc) = {}
    BY DEF OwnViolations
<1>4. CheckC2Items(p, doc) = {} <=> Items /\ Body
    BY <1>1, ItemsPass
<1>5. CheckC4C5(p, doc) = {} <=> doc.marks = {} /\ NoPlaceholder(doc) /\ CleanProse(doc)
    BY <1>1, MarksPass
<1>6. CleanProse(doc) => (CheckC6(p, doc) = {} <=> Criteria)
    BY <1>1, CriteriaPass
<1>7. NoPlaceholder(doc) => (CheckC3(ds, {}, p) = {} <=> Covers /\ Rules)
    BY <1>1, ReferencesPass
<1>8. DocumentPasses(ds, p) <=>
          /\ doc.id = p[2] /\ Cardinality(ToSet(doc.items)) = Len(doc.items)
          /\ Items /\ Body /\ doc.marks = {} /\ NoPlaceholder(doc) /\ CleanProse(doc)
          /\ Criteria /\ Covers /\ Rules
    <2> HIDE DEF Items, Body, Criteria, Covers, Rules
    <2> QED
        BY <1>1, <1>3, <1>4, <1>5, <1>6, <1>7 DEF DocumentPasses
<1>9. Body <=> \A id \in ReqIds \cup SpecIds \cup TestIds :
                  KindOf(id) = p[1] /\ Mentions(doc.body, id) => id \in ToSet(doc.items)
    <2>1. \A id : KindOf(id) = p[1] => id \in ReqIds \cup SpecIds \cup TestIds
        BY <1>2, KindsOfIds
    <2> QED
        BY <2>1
<1>10. Items => Placeholder \notin ToSet(doc.items)
    <2>1. KindOf(Placeholder) = None
        BY SotChecksAssumption, KindsOfIds
    <2>2. p[1] # None
        BY <1>2, KindsOfIds
    <2> QED
        BY <2>1, <2>2
<1>11. Items => (NoPlaceholder(doc) <=> /\ \A ref \in ToSet(doc.covers) : ref.id # Placeholder
                                       /\ \A r \in ToSet(doc.rules) : r # Placeholder)
    <2> HIDE DEF Items
    <2> QED
        BY <1>10 DEF NoPlaceholder
<1>12. SoundDocument(ds, p) <=>
          /\ doc.id = p[2] /\ doc.marks = {} /\ Cardinality(ToSet(doc.items)) = Len(doc.items)
          /\ Items /\ Criteria
          /\ \A id \in ReqIds \cup SpecIds \cup TestIds :
                KindOf(id) = p[1] /\ Mentions(doc.body, id) => id \in ToSet(doc.items)
          /\ CleanProse(doc)
          /\ \A ref \in ToSet(doc.covers) : ref.id # Placeholder
          /\ Covers
          /\ \A r \in ToSet(doc.rules) : r # Placeholder
          /\ Rules
    BY <1>1 DEF SoundDocument, CleanProse
<1> HIDE DEF Items, Body, Criteria, Covers, Rules
<1> QED
    BY <1>8, <1>9, <1>11, <1>12

\* The code of every document keeps to its lines.
CodeKeepsToLines(ds) == \A p \in ContentOf(ds) : KeepsToLines(ds[p].body)

\* The checks find nothing in exactly the trees that are sound, when their code does.
LEMMA ChecksAreExact ==
    ASSUME NEW ds, AllParsed(ds), CodeKeepsToLines(ds)
    PROVE  RunChecks(ds, {}) = {} <=> Sound(ds)
<1> DEFINE Own(p) == OwnViolations(p, ds[p]) \cup CheckC3(ds, {}, p)
<1>1. RunChecks(ds, {}) = {} <=>
          /\ CheckC1(ds) = {} /\ CheckC2Id(ds) = {} /\ CheckC2Unique(ds) = {}
          /\ \A p \in ContentOf(ds) : OwnViolations(p, ds[p]) = {} /\ CheckC3(ds, {}, p) = {}
          /\ CheckDuplicateRuleIds(ds) = {}
    <2> DEFINE All == UNION {OwnViolations(p, ds[p]) \cup CheckC3(ds, {}, p) : p \in ContentOf(ds)}
    <2>1. RunChecks(ds, {}) =
              CheckC1(ds) \cup CheckC2Id(ds) \cup CheckC2Unique(ds)
              \cup CheckDuplicateRuleIds(ds) \cup All
        BY Zenon DEF RunChecks
    <2>2. \A p : Own(p) = {} <=> OwnViolations(p, ds[p]) = {} /\ CheckC3(ds, {}, p) = {}
        OBVIOUS
    <2>3. All = {} <=> \A p \in ContentOf(ds) : Own(p) = {}
        OBVIOUS
    <2> HIDE DEF Own
    <2> HIDE DEF All
    <2>4. RunChecks(ds, {}) = {} <=>
              /\ CheckC1(ds) = {} /\ CheckC2Id(ds) = {} /\ CheckC2Unique(ds) = {}
              /\ All = {} /\ CheckDuplicateRuleIds(ds) = {}
        BY <2>1
    <2> QED
        BY <2>2, <2>3, <2>4
<1>2. CheckC1(ds) = {} <=> \A k \in CONTENT_KINDS : \E p \in DOMAIN ds :
                              p[1] = k /\ ds[p].items # <<>>
    BY DEF CheckC1, ContentOf
<1>3. CheckC2Id(ds) = {} <=> \A p \in ContentOf(ds) : ds[p].id = p[2]
    BY DEF CheckC2Id
<1>4. CheckDuplicateRuleIds(ds) = {} <=> RulesDiffer(ds)
    BY DuplicatesPass
<1>5. (\A p \in ContentOf(ds) : OwnViolations(p, ds[p]) = {}) => ItemsFit(ds)
    <2>1. SUFFICES ASSUME NEW p \in ContentOf(ds), OwnViolations(p, ds[p]) = {}
                   PROVE  \A id \in ToSet(ds[p].items) : KindOf(id) = p[1]
        BY DEF ItemsFit
    <2>2. PICK doc : doc = ds[p] /\ IsDocument(doc)
        BY DEF AllParsed, ContentOf
    <2>3. CheckC2Items(p, doc) = {}
        BY <2>1, <2>2 DEF OwnViolations
    <2> QED
        BY <2>2, <2>3, ItemsPass
<1>6. RunChecks(ds, {}) = {} <=>
          /\ CheckC1(ds) = {} /\ RulesDiffer(ds)
          /\ \A p \in ContentOf(ds) : DocumentPasses(ds, p)
    <2>1. CASE \A p \in ContentOf(ds) : OwnViolations(p, ds[p]) = {}
        <3>1. CheckC2Unique(ds) = {} <=>
               \A p \in ContentOf(ds) : Cardinality(ToSet(ds[p].items)) = Len(ds[p].items)
            BY <1>5, <2>1, UniquePass
        <3> QED
            BY <1>1, <1>3, <1>4, <2>1, <3>1 DEF DocumentPasses
    <2>2. CASE ~ \A p \in ContentOf(ds) : OwnViolations(p, ds[p]) = {}
        BY <1>1, <2>2 DEF DocumentPasses
    <2> QED
        BY <2>1, <2>2
<1>7. \A p \in DOMAIN ds : p[1] # "rule" <=> p \in ContentOf(ds)
    <2>1. ASSUME NEW p \in DOMAIN ds PROVE p[1] \in CONTENT_KINDS \cup {"rule"}
        BY DEF AllParsed, Paths
    <2>2. "rule" \notin CONTENT_KINDS
        BY DEF CONTENT_KINDS
    <2>3. \A p : p \in ContentOf(ds) <=> p \in DOMAIN ds /\ p[1] \in CONTENT_KINDS
        BY DEF ContentOf
    <2> QED
        BY <2>1, <2>2, <2>3
<1>8. Sound(ds) <=> /\ CheckC1(ds) = {} /\ RulesDiffer(ds)
                    /\ \A p \in ContentOf(ds) : SoundDocument(ds, p)
    <2>1. (\A p \in DOMAIN ds : p[1] # "rule" => SoundDocument(ds, p))
              <=> \A p \in ContentOf(ds) : SoundDocument(ds, p)
        BY <1>7 DEF ContentOf
    <2> QED
        BY <1>2, <2>1 DEF Sound, RulesDiffer
<1>9. RulesDiffer(ds) => \A p \in ContentOf(ds) : DocumentPasses(ds, p) <=> SoundDocument(ds, p)
    BY SoundDocumentsPass DEF CodeKeepsToLines
<1> QED
    BY <1>6, <1>8, <1>9

----------------------------------------------------------------------------
\* A run during which nobody writes.

\* What has been read of the tree is in docs and errors, and nothing else is.
HasRead(read) ==
    /\ docs = [p \in {p \in read : tree[p].form = "ok"} |-> tree[p]]
    /\ errors = {<<p, tree[p].form>> : p \in {p \in read : tree[p].form # "ok"}}
    /\ \A p \in read : tree[p].form # "raises"

TreeIsFinite == tree = [p \in DOMAIN tree |-> tree[p]] /\ IsFiniteSet(DOMAIN tree)

QuietReads ==
    pc = "reading" /\ quiet => listed \subseteq DOMAIN tree /\ HasRead(DOMAIN tree \ listed)

QuietVerdict ==
    pc = "judged" /\ quiet =>
        /\ HasRead(DOMAIN tree)
        /\ exit = IF errors # {} THEN 2
                  ELSE IF RunChecks(docs, {e[1] : e \in errors}) # {} THEN 1 ELSE 0

\* What a quiet run died of is in the tree.
QuietDeath == pc = "died" /\ quiet => exit = 1 /\ FormOf("raises")

QuietInv == TreeIsFinite /\ QuietReads /\ QuietVerdict /\ QuietDeath

LEMMA QuietInit == Init => QuietInv
<1>1. SUFFICES ASSUME Init PROVE QuietInv
    OBVIOUS
<1>2. TreeIsFinite
    BY <1>1, SotLintAssumption, Zenon DEF Init, TreeIsFinite
<1> QED
    BY <1>1, <1>2 DEF Init, QuietInv, QuietReads, QuietVerdict, QuietDeath

\* After an edit the run is not quiet.
LEMMA QuietEdit ==
    ASSUME NEW next, Edit(next), next = [p \in DOMAIN next |-> next[p]],
           IsFiniteSet(DOMAIN next)
    PROVE  QuietInv'
<1>1. tree' = next /\ quiet' = FALSE
    BY DEF Edit
<1>2. TreeIsFinite'
    BY <1>1, Zenon DEF TreeIsFinite
<1> QED
    BY <1>1, <1>2 DEF QuietInv, QuietReads, QuietVerdict, QuietDeath

LEMMA QuietAuthor ==
    ASSUME TreeIsFinite, NEW p \in DOMAIN tree,
           \/ EditBody(p) \/ EditFront(p) \/ Break(p) \/ Delete(p)
           \/ \E q \in Paths : Copy(p, q)
    PROVE  QuietInv'
<1>1. IsFiniteSet(DOMAIN tree)
    BY DEF TreeIsFinite
<1>2. ASSUME NEW field, NEW value, Edit([tree EXCEPT ![p][field] = value])
      PROVE  QuietInv'
    <2>1. PICK next : next = [tree EXCEPT ![p][field] = value]
        OBVIOUS
    <2>2. DOMAIN next = DOMAIN tree /\ next = [q \in DOMAIN next |-> next[q]]
        BY <2>1
    <2> QED
        BY <1>1, <1>2, <2>1, <2>2, QuietEdit
<1>3. CASE EditBody(p)
    BY <1>2, <1>3 DEF EditBody
<1>4. CASE EditFront(p)
    BY <1>2, <1>4 DEF EditFront
<1>5. CASE Break(p)
    BY <1>2, <1>5 DEF Break
<1>6. CASE Delete(p)
    <2>1. PICK next : next = [q \in DOMAIN tree \ {p} |-> tree[q]]
        OBVIOUS
    <2>2. DOMAIN next = DOMAIN tree \ {p} /\ next = [q \in DOMAIN next |-> next[q]]
        BY <2>1
    <2>3. IsFiniteSet(DOMAIN next)
        BY <1>1, <2>2, FS_RemoveElement
    <2> QED
        BY <1>6, <2>1, <2>2, <2>3, QuietEdit DEF Delete
<1>7. ASSUME NEW q \in Paths, Copy(p, q) PROVE QuietInv'
    <2>1. PICK next : next = [r \in DOMAIN tree \cup {q} |-> tree[IF r = q THEN p ELSE r]]
        OBVIOUS
    <2>2. DOMAIN next = DOMAIN tree \cup {q} /\ next = [r \in DOMAIN next |-> next[r]]
        BY <2>1
    <2>3. IsFiniteSet(DOMAIN next)
        BY <1>1, <2>2, FS_AddElement
    <2> QED
        BY <1>7, <2>1, <2>2, <2>3, QuietEdit DEF Copy
<1> QED
    BY <1>3, <1>4, <1>5, <1>6, <1>7

\* A file that is read moves from what is listed to what has been read.
LEMMA QuietLoad ==
    ASSUME QuietInv, NEW p \in listed, LoadDocument(p)
    PROVE  QuietInv'
<1>1. /\ pc = "reading" /\ listed' = listed \ {p}
      /\ UNCHANGED <<tree, pc, exit, edits, quiet>>
    BY DEF LoadDocument
<1>2. TreeIsFinite' /\ QuietVerdict' /\ QuietDeath'
    BY <1>1 DEF QuietInv, TreeIsFinite, QuietVerdict, QuietDeath
<1>3. QuietReads'
    <2>1. SUFFICES ASSUME quiet
                   PROVE  listed' \subseteq DOMAIN tree /\ HasRead(DOMAIN tree \ listed)'
        BY <1>1 DEF QuietReads
    <2>2. listed \subseteq DOMAIN tree /\ HasRead(DOMAIN tree \ listed)
        BY <1>1, <2>1 DEF QuietInv, QuietReads
    <2>3. PICK read : read = DOMAIN tree \ listed
        OBVIOUS
    <2>4. p \in DOMAIN tree /\ p \notin read /\ DOMAIN tree \ listed' = read \cup {p}
        BY <1>1, <2>2, <2>3
    <2>5. PICK form : form = tree[p].form
        OBVIOUS
    <2>6. /\ docs' = IF form = "ok"
                     THEN [q \in DOMAIN docs \cup {p} |-> IF q = p THEN tree[p] ELSE docs[q]]
                     ELSE docs
          /\ errors' = IF form # "ok" THEN errors \cup {<<p, form>>} ELSE errors
        BY <2>4, <2>5 DEF LoadDocument, Form
    <2>7. /\ docs = [q \in {q \in read : tree[q].form = "ok"} |-> tree[q]]
          /\ errors = {<<q, tree[q].form>> : q \in {q \in read : tree[q].form # "ok"}}
        BY <2>2, <2>3 DEF HasRead
    <2>8. docs' = [q \in {q \in read \cup {p} : tree[q].form = "ok"} |-> tree[q]]
        <3>1. CASE form = "ok"
            BY <2>4, <2>5, <2>6, <2>7, <3>1
        <3>2. CASE form # "ok"
            <4>1. {q \in read \cup {p} : tree[q].form = "ok"} = {q \in read : tree[q].form = "ok"}
                BY <2>5, <3>2
            <4> QED
                BY <2>6, <2>7, <3>2, <4>1
        <3> QED
            BY <3>1, <3>2
    <2>9. errors' = {<<q, tree[q].form>> : q \in {q \in read \cup {p} : tree[q].form # "ok"}}
        <3>1. CASE form # "ok"
            BY <2>5, <2>6, <2>7, <3>1
        <3>2. CASE form = "ok"
            <4>1. {q \in read \cup {p} : tree[q].form # "ok"} = {q \in read : tree[q].form # "ok"}
                BY <2>5, <3>2
            <4> QED
                BY <2>6, <2>7, <3>2, <4>1
        <3> QED
            BY <3>1, <3>2
    <2>10. HasRead(DOMAIN tree \ listed)'
        <3>1. \A q \in read \cup {p} : tree[q].form # "raises"
            BY <2>2, <2>3, <2>4 DEF HasRead, LoadDocument, Form
        <3> QED
            BY <1>1, <2>4, <2>8, <2>9, <3>1 DEF HasRead
    <2> QED
        BY <1>1, <2>2, <2>10
<1> QED
    BY <1>2, <1>3 DEF QuietInv

LEMMA QuietNext ==
    ASSUME QuietInv, [Next]_vars
    PROVE  QuietInv'
<1>1. CASE Discover
    <2>1. /\ pc' = "reading" /\ listed' = DOMAIN tree /\ docs' = NoDocs /\ errors' = {}
          /\ tree' = tree
        BY <1>1 DEF Discover
    <2>2. DOMAIN tree \ listed' = {}
        BY <2>1
    <2>3. HasRead(DOMAIN tree \ listed)'
        BY <2>1, <2>2 DEF HasRead, NoDocs
    <2> QED
        BY <2>1, <2>3 DEF QuietInv, TreeIsFinite, QuietReads, QuietVerdict, QuietDeath
<1>2. CASE Judge
    <2>1. /\ pc = "reading" /\ pc' = "judged" /\ listed = {}
          /\ UNCHANGED <<tree, listed, docs, errors, edits, quiet, gone>>
          /\ exit' = IF errors # {} THEN 2
                     ELSE IF RunChecks(docs, {e[1] : e \in errors}) # {} THEN 1 ELSE 0
        BY <1>2 DEF Judge
    <2>2. quiet => HasRead(DOMAIN tree)
        <3>1. DOMAIN tree \ listed = DOMAIN tree
            BY <2>1
        <3> QED
            BY <2>1, <3>1 DEF QuietInv, QuietReads
    <2>3. TreeIsFinite' /\ QuietReads'
        BY <2>1 DEF QuietInv, TreeIsFinite, QuietReads
    <2>4. quiet' => HasRead(DOMAIN tree)'
        BY <2>1, <2>2 DEF HasRead
    <2>5. QuietVerdict' /\ QuietDeath'
        BY <2>1, <2>4 DEF QuietVerdict, QuietDeath
    <2> QED
        BY <2>3, <2>5 DEF QuietInv
<1>3. CASE Exit
    BY <1>3 DEF Exit, QuietInv, TreeIsFinite, QuietReads, QuietVerdict, QuietDeath
<1>4. CASE UNCHANGED vars
    <2>1. UNCHANGED <<tree, pc, listed, docs, errors, exit, quiet>>
        BY <1>4 DEF vars
    <2>2. TreeIsFinite'
        BY <2>1 DEF QuietInv, TreeIsFinite
    <2>3. QuietReads'
        BY <2>1 DEF QuietInv, QuietReads, HasRead
    <2>4. QuietVerdict' /\ QuietDeath'
        BY <2>1 DEF QuietInv, QuietVerdict, QuietDeath, HasRead, FormOf
    <2> QED
        BY <2>2, <2>3, <2>4 DEF QuietInv
<1>5. ASSUME NEW p \in listed, LoadDocument(p) PROVE QuietInv'
    BY <1>5, QuietLoad
<1>6. TreeIsFinite
    BY DEF QuietInv
<1>7. ASSUME NEW p \in listed, LoadRaises(p) PROVE QuietInv'
    <2>1. /\ pc = "reading" /\ pc' = "died" /\ exit' = 1 /\ Form(p) = "raises"
          /\ UNCHANGED <<tree, quiet>>
        BY <1>7 DEF LoadRaises
    <2>2. quiet => p \in DOMAIN tree
        BY <2>1 DEF QuietInv, QuietReads
    <2>3. QuietDeath'
        BY <2>1, <2>2 DEF QuietDeath, FormOf, Form
    <2> QED
        BY <2>1, <2>3 DEF QuietInv, TreeIsFinite, QuietReads, QuietVerdict
<1> QED
    BY <1>1, <1>2, <1>3, <1>4, <1>5, <1>6, <1>7, QuietAuthor DEF Next

\* When a quiet run has judged, its exit code is the one that the tree deserves.
LEMMA QuietVerdictFollows ==
    ASSUME QuietInv, TypeOK, pc = "judged", quiet
    PROVE  /\ ~FormOf("raises")
           /\ Unparsable => exit = 2
           /\ ~Unparsable /\ CodeKeepsToLines(tree) =>
                  exit = IF Sound(tree) THEN 0 ELSE 1
<1>1. /\ docs = [p \in {p \in DOMAIN tree : tree[p].form = "ok"} |-> tree[p]]
      /\ errors = {<<p, tree[p].form>> : p \in {p \in DOMAIN tree : tree[p].form # "ok"}}
      /\ exit = IF errors # {} THEN 2
                ELSE IF RunChecks(docs, {e[1] : e \in errors}) # {} THEN 1 ELSE 0
      /\ ~FormOf("raises")
    BY DEF QuietInv, QuietVerdict, HasRead, FormOf
<1>2. errors # {} <=> Unparsable
    BY <1>1 DEF Unparsable
<1>3. ASSUME ~Unparsable, CodeKeepsToLines(tree)
      PROVE  exit = IF Sound(tree) THEN 0 ELSE 1
    <2>1. {p \in DOMAIN tree : tree[p].form = "ok"} = DOMAIN tree
        BY <1>3 DEF Unparsable
    <2>2. docs = [p \in DOMAIN tree |-> tree[p]]
        BY <1>1, <2>1, Zenon
    <2>3. docs = tree
        BY <2>2, Zenon DEF QuietInv, TreeIsFinite
    <2>4. {e[1] : e \in errors} = {} /\ errors = {}
        BY <1>2, <1>3
    <2>5. PICK ds : ds = tree
        OBVIOUS
    <2>6. AllParsed(ds)
        BY <1>3, <2>5 DEF AllParsed, QuietInv, TreeIsFinite, TypeOK, Unparsable
    <2>7. RunChecks(ds, {}) = {} <=> Sound(ds)
        BY <1>3, <2>5, <2>6, ChecksAreExact
    <2>8. exit = IF RunChecks(ds, {}) # {} THEN 1 ELSE 0
        BY <1>1, <2>3, <2>4, <2>5
    <2> QED
        BY <2>5, <2>7, <2>8
<1> QED
    BY <1>1, <1>2, <1>3

\* For any tree: a run of sot_lint during which nobody writes dies with 1 when a file
\* raises, exits with 2 when a file did not parse, and otherwise, in a tree whose code
\* spans end on their lines, with 0 when the SoT is complete and with 1 when it is not
\* (rule sot-readiness; parser.py, checks.py, registry.py, cli.main).
THEOREM VerdictsAreExact == Spec => []QuietVerdictIsExact
<1>1. Init => QuietInv
    BY QuietInit
<1>2. QuietInv /\ [Next]_vars => QuietInv'
    BY QuietNext
<1>3. TypeOK /\ QuietInv => QuietVerdictIsExact
    <2>1. SUFFICES ASSUME TypeOK, QuietInv, Over, quiet
                   PROVE  IF FormOf("raises") THEN pc = "died" /\ exit = 1
                          ELSE IF Unparsable THEN exit = 2
                          ELSE CodeKeepsToLines(tree) => exit = IF Sound(tree) THEN 0 ELSE 1
        BY DEF QuietVerdictIsExact, CodeKeepsToLines
    <2>2. CASE pc = "died"
        BY <2>1, <2>2 DEF QuietInv, QuietDeath
    <2>3. CASE pc = "judged"
        BY <2>1, <2>3, QuietVerdictFollows
    <2> QED
        BY <2>1, <2>2, <2>3 DEF Over
<1> QED
    BY <1>1, <1>2, <1>3, Typing, PTL DEF Spec

=============================================================================
