------------------------------ MODULE SotText ------------------------------
(***************************************************************************)
(* The text of a SoT document as sot_lint sees it (sot_lint/parser.py): a  *)
(* body is a sequence of lines, a line a sequence of atoms, and the two    *)
(* views of a body mask its code.  What an atom spells is left out; what   *)
(* the checks look for is its kind k, with a value v or a length n.        *)
(***************************************************************************)
EXTENDS Integers, Sequences, SequencesExt

Atom(k, v, n) == [k |-> k, v |-> v, n |-> n]

Id(v)   == Atom("id", v, 0)        \* an item id, as in FR-1
Ref(v)  == Atom("ref", v, 0)       \* a prefixed id, as in topic:FR-1
Word    == Atom("word", "", 0)     \* text with a letter or a digit
Banned  == Atom("banned", "", 0)   \* one of BANNED_WORDS
Hole    == Atom("hole", "", 0)     \* {{...}}
Tick(n) == Atom("tick", "", n)        \* a run of n backticks; no two are neighbours
Tilde(n) == Atom("tilde", "", n)
Box     == Atom("box", "", 0)      \* the "- [ ]" a line starts with
Heading(level, title) == Atom("heading", title, level)   \* of level 1 or 2
Blank   == Atom("blank", "", 0)        \* what masking leaves

\* An atom of a body, as one of the operators above makes it, and a line of them.
IsAtom(a) ==
    /\ a = Atom(a.k, a.v, a.n) /\ a.n \in Nat
    /\ a.k = "id" => a.n = 0
    /\ a.k = "box" => a = Box

IsLine(line) == line \in Seq(ToSet(line)) /\ \A i \in DOMAIN line : IsAtom(line[i])

----------------------------------------------------------------------------
\* Fences

\* Mutant: a backtick fence may have backticks in its info string.
OpensFenceWithTicks(line) ==
    line # <<>> /\ line[1].k \in {"tick", "tilde"} /\ line[1].n >= 3

OpensFence(line) ==
    /\ line # <<>> /\ line[1].k \in {"tick", "tilde"} /\ line[1].n >= 3
    /\ line[1].k = "tick" => \A i \in 2 .. Len(line) : line[i].k # "tick"

ClosesFence(line, fence) ==
    Len(line) = 1 /\ line[1].k = fence.k /\ line[1].n >= fence.n

\* Mutant: only a block that is closed is code.
MaskClosedFences(lines) ==
    [l \in DOMAIN lines |->
        IF \E o \in 1 .. l, c \in l .. Len(lines) :
               o < c /\ OpensFence(lines[o]) /\ ClosesFence(lines[c], lines[o][1])
        THEN <<>> ELSE lines[l]]

\* What a line makes of the open fence; Blank is outside.
NextFence(fence, line) ==
    IF fence = Blank THEN IF OpensFence(line) THEN line[1] ELSE Blank
    ELSE IF ClosesFence(line, fence) THEN Blank ELSE fence

\* The open fence after each number of lines.
Fences(lines) ==
    LET fence[l \in 0 .. Len(lines)] ==
            IF l = 0 THEN Blank ELSE NextFence(fence[l - 1], lines[l])
    IN  fence

\* A line of a block, its two fences included, is emptied.
MaskFences(lines) ==
    LET fence == Fences(lines)
    IN  [l \in DOMAIN lines |->
            IF fence[l - 1] = Blank /\ fence[l] = Blank THEN lines[l] ELSE <<>>]

----------------------------------------------------------------------------
\* Inline code

\* The runs that can close the run at i.
Closers(line, i) ==
    {j \in i + 1 .. Len(line) : line[j].k = "tick" /\ line[j].n = line[i].n}

Least(S) == CHOOSE x \in S : \A y \in S : x <= y

\* From left to right, every run outside a span opens one if some run closes it; the
\* value is the end of the last span.
NextSpanEnd(end, line, i) ==
    IF i > end /\ line[i].k = "tick" /\ Closers(line, i) # {}
    THEN Least(Closers(line, i)) ELSE end

SpanEnds(line) ==
    LET end[i \in 0 .. Len(line)] ==
            IF i = 0 THEN 0 ELSE NextSpanEnd(end[i - 1], line, i)
    IN  end

MaskInlineCode(line) ==
    LET end == SpanEnds(line)
    IN  [i \in DOMAIN line |-> IF i <= end[i] THEN Blank ELSE line[i]]

BodyViewA(body) == MaskFences(body)
BodyViewB(body) == [l \in DOMAIN body |-> MaskInlineCode(BodyViewA(body)[l])]

----------------------------------------------------------------------------
\* Code, as CommonMark defines it (parser.py's docstrings name it for both maskings): of
\* the candidate spans <<first, last>>, the set that overlaps nowhere and in which every
\* candidate starts inside a member.  A paragraph ends at an empty line, a fence, a
\* heading or a box.

Spans(candidates) ==
    CHOOSE B \in SUBSET candidates :
        /\ \A b, c \in B : b = c \/ b[2] < c[1] \/ c[2] < b[1]
        /\ \A c \in candidates : \E b \in B : c[1] \in b[1] .. b[2]

Inside(spans) == UNION {b[1] .. b[2] : b \in spans}

\* The lines of fenced blocks; an unclosed block runs to the end.
FencedLines(body) ==
    LET Close(o) == {c \in o + 1 .. Len(body) : ClosesFence(body[c], body[o][1])}
        openers  == {o \in DOMAIN body : body[o] # <<>> /\ body[o][1].k \in {"tick", "tilde"}
                        /\ body[o][1].n > 2
                        /\ ~(body[o][1].k = "tick"
                             /\ \E i \in 2 .. Len(body[o]) : body[o][i].k = "tick")}
    IN  Inside(Spans({<<o, IF Close(o) = {} THEN Len(body) ELSE Least(Close(o))>> :
                          o \in openers}))

\* The places of a body in reading order: line l's atoms are those between Place(body, l, 0)
\* and Place(body, l + 1, 0).
Width(body) == 1 + Max({0} \cup {Len(body[l]) : l \in DOMAIN body})
Place(body, l, a) == l * Width(body) + a

\* Line l goes on with the paragraph of the line before it.
Continues(body, l) ==
    /\ {l - 1, l} \subseteq DOMAIN body \ FencedLines(body)
    /\ body[l - 1] # <<>> /\ body[l - 1][1].k # "heading"
    /\ body[l] # <<>> /\ body[l][1].k \notin {"heading", "box"}

InParagraph(body, l, m) == \A k \in l + 1 .. m : Continues(body, k)

\* The runs <<line, atom>> of backticks outside fenced blocks.
Runs(body) ==
    {r \in UNION {{l} \X DOMAIN body[l] : l \in DOMAIN body \ FencedLines(body)} :
        body[r[1]][r[2]].k = "tick"}

\* Where a run can be closed: by a later run of its length in its paragraph.
Closing(body, r) ==
    {Place(body, s[1], s[2]) : s \in {s \in Runs(body) :
        /\ Place(body, r[1], r[2]) < Place(body, s[1], s[2])
        /\ body[s[1]][s[2]].n = body[r[1]][r[2]].n
        /\ InParagraph(body, r[1], s[1])}}

\* The code spans, which may run over line ends.
CodeSpans(body) ==
    Spans({<<Place(body, r[1], r[2]), Least(Closing(body, r))>> :
              r \in {r \in Runs(body) : Closing(body, r) # {}}})

\* The atoms of a body outside its code, by line.
ProseOf(body) ==
    LET code == Inside(CodeSpans(body))
        open == DOMAIN body \ FencedLines(body)
    IN  {la \in UNION {{l} \X DOMAIN body[l] : l \in open} :
            Place(body, la[1], la[2]) \notin code}

\* Every code span ends on the line it starts on.
KeepsToLines(body) ==
    \A s \in CodeSpans(body) : \E l \in DOMAIN body :
        Place(body, l, 0) < s[1] /\ s[2] < Place(body, l + 1, 0)

=============================================================================
