------------------------------ MODULE Document ------------------------------
(***************************************************************************)
(* The words of a document and what every extraction rule builds on them:  *)
(* text lines, visual rows, evidence and the choice between candidates     *)
(* (layout.py, table_layout.py, evidence.py, candidates.py).               *)
(*                                                                         *)
(* A word is a record with its text (a token), its source, its reading     *)
(* order (page, block, line, num) and its box.  Coordinates are            *)
(* thousandths of the page.                                                *)
(***************************************************************************)
EXTENDS Integers, SequencesExt

CONSTANTS None, MinRowTolerance       \* 0.004 of the page: 4

\* Lexicographic order of two keys, and the stable sort by such a key.
Precedes(a, b) ==
    \E i \in DOMAIN a : a[i] < b[i] /\ \A j \in 1 .. i - 1 : a[j] = b[j]
SortBy(s, Key(_)) == SortSeq(s, LAMBDA a, b : Precedes(Key(a), Key(b)))

Apply(F(_), s) == [i \in DOMAIN s |-> F(s[i])]
Gap(a, b) == IF a < b THEN b - a ELSE a - b

\* A set of natural numbers in increasing order.
Ascending(S) == IF S = {} THEN <<>> ELSE SelectSeq([i \in 1 .. Max(S) + 1 |-> i - 1], LAMBDA i : i \in S)

\* The pages of a document, in order.
Pages(words) == Ascending({w.page : w \in ToSet(words)})
OnPage(s, p) == SelectSeq(s, LAMBDA w : w.page = p)

union_bbox(words) ==
    [x0 |-> Min({w.x0 : w \in ToSet(words)}), y0 |-> Min({w.y0 : w \in ToSet(words)}),
     x1 |-> Max({w.x1 : w \in ToSet(words)}), y1 |-> Max({w.y1 : w \in ToSet(words)})]

Texts(words) == Apply(LAMBDA w : w.text, words)

\* A label is a phrase, a sequence of tokens.  Where a text spells one of some
\* phrases, as index ranges; whether it starts with one; and what follows the
\* first of them, the longest in that place (None without one).
Occurrences(text, phrases) ==
    {v \in (DOMAIN text) \X (DOMAIN text) : SubSeq(text, v[1], v[2]) \in phrases}
StartsWith(text, phrases) == \E p \in phrases : IsPrefix(p, text)
RestAfter(text, phrases) ==
    LET found == Occurrences(text, phrases)
        first == Min({v[1] : v \in found})
        end == Max({v[2] : v \in {u \in found : u[1] = first}})
    IN  IF found = {} THEN None ELSE SubSeq(text, end + 1, Len(text))

-----------------------------------------------------------------------------
(* Lines of text, as the text source numbered them *)

LineKey(w) == <<w.page, w.block, w.line>>

TextLine(words) ==
    LET ordered == SortBy(words, LAMBDA w : <<w.num, w.x0>>)
    IN  [page |-> words[1].page, words |-> ordered, bbox |-> union_bbox(words)]

reconstruct_lines(words) ==
    LET first == {i \in DOMAIN words : \A j \in 1 .. i - 1 : LineKey(words[j]) # LineKey(words[i])}
        keys == SortBy(Apply(LAMBDA i : LineKey(words[i]), Ascending(first)), LAMBDA k : k)
        lines == Apply(LAMBDA k : TextLine(SelectSeq(words, LAMBDA w : LineKey(w) = k)), keys)
    IN  SortBy(lines, LAMBDA l : <<l.page, l.bbox.y0, l.bbox.x0>>)

-----------------------------------------------------------------------------
(* Visual rows, from geometry alone *)

\* Twice the median of a nonempty sequence of integers.
Median2(s) ==
    LET t == SortSeq(s, <)
    IN  t[(Len(s) + 1) \div 2] + t[Len(s) \div 2 + 1]

CenterX2(w) == w.x0 + w.x1
CenterY2(w) == w.y0 + w.y1
Height(w) == w.y1 - w.y0

SubstantialOverlap(w, row) ==
    LET box == union_bbox(row)
        smaller == Min({Height(w), Height(box)})
        overlap == Max({0, Min({w.y1, box.y1}) - Max({w.y0, box.y0})})
    IN  smaller > 0 /\ 2 * overlap >= smaller

\* Five times four times the tolerance max(0.004, 0.6 * median height).
Tolerance20(words) == Max({20 * MinRowTolerance, 6 * Median2(Apply(Height, words))})

\* A word joins the row being built when its centre is within the tolerance of
\* the row's median centre, or when it overlaps the row substantially.
JoinsRow(w, row, tolerance20) ==
    \/ 5 * Gap(2 * CenterY2(w), Median2(Apply(CenterY2, row))) <= tolerance20
    \/ SubstantialOverlap(w, row)

GroupStep(rows, w, tolerance20) ==
    IF rows # <<>> /\ JoinsRow(w, Last(rows), tolerance20)
    THEN Front(rows) \o <<Append(Last(rows), w)>>
    ELSE Append(rows, <<w>>)

VisualRow(words) ==
    LET box == union_bbox(words)
    IN  [page |-> words[1].page, y0 |-> box.y0, y1 |-> box.y1,
         words |-> SortBy(words, LAMBDA w : <<w.x0, w.num>>)]

\* Mutant: the words are grouped in the order in which they come.
PageRowsAsGiven(words) ==
    LET tolerance20 == Tolerance20(words)
        step(rows, w) == GroupStep(rows, w, tolerance20)
    IN  Apply(VisualRow, FoldLeft(step, <<>>, words))
PageRows(words) ==
    LET ordered == SortBy(words, LAMBDA w : <<CenterY2(w), w.x0>>)
        tolerance20 == Tolerance20(words)
        step(rows, w) == GroupStep(rows, w, tolerance20)
    IN  Apply(VisualRow, FoldLeft(step, <<>>, ordered))

reconstruct_visual_rows(words) ==
    LET rows == FlattenSeq(Apply(LAMBDA p : PageRows(OnPage(words, p)), Pages(words)))
    IN  SortBy(rows, LAMBDA r : <<r.page, r.y0, r.words[1].x0>>)

-----------------------------------------------------------------------------
(* Evidence and extracted fields *)

\* One span per page and text source.
evidence_from_words(words) ==
    {LET some == SelectSeq(words, LAMBDA w : <<w.page, w.source>> = k)
     IN  [page |-> k[1], source |-> k[2], bbox |-> union_bbox(some),
          text |-> Texts(SortBy(some, LAMBDA w : <<CenterY2(w), w.x0, w.num>>))]
       : k \in {<<w.page, w.source>> : w \in ToSet(words)}}

\* A word belongs to evidence when its centre lies in one of its spans.
InEvidence(w, evidence) ==
    \E s \in evidence :
        /\ s.page = w.page /\ s.source = w.source
        /\ 2 * s.bbox.x0 <= CenterX2(w) /\ CenterX2(w) <= 2 * s.bbox.x1
        /\ 2 * s.bbox.y0 <= CenterY2(w) /\ CenterY2(w) <= 2 * s.bbox.y1

\* The first span of some evidence, from the top.
FirstSpan(evidence) ==
    CHOOSE s \in evidence :
        \A t \in evidence : ~Precedes(<<t.page, t.bbox.y0, t.bbox.x0>>, <<s.page, s.bbox.y0, s.bbox.x0>>)

Field(status, value, evidence, rule) ==
    [status |-> status, value |-> value, evidence |-> evidence, rule |-> rule]
MissingField == Field("MISSING", None, {}, None)

\* A candidate is a value with its comparison key, its evidence, the rule that
\* found it and that rule's priority.
Cand(value, key, evidence, rule, priority) ==
    [value |-> value, key |-> key, evidence |-> evidence, rule |-> rule, priority |-> priority]

\* Only the candidates of the highest priority count; they must agree on the key.
resolve_candidates(cands) ==
    LET highest == Max({c.priority : c \in ToSet(cands)})
        top == SelectSeq(cands, LAMBDA c : c.priority = highest)
        evidence == UNION {c.evidence : c \in ToSet(top)}
    IN  IF cands = <<>> THEN MissingField
        ELSE IF \E c \in ToSet(top) : c.key # top[1].key
        THEN Field("AMBIGUOUS", None, evidence, "ambiguous")
        ELSE Field("EXTRACTED", top[1].value, evidence, top[1].rule)
=============================================================================
