------------------------------ MODULE Grounding ------------------------------
(***************************************************************************)
(* Binding what a vision model proposes to the words of the page           *)
(* (hybrid/grounding.py, supporting_quote_grounding.py).                   *)
(*                                                                         *)
(* A document is [words, pages, ocr]: its words, the number of its pages   *)
(* and the pages read by OCR.  A candidate is [raw, page, quote]: the      *)
(* proposed value and the evidence quote as sequences of tokens, or None.  *)
(***************************************************************************)
EXTENDS Document

CONSTANTS
    Parts(_),             \* the alphanumeric parts of a token
    NormalValue(_, _),    \* a field's normalisation of a text (tokens), or None
    Similarity(_, _),     \* rapidfuzz ratio of two texts (parts), 0..100
    DigitRuns(_),         \* the digit runs of a text (parts)
    DigitFields,          \* the fields whose digits must be quoted unchanged
    FuzzyThreshold        \* 92

PartsOf(tokens) == FlattenSeq(Apply(Parts, tokens))

Grounded(reason, value, evidence) ==
    [reason |-> reason, value |-> value, evidence |-> evidence]
IsGrounded(g) == g.reason \in {"GROUNDED_EXACT", "GROUNDED_FUZZY"}

ReadingOrder(words) == SortBy(words, LAMBDA w : <<w.y0, w.x0, w.block, w.line>>)

\* The parts of the page, and for each the index of the word it belongs to.
_page_stream(words) == PartsOf(Texts(words))
Owners(words) ==
    FlattenSeq([i \in DOMAIN words |-> Apply(LAMBDA p : i, Parts(words[i].text))])

\* Mutant: a quote may start or end inside a word.
_word_boundary_any(owners, start, length) == TRUE
_word_boundary_aligned(owners, start, length) ==
    /\ start = 1 \/ owners[start - 1] # owners[start]
    /\ start + length - 1 = Len(owners) \/ owners[start + length - 1] # owners[start + length]

\* The places <<start, length>> where the page repeats a quote to the letter.
ExactPlaces(stream, owners, quote) ==
    {v \in (1 .. Len(stream) - Len(quote) + 1) \X {Len(quote)} :
        /\ SubSeq(stream, v[1], v[1] + v[2] - 1) = quote
        /\ _word_boundary_aligned(owners, v[1], v[2])}

\* The best places that resemble it closely enough, one part more or less.
FuzzyPlaces(stream, owners, quote, threshold) ==
    LET score(v) == Similarity(quote, SubSeq(stream, v[1], v[1] + v[2] - 1))
        scored == {v \in (DOMAIN stream) \X (Max({1, Len(quote) - 1}) .. Len(quote) + 1) :
                     /\ v[1] + v[2] - 1 <= Len(stream)
                     /\ _word_boundary_aligned(owners, v[1], v[2])
                     /\ score(v) >= threshold}
    IN  {v \in scored : \A u \in scored : score(u) <= score(v)}

\* The words of a place, from the owner of its first part to that of its last.
Quoted(words, owners, v) == SubSeq(words, owners[v[1]], owners[v[1] + v[2] - 1])

\* The value must be the reading of exactly one run of whole words of the place.
_bind_value(field, quoted, value, reason) ==
    LET runs == {v \in (DOMAIN quoted) \X (DOMAIN quoted) :
                   v[1] <= v[2] /\ NormalValue(field, Texts(SubSeq(quoted, v[1], v[2]))) = value}
        v == CHOOSE u \in runs : TRUE
    IN  IF runs = {} THEN Grounded("VALUE_NOT_FOUND_IN_QUOTE", value, {})
        ELSE IF Cardinality(runs) > 1 THEN Grounded("VALUE_NOT_UNIQUE_IN_QUOTE", value, {})
        ELSE Grounded(reason, value, evidence_from_words(SubSeq(quoted, v[1], v[2])))

\* The checks that precede the search; None when the search may start.
Refused(field, cand, doc) ==
    LET value == NormalValue(field, cand.raw)
    IN  IF cand.raw = None THEN Grounded("QUOTE_NOT_FOUND", None, {})
        ELSE IF value = None THEN Grounded("VALUE_NORMALIZATION_FAILED", None, {})
        ELSE IF cand.page = None \/ cand.page >= doc.pages
        THEN Grounded("PAGE_OUT_OF_RANGE", value, {})
        ELSE IF cand.quote = None \/ PartsOf(cand.quote) = <<>>
        THEN Grounded("QUOTE_NOT_FOUND", value, {})
        ELSE None

\* Where the quote stands: a reason and the place, from the exact search first.
Locate(quote, words, threshold) ==
    LET stream == _page_stream(words)
        owners == Owners(words)
        exact == ExactPlaces(stream, owners, quote)
        fuzzy == FuzzyPlaces(stream, owners, quote, threshold)
        one(S) == CHOOSE v \in S : TRUE
    IN  IF Cardinality(exact) > 1 THEN [reason |-> "QUOTE_NOT_UNIQUE"]
        ELSE IF exact # {} THEN [reason |-> "GROUNDED_EXACT", at |-> one(exact)]
        ELSE IF fuzzy = {} THEN [reason |-> "QUOTE_NOT_FOUND"]
        ELSE IF Cardinality(fuzzy) > 1 THEN [reason |-> "QUOTE_NOT_UNIQUE"]
        ELSE [reason |-> "GROUNDED_FUZZY", at |-> one(fuzzy)]

ground_candidate(field, cand, doc) ==
    LET refused == Refused(field, cand, doc)
        value == NormalValue(field, cand.raw)
        words == ReadingOrder(OnPage(doc.words, cand.page))
        quote == PartsOf(cand.quote)
        place == Locate(quote, words, FuzzyThreshold)
        found == SubSeq(_page_stream(words), place.at[1], place.at[1] + place.at[2] - 1)
    IN  IF refused # None THEN refused
        ELSE IF "at" \notin DOMAIN place THEN Grounded(place.reason, value, {})
        ELSE IF /\ place.reason = "GROUNDED_FUZZY" /\ field \in DigitFields
                /\ DigitRuns(quote) # DigitRuns(found)
        THEN Grounded("QUOTE_DIGITS_MISMATCH", value, {})
        ELSE _bind_value(field, Quoted(words, Owners(words), place.at), value, place.reason)

\* Supporting documents keep the older locator: the whole quote is the evidence.
locate_supporting_quote(field, cand, doc, threshold) ==
    LET refused == Refused(field, cand, doc)
        value == NormalValue(field, cand.raw)
        words == ReadingOrder(OnPage(doc.words, cand.page))
        owners == Owners(words)
        place == Locate(PartsOf(cand.quote), words, threshold)
        owned == {owners[i] : i \in place.at[1] .. place.at[1] + place.at[2] - 1}
    IN  IF refused # None THEN refused
        ELSE IF "at" \notin DOMAIN place THEN Grounded(place.reason, value, {})
        ELSE Grounded(place.reason, value,
                      evidence_from_words(Apply(LAMBDA i : words[i], Ascending(owned))))
=============================================================================
