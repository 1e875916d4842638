------------------------------- MODULE Amounts -------------------------------
(***************************************************************************)
(* Reading a printed amount (parse_money in normalization.py).             *)
(*                                                                         *)
(* The text, after its currency and spaces are gone, is groups of digits   *)
(* and the marks between them: [groups, marks, negative].  The result is   *)
(* [int, frac, negative], its digits before and after the decimal point,   *)
(* or None.                                                                *)
(***************************************************************************)
EXTENDS Integers, SequencesExt

CONSTANT None

Numeral(groups, marks, negative) == [groups |-> groups, marks |-> marks, negative |-> negative]
Amount(int, frac, negative) == [int |-> int, frac |-> frac, negative |-> negative]

Threes(groups) == \A i \in 2 .. Len(groups) : Len(groups[i]) = 3
Whole(n) == Amount(FlattenSeq(n.groups), <<>>, n.negative)

\* The last mark is the decimal point; the others only group.  Decimal() takes
\* one point with digits on both sides.
Pointed(n) == Amount(FlattenSeq(Front(n.groups)), Last(n.groups), n.negative)

parse_money(n) ==
    LET marks == ToSet(n.marks)
        once(m) == Cardinality({i \in DOMAIN n.marks : n.marks[i] = m}) = 1
    IN  IF n.groups[1] = <<>> THEN None
        ELSE IF n.marks = <<>> THEN Whole(n)
        ELSE IF marks = {",", "."}
        THEN IF once(Last(n.marks)) /\ Last(n.groups) # <<>> THEN Pointed(n) ELSE None
        ELSE IF Len(n.marks) = 1 /\ (n.marks[1] = "." \/ Len(n.groups[2]) \in {1, 2})
        THEN IF n.groups[2] = <<>> THEN None ELSE Pointed(n)
        ELSE IF Threes(n.groups) THEN Whole(n) ELSE None

-----------------------------------------------------------------------------
(* How an amount is printed, for the round trip *)

\* Digits in groups of three from the right.
Thousands(int) ==
    LET n == (Len(int) + 2) \div 3
        first == Len(int) - 3 * (n - 1)
    IN  [i \in 1 .. n |-> IF i = 1 THEN SubSeq(int, 1, first)
                          ELSE SubSeq(int, first + 3 * i - 5, first + 3 * i - 3)]

\* The conventions: plain, 1,234.56, 1.234,56 -- with the fraction if there is one.
Printed(a, group, point) ==
    LET groups == IF group = "none" THEN <<a.int>> ELSE Thousands(a.int)
        marks == [i \in 1 .. Len(groups) - 1 |-> group]
    IN  IF a.frac = <<>> THEN Numeral(groups, marks, a.negative)
        ELSE Numeral(Append(groups, a.frac), Append(marks, point), a.negative)
=============================================================================
