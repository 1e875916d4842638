-------------------------- MODULE ReviewQueue_proofs --------------------------
(***************************************************************************)
(* Proofs about the paged lists, for any number of rows, readers and       *)
(* pages: what a query answers, and what each step leaves of a walk.       *)
(***************************************************************************)
EXTENDS ReviewQueue, FiniteSetTheorems, WellFoundedInduction, TLAPS

-----------------------------------------------------------------------------
(* The order of the lists *)

\* A set of natural numbers that is not empty has a least element.
LEMMA Least ==
    ASSUME NEW T \in SUBSET Nat, T # {}
    PROVE  \E x \in T : \A y \in T : x <= y
<1>1. PICK x \in T : \A y \in T : ~(<<y, x>> \in OpToRel(<, Nat))
    BY Zenon, WFMin, NatLessThanWellFounded
<1>2. ASSUME NEW y \in T PROVE x <= y
    <2>1. x \in Nat /\ y \in Nat
        OBVIOUS
    <2>2. y < x => <<y, x>> \in OpToRel(<, Nat)
        BY <2>1 DEF OpToRel
    <2>3. ~(y < x)
        BY Zenon, <1>1, <2>2
    <2> QED BY <2>1, <2>3
<1> QED BY <1>2

\* What the query needs of the rows.
Dated == \A c \in Case : c \in Nat /\ rows[c].opened \in Nat

\* Two rows are about one case, or one of them is newer.
LEMMA NewerTotal ==
    ASSUME Dated, NEW c \in Case, NEW d \in Case
    PROVE  /\ ~Newer(c, c)
           /\ ~Newer(d, c) => Newer(c, d) \/ c = d
<1>1. c \in Nat /\ d \in Nat /\ rows[c].opened \in Nat /\ rows[d].opened \in Nat
    BY Zenon DEF Dated
<1> QED BY <1>1 DEF Newer

\* Among some rows there is one than which none is older.
LEMMA Oldest ==
    ASSUME Dated, NEW S, S # {}, \A p \in S : p[1] \in Case
    PROVE  \E m \in S : \A p \in S : ~Newer(m[1], p[1])
<1> DEFINE T == {rows[p[1]].opened : p \in S}
<1>1. T \in SUBSET Nat /\ T # {}
    BY Zenon DEF Dated
<1>2. PICK o \in T : \A y \in T : o <= y
    BY Zenon, <1>1, Least
<1> DEFINE U == {p[1] : p \in {q \in S : rows[q[1]].opened = o}}
<1>3. U \in SUBSET Nat /\ U # {}
    BY Zenon DEF Dated
<1>4. PICK u \in U : \A y \in U : u <= y
    BY Zenon, <1>3, Least
<1>5. PICK m \in S : m[1] = u /\ rows[m[1]].opened = o
    BY Zenon
<1>6. ASSUME NEW p \in S PROVE ~Newer(m[1], p[1])
    <2>1. /\ p[1] \in Nat /\ m[1] \in Nat
          /\ rows[p[1]].opened \in Nat /\ rows[m[1]].opened \in Nat
        BY Zenon DEF Dated
    <2>2. rows[m[1]].opened <= rows[p[1]].opened
        BY Zenon, <1>2, <1>5
    <2>3. rows[p[1]].opened = rows[m[1]].opened => m[1] <= p[1]
        BY Zenon, <1>4, <1>5
    <2> QED BY SMTT(30), <2>1, <2>2, <2>3 DEF Newer
<1> QED BY Zenon, <1>6

\* An enumeration of rows in the order of the list.
Listing(s, S) == s \in SetToSeqs(S) /\ InOrder(s)

\* A finite set of rows has such an enumeration.
LEMMA ListingExists ==
    ASSUME Dated, NEW S, IsFiniteSet(S), \A p \in S : p[1] \in Case
    PROVE  \E s : Listing(s, S)
<1> DEFINE Bad(n, R) == /\ IsFiniteSet(R) /\ Cardinality(R) = n
                        /\ \A p \in R : p[1] \in Case
                        /\ \A s : ~Listing(s, R)
           T == {n \in Nat : \E R : Bad(n, R)}
<1> SUFFICES ASSUME \A s : ~Listing(s, S) PROVE FALSE
    BY Zenon
<1>1. T \in SUBSET Nat /\ Cardinality(S) \in T
    BY Zenon, FS_CardinalityType
<1>2. PICK n \in T : \A y \in T : n <= y
    BY Zenon, <1>1, Least
<1>3. PICK R : Bad(n, R)
    BY Zenon
<1>4. R # {}
    <2> SUFFICES ASSUME R = {} PROVE FALSE
        BY Zenon
    <2>1. 1..Cardinality(R) = {}
        <3>1. Cardinality(R) = 0
            BY Zenon, FS_EmptySet
        <3> QED BY <3>1
    <2>2. PICK s : s = [i \in {} |-> 0]
        BY Zenon
    <2>3. DOMAIN s = {} /\ s \in [{} -> R]
        BY Zenon, <2>2
    <2>4. Listing(s, R)
        BY Zenon, <2>1, <2>3 DEF Listing, SetToSeqs, InOrder
    <2> QED BY Zenon, <1>3, <2>4
<1>5. PICK m \in R : \A p \in R : ~Newer(m[1], p[1])
    BY Zenon, <1>3, <1>4, Oldest
<1>6. PICK Q : Q = R \ {m}
    BY Zenon
<1>7. /\ IsFiniteSet(Q) /\ Cardinality(R) \in Nat /\ Cardinality(Q) \in Nat
      /\ Cardinality(Q) = Cardinality(R) - 1
    BY SMTT(30), <1>3, <1>6, FS_RemoveElement, FS_CardinalityType
<1>8. Cardinality(Q) \notin T
    <2>1. Cardinality(R) = n
        BY Zenon, <1>3
    <2> QED BY <1>2, <1>7, <2>1
<1>9. PICK s : Listing(s, Q)
    BY Zenon, <1>3, <1>6, <1>7, <1>8
<1>10. PICK k \in Nat : k = Cardinality(Q) /\ k + 1 = Cardinality(R)
    BY <1>7
<1>11. /\ s \in [1..k -> Q] /\ \A i, j \in 1..k : i # j => s[i] # s[j]
       /\ \A i, j \in 1..k : i < j => ~Newer(s[j][1], s[i][1])
    BY Zenon, <1>9, <1>10 DEF Listing, SetToSeqs, InOrder
<1>12. PICK t : t = [i \in 1..(k + 1) |-> IF i <= k THEN s[i] ELSE m]
    BY Zenon
<1>13. \A i \in 1..(k + 1) : (i \in 1..k /\ i <= k) \/ (i = k + 1 /\ ~(i <= k))
    OBVIOUS
<1>14. /\ DOMAIN t = 1..(k + 1) /\ \A i \in 1..k : i \in 1..(k + 1) /\ t[i] = s[i]
       /\ t[k + 1] = m
    <2>1. k + 1 \in 1..(k + 1) /\ ~(k + 1 <= k) /\ \A i \in 1..k : i \in 1..(k + 1) /\ i <= k
        OBVIOUS
    <2> QED BY Zenon, <1>12, <2>1
<1>15. t \in [1..(k + 1) -> R]
    BY Zenon, <1>6, <1>11, <1>12, <1>13
<1>16. ASSUME NEW i \in 1..(k + 1), NEW j \in 1..(k + 1), i # j PROVE t[i] # t[j]
    BY Zenon, <1>6, <1>11, <1>13, <1>14, <1>16
<1>17. ASSUME NEW i \in 1..(k + 1), NEW j \in 1..(k + 1), i < j
       PROVE  ~Newer(t[j][1], t[i][1])
    <2>1. i \in 1..k /\ (j \in 1..k \/ j = k + 1)
        BY <1>17
    <2>2. s[i] \in R
        BY Zenon, <1>6, <1>11, <2>1
    <2> QED BY Zenon, <1>5, <1>11, <1>14, <1>17, <2>1, <2>2
<1>18. Listing(t, R)
    BY Zenon, <1>10, <1>14, <1>15, <1>16, <1>17 DEF Listing, SetToSeqs, InOrder
<1> QED BY Zenon, <1>3, <1>18

\* s is the n elements of S, each once.
Enumerates(n, s, S) ==
    /\ s \in [1..n -> S]
    /\ \A i, j \in 1..n : i # j => s[i] # s[j]
    /\ \A p \in S : \E i \in 1..n : s[i] = p

\* An enumeration leaves no row out.
LEMMA ListingComplete ==
    ASSUME NEW S, IsFiniteSet(S), NEW s, Listing(s, S)
    PROVE  \E n \in Nat : Enumerates(n, s, S)
<1>1. PICK n \in Nat : n = Cardinality(S)
    BY Zenon, FS_CardinalityType
<1>2. s \in [1..n -> S] /\ \A i, j \in 1..n : i # j => s[i] # s[j]
    BY Zenon, <1>1 DEF Listing, SetToSeqs
<1>3. s \in Injection(1..n, S)
    BY Zenon, <1>2 DEF Injection, IsInjective
<1>4. Cardinality(1..n) = n
    BY FS_Interval
<1>5. s \in Surjection(1..n, S)
    BY Zenon, <1>1, <1>3, <1>4, FS_Injection
<1> QED BY Zenon, <1>2, <1>5 DEF Surjection, Enumerates

\* What the query needs of the rows, and of the filter a page is asked with.
Listable ==
    /\ DOMAIN rows = Case /\ Dated
    /\ \A c \in Case : IsFiniteSet(rows[c].triggers) /\ EachReasonOnce(rows[c].triggers)

\* The rows of a finite table that a query finds are finite.
LEMMA FoundFinite ==
    ASSUME Listable, NEW f, NEW cursor
    PROVE  IsFiniteSet(Found(f, cursor))
<1> DEFINE C == {d \in Case : Selected(rows[d], f) /\ Past(d, cursor)}
           g == [c \in C |-> RowsOf(c, f)]
           G == {RowsOf(c, f) : c \in C}
<1>1. IsFiniteSet(C)
    BY Zenon, CaseAssumption, FS_Subset
<1>2. g \in Surjection(C, G)
    <2>1. g \in [C -> G] /\ \A t \in G : \E c \in C : g[c] = t
        BY Zenon
    <2> QED BY Zenon, <2>1 DEF Surjection
<1> HIDE DEF g
<1>3. IsFiniteSet(G)
    BY Zenon, <1>1, <1>2, FS_Surjection
<1>4. ASSUME NEW c \in C PROVE IsFiniteSet(RowsOf(c, f))
    <2>1. IsFiniteSet(Joined(rows[c], f))
        <3>1. Joined(rows[c], f) \in SUBSET rows[c].triggers
            BY Zenon DEF Joined
        <3> QED BY Zenon, <3>1, FS_Subset DEF Listable
    <2>2. IsFiniteSet({c}) /\ IsFiniteSet({Unset})
        BY Zenon, FS_Singleton
    <2>3. IsFiniteSet(IF Joins(f) THEN Joined(rows[c], f) ELSE {Unset})
        BY Zenon, <2>1, <2>2
    <2> QED BY Zenon, <2>2, <2>3, FS_Product DEF RowsOf
<1>5. IsFiniteSet(UNION G)
    <2>1. \A T \in G : IsFiniteSet(T)
        BY Zenon, <1>4
    <2> HIDE DEF G
    <2> QED BY Zenon, <1>3, <2>1, FS_UNION
<1>6. Found(f, cursor) = {} \/ Found(f, cursor) = UNION G
    BY Zenon DEF Found
<1> HIDE DEF G
<1> QED BY Zenon, <1>5, <1>6, FS_EmptySet

\* A case has one row in the result of a filter on one of its match's reasons.
LEMMA OneRowEach ==
    ASSUME Listable, NEW f, OneRow(f), NEW c \in Case, NEW p \in RowsOf(c, f), NEW q \in RowsOf(c, f)
    PROVE  p = q
<1>1. CASE ~Joins(f)
    BY SMTT(30), <1>1 DEF RowsOf
<1>2. CASE Joins(f)
    <2>1. PICK t \in Joined(rows[c], f), u \in Joined(rows[c], f) : p = <<c, t>> /\ q = <<c, u>>
        BY SMTT(30), <1>2 DEF RowsOf
    <2>2. EffectiveType(f) = "MATCH_REASON" /\ EffectiveCode(f) # Unset
        BY Zenon, <1>2 DEF OneRow
    <2>3. "MATCH_REASON" # Unset
        BY DEF Unset
    <2>4. /\ t \in rows[c].triggers /\ u \in rows[c].triggers /\ t.code = u.code
          /\ t.type = "MATCH_REASON" /\ u.type = "MATCH_REASON"
        BY Zenon, <2>2, <2>3 DEF Joined
    <2> QED BY Zenon, <2>1, <2>4 DEF Listable, EachReasonOnce
<1> QED BY Zenon, <1>1, <1>2

\* The order of what is listed.
Sorted(s, f) ==
    \A i, j \in DOMAIN s : i < j => Newer(s[i], s[j]) \/ (s[i] = s[j] /\ ~OneRow(f))

\* What a query past a cursor returns.
Answering(s, f, cursor) ==
    /\ s \in Seq(Case) /\ Sorted(s, f)
    /\ \A i \in DOMAIN s : Selected(rows[s[i]], f) /\ Past(s[i], cursor)
    /\ \A c \in Case : Selected(rows[c], f) /\ Past(c, cursor) /\ ~Contradictory(f) =>
          \E i \in DOMAIN s : s[i] = c

\* The query returns the selected cases past the cursor, in order.
LEMMA QueryResult ==
    ASSUME Listable, NEW f, NEW cursor
    PROVE  Answering(Result(f, cursor), f, cursor)
<1>1. PICK S : S = Found(f, cursor)
    BY Zenon
<1>2. IsFiniteSet(S)
    BY Zenon, <1>1, FoundFinite
<1>3. ASSUME NEW p \in S
      PROVE  /\ p[1] \in Case /\ Selected(rows[p[1]], f) /\ Past(p[1], cursor)
             /\ p \in RowsOf(p[1], f)
    <2>1. PICK c \in Case : Selected(rows[c], f) /\ Past(c, cursor) /\ p \in RowsOf(c, f)
        BY Zenon, <1>1 DEF Found
    <2>2. p[1] = c
        BY SMTT(30), <2>1 DEF RowsOf
    <2> QED BY Zenon, <2>1, <2>2
<1>4. PICK s : Listing(s, S)
    <2>1. \A p \in S : p[1] \in Case
        BY Zenon, <1>3
    <2> QED BY Zenon, <1>2, <2>1, ListingExists DEF Listable
<1>5. PICK order : /\ Listing(order, S)
                   /\ Result(f, cursor) = [i \in DOMAIN order |-> order[i][1]]
    <2>1. PICK order : order = CHOOSE x \in SetToSeqs(S) : InOrder(x)
        BY Zenon
    <2>2. order \in SetToSeqs(S) /\ InOrder(order)
        BY Zenon, <1>4, <2>1 DEF Listing
    <2> QED BY Zenon, <1>1, <2>1, <2>2 DEF Listing, Result
<1>6. PICK n \in Nat : Enumerates(n, order, S)
    BY Zenon, <1>2, <1>5, ListingComplete
<1>7. PICK t : t = Result(f, cursor)
    BY Zenon
<1>8. DOMAIN t = 1..n /\ \A i \in 1..n : t[i] = order[i][1] /\ order[i] \in S
    BY Zenon, <1>5, <1>6, <1>7 DEF Enumerates
<1>9. t \in Seq(Case)
    <2>1. t \in [1..n -> Case]
        <3>1. \A i \in 1..n : t[i] \in Case
            BY Zenon, <1>3, <1>8
        <3>2. t = [i \in DOMAIN order |-> order[i][1]] /\ DOMAIN order = 1..n
            BY Zenon, <1>5, <1>6, <1>7 DEF Enumerates
        <3> QED BY SMTT(30), <1>8, <3>1, <3>2
    <2> QED BY SMTT(30), <2>1
<1>10. ASSUME NEW i \in 1..n PROVE Selected(rows[t[i]], f) /\ Past(t[i], cursor)
    BY Zenon, <1>3, <1>8
<1>11. ASSUME NEW c \in Case, Selected(rows[c], f), Past(c, cursor), ~Contradictory(f)
       PROVE  \E i \in 1..n : t[i] = c
    <2>1. PICK p \in RowsOf(c, f) : p[1] = c
        <3>1. Joins(f) => Joined(rows[c], f) # {}
            BY Zenon, <1>11 DEF Selected
        <3>2. PICK x \in IF Joins(f) THEN Joined(rows[c], f) ELSE {Unset} : TRUE
            BY Zenon, <3>1
        <3>3. <<c, x>> \in RowsOf(c, f) /\ <<c, x>>[1] = c
            BY SMTT(30) DEF RowsOf
        <3> QED BY Zenon, <3>3
    <2>2. p \in S
        BY Zenon, <1>1, <1>11 DEF Found
    <2>3. PICK i \in 1..n : order[i] = p
        BY Zenon, <1>6, <2>2 DEF Enumerates
    <2> QED BY Zenon, <1>8, <2>1, <2>3
<1>12. ASSUME NEW i \in 1..n, NEW j \in 1..n, i < j
       PROVE  Newer(t[i], t[j]) \/ (t[i] = t[j] /\ ~OneRow(f))
    <2>1. i # j
        BY <1>12
    <2>2. t[i] \in Case /\ t[j] \in Case /\ ~Newer(t[j], t[i])
        <3>1. DOMAIN order = 1..n
            BY Zenon, <1>6 DEF Enumerates
        <3>2. ~Newer(order[j][1], order[i][1])
            BY Zenon, <1>5, <1>12, <3>1 DEF Listing, InOrder
        <3>3. order[i] \in S /\ order[j] \in S /\ t[i] = order[i][1] /\ t[j] = order[j][1]
            BY Zenon, <1>8
        <3> QED BY Zenon, <1>3, <3>2, <3>3
    <2>3. Newer(t[i], t[j]) \/ t[i] = t[j]
        BY Zenon, <2>2, NewerTotal DEF Listable
    <2>4. OneRow(f) => t[i] # t[j]
        <3> SUFFICES ASSUME OneRow(f), t[i] = t[j] PROVE FALSE
            BY Zenon
        <3>1. order[i] \in RowsOf(t[i], f) /\ order[j] \in RowsOf(t[i], f)
            BY Zenon, <1>3, <1>8
        <3>2. order[i] = order[j]
            BY Zenon, <2>2, <3>1, OneRowEach
        <3> QED BY Zenon, <1>6, <2>1, <3>2 DEF Enumerates
    <2> QED BY Zenon, <2>3, <2>4
<1> QED BY Zenon, <1>7, <1>8, <1>9, <1>10, <1>11, <1>12 DEF Answering, Sorted

-----------------------------------------------------------------------------
(* Pages *)

RowOK(x) ==
    /\ x = [status |-> x.status, opened |-> x.opened, triggers |-> x.triggers]
    /\ x.opened \in 0..MaxClock
    /\ IsFiniteSet(x.triggers) /\ EachReasonOnce(x.triggers)

RowsOK ==
    /\ clock \in 0..MaxClock /\ DOMAIN rows = Case
    /\ \A c \in Case : RowOK(rows[c])

Lists(w, c) == \E i \in DOMAIN w.listed : w.listed[i] = c

\* The fields of a walk.
IsWalk(w) ==
    /\ w = [pc |-> w.pc, filter |-> w.filter, limit |-> w.limit, cursor |-> w.cursor,
            listed |-> w.listed, steady |-> w.steady]
    /\ w.limit \in Nat \ {0}
    /\ w.cursor.opened \in Nat /\ w.cursor.id \in Nat

\* What was listed can still be seen, in order, and is not past the cursor; what
\* was selected all along is listed, or the cursor has not passed it.
WalkOK(w) ==
    /\ IsWalk(w)
    /\ w.listed \in Seq(Case) /\ Sorted(w.listed, w.filter)
    /\ \A i \in DOMAIN w.listed : rows[w.listed[i]].status \in Visible
    /\ w.pc = "walking" => \A i \in DOMAIN w.listed : ~Past(w.listed[i], w.cursor)
    /\ w.steady \subseteq Case
    /\ \A c \in w.steady : Selected(rows[c], w.filter) /\ ~Contradictory(w.filter)
    /\ \A c \in w.steady : Lists(w, c) \/ (w.pc = "walking" /\ Past(c, w.cursor))

QueueInv == RowsOK /\ DOMAIN walk = Reader /\ \A r \in Reader : WalkOK(walk[r])

\* The rows are as the query needs them.
LEMMA RowsListable == RowsOK => Listable
<1> SUFFICES ASSUME RowsOK PROVE Listable
    OBVIOUS
<1>1. ASSUME NEW c \in Case PROVE c \in Nat /\ rows[c].opened \in Nat
    BY SMTT(30), CaseAssumption, ClockAssumption DEF RowsOK, RowOK
<1> QED BY Zenon, <1>1 DEF RowsOK, RowOK, Listable, Dated

\* What is past a cursor is older than what is not.
LEMMA PastIsOlder ==
    ASSUME Dated, NEW c \in Case, NEW d \in Case,
           NEW cursor, cursor.opened \in Nat, cursor.id \in Nat
    PROVE  /\ ~Past(c, cursor) /\ Past(d, cursor) => Newer(c, d)
           /\ Past(d, Cursor(c)) <=> Newer(c, d)
           /\ Newer(d, c) => ~Newer(c, d)
<1>1. c \in Nat /\ d \in Nat /\ rows[c].opened \in Nat /\ rows[d].opened \in Nat
    BY Zenon DEF Dated
<1>2. Cursor(c).opened = rows[c].opened /\ Cursor(c).id = c
    BY Zenon DEF Cursor
<1> QED BY <1>1, <1>2 DEF Past, Newer

\* t is a followed by the first m elements of b.
Continues(t, a, b, m) ==
    /\ DOMAIN t = 1..(Len(a) + m)
    /\ \A i \in 1..Len(a) : t[i] = a[i]
    /\ \A i \in 1..m : t[Len(a) + i] = b[i]

\* Concatenation does that.
LEMMA Joining ==
    ASSUME NEW S, NEW a \in Seq(S), NEW b \in Seq(S), NEW m \in 0..Len(b),
           NEW t, t = a \o SubSeq(b, 1, m)
    PROVE  t \in Seq(S) /\ Continues(t, a, b, m)
<1>1. PICK c : c = SubSeq(b, 1, m)
    BY Zenon
<1>2. c \in Seq(S) /\ Len(c) = m /\ \A i \in 1..m : c[i] = b[i]
    BY SMTT(30), <1>1
<1>3. /\ t = a \o c /\ t \in Seq(S) /\ Len(t) = Len(a) + Len(c)
      /\ Len(a) \in Nat /\ Len(c) \in Nat /\ DOMAIN t = 1..Len(t)
    BY SMTT(30), <1>1, <1>2
<1>4. \A i \in 1..Len(a) : t[i] = a[i]
    BY SMTT(30), <1>2, <1>3
<1>5. \A i \in 1..m : t[Len(a) + i] = c[i]
    BY SMTT(30), <1>2, <1>3
<1> QED BY Zenon, <1>2, <1>3, <1>4, <1>5 DEF Continues

\* t lists what w does and then the first m rows of s, in order.
Appended(t, w, s, m) ==
    /\ t \in Seq(Case) /\ Sorted(t, w.filter)
    /\ Len(w.listed) \in Nat
    /\ Continues(t, w.listed, s, m)
    /\ \A i \in DOMAIN t : rows[t[i]].status \in Visible

\* A page behind what is listed: the first m rows of the answer.
LEMMA PageAppended ==
    ASSUME Listable, NEW w, WalkOK(w), w.pc = "walking",
           NEW s, Answering(s, w.filter, w.cursor), NEW m \in 0..Len(s),
           NEW t, t = w.listed \o SubSeq(s, 1, m)
    PROVE  Appended(t, w, s, m)
<1>1. PICK old, k : old = w.listed /\ k = Len(old)
    BY ZenonT(60)
<1>2. /\ s \in Seq(Case) /\ Len(s) \in Nat /\ DOMAIN s = 1..Len(s)
      /\ old \in Seq(Case) /\ k \in Nat /\ DOMAIN old = 1..k /\ m \in Nat /\ m <= Len(s)
    BY SMTT(30), <1>1 DEF Answering, WalkOK
<1>3. /\ t \in Seq(Case) /\ DOMAIN t = 1..(k + m)
      /\ \A i \in 1..k : t[i] = old[i]
      /\ \A i \in 1..m : t[k + i] = s[i]
    <2>1. t = old \o SubSeq(s, 1, m)
        BY Zenon, <1>1
    <2>2. t \in Seq(Case) /\ Continues(t, old, s, m)
        BY Zenon, <1>2, <2>1, Joining
    <2> QED BY Zenon, <1>1, <2>2 DEF Continues
<1>4. \A i \in 1..(k + m) : i \in 1..k \/ \E j \in 1..m : i = k + j
    <2> SUFFICES ASSUME NEW i \in 1..(k + m), i \notin 1..k PROVE \E j \in 1..m : i = k + j
        BY Zenon
    <2>1. i - k \in 1..m /\ i = k + (i - k)
        BY <1>2
    <2> QED BY Zenon, <2>1
<1>5. \A i \in 1..m : i \in 1..Len(s) /\ s[i] \in Case
    BY <1>2
<1>6. ASSUME NEW i \in 1..(k + m) PROVE rows[t[i]].status \in Visible
    <2>1. \A j \in 1..m : rows[s[j]].status \in Visible
        BY Zenon, <1>2, <1>5 DEF Answering, Selected
    <2>2. \A j \in 1..k : rows[old[j]].status \in Visible
        BY Zenon, <1>1, <1>2 DEF WalkOK
    <2>3. CASE i \in 1..k
        BY Zenon, <1>3, <2>2, <2>3
    <2>4. ASSUME NEW j \in 1..m, i = k + j PROVE rows[t[i]].status \in Visible
        BY Zenon, <1>3, <2>1, <2>4
    <2> QED BY Zenon, <1>4, <2>3, <2>4
<1>7. ASSUME NEW i \in 1..(k + m), NEW j \in 1..(k + m), i < j
      PROVE  Newer(t[i], t[j]) \/ (t[i] = t[j] /\ ~OneRow(w.filter))
    <2>1. CASE i \in 1..k /\ j \in 1..k
        BY ZenonT(60), <1>1, <1>2, <1>3, <1>7, <2>1 DEF WalkOK, Sorted
    <2>2. ASSUME i \in 1..k, NEW q \in 1..m, j = k + q PROVE Newer(t[i], t[j])
        <3>1. ~Past(old[i], w.cursor) /\ Past(s[q], w.cursor) /\ old[i] \in Case /\ s[q] \in Case
            <4>1. old[i] \in Case
                BY <1>2, <2>2
            <4> QED BY Zenon, <1>1, <1>2, <1>5, <2>2, <4>1 DEF WalkOK, Answering
        <3>2. Newer(old[i], s[q])
            BY Zenon, <3>1, PastIsOlder DEF Listable, WalkOK, IsWalk
        <3> QED BY Zenon, <1>3, <2>2, <3>2
    <2>3. ASSUME NEW p \in 1..m, i = k + p, NEW q \in 1..m, j = k + q
          PROVE  Newer(t[i], t[j]) \/ (t[i] = t[j] /\ ~OneRow(w.filter))
        <3>1. p < q
            BY SMTT(30), <1>2, <1>7, <2>3
        <3>2. Newer(s[p], s[q]) \/ (s[p] = s[q] /\ ~OneRow(w.filter))
            BY Zenon, <1>2, <1>5, <3>1 DEF Answering, Sorted
        <3>3. t[i] = s[p] /\ t[j] = s[q]
            BY Zenon, <1>3, <2>3
        <3> QED BY Zenon, <3>2, <3>3
    <2>4. ~(i \notin 1..k /\ j \in 1..k)
        BY <1>2, <1>7
    <2> QED BY Zenon, <1>4, <2>1, <2>2, <2>3, <2>4
<1>8. Sorted(t, w.filter)
    BY Zenon, <1>3, <1>7 DEF Sorted
<1> QED BY Zenon, <1>1, <1>2, <1>3, <1>6, <1>8 DEF Appended, Continues

\* The last page: everything that is left.
LEMMA LastPage ==
    ASSUME Listable, NEW w, WalkOK(w), w.pc = "walking",
           NEW s, Answering(s, w.filter, w.cursor),
           NEW x, x = [w EXCEPT !.listed = w.listed \o s, !.pc = "done"]
    PROVE  WalkOK(x)
<1>1. /\ x.pc = "done" /\ x.filter = w.filter /\ x.limit = w.limit /\ x.cursor = w.cursor
      /\ x.steady = w.steady /\ x.listed = w.listed \o s /\ IsWalk(x)
    BY Zenon DEF WalkOK, IsWalk
<1>2. PICK t, k : t = x.listed /\ k = Len(w.listed)
    BY Zenon
<1>3. Len(s) \in 0..Len(s) /\ SubSeq(s, 1, Len(s)) = s /\ DOMAIN s = 1..Len(s)
    BY SMTT(30) DEF Answering
<1>4. /\ t \in Seq(Case) /\ Sorted(t, w.filter)
      /\ DOMAIN t = 1..(k + Len(s)) /\ k \in Nat
      /\ \A i \in 1..k : t[i] = w.listed[i]
      /\ \A i \in 1..Len(s) : t[k + i] = s[i]
      /\ \A i \in DOMAIN t : rows[t[i]].status \in Visible
    <2>1. t = w.listed \o SubSeq(s, 1, Len(s))
        BY Zenon, <1>1, <1>2, <1>3
    <2>2. Appended(t, w, s, Len(s))
        BY Zenon, <1>3, <2>1, PageAppended
    <2> QED BY Zenon, <1>2, <2>2 DEF Appended, Continues
<1>5. ASSUME NEW c \in w.steady PROVE Lists(x, c)
    <2>1. CASE Lists(w, c)
        <3>1. PICK i \in DOMAIN w.listed : w.listed[i] = c
            BY Zenon, <2>1 DEF Lists
        <3>2. i \in 1..k /\ i \in 1..(k + Len(s))
            <4>1. DOMAIN w.listed = 1..k
                BY SMTT(30), <1>2 DEF WalkOK
            <4>2. Len(s) \in Nat
                BY SMTT(30) DEF Answering
            <4> QED BY SMTT(30), <1>4, <3>1, <4>1, <4>2
        <3> QED BY Zenon, <1>2, <1>4, <3>1, <3>2 DEF Lists
    <2>2. CASE Past(c, w.cursor)
        <3>1. PICK i \in DOMAIN s : s[i] = c
            BY Zenon, <2>2 DEF Answering, WalkOK
        <3>2. i \in 1..Len(s) /\ k + i \in 1..(k + Len(s))
            <4>1. Len(s) \in Nat
                BY SMTT(30) DEF Answering
            <4> QED BY SMTT(30), <1>3, <1>4, <3>1, <4>1
        <3> QED BY Zenon, <1>2, <1>4, <3>1, <3>2 DEF Lists
    <2> QED BY Zenon, <2>1, <2>2 DEF WalkOK
<1>6. x.pc # "walking"
    BY <1>1
<1> QED BY Zenon, <1>1, <1>2, <1>4, <1>5, <1>6 DEF WalkOK

\* A page that is followed by another.
LEMMA FurtherPage ==
    ASSUME Listable, NEW w, WalkOK(w), w.pc = "walking",
           NEW s, Answering(s, w.filter, w.cursor), w.limit < Len(s),
           NEW x, x = [w EXCEPT !.listed = w.listed \o SubSeq(s, 1, w.limit),
                                !.cursor = Cursor(s[w.limit])]
    PROVE  WalkOK(x)
<1>1. PICK m, last : m = w.limit /\ last = s[m]
    BY Zenon
<1>2. /\ m \in Nat /\ m \in 1..m /\ m \in 0..Len(s) /\ Len(s) \in Nat /\ DOMAIN s = 1..Len(s)
      /\ m \in DOMAIN s
    <2>1. Len(s) \in Nat /\ DOMAIN s = 1..Len(s)
        BY SMTT(30) DEF Answering
    <2> QED BY <1>1, <2>1 DEF WalkOK, IsWalk
<1>3. last \in Case /\ last \in Nat /\ rows[last].opened \in Nat
    <2>1. last \in Case
        BY SMTT(30), <1>1, <1>2 DEF Answering
    <2> QED BY Zenon, <2>1 DEF Listable, Dated
<1>4. /\ x.pc = "walking" /\ x.filter = w.filter /\ x.limit = w.limit /\ x.cursor = Cursor(last)
      /\ x.steady = w.steady /\ x.listed = w.listed \o SubSeq(s, 1, m) /\ IsWalk(x)
    <2>1. Cursor(last).opened \in Nat /\ Cursor(last).id \in Nat
        BY Zenon, <1>3 DEF Cursor
    <2> QED BY Zenon, <1>1, <2>1 DEF WalkOK, IsWalk
<1>5. PICK t, k : t = x.listed /\ k = Len(w.listed)
    BY Zenon
<1>6. /\ t \in Seq(Case) /\ Sorted(t, w.filter)
      /\ DOMAIN t = 1..(k + m) /\ k \in Nat
      /\ \A i \in 1..k : t[i] = w.listed[i]
      /\ \A i \in 1..m : t[k + i] = s[i]
      /\ \A i \in DOMAIN t : rows[t[i]].status \in Visible
    <2>1. t = w.listed \o SubSeq(s, 1, m)
        BY Zenon, <1>4, <1>5
    <2>2. Appended(t, w, s, m)
        BY Zenon, <1>2, <2>1, PageAppended
    <2> QED BY Zenon, <1>5, <2>2 DEF Appended, Continues
<1>7. k + m \in 1..(k + m) /\ t[k + m] = last
    <2>1. k + m \in 1..(k + m)
        BY <1>2, <1>6
    <2> QED BY Zenon, <1>1, <1>2, <1>6, <2>1
<1>8. ASSUME NEW i \in DOMAIN t PROVE ~Past(t[i], x.cursor)
    <2>1. t[i] \in Case /\ (i < k + m \/ i = k + m)
        BY SMTT(30), <1>2, <1>6
    <2>2. Newer(t[i], last) \/ t[i] = last
        BY Zenon, <1>6, <1>7, <2>1 DEF Sorted
    <2>3. ~Newer(last, t[i])
        BY Zenon, <1>3, <2>1, <2>2, NewerTotal, PastIsOlder DEF Listable, WalkOK, IsWalk
    <2> QED BY Zenon, <1>3, <1>4, <2>1, <2>3, PastIsOlder DEF Listable, WalkOK, IsWalk
<1>9. ASSUME NEW c \in w.steady PROVE Lists(x, c) \/ Past(c, x.cursor)
    <2>1. CASE Lists(w, c)
        <3>1. PICK i \in DOMAIN w.listed : w.listed[i] = c
            BY Zenon, <2>1 DEF Lists
        <3>2. i \in 1..k /\ i \in 1..(k + m)
            <4>1. DOMAIN w.listed = 1..k
                BY SMTT(30), <1>5 DEF WalkOK
            <4> QED BY SMTT(30), <1>2, <1>6, <3>1, <4>1
        <3> QED BY Zenon, <1>5, <1>6, <3>1, <3>2 DEF Lists
    <2>2. CASE Past(c, w.cursor)
        <3>1. PICK i \in DOMAIN s : s[i] = c
            BY Zenon, <2>2 DEF Answering, WalkOK
        <3>2. CASE i <= m
            <4>1. i \in 1..m /\ k + i \in 1..(k + m)
                BY SMTT(30), <1>2, <1>6, <3>1, <3>2
            <4> QED BY Zenon, <1>5, <1>6, <3>1, <4>1 DEF Lists
        <3>3. CASE m < i
            <4>1. Newer(last, c) \/ last = c
                BY Zenon, <1>1, <1>2, <3>1, <3>3 DEF Answering, Sorted
            <4>2. last = c => Lists(x, c)
                BY Zenon, <1>5, <1>6, <1>7 DEF Lists
            <4>3. c \in Case
                BY Zenon DEF WalkOK
            <4>4. Newer(last, c) => Past(c, x.cursor)
                BY Zenon, <1>3, <1>4, <4>3, PastIsOlder DEF Listable, WalkOK, IsWalk
            <4> QED BY Zenon, <4>1, <4>2, <4>4
        <3>4. i <= m \/ m < i
            BY SMTT(30), <1>2, <3>1
        <3> QED BY Zenon, <3>2, <3>3, <3>4
    <2> QED BY Zenon, <2>1, <2>2 DEF WalkOK
<1> QED BY Zenon, <1>4, <1>5, <1>6, <1>8, <1>9 DEF WalkOK

\* A walk is none the worse while the rows stay what they are.
LEMMA WalkKept ==
    ASSUME rows' = rows, NEW x, WalkOK(x)
    PROVE  WalkOK(x)'
BY Zenon DEF WalkOK, IsWalk, Sorted, Newer, Past, Lists, Selected

\* So it is enough to look at the walk that has changed.
LEMMA OneWalkChanges ==
    ASSUME QueueInv, UNCHANGED <<clock, rows>>, NEW r \in Reader, NEW x, WalkOK(x),
           walk' = [walk EXCEPT ![r] = x]
    PROVE  QueueInv'
<1>1. RowsOK'
    BY Zenon DEF QueueInv, RowsOK, RowOK
<1>2. DOMAIN walk' = Reader
    BY Zenon DEF QueueInv
<1>3. ASSUME NEW q \in Reader PROVE WalkOK(walk[q])'
    <2>1. PICK y : y = walk'[q]
        BY Zenon
    <2>2. WalkOK(y)
        BY Zenon, <2>1 DEF QueueInv
    <2>3. WalkOK(y)'
        BY Zenon, <2>2, WalkKept
    <2> QED BY Zenon, <2>1, <2>3
<1> QED BY Zenon, <1>1, <1>2, <1>3 DEF QueueInv

\* A page is served.
LEMMA NextPageStep == ASSUME QueueInv, NEW r \in Reader, NextPage(r) PROVE QueueInv'
<1>1. PICK w, s : w = walk[r] /\ s = Result(w.filter, w.cursor)
    BY Zenon
<1>2. WalkOK(w) /\ w.pc = "walking" /\ Listable /\ UNCHANGED <<clock, rows>>
    BY Zenon, <1>1, RowsListable DEF QueueInv, NextPage
<1>3. Answering(s, w.filter, w.cursor)
    BY ZenonT(60), <1>1, <1>2, QueryResult
<1>4. /\ Len(s) \in Nat /\ w.limit \in Nat
      /\ IF Len(s) > w.limit
         THEN walk' = [walk EXCEPT ![r] = [w EXCEPT !.listed = w.listed \o SubSeq(s, 1, w.limit),
                                                    !.cursor = Cursor(s[w.limit])]]
         ELSE walk' = [walk EXCEPT ![r] = [w EXCEPT !.listed = w.listed \o s, !.pc = "done"]]
    <2>1. Len(s) \in Nat /\ w.limit \in Nat
        BY SMTT(30), <1>2, <1>3 DEF Answering, WalkOK, IsWalk
    <2>2. r \in DOMAIN walk
        BY Zenon DEF QueueInv
    <2> QED BY SMTT(30), <1>1, <2>1, <2>2 DEF NextPage
<1>5. CASE Len(s) > w.limit
    <2>1. PICK x : x = [w EXCEPT !.listed = w.listed \o SubSeq(s, 1, w.limit),
                                 !.cursor = Cursor(s[w.limit])]
        BY Zenon
    <2>2. WalkOK(x)
        BY Zenon, <1>2, <1>3, <1>5, <2>1, FurtherPage
    <2> QED BY Zenon, <1>2, <1>4, <1>5, <2>1, <2>2, OneWalkChanges
<1>6. CASE ~(Len(s) > w.limit)
    <2>1. PICK x : x = [w EXCEPT !.listed = w.listed \o s, !.pc = "done"]
        BY Zenon
    <2>2. WalkOK(x)
        BY Zenon, <1>2, <1>3, <2>1, LastPage
    <2> QED BY Zenon, <1>2, <1>4, <1>6, <2>1, <2>2, OneWalkChanges
<1> QED BY Zenon, <1>5, <1>6

\* A list is opened.
LEMMA BeginStep ==
    ASSUME QueueInv, NEW r \in Reader, NEW f, NEW n \in Nat \ {0}, Begin(r, f, n)
    PROVE  QueueInv'
<1>1. PICK x : x = [pc |-> "walking", filter |-> f, limit |-> n, cursor |-> Start,
                    listed |-> << >>,
                    steady |-> IF Contradictory(f) THEN {} ELSE {c \in Case : Selected(rows[c], f)}]
    BY Zenon
<1>2. /\ x.pc = "walking" /\ x.filter = f /\ x.limit = n /\ x.cursor = Start /\ x.listed = << >>
      /\ x.steady = IF Contradictory(f) THEN {} ELSE {c \in Case : Selected(rows[c], f)}
    BY Zenon, <1>1
<1>3. IsWalk(x)
    <2>1. Start.opened \in Nat /\ Start.id \in Nat
        BY ClockAssumption DEF Start
    <2>2. x = [pc |-> x.pc, filter |-> x.filter, limit |-> x.limit, cursor |-> x.cursor,
               listed |-> x.listed, steady |-> x.steady]
        BY Zenon, <1>1, <1>2
    <2> QED BY Zenon, <1>2, <2>1, <2>2 DEF IsWalk
<1>4. x.listed \in Seq(Case) /\ DOMAIN x.listed = {}
    BY SMTT(30), <1>2
<1>5. ASSUME NEW c \in x.steady
      PROVE  c \in Case /\ Selected(rows[c], f) /\ ~Contradictory(f) /\ Past(c, x.cursor)
    <2>1. c \in Case /\ Selected(rows[c], f) /\ ~Contradictory(f)
        BY Zenon, <1>2
    <2>2. rows[c].opened \in 0..MaxClock
        BY Zenon, <2>1 DEF QueueInv, RowsOK, RowOK
    <2>3. rows[c].opened < Start.opened
        BY SMTT(30), <2>2, ClockAssumption DEF Start
    <2> QED BY Zenon, <1>2, <2>1, <2>3 DEF Past
<1>6. WalkOK(x)
    BY ZenonT(60), <1>2, <1>3, <1>4, <1>5 DEF WalkOK, Sorted
<1> QED BY Zenon, <1>1, <1>6, OneWalkChanges DEF Begin

\* A row that could be seen can be seen, as old as it was.
StaysSeen(old, new) ==
    old.status \in Visible => new.status \in Visible /\ new.opened = old.opened

\* One row changes, and stays seen: what was listed keeps its place, and what
\* is no longer selected is no longer expected.
LEMMA BecomesStep ==
    ASSUME QueueInv, NEW c \in Case, NEW row, RowOK(row), StaysSeen(rows[c], row), Becomes(c, row)
    PROVE  QueueInv'
<1>1. /\ DOMAIN rows' = Case /\ rows'[c] = row /\ \A d \in Case : d # c => rows'[d] = rows[d]
      /\ clock' = clock
    BY Zenon DEF Becomes, QueueInv, RowsOK
<1>2. RowsOK'
    <2>1. ASSUME NEW d \in Case PROVE RowOK(rows'[d])
        BY Zenon, <1>1 DEF QueueInv, RowsOK
    <2>2. ASSUME NEW d \in Case PROVE RowOK(rows[d])'
        BY Zenon, <2>1 DEF RowOK
    <2> QED BY Zenon, <1>1, <2>2 DEF RowsOK, QueueInv
<1>3. ASSUME NEW d \in Case, rows[d].status \in Visible
      PROVE  rows'[d].status \in Visible /\ rows'[d].opened = rows[d].opened
    BY Zenon, <1>1, <1>3 DEF StaysSeen
<1>4. DOMAIN walk' = Reader
    BY Zenon DEF Becomes
<1>5. ASSUME NEW r \in Reader PROVE WalkOK(walk[r])'
    <2>1. PICK w, x : w = walk[r] /\ x = walk'[r]
        BY Zenon
    <2>2. WalkOK(w)
        BY Zenon, <2>1 DEF QueueInv
    <2>3. x = [w EXCEPT !.steady = w.steady \ {d \in {c} : ~Selected(row, w.filter)}]
        BY Zenon, <2>1 DEF Becomes
    <2>4. /\ x.pc = w.pc /\ x.filter = w.filter /\ x.limit = w.limit /\ x.cursor = w.cursor
          /\ x.listed = w.listed
          /\ x.steady = w.steady \ {d \in {c} : ~Selected(row, w.filter)} /\ IsWalk(x)
        BY Zenon, <2>2, <2>3 DEF WalkOK, IsWalk
    <2>5. ASSUME NEW i \in DOMAIN x.listed
          PROVE  /\ x.listed[i] \in Case /\ rows'[x.listed[i]].status \in Visible
                 /\ rows'[x.listed[i]].opened = rows[x.listed[i]].opened
        <3>1. w.listed[i] \in Case
            BY SMTT(30), <2>2, <2>4 DEF WalkOK
        <3> QED BY ZenonT(60), <1>3, <2>2, <2>4, <3>1 DEF WalkOK
    <2>6. Sorted(x.listed, x.filter)'
        <3>1. ASSUME NEW i \in DOMAIN x.listed, NEW j \in DOMAIN x.listed, i < j
              PROVE  \/ Newer(x.listed[i], x.listed[j])'
                     \/ (x.listed[i] = x.listed[j] /\ ~OneRow(x.filter))
            <4>1. \/ Newer(x.listed[i], x.listed[j])
                  \/ (x.listed[i] = x.listed[j] /\ ~OneRow(x.filter))
                <5>1. Sorted(w.listed, w.filter)
                    BY Zenon, <2>2 DEF WalkOK
                <5>2. Sorted(x.listed, x.filter)
                    BY Zenon, <2>4, <5>1
                <5> QED BY Zenon, <3>1, <5>2 DEF Sorted
            <4>2. Newer(x.listed[i], x.listed[j])' <=> Newer(x.listed[i], x.listed[j])
                BY Zenon, <2>5 DEF Newer
            <4> QED BY Zenon, <4>1, <4>2
        <3> QED BY Zenon, <3>1 DEF Sorted
    <2>7. x.pc = "walking" => \A i \in DOMAIN x.listed : ~Past(x.listed[i], x.cursor)'
        BY ZenonT(60), <2>2, <2>4, <2>5 DEF WalkOK, Past
    <2>8. ASSUME NEW d \in x.steady
          PROVE  /\ d \in Case /\ Selected(rows'[d], x.filter) /\ ~Contradictory(x.filter)
                 /\ Lists(x, d) \/ (x.pc = "walking" /\ Past(d, x.cursor)')
        <3>1. d \in w.steady /\ (d = c => Selected(row, w.filter))
            BY Zenon, <2>4
        <3>2. /\ d \in Case /\ Selected(rows[d], w.filter) /\ ~Contradictory(w.filter)
              /\ Lists(w, d) \/ (w.pc = "walking" /\ Past(d, w.cursor))
            BY Zenon, <2>2, <3>1 DEF WalkOK
        <3>3. Selected(rows'[d], x.filter)
            BY Zenon, <1>1, <2>4, <3>1, <3>2
        <3>4. rows'[d].opened = rows[d].opened
            BY Zenon, <1>3, <3>2 DEF Selected
        <3>5. Past(d, x.cursor)' <=> Past(d, w.cursor)
            BY Zenon, <2>4, <3>4 DEF Past
        <3>6. Lists(w, d) => Lists(x, d)
            BY Zenon, <2>4 DEF Lists
        <3> QED BY Zenon, <2>4, <3>2, <3>3, <3>5, <3>6
    <2>9. x.listed \in Seq(Case)
        BY Zenon, <2>2, <2>4 DEF WalkOK
    <2>10. WalkOK(x)'
        <3>1. IsWalk(x)'
            BY Zenon, <2>4 DEF IsWalk
        <3>2. \A d \in x.steady : Selected(rows'[d], x.filter) /\ ~Contradictory(x.filter)
            BY Zenon, <2>8
        <3>3. \A d \in x.steady : Lists(x, d)' \/ (x.pc = "walking" /\ Past(d, x.cursor)')
            BY Zenon, <2>8 DEF Lists
        <3>4. x.steady \subseteq Case
            BY Zenon, <2>8
        <3> QED BY Zenon, <2>5, <2>6, <2>7, <2>9, <3>1, <3>2, <3>3, <3>4 DEF WalkOK
    <2> QED BY Zenon, <2>1, <2>10
<1> QED BY Zenon, <1>2, <1>4, <1>5 DEF QueueInv

\* A case is opened, committed or rolled back.
LEMMA OpeningStep ==
    ASSUME QueueInv, NEW c \in Case,
           \/ \E T : IsFiniteSet(T) /\ EachReasonOnce(T) /\ Open(c, T)
           \/ Commit(c) \/ Rollback(c)
    PROVE  QueueInv'
<1>1. RowOK(rows[c]) /\ clock \in 0..MaxClock
    BY Zenon DEF QueueInv, RowsOK
<1>2. rows[c].status \in {"NEW", "OPENING"} => rows[c].status \notin Visible
    BY DEF Visible
<1>3. ASSUME NEW T, IsFiniteSet(T), EachReasonOnce(T), Open(c, T) PROVE QueueInv'
    <2>1. PICK row : row = [status |-> "OPENING", opened |-> clock, triggers |-> T]
        BY Zenon
    <2>2. RowOK(row)
        BY Zenon, <1>1, <1>3, <2>1 DEF RowOK
    <2> QED BY Zenon, <1>2, <1>3, <2>1, <2>2, BecomesStep DEF Open, StaysSeen
<1>4. CASE Commit(c)
    <2>1. PICK row : row = [rows[c] EXCEPT !.status = "OPEN"]
        BY Zenon
    <2>2. RowOK(row)
        BY Zenon, <1>1, <2>1 DEF RowOK
    <2> QED BY Zenon, <1>2, <1>4, <2>1, <2>2, BecomesStep DEF Commit, StaysSeen
<1>5. CASE Rollback(c)
    <2>1. RowOK(Unopened)
        <3>1. IsFiniteSet({}) /\ EachReasonOnce({})
            BY FS_EmptySet DEF EachReasonOnce
        <3> QED BY SMTT(30), <3>1, ClockAssumption DEF RowOK, Unopened
    <2> QED BY Zenon, <1>2, <1>5, <2>1, BecomesStep DEF Rollback, StaysSeen
<1> QED BY Zenon, <1>3, <1>4, <1>5

\* A case is claimed, released or resolved, or given a signal.
LEMMA HandlingStep ==
    ASSUME QueueInv, NEW c \in Case, Handle(c) \/ \E t : AddTrigger(c, t)
    PROVE  QueueInv'
<1>1. RowOK(rows[c])
    BY Zenon DEF QueueInv, RowsOK
<1>2. CASE Handle(c)
    <2>1. PICK new \in Visible : Becomes(c, [rows[c] EXCEPT !.status = new])
        BY Zenon, <1>2 DEF Handle
    <2>2. PICK row : row = [rows[c] EXCEPT !.status = new]
        BY Zenon
    <2>3. RowOK(row) /\ StaysSeen(rows[c], row)
        BY Zenon, <1>1, <2>2 DEF RowOK, StaysSeen
    <2> QED BY Zenon, <2>1, <2>2, <2>3, BecomesStep
<1>3. ASSUME NEW t, AddTrigger(c, t) PROVE QueueInv'
    <2>1. PICK row : row = [rows[c] EXCEPT !.triggers = rows[c].triggers \cup {t}]
        BY Zenon
    <2>2. IsFiniteSet(rows[c].triggers \cup {t})
        BY Zenon, <1>1, FS_AddElement DEF RowOK
    <2>3. EachReasonOnce(rows[c].triggers \cup {t})
        BY <1>1, <1>3 DEF RowOK, EachReasonOnce, AddTrigger
    <2>4. RowOK(row) /\ StaysSeen(rows[c], row)
        BY Zenon, <1>1, <2>1, <2>2, <2>3 DEF RowOK, StaysSeen
    <2> QED BY Zenon, <1>3, <2>1, <2>4, BecomesStep DEF AddTrigger
<1> QED BY Zenon, <1>2, <1>3

\* At the start no row is open and no list.
LEMMA QueueInitInv == QueueInit => QueueInv
<1> SUFFICES ASSUME QueueInit PROVE QueueInv
    OBVIOUS
<1>1. RowOK(Unopened)
    <2>1. IsFiniteSet({}) /\ EachReasonOnce({})
        BY FS_EmptySet DEF EachReasonOnce
    <2> QED BY SMTT(30), <2>1, ClockAssumption DEF RowOK, Unopened
<1>2. RowsOK
    BY SMTT(30), <1>1, ClockAssumption DEF QueueInit, RowsOK
<1>3. WalkOK(Resting)
    <2>1. Start.opened \in Nat /\ Start.id \in Nat
        BY SMTT(30), ClockAssumption DEF Start
    <2>2. IsWalk(Resting)
        BY SMTT(30), <2>1 DEF IsWalk, Resting
    <2>3. Resting.listed \in Seq(Case) /\ DOMAIN Resting.listed = {} /\ Resting.steady = {}
        BY SMTT(30) DEF Resting
    <2> QED BY Zenon, <2>2, <2>3 DEF WalkOK, Sorted
<1> QED BY Zenon, <1>2, <1>3 DEF QueueInit, QueueInv

\* Nothing happens to the lists.
LEMMA QueueIdle == ASSUME QueueInv, UNCHANGED <<rows, walk>>, clock' \in 0..MaxClock PROVE QueueInv'
<1>1. RowsOK'
    BY Zenon DEF QueueInv, RowsOK, RowOK
<1>2. ASSUME NEW r \in Reader PROVE WalkOK(walk[r])'
    <2>1. PICK x : x = walk[r]
        BY Zenon
    <2>2. WalkOK(x)'
        BY Zenon, <2>1, WalkKept DEF QueueInv
    <2> QED BY Zenon, <2>1, <2>2
<1> QED BY Zenon, <1>1, <1>2 DEF QueueInv

\* What the invariant says of a finished walk.
LEMMA QueueInvComplete == QueueInv => PagesComplete
<1> SUFFICES ASSUME QueueInv, NEW r \in Reader
             PROVE  /\ \A i, j \in DOMAIN walk[r].listed : i < j =>
                          \/ Newer(walk[r].listed[i], walk[r].listed[j])
                          \/ walk[r].listed[i] = walk[r].listed[j] /\ ~OneRow(walk[r].filter)
                    /\ walk[r].pc = "done" => walk[r].steady \subseteq ToSet(walk[r].listed)
    BY Zenon DEF PagesComplete
<1>1. WalkOK(walk[r])
    BY Zenon DEF QueueInv
<1>2. Sorted(walk[r].listed, walk[r].filter)
    BY Zenon, <1>1 DEF WalkOK
<1>3. ASSUME walk[r].pc = "done", NEW c \in walk[r].steady PROVE c \in ToSet(walk[r].listed)
    <2>1. walk[r].pc # "walking"
        BY <1>3
    <2>2. Lists(walk[r], c)
        BY Zenon, <1>1, <2>1 DEF WalkOK
    <2> QED BY Zenon, <2>2 DEF Lists, ToSet
<1> QED BY Zenon, <1>2, <1>3 DEF Sorted
==============================================================================
