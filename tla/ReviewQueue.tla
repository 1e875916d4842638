----------------------------- MODULE ReviewQueue -----------------------------
(***************************************************************************)
(* The paged lists of the API: list_cases of the review queue and          *)
(* list_invoices.  A reader walks a list page by page, newest first, with  *)
(* a cursor that names the last row shown; meanwhile rows are added, with  *)
(* a timestamp taken before their commit, and cases are claimed, released, *)
(* resolved and given further triggers.                                    *)
(***************************************************************************)
EXTENDS Naturals, Sequences, FiniteSets, SequencesExt

CONSTANTS
    Case,              \* rows that may be opened; numbers in the order of their ids
    Reader,
    MaxClock           \* bound on the clock

ASSUME CaseAssumption == Case \subseteq Nat /\ IsFiniteSet(Case)
ASSUME ClockAssumption == MaxClock \in Nat

VARIABLES
    clock,
    rows,              \* per row: status, opened_at and triggers
    walk               \* per reader: pc, query, cursor, what was listed

queueVars == <<clock, rows, walk>>

Unset == "UNSET"
Start == [opened |-> MaxClock + 1, id |-> 0]
Visible == {"OPEN", "CLAIMED", "RESOLVED"}
Unopened == [status |-> "NEW", opened |-> 0, triggers |-> {}]

-----------------------------------------------------------------------------
(* The query *)

\* reason_code is short for a type and a code, and must not contradict them.
Contradictory(f) ==
    f.reason # Unset /\ (f.type \notin {Unset, "MATCH_REASON"} \/ f.code \notin {Unset, f.reason})
EffectiveType(f) == IF f.reason # Unset THEN "MATCH_REASON" ELSE f.type
EffectiveCode(f) == IF f.reason # Unset THEN f.reason ELSE f.code
Joins(f) == EffectiveType(f) # Unset \/ EffectiveCode(f) # Unset

\* The triggers a case is joined with; each of them is a row of the result.
Joined(row, f) ==
    {t \in row.triggers : /\ EffectiveType(f) \in {Unset, t.type}
                          /\ EffectiveCode(f) \in {Unset, t.code}}

\* _trigger_snapshot: the reasons of the case's match, each once.
EachReasonOnce(T) ==
    \A t, u \in T : t.type = "MATCH_REASON" /\ u.type = "MATCH_REASON" /\ t.code = u.code => t = u

\* The filters on the case itself; a case has an assignee once it is claimed.
Selected(row, f) ==
    /\ row.status \in Visible
    /\ f.status \in {Unset, row.status}
    /\ f.assigned => row.status # "OPEN"
    /\ f.after <= row.opened /\ row.opened < f.before
    /\ Joins(f) => Joined(row, f) # {}

\* ORDER BY opened_at DESC, id DESC
Newer(c, d) ==
    rows[c].opened > rows[d].opened \/ (rows[c].opened = rows[d].opened /\ c > d)

\* Mutant of Past: rows of the cursor's own moment are taken for shown.
PastByTime(c, cursor) == rows[c].opened < cursor.opened

Past(c, cursor) ==
    rows[c].opened < cursor.opened \/ (rows[c].opened = cursor.opened /\ c < cursor.id)

\* The rows of the result that are about c: one, or one for each joined trigger.
RowsOf(c, f) == {c} \X (IF Joins(f) THEN Joined(rows[c], f) ELSE {Unset})

\* The rows past the cursor.
Found(f, cursor) ==
    IF Contradictory(f) THEN {}
    ELSE UNION {RowsOf(c, f) : c \in {d \in Case : Selected(rows[d], f) /\ Past(d, cursor)}}

\* ORDER BY leaves open which of the rows of one case comes first.
InOrder(s) == \A i, j \in DOMAIN s : i < j => ~Newer(s[j][1], s[i][1])

\* The cases of these rows, in order.
Result(f, cursor) ==
    LET order == CHOOSE s \in SetToSeqs(Found(f, cursor)) : InOrder(s)
    IN  [i \in DOMAIN order |-> order[i][1]]

\* _encode_cursor, and list_invoices' lookup of the row its cursor names.
Cursor(c) == [opened |-> rows[c].opened, id |-> c]

-----------------------------------------------------------------------------
(* Readers *)

\* steady: the rows that have been selected ever since the walk began.
Begin(r, f, n) ==
    /\ walk' = [walk EXCEPT ![r] =
         [pc |-> "walking", filter |-> f, limit |-> n, cursor |-> Start, listed |-> << >>,
          steady |-> IF Contradictory(f) THEN {} ELSE {c \in Case : Selected(rows[c], f)}]]
    /\ UNCHANGED <<clock, rows>>

\* One page: limit + 1 rows tell whether there is another.
NextPage(r) ==
    /\ walk[r].pc = "walking"
    /\ \E candidates \in {Result(walk[r].filter, walk[r].cursor)} :
          IF Len(candidates) > walk[r].limit
          THEN walk' = [walk EXCEPT ![r].listed = @ \o SubSeq(candidates, 1, walk[r].limit),
                                    ![r].cursor = Cursor(candidates[walk[r].limit])]
          ELSE walk' = [walk EXCEPT ![r].listed = @ \o candidates, ![r].pc = "done"]
    /\ UNCHANGED <<clock, rows>>

-----------------------------------------------------------------------------
(* Writers *)

Becomes(c, row) ==
    /\ rows' = [rows EXCEPT ![c] = row]
    /\ walk' = [r \in Reader |->
                  [walk[r] EXCEPT !.steady = @ \ {d \in {c} : ~Selected(row, walk[r].filter)}]]
    /\ UNCHANGED clock

\* ensure_review_case: opened_at is read from the clock; the row is not yet
\* committed, and the transaction may still be rolled back.
Open(c, triggers) ==
    /\ rows[c].status = "NEW"
    /\ Becomes(c, [status |-> "OPENING", opened |-> clock, triggers |-> triggers])

Commit(c) ==
    /\ rows[c].status = "OPENING"
    /\ Becomes(c, [rows[c] EXCEPT !.status = "OPEN"])

Rollback(c) ==
    /\ rows[c].status = "OPENING"
    /\ Becomes(c, Unopened)

\* A later assessment of the same match adds its signals to the case.
AddTrigger(c, t) ==
    /\ rows[c].status \in Visible
    /\ t.type = "RISK_SIGNAL"
    /\ t \notin rows[c].triggers
    /\ Becomes(c, [rows[c] EXCEPT !.triggers = @ \cup {t}])

\* claim, release and resolve.
Handle(c) ==
    \E old, new \in Visible :
        /\ <<old, new>> \in {<<"OPEN", "CLAIMED">>, <<"CLAIMED", "OPEN">>,
                             <<"CLAIMED", "RESOLVED">>}
        /\ rows[c].status = old
        /\ Becomes(c, [rows[c] EXCEPT !.status = new])

Later ==
    /\ clock < MaxClock
    /\ clock' = clock + 1
    /\ UNCHANGED <<rows, walk>>

-----------------------------------------------------------------------------
Everything == [list |-> "reviews", status |-> Unset, assigned |-> FALSE,
               after |-> 0, before |-> MaxClock + 1,
               type |-> Unset, code |-> Unset, reason |-> Unset]
Resting == [pc |-> "idle", filter |-> Everything, limit |-> 1, cursor |-> Start,
            listed |-> << >>, steady |-> {}]

QueueInit ==
    /\ clock = 0
    /\ rows = [c \in Case |-> Unopened]
    /\ walk = [r \in Reader |-> Resting]

-----------------------------------------------------------------------------
(* Properties *)

\* A case has one row in the result: no join, or a join on one reason of its match.
OneRow(f) == Joins(f) => EffectiveType(f) = "MATCH_REASON" /\ EffectiveCode(f) # Unset

\* Pages are a walk down the list: whatever is opened, committed late, claimed
\* or resolved between two of them, rows come newest first, none comes twice
\* unless the query joins several triggers, and at the end no row is missing
\* that the query selected all along.
PagesComplete ==
    \A r \in Reader :
        LET listed == walk[r].listed
        IN  /\ \A i, j \in DOMAIN listed : i < j =>
                  Newer(listed[i], listed[j]) \/ (listed[i] = listed[j] /\ ~OneRow(walk[r].filter))
            /\ walk[r].pc = "done" => walk[r].steady \subseteq ToSet(listed)
=============================================================================
