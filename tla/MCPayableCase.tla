---------------------------- MODULE MCPayableCase ----------------------------
(* Small instances of PayableCase; interchangeable requests, workers and documents. *)
EXTENDS PayableCase, TLC

CONSTANTS s1, s2, w1, w2

Team(sessions, workers, invoices, supporting) ==
    [sessions |-> sessions, workers |-> workers, invoices |-> invoices,
     supporting |-> supporting]

\* Two operators and a worker on two orders; one operator and two workers on two
\* orders; one operator and a worker on two orders and a receipt, or on two
\* invoices and an order.
MCTeams ==
    UNION {{Team({s1, s2}, {w}, {i}, Order), Team({s}, {w1, w2}, {i}, Order),
            Team({s}, {w}, {i}, Order \cup Receipt), Team({s}, {w}, Invoice, {o})}
             : s \in {s1, s2}, w \in {w1, w2}, i \in Invoice, o \in Order}
\* Two operators with a worker on every document.
MCOverlap == {Team({s1, s2}, {w1}, Invoice, Order \cup Receipt)}

Symmetry ==
    Permutations({s1, s2}) \cup Permutations({w1, w2})
      \cup Permutations(Invoice) \cup Permutations(Order) \cup Permutations(Receipt)
=============================================================================
