-------------------------- MODULE ReservationLedger --------------------------
(***************************************************************************)
(* What three-way matching promises about goods: a stock per order line    *)
(* that deliveries raise and reversals lower, and claims on it that are    *)
(* made all at once by an owner who has none, fit the unclaimed stock when *)
(* they are made, and are never changed or taken back.                     *)
(***************************************************************************)
EXTENDS Integers, FiniteSets, FiniteSetsExt

CONSTANT QtyTol      \* by how much a claim may exceed what is left

VARIABLES
    stock,           \* line -> quantity
    claims           \* [owner, slot, line, qty]

Claimed(set, l) == MapThenSumSet(LAMBDA c : c.qty, {c \in set : c.line = l})

Init == claims = {} /\ \A l \in DOMAIN stock : stock[l] = 0

Restock ==
    /\ DOMAIN stock' = DOMAIN stock
    /\ \A l \in DOMAIN stock : stock'[l] \in Nat
    /\ UNCHANGED claims

Reserve ==
    LET new == claims' \ claims
    IN  /\ claims \subseteq claims'
        /\ Cardinality({c.owner : c \in new}) = 1
        /\ \A c \in new, d \in claims : c.owner # d.owner
        /\ \A c \in new : c.qty > 0 /\ Claimed(claims', c.line) <= stock[c.line] + QtyTol
        /\ UNCHANGED stock

Spec == Init /\ [][Restock \/ Reserve]_<<stock, claims>>
=============================================================================
