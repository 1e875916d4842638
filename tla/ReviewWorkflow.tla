--------------------------- MODULE ReviewWorkflow ---------------------------
(***************************************************************************)
(* What the review workflow promises its users (docs/review.md), with      *)
(* every command a single step on the case: no requests in flight, no      *)
(* stale reads, no event rows.  ReviewCase implements it with              *)
(* case <- row.                                                            *)
(***************************************************************************)
EXTENDS Integers

CONSTANTS Reviewer, NoReviewer, Resolution

VARIABLE case        \* the review case as its readers see it

Absent == [status |-> "NONE", assignee |-> NoReviewer,
           resolution |-> "NONE", reason |-> "NONE", version |-> 0]

OpenAt(version) == [status |-> "OPEN", assignee |-> NoReviewer,
                    resolution |-> "NONE", reason |-> "NONE", version |-> version]

HeldBy(a) == case.status = "CLAIMED" /\ case.assignee = a

Open == case = Absent /\ case' = OpenAt(1)

Claim(a) ==
    /\ case.status = "OPEN"
    /\ case' = [status |-> "CLAIMED", assignee |-> a, resolution |-> "NONE",
                reason |-> "NONE", version |-> case.version + 1]

Release(a) == HeldBy(a) /\ case' = OpenAt(case.version + 1)

Comment ==
    /\ case.status \in {"OPEN", "CLAIMED"}
    /\ case' = [case EXCEPT !.version = case.version + 1]

\* A resolution names its outcome and carries a non-blank reason.
Resolve(a, res) ==
    /\ HeldBy(a)
    /\ case' = [status |-> "RESOLVED", assignee |-> a, resolution |-> res,
                reason |-> "x", version |-> case.version + 1]

Init == case = Absent

Next ==
    \/ Open
    \/ Comment
    \/ \E a \in Reviewer : Claim(a)
    \/ \E a \in Reviewer : Release(a)
    \/ \E a \in Reviewer, res \in Resolution : Resolve(a, res)

Spec == Init /\ [][Next]_case
=============================================================================
