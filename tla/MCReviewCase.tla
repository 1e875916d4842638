---------------------------- MODULE MCReviewCase ----------------------------
(* A small instance of ReviewCase and ReviewAudit for TLC. *)
EXTENDS ReviewAudit, TLC

\* Reviewers, requests and repair jobs are interchangeable.
Symmetry == Permutations(Reviewer) \cup Permutations(Session)
                \cup Permutations(Repairer)
=============================================================================
