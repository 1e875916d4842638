--------------------------- MODULE MCExtractionJob ---------------------------
(* Small instances of ExtractionJob; interchangeable workers. *)
EXTENDS ExtractionJob

Symmetry == Permutations(Worker)
=============================================================================
