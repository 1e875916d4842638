SPECIFICATION Spec
CONSTANTS
    Upload = {u1, u2, u3, u4}
    NoDocument = none
    AmbiguousCommit = TRUE
CHECK_DEADLOCK FALSE
INVARIANTS DocumentHasObject UploadsShareJob
