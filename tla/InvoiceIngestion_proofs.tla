---------------------- MODULE InvoiceIngestion_proofs -----------------------
(***************************************************************************)
(* Proofs about InvoiceIngestion, for any set of concurrent uploads.       *)
(***************************************************************************)
EXTENDS InvoiceIngestion, TLAPS

USE UploadAssumption, AmbiguousAssumption

\* What holds whether or not a commit may be unacknowledged: the upload that
\* owns the row is past its commit, and one about to commit has its object.
IInv ==
    /\ TypeOK
    /\ OneCreator
    /\ SentAfterCommit
    /\ LosersLeaveNothing
    /\ \A u \in Upload :
          /\ up[u] = "commit" => u \in store
          /\ document = u => up[u] \in {"dispatch", "created", "failed", "error", "dead"}

\* The owner of the row cleans up only after an ambiguous commit, and once.
Kept ==
    /\ DocumentHasObject
    /\ \A u \in Upload :
          document = u /\ up[u] \in {"failed", "error"} => AmbiguousCommit

LEMMA IInvInit == Init => IInv /\ Kept
BY DEF Init, IInv, Kept, TypeOK, OneCreator, SentAfterCommit, LosersLeaveNothing,
       DocumentHasObject, PC

\* The invariant is preserved, one step per action.
LEMMA IInvStep == IInv /\ [Next]_vars => IInv'
<1> SUFFICES ASSUME IInv, [Next]_vars PROVE IInv'
    OBVIOUS
<1> USE DEF IInv, TypeOK, OneCreator, SentAfterCommit, LosersLeaveNothing, PC
<1>1. ASSUME NEW u \in Upload, Refuse(u) PROVE IInv'
    BY <1>1 DEF Refuse
<1>2. ASSUME NEW u \in Upload, Lookup(u) PROVE IInv'
    BY <1>2 DEF Lookup
<1>3. ASSUME NEW u \in Upload, PutObject(u) PROVE IInv'
    BY <1>3 DEF PutObject, KeyOf
<1>4. ASSUME NEW u \in Upload, PutFails(u) PROVE IInv'
    BY <1>4 DEF PutFails
<1>5. ASSUME NEW u \in Upload, Commit(u) PROVE IInv'
    BY <1>5 DEF Commit, DigestFree
<1>6. ASSUME NEW u \in Upload, CommitConflict(u) PROVE IInv'
    BY <1>6 DEF CommitConflict, DigestFree
<1>7. ASSUME NEW u \in Upload, CommitFails(u) PROVE IInv'
    BY <1>7 DEF CommitFails
<1>8. ASSUME NEW u \in Upload, CommitUnacknowledged(u) PROVE IInv'
    BY <1>8 DEF CommitUnacknowledged, DigestFree
<1>9. ASSUME NEW u \in Upload, Cleanup(u) PROVE IInv'
    BY <1>9 DEF Cleanup, OwnObject, KeyOf
<1>10. ASSUME NEW u \in Upload, CleanupFails(u) PROVE IInv'
    BY <1>10 DEF CleanupFails
<1>11. ASSUME NEW u \in Upload, Recheck(u) PROVE IInv'
    BY <1>11 DEF Recheck
<1>12. ASSUME NEW u \in Upload, Dispatch(u) PROVE IInv'
    BY <1>12 DEF Dispatch
<1>13. ASSUME NEW u \in Upload, DispatchFails(u) PROVE IInv'
    BY <1>13 DEF DispatchFails
<1>14. ASSUME NEW u \in Upload, Crash(u) PROVE IInv'
    BY <1>14 DEF Crash, Finished
<1>15. CASE UNCHANGED vars
    BY <1>15 DEF vars
<1> QED BY <1>1, <1>2, <1>3, <1>4, <1>5, <1>6, <1>7, <1>8, <1>9, <1>10, <1>11,
           <1>12, <1>13, <1>14, <1>15 DEF Next

\* Only the owner's own cleanup after an ambiguous commit removes its object.
LEMMA KeptStep ==
    ASSUME IInv, Kept, [Next]_vars
    PROVE  Kept'
<1> USE DEF Kept, DocumentHasObject, IInv, TypeOK
<1>1. ASSUME NEW u \in Upload, Refuse(u) \/ Lookup(u) \/ PutFails(u) \/ CommitFails(u)
             \/ CommitConflict(u) \/ Recheck(u)
      PROVE  Kept'
    <2>1. /\ store' = store /\ document' = document
          /\ up[u] \notin {"dispatch", "created", "failed", "error", "dead"}
          /\ \A v \in Upload : v # u => up'[v] = up[v]
        BY <1>1 DEF Refuse, Lookup, PutFails, CommitFails, CommitConflict, Recheck
    <2> QED BY <2>1
<1>2. ASSUME NEW u \in Upload, PutObject(u) PROVE Kept'
    BY <1>2 DEF PutObject, KeyOf
<1>3. ASSUME NEW u \in Upload, Commit(u) PROVE Kept'
    BY <1>3 DEF Commit
<1>4. ASSUME NEW u \in Upload, CommitUnacknowledged(u) PROVE Kept'
    BY <1>4 DEF CommitUnacknowledged
<1>5. ASSUME NEW u \in Upload, Cleanup(u) PROVE Kept'
    BY <1>5 DEF Cleanup, OwnObject, KeyOf
<1>6. ASSUME NEW u \in Upload, Dispatch(u) \/ DispatchFails(u) \/ Crash(u) PROVE Kept'
    BY <1>6 DEF Dispatch, DispatchFails, Crash, Finished
<1>7. ASSUME NEW u \in Upload, CleanupFails(u) PROVE Kept'
    BY <1>7 DEF CleanupFails
<1>8. CASE UNCHANGED vars
    BY <1>8 DEF vars
<1> QED BY <1>1, <1>2, <1>3, <1>4, <1>5, <1>6, <1>7, <1>8 DEF Next

-----------------------------------------------------------------------------
\* Duplicate uploads share one job and one message, whatever fails or dies.
THEOREM UploadsDeduplicate == Spec => []UploadsShareJob
<1>1. IInv => UploadsShareJob
    BY DEF IInv, UploadsShareJob
<1> QED BY <1>1, IInvInit, IInvStep, PTL DEF Spec

\* A stored document has its bytes, unless its own upload was told that a commit
\* which took effect had failed; with unambiguous commits, always.
THEOREM DocumentsKeepObjects == Spec => []DocumentHasObject
<1>1. IInv /\ Kept /\ [Next]_vars => Kept'
    BY KeptStep
<1>2. Kept => DocumentHasObject
    BY DEF Kept
<1> QED BY <1>1, <1>2, IInvInit, IInvStep, PTL DEF Spec
=============================================================================
