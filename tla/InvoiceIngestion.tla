-------------------------- MODULE InvoiceIngestion --------------------------
(***************************************************************************)
(* IngestionService.ingest: concurrent uploads of the same bytes.          *)
(*                                                                         *)
(* Every upload has an object key of its own (a fresh document UUID); the  *)
(* unique index on documents.sha256 lets one of them commit.  The steps    *)
(* are the calls that leave the process: the lookup, the object store's    *)
(* put and delete, the commit, the second lookup and the dispatch.  Any    *)
(* of them may fail, and the process may die between any two.              *)
(***************************************************************************)
EXTENDS Naturals, FiniteSets

CONSTANTS
    Upload,            \* the requests that carry these bytes
    NoDocument,        \* there is no document row for this digest
    AmbiguousCommit    \* may COMMIT take effect and still report an error?

ASSUME UploadAssumption == NoDocument \notin Upload
ASSUME AmbiguousAssumption == AmbiguousCommit \in BOOLEAN

VARIABLES
    store,             \* the object store: the uploads whose object is present
    document,          \* the upload whose document, job and events are committed
    sent,              \* how many process_document messages were published
    up                 \* where each request is

vars == <<store, document, sent, up>>

PC == {"idle", "put", "commit", "conflict", "failed", "recheck", "dispatch",
       "created", "reused", "error", "dead"}

Finished == {"created", "reused", "error", "dead"}

-----------------------------------------------------------------------------
\* Content type, size or signature refused: an error and nothing else.
Refuse(u) ==
    /\ up[u] = "idle"
    /\ up' = [up EXCEPT ![u] = "error"]
    /\ UNCHANGED <<store, document, sent>>

\* _find_existing(digest)
Lookup(u) ==
    /\ up[u] = "idle"
    /\ up' = [up EXCEPT ![u] = IF document = NoDocument THEN "put" ELSE "reused"]
    /\ UNCHANGED <<store, document, sent>>

\* object_key: invoices/{document_id}/..., with a document_id of this request's own.
KeyOf(u) == u

PutObject(u) ==
    /\ up[u] = "put"
    /\ store' = store \cup {KeyOf(u)}
    /\ up' = [up EXCEPT ![u] = "commit"]
    /\ UNCHANGED <<document, sent>>

\* put raises before the try block: the error reaches the caller.
PutFails(u) ==
    /\ up[u] = "put"
    /\ up' = [up EXCEPT ![u] = "error"]
    /\ UNCHANGED <<store, document, sent>>

\* Mutant of DigestFree: the index on sha256 is not unique.
DigestAlwaysFree(u) == u \in store

\* The unique index on documents.sha256 admits the row.
DigestFree(u) == document = NoDocument

\* INSERT document, job, upload.accepted and document.validated; COMMIT.
Commit(u) ==
    /\ up[u] = "commit"
    /\ DigestFree(u)
    /\ document' = u
    /\ up' = [up EXCEPT ![u] = "dispatch"]
    /\ UNCHANGED <<store, sent>>

\* IntegrityError: another request committed the same digest.
CommitConflict(u) ==
    /\ up[u] = "commit"
    /\ ~DigestFree(u)
    /\ up' = [up EXCEPT ![u] = "conflict"]
    /\ UNCHANGED <<store, document, sent>>

\* Any other error of the transaction: nothing was committed...
CommitFails(u) ==
    /\ up[u] = "commit"
    /\ up' = [up EXCEPT ![u] = "failed"]
    /\ UNCHANGED <<store, document, sent>>

\* ... or the connection broke after the server had committed.
CommitUnacknowledged(u) ==
    /\ AmbiguousCommit
    /\ up[u] = "commit"
    /\ DigestFree(u)
    /\ document' = u
    /\ up' = [up EXCEPT ![u] = "failed"]
    /\ UNCHANGED <<store, sent>>

\* Mutant of OwnObject: the loser cleans up the key of the stored document.
DocumentObject(u) == {document}

\* What object_store.delete(object_key) removes.
OwnObject(u) == {KeyOf(u)}

\* Rollback and delete; after a conflict the request goes on to look again.
Cleanup(u) ==
    /\ up[u] \in {"conflict", "failed"}
    /\ store' = store \ OwnObject(u)
    /\ up' = [up EXCEPT ![u] = IF up[u] = "conflict" THEN "recheck" ELSE "error"]
    /\ UNCHANGED <<document, sent>>

\* delete raises: the error reaches the caller and the object stays.
CleanupFails(u) ==
    /\ up[u] \in {"conflict", "failed"}
    /\ up' = [up EXCEPT ![u] = "error"]
    /\ UNCHANGED <<store, document, sent>>

\* The second _find_existing, which re-raises when there is nothing.
Recheck(u) ==
    /\ up[u] = "recheck"
    /\ up' = [up EXCEPT ![u] = IF document = NoDocument THEN "error" ELSE "reused"]
    /\ UNCHANGED <<store, document, sent>>

Dispatch(u) ==
    /\ up[u] = "dispatch"
    /\ sent' = sent + 1
    /\ up' = [up EXCEPT ![u] = "created"]
    /\ UNCHANGED <<store, document>>

\* enqueue raises: logged, and the job stays queued.
DispatchFails(u) ==
    /\ up[u] = "dispatch"
    /\ up' = [up EXCEPT ![u] = "created"]
    /\ UNCHANGED <<store, document, sent>>

\* The API process dies: an uncommitted transaction is rolled back.
Crash(u) ==
    /\ up[u] \notin Finished
    /\ up' = [up EXCEPT ![u] = "dead"]
    /\ UNCHANGED <<store, document, sent>>

-----------------------------------------------------------------------------
Init ==
    /\ store = {}
    /\ document = NoDocument
    /\ sent = 0
    /\ up = [u \in Upload |-> "idle"]

Next == \E u \in Upload :
    \/ Refuse(u) \/ Lookup(u)
    \/ PutObject(u) \/ PutFails(u)
    \/ Commit(u) \/ CommitConflict(u) \/ CommitFails(u) \/ CommitUnacknowledged(u)
    \/ Cleanup(u) \/ CleanupFails(u) \/ Recheck(u)
    \/ Dispatch(u) \/ DispatchFails(u)
    \/ Crash(u)

Spec == Init /\ [][Next]_vars

-----------------------------------------------------------------------------
(* Properties *)

\* Every variable keeps its type; objects are only ever stored under the keys of
\* the uploads that write them.
TypeOK ==
    /\ store \subseteq Upload
    /\ document \in Upload \cup {NoDocument}
    /\ sent \in Nat
    /\ up \in [Upload -> PC]

\* A committed document has its bytes: whichever concurrent upload loses the
\* race, or fails, its cleanup never removes the object the row points to.  Only
\* an upload whose own commit took effect and reported an error removes it.
DocumentHasObject ==
    document # NoDocument =>
        document \in store \/ (AmbiguousCommit /\ up[document] = "error")

\* One upload creates the job and every other caller is given that same job,
\* under any interleaving of duplicate requests (README: "including under
\* concurrent requests").
OneCreator ==
    \A u \in Upload :
        /\ up[u] \in {"dispatch", "created"} => document = u
        /\ up[u] = "reused" => document # NoDocument

\* Uploads publish at most one message for the document, and only after the
\* row that the worker loads is committed.
SentAfterCommit ==
    /\ sent <= 1
    /\ sent = 1 => document # NoDocument /\ up[document] = "created"

\* Only a crash or a failing delete leaves an object that no row points to:
\* an upload that was answered "reused", or is still to clean up, owns none.
LosersLeaveNothing ==
    \A u \in Upload : up[u] \in {"idle", "put", "recheck", "reused"} => u \notin store

\* Duplicate uploads share one job and one message, and the losers clean up.
UploadsShareJob == OneCreator /\ SentAfterCommit /\ LosersLeaveNothing
=============================================================================
