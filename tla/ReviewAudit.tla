---------------------------- MODULE ReviewAudit -----------------------------
(***************************************************************************)
(* ReviewService.verify_audit running beside the requests and repairs of   *)
(* ReviewCase.  It reads the case row and then, in a second statement of a *)
(* READ COMMITTED transaction, the events; commits may fall in between.    *)
(***************************************************************************)
EXTENDS ReviewCase, FiniteSets

VARIABLE audit       \* the verification in progress: the case row it has read

IdleAudit == AbsentRow

\* self.get(case_id)
VerifyReadCase ==
    /\ audit = IdleAudit
    /\ row.version > 0
    /\ audit' = row
    /\ UNCHANGED vars

\* Mutant of Reconstruct: comments are skipped, as they change no status.
ReconstructSkipsComments(st, e) ==
    IF e.type # "COMMENT_ADDED" /\ ValidEvent(st, e) THEN ApplyEvent(st, e) ELSE st


\* _reconstruct_event: an invalid event leaves the reconstruction where it was.
Reconstruct(st, e) == IF ValidEvent(st, e) THEN ApplyEvent(st, e) ELSE st

\* The state after the first n events of evs.
Reconstructed(evs) ==
    LET after[n \in Nat] ==
          IF n = 0 THEN AbsentRow ELSE Reconstruct(after[n - 1], evs[n])
    IN  after

\* The loop of verify_audit finds nothing wrong with event n.
EventChecks(evs, n) ==
    LET e == evs[n]
    IN  /\ e.prev = (IF n = 1 THEN GenesisHash ELSE evs[n - 1].hash)
        /\ e.hash = EventHash(n, e.type, e.actor, e.payload, e.prev)
        /\ ValidEvent(Reconstructed(evs)[n - 1], e)

\* valid = not errors, for the case row `loaded` and the events read after it.
AuditValid(loaded, evs) ==
    LET count == Cardinality(DOMAIN evs)
    IN  /\ \A n \in 1..count : n \in DOMAIN evs /\ EventChecks(evs, n)
        /\ Reconstructed(evs)[count] = loaded   \* MATERIALIZED_STATE_MISMATCH

\* The events are read and compared; the verdict is AuditValid(audit, events).
VerifyReadEvents ==
    /\ audit # IdleAudit
    /\ audit' = IdleAudit
    /\ UNCHANGED vars

AuditInit == Init /\ audit = IdleAudit

AuditNext ==
    \/ Next /\ UNCHANGED audit
    \/ VerifyReadCase
    \/ VerifyReadEvents

AuditSpec == AuditInit /\ [][AuditNext]_<<vars, audit>>

-----------------------------------------------------------------------------
\* A verification during which nothing was committed to the case reports a
\* valid chain: verify_audit never accuses an untouched history at rest.
QuietAuditValid ==
    [][VerifyReadEvents /\ audit = row => AuditValid(audit, events)]_<<vars, audit>>
=============================================================================
