------------------------------- MODULE Verdict -------------------------------
(***************************************************************************)
(* What a set of check results says of the target: exit_code and           *)
(* assessment_exit_code of report.py, and the machine reason of an         *)
(* inconclusive outcome.  A result keeps what these functions read: which  *)
(* check it is as far as they care, its status, whether its severity       *)
(* gates, and its reason code.                                             *)
(***************************************************************************)
EXTENDS Naturals

Statuses == {"pass", "fail", "skip", "error"}
Reasons == {"none", "endpoint_absent", "deferred_pending_upstream",
            "settlement_pending", "noncanonical_reason"}

Result == [check : {"RS-PR-001", "other"}, status : Statuses,
           gating : BOOLEAN, reason : Reasons]

NonConformant(results) ==
    \E r \in results : r.status = "error" \/ (r.status = "fail" /\ r.gating)

NothingApplied(results) == \A r \in results : r.status = "skip"
HasReason(results, reason) == \E r \in results : r.reason = reason
VersionUnproven(results) ==
    \E r \in results : r.check = "RS-PR-001" /\ r.status # "pass"

Unjudged(results) ==
    \/ NothingApplied(results)
    \/ HasReason(results, "deferred_pending_upstream")
    \/ HasReason(results, "settlement_pending")
    \/ VersionUnproven(results)

AssessmentExitCode(results) ==
    IF NonConformant(results) THEN 1 ELSE IF Unjudged(results) THEN 2 ELSE 0

\* (mutant) A reason of the list forgotten: it falls through to the default.
InconclusiveReasonForgets(results) ==
    IF HasReason(results, "endpoint_absent") THEN "endpoint_absent"
    ELSE IF HasReason(results, "deferred_pending_upstream") THEN "deferred_pending_upstream"
    ELSE IF NothingApplied(results) THEN "no_checks_applicable"
    ELSE "not_x402_v2"

\* The most specific cause first; callers ask only about an exit code of 2.
InconclusiveReason(results) ==
    IF HasReason(results, "endpoint_absent") THEN "endpoint_absent"
    ELSE IF HasReason(results, "deferred_pending_upstream") THEN "deferred_pending_upstream"
    ELSE IF HasReason(results, "settlement_pending") THEN "settlement_pending"
    ELSE IF NothingApplied(results) THEN "no_checks_applicable"
    ELSE "not_x402_v2"

=============================================================================
