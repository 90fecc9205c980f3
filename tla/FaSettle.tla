------------------------------ MODULE FaSettle ------------------------------
(***************************************************************************)
(* evaluate_settle of checks/facilitator.py: the FA-SET group, which sends *)
(* one valid payment to POST /settle (twice when the first answer is       *)
(* pending), repeats it, and then sends an underpaying one.  Nothing is    *)
(* retried below it: a transport error ends the group with no results.     *)
(*                                                                         *)
(* The answers are parameters; the modules that compose this one supply    *)
(* the facilitator.                                                        *)
(***************************************************************************)
EXTENDS Integers

CONSTANTS
    TxIds,  \* transaction hashes a facilitator may report
    NoTx    \* the empty transaction

ASSUME SettleAssumption == NoTx \notin TxIds

VARIABLES
    step,          \* the payload the group is about: what it sends or grades next
    inFlight,      \* a request is on the wire
    r1,            \* the answer FA-SET-001 is graded on
    firstPending,  \* the pending first answer, or NoAnswer
    answers,       \* every parsed answer, for FA-SET-004
    results        \* by_id

settleVars == <<step, inFlight, r1, firstPending, answers, results>>

SettleChecks == {"FA-SET-001", "FA-SET-002", "FA-SET-003", "FA-SET-004"}

\* PENDING and ABSENT are SKIP with reason settlement_pending, endpoint_absent.
SettleResults == {"PASS", "FAIL", "SKIP", "PENDING", "ABSENT"}

Sends == {"first", "retry", "second", "cheap"}
Steps == {"start", "grade", "grade003"} \cup Sends \cup {"done", "aborted"}

\* What _settle makes of a response.  "invalid": not a SettlementResponse, or
\* a status outside 200..499.  "absent": one of _ENDPOINT_ABSENT.  A successful
\* settlement without a hash does not validate.
Answer ==
    [kind : {"success"}, tx : TxIds, network : BOOLEAN]
      \cup [kind : {"pending", "failed"}, tx : TxIds \cup {NoTx}, network : BOOLEAN]
      \cup [kind : {"invalid", "absent"}, tx : {NoTx}, network : {FALSE}]
NoAnswer == [kind |-> "none", tx |-> NoTx, network |-> FALSE]

Parsed(a) == a.kind \in {"success", "pending", "failed"}

SettleTypeOK ==
    /\ step \in Steps
    /\ inFlight \in BOOLEAN
    /\ r1 \in Answer \cup {NoAnswer}
    /\ firstPending \in Answer \cup {NoAnswer}
    /\ answers \subseteq Answer
    /\ results \in [SettleChecks -> SettleResults \cup {"none"}]

SettleInit ==
    /\ step = "start"
    /\ inFlight = FALSE
    /\ r1 = NoAnswer
    /\ firstPending = NoAnswer
    /\ answers = {}
    /\ results = [c \in SettleChecks |-> "none"]

-----------------------------------------------------------------------------
Record(a) == answers' = IF Parsed(a) THEN answers \cup {a} ELSE answers

\* The whole group has one result.
SkipAll(result) ==
    /\ results' = [c \in SettleChecks |-> result]
    /\ step' = "done"
    /\ inFlight' = FALSE
    /\ UNCHANGED <<r1, firstPending, answers>>

\* Consent, then requirements and a signer; signable is whether the payload can
\* be built (a ValueError leaves the group without results).
StartSettle(allowed, sourced, signable) ==
    /\ step = "start"
    /\ \/ ~(allowed /\ sourced) /\ SkipAll("SKIP")
       \/ /\ allowed /\ sourced
          /\ step' = IF signable THEN "first" ELSE "aborted"
          /\ UNCHANGED <<inFlight, r1, firstPending, answers, results>>

SendSettle ==
    /\ step \in Sends /\ ~inFlight
    /\ inFlight' = TRUE
    /\ UNCHANGED <<step, r1, firstPending, answers, results>>

\* httpx.HTTPError propagates: what the group had found is lost.
SettleFault ==
    /\ inFlight
    /\ step' = "aborted"
    /\ inFlight' = FALSE
    /\ UNCHANGED <<r1, firstPending, answers, results>>

\* The first answer; a pending one gets one retry.
ReceiveFirst(a) ==
    /\ step = "first" /\ inFlight
    /\ \/ a.kind = "absent" /\ SkipAll("ABSENT")
       \/ /\ a.kind # "absent"
          /\ inFlight' = FALSE
          /\ r1' = a
          /\ Record(a)
          /\ IF a.kind = "pending"
             THEN step' = "retry" /\ firstPending' = a
             ELSE step' = "grade" /\ UNCHANGED firstPending
          /\ UNCHANGED results

\* (mutant) a retry that names another broadcast is taken at its word.
RetryVerdictTrusting(a) == IF ~Parsed(a) THEN "FAIL" ELSE "none"

\* What the answer to the retry already says of FA-SET-003: a different hash is
\* a second broadcast of one authorization.
RetryVerdict(a) ==
    IF ~Parsed(a) THEN "FAIL"
    ELSE IF firstPending.tx # NoTx /\ a.tx \notin {NoTx, firstPending.tx} THEN "FAIL"
    ELSE "none"

ReceiveRetry(a) ==
    /\ step = "retry" /\ inFlight
    /\ inFlight' = FALSE
    /\ r1' = a
    /\ Record(a)
    /\ results' = [results EXCEPT !["FA-SET-003"] = RetryVerdict(a)]
    /\ step' = "grade"
    /\ UNCHANGED firstPending

\* FA-SET-001; proof is what _verify_tx_onchain reads now.
FirstVerdict(rpc, proof) ==
    CASE ~Parsed(r1) -> "FAIL"
      [] r1.kind = "pending" -> "PENDING"
      [] OTHER -> IF r1.kind # "success" \/ ~r1.network THEN "FAIL"
                  ELSE IF ~rpc THEN "SKIP" ELSE proof

GradeFirst(rpc, proof) ==
    /\ step = "grade"
    /\ results' = [results EXCEPT !["FA-SET-001"] = FirstVerdict(rpc, proof)]
    /\ step' = "grade003"
    /\ UNCHANGED <<inFlight, r1, firstPending, answers>>

\* (mutant) a payment is repeated after any answer but a failure.
GradeNoRepeatAnyAnswer ==
    /\ step = "grade003"
    /\ \/ results["FA-SET-003"] # "none" /\ step' = "cheap" /\ UNCHANGED results
       \/ /\ results["FA-SET-003"] = "none"
          /\ \/ r1.kind \in {"success", "pending"} /\ step' = "second" /\ UNCHANGED results
             \/ /\ r1.kind \notin {"success", "pending"}
                /\ step' = "cheap"
                /\ results' = [results EXCEPT !["FA-SET-003"] = "SKIP"]
    /\ UNCHANGED <<inFlight, r1, firstPending, answers>>

\* Only a settled payment is repeated.
GradeNoRepeat ==
    /\ step = "grade003"
    /\ \/ results["FA-SET-003"] # "none" /\ step' = "cheap" /\ UNCHANGED results
       \/ /\ results["FA-SET-003"] = "none"
          /\ \/ r1.kind = "success" /\ step' = "second" /\ UNCHANGED results
             \/ /\ r1.kind # "success"
                /\ step' = "cheap"
                /\ results' = [results EXCEPT !["FA-SET-003"] =
                                 IF r1.kind = "pending" THEN "PENDING" ELSE "SKIP"]
    /\ UNCHANGED <<inFlight, r1, firstPending, answers>>

\* (mutant) every repeated success is a double settlement.
RepeatVerdictStrict(a) ==
    IF ~Parsed(a) \/ a.kind = "success" THEN "FAIL" ELSE "PASS"

\* FA-SET-003 on the repeated payment: a second success is a double settlement
\* unless it reconciles a pending first answer to the same transaction.
RepeatVerdict(a) ==
    LET reconciled == firstPending # NoAnswer /\ firstPending.tx # NoTx
    IN  IF ~Parsed(a) THEN "FAIL"
        ELSE IF a.kind = "success" /\ ~(reconciled /\ a.tx = r1.tx) THEN "FAIL"
        ELSE "PASS"

ReceiveSecond(a) ==
    /\ step = "second" /\ inFlight
    /\ inFlight' = FALSE
    /\ Record(a)
    /\ results' = [results EXCEPT !["FA-SET-003"] = RepeatVerdict(a)]
    /\ step' = "cheap"
    /\ UNCHANGED <<r1, firstPending>>

\* (mutant) a failure is a refusal, whatever it broadcast.
CheapVerdictByStatus(a) == IF a.kind \in {"failed", "pending"} THEN "PASS" ELSE "FAIL"

\* FA-SET-002: refused, and before any broadcast.
CheapVerdict(a) == IF a.kind \in {"failed", "pending"} /\ a.tx = NoTx THEN "PASS" ELSE "FAIL"

\* FA-SET-004, over every answer the group received.
PendingVerdict(seen) ==
    LET pending == {a \in seen : a.kind = "pending"}
    IN  IF pending = {} THEN "SKIP"
        ELSE IF \E a \in pending : a.tx = NoTx THEN "FAIL" ELSE "PASS"

ReceiveCheap(a) ==
    /\ step = "cheap" /\ inFlight
    /\ inFlight' = FALSE
    /\ Record(a)
    /\ results' = [results EXCEPT !["FA-SET-002"] = CheapVerdict(a),
                                  !["FA-SET-004"] = PendingVerdict(answers')]
    /\ step' = "done"
    /\ UNCHANGED <<r1, firstPending>>

ReceiveSettle(a) ==
    ReceiveFirst(a) \/ ReceiveRetry(a) \/ ReceiveSecond(a) \/ ReceiveCheap(a)
-----------------------------------------------------------------------------
\* The group against any facilitator.
SettleNext ==
    \/ \E allowed, sourced, signable \in BOOLEAN : StartSettle(allowed, sourced, signable)
    \/ SendSettle
    \/ SettleFault
    \/ \E a \in Answer : ReceiveSettle(a)
    \/ \E rpc \in BOOLEAN, proof \in {"PASS", "FAIL", "SKIP"} : GradeFirst(rpc, proof)
    \/ GradeNoRepeat

SettleSpec == SettleInit /\ [][SettleNext]_settleVars

\* A facilitator that broadcasts again instead of reconciling is caught: two
\* hashes for the first payment and its retry fail FA-SET-003, and nothing the
\* group sees afterwards takes the finding back (the `by_id` pre-decision).
RebroadcastIsCaught ==
    /\ firstPending # NoAnswer /\ firstPending.tx # NoTx
    /\ step \in {"grade", "grade003", "cheap", "done"}
    /\ r1.tx \notin {NoTx, firstPending.tx}
    => results["FA-SET-003"] = "FAIL"

\* What is still pending after the one retry is judged neither way: FA-SET-001
\* and FA-SET-003 both stay open, and the run is not certified (x402#3214).
StillPendingIsOpen ==
    step = "done" /\ firstPending # NoAnswer /\ r1.kind = "pending"
        /\ (firstPending.tx = NoTx \/ r1.tx = firstPending.tx)
    => results["FA-SET-001"] = "PENDING" /\ results["FA-SET-003"] = "PENDING"

\* An underpayment that reached the chain is never a pass, and FA-SET-002 and
\* FA-SET-004 agree on a pending answer to it: one of them fails.
BroadcastUnderpaymentFails ==
    [][ \A a \in answers' \ answers :
          step = "cheap" /\ (a.tx # NoTx \/ a.kind = "pending") =>
             "FAIL" \in {results'["FA-SET-002"], results'["FA-SET-004"]} ]_settleVars
=============================================================================
