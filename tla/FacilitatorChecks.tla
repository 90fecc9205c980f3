-------------------------- MODULE FacilitatorChecks -------------------------
(***************************************************************************)
(* The registry checks of checks/facilitator.py, which send nothing that   *)
(* settles: /supported, three invalid payments to /verify, and what those  *)
(* answers carried.  Each judgement is a status and a reason code.         *)
(***************************************************************************)
EXTENDS NegativeChecks

FaRegistry ==
    <<"SUP_001", "SUP_002", "VER_002", "VER_003", "VER_004", "ERR_001", "EXT_001">>

\* What the /verify checks submit: signed for one unit, or for an asset that is
\* an account.
FaProbes(price) ==
    LET cheap == Build([Offer(price) EXCEPT !.amount = 1], "open")
        account == Build([Offer(price) EXCEPT !.asset = "account"], "open")
    IN  [VER_002 |-> cheap, VER_003 |-> account, VER_004 |-> account, ERR_001 |-> cheap]

EndpointAbsent == {404, 405, 501}

Judged(status) == [status |-> status, code |-> "none"]
Absent == [status |-> "skip", code |-> "endpoint_absent"]

\* fa_sup_001: /supported is optional, a present one must be whole.
JudgeSupported(answer) ==
    IF answer.status # 200 THEN Judged("skip")
    ELSE IF answer.body # "complete" THEN Judged("fail") ELSE Judged("pass")

\* fa_sup_002.
JudgeKinds(answer) ==
    IF answer.status # 200 \/ answer.body = "malformed" THEN Judged("skip")
    ELSE IF answer.kinds # "wellFormed" THEN Judged("fail") ELSE Judged("pass")

\* _verify: no response to judge.
Unparsed(answer) == answer.status \notin 200..499 \/ answer.body = "malformed"

JudgeAmount(answer) ==
    IF Unparsed(answer) \/ answer.body = "valid" THEN Judged("fail") ELSE Judged("pass")

\* A refusal for another reason than the canonical one is a pass with a note.
JudgeAsset(answer) ==
    IF Unparsed(answer) \/ answer.body = "valid" THEN Judged("fail")
    ELSE IF answer.reason = "asset_not_deployed_contract" THEN Judged("pass")
    ELSE [status |-> "pass", code |-> "noncanonical_reason"]

JudgeClean(answer) ==
    IF answer.status \in 200..299 \cup 400..499 THEN Judged("pass") ELSE Judged("fail")

JudgeReason(answer) ==
    IF Unparsed(answer) \/ answer.reason \in {"none", "unknown"}
    THEN Judged("fail") ELSE Judged("pass")

\* (mutant) an absent endpoint is graded by its status.
JudgeVerifyPresent(check, answer) ==
    IF check = "VER_002" THEN JudgeAmount(answer)
    ELSE IF check = "VER_003" THEN JudgeAsset(answer)
    ELSE IF check = "VER_004" THEN JudgeClean(answer)
    ELSE JudgeReason(answer)

\* What is not there is not graded.
JudgeVerify(check, answer) ==
    IF answer.status \in EndpointAbsent THEN Absent
    ELSE IF check = "VER_002" THEN JudgeAmount(answer)
    ELSE IF check = "VER_003" THEN JudgeAsset(answer)
    ELSE IF check = "VER_004" THEN JudgeClean(answer)
    ELSE JudgeReason(answer)

\* fa_ext_001, over every EXTENSION-RESPONSES header the checks before it saw.
JudgeExtensions(seen) ==
    IF seen = {} THEN Judged("skip")
    ELSE IF "malformed" \in seen THEN Judged("fail") ELSE Judged("pass")
=============================================================================
