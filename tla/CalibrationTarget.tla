-------------------------- MODULE CalibrationTarget -------------------------
(***************************************************************************)
(* tools/calibration_target.py: the reference resource server and /verify  *)
(* endpoint the suite is calibrated on.  `bugs` are its --bug-* options:   *)
(* validations left out, and two misbehaviours of its own.                 *)
(***************************************************************************)
EXTENDS NegativeChecks

CONSTANT Extreme  \* 10^30, above twice any price

ASSUME TargetAssumption == Extreme \in Nat \ {0} /\ Huge \in Nat /\ Huge > Extreme

\* The validations, named by the option that drops them.
VerifySteps == {"recipient", "amount", "time", "signature"}
Steps == VerifySteps \cup {"version", "scheme_network", "resource_bind"}
BugNames == Steps \cup {"leak", "crash_huge"}

\* The signature recovers to `from` over the authorization presented, in the
\* domain of the token the server sells for.
SignatureRecovers(payload) ==
    payload.signed = [auth |-> payload.auth, network |-> "own", asset |-> "token",
                      key |-> payload.auth.from]

\* Which validations the payment does not meet.
Unmet(payload, price) ==
    LET unmet == [version |-> payload.version # 2,
                  scheme_network |-> payload.accepted.network # "own",
                  resource_bind |-> payload.resource # "own"
                                      \/ payload.accepted.resource \notin {"unset", "own"},
                  recipient |-> payload.auth.to # "merchant",
                  amount |-> payload.auth.value # price,
                  time |-> payload.auth.window # "open",
                  signature |-> ~SignatureRecovers(payload)]
    IN  {s \in Steps : unmet[s]}

Response(status, settlement, body) ==
    [status |-> status, settlement |-> settlement, body |-> body]

\* do_GET with a PAYMENT-SIGNATURE header.  http.server itself refuses a header
\* line that is too long; its answer is taken to arrive.
GetPaid(payload, price, bugs) ==
    IF payload.form = "oversized" THEN Response(431, "none", "plain")
    ELSE IF payload.form # "payload" THEN Response(400, "none", "plain")
    ELSE IF "crash_huge" \in bugs /\ payload.auth.value > Extreme
         THEN Response(500, "none", "plain")
    ELSE IF Unmet(payload, price) \ bugs # {}
         THEN Response(402, "failure", IF "leak" \in bugs THEN "marked" ELSE "plain")
    ELSE Response(200, "success", "marked")

\* do_POST /verify: _verify_payload.  Its reasons are all registered codes.
PostVerify(payload, price, bugs) ==
    IF (Unmet(payload, price) \cap VerifySteps) \ bugs = {}
    THEN [status |-> 200, body |-> "valid", reason |-> "none", extension |-> "none"]
    ELSE [status |-> 200, body |-> "invalid", reason |-> "known", extension |-> "none"]

\* do_GET /supported.
GetSupported == [status |-> 200, body |-> "complete", kinds |-> "wellFormed"]
=============================================================================
