--------------------------- MODULE NegativeChecks ---------------------------
(***************************************************************************)
(* checks/negative.py: the payments the active group sends, each with one  *)
(* thing broken, and the judgement of the answer.  A payment keeps what a  *)
(* server can check; its signature is the message that was signed.         *)
(***************************************************************************)
EXTENDS Integers, Sequences

CONSTANT Huge  \* the largest uint256

\* The accepts entry a check attacks: choose_eip3009_requirement's pick.
Offer(price) == [network |-> "own", asset |-> "token", payTo |-> "merchant",
                 amount |-> price, resource |-> "unset"]

\* build_exact_eip3009_payload: signed in the domain of the requirements given,
\* which are also what `accepted` claims.
Build(offer, window) ==
    LET auth == [from |-> "signer", to |-> offer.payTo, value |-> offer.amount,
                 window |-> window, nonce |-> "bytes32"]
    IN  [form |-> "payload", version |-> 2, accepted |-> offer, resource |-> "own",
         auth |-> auth,
         signed |-> [auth |-> auth, network |-> offer.network, asset |-> offer.asset,
                     key |-> "signer"]]

\* Signed for other requirements, claiming the server's own.
Claiming(payload, offer) == [payload EXCEPT !.accepted = offer]

TamperSignature(payload) == [payload EXCEPT !.signed.key = "nobody"]
TamperFrom(payload, from) == [payload EXCEPT !.auth.from = from]

\* A header value that holds no payment.
Raw(form) == [form |-> form]

Larger(a, b) == IF a > b THEN a ELSE b

\* (mutant) The value is lowered after signing: two defects in one payment.
UnderpaymentTampered(offer, amount) ==
    [Build(offer, "open") EXCEPT !.auth.value = amount]

\* neg_005: signed for the lower value, so that only the value is wrong.
Underpayment(offer, amount) ==
    Claiming(Build([offer EXCEPT !.amount = amount], "open"), offer)

\* What each check sends.  First, what verification must find.
VerificationProbes(price) ==
    LET offer == Offer(price)
        valid == Build(offer, "open")
    IN  [NEG_001 |-> Raw("notBase64"),
         NEG_002 |-> Raw("notJson"),
         NEG_003 |-> TamperSignature(valid),
         NEG_004 |-> TamperFrom(valid, "attacker"),
         NEG_005 |-> Underpayment(offer, Larger(1, price \div 2)),
         NEG_007 |-> Claiming(Build([offer EXCEPT !.payTo = "attacker"], "open"), offer),
         NEG_008 |-> Build(offer, "expired"),
         NEG_009 |-> Build(offer, "future")]

\* What the payment is bound to: the server's price, token, chain and resource.
BindingProbes(price) ==
    LET offer == Offer(price)
        foreign == Build([offer EXCEPT !.network = "foreign"], "open")
    IN  [NEG_013 |-> Build([offer EXCEPT !.amount = 1], "open"),
         NEG_014 |-> Build([offer EXCEPT !.asset = "otherToken"], "open"),
         NEG_015 |-> Build([offer EXCEPT !.asset = "account"], "open"),
         SEC_010 |-> Claiming(foreign, offer),
         SEC_003 |-> [Build(offer, "open") EXCEPT !.resource = "foreign",
                                                  !.accepted.resource = "foreign"]]

\* Values and headers at the edges.  RS-NEG-016 sends nothing to a server that
\* declares no builder-code extension.
EdgeProbes(price) ==
    LET offer == Offer(price)
        valid == Build(offer, "open")
    IN  [NEG_006 |-> Build([offer EXCEPT !.amount = 2 * price], "open"),
         SEC_011 |-> Build([offer EXCEPT !.amount = Huge], "open"),
         SEC_005 |-> Raw("oversized"),
         SEC_007 |-> TamperFrom(valid, "mangled"),
         SEC_006 |-> TamperSignature(valid),
         SEC_004 |-> [valid EXCEPT !.auth.nonce = "twoBytes"],
         NEG_011 |-> Claiming(valid, [offer EXCEPT !.network = "unoffered"]),
         NEG_012 |-> [valid EXCEPT !.version = 99]]

Probes(price) ==
    LET verification == VerificationProbes(price)
        binding == BindingProbes(price)
        edge == EdgeProbes(price)
    IN  [check \in DOMAIN verification \cup DOMAIN binding \cup DOMAIN edge |->
            IF check \in DOMAIN verification THEN verification[check]
            ELSE IF check \in DOMAIN binding THEN binding[check]
            ELSE edge[check]]

\* ACTIVE_REGISTRY, in its order.
ActiveRegistry ==
    <<"NEG_001", "NEG_002", "NEG_003", "NEG_004", "NEG_005", "NEG_007", "NEG_008", "NEG_009",
      "NEG_013", "NEG_014", "NEG_015", "SEC_010", "SEC_003", "NEG_006", "SEC_011", "SEC_005",
      "SEC_007", "SEC_006", "SEC_004", "NEG_011", "NEG_012", "NEG_016">>

\* A positive underpayment needs a price above one; a substitute asset must be one.
Inapplicable(check, price) ==
    \/ check = "NEG_005" /\ price <= 1
    \/ check = "NEG_014" /\ Offer(price).asset = "otherToken"
    \/ check = "NEG_015" /\ Offer(price).asset = "account"
    \/ check = "NEG_016"

AllowedStatuses(check) ==
    CASE check \in {"NEG_001", "NEG_002"} -> {400}
      [] check = "NEG_012"                -> {400, 402}
      [] check = "SEC_005"                -> 400..499
      [] OTHER                            -> {402}

\* _assert_rejected, with the crash tests some checks make before it.  status 0
\* is an answer that never came; the marker is found when it is `looked` for.
AssertRejected(response, allowed, looked) ==
    IF \/ response.status = 0 \/ response.status >= 500
       \/ response.settlement \in {"malformed", "success", "broadcast"}
       \/ response.status \in 200..299
       \/ looked /\ response.body = "marked"
       \/ response.status \notin allowed
    THEN "fail" ELSE "pass"
=============================================================================
