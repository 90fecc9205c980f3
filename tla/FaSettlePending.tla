-------------------------- MODULE FaSettlePending ---------------------------
(***************************************************************************)
(* The FA-SET group against a facilitator.  A conformant one is what its   *)
(* comments describe: it broadcasts an authorization once, may answer      *)
(* before the broadcast is confirmed, and on a retry looks the stored      *)
(* broadcast up instead of broadcasting again (CORE 5.3.2 and 9, x402#3083,*)
(* x402#3214).  Any other one answers anything.                            *)
(***************************************************************************)
EXTENDS FaSettle

VARIABLES
    conformant, \* the facilitator is the one described
    broadcast,  \* its valid payment: "none", "pending" or "confirmed"
    hash,       \* its transaction once broadcast
    told        \* it has answered it with success

chainVars == <<conformant, broadcast, hash, told>>
pendingVars == <<settleVars, chainVars>>

Succeeds == [kind |-> "success", tx |-> hash, network |-> TRUE]
Pends == [kind |-> "pending", tx |-> hash, network |-> TRUE]
Refuses == [kind |-> "failed", tx |-> NoTx, network |-> TRUE]
RefusesNaming == [Refuses EXCEPT !.tx = hash]  \* a duplicate of this settlement

\* What it may answer now: an underpayment and the repeat of a payment already
\* reported as settled are refused, a known broadcast is reported as it stands;
\* who was told pending may also be told of the same settlement again.
Answers ==
    IF ~conformant THEN Answer
    ELSE IF step = "cheap" THEN {Refuses}
    ELSE IF broadcast = "pending" THEN {Pends}
    ELSE IF ~told THEN {Succeeds}
    ELSE {Refuses, RefusesNaming} \cup {a \in {Succeeds} : firstPending # NoAnswer}

\* What the RPC can say of the settlement the facilitator reported.
Proofs ==
    IF ~conformant THEN {"PASS", "FAIL", "SKIP"}
    ELSE IF broadcast = "confirmed" THEN {"PASS"} ELSE {"FAIL"}

PendingInit ==
    /\ SettleInit
    /\ conformant \in BOOLEAN
    /\ broadcast = "none" /\ hash = NoTx /\ told = FALSE

Group ==
    /\ \/ \E allowed, sourced, signable \in BOOLEAN : StartSettle(allowed, sourced, signable)
       \/ SendSettle
       \/ SettleFault
       \/ \E rpc \in BOOLEAN, proof \in Proofs : GradeFirst(rpc, proof)
       \/ GradeNoRepeat
    /\ UNCHANGED chainVars

\* The valid payment arrives for the first time and is broadcast.
Broadcast ==
    /\ conformant /\ inFlight /\ step # "cheap" /\ broadcast = "none"
    /\ broadcast' = "pending"
    /\ hash' \in TxIds
    /\ UNCHANGED <<settleVars, conformant, told>>

Confirm ==
    /\ broadcast = "pending"
    /\ broadcast' = "confirmed"
    /\ UNCHANGED <<settleVars, conformant, hash, told>>

Reply ==
    /\ inFlight
    /\ conformant /\ step # "cheap" => broadcast # "none"
    /\ \E a \in Answers :
         /\ ReceiveSettle(a)
         /\ told' = (told \/ (conformant /\ a = Succeeds))
    /\ UNCHANGED <<conformant, broadcast, hash>>

PendingEnded == step \in {"done", "aborted"} /\ UNCHANGED pendingVars

PendingNext == Group \/ Broadcast \/ Confirm \/ Reply \/ PendingEnded

PendingSpec == PendingInit /\ [][PendingNext]_pendingVars

-----------------------------------------------------------------------------
\* A facilitator that pends and reconciles as the protocol says fails no check
\* of the group, whenever its broadcast confirms: before the first answer,
\* between any two sends, or never.
ConformantIsCleared ==
    conformant => \A c \in SettleChecks : results[c] # "FAIL"

\* It is certified for double settlement only on evidence: FA-SET-003 passes
\* only when the payment is in a block and the facilitator has said so.
ClearedOnEvidence ==
    conformant /\ results["FA-SET-003"] = "PASS" => broadcast = "confirmed" /\ told
=============================================================================
