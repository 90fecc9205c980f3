---------------------------- MODULE FaSettleFlow ----------------------------
(***************************************************************************)
(* The FA-SET group against POST /settle of the on-chain facilitator and   *)
(* its chain: run_facilitator_checks with --settle.  Each send is one      *)
(* connection and is never retried.                                        *)
(***************************************************************************)
EXTENDS ChainClient

CONSTANTS GoodNonce, CheapNonce  \* the random nonces of the two authorizations

VARIABLES
    step, inFlight, r1, firstPending, seen, results,  \* FaSettle
    expiry                                            \* validBefore of what was signed

Group == INSTANCE FaSettle WITH TxIds <- Tx, answers <- seen

groupVars == <<step, inFlight, r1, firstPending, seen, results>>
settleFlowVars == <<facVars, groupVars, expiry>>

\* The underpaying authorization is the valid one with "amount": "1".
CheapValue == 1

\* The authorization behind each send, and what it goes out with at time t.
Key(conn) == IF conn = "cheap" THEN "cheap" ELSE "good"
Payment(k, t) ==
    IF k = "cheap" THEN BuildAuthorization(CheapValue, t, CheapNonce)
    ELSE BuildAuthorization(Amount, t, GoodNonce)
RequestAt(conn, t) ==
    [conn |-> conn, route |-> "settle", signer |-> Payer, auth |-> Payment(Key(conn), t)]

\* The group is alone with the merchant, and Requests is what it can send.
ASSUME SettleFlowAssumption ==
    /\ Conns = Group!Sends
    /\ {GoodNonce, CheapNonce} \subseteq Nonces /\ GoodNonce # CheapNonce
    /\ MerchantAlone
    /\ Requests = {RequestAt(conn, t) : conn \in Conns, t \in 1 .. MaxTime + 1}

RequestOf(conn) == RequestAt(conn, expiry[Key(conn)])

\* This facilitator's answers always parse, and never say pending.
AnswerOf(a) ==
    [kind |-> IF a.outcome = "settled" THEN "success" ELSE "failed",
     tx |-> a.tx, network |-> TRUE]

SettleFlowInit ==
    FacInit /\ Group!SettleInit /\ expiry = [k \in {"good", "cheap"} |-> 0]

\* The valid payment is signed as the group starts, the underpaying one as its
\* turn comes.
Signs(k) == expiry' = [expiry EXCEPT ![k] = Expiry]
SignsCheapInTurn ==
    IF step' = "cheap" /\ step # "cheap" THEN Signs("cheap") ELSE UNCHANGED expiry

GroupStart ==
    /\ \E allowed \in BOOLEAN : Group!StartSettle(allowed, TRUE, TRUE)
    /\ IF step' = "first" THEN Signs("good") ELSE UNCHANGED expiry
    /\ UNCHANGED facVars

GroupSend ==
    /\ Group!SendSettle
    /\ \/ Arrive(RequestOf(step))
       \/ "lost" \in Faults /\ UNCHANGED facVars
    /\ UNCHANGED expiry

GroupReceive ==
    /\ \E a \in answers : a.conn = step /\ Group!ReceiveSettle(AnswerOf(a))
    /\ SignsCheapInTurn
    /\ UNCHANGED facVars

GroupFault ==
    /\ "timeout" \in Faults \/ Unused(step)
    /\ Group!SettleFault
    /\ UNCHANGED <<facVars, expiry>>

GroupGrade ==
    /\ \/ \E proof \in TxProofs(r1.tx) : Group!GradeFirst(TRUE, proof)
       \/ Group!GradeNoRepeat
    /\ SignsCheapInTurn
    /\ UNCHANGED facVars

GroupStep == GroupStart \/ GroupSend \/ GroupReceive \/ GroupFault \/ GroupGrade
ServerStep == Handle /\ UNCHANGED <<groupVars, expiry>>
ChainStep == Chain /\ UNCHANGED <<groupVars, expiry>>
Ended == step \in {"done", "aborted"} /\ UNCHANGED settleFlowVars

SettleFlowNext == GroupStep \/ ServerStep \/ ChainStep \/ Ended

SettleFlowSpec == SettleFlowInit /\ [][SettleFlowNext]_settleFlowVars

-----------------------------------------------------------------------------
\* A facilitator whose token never lets a nonce settle twice is not accused of
\* it, though blocks, drains and expiry come between the two sends.
NoFalseDoubleSettle == results["FA-SET-003"] # "FAIL"

\* The three settles of the group cost the payer one price at most, whether the
\* group ends in a report or is cut off with a settlement in the pool.
GroupCostsOnePrice == balanceOf[PayTo] \in {0, Amount}
=============================================================================
