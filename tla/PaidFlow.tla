------------------------------ MODULE PaidFlow ------------------------------
(***************************************************************************)
(* The whole paid run: the client of PaymentClient against the server and  *)
(* chain of OnchainFacilitator over a network that loses requests, loses   *)
(* or delays answers, resets connections and answers through a gateway.    *)
(* Every attempt of every send is an HTTP connection of its own.           *)
(***************************************************************************)
EXTENDS ChainClient

CONSTANTS
    Racers, MaxRetries,     \* as in PaymentClient
    PayNonce, RaceNonce     \* the random nonces of the two authorizations

VARIABLES
    stage, call, verdict,  \* PaymentClient
    expiry                 \* validBefore of what was signed, 0 if nothing was

Client == INSTANCE PaymentClient WITH TxIds <- Tx, BareTx <- NoTx

runVars == <<stage, call, verdict>>
paidVars == <<facVars, runVars, expiry>>

NonceOf == [pay |-> PayNonce, race |-> RaceNonce]

\* The merchant's balance moves by this run alone, and Requests has what the
\* client can put on the wire.
ASSUME PaidAssumption ==
    /\ MaxRetries \in Nat
    /\ IsFiniteSet(Racers) /\ Racers \cap {"pay", "replay"} = {}
    /\ Conns = Client!Calls \X (0 .. MaxRetries)
    /\ {PayNonce, RaceNonce} \subseteq Nonces /\ PayNonce # RaceNonce
    /\ MerchantAlone
    /\ \A conn \in Conns, t \in 1 .. MaxTime + 1 :
          [conn |-> conn, route |-> "resource", signer |-> Payer,
           auth |-> BuildAuthorization(Amount, t, NonceOf[Client!AuthKey(conn[1])])] \in Requests

Auth(k) == BuildAuthorization(Amount, expiry[k], NonceOf[k])

Conn(c) == <<c, call[c].attempt>>
RequestOf(c) == [conn |-> Conn(c), route |-> "resource",
                 auth |-> Auth(Client!AuthKey(c)), signer |-> Payer]

\* What a header parse makes of the server's answer.
ResponseOf(a) ==
    [status |-> a.status,
     settlement |-> IF a.outcome = "settled" THEN "success" ELSE "failed",
     tx |-> a.tx, matching |-> TRUE, shared |-> FALSE, leaks |-> FALSE]

GatewayResponse == [Client!TransportError EXCEPT !.status = 503]

PaidInit == FacInit /\ Client!ClientInit /\ expiry = [k \in Client!AuthKeys |-> 0]

-----------------------------------------------------------------------------
\* The client moves and nothing else does.
ClientOnly == UNCHANGED <<facVars, expiry>>

RunStart == \E payable, rpcMatches \in BOOLEAN : Client!Start(payable, rpcMatches) /\ ClientOnly

\* _read_token_balance reads the chain now; the payment settles later.
ReadBalance ==
    /\ \E balance \in BalanceReads : Client!Preflight(balance)
    /\ ClientOnly

SignPay ==
    /\ Client!SignPayment(TRUE)
    /\ expiry' = [expiry EXCEPT !["pay"] = Expiry]
    /\ UNCHANGED facVars

\* The request reaches the backlog, or the connection fails before it does.
SendAttempt(c) ==
    /\ Client!Send(c)
    /\ UNCHANGED expiry
    /\ \/ Arrive(RequestOf(c))
       \/ "lost" \in Faults /\ UNCHANGED facVars

ReceiveAnswer(c) ==
    /\ \/ \E a \in answers : a.conn = Conn(c) /\ Client!Receive(c, ResponseOf(a))
       \/ "gateway" \in Faults /\ Client!Receive(c, GatewayResponse)
       \/ {"gateway", "crash"} \subseteq Faults /\ Client!RetryAfterRaises(c, GatewayResponse)
    /\ ClientOnly

\* A lost request has no answer to come, so it ends in a fault of its own.
Fault(c) ==
    /\ \/ ("timeout" \in Faults \/ Unused(Conn(c))) /\ Client!RetryableFault(c)
       \/ "reset" \in Faults /\ Client!FatalFault(c)
    /\ ClientOnly

GradePaid ==
    /\ \E proof \in TxProofs(call["pay"].response.tx) : Client!Grade(proof, FALSE)
    /\ ClientOnly

Unstarted == {u \in SUBSET Racers : u # {} => "crash" \in Faults}

\* The second authorization is signed as the race begins.
GradeReplayed ==
    /\ \E unstarted \in Unstarted : Client!GradeReplay(unstarted)
    /\ expiry' = [expiry EXCEPT !["race"] = Expiry]
    /\ UNCHANGED facVars

CrashOut == "crash" \in Faults /\ Client!Crash /\ ClientOnly

ClientStep ==
    \/ RunStart \/ ReadBalance \/ SignPay \/ GradePaid \/ GradeReplayed
    \/ \E c \in Client!Calls : SendAttempt(c) \/ ReceiveAnswer(c) \/ Fault(c)
    \/ Client!GradeRace /\ ClientOnly
    \/ CrashOut

ServerStep == Handle /\ UNCHANGED <<runVars, expiry>>
ChainStep == Chain /\ UNCHANGED <<runVars, expiry>>
Reported == stage = "done" /\ UNCHANGED paidVars

PaidNext == ClientStep \/ ServerStep \/ ChainStep \/ Reported

PaidSpec == PaidInit /\ [][PaidNext]_paidVars

-----------------------------------------------------------------------------
PaidOnChain(k) == \E m \in mined : m.ok /\ m.tx.auth.nonce = NonceOf[k]
Delivered(k) == \E a \in answers : a.outcome = "settled" /\ a.auth.nonce = NonceOf[k]

\* Whatever is lost, repeated or raced, a run costs the payer the price of the
\* payment and, once that one has settled, of the race: never a third transfer.
SpendIsBounded ==
    /\ balanceOf[PayTo] <= 2 * Amount
    /\ balanceOf[PayTo] > Amount => Client!Settled(call["pay"].response)

\* A passed RS-PAY-001 stands for a transfer in a block.
AcceptedIsPaid == verdict["RS-PAY-001"] = "PASS" => PaidOnChain("pay")

\* Against this server, which never lets a nonce settle twice, no interleaving
\* of retries, replays and racing threads produces a double-spend finding.
NoFalseDoubleSpend == verdict["RS-SEC-001"] # "FAIL" /\ verdict["RS-SEC-002"] # "FAIL"

\* "No payment sent" is true when it is said: a run that skips RS-PAY-001 or puts
\* it in error from the preflight has moved nothing to the merchant, then or later
\* (evaluate_payment's early returns).  The ERROR of the group's net (CRASH) says
\* "check crashed", of a payment that may have settled, and is not meant.
NotRunMeansNotPaid ==
    verdict["RS-PAY-001"] \in {"SKIP", "ERROR"} => balanceOf[PayTo] = 0

\* As long as the client's chain reads work, RS-PAY-004 never misses a transfer
\* of this server: the settlement it names is in a block with the exact transfer
\* (settle's receipt wait against _verify_tx_onchain).
ProofNeverMisses == "rpc" \notin Faults => verdict["RS-PAY-004"] # "FAIL"

\* "A hiccup doesn't turn into a spurious finding" (active.py:34-35): a payment
\* that settled is not reported as "valid payment was not accepted".
PaidIsNotRejected == verdict["RS-PAY-001"] = "FAIL" => ~PaidOnChain("pay")

\* The abstract payment, as the chain and the server's answers show it.
AbstractStatus ==
    [k \in Client!AuthKeys |->
        IF Delivered(k) THEN "delivered"
        ELSE IF PaidOnChain(k) THEN "paid"
        ELSE IF expiry[k] # 0 THEN "signed" ELSE "unsigned"]

Exact == INSTANCE ExactPayment WITH
            First <- "pay", Second <- "race", Price <- Amount,
            status <- AbstractStatus, merchant <- balanceOf[PayTo]

\* The run implements the abstract payment.
ImplementsExactPayment == Exact!Spec
=============================================================================
