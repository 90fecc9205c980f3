---------------------------- MODULE ChainClient -----------------------------
(***************************************************************************)
(* What the suite's own side signs for and reads from the chain of         *)
(* OnchainFacilitator: payload_builder.py and the chain reads of           *)
(* checks/payment.py.  Reads see the chain as it is at that moment.        *)
(***************************************************************************)
EXTENDS OnchainFacilitator

CONSTANTS
    Window,  \* maxTimeoutSeconds
    Faults   \* which of FaultKinds the environment shows

\* lost: the request never reaches the server (ConnectError).  timeout: the
\* client stops waiting (ReadTimeout) while the request lives on.  reset: a
\* protocol error.  gateway: an intermediary answers 429/502/503/504 in the
\* server's stead.  rpc: a chain read of the client fails.  crash: a send or the
\* grading of what came back raises, or a thread cannot be started.
FaultKinds == {"lost", "timeout", "reset", "gateway", "rpc", "crash"}

ASSUME ChainClientAssumption ==
    /\ Window \in Nat \ {0}
    /\ Amount > 0
    /\ Faults \subseteq FaultKinds

\* build_exact_eip3009_payload: validAfter 0 and the rest from the requirement.
BuildAuthorization(value, expiry, nonce) ==
    [from |-> Payer, to |-> PayTo, value |-> value,
     validAfter |-> 0, validBefore |-> expiry, nonce |-> nonce]

\* validBefore = now + maxTimeoutSeconds, within the bound of the clock.
Expiry == IF timestamp + Window > MaxTime THEN MaxTime + 1 ELSE timestamp + Window

\* _read_token_balance and the comparison with the price.
BalanceReads ==
    {IF balanceOf[Payer] >= Amount THEN "enough" ELSE "short"}
      \cup {b \in {"unreadable"} : "rpc" \in Faults}

\* _verify_transfer_logs: the one Transfer of the receipt is the expected one.
ProvesTransfer(tx) ==
    \E m \in mined :
        /\ m.tx = tx /\ m.ok
        /\ tx.auth.from = Payer /\ tx.auth.to = PayTo /\ tx.auth.value = Amount

\* _verify_tx_onchain: a read that fails is reported as a transaction that is
\* not there.
TxProofs(tx) ==
    {IF ProvesTransfer(tx) THEN "PASS" ELSE "FAIL"}
      \cup {p \in {"FAIL"} : "rpc" \in Faults}
=============================================================================
