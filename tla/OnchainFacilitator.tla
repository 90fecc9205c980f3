------------------------- MODULE OnchainFacilitator -------------------------
(***************************************************************************)
(* tools/onchain_facilitator.py: one single-threaded HTTP server that is   *)
(* both the protected resource and the facilitator, settling on the        *)
(* MockUSDC token through a node (mempool, blocks, receipts).              *)
(*                                                                         *)
(* A request is taken from the accept backlog, read for as long as its     *)
(* client takes to send it, verified by reads that end in an eth_call of   *)
(* the very transfer, broadcast, and answered when the receipt is there or *)
(* the wait for it fails.  The chain moves between those steps.  `signer`  *)
(* is the account an authorization's signature recovers to.                *)
(***************************************************************************)
EXTENDS MockUSDC

CONSTANTS
    Conns,          \* HTTP connections (one request each, HTTP/1.0)
    PayTo, Amount,  \* REQ["payTo"], REQ["amount"]
    Payer, Funding, \* the funded EIP-3009 signer and its initial balance
    Requests,       \* the requests clients may send
    Slow,           \* those whose client may stop half way
    Externals,      \* authorizations third parties may submit themselves
    Mints,          \* calls of the token's open faucet
    NoTx            \* the empty transaction field of an answer

VARIABLES
    backlog,       \* requests accepted by the kernel and not yet handled
    phase,         \* where the handler stands: "idle", "verified", "awaiting"
    current,       \* the request being handled (meaningless when idle)
    sent,          \* the transaction whose receipt is awaited (NoTx otherwise)
    answers,       \* every response written so far
    unread,        \* requests of the backlog of which a part is still to be sent
    reading,       \* the one of them the idle handler is blocked on, if any
    dropped,       \* connections closed without an answer
    pool,          \* broadcast transactions not yet in a block
    mined,         \* receipts
    accountNonce   \* the facilitator account's transaction count

wireVars == <<unread, reading, dropped>>
handlerVars == <<backlog, phase, current, sent, answers, wireVars>>
nodeVars == <<pool, mined, accountNonce>>
facVars == <<tokenVars, handlerVars, nodeVars>>

\* do_GET and do_POST, by path and body; "unreadable" is what they raise on: a
\* Content-Length that is no number, an authorization that is no object.
StaticRoutes == {"supported", "unpaid", "malformedGet", "malformedPost", "unknownPost"}
SettleRoutes == {"resource", "settle"}
Routes == StaticRoutes \cup SettleRoutes \cup {"verify", "unreadable"}

Request == [conn : Conns, route : Routes, auth : Authorization, signer : Accounts \cup {NoSigner}]

\* The hash of a transaction is a function of what it calls and of the account
\* nonce that signs it in.
Tx == [auth : Authorization, signer : Accounts \cup {NoSigner}, seq : Nat]
Receipt == [tx : Tx, ok : BOOLEAN]

ASSUME FacilitatorAssumption ==
    /\ PayTo \in Accounts
    /\ Payer \in Accounts
    /\ Payer # PayTo
    /\ Amount \in Uint
    /\ Funding \in Uint
    /\ Requests \subseteq Request
    /\ Slow \subseteq Requests
    /\ Externals \subseteq Authorization
    /\ Mints \subseteq [to : Accounts, amount : Uint]
    /\ NoTx \notin Tx

Outcomes == {"supported", "challenge", "malformed", "notFound", "valid", "invalid",
             "settled", "failed"}
Reasons == {"none", "invalid_payload", "recipient_mismatch", "value_mismatch", "valid_before",
            "valid_after", "signature", "insufficient_funds", "unexpected_verify_error",
            "invalid_transaction_state", "unexpected_settle_error"}
Answer == [conn : Conns, route : Routes, auth : Authorization, status : {200, 400, 402, 404},
           outcome : Outcomes, reason : Reasons, tx : Tx \cup {NoTx}]

FacTypeOK ==
    /\ TokenTypeOK
    /\ backlog \subseteq Request
    /\ phase \in {"idle", "verified", "awaiting"}
    /\ phase # "idle" => current \in Request
    /\ phase = "awaiting" => sent \in Tx
    /\ answers \subseteq Answer
    /\ unread \subseteq Request /\ reading \subseteq Request
    /\ dropped \subseteq Conns
    /\ pool \subseteq Tx
    /\ mined \subseteq Receipt
    /\ accountNonce \in Nat

\* The token is deployed and the payer has been minted Funding.
FacInit ==
    /\ balanceOf = [a \in Accounts |-> IF a = Payer THEN Funding ELSE 0]
    /\ totalSupply = Funding
    /\ authorizationState = [a \in Accounts |-> [n \in Nonces |-> FALSE]]
    /\ timestamp = 1
    /\ backlog = {}
    /\ phase = "idle"
    /\ current = NoTx
    /\ sent = NoTx
    /\ answers = {}
    /\ unread = {} /\ reading = {} /\ dropped = {}
    /\ pool = {}
    /\ mined = {}
    /\ accountNonce = 0

-----------------------------------------------------------------------------
(* What verify() decides.                                                  *)

\* (mutant) the amount is not compared with the requirement.
OffchainErrorAnyValue(auth) ==
    IF auth.to # PayTo THEN "recipient_mismatch"
    ELSE IF auth.validBefore <= timestamp THEN "valid_before"
    ELSE IF auth.validAfter > timestamp THEN "valid_after"
    ELSE "none"

\* _verify_offchain, in its order; the server's clock is the chain's.
OffchainError(auth) ==
    IF auth.to # PayTo THEN "recipient_mismatch"
    ELSE IF auth.value # Amount THEN "value_mismatch"
    ELSE IF auth.validBefore <= timestamp THEN "valid_before"
    ELSE IF auth.validAfter > timestamp THEN "valid_after"
    ELSE "none"

\* (mutant) the nonce is looked up but the transfer is not simulated.
SimulateNonceOnly(req) ==
    {"invalid_transaction_state"}
        \cup {r \in {"none"} : ~authorizationState[req.auth.from][req.auth.nonce]}

\* _check_unused_and_simulate: a failed read and a revert read the same.
SimulateResults(req) ==
    {"invalid_transaction_state"}
        \cup {r \in {"none"} : CanTransfer(req.auth, req.signer)}

\* _check_balance, whose read may fail, before the simulation.
ChainResults(req) ==
    {"unexpected_verify_error"} \cup
        IF balanceOf[req.auth.from] < req.auth.value
        THEN {"insufficient_funds"}
        ELSE SimulateResults(req)

\* The possible results of verify(); "none" is isValid.
VerifyResults(req) ==
    LET off == OffchainError(req.auth) IN
    IF off # "none" THEN {off}
    ELSE IF req.signer # req.auth.from THEN {"signature"}
    ELSE ChainResults(req)

-----------------------------------------------------------------------------
(* The clients.                                                            *)

\* The connection has not carried a request yet.
Unused(conn) ==
    /\ \A r \in backlog : r.conn # conn
    /\ phase # "idle" => current.conn # conn
    /\ \A a \in answers : a.conn # conn
    /\ conn \notin dropped

Queue(req) ==
    /\ Unused(req.conn)
    /\ backlog' = backlog \cup {req}
    /\ UNCHANGED <<tokenVars, nodeVars, phase, current, sent, answers, reading, dropped>>

\* A connection reaches the accept queue, all of its request sent.
Arrive(req) == Queue(req) /\ UNCHANGED unread

\* The client has opened the connection and stops before the end of the request.
ArrivePartly(req) ==
    /\ Queue(req)
    /\ unread' = unread \cup {req}

SendRest(req) ==
    /\ req \in unread
    /\ unread' = unread \ {req}
    /\ UNCHANGED <<tokenVars, nodeVars, backlog, phase, current, sent, answers, reading, dropped>>

\* The client closes its end instead; the read, now or when its turn comes, ends
\* short and nobody is there to be answered.
HangUp(req) ==
    /\ req \in unread
    /\ unread' = unread \ {req}
    /\ backlog' = backlog \ {req}
    /\ reading' = reading \ {req}
    /\ dropped' = dropped \cup {req.conn}
    /\ UNCHANGED <<tokenVars, nodeVars, phase, current, sent, answers>>

Clients ==
    \/ \E req \in Requests : Arrive(req)
    \/ \E req \in Slow : ArrivePartly(req)
    \/ \E req \in unread : SendRest(req) \/ HangUp(req)

-----------------------------------------------------------------------------
(* The handler.                                                            *)

\* The one thread takes a connection of which a part is missing: neither the
\* read of the headers nor rfile.read has a timeout.
Wait(req) ==
    /\ phase = "idle" /\ reading = {} /\ req \in unread
    /\ reading' = {req}
    /\ UNCHANGED <<tokenVars, nodeVars, backlog, phase, current, sent, answers, unread, dropped>>

\* All of the request is there and the thread is not blocked on another one.
Reads(req) ==
    /\ phase = "idle" /\ req \in backlog \ unread
    /\ reading \subseteq {req}

\* The handler raises and the server closes the connection.
HandleUnreadable(req) ==
    /\ Reads(req) /\ req.route = "unreadable"
    /\ backlog' = backlog \ {req}
    /\ reading' = {}
    /\ dropped' = dropped \cup {req.conn}
    /\ UNCHANGED <<tokenVars, nodeVars, phase, current, sent, answers, unread>>

\* _send: the response is written and the handler takes the next connection.
Respond(req, status, outcome, reason, tx) ==
    /\ answers' = answers \cup {[conn |-> req.conn, route |-> req.route, auth |-> req.auth,
                                 status |-> status, outcome |-> outcome,
                                 reason |-> reason, tx |-> tx]}
    /\ phase' = "idle"
    /\ current' = NoTx
    /\ sent' = NoTx
    /\ reading' = {}
    /\ UNCHANGED <<unread, dropped>>

\* A settle result: the resource speaks through its status, POST /settle
\* always answers 200.
RespondSettle(req, outcome, reason, tx) ==
    LET status == IF req.route = "settle" \/ outcome = "settled" THEN 200 ELSE 402
    IN  Respond(req, status, outcome, reason, tx)

StaticStatus == [supported |-> 200, unpaid |-> 402, malformedGet |-> 400,
                 malformedPost |-> 200, unknownPost |-> 404]
StaticOutcome == [supported |-> "supported", unpaid |-> "challenge",
                  malformedGet |-> "malformed", malformedPost |-> "invalid",
                  unknownPost |-> "notFound"]

\* Paths and bodies that never reach verify().
HandleStatic(req) ==
    /\ Reads(req) /\ req.route \in StaticRoutes
    /\ backlog' = backlog \ {req}
    /\ LET reason == IF req.route = "malformedPost" THEN "invalid_payload" ELSE "none"
       IN  Respond(req, StaticStatus[req.route], StaticOutcome[req.route], reason, NoTx)
    /\ UNCHANGED <<tokenVars, nodeVars>>

\* POST /verify: a verdict and no chain write.
HandleVerify(req) ==
    /\ Reads(req) /\ req.route = "verify"
    /\ backlog' = backlog \ {req}
    /\ \E reason \in VerifyResults(req) :
           Respond(req, 200, IF reason = "none" THEN "valid" ELSE "invalid", reason, NoTx)
    /\ UNCHANGED <<tokenVars, nodeVars>>

\* (mutant) a used nonce is answered with the settlement that used it.
RefuseSettleIdempotent(req) ==
    /\ Reads(req) /\ req.route \in SettleRoutes
    /\ backlog' = backlog \ {req}
    /\ \/ \E m \in mined : m.ok /\ m.tx.auth = req.auth
                           /\ RespondSettle(req, "settled", "none", m.tx)
       \/ \E reason \in VerifyResults(req) \ {"none"} :
              RespondSettle(req, "failed", reason, NoTx)
    /\ UNCHANGED <<tokenVars, nodeVars>>

\* settle(): verification fails, nothing is broadcast.
RefuseSettle(req) ==
    /\ Reads(req) /\ req.route \in SettleRoutes
    /\ backlog' = backlog \ {req}
    /\ \E reason \in VerifyResults(req) \ {"none"} :
           RespondSettle(req, "failed", reason, NoTx)
    /\ UNCHANGED <<tokenVars, nodeVars>>

\* settle(): verification passed; the transaction is about to be built.
BeginSettle(req) ==
    /\ Reads(req) /\ req.route \in SettleRoutes
    /\ "none" \in VerifyResults(req)
    /\ backlog' = backlog \ {req}
    /\ phase' = "verified"
    /\ current' = req
    /\ reading' = {}
    /\ UNCHANGED <<tokenVars, nodeVars, sent, answers, unread, dropped>>

\* build_transaction takes the account nonce from the latest block, so an
\* earlier transaction still in the pool is signed over.
NextTx == [auth |-> current.auth, signer |-> current.signer, seq |-> accountNonce]

\* The node keeps one transaction per account nonce: when the gas price has risen
\* enough a new one takes the place of the pooled one, else it is refused.
PoolWithNext == {p \in pool : p.seq # accountNonce} \cup {NextTx}

\* (mutant) the hash to wait for is not kept.
BroadcastForgetting ==
    /\ phase = "verified"
    /\ pool' = PoolWithNext
    /\ phase' = "awaiting"
    /\ UNCHANGED <<tokenVars, mined, accountNonce, backlog, current, answers, sent, wireVars>>

\* send_raw_transaction returns the hash.
Broadcast ==
    /\ phase = "verified"
    /\ pool' = PoolWithNext
    /\ sent' = NextTx
    /\ phase' = "awaiting"
    /\ UNCHANGED <<tokenVars, mined, accountNonce, backlog, current, answers, wireVars>>

\* Building or sending raises: before the node has the transaction, or (the
\* reply to eth_sendRawTransaction lost) after.
BroadcastFails ==
    /\ phase = "verified"
    /\ \/ UNCHANGED pool
       \/ pool' = PoolWithNext
    /\ RespondSettle(current, "failed", "unexpected_settle_error", NoTx)
    /\ UNCHANGED <<tokenVars, mined, accountNonce, backlog>>

\* (mutant) any receipt is a settlement, reverted ones too.
ReceiptUnread ==
    /\ phase = "awaiting"
    /\ \E m \in mined : m.tx = sent /\ RespondSettle(current, "settled", "none", sent)
    /\ UNCHANGED <<tokenVars, nodeVars, backlog>>

\* The receipt is there: status 1 is a settlement, a revert is a failure
\* answered with an empty transaction.
ReceiptFound ==
    /\ phase = "awaiting"
    /\ \E m \in mined :
         /\ m.tx = sent
         /\ IF m.ok
            THEN RespondSettle(current, "settled", "none", sent)
            ELSE RespondSettle(current, "failed", "invalid_transaction_state", NoTx)
    /\ UNCHANGED <<tokenVars, nodeVars, backlog>>

\* (mutant) the wait for the receipt has no timeout.
ReceiptWaitForever == FALSE /\ UNCHANGED facVars

\* wait_for_transaction_receipt raises: thirty seconds without a block, or a
\* failed poll.  The broadcast transaction stays where it is.
ReceiptWaitFails ==
    /\ phase = "awaiting"
    /\ RespondSettle(current, "failed", "unexpected_settle_error", NoTx)
    /\ UNCHANGED <<tokenVars, nodeVars, backlog>>

Handle ==
    \/ \E req \in backlog :
          \/ Wait(req) \/ HandleUnreadable(req)
          \/ HandleStatic(req) \/ HandleVerify(req) \/ RefuseSettle(req) \/ BeginSettle(req)
    \/ Broadcast \/ BroadcastFails \/ ReceiptFound \/ ReceiptWaitFails

-----------------------------------------------------------------------------
(* The node.                                                               *)

\* A block includes the pooled transaction, which executes or reverts.
Mine(tx) ==
    /\ tx \in pool
    /\ pool' = pool \ {tx}
    /\ accountNonce' = accountNonce + 1
    /\ \/ /\ TransferWithAuthorization(tx.auth, tx.signer)
          /\ mined' = mined \cup {[tx |-> tx, ok |-> TRUE]}
       \/ /\ ~CanTransfer(tx.auth, tx.signer)
          /\ UNCHANGED tokenVars
          /\ mined' = mined \cup {[tx |-> tx, ok |-> FALSE]}
    /\ UNCHANGED handlerVars

\* Someone else's use of the token: another authorization of the payer is
\* submitted by a third party.
External(auth) ==
    /\ TransferWithAuthorization(auth, auth.from)
    /\ UNCHANGED <<handlerVars, nodeVars>>

\* Anyone may mint to anyone.
Faucet(m) ==
    /\ Mint(m.to, m.amount)
    /\ UNCHANGED <<handlerVars, nodeVars>>

Clock == Tick /\ UNCHANGED <<handlerVars, nodeVars>>

\* The chain moves: blocks, other users of the token, time.
Chain ==
    \/ \E tx \in pool : Mine(tx)
    \/ \E auth \in Externals : External(auth)
    \/ \E m \in Mints : Faucet(m)
    \/ Clock

FacNext == Clients \/ Handle \/ Chain

FacSpec == FacInit /\ [][FacNext]_facVars

\* serve_forever takes the next connection and every wait for the node ends: the
\* receipt's after thirty seconds, an RPC call's with the HTTP client's timeout.
\* Nothing makes the chain produce blocks, nor a client send the rest.
FairFacSpec == FacSpec /\ WF_facVars(Handle)

-----------------------------------------------------------------------------
\* Nobody but the facilitator moves tokens to or from the merchant's account.
MerchantAlone ==
    /\ \A auth \in Externals : PayTo \notin {auth.from, auth.to}
    /\ \A m \in Mints : m.to # PayTo

\* The merchant does not pay itself.
PayersAreOthers == \A req \in Requests : req.auth.from # PayTo

-----------------------------------------------------------------------------
(* What the server promises.                                               *)

\* The merchant has exactly the settlements that mined: no failed, timed-out or
\* repeated settle pays it, and none that is in a block is lost.
MerchantHasSettlements ==
    balanceOf[PayTo] = Amount * Cardinality({m \in mined : m.ok})

\* Funds are accounted for: the merchant has its settlements, and nothing is lost
\* or made on the way between the accounts.
FundsAreAccountedFor == MerchantHasSettlements /\ SupplyIsHeld

\* An EIP-3009 authorization settles at most once, however many requests carry
\* it, however their broadcasts, receipts and timeouts interleave (settle).
NoDoubleSettle ==
    \A m1, m2 \in mined :
        /\ m1.ok /\ m2.ok
        /\ m1.tx.auth.from = m2.tx.auth.from
        /\ m1.tx.auth.nonce = m2.tx.auth.nonce
        => m1 = m2

\* A 200 with the premium body stands for a transfer of exactly the required
\* amount to the merchant that is in a block, never for a pooled, reverted or
\* someone else's transaction (settle's return on receipt status 1).
ServedIsPaid ==
    \A a \in answers : a.outcome = "settled" =>
        /\ [tx |-> a.tx, ok |-> TRUE] \in mined
        /\ a.tx.auth = a.auth
        /\ a.auth.to = PayTo /\ a.auth.value = Amount

\* One settlement pays for one response: no two successful answers, on any two
\* connections, name the same transaction.
OneResponsePerSettlement ==
    \A a, b \in answers :
        a.outcome = "settled" /\ b.outcome = "settled" /\ a.tx = b.tx => a = b

\* /verify says valid only of what settle could do at that very moment: the
\* exact amount to the merchant, inside the contract's stricter window, with an
\* unused nonce and the funds there (verify's closing simulation).
ValidIsSettleable ==
    [][ \A a \in answers' \ answers : a.outcome = "valid" =>
           /\ a.auth.to = PayTo /\ a.auth.value = Amount
           /\ CanTransfer(a.auth, a.auth.from) ]_facVars

\* One thread serves everyone.  Unless a client keeps it reading for ever, every
\* request that was sent whole, and that the handler can read, is answered, even
\* if no block is ever produced (serve_forever, wait_for_transaction_receipt).
EveryRequestAnswered ==
    []<>(reading = {}) =>
        \A conn \in Conns :
            (\E req \in backlog \ unread : req.conn = conn /\ req.route # "unreadable")
                ~> (\E a \in answers : a.conn = conn)
=============================================================================
