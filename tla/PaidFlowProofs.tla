--------------------------- MODULE PaidFlowProofs ---------------------------
(***************************************************************************)
(* The whole paid run: what its verdicts say of the chain, and that it     *)
(* implements the abstract payment, the client and the server.  For any    *)
(* number of racing threads and retries, any faults, any prices and any    *)
(* third parties that leave the merchant's account alone.                  *)
(***************************************************************************)
EXTENDS PaidFlow, OnchainFacilitatorProofs, FiniteSetTheorems

\* The client with what is proved of it against any endpoint.
C == INSTANCE PaymentClientProofs WITH TxIds <- Tx, BareTx <- NoTx

\* The authorization that signs k can be on the wire once it is signed.
Signed(k) == expiry[k] # 0

Key(conn) == Client!AuthKey(conn[1])

\* A request or an answer of this run: it carries what was signed for its call.
FromRun(r) ==
    /\ r.conn[1] \in Client!Calls
    /\ r.route = "resource"
    /\ Signed(Key(r.conn)) /\ r.auth = Auth(Key(r.conn))

\* A transaction of this run.
OfRun(tx) == \E k \in Client!AuthKeys : Signed(k) /\ tx.auth = Auth(k)

\* Nothing but what the client signed is on the wire, in the pool or in a block,
\* and the resource's status says whether it was served.
WireInv ==
    /\ \A r \in backlog : FromRun(r)
    /\ phase # "idle" => FromRun(current)
    /\ \A a \in answers :
          FromRun(a) /\ a.status \in {200, 402} /\ (a.status = 200 => a.outcome = "settled")
    /\ \A tx \in pool : OfRun(tx)
    /\ \A m \in mined : OfRun(m.tx)

PaymentSettled == call["pay"].state = "answered" /\ Client!Settled(call["pay"].response)

\* What is signed by each stage, and that a call which is under way carries a
\* signed authorization; the second one is signed after the first has settled.
SignedInv ==
    /\ expiry \in [Client!AuthKeys -> Times]
    /\ stage \in {"start", "preflight", "sign"} => ~Signed("pay")
    /\ stage \in {"start", "preflight", "sign", "pay", "replay"} => ~Signed("race")
    /\ Signed("race") => PaymentSettled
    /\ \A c \in Client!Calls : call[c].state # "idle" => Signed(Client!AuthKey(c))

\* An answer of the server behind the response a call ended with.
Behind(a, c) == a.conn[1] = c /\ a.outcome = "settled" /\ a.tx = call[c].response.tx

\* What the client takes for accepted, the server has answered as settled.
AnswerInv ==
    \A c \in Client!Calls :
        Client!Accepted(call[c].response) => \E a \in answers : Behind(a, c)

\* The merchant has what the authorizations of the run moved.
Received(k) == IF PaidOnChain(k) THEN Amount ELSE 0
MerchantInv == balanceOf[PayTo] = Received("pay") + Received("race")

VerdictInv ==
    /\ verdict["RS-PAY-001"] = "PASS" => Delivered("pay")
    /\ verdict["RS-PAY-001"] \in {"SKIP", "ERROR"} =>
          stage = "done" /\ ~Signed("pay") /\ ~Signed("race")
    /\ NoFalseDoubleSpend
    /\ ProofNeverMisses

\* The strengthening that every step of the run preserves.
PaidInv ==
    /\ FacInv /\ C!ClientInv
    /\ WireInv /\ SignedInv /\ AnswerInv /\ MerchantInv /\ VerdictInv

-----------------------------------------------------------------------------
(* The data of the run.                                                    *)

LEMMA ClientAssumptionHolds ==
    /\ MaxRetries \in Nat
    /\ IsFiniteSet(Racers)
    /\ Racers \cap {"pay", "replay"} = {}
    /\ Tx \cap {NoTx, NoTx} = {}
BY PaidAssumption, FacilitatorAssumption

\* The same, as the client's theorems assume it.
LEMMA ClientOfC ==
    /\ MaxRetries \in Nat
    /\ C!IsFiniteSet(Racers)
    /\ Racers \cap {"pay", "replay"} = {}
    /\ Tx \cap {NoTx, NoTx} = {}
<1>1. IsFiniteSet(Racers) => C!IsFiniteSet(Racers)
  BY Zenon DEF IsFiniteSet, C!IsFiniteSet
<1>2. QED  BY <1>1, ClientAssumptionHolds

\* Three kinds of calls, two authorizations.
LEMMA Keys ==
    /\ Client!AuthKeys = {"pay", "race"}
    /\ \A c \in Client!Calls : Client!AuthKey(c) \in {"pay", "race"}
    /\ {"pay", "replay"} \subseteq Client!Calls /\ Racers \subseteq Client!Calls
    /\ Client!AuthKey("pay") = "pay" /\ Client!AuthKey("replay") = "pay"
    /\ \A c \in Racers : Client!AuthKey(c) = "race" /\ c \notin {"pay", "replay"}
BY ClientAssumptionHolds DEF Client!AuthKeys, Client!AuthKey, Client!Calls

LEMMA NonceOfKeys ==
    /\ NonceOf["pay"] = PayNonce /\ NonceOf["race"] = RaceNonce
    /\ \A k, l \in {"pay", "race"} : NonceOf[k] = NonceOf[l] => k = l
    /\ \A k \in {"pay", "race"} : NonceOf[k] \in Nonces
BY PaidAssumption DEF NonceOf

\* What an authorization of the run says.
LEMMA AuthFields ==
    \A k : /\ Auth(k).from = Payer /\ Auth(k).to = PayTo /\ Auth(k).value = Amount
           /\ Auth(k).nonce = NonceOf[k]
BY DEF Auth, BuildAuthorization

\* What is signed now can be told from what is not signed at all.
LEMMA ExpiryIsSigned ==
    ASSUME timestamp \in Nat
    PROVE  Expiry \in 1 .. MaxTime + 1 /\ Expiry \in Times /\ Expiry # 0
BY TokenAssumption, ChainClientAssumption DEF Expiry, Times

-----------------------------------------------------------------------------
(* A step of the run is a step of its server.                              *)

LEMMA RequestIsPossible ==
    ASSUME C!ClientTypeOK, SignedInv, NEW c \in Client!Calls, call[c].state # "idle"
    PROVE  RequestOf(c) \in Requests /\ FromRun(RequestOf(c))
<1> DEFINE k == Client!AuthKey(c)
           t == expiry[k]
<1>1. call[c].attempt \in 0 .. MaxRetries
  BY DEF C!ClientTypeOK, C!CallState, C!Calls, Client!Calls
<1>2. k \in {"pay", "race"} /\ t \in 1 .. MaxTime + 1
  BY Keys, TokenAssumption DEF SignedInv, Signed, Times
<1>3. Conn(c) \in Conns /\ Conn(c)[1] = c
  BY <1>1, PaidAssumption DEF Conn
<1>4. RequestOf(c) \in Requests
  BY <1>2, <1>3, PaidAssumption DEF RequestOf, Auth
<1>5. FromRun(RequestOf(c))
  BY <1>2, <1>3 DEF FromRun, RequestOf, Key, SignedInv
<1>6. QED  BY <1>4, <1>5

LEMMA ServerSide == PaidInv /\ [PaidNext]_paidVars => [FacNext]_facVars
<1> SUFFICES ASSUME PaidInv, PaidNext PROVE [FacNext]_facVars
  BY DEF paidVars
<1>1. ASSUME NEW c \in Client!Calls, SendAttempt(c) PROVE [FacNext]_facVars
  <2>1. call[c].state # "idle"
    BY <1>1 DEF SendAttempt, Client!Send
  <2>2. RequestOf(c) \in Requests
    BY <2>1, RequestIsPossible DEF PaidInv, C!ClientInv
  <2>3. QED  BY <1>1, <2>2 DEF SendAttempt, FacNext, Clients
<1>2. CASE ClientStep
  BY <1>1, <1>2
     DEF ClientStep, RunStart, ReadBalance, SignPay, GradePaid, GradeReplayed, ReceiveAnswer,
         Fault, CrashOut, ClientOnly
<1>3. CASE ServerStep \/ ChainStep
  BY <1>3 DEF ServerStep, ChainStep, FacNext
<1>4. CASE Reported
  BY <1>4 DEF Reported, paidVars
<1>5. QED  BY <1>2, <1>3, <1>4 DEF PaidNext

-----------------------------------------------------------------------------
(* A step of the run is a step of its client.                              *)

LEMMA ResponsesAreResponses ==
    /\ GatewayResponse \in C!Response
    /\ \A a : a.status \in {200, 402} /\ a.tx \in Tx \cup {NoTx} =>
               ResponseOf(a) \in C!Response
<1>1. Client!TransportError \in C!Response /\ Client!TransportError.status = 0
  BY DEF Client!TransportError, C!Response, C!Statuses
<1>2. GatewayResponse \in C!Response
  BY <1>1 DEF GatewayResponse, C!Response, C!Statuses
<1>3. QED  BY <1>2 DEF ResponseOf, C!Response, C!Statuses

\* One notion of cardinality, whichever instance it is reached through.
LEMMA OneCardinality ==
    \A S : Client!Cardinality(S) = Cardinality(S) /\ C!Cardinality(S) = Cardinality(S)
BY Zenon DEF Client!Cardinality, C!Cardinality, Cardinality

LEMMA ClientSide == PaidInv /\ [PaidNext]_paidVars => [C!ClientNext]_C!clientVars
<1> SUFFICES ASSUME PaidInv, PaidNext PROVE [C!ClientNext]_C!clientVars
  BY DEF paidVars, runVars, C!clientVars
<1>1. CASE RunStart
  <2>1. \E payable, rpcMatches \in BOOLEAN : C!Start(payable, rpcMatches)
    BY <1>1 DEF RunStart, Client!Start, C!Start, Client!Finish, C!Finish,
                Client!PayChecks, C!PayChecks
  <2>2. QED  BY <2>1 DEF C!ClientNext
<1>2. CASE ReadBalance
  <2>1. \E balance \in {"unreadable", "short", "enough"} : C!Preflight(balance)
    BY <1>2 DEF ReadBalance, BalanceReads, Client!Preflight, C!Preflight, Client!Finish,
                C!Finish, Client!PayChecks, C!PayChecks
  <2>2. QED  BY <2>1 DEF C!ClientNext
<1>3. CASE SignPay
  <2>1. C!SignPayment(TRUE)
    BY <1>3 DEF SignPay, Client!SignPayment, C!SignPayment, Client!Launch, C!Launch,
                Client!Idle, C!Idle, Client!TransportError, C!TransportError,
                Client!Calls, C!Calls
  <2>2. QED  BY <2>1 DEF C!ClientNext
<1>4. ASSUME NEW c \in Client!Calls, SendAttempt(c) \/ Fault(c)
      PROVE  C!ClientNext
  <2>1. c \in C!Calls
    BY DEF Client!Calls, C!Calls
  <2>2. C!Send(c) \/ C!RetryableFault(c) \/ C!FatalFault(c)
    BY <1>4 DEF SendAttempt, Fault, Client!Send, C!Send, Client!RetryableFault,
                C!RetryableFault, Client!FatalFault, C!FatalFault, Client!TryAgain, C!TryAgain,
                Client!Answered, C!Answered, Client!TransportError, C!TransportError
  <2>3. QED  BY <2>1, <2>2 DEF C!ClientNext
<1>5. ASSUME NEW c \in Client!Calls, ReceiveAnswer(c)
      PROVE  C!ClientNext
  <2>1. c \in C!Calls
    BY DEF Client!Calls, C!Calls
  <2>2. PICK r \in C!Response : Client!Receive(c, r) \/ Client!RetryAfterRaises(c, r)
    <3>1. \A a \in answers : ResponseOf(a) \in C!Response
      BY ResponsesAreResponses DEF PaidInv, WireInv, FacInv, FacTypeOK, Answer
    <3>2. QED  BY <1>5, <3>1, ResponsesAreResponses DEF ReceiveAnswer
  <2>3. C!Receive(c, r) \/ C!RetryAfterRaises(c, r)
    BY <2>2 DEF Client!Receive, C!Receive, Client!Transient, C!Transient, Client!TryAgain,
                C!TryAgain, Client!Answered, C!Answered, Client!RetryAfterRaises,
                C!RetryAfterRaises
  <2>4. QED  BY <2>1, <2>3 DEF C!ClientNext
<1>6. CASE GradePaid
  <2>1. PICK proof \in {"PASS", "FAIL", "SKIP"} : Client!Grade(proof, FALSE)
    BY <1>6 DEF GradePaid, TxProofs
  <2>2. C!Grade(proof, FALSE)
    BY <2>1 DEF Client!Grade, C!Grade, Client!Delivery, C!Delivery, Client!SettlementShape,
                C!SettlementShape, Client!Consistency, C!Consistency, Client!OnChainProof,
                C!OnChainProof, Client!Cacheability, C!Cacheability, Client!SideChannel,
                C!SideChannel, Client!Served, C!Served, Client!Settled, C!Settled,
                Client!Launch, C!Launch, Client!Idle, C!Idle, Client!TransportError,
                C!TransportError, Client!Calls, C!Calls
  <2>3. QED  BY <2>2 DEF C!ClientNext
<1>7. CASE GradeReplayed
  <2>1. PICK unstarted \in SUBSET Racers : Client!GradeReplay(unstarted)
    BY <1>7 DEF GradeReplayed, Unstarted
  <2>2. C!GradeReplay(unstarted)
    BY <2>1 DEF Client!GradeReplay, C!GradeReplay, Client!Accepted, C!Accepted,
                Client!Served, C!Served, Client!Settled, C!Settled, Client!Launch, C!Launch,
                Client!Idle, C!Idle, Client!TransportError, C!TransportError,
                Client!Calls, C!Calls
  <2>3. QED  BY <2>2 DEF C!ClientNext
<1>8. CASE Client!GradeRace
  <2>1. C!GradeRace
    BY <1>8, OneCardinality
       DEF Client!GradeRace, C!GradeRace, Client!Winners, C!Winners,
           Client!Accepted, C!Accepted, Client!Served, C!Served, Client!Settled,
           C!Settled
  <2>2. QED  BY <2>1 DEF C!ClientNext
<1>9. CASE ServerStep \/ ChainStep \/ Reported
  BY <1>9 DEF ServerStep, ChainStep, Reported, paidVars, runVars, C!clientVars
<1>10. CASE CrashOut
  <2>1. C!Crash
    BY <1>10 DEF CrashOut, Client!Crash, C!Crash, Client!Finish, C!Finish, Client!PayChecks,
                 C!PayChecks, Client!Calls, C!Calls
  <2>2. QED  BY <2>1 DEF C!ClientNext
<1>11. QED
  BY <1>1, <1>2, <1>3, <1>4, <1>5, <1>6, <1>7, <1>8, <1>9, <1>10 DEF PaidNext, ClientStep
-----------------------------------------------------------------------------
(* What is signed, carried and answered.                                   *)

\* What was signed stays signed, and so does what carries it.
LEMMA SignedStays ==
    ASSUME \A k \in Client!AuthKeys : Signed(k) => expiry'[k] = expiry[k]
    PROVE  /\ \A r : FromRun(r) => FromRun(r)'
           /\ \A tx : OfRun(tx) => OfRun(tx)'
<1>1. \A c \in Client!Calls : Client!AuthKey(c) \in Client!AuthKeys
  BY Keys
<1>2. QED  BY <1>1 DEF FromRun, OfRun, Signed, Key, Auth

\* A settled answer of the run is a transfer of it in a block.
LEMMA SettledAnswer ==
    ASSUME PaidInv, NEW a \in answers, a.outcome = "settled"
    PROVE  /\ [tx |-> a.tx, ok |-> TRUE] \in mined
           /\ Key(a.conn) \in Client!AuthKeys
           /\ a.tx.auth = Auth(Key(a.conn)) /\ a.auth = Auth(Key(a.conn))
BY Keys DEF PaidInv, FacInv, ServedIsPaid, WireInv, FromRun, Key

\* One authorization gets one settled answer, on whatever connections it went.
LEMMA OneSettledAnswer ==
    ASSUME PaidInv, NEW a \in answers, NEW b \in answers,
           a.outcome = "settled", b.outcome = "settled", Key(a.conn) = Key(b.conn)
    PROVE  a = b
<1> DEFINE m1 == [tx |-> a.tx, ok |-> TRUE]
           m2 == [tx |-> b.tx, ok |-> TRUE]
<1>1. m1 \in mined /\ m2 \in mined /\ a.tx.auth = b.tx.auth
  BY SettledAnswer
<1>2. m1.ok /\ m2.ok /\ m1.tx = a.tx /\ m2.tx = b.tx
  OBVIOUS
<1>3. m1 = m2
  BY <1>1, <1>2 DEF PaidInv, FacInv, NoDoubleSettle
<1>4. a.tx = b.tx
  BY <1>2, <1>3
<1>5. QED  BY <1>4 DEF PaidInv, FacInv, OneResponsePerSettlement

LEMMA DeliveredIsPaid ==
    ASSUME PaidInv, NEW k \in Client!AuthKeys, Delivered(k)
    PROVE  PaidOnChain(k)
<1>1. PICK a \in answers : a.outcome = "settled" /\ a.auth.nonce = NonceOf[k]
  BY DEF Delivered
<1>2. [tx |-> a.tx, ok |-> TRUE] \in mined /\ a.tx.auth = a.auth
  BY <1>1, SettledAnswer
<1>3. QED  BY <1>1, <1>2 DEF PaidOnChain

LEMMA PaidIsSigned ==
    ASSUME PaidInv, NEW k \in Client!AuthKeys, PaidOnChain(k)
    PROVE  Signed(k)
<1>1. PICK m \in mined : m.ok /\ m.tx.auth.nonce = NonceOf[k]
  BY DEF PaidOnChain
<1>2. PICK l \in Client!AuthKeys : Signed(l) /\ m.tx.auth = Auth(l)
  BY DEF PaidInv, WireInv, OfRun
<1>3. l = k
  BY <1>1, <1>2, Keys, NonceOfKeys, AuthFields
<1>4. QED  BY <1>2, <1>3

\* The response a call was accepted with stands for a settled answer to its
\* authorization.
LEMMA AcceptedIsDelivered ==
    ASSUME PaidInv, NEW c \in Client!Calls, Client!Accepted(call[c].response)
    PROVE  Delivered(Client!AuthKey(c))
<1>1. PICK a \in answers : Behind(a, c)
  BY DEF PaidInv, AnswerInv
<1>2. a.auth = Auth(Client!AuthKey(c))
  BY <1>1, SettledAnswer DEF Behind, Key
<1>3. QED  BY <1>1, <1>2, AuthFields DEF Behind, Delivered

\* At most one of the calls that carry an authorization is accepted.
LEMMA OneAccepted ==
    ASSUME PaidInv, NEW c \in Client!Calls, NEW d \in Client!Calls,
           Client!Accepted(call[c].response), Client!Accepted(call[d].response),
           Client!AuthKey(c) = Client!AuthKey(d)
    PROVE  c = d
<1>1. PICK a \in answers : Behind(a, c)
  BY DEF PaidInv, AnswerInv
<1>2. PICK b \in answers : Behind(b, d)
  BY DEF PaidInv, AnswerInv
<1>3. a = b
  BY <1>1, <1>2, OneSettledAnswer DEF Behind, Key
<1>4. QED  BY <1>1, <1>2, <1>3 DEF Behind
-----------------------------------------------------------------------------
(* The server.                                                             *)

\* What the client sees and has signed does not move with the server or chain.
ClientUnmoved == UNCHANGED <<stage, call, verdict, expiry>>

LEMMA SignedKeeps == ASSUME PaidInv, ClientUnmoved PROVE SignedInv'
BY DEF PaidInv, ClientUnmoved, SignedInv, Signed, PaymentSettled, Client!Settled

LEMMA AnswerKeeps ==
    ASSUME PaidInv, ClientUnmoved, answers \subseteq answers' PROVE AnswerInv'
BY DEF PaidInv, ClientUnmoved, AnswerInv, Behind, Client!Accepted, Client!Settled, Client!Served

LEMMA VerdictKeeps ==
    ASSUME PaidInv, ClientUnmoved, answers \subseteq answers' PROVE VerdictInv'
BY DEF PaidInv, ClientUnmoved, VerdictInv, Signed, Delivered, NoFalseDoubleSpend, ProofNeverMisses

\* The answer to a request of the run is one of the run's.
LEMMA RespondWire ==
    ASSUME PaidInv, NEW req, FromRun(req), NEW status \in {200, 402}, NEW outcome, NEW reason,
           NEW tx, status = 200 => outcome = "settled", Respond(req, status, outcome, reason, tx),
           ClientUnmoved, backlog' \subseteq backlog, UNCHANGED mined,
           \A p \in pool' : OfRun(p)
    PROVE  WireInv' /\ answers \subseteq answers'
<1> DEFINE new == [conn |-> req.conn, route |-> req.route, auth |-> req.auth,
                   status |-> status, outcome |-> outcome, reason |-> reason, tx |-> tx]
<1>1. answers' = answers \cup {new} /\ phase' = "idle"
  BY DEF Respond
<1>2. (\A r : FromRun(r) => FromRun(r)') /\ (\A p : OfRun(p) => OfRun(p)')
  BY SignedStays DEF ClientUnmoved
<1>3. FromRun(new) /\ new.status = status /\ new.outcome = outcome
  BY DEF FromRun
<1>4. QED  BY <1>1, <1>2, <1>3 DEF PaidInv, WireInv

LEMMA SettleFailureWire ==
    ASSUME PaidInv, NEW req, FromRun(req), NEW reason,
           RespondSettle(req, "failed", reason, NoTx),
           ClientUnmoved, backlog' \subseteq backlog, UNCHANGED mined,
           \A p \in pool' : OfRun(p)
    PROVE  WireInv' /\ answers \subseteq answers'
<1>1. Respond(req, 402, "failed", reason, NoTx)
  BY DEF RespondSettle, FromRun
<1>2. QED  BY <1>1, RespondWire

LEMMA ServerWire ==
    ASSUME PaidInv, Handle, ClientUnmoved PROVE WireInv' /\ answers \subseteq answers'
<1>1. (\A r : FromRun(r) => FromRun(r)') /\ (\A p : OfRun(p) => OfRun(p)')
  BY SignedStays DEF ClientUnmoved
<1>2. /\ \A r \in backlog : FromRun(r)
      /\ phase # "idle" => FromRun(current)
      /\ \A p \in pool : OfRun(p)
  BY DEF PaidInv, WireInv
<1>3. phase = "verified" => \A p \in PoolWithNext : OfRun(p)
  <2>1. phase = "verified" => OfRun(NextTx)
    BY <1>2, Keys DEF OfRun, NextTx, FromRun, Key
  <2>2. QED  BY <1>2, <2>1 DEF PoolWithNext
<1>4. ASSUME NEW req \in backlog, HandleStatic(req) \/ HandleVerify(req) \/ HandleUnreadable(req)
      PROVE  FALSE
  BY <1>2, <1>4 DEF HandleStatic, HandleVerify, HandleUnreadable, FromRun, StaticRoutes
<1>5. ASSUME NEW req \in backlog, RefuseSettle(req)
      PROVE  WireInv' /\ answers \subseteq answers'
  BY <1>2, <1>5, SettleFailureWire DEF RefuseSettle, nodeVars
<1>6. ASSUME NEW req \in backlog, BeginSettle(req)
      PROVE  WireInv' /\ answers \subseteq answers'
  <2>1. FromRun(current)'
    BY <1>2, <1>6 DEF BeginSettle, FromRun, Signed, Key, Auth, ClientUnmoved
  <2>2. QED  BY <1>1, <1>6, <2>1 DEF BeginSettle, PaidInv, WireInv, nodeVars
<1>7. CASE Broadcast
  <2>1. FromRun(current)'
    BY <1>2, <1>7 DEF Broadcast, FromRun, Signed, Key, Auth, ClientUnmoved
  <2>2. QED  BY <1>1, <1>3, <1>7, <2>1 DEF Broadcast, PaidInv, WireInv
<1>8. CASE BroadcastFails
  BY <1>2, <1>3, <1>8, SettleFailureWire DEF BroadcastFails
<1>9. CASE ReceiptFound
  <2>1. PICK m \in mined :
           IF m.ok THEN RespondSettle(current, "settled", "none", sent)
           ELSE RespondSettle(current, "failed", "invalid_transaction_state", NoTx)
    BY <1>9 DEF ReceiptFound
  <2>2. FromRun(current) /\ UNCHANGED <<backlog, pool, mined>>
    BY <1>2, <1>9 DEF ReceiptFound, nodeVars
  <2>3. CASE m.ok
    <3>1. Respond(current, 200, "settled", "none", sent)
      BY <2>1, <2>3 DEF RespondSettle
    <3>2. QED  BY <1>2, <2>2, <3>1, RespondWire
  <2>4. CASE ~m.ok
    BY <1>2, <2>1, <2>2, <2>4, SettleFailureWire
  <2>5. QED  BY <2>3, <2>4
<1>10. CASE ReceiptWaitFails
  BY <1>2, <1>10, SettleFailureWire DEF ReceiptWaitFails, nodeVars
<1>11. ASSUME NEW req, Wait(req) PROVE WireInv' /\ answers \subseteq answers'
  <2>1. phase' = "idle" /\ UNCHANGED <<backlog, answers, pool, mined>>
    BY <1>11 DEF Wait, nodeVars
  <2>2. QED  BY <1>1, <2>1 DEF PaidInv, WireInv
<1>12. QED
  BY <1>4, <1>5, <1>6, <1>7, <1>8, <1>9, <1>10, <1>11 DEF Handle

\* The handler moves no token, and what it answers and broadcasts is the run's.
LEMMA ServerKeeps ==
    ASSUME PaidInv, ServerStep
    PROVE  WireInv' /\ SignedInv' /\ AnswerInv' /\ MerchantInv' /\ VerdictInv'
<1>1. Handle /\ ClientUnmoved
  BY DEF ServerStep, ClientUnmoved, runVars
<1>2. WireInv' /\ answers \subseteq answers'
  BY <1>1, ServerWire
<1>3. UNCHANGED <<tokenVars, mined>>
  BY <1>1 DEF Handle, Wait, HandleUnreadable, HandleStatic, HandleVerify, RefuseSettle, BeginSettle, Broadcast,
              BroadcastFails, ReceiptFound, ReceiptWaitFails, nodeVars
<1>4. MerchantInv'
  BY <1>3 DEF PaidInv, MerchantInv, Received, PaidOnChain, tokenVars
<1>5. QED  BY <1>1, <1>2, <1>4, SignedKeeps, AnswerKeeps, VerdictKeeps
-----------------------------------------------------------------------------
(* The chain.                                                              *)

\* The pool and the blocks hold transactions of the run alone, and a block that
\* takes one in pays the merchant once for its authorization.
LEMMA MineKeeps ==
    ASSUME PaidInv, NEW tx \in pool, Mine(tx), ClientUnmoved
    PROVE  WireInv' /\ MerchantInv'
<1>1. PICK k \in Client!AuthKeys : Signed(k) /\ tx.auth = Auth(k)
  BY DEF PaidInv, WireInv, OfRun
<1>2. tx.auth.from = Payer /\ tx.auth.to = PayTo /\ tx.auth.value = Amount
  BY <1>1, AuthFields
<1>3. k \in {"pay", "race"} /\ Client!AuthKeys = {"pay", "race"}
  BY Keys
<1>4. \/ /\ mined' = mined \cup {[tx |-> tx, ok |-> TRUE]}
         /\ balanceOf'[PayTo] = balanceOf[PayTo] + Amount
         /\ \A m \in mined : m.ok => ~(m.tx.auth.from = Payer /\ m.tx.auth.nonce = tx.auth.nonce)
      \/ /\ mined' = mined \cup {[tx |-> tx, ok |-> FALSE]}
         /\ balanceOf'[PayTo] = balanceOf[PayTo]
  BY <1>2, MinePays, FacilitatorAssumption DEF PaidInv
<1>5. WireInv'
  <2>1. (\A r : FromRun(r) => FromRun(r)') /\ (\A p : OfRun(p) => OfRun(p)')
    BY SignedStays DEF ClientUnmoved
  <2>2. FromRun(current) => FromRun(current)'
    BY DEF Mine, handlerVars, FromRun, Signed, Key, Auth, ClientUnmoved
  <2>3. pool' \subseteq pool /\ OfRun(tx)
    BY <1>1 DEF Mine, OfRun
  <2>4. \A m \in mined' : m \in mined \/ m.tx = tx
    BY <1>4 DEF Mine
  <2>5. QED
    BY <2>1, <2>2, <2>3, <2>4 DEF PaidInv, WireInv, Mine, handlerVars
<1>6. ASSUME mined' = mined \cup {[tx |-> tx, ok |-> TRUE]},
             balanceOf'[PayTo] = balanceOf[PayTo] + Amount,
             \A m \in mined : m.ok => ~(m.tx.auth.from = Payer /\ m.tx.auth.nonce = tx.auth.nonce)
      PROVE  MerchantInv'
  <2>1. tx.auth.nonce = NonceOf[k]
    BY <1>1, AuthFields
  <2>2. \A m \in mined : m.tx.auth.from = Payer
    BY AuthFields DEF PaidInv, WireInv, OfRun
  <2>3. ~PaidOnChain(k)
    BY <1>6, <2>1, <2>2 DEF PaidOnChain
  <2>4. \A l \in Client!AuthKeys : PaidOnChain(l)' <=> PaidOnChain(l) \/ l = k
    <3>1. \A l \in Client!AuthKeys : NonceOf[k] = NonceOf[l] => l = k
      BY <1>3, NonceOfKeys
    <3> DEFINE new == [tx |-> tx, ok |-> TRUE]
    <3>2. new.ok /\ new.tx.auth.nonce = NonceOf[k]
      BY <2>1
    <3>3. mined' = mined \cup {new}
      BY <1>6
    <3> HIDE DEF new
    <3>4. QED  BY <3>1, <3>2, <3>3 DEF PaidOnChain
  <2>5. Amount \in Nat
    BY FacilitatorAssumption DEF Uint
  <2>6. QED
    BY <1>3, <1>6, <2>3, <2>4, <2>5 DEF PaidInv, MerchantInv, Received
<1>7. ASSUME mined' = mined \cup {[tx |-> tx, ok |-> FALSE]}, balanceOf'[PayTo] = balanceOf[PayTo]
      PROVE  MerchantInv'
  <2>1. \A l \in Client!AuthKeys : PaidOnChain(l)' <=> PaidOnChain(l)
    BY <1>7 DEF PaidOnChain
  <2>2. QED  BY <1>3, <1>7, <2>1 DEF PaidInv, MerchantInv, Received
<1>8. QED  BY <1>4, <1>5, <1>6, <1>7

\* Nobody else's use of the token reaches the merchant.
LEMMA OthersKeep ==
    ASSUME PaidInv, ClientUnmoved,
           \/ \E auth \in Externals : External(auth)
           \/ \E m \in Mints : Faucet(m)
           \/ Clock
    PROVE  WireInv' /\ MerchantInv'
<1>1. UNCHANGED <<handlerVars, nodeVars>>
  BY DEF External, Faucet, Clock
<1>2. WireInv'
  <2>1. (\A r : FromRun(r) => FromRun(r)') /\ (\A p : OfRun(p) => OfRun(p)')
    BY SignedStays DEF ClientUnmoved
  <2>2. FromRun(current) => FromRun(current)'
    BY <1>1 DEF handlerVars, FromRun, Signed, Key, Auth, ClientUnmoved
  <2>3. QED  BY <1>1, <2>1, <2>2 DEF PaidInv, WireInv, handlerVars, nodeVars
<1>3. balanceOf'[PayTo] = balanceOf[PayTo]
  BY OthersDoNotPay, PaidAssumption DEF PaidInv
<1>4. MerchantInv'
  BY <1>1, <1>3 DEF PaidInv, MerchantInv, Received, PaidOnChain, nodeVars
<1>5. QED  BY <1>2, <1>4

LEMMA ChainKeeps ==
    ASSUME PaidInv, ChainStep
    PROVE  WireInv' /\ SignedInv' /\ AnswerInv' /\ MerchantInv' /\ VerdictInv'
<1>1. Chain /\ ClientUnmoved
  BY DEF ChainStep, ClientUnmoved, runVars
<1>2. UNCHANGED answers
  BY <1>1 DEF Chain, Mine, External, Faucet, Clock, handlerVars
<1>3. WireInv' /\ MerchantInv'
  BY <1>1, MineKeeps, OthersKeep DEF Chain
<1>4. QED  BY <1>1, <1>2, <1>3, SignedKeeps, AnswerKeeps, VerdictKeeps
-----------------------------------------------------------------------------
(* The client.                                                             *)

\* The chain and the server do not move, and what was signed stays signed.
ServerUnmoved ==
    UNCHANGED facVars /\ \A k \in Client!AuthKeys : Signed(k) => expiry'[k] = expiry[k]

LEMMA ClientWire == ASSUME PaidInv, ServerUnmoved PROVE WireInv' /\ MerchantInv'
<1>1. (\A r : FromRun(r) => FromRun(r)') /\ (\A p : OfRun(p) => OfRun(p)')
  BY SignedStays DEF ServerUnmoved
<1>2. phase # "idle" => FromRun(current)'
  BY Keys DEF PaidInv, WireInv, FromRun, Signed, Key, Auth, ServerUnmoved, facVars, handlerVars
<1>3. WireInv'
  BY <1>1, <1>2 DEF PaidInv, WireInv, ServerUnmoved, facVars, handlerVars, nodeVars
<1>4. MerchantInv'
  BY DEF PaidInv, MerchantInv, Received, PaidOnChain, ServerUnmoved, facVars, nodeVars, tokenVars
<1>5. QED  BY <1>3, <1>4

\* No answer of a call becomes one that was not there.
LEMMA ResponsesKeep ==
    ASSUME PaidInv, UNCHANGED answers,
           \A c \in Client!Calls :
              call'[c].response = call[c].response \/ ~Client!Accepted(call'[c].response)
    PROVE  AnswerInv'
BY DEF PaidInv, AnswerInv, Behind, Client!Accepted, Client!Settled, Client!Served

LEMMA NoAnswerYet == ~Client!Accepted(Client!TransportError) /\ ~Client!Accepted(Client!Idle.response)
BY DEF Client!Accepted, Client!Served, Client!Settled, Client!TransportError, Client!Idle

\* A call of the client's map is a call state with a response in it.
LEMMA CallTypes ==
    ASSUME PaidInv
    PROVE  /\ call \in [Client!Calls -> C!CallState]
           /\ verdict \in [Client!PayChecks -> C!Results \cup {"none"}]
           /\ stage \in {"start", "preflight", "sign", "pay", "replay", "race", "done"}
           /\ stage \in {"replay", "race"} => PaymentSettled
BY DEF PaidInv, C!ClientInv, C!ClientTypeOK, C!Calls, Client!Calls, C!PayChecks,
       Client!PayChecks, C!Stages, C!PaymentSettled, PaymentSettled, C!Settled, Client!Settled

\* What a call becomes when it is launched, and that the others are left alone.
LEMMA LaunchCalls ==
    ASSUME PaidInv, NEW next, NEW calls, Client!Launch(next, calls)
    PROVE  /\ stage' = next
           /\ \A c \in Client!Calls :
                 IF c \in calls
                 THEN /\ call'[c].state = "ready"
                      /\ call'[c].response = Client!TransportError
                 ELSE call'[c] = call[c]
BY DEF Client!Launch, Client!Idle

-----------------------------------------------------------------------------
(* The flow before the payment.                                            *)

LEMMA FinishVerdict ==
    ASSUME PaidInv, NEW result \in {"SKIP", "ERROR", "CRASH"}, Client!Finish(result),
           stage \in {"start", "preflight"}, UNCHANGED <<facVars, expiry>>
    PROVE  VerdictInv' /\ SignedInv'
<1>1. stage' = "done" /\ UNCHANGED call /\ ~Signed("pay") /\ ~Signed("race")
  BY DEF PaidInv, SignedInv, Client!Finish
<1>2. \A k \in Client!PayChecks : verdict'[k] = result
  BY DEF Client!Finish
<1>3. {"RS-PAY-001", "RS-PAY-004", "RS-SEC-001", "RS-SEC-002"} \subseteq Client!PayChecks
  BY DEF Client!PayChecks
<1>4. VerdictInv'
  BY <1>1, <1>2, <1>3 DEF VerdictInv, Signed, NoFalseDoubleSpend, ProofNeverMisses
<1>5. SignedInv'
  BY <1>1 DEF PaidInv, SignedInv, Signed, PaymentSettled, Client!Settled
<1>6. QED  BY <1>4, <1>5

\* The flow goes on without a signature, a send or a verdict.
LEMMA ProceedKeeps ==
    ASSUME PaidInv, stage \in {"start", "preflight"}, stage' \in {"preflight", "sign"},
           UNCHANGED <<call, verdict, expiry, answers>>
    PROVE  VerdictInv' /\ SignedInv'
<1>1. SignedInv'
  BY DEF PaidInv, SignedInv, Signed, PaymentSettled, Client!Settled
<1>2. VerdictInv'
  BY DEF PaidInv, VerdictInv, Signed, Delivered, NoFalseDoubleSpend, ProofNeverMisses
<1>3. QED  BY <1>1, <1>2

LEMMA BeforePaymentKeeps ==
    ASSUME PaidInv, RunStart \/ ReadBalance
    PROVE  WireInv' /\ SignedInv' /\ AnswerInv' /\ MerchantInv' /\ VerdictInv'
<1>1. ServerUnmoved /\ UNCHANGED <<facVars, expiry, answers>>
  BY DEF RunStart, ReadBalance, ClientOnly, ServerUnmoved, facVars, handlerVars
<1>2. stage \in {"start", "preflight"} /\ UNCHANGED call
  BY DEF RunStart, ReadBalance, Client!Start, Client!Preflight, Client!Finish
<1>3. \/ Client!Finish("SKIP") \/ Client!Finish("ERROR") \/ Client!Finish("CRASH")
      \/ stage' \in {"preflight", "sign"} /\ UNCHANGED verdict
  BY DEF RunStart, ReadBalance, Client!Start, Client!Preflight
<1>4. VerdictInv' /\ SignedInv'
  BY <1>1, <1>2, <1>3, FinishVerdict, ProceedKeeps
<1>5. AnswerInv'
  BY <1>1, <1>2, ResponsesKeep
<1>6. QED  BY <1>1, <1>4, <1>5, ClientWire

LEMMA SignKeeps ==
    ASSUME PaidInv, SignPay
    PROVE  WireInv' /\ SignedInv' /\ AnswerInv' /\ MerchantInv' /\ VerdictInv'
<1>1. /\ stage = "sign" /\ Client!Launch("pay", {"pay"}) /\ UNCHANGED <<facVars, verdict>>
      /\ expiry' = [expiry EXCEPT !["pay"] = Expiry]
  BY DEF SignPay, Client!SignPayment
<1>2. ~Signed("pay") /\ ~Signed("race")
  BY <1>1 DEF PaidInv, SignedInv
<1>3. Expiry \in Times /\ Expiry # 0
  BY ExpiryIsSigned DEF PaidInv, FacInv, FacTypeOK, TokenTypeOK
<1>4. expiry'["pay"] = Expiry /\ expiry'["race"] = expiry["race"] /\ expiry' \in [Client!AuthKeys -> Times]
  BY <1>1, <1>3, Keys DEF PaidInv, SignedInv
<1>5. ServerUnmoved /\ UNCHANGED answers
  BY <1>1, <1>2, <1>4, Keys DEF ServerUnmoved, facVars, handlerVars
<1>6. SignedInv'
  <2>1. \A c \in Client!Calls : call'[c].state # "idle" => Signed(Client!AuthKey(c))'
    <3>1. \A c \in Client!Calls : call[c].state = "idle"
      BY <1>2, Keys DEF PaidInv, SignedInv
    <3>2. QED  BY <1>1, <1>3, <1>4, <3>1, LaunchCalls, Keys DEF Signed
  <2>2. stage' = "pay" /\ ~Signed("race")'
    BY <1>1, <1>2, <1>4, LaunchCalls DEF Signed
  <2>3. QED  BY <1>4, <2>1, <2>2 DEF SignedInv
<1>7. AnswerInv'
  BY <1>1, <1>5, LaunchCalls, NoAnswerYet, ResponsesKeep
<1>8. VerdictInv'
  BY <1>1, <1>5 DEF PaidInv, VerdictInv, Delivered, NoFalseDoubleSpend, ProofNeverMisses
<1>9. QED  BY <1>5, <1>6, <1>7, <1>8, ClientWire
-----------------------------------------------------------------------------
(* A payment under way.                                                    *)

\* A call ends with no answer, with an intermediary's, or with one of the server's.
Backed(c, r) ==
    Client!Accepted(r) =>
        \E a \in answers : a.conn[1] = c /\ a.outcome = "settled" /\ a.tx = r.tx

\* A step of a retry loop, whatever the network does to it.
LEMMA LoopMoves ==
    ASSUME PaidInv, NEW c \in Client!Calls, SendAttempt(c) \/ ReceiveAnswer(c) \/ Fault(c)
    PROVE  /\ UNCHANGED <<stage, verdict, expiry, answers>>
           /\ call[c].state \in {"ready", "waiting"}
           /\ \A d \in Client!Calls \ {c} : call'[d] = call[d]
           /\ call'[c].state # "idle"
           /\ call'[c].response = call[c].response \/ Backed(c, call'[c].response)
<1>1. /\ UNCHANGED <<expiry, answers>>
      /\ \/ Client!Send(c) \/ Client!RetryableFault(c) \/ Client!FatalFault(c)
         \/ Client!Receive(c, GatewayResponse) \/ Client!RetryAfterRaises(c, GatewayResponse)
         \/ \E a \in answers : a.conn = Conn(c) /\ Client!Receive(c, ResponseOf(a))
  BY DEF SendAttempt, ReceiveAnswer, Fault, ClientOnly, Arrive, Queue, facVars, handlerVars
<1>2. /\ UNCHANGED <<stage, verdict>>
      /\ call[c].state \in {"ready", "waiting"}
      /\ \/ call' = [call EXCEPT ![c].state = "waiting"]
         \/ call' = [call EXCEPT ![c].state = "raised"]
         \/ Client!TryAgain(c)
         \/ Client!Answered(c, Client!TransportError)
         \/ Client!Answered(c, GatewayResponse)
         \/ \E a \in answers : a.conn = Conn(c) /\ Client!Answered(c, ResponseOf(a))
  BY <1>1 DEF Client!Send, Client!RetryableFault, Client!FatalFault, Client!Receive,
              Client!RetryAfterRaises
<1>3. call \in [Client!Calls -> C!CallState]
  BY CallTypes
<1>4. \A s \in C!CallState : s = [state |-> s.state, attempt |-> s.attempt, response |-> s.response]
  BY DEF C!CallState
<1>5. CASE \/ call' = [call EXCEPT ![c].state = "waiting"]
           \/ call' = [call EXCEPT ![c].state = "raised"]
           \/ Client!TryAgain(c)
  BY <1>1, <1>2, <1>3, <1>4, <1>5 DEF Client!TryAgain
<1>6. ASSUME NEW r, Client!Answered(c, r)
      PROVE  /\ \A d \in Client!Calls \ {c} : call'[d] = call[d]
             /\ call'[c].state = "answered" /\ call'[c].response = r
  BY <1>3, <1>4, <1>6 DEF Client!Answered
<1>7. Backed(c, Client!TransportError) /\ Backed(c, GatewayResponse)
  <2>1. ~Client!Accepted(GatewayResponse)
    BY DEF Client!Accepted, Client!Served, Client!Settled, GatewayResponse, Client!TransportError
  <2>2. QED  BY <2>1, NoAnswerYet DEF Backed
<1>8. \A a \in answers : a.conn = Conn(c) => Backed(c, ResponseOf(a))
  <2>1. \A a \in answers : a.status = 200 => a.outcome = "settled"
    BY DEF PaidInv, WireInv
  <2>2. Conn(c)[1] = c
    BY DEF Conn
  <2>3. \A a \in answers : Client!Accepted(ResponseOf(a)) => a.outcome = "settled"
    BY <2>1 DEF Client!Accepted, Client!Served, Client!Settled, ResponseOf
  <2>4. \A a \in answers : ResponseOf(a).tx = a.tx
    BY DEF ResponseOf
  <2>5. QED  BY <2>2, <2>3, <2>4 DEF Backed
<1>9. QED  BY <1>1, <1>2, <1>5, <1>6, <1>7, <1>8

LEMMA LoopKeeps ==
    ASSUME PaidInv, NEW c \in Client!Calls, SendAttempt(c) \/ ReceiveAnswer(c) \/ Fault(c)
    PROVE  WireInv' /\ SignedInv' /\ AnswerInv' /\ MerchantInv' /\ VerdictInv'
<1>1. /\ UNCHANGED <<stage, verdict, expiry, answers>>
      /\ call[c].state \in {"ready", "waiting"}
      /\ \A d \in Client!Calls \ {c} : call'[d] = call[d]
      /\ call'[c].state # "idle"
      /\ call'[c].response = call[c].response \/ Backed(c, call'[c].response)
  BY LoopMoves
<1>2. WireInv' /\ MerchantInv'
  <2>1. CASE UNCHANGED facVars
    BY <1>1, <2>1, ClientWire DEF ServerUnmoved
  <2>2. CASE Arrive(RequestOf(c))
    <3>1. FromRun(RequestOf(c))
      BY <1>1, RequestIsPossible DEF PaidInv, C!ClientInv
    <3>2. (\A r : FromRun(r) => FromRun(r)') /\ (\A p : OfRun(p) => OfRun(p)')
      BY <1>1, SignedStays
    <3>3. phase # "idle" => FromRun(current)'
      BY <1>1, <2>2, Keys DEF Arrive, Queue, PaidInv, WireInv, FromRun, Signed, Key, Auth
    <3>4. \A r \in backlog' : r \in backlog \/ r = RequestOf(c)
      BY <2>2 DEF Arrive, Queue
    <3>5. WireInv'
      BY <2>2, <3>1, <3>2, <3>3, <3>4 DEF Arrive, Queue, PaidInv, WireInv, nodeVars
    <3>6. MerchantInv'
      BY <2>2 DEF Arrive, Queue, PaidInv, MerchantInv, Received, PaidOnChain, nodeVars, tokenVars
    <3>7. QED  BY <3>5, <3>6
  <2>3. QED  BY <2>1, <2>2 DEF SendAttempt, ReceiveAnswer, Fault, ClientOnly
<1>3. SignedInv'
  <2>1. PaymentSettled => PaymentSettled'
    BY <1>1, Keys DEF PaymentSettled, Client!Settled
  <2>2. QED  BY <1>1, <2>1 DEF PaidInv, SignedInv, Signed
<1>4. AnswerInv'
  <2>1. ASSUME NEW d \in Client!Calls, Client!Accepted(call'[d].response)
        PROVE  \E a \in answers : a.conn[1] = d /\ a.outcome = "settled" /\ a.tx = call'[d].response.tx
    BY <1>1, <2>1 DEF PaidInv, AnswerInv, Behind, Backed
  <2>2. QED
    BY <1>1, <2>1 DEF AnswerInv, Behind, Client!Accepted, Client!Settled, Client!Served
<1>5. VerdictInv'
  BY <1>1 DEF PaidInv, VerdictInv, Signed, Delivered, NoFalseDoubleSpend, ProofNeverMisses
<1>6. QED  BY <1>2, <1>3, <1>4, <1>5
-----------------------------------------------------------------------------
(* The verdicts.                                                           *)

\* A chain read that works finds the transfer a settled answer names.
LEMMA ProofOfSettled ==
    ASSUME PaidInv, "rpc" \notin Faults, NEW c \in Client!Calls,
           Client!Settled(call[c].response), NEW proof \in TxProofs(call[c].response.tx)
    PROVE  proof = "PASS"
<1>1. PICK a \in answers : Behind(a, c)
  BY DEF PaidInv, AnswerInv, Client!Accepted
<1>2. [tx |-> a.tx, ok |-> TRUE] \in mined /\ a.tx.auth = Auth(Client!AuthKey(c))
  BY <1>1, SettledAnswer DEF Behind, Key
<1>3. ProvesTransfer(a.tx)
  BY <1>2, AuthFields DEF ProvesTransfer
<1>4. QED  BY <1>1, <1>3 DEF TxProofs, Behind

\* RS-PAY-001 and RS-PAY-004 of a graded payment.
LEMMA GradeVerdict ==
    ASSUME PaidInv, NEW proof \in TxProofs(call["pay"].response.tx),
           Client!Grade(proof, FALSE)
    PROVE  /\ verdict'["RS-PAY-001"] = Client!Delivery(call["pay"].response)
           /\ verdict'["RS-PAY-004"] = Client!OnChainProof(call["pay"].response, proof)
           /\ \A k \in {"RS-SEC-001", "RS-SEC-002"} : verdict'[k] \in {verdict[k], "SKIP"}
<1> DEFINE r == call["pay"].response
           d1 == Client!Delivery(r)
           d2 == Client!SettlementShape(r)
           d3 == Client!Consistency(r)
           d4 == Client!OnChainProof(r, proof)
           d5 == Client!Cacheability(r)
           d6 == Client!SideChannel(r, FALSE)
           graded == [verdict EXCEPT !["RS-PAY-001"] = d1, !["RS-PAY-002"] = d2,
                                     !["RS-PAY-003"] = d3, !["RS-PAY-004"] = d4,
                                     !["RS-HS-008"] = d5, !["RS-HS-009"] = d6]
<1>1. \/ verdict' = graded
      \/ verdict' = [graded EXCEPT !["RS-SEC-001"] = "SKIP", !["RS-SEC-002"] = "SKIP"]
  BY DEF Client!Grade
<1>2. verdict \in [Client!PayChecks -> C!Results \cup {"none"}]
  BY CallTypes
<1> HIDE DEF d1, d2, d3, d4, d5, d6
<1>3. verdict'["RS-PAY-001"] = d1 /\ verdict'["RS-PAY-004"] = d4
  BY <1>1, <1>2 DEF Client!PayChecks
<1>4. \A k \in {"RS-SEC-001", "RS-SEC-002"} : verdict'[k] \in {verdict[k], "SKIP"}
  BY <1>1, <1>2 DEF Client!PayChecks
<1>5. QED  BY <1>3, <1>4 DEF d1, d4

LEMMA GradeKeeps ==
    ASSUME PaidInv, GradePaid
    PROVE  WireInv' /\ SignedInv' /\ AnswerInv' /\ MerchantInv' /\ VerdictInv'
<1> DEFINE r == call["pay"].response
<1>1. PICK proof \in TxProofs(r.tx) : Client!Grade(proof, FALSE)
  BY DEF GradePaid
<1>2. /\ stage = "pay" /\ call["pay"].state = "answered"
      /\ UNCHANGED <<expiry, answers>> /\ ServerUnmoved
      /\ \/ Client!Settled(r) /\ Client!Launch("replay", {"replay"})
         \/ ~Client!Settled(r) /\ stage' = "done" /\ UNCHANGED call
  BY <1>1 DEF GradePaid, Client!Grade, ClientOnly, ServerUnmoved, facVars, handlerVars
<1>3. Signed("pay") /\ ~Signed("race")
  BY <1>2, Keys DEF PaidInv, SignedInv
<1>4. SignedInv'
  <2>1. CASE Client!Launch("replay", {"replay"})
    BY <1>2, <1>3, <2>1, LaunchCalls, Keys DEF PaidInv, SignedInv, Signed
  <2>2. CASE stage' = "done" /\ UNCHANGED call
    BY <1>2, <1>3, <2>2 DEF PaidInv, SignedInv, Signed
  <2>3. QED  BY <1>2, <2>1, <2>2
<1>5. AnswerInv'
  BY <1>2, LaunchCalls, NoAnswerYet, ResponsesKeep
<1>6. VerdictInv'
  <2>1. verdict'["RS-PAY-001"] = "PASS" => Delivered("pay")'
    <3>1. verdict'["RS-PAY-001"] = "PASS" => Client!Accepted(r)
      BY <1>1, GradeVerdict DEF Client!Delivery, Client!Accepted
    <3>2. Client!Accepted(r) => Delivered("pay")
      BY AcceptedIsDelivered, Keys
    <3>3. QED  BY <1>2, <3>1, <3>2 DEF Delivered
  <2>2. verdict'["RS-PAY-001"] \notin {"SKIP", "ERROR"}
    BY <1>1, GradeVerdict DEF Client!Delivery
  <2>3. NoFalseDoubleSpend'
    BY <1>1, GradeVerdict DEF PaidInv, VerdictInv, NoFalseDoubleSpend
  <2>4. ProofNeverMisses'
    <3>1. "rpc" \notin Faults /\ Client!Settled(r) => proof = "PASS"
      BY ProofOfSettled, Keys
    <3>2. QED  BY <1>1, <3>1, GradeVerdict DEF ProofNeverMisses, Client!OnChainProof
  <2>5. QED  BY <2>1, <2>2, <2>3, <2>4 DEF VerdictInv
<1>7. QED  BY <1>2, <1>4, <1>5, <1>6, ClientWire

\* The replay was not accepted, or two answers would name one settlement.
LEMMA GradeReplayKeeps ==
    ASSUME PaidInv, GradeReplayed
    PROVE  WireInv' /\ SignedInv' /\ AnswerInv' /\ MerchantInv' /\ VerdictInv'
<1> PICK unstarted \in Unstarted : Client!GradeReplay(unstarted)
  BY DEF GradeReplayed
<1>1. /\ stage = "replay" /\ Client!Launch("race", Racers \ unstarted) /\ UNCHANGED facVars
      /\ expiry' = [expiry EXCEPT !["race"] = Expiry]
      /\ verdict' = [verdict EXCEPT !["RS-SEC-001"] =
                        IF Client!Accepted(call["replay"].response) THEN "FAIL" ELSE "PASS"]
  BY DEF GradeReplayed, Client!GradeReplay
<1>2. ~Signed("race") /\ PaymentSettled
  BY <1>1, CallTypes DEF PaidInv, SignedInv
<1>3. Expiry \in Times /\ Expiry # 0
  BY ExpiryIsSigned DEF PaidInv, FacInv, FacTypeOK, TokenTypeOK
<1>4. expiry'["race"] = Expiry /\ expiry'["pay"] = expiry["pay"] /\ expiry' \in [Client!AuthKeys -> Times]
  BY <1>1, <1>3, Keys DEF PaidInv, SignedInv
<1>5. ServerUnmoved /\ UNCHANGED answers
  BY <1>1, <1>2, <1>4, Keys DEF ServerUnmoved, facVars, handlerVars
<1>6. SignedInv'
  <2>1. stage' = "race" /\ call'["pay"] = call["pay"]
    BY <1>1, LaunchCalls, Keys
  <2>2. PaymentSettled'
    BY <1>2, <2>1 DEF PaymentSettled, Client!Settled
  <2>3. \A c \in Client!Calls : call'[c].state # "idle" => Signed(Client!AuthKey(c))'
    <3>1. \A c \in Racers : Signed(Client!AuthKey(c))'
      BY <1>3, <1>4, Keys DEF Signed
    <3>2. \A c \in Client!Calls \ Racers : call'[c] = call[c]
      BY <1>1, LaunchCalls
    <3>3. \A c \in Client!Calls : Signed(Client!AuthKey(c)) => Signed(Client!AuthKey(c))'
      BY <1>5, Keys DEF ServerUnmoved, Signed
    <3>4. QED  BY <3>1, <3>2, <3>3 DEF PaidInv, SignedInv
  <2>4. QED  BY <1>4, <2>1, <2>2, <2>3 DEF SignedInv
<1>7. AnswerInv'
  BY <1>1, <1>5, LaunchCalls, NoAnswerYet, ResponsesKeep
<1>8. VerdictInv'
  <2>1. ~Client!Accepted(call["replay"].response)
    <3>1. Client!Accepted(call["pay"].response)
      BY <1>2 DEF PaymentSettled, Client!Accepted
    <3>2. QED  BY <3>1, OneAccepted, Keys
  <2>2. \A k \in Client!PayChecks : verdict'[k] \in {verdict[k], "PASS"}
    BY <1>1, <2>1, CallTypes
  <2>3. verdict'["RS-PAY-001"] = verdict["RS-PAY-001"]
    BY <1>1
  <2>4. {"RS-PAY-001", "RS-PAY-004", "RS-SEC-001", "RS-SEC-002"} \subseteq Client!PayChecks
    BY DEF Client!PayChecks
  <2>5. QED
    BY <1>1, <1>5, <2>2, <2>3, <2>4
       DEF PaidInv, VerdictInv, Delivered, NoFalseDoubleSpend, ProofNeverMisses
<1>9. QED  BY <1>5, <1>6, <1>7, <1>8, ClientWire

\* Two threads that won the race would name one settlement.
LEMMA OneWinner == ASSUME PaidInv PROVE ~(Client!Cardinality(Client!Winners) >= 2)
<1>1. \A c, d \in Client!Winners : c = d
  BY OneAccepted, Keys DEF Client!Winners
<1>2. CASE Client!Winners = {}
  BY <1>2, FS_EmptySet, OneCardinality
<1>3. ASSUME NEW c \in Client!Winners PROVE ~(Client!Cardinality(Client!Winners) >= 2)
  <2>1. Client!Winners = {c}
    BY <1>1
  <2>2. Cardinality({c}) = 1
    BY FS_Singleton
  <2>3. QED  BY <2>1, <2>2, OneCardinality
<1>4. QED  BY <1>2, <1>3

LEMMA GradeRaceKeeps ==
    ASSUME PaidInv, Client!GradeRace, ClientOnly
    PROVE  WireInv' /\ SignedInv' /\ AnswerInv' /\ MerchantInv' /\ VerdictInv'
<1>1. /\ stage = "race" /\ stage' = "done" /\ UNCHANGED <<facVars, expiry, answers, call>>
      /\ ServerUnmoved
      /\ verdict' = [verdict EXCEPT !["RS-SEC-002"] = "PASS"]
  BY OneWinner DEF Client!GradeRace, ClientOnly, ServerUnmoved, facVars, handlerVars
<1>2. SignedInv'
  BY <1>1 DEF PaidInv, SignedInv, Signed, PaymentSettled, Client!Settled
<1>3. AnswerInv'
  BY <1>1, ResponsesKeep
<1>4. VerdictInv'
  BY <1>1, CallTypes DEF PaidInv, VerdictInv, Delivered, NoFalseDoubleSpend, ProofNeverMisses,
                         Client!PayChecks, Signed
<1>5. QED  BY <1>1, <1>2, <1>3, <1>4, ClientWire

\* The group's net: everything that was sent is on the chain as it was, and every
\* check is in error.
LEMMA CrashKeeps ==
    ASSUME PaidInv, CrashOut
    PROVE  WireInv' /\ SignedInv' /\ AnswerInv' /\ MerchantInv' /\ VerdictInv'
<1>1. /\ stage \in {"pay", "replay", "race"} /\ stage' = "done" /\ ServerUnmoved
      /\ UNCHANGED <<facVars, expiry, answers, call>>
      /\ verdict' = [k \in Client!PayChecks |-> "CRASH"]
  BY DEF CrashOut, Client!Crash, Client!Finish, ClientOnly, ServerUnmoved, facVars, handlerVars
<1>2. SignedInv'
  BY <1>1 DEF PaidInv, SignedInv, Signed, PaymentSettled, Client!Settled
<1>3. AnswerInv'
  BY <1>1, ResponsesKeep
<1>4. VerdictInv'
  BY <1>1 DEF VerdictInv, NoFalseDoubleSpend, ProofNeverMisses, Client!PayChecks
<1>5. QED  BY <1>1, <1>2, <1>3, <1>4, ClientWire

-----------------------------------------------------------------------------
(* The whole run.                                                          *)

LEMMA PaidInitInv == PaidInit => PaidInv
<1> SUFFICES ASSUME PaidInit PROVE PaidInv  OBVIOUS
<1>1. FacInv
  BY FacInitInv DEF PaidInit
<1>2. C!ClientInv
  <2>1. C!ClientInit
    BY DEF PaidInit, Client!ClientInit, C!ClientInit, Client!Idle, C!Idle, Client!TransportError,
           C!TransportError, Client!Calls, C!Calls, Client!PayChecks, C!PayChecks
  <2>2. QED  BY <2>1, C!ClientInitInv, ClientOfC
<1>3. WireInv
  BY DEF PaidInit, FacInit, WireInv
<1>4. SignedInv
  BY Keys, TokenAssumption
     DEF PaidInit, Client!ClientInit, SignedInv, Signed, Times, Client!Idle
<1>5. AnswerInv
  BY NoAnswerYet DEF PaidInit, Client!ClientInit, AnswerInv
<1>6. MerchantInv
  BY FacilitatorAssumption DEF PaidInit, FacInit, MerchantInv, Received, PaidOnChain
<1>7. VerdictInv
  BY DEF PaidInit, Client!ClientInit, VerdictInv, NoFalseDoubleSpend, ProofNeverMisses,
         Client!PayChecks
<1>8. QED  BY <1>1, <1>2, <1>3, <1>4, <1>5, <1>6, <1>7 DEF PaidInv

LEMMA PaidStep == PaidInv /\ [PaidNext]_paidVars => PaidInv'
<1> SUFFICES ASSUME PaidInv, [PaidNext]_paidVars PROVE PaidInv'
  OBVIOUS
<1>1. FacInv'
  BY ServerSide, FacNextInv DEF PaidInv
<1>2. C!ClientInv'
  BY ClientSide, C!ClientStep, ClientOfC DEF PaidInv
<1>3. WireInv' /\ SignedInv' /\ AnswerInv' /\ MerchantInv' /\ VerdictInv'
  <2>1. CASE UNCHANGED paidVars
    <3>1. ServerUnmoved /\ ClientUnmoved /\ UNCHANGED answers
      BY <2>1 DEF paidVars, runVars, facVars, handlerVars, ServerUnmoved, ClientUnmoved
    <3>2. QED  BY <3>1, ClientWire, SignedKeeps, AnswerKeeps, VerdictKeeps
  <2>2. CASE ClientStep
    BY <2>2, BeforePaymentKeeps, SignKeeps, GradeKeeps, GradeReplayKeeps, LoopKeeps,
       GradeRaceKeeps, CrashKeeps DEF ClientStep
  <2>3. QED  BY <2>1, <2>2, ServerKeeps, ChainKeeps DEF PaidNext, Reported
<1>4. QED  BY <1>1, <1>2, <1>3 DEF PaidInv

THEOREM PaidInvariant == PaidSpec => []PaidInv
BY PaidInitInv, PaidStep, PTL DEF PaidSpec

-----------------------------------------------------------------------------
(* What the verdicts say of the chain.                                     *)

\* Settled answers are paid for and paid authorizations were signed; what the
\* client takes for accepted has been answered as settled.
FatesInOrder ==
    /\ \A k \in Client!AuthKeys :
          (Delivered(k) => PaidOnChain(k)) /\ (PaidOnChain(k) => Signed(k))
    /\ Signed("race") => Delivered("pay")

LEMMA Fates == PaidInv => FatesInOrder
<1>1. PaidInv /\ Signed("race") => Delivered("pay")
  <2> SUFFICES ASSUME PaidInv, Signed("race") PROVE Delivered("pay")  OBVIOUS
  <2>1. Client!Accepted(call["pay"].response)
    BY DEF PaidInv, SignedInv, PaymentSettled, Client!Accepted
  <2>2. QED  BY <2>1, AcceptedIsDelivered, Keys
<1>2. QED  BY <1>1, DeliveredIsPaid, PaidIsSigned DEF FatesInOrder

\* A passed RS-PAY-001 stands for a transfer in a block.
THEOREM AcceptedPaid == PaidSpec => []AcceptedIsPaid
<1>1. PaidInv => AcceptedIsPaid
  BY Fates, Keys DEF FatesInOrder, PaidInv, VerdictInv, AcceptedIsPaid
<1>2. QED  BY <1>1, PaidInvariant, PTL

\* A run whose RS-PAY-001 says "no payment sent", skipped or in error by the
\* preflight, has moved nothing to the merchant and never will.  A group that
\* crashed says so (CRASH) and may have paid.
THEOREM NotRunNotPaid == PaidSpec => []NotRunMeansNotPaid
<1>1. PaidInv => NotRunMeansNotPaid
  BY Fates, Keys DEF FatesInOrder, PaidInv, VerdictInv, MerchantInv, Received,
                         NotRunMeansNotPaid
<1>2. QED  BY <1>1, PaidInvariant, PTL

\* Whatever is lost, repeated or raced, the run costs two prices at most, and
\* the second one only when the first has bought its response.
THEOREM SpendBounded == PaidSpec => []SpendIsBounded
<1>1. PaidInv => SpendIsBounded
  <2> SUFFICES ASSUME PaidInv PROVE SpendIsBounded  OBVIOUS
  <2>1. Amount \in Nat /\ Amount > 0
    BY FacilitatorAssumption, ChainClientAssumption, TokenAssumption DEF Uint
  <2>2. PaidOnChain("race") => Client!Settled(call["pay"].response)
    BY Fates, Keys DEF FatesInOrder, PaidInv, SignedInv, PaymentSettled
  <2>3. QED  BY <2>1, <2>2 DEF PaidInv, MerchantInv, Received, SpendIsBounded
<1>2. QED  BY <1>1, PaidInvariant, PTL

\* No interleaving of retries, replays and racing threads makes this server look
\* as if it settled an authorization twice.
THEOREM NoFalseDoubleSpends == PaidSpec => []NoFalseDoubleSpend
<1>1. PaidInv => NoFalseDoubleSpend  BY DEF PaidInv, VerdictInv
<1>2. QED  BY <1>1, PaidInvariant, PTL

\* The on-chain proof finds every transfer of this server that it looks for.
THEOREM ProofNeverMissesTransfer == PaidSpec => []ProofNeverMisses
<1>1. PaidInv => ProofNeverMisses  BY DEF PaidInv, VerdictInv
<1>2. QED  BY <1>1, PaidInvariant, PTL

\* The server and the chain of a run are the server and the chain on their own:
\* what is proved of them for any requests holds in a run.
THEOREM RunImplementsServer == PaidSpec => FacSpec
<1>1. PaidInit => FacInit  BY DEF PaidInit
<1>2. QED  BY <1>1, ServerSide, PaidInvariant, PTL DEF PaidSpec, FacSpec

\* The client of a run is the client on its own, against any endpoint.
THEOREM RunImplementsClient == PaidSpec => C!ClientSpec
<1>1. PaidInit => C!ClientInit
  BY DEF PaidInit, Client!ClientInit, C!ClientInit, Client!Idle, C!Idle, Client!TransportError,
         C!TransportError, Client!Calls, C!Calls, Client!PayChecks, C!PayChecks
<1>2. QED  BY <1>1, ClientSide, PaidInvariant, PTL DEF PaidSpec, C!ClientSpec

-----------------------------------------------------------------------------
(* The run implements the abstract payment.                                *)

LEMMA FatesNext == PaidInv' => FatesInOrder'
BY Fates, PTL

\* Nothing became of the authorization k in this step.
SameFate(k) ==
    /\ Signed(k)' <=> Signed(k)
    /\ PaidOnChain(k)' <=> PaidOnChain(k)
    /\ Delivered(k)' <=> Delivered(k)

LEMMA ExactStutter ==
    ASSUME PaidInv, PaidInv', \A k \in Client!AuthKeys : SameFate(k)
    PROVE  UNCHANGED Exact!payVars
<1>1. AbstractStatus' = AbstractStatus
  BY DEF AbstractStatus, SameFate, Signed
<1>2. balanceOf'[PayTo] = balanceOf[PayTo]
  BY Keys DEF PaidInv, MerchantInv, Received, SameFate
<1>3. QED  BY <1>1, <1>2 DEF Exact!payVars

\* Status of one authorization, once its fate is known.
LEMMA StatusOf ==
    ASSUME NEW k \in Client!AuthKeys
    PROVE  /\ Delivered(k) => AbstractStatus[k] = "delivered"
           /\ ~Delivered(k) /\ PaidOnChain(k) => AbstractStatus[k] = "paid"
           /\ ~Delivered(k) /\ ~PaidOnChain(k) /\ Signed(k) => AbstractStatus[k] = "signed"
           /\ ~Delivered(k) /\ ~PaidOnChain(k) /\ ~Signed(k) => AbstractStatus[k] = "unsigned"
           /\ Delivered(k)' => AbstractStatus'[k] = "delivered"
           /\ ~Delivered(k)' /\ PaidOnChain(k)' => AbstractStatus'[k] = "paid"
           /\ ~Delivered(k)' /\ ~PaidOnChain(k)' /\ Signed(k)' => AbstractStatus'[k] = "signed"
BY DEF AbstractStatus, Signed

\* The other authorization keeps its status.
LEMMA StatusMoves ==
    ASSUME NEW k \in Client!AuthKeys, \A l \in Client!AuthKeys \ {k} : SameFate(l),
           NEW s, AbstractStatus'[k] = s
    PROVE  AbstractStatus' = [AbstractStatus EXCEPT ![k] = s]
BY DEF AbstractStatus, SameFate, Signed

\* One authorization got further: it was signed, then paid, then served.
LEMMA ExactMove ==
    ASSUME PaidInv, PaidInv', NEW k \in Client!AuthKeys,
           \A l \in Client!AuthKeys \ {k} : SameFate(l),
           \/ /\ ~Signed(k) /\ Signed(k)'
              /\ PaidOnChain(k)' <=> PaidOnChain(k)
              /\ Delivered("pay")' => Delivered("pay")
           \/ /\ ~PaidOnChain(k) /\ PaidOnChain(k)'
              /\ Signed(k)' <=> Signed(k)
              /\ Delivered(k)' <=> Delivered(k)
           \/ /\ ~Delivered(k) /\ Delivered(k)'
              /\ PaidOnChain(k)' <=> PaidOnChain(k)
    PROVE  Exact!Next
<1>1. k \in Exact!Authorizations /\ Client!AuthKeys = {"pay", "race"}
  BY Keys DEF Exact!Authorizations
<1>2. Amount \in Nat
  BY FacilitatorAssumption DEF Uint
<1>3. /\ Delivered(k) => PaidOnChain(k)
      /\ PaidOnChain(k) => Signed(k)
      /\ Delivered(k)' => PaidOnChain(k)'
      /\ PaidOnChain(k)' => Signed(k)'
      /\ Signed("race")' => Delivered("pay")'
  BY Fates, FatesNext DEF FatesInOrder
<1>4. CASE /\ ~Signed(k) /\ Signed(k)'
           /\ PaidOnChain(k)' <=> PaidOnChain(k)
           /\ Delivered("pay")' => Delivered("pay")
  <2>1. AbstractStatus[k] = "unsigned" /\ AbstractStatus'[k] = "signed"
    BY <1>3, <1>4, StatusOf
  <2>2. k = "race" => AbstractStatus["pay"] = "delivered"
    BY <1>1, <1>3, <1>4, StatusOf
  <2>3. balanceOf'[PayTo] = balanceOf[PayTo]
    BY <1>1, <1>4 DEF PaidInv, MerchantInv, Received, SameFate
  <2>4. Exact!Sign(k)
    BY <2>1, <2>2, <2>3, StatusMoves DEF Exact!Sign
  <2>5. QED  BY <1>1, <2>4 DEF Exact!Next
<1>5. CASE /\ ~PaidOnChain(k) /\ PaidOnChain(k)'
           /\ Signed(k)' <=> Signed(k)
           /\ Delivered(k)' <=> Delivered(k)
  <2>1. AbstractStatus[k] = "signed" /\ AbstractStatus'[k] = "paid"
    BY <1>3, <1>5, StatusOf
  <2>2. balanceOf'[PayTo] = balanceOf[PayTo] + Amount
    BY <1>1, <1>2, <1>5 DEF PaidInv, MerchantInv, Received, SameFate
  <2>3. Exact!Pay(k)
    BY <2>1, <2>2, StatusMoves DEF Exact!Pay
  <2>4. QED  BY <1>1, <2>3 DEF Exact!Next
<1>6. CASE /\ ~Delivered(k) /\ Delivered(k)'
           /\ PaidOnChain(k)' <=> PaidOnChain(k)
  <2>1. AbstractStatus[k] = "paid" /\ AbstractStatus'[k] = "delivered"
    BY <1>3, <1>6, StatusOf
  <2>2. balanceOf'[PayTo] = balanceOf[PayTo]
    BY <1>1, <1>6 DEF PaidInv, MerchantInv, Received, SameFate
  <2>3. Exact!Deliver(k)
    BY <2>1, <2>2, StatusMoves DEF Exact!Deliver
  <2>4. QED  BY <1>1, <2>3 DEF Exact!Next
<1>7. QED  BY <1>4, <1>5, <1>6

\* A request is answered: the authorization it carries is served, if it was paid
\* and this answer says so.
LEMMA ExactHandle ==
    ASSUME PaidInv, PaidInv', ServerStep
    PROVE  [Exact!Next]_Exact!payVars
<1>1. Handle /\ ClientUnmoved /\ UNCHANGED expiry
  BY DEF ServerStep, ClientUnmoved, runVars
<1>2. answers \subseteq answers' /\ \E b : answers' \subseteq answers \cup {b}
  BY <1>1, ServerWire
     DEF Handle, Wait, HandleUnreadable, HandleStatic, HandleVerify, RefuseSettle, BeginSettle,
         Broadcast, BroadcastFails, ReceiptFound, ReceiptWaitFails, RespondSettle, Respond
<1>3. UNCHANGED mined
  BY <1>1 DEF Handle, Wait, HandleUnreadable, HandleStatic, HandleVerify, RefuseSettle,
              BeginSettle, Broadcast, BroadcastFails, ReceiptFound, ReceiptWaitFails, nodeVars
<1>4. \A k \in Client!AuthKeys :
         /\ Signed(k)' <=> Signed(k)
         /\ PaidOnChain(k)' <=> PaidOnChain(k)
         /\ Delivered(k) => Delivered(k)'
  BY <1>1, <1>2, <1>3 DEF Signed, PaidOnChain, Delivered
<1>5. CASE \A k \in Client!AuthKeys : Delivered(k)' => Delivered(k)
  BY <1>4, <1>5, ExactStutter DEF SameFate
<1>6. ASSUME NEW k \in Client!AuthKeys, Delivered(k)', ~Delivered(k)
      PROVE  Exact!Next
  <2>1. PICK b : answers' \subseteq answers \cup {b}
    BY <1>2
  <2>2. \A l \in Client!AuthKeys :
           Delivered(l)' /\ ~Delivered(l) => b.auth.nonce = NonceOf[l]
    BY <2>1 DEF Delivered
  <2>3. \A l \in Client!AuthKeys \ {k} : SameFate(l)
    BY <1>4, <1>6, <2>2, Keys, NonceOfKeys DEF SameFate
  <2>4. QED  BY <1>4, <1>6, <2>3, ExactMove
<1>7. QED  BY <1>5, <1>6

\* The chain moves: a block that executes a transaction of the run pays for the
\* authorization it carries.
LEMMA ExactChain ==
    ASSUME PaidInv, PaidInv', ChainStep
    PROVE  [Exact!Next]_Exact!payVars
<1>1. Chain /\ UNCHANGED <<expiry, answers>>
  BY DEF ChainStep, Chain, Mine, External, Faucet, Clock, handlerVars
<1>2. mined \subseteq mined' /\ \E m : mined' \subseteq mined \cup {m}
  BY <1>1 DEF Chain, Mine, External, Faucet, Clock, nodeVars
<1>3. \A k \in Client!AuthKeys :
         /\ Signed(k)' <=> Signed(k)
         /\ Delivered(k)' <=> Delivered(k)
         /\ PaidOnChain(k) => PaidOnChain(k)'
  BY <1>1, <1>2 DEF Signed, PaidOnChain, Delivered
<1>4. CASE \A k \in Client!AuthKeys : PaidOnChain(k)' => PaidOnChain(k)
  BY <1>3, <1>4, ExactStutter DEF SameFate
<1>5. ASSUME NEW k \in Client!AuthKeys, PaidOnChain(k)', ~PaidOnChain(k)
      PROVE  Exact!Next
  <2>1. PICK m : mined' \subseteq mined \cup {m}
    BY <1>2
  <2>2. \A l \in Client!AuthKeys :
           PaidOnChain(l)' /\ ~PaidOnChain(l) => m.tx.auth.nonce = NonceOf[l]
    BY <2>1 DEF PaidOnChain
  <2>3. \A l \in Client!AuthKeys \ {k} : SameFate(l)
    BY <1>3, <1>5, <2>2, Keys, NonceOfKeys DEF SameFate
  <2>4. QED  BY <1>3, <1>5, <2>3, ExactMove
<1>6. QED  BY <1>4, <1>5

\* The client moves: only its two signatures count.
LEMMA ExactClient ==
    ASSUME PaidInv, PaidInv', ClientStep
    PROVE  [Exact!Next]_Exact!payVars
<1>1. UNCHANGED <<mined, answers>>
  BY DEF ClientStep, RunStart, ReadBalance, SignPay, GradePaid, GradeReplayed, SendAttempt,
         ReceiveAnswer, Fault, CrashOut, ClientOnly, Arrive, Queue, facVars, handlerVars, nodeVars
<1>2. \A k \in Client!AuthKeys :
         (PaidOnChain(k)' <=> PaidOnChain(k)) /\ (Delivered(k)' <=> Delivered(k))
  BY <1>1 DEF PaidOnChain, Delivered
<1>3. CASE UNCHANGED expiry
  BY <1>2, <1>3, ExactStutter DEF SameFate, Signed
<1>4. ASSUME NEW k \in Client!AuthKeys, ~Signed(k), expiry' = [expiry EXCEPT ![k] = Expiry]
      PROVE  Exact!Next
  <2>1. Expiry # 0
    BY ExpiryIsSigned DEF PaidInv, FacInv, FacTypeOK, TokenTypeOK
  <2>2. Signed(k)' /\ \A l \in Client!AuthKeys \ {k} : Signed(l)' <=> Signed(l)
    BY <1>4, <2>1 DEF PaidInv, SignedInv, Signed
  <2>3. \A l \in Client!AuthKeys \ {k} : SameFate(l)
    BY <1>2, <2>2 DEF SameFate
  <2>4. QED  BY <1>2, <1>4, <2>2, <2>3, Keys, ExactMove
<1>5. CASE SignPay
  <2>1. ~Signed("pay") /\ expiry' = [expiry EXCEPT !["pay"] = Expiry]
    BY <1>5 DEF SignPay, Client!SignPayment, PaidInv, SignedInv
  <2>2. QED  BY <1>4, <2>1, Keys
<1>6. CASE GradeReplayed
  <2>1. ~Signed("race") /\ expiry' = [expiry EXCEPT !["race"] = Expiry]
    BY <1>6 DEF GradeReplayed, Client!GradeReplay, PaidInv, SignedInv
  <2>2. QED  BY <1>4, <2>1, Keys
<1>7. QED
  BY <1>3, <1>5, <1>6
     DEF ClientStep, RunStart, ReadBalance, GradePaid, SendAttempt, ReceiveAnswer, Fault,
         CrashOut, ClientOnly

LEMMA ExactStep == PaidInv /\ PaidInv' /\ [PaidNext]_paidVars => [Exact!Next]_Exact!payVars
<1> SUFFICES ASSUME PaidInv, PaidInv', [PaidNext]_paidVars PROVE [Exact!Next]_Exact!payVars
  OBVIOUS
<1>1. CASE UNCHANGED paidVars
  <2>1. \A k \in Client!AuthKeys : SameFate(k)
    BY <1>1 DEF paidVars, facVars, handlerVars, nodeVars, SameFate, Signed, PaidOnChain, Delivered
  <2>2. QED  BY <2>1, ExactStutter
<1>2. QED
  BY <1>1, ExactHandle, ExactChain, ExactClient DEF PaidNext, Reported

\* The run implements the abstract payment: an authorization is signed, moves the
\* price once, is served once it has paid, and the second one waits for the first.
THEOREM ImplementsExact == PaidSpec => ImplementsExactPayment
<1>1. PaidInit => Exact!Init
  <2> SUFFICES ASSUME PaidInit PROVE Exact!Init  OBVIOUS
  <2>1. \A k \in Client!AuthKeys : ~Delivered(k) /\ ~PaidOnChain(k) /\ expiry[k] = 0
    BY DEF PaidInit, FacInit, Delivered, PaidOnChain
  <2>2. AbstractStatus = [k \in Exact!Authorizations |-> "unsigned"]
    BY <2>1, Keys DEF AbstractStatus, Exact!Authorizations
  <2>3. balanceOf[PayTo] = 0
    BY FacilitatorAssumption DEF PaidInit, FacInit
  <2>4. QED  BY <2>2, <2>3 DEF Exact!Init
<1>2. QED
  BY <1>1, ExactStep, PaidInvariant, PTL DEF PaidSpec, ImplementsExactPayment, Exact!Spec
=============================================================================
