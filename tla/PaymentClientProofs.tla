------------------------ MODULE PaymentClientProofs ------------------------
(***************************************************************************)
(* The paying client against any endpoint, with any number of racing       *)
(* threads and any number of retries.                                      *)
(***************************************************************************)
EXTENDS PaymentClient, TLAPS

Outstanding(c) == call[c].state # "idle"

\* What a pending payment must have been graded as.
PendingGraded ==
    LET r == call["pay"].response IN
    r.settlement = "pending" /\ r.tx # NoTx /\ ~Served(r) =>
        /\ verdict["RS-PAY-001"] = "PENDING" /\ verdict["RS-PAY-002"] = "PENDING"
        /\ \A k \in {"RS-PAY-003", "RS-PAY-004", "RS-SEC-001", "RS-SEC-002"} :
              verdict[k] = "SKIP"

Crashed == verdict["RS-PAY-001"] = "CRASH"
Alone == \A c \in Calls \ {"pay"} : ~Outstanding(c)
PaymentSettled == call["pay"].state = "answered" /\ Settled(call["pay"].response)

\* Nothing is sent before the payment; what is sent after it follows an answered
\* and settled one; and a flow that ends has sent nothing, has its answer, or crashed.
ClientInv ==
    /\ ClientTypeOK
    /\ stage \in {"start", "preflight", "sign"} => \A c \in Calls : call[c] = Idle
    /\ stage = "pay" => Alone /\ call["pay"].state # "idle"
    /\ stage \in {"replay", "race"} => PaymentSettled
    /\ stage = "done" =>
          \/ \A c \in Calls : call[c] = Idle
          \/ Crashed /\ Alone /\ call["pay"].state \in {"answered", "raised"}
          \/ call["pay"].state = "answered" /\ Alone /\ PendingGraded
          \/ PaymentSettled

-----------------------------------------------------------------------------
\* The two calls with names of their own are no threads.
LEMMA PayIsACall == "pay" \in Calls /\ "pay" \notin Racers /\ "replay" \in Calls
BY ClientAssumption DEF Calls

LEMMA TransportErrorIsAResponse == TransportError \in Response
BY DEF TransportError, Response, Statuses

LEMMA ReadyIsACallState ==
    /\ Idle \in CallState
    /\ [Idle EXCEPT !.state = "ready"] \in CallState
BY TransportErrorIsAResponse, ClientAssumption DEF Idle, CallState

LEMMA ClientInitInv == ClientInit => ClientInv
BY ReadyIsACallState DEF ClientInit, ClientInv, ClientTypeOK, Stages, Results

\* A step of one call's retry loop changes that call alone, and only while it is
\* under way.
LEMMA LoopKeeps ==
    ASSUME ClientInv, NEW c \in Calls, NEW next \in CallState,
           call[c].state \in {"ready", "waiting"}, next.state # "idle",
           call' = [call EXCEPT ![c] = next], UNCHANGED <<stage, verdict>>
    PROVE  ClientInv'
<1>1. call \in [Calls -> CallState] /\ call' \in [Calls -> CallState]
  BY DEF ClientInv, ClientTypeOK
<1>2. ClientTypeOK'
  BY <1>1 DEF ClientInv, ClientTypeOK
<1>3. \A d \in Calls \ {c} : call'[d] = call[d]
  BY <1>1
<1>4. call[c] # Idle
  BY DEF Idle
<1>5. stage \notin {"start", "preflight", "sign"}
  BY <1>4 DEF ClientInv
<1>6. CASE stage = "pay"
  <2>1. c = "pay"
    BY <1>6 DEF ClientInv, Alone, Outstanding
  <2>2. Alone'
    BY <1>3, <1>6, <2>1 DEF ClientInv, Alone, Outstanding
  <2>3. QED  BY <1>2, <1>6, <2>2 DEF ClientInv
<1>7. CASE stage \in {"replay", "race"}
  <2>1. c # "pay"
    BY <1>7 DEF ClientInv, PaymentSettled
  <2>2. PaymentSettled'
    BY <1>3, <1>7, <2>1, PayIsACall DEF ClientInv, PaymentSettled, Settled
  <2>3. QED  BY <1>2, <1>7, <2>2 DEF ClientInv
<1>8. CASE stage = "done"
  <2>1. PaymentSettled /\ c # "pay"
    BY <1>4, <1>8 DEF ClientInv, Alone, Outstanding, PaymentSettled
  <2>2. PaymentSettled'
    BY <1>3, <2>1, PayIsACall DEF PaymentSettled, Settled
  <2>3. QED  BY <1>2, <1>8, <2>2 DEF ClientInv
<1>9. QED
  BY <1>5, <1>6, <1>7, <1>8 DEF ClientInv, ClientTypeOK, Stages

\* A retry loop only ever makes these kinds of step.
LEMMA CallStateFields ==
    ASSUME NEW s \in CallState
    PROVE  /\ [s EXCEPT !.state = "waiting"] \in CallState
           /\ s.attempt < MaxRetries =>
                 [s EXCEPT !.state = "ready", !.attempt = @ + 1] \in CallState
           /\ [s EXCEPT !.state = "raised"] \in CallState
           /\ \A r \in Response :
                 [s EXCEPT !.state = "answered", !.response = r] \in CallState
<1>2. /\ s.state \in {"idle", "ready", "waiting", "answered", "raised"}
      /\ s.attempt \in 0 .. MaxRetries
      /\ s.response \in Response
  BY DEF CallState
<1>3. [s EXCEPT !.state = "waiting"] \in CallState /\ [s EXCEPT !.state = "raised"] \in CallState
  BY <1>2 DEF CallState
<1>4. ASSUME s.attempt < MaxRetries
      PROVE  [s EXCEPT !.state = "ready", !.attempt = @ + 1] \in CallState
  <2> DEFINE n == s.attempt + 1
  <2>1. n \in 0 .. MaxRetries
    BY <1>2, <1>4, ClientAssumption
  <2> HIDE DEF n
  <2>2. [s EXCEPT !.state = "ready", !.attempt = n] \in CallState
    BY <2>1 DEF CallState
  <2>3. QED  BY <2>2 DEF n
<1>5. ASSUME NEW r \in Response
      PROVE  [s EXCEPT !.state = "answered", !.response = r] \in CallState
  BY <1>2 DEF CallState
<1>6. QED  BY <1>3, <1>4, <1>5

LEMMA SendKeeps == ASSUME ClientInv, NEW c \in Calls, Send(c) PROVE ClientInv'
<1> DEFINE next == [call[c] EXCEPT !.state = "waiting"]
<1>1. call[c] \in CallState /\ call \in [Calls -> CallState]
  BY DEF ClientInv, ClientTypeOK
<1>2. next \in CallState /\ next.state = "waiting"
  BY <1>1, CallStateFields DEF CallState
<1>3. call' = [call EXCEPT ![c] = next]
  BY <1>1 DEF Send
<1>4. call[c].state = "ready" /\ UNCHANGED <<stage, verdict>>
  BY DEF Send
<1> HIDE DEF next
<1>5. QED  BY <1>2, <1>3, <1>4, LoopKeeps

LEMMA TryAgainKeeps ==
    ASSUME ClientInv, NEW c \in Calls, call[c].state = "waiting", TryAgain(c),
           UNCHANGED <<stage, verdict>>
    PROVE  ClientInv'
<1> DEFINE next == [call[c] EXCEPT !.state = "ready", !.attempt = @ + 1]
<1>1. call[c] \in CallState /\ call \in [Calls -> CallState]
  BY DEF ClientInv, ClientTypeOK
<1>2. next \in CallState /\ next.state = "ready"
  BY <1>1, CallStateFields DEF CallState, TryAgain
<1>3. call' = [call EXCEPT ![c] = next]
  BY <1>1 DEF TryAgain
<1> HIDE DEF next
<1>4. QED  BY <1>2, <1>3, LoopKeeps

LEMMA AnsweredKeeps ==
    ASSUME ClientInv, NEW c \in Calls, call[c].state = "waiting",
           NEW r \in Response, Answered(c, r), UNCHANGED <<stage, verdict>>
    PROVE  ClientInv'
<1> DEFINE next == [call[c] EXCEPT !.state = "answered", !.response = r]
<1>1. call[c] \in CallState /\ call \in [Calls -> CallState]
  BY DEF ClientInv, ClientTypeOK
<1>2. next \in CallState /\ next.state = "answered"
  BY <1>1, CallStateFields DEF CallState
<1>3. call' = [call EXCEPT ![c] = next]
  BY <1>1 DEF Answered
<1> HIDE DEF next
<1>4. QED  BY <1>2, <1>3, LoopKeeps

LEMMA ReceiveKeeps ==
    ASSUME ClientInv, NEW c \in Calls, NEW r \in Response, Receive(c, r) PROVE ClientInv'
BY TryAgainKeeps, AnsweredKeeps DEF Receive

LEMMA RaiseKeeps ==
    ASSUME ClientInv, NEW c \in Calls, NEW r, RetryAfterRaises(c, r) PROVE ClientInv'
<1> DEFINE next == [call[c] EXCEPT !.state = "raised"]
<1>1. call[c] \in CallState /\ call \in [Calls -> CallState]
  BY DEF ClientInv, ClientTypeOK
<1>2. next \in CallState /\ next.state = "raised"
  BY <1>1, CallStateFields DEF CallState
<1>3. call' = [call EXCEPT ![c] = next]
  BY <1>1 DEF RetryAfterRaises
<1>4. call[c].state = "waiting" /\ UNCHANGED <<stage, verdict>>
  BY DEF RetryAfterRaises
<1> HIDE DEF next
<1>5. QED  BY <1>2, <1>3, <1>4, LoopKeeps

LEMMA FaultKeeps ==
    ASSUME ClientInv, NEW c \in Calls, RetryableFault(c) \/ FatalFault(c)
    PROVE  ClientInv'
BY TryAgainKeeps, AnsweredKeeps, TransportErrorIsAResponse DEF RetryableFault, FatalFault

-----------------------------------------------------------------------------
\* The flow ends before the payment with one result for every check.
LEMMA FinishKeeps ==
    ASSUME ClientInv, stage \in {"start", "preflight", "sign"},
           NEW result \in Results, Finish(result)
    PROVE  ClientInv'
BY DEF ClientInv, ClientTypeOK, Finish, Stages

LEMMA StartKeeps ==
    ASSUME ClientInv, NEW payable, NEW rpcMatches, Start(payable, rpcMatches)
    PROVE  ClientInv'
<1>1. CASE Finish("SKIP") \/ Finish("CRASH")
  BY <1>1, FinishKeeps DEF Start, Results
<1>2. CASE stage' = "preflight" /\ UNCHANGED <<call, verdict>>
  BY <1>2 DEF Start, ClientInv, ClientTypeOK, Stages
<1>3. QED  BY <1>1, <1>2 DEF Start

LEMMA PreflightKeeps ==
    ASSUME ClientInv, NEW balance, Preflight(balance) PROVE ClientInv'
<1>1. CASE Finish("SKIP") \/ Finish("ERROR")
  BY <1>1, FinishKeeps DEF Preflight, Results
<1>2. CASE stage' = "sign" /\ UNCHANGED <<call, verdict>>
  BY <1>2 DEF Preflight, ClientInv, ClientTypeOK, Stages
<1>3. QED  BY <1>1, <1>2 DEF Preflight

LEMMA LaunchType ==
    ASSUME ClientTypeOK, NEW next, NEW calls, Launch(next, calls)
    PROVE  /\ call' \in [Calls -> CallState]
           /\ \A c \in Calls \ calls : call'[c] = call[c]
BY ReadyIsACallState DEF ClientTypeOK, Launch

LEMMA SignKeeps ==
    ASSUME ClientInv, NEW signable, SignPayment(signable) PROVE ClientInv'
<1>1. CASE Finish("CRASH")
  BY <1>1, FinishKeeps DEF SignPayment, Results
<1>2. CASE Launch("pay", {"pay"}) /\ UNCHANGED verdict
  <2>1. call' \in [Calls -> CallState] /\ \A c \in Calls \ {"pay"} : call'[c] = call[c]
    BY <1>2, LaunchType DEF ClientInv
  <2>2. \A c \in Calls : call[c].state = "idle"
    BY DEF SignPayment, ClientInv, Idle
  <2>3. stage' = "pay" /\ call'["pay"].state # "idle"
    BY <1>2, PayIsACall DEF Launch, Idle
  <2>4. Alone' /\ ClientTypeOK'
    BY <1>2, <2>1, <2>2, <2>3 DEF Alone, Outstanding, ClientInv, ClientTypeOK, Stages
  <2>5. QED  BY <2>3, <2>4 DEF ClientInv
<1>3. QED  BY <1>1, <1>2 DEF SignPayment

\* What evaluate_payment makes of an answer is a result.
LEMMA VerdictsAreResults ==
    ASSUME NEW r \in Response, NEW proof \in Results, NEW leaks
    PROVE  /\ Delivery(r) \in Results /\ SettlementShape(r) \in Results
           /\ Consistency(r) \in Results /\ OnChainProof(r, proof) \in Results
           /\ Cacheability(r) \in Results /\ SideChannel(r, leaks) \in Results
BY DEF Delivery, SettlementShape, Consistency, OnChainProof, Cacheability,
       SideChannel, Results

LEMMA GradeKeeps ==
    ASSUME ClientInv, NEW proof \in Results, NEW leaks, Grade(proof, leaks)
    PROVE  ClientInv'
<1> DEFINE r == call["pay"].response
           d1 == Delivery(r)
           d2 == SettlementShape(r)
           d3 == Consistency(r)
           d4 == OnChainProof(r, proof)
           d5 == Cacheability(r)
           d6 == SideChannel(r, leaks)
           graded == [verdict EXCEPT !["RS-PAY-001"] = d1, !["RS-PAY-002"] = d2,
                                     !["RS-PAY-003"] = d3, !["RS-PAY-004"] = d4,
                                     !["RS-HS-008"] = d5, !["RS-HS-009"] = d6]
<1>1. r \in Response /\ stage = "pay" /\ call["pay"].state = "answered"
  BY PayIsACall DEF ClientInv, ClientTypeOK, CallState, Grade
<1>2. /\ d1 \in Results /\ d2 \in Results /\ d3 \in Results
      /\ d4 \in Results /\ d5 \in Results /\ d6 \in Results
  BY <1>1, VerdictsAreResults
<1>3. verdict \in [PayChecks -> Results \cup {"none"}] /\ "SKIP" \in Results
  BY DEF ClientInv, ClientTypeOK, Results
<1>4. r.settlement = "pending" /\ r.tx # NoTx /\ ~Served(r) =>
        d1 = "PENDING" /\ d2 = "PENDING" /\ d3 = "SKIP" /\ d4 = "SKIP"
  BY DEF Delivery, SettlementShape, Consistency, OnChainProof, Served, Settled
<1>5. \/ Settled(r) /\ verdict' = graded /\ Launch("replay", {"replay"})
      \/ /\ ~Settled(r)
         /\ verdict' = [graded EXCEPT !["RS-SEC-001"] = "SKIP", !["RS-SEC-002"] = "SKIP"]
         /\ stage' = "done"
         /\ UNCHANGED call
  BY DEF Grade
<1> HIDE DEF d1, d2, d3, d4, d5, d6
<1>6. graded \in [PayChecks -> Results \cup {"none"}]
  BY <1>2, <1>3
<1>7. CASE Settled(r) /\ verdict' = graded /\ Launch("replay", {"replay"})
  <2>1. call' \in [Calls -> CallState] /\ call'["pay"] = call["pay"]
    BY <1>7, LaunchType, PayIsACall DEF ClientInv
  <2>2. stage' = "replay"
    BY <1>7 DEF Launch
  <2>3. PaymentSettled'
    BY <1>1, <1>7, <2>1 DEF PaymentSettled, Settled
  <2>4. ClientTypeOK'
    BY <1>1, <1>6, <1>7, <2>1, <2>2 DEF ClientTypeOK, ClientInv, Stages
  <2>5. QED  BY <2>2, <2>3, <2>4 DEF ClientInv
<1>8. CASE /\ ~Settled(r)
           /\ verdict' = [graded EXCEPT !["RS-SEC-001"] = "SKIP", !["RS-SEC-002"] = "SKIP"]
           /\ stage' = "done"
           /\ UNCHANGED call
  <2>1. verdict' \in [PayChecks -> Results \cup {"none"}]
    BY <1>3, <1>6, <1>8
  <2>2. /\ verdict'["RS-PAY-001"] = d1 /\ verdict'["RS-PAY-002"] = d2
        /\ verdict'["RS-PAY-003"] = d3 /\ verdict'["RS-PAY-004"] = d4
        /\ verdict'["RS-SEC-001"] = "SKIP" /\ verdict'["RS-SEC-002"] = "SKIP"
    BY <1>3, <1>8 DEF PayChecks
  <2>3. PendingGraded'
    BY <1>4, <1>8, <2>2 DEF PendingGraded, Served
  <2>4. ClientTypeOK' /\ Alone'
    BY <1>1, <1>8, <2>1 DEF ClientTypeOK, ClientInv, Stages, Alone, Outstanding
  <2>5. QED  BY <1>1, <1>8, <2>3, <2>4 DEF ClientInv
<1>9. QED  BY <1>5, <1>7, <1>8

LEMMA GradeReplayKeeps ==
    ASSUME ClientInv, NEW unstarted, GradeReplay(unstarted) PROVE ClientInv'
<1>1. call' \in [Calls -> CallState] /\ call'["pay"] = call["pay"]
  BY LaunchType, PayIsACall DEF ClientInv, GradeReplay
<1>2. stage' = "race" /\ stage = "replay"
  BY DEF GradeReplay, Launch
<1>3. PaymentSettled'
  BY <1>1, <1>2 DEF ClientInv, PaymentSettled, Settled
<1>4. verdict' \in [PayChecks -> Results \cup {"none"}]
  BY DEF ClientInv, ClientTypeOK, GradeReplay, Results
<1>5. QED  BY <1>1, <1>2, <1>3, <1>4 DEF ClientInv, ClientTypeOK, Stages

LEMMA GradeRaceKeeps == ASSUME ClientInv, GradeRace PROVE ClientInv'
<1> DEFINE v == IF Cardinality(Winners) >= 2 THEN "FAIL" ELSE "PASS"
<1>1. stage' = "done" /\ stage = "race" /\ UNCHANGED call
  BY DEF GradeRace
<1>2. v \in Results /\ verdict' = [verdict EXCEPT !["RS-SEC-002"] = v]
  BY DEF GradeRace, Results
<1> HIDE DEF v
<1>3. verdict' \in [PayChecks -> Results \cup {"none"}]
  BY <1>2 DEF ClientInv, ClientTypeOK
<1>4. PaymentSettled'
  BY <1>1 DEF ClientInv, PaymentSettled, Settled
<1>5. QED  BY <1>1, <1>3, <1>4 DEF ClientInv, ClientTypeOK, Stages

LEMMA CrashKeeps == ASSUME ClientInv, Crash PROVE ClientInv'
<1>1. /\ stage' = "done" /\ UNCHANGED call
      /\ verdict' = [k \in PayChecks |-> "CRASH"]
  BY DEF Crash, Finish
<1>2. ClientTypeOK' /\ Crashed'
  BY <1>1 DEF ClientInv, ClientTypeOK, Stages, Results, Crashed, PayChecks
<1>3. CASE stage = "pay"
  <2>1. call["pay"].state \in {"idle", "answered", "raised"} /\ call["pay"] \in CallState
    BY PayIsACall DEF Crash, ClientInv, ClientTypeOK, CallState
  <2>2. call["pay"].state # "idle"
    BY <1>3 DEF ClientInv
  <2>3. QED  BY <1>1, <1>2, <1>3, <2>1, <2>2 DEF ClientInv, Alone, Outstanding
<1>4. CASE stage \in {"replay", "race"}
  BY <1>1, <1>2, <1>4 DEF ClientInv, PaymentSettled, Settled
<1>5. QED  BY <1>3, <1>4 DEF Crash

-----------------------------------------------------------------------------
LEMMA ClientStep == ClientInv /\ [ClientNext]_clientVars => ClientInv'
<1> SUFFICES ASSUME ClientInv, [ClientNext]_clientVars PROVE ClientInv'
  OBVIOUS
<1>1. CASE UNCHANGED clientVars
  BY <1>1 DEF clientVars, ClientInv, ClientTypeOK, Alone, Outstanding,
              PaymentSettled, PendingGraded, Settled, Served, Crashed
<1>2. CASE \E payable, rpcMatches \in BOOLEAN : Start(payable, rpcMatches)
  BY <1>2, StartKeeps
<1>3. CASE \E balance \in {"unreadable", "short", "enough"} : Preflight(balance)
  BY <1>3, PreflightKeeps
<1>4. CASE \E signable \in BOOLEAN : SignPayment(signable)
  BY <1>4, SignKeeps
<1>5. CASE \E c \in Calls :
             \/ Send(c) \/ RetryableFault(c) \/ FatalFault(c)
             \/ \E r \in Response : Receive(c, r) \/ RetryAfterRaises(c, r)
  BY <1>5, SendKeeps, FaultKeeps, ReceiveKeeps, RaiseKeeps
<1>6. CASE \E proof \in {"PASS", "FAIL", "SKIP"}, leaks \in BOOLEAN : Grade(proof, leaks)
  BY <1>6, GradeKeeps DEF Results
<1>7. CASE \E unstarted \in SUBSET Racers : GradeReplay(unstarted)
  BY <1>7, GradeReplayKeeps
<1>8. CASE GradeRace
  BY <1>8, GradeRaceKeeps
<1>9. QED
  BY CrashKeeps, <1>1, <1>2, <1>3, <1>4, <1>5, <1>6, <1>7, <1>8 DEF ClientNext

THEOREM ClientInvariant == ClientSpec => []ClientInv
BY ClientInitInv, ClientStep, PTL DEF ClientSpec

\* No endpoint can make the client put a second authorization, or the first one
\* again, on the wire before it has reported the payment as settled: however it
\* answers, and with however many threads and retries (OnePaymentUntilSettled).
THEOREM OnePayment == ClientSpec => []OnePaymentUntilSettled
<1>1. ClientInv => OnePaymentUntilSettled
  <2> SUFFICES ASSUME ClientInv, NEW c \in Calls \ {"pay"}, Outstanding(c)
               PROVE  Settled(call["pay"].response)
    BY DEF OnePaymentUntilSettled, Outstanding
  <2>1. call[c] # Idle
    BY DEF Outstanding, Idle
  <2>2. QED
    BY <2>1 DEF ClientInv, ClientTypeOK, Stages, Alone, PaymentSettled
<1>2. QED  BY <1>1, ClientInvariant, PTL

\* A pending settlement that names its transaction is neither passed nor failed,
\* whatever the endpoint and the chain do around it (PendingIsInconclusive).
THEOREM PendingInconclusive == ClientSpec => []PendingIsInconclusive
<1>1. ClientInv => PendingIsInconclusive
  <2> SUFFICES ASSUME ClientInv, stage = "done", verdict["RS-PAY-001"] # "CRASH",
                      call["pay"].response.settlement = "pending",
                      call["pay"].response.tx # NoTx, ~Served(call["pay"].response)
               PROVE  PendingGraded
    BY DEF PendingIsInconclusive, PendingGraded
  <2>1. call["pay"] # Idle
    BY DEF Idle, TransportError
  <2>2. ~PaymentSettled
    BY DEF PaymentSettled, Settled
  <2>3. QED
    BY <2>1, <2>2, PayIsACall DEF ClientInv, Crashed
<1>2. QED  BY <1>1, ClientInvariant, PTL
=============================================================================
