--------------------------- MODULE PaymentClient ----------------------------
(***************************************************************************)
(* The paying client: run_payment_checks and evaluate_payment (RS-PAY,     *)
(* RS-SEC-001/002, RS-HS-008/009) over the retrying sender _do of          *)
(* active.py.  One valid payment is sent and graded; if it settled, it is  *)
(* replayed, and then a second authorization is sent by several threads at *)
(* once.  Every send is its own bounded retry loop, and whatever is raised *)
(* on the way ends in the group's net.                                     *)
(*                                                                         *)
(* What the server, the network and the chain do is a parameter of the     *)
(* actions: a module that composes this one supplies it.                   *)
(***************************************************************************)
EXTENDS Integers, FiniteSets

CONSTANTS
    Racers,      \* the threads of RS-SEC-002 (n = 5 in the code)
    MaxRetries,  \* _MAX_RETRIES
    TxIds,       \* transaction hashes a server may report
    NoTx,        \* an empty transaction field
    BareTx       \* the transaction field "0x"

ASSUME ClientAssumption ==
    /\ MaxRetries \in Nat
    /\ IsFiniteSet(Racers)
    /\ Racers \cap {"pay", "replay"} = {}
    /\ TxIds \cap {NoTx, BareTx} = {}

VARIABLES
    stage,    \* where the check flow stands
    call,     \* [Calls -> the state of one _do loop]
    verdict   \* [PayChecks -> result so far]

clientVars == <<stage, call, verdict>>

PayChecks == {"RS-PAY-001", "RS-PAY-002", "RS-PAY-003", "RS-PAY-004",
              "RS-SEC-001", "RS-SEC-002", "RS-HS-008", "RS-HS-009"}

\* PENDING is SKIP with the reason settlement_pending.  ERROR is a preflight that
\* failed closed ("no payment sent"); CRASH is the ERROR of the group's net.
Results == {"PASS", "FAIL", "SKIP", "PENDING", "ERROR", "CRASH"}

Calls == {"pay", "replay"} \cup Racers

\* The authorization each call carries: the replay carries the payment's.
AuthKeys == {"pay", "race"}
AuthKey(c) == IF c \in Racers THEN "race" ELSE "pay"

\* 0 is a transport error; 503 stands for 429, 502, 503 and 504, 302 for every
\* redirect (never followed), 500 for every other server error.
Statuses == {0, 200, 302, 402, 500, 503}
Response ==
    [status : Statuses,
     settlement : {"absent", "malformed", "success", "pending", "failed"},
     tx : TxIds \cup {NoTx, BareTx},
     matching : BOOLEAN,   \* network, payer and amount agree with the requirement
     shared : BOOLEAN,     \* Cache-Control lets a shared cache store it
     leaks : BOOLEAN]      \* EXTENSION-RESPONSES is in its headers

TransportError == [status |-> 0, settlement |-> "absent", tx |-> NoTx,
                   matching |-> FALSE, shared |-> FALSE, leaks |-> FALSE]

Stages == {"start", "preflight", "sign", "pay", "replay", "race", "done"}
CallState == [state : {"idle", "ready", "waiting", "answered", "raised"},
              attempt : 0 .. MaxRetries,
              response : Response]

ClientTypeOK ==
    /\ stage \in Stages
    /\ call \in [Calls -> CallState]
    /\ verdict \in [PayChecks -> Results \cup {"none"}]

Idle == [state |-> "idle", attempt |-> 0, response |-> TransportError]

ClientInit ==
    /\ stage = "start"
    /\ call = [c \in Calls |-> Idle]
    /\ verdict = [k \in PayChecks |-> "none"]

-----------------------------------------------------------------------------
(* What a response means.                                                  *)

Served(r) == r.status = 200
Settled(r) == r.settlement = "success"
Accepted(r) == Served(r) \/ Settled(r)   \* the test RS-SEC-001/002 use

\* (mutant) a pending settlement is a refusal.
DeliveryNoPending(r) == IF Served(r) THEN "PASS" ELSE "FAIL"

\* (mutant) no answer at all is nothing to judge.
DeliverySkipsSilence(r) ==
    IF Served(r) THEN "PASS"
    ELSE IF r.status = 0 THEN "SKIP"
    ELSE IF r.settlement = "pending" THEN "PENDING" ELSE "FAIL"

\* RS-PAY-001: the resource was delivered.
Delivery(r) ==
    IF Served(r) THEN "PASS" ELSE IF r.settlement = "pending" THEN "PENDING" ELSE "FAIL"

\* RS-PAY-002: a success carries a valid settlement.
SettlementShape(r) ==
    CASE r.settlement = "success" -> IF r.tx \in {NoTx, BareTx} THEN "FAIL" ELSE "PASS"
      [] r.settlement = "pending" -> IF r.tx = NoTx THEN "FAIL" ELSE "PENDING"
      [] OTHER -> "FAIL"

\* RS-PAY-003: the settlement names this network, payer and amount.
Consistency(r) ==
    IF ~Settled(r) THEN "SKIP" ELSE IF r.matching THEN "PASS" ELSE "FAIL"

\* RS-PAY-004: the receipt proves the transfer; proof is what reading it gives.
OnChainProof(r, proof) ==
    IF ~Settled(r) \/ r.tx \in {NoTx, BareTx} THEN "SKIP" ELSE proof

\* RS-HS-008: a paid 200 is not for shared caches.
Cacheability(r) ==
    IF ~Served(r) THEN "SKIP" ELSE IF r.shared THEN "FAIL" ELSE "PASS"

\* RS-HS-009: the facilitator's sidechannel header, on the 402 or the answer.
SideChannel(r, challengeLeaks) ==
    IF challengeLeaks \/ r.leaks THEN "FAIL" ELSE IF r.status = 0 THEN "SKIP" ELSE "PASS"

-----------------------------------------------------------------------------
(* _do: one payment-bearing request with bounded retries.                  *)

Transient(r) == r.status = 503

\* client.request puts the attempt on the wire.
Send(c) ==
    /\ call[c].state = "ready"
    /\ call' = [call EXCEPT ![c].state = "waiting"]
    /\ UNCHANGED <<stage, verdict>>

\* (mutant) the attempt is not counted.
TryAgainUncounted(c) ==
    /\ call[c].attempt < MaxRetries
    /\ call' = [call EXCEPT ![c].state = "ready"]

\* continue: back off, then the next attempt carries the same payload.
TryAgain(c) ==
    /\ call[c].attempt < MaxRetries
    /\ call' = [call EXCEPT ![c].state = "ready", ![c].attempt = @ + 1]

Answered(c, r) ==
    call' = [call EXCEPT ![c].state = "answered", ![c].response = r]

\* An HTTP response: a transient status is retried while attempts are left,
\* anything else is the answer.
Receive(c, r) ==
    /\ call[c].state = "waiting"
    /\ \/ Transient(r) /\ TryAgain(c)
       \/ ~(Transient(r) /\ call[c].attempt < MaxRetries) /\ Answered(c, r)
    /\ UNCHANGED <<stage, verdict>>

\* A transient status with attempts left and a Retry-After that is an integer
\* too large for float(): _retry_delay catches ValueError, not that OverflowError,
\* and it is raised out of the send.
RetryAfterRaises(c, r) ==
    /\ call[c].state = "waiting" /\ Transient(r) /\ call[c].attempt < MaxRetries
    /\ call' = [call EXCEPT ![c].state = "raised"]
    /\ UNCHANGED <<stage, verdict>>

\* One of _RETRYABLE_ERRORS: no answer in time, or no connection.
RetryableFault(c) ==
    /\ call[c].state = "waiting"
    /\ \/ TryAgain(c)
       \/ call[c].attempt = MaxRetries /\ Answered(c, TransportError)
    /\ UNCHANGED <<stage, verdict>>

\* Any other httpx error: the endpoint broke the connection.
FatalFault(c) ==
    /\ call[c].state = "waiting"
    /\ Answered(c, TransportError)
    /\ UNCHANGED <<stage, verdict>>

-----------------------------------------------------------------------------
(* evaluate_payment.                                                       *)

\* (mutant) the two handshake checks of the group are forgotten.
FinishPaymentsOnly(result) ==
    /\ stage' = "done"
    /\ verdict' = [k \in PayChecks |->
                     IF k \in {"RS-HS-008", "RS-HS-009"} THEN "none" ELSE result]
    /\ UNCHANGED call

\* One outcome for the whole group, and nothing more is sent.
Finish(result) ==
    /\ stage' = "done"
    /\ verdict' = [k \in PayChecks |-> result]
    /\ UNCHANGED call

\* No requirement to pay (context None); or there is no RPC URL, or one that is
\* not on the advertised network (require_matching_rpc raises into the net).
Start(payable, rpcMatches) ==
    /\ stage = "start"
    /\ \/ ~payable /\ Finish("SKIP")
       \/ payable /\ ~rpcMatches /\ Finish("CRASH")
       \/ payable /\ rpcMatches /\ stage' = "preflight" /\ UNCHANGED <<call, verdict>>

\* The balance precheck fails closed.  balance is "unreadable" (or the amount is
\* not positive), "short" or "enough".
Preflight(balance) ==
    /\ stage = "preflight"
    /\ \/ balance = "unreadable" /\ Finish("ERROR")
       \/ balance = "short" /\ Finish("SKIP")
       \/ balance = "enough" /\ stage' = "sign" /\ UNCHANGED <<call, verdict>>

\* (mutant) the threads are started with the first payment.
LaunchEagerly(next, calls) ==
    /\ stage' = next
    /\ call' = [c \in Calls |->
                  IF c \in calls \cup Racers THEN [Idle EXCEPT !.state = "ready"] ELSE call[c]]

\* The calls that carry one authorization become ready to send.
Launch(next, calls) ==
    /\ stage' = next
    /\ call' = [c \in Calls |-> IF c \in calls THEN [Idle EXCEPT !.state = "ready"] ELSE call[c]]

\* build_exact_eip3009_payload signs the payment; a requirement it cannot sign
\* is a crash of the group.
SignPayment(signable) ==
    /\ stage = "sign"
    /\ \/ ~signable /\ Finish("CRASH")
       \/ signable /\ Launch("pay", {"pay"}) /\ UNCHANGED verdict

\* The paid answer is graded; only a settled payment is replayed and raced.
Grade(proof, challengeLeaks) ==
    LET r == call["pay"].response
        graded == [verdict EXCEPT !["RS-PAY-001"] = Delivery(r),
                                  !["RS-PAY-002"] = SettlementShape(r),
                                  !["RS-PAY-003"] = Consistency(r),
                                  !["RS-PAY-004"] = OnChainProof(r, proof),
                                  !["RS-HS-008"] = Cacheability(r),
                                  !["RS-HS-009"] = SideChannel(r, challengeLeaks)]
    IN  /\ stage = "pay" /\ call["pay"].state = "answered"
        /\ \/ Settled(r) /\ verdict' = graded /\ Launch("replay", {"replay"})
           \/ /\ ~Settled(r)
              /\ verdict' = [graded EXCEPT !["RS-SEC-001"] = "SKIP", !["RS-SEC-002"] = "SKIP"]
              /\ stage' = "done"
              /\ UNCHANGED call

\* RS-SEC-001, then a fresh authorization for the pool of threads, of which the
\* system may refuse to start some.
GradeReplay(unstarted) ==
    /\ stage = "replay" /\ call["replay"].state = "answered"
    /\ verdict' = [verdict EXCEPT !["RS-SEC-001"] =
                     IF Accepted(call["replay"].response) THEN "FAIL" ELSE "PASS"]
    /\ Launch("race", Racers \ unstarted)

Winners == {c \in Racers : Accepted(call[c].response)}

\* RS-SEC-002, once every thread has returned.
GradeRace ==
    /\ stage = "race" /\ \A c \in Racers : call[c].state = "answered"
    /\ verdict' = [verdict EXCEPT !["RS-SEC-002"] =
                     IF Cardinality(Winners) >= 2 THEN "FAIL" ELSE "PASS"]
    /\ stage' = "done"
    /\ UNCHANGED call

\* The net of run_payment_checks: a send has raised, a thread could not start, or
\* grading what came back raises.  The pool's with block has waited for the sends
\* that run.
Crash ==
    /\ stage \in {"pay", "replay", "race"}
    /\ \A c \in Calls : call[c].state \notin {"ready", "waiting"}
    /\ Finish("CRASH")

-----------------------------------------------------------------------------
\* The client against any endpoint: any response and any fault to each send.
ClientNext ==
    \/ \E payable, rpcMatches \in BOOLEAN : Start(payable, rpcMatches)
    \/ \E balance \in {"unreadable", "short", "enough"} : Preflight(balance)
    \/ \E signable \in BOOLEAN : SignPayment(signable)
    \/ \E c \in Calls :
          \/ Send(c) \/ RetryableFault(c) \/ FatalFault(c)
          \/ \E r \in Response : Receive(c, r) \/ RetryAfterRaises(c, r)
    \/ \E proof \in {"PASS", "FAIL", "SKIP"}, leaks \in BOOLEAN : Grade(proof, leaks)
    \/ \E unstarted \in SUBSET Racers : GradeReplay(unstarted)
    \/ GradeRace
    \/ Crash

ClientSpec == ClientInit /\ [][ClientNext]_clientVars

\* A second authorization is only ever put on the wire after the first one is
\* known to have settled: the run exposes the payer to one payment until then
\* (evaluate_payment's guards on settlement.success).
OnePaymentUntilSettled ==
    \A c \in Calls \ {"pay"} :
        call[c].state # "idle" => Settled(call["pay"].response)

\* A broadcast the server could not confirm is inconclusive, never a finding: a
\* pending answer that names its transaction fails neither RS-PAY check and is not
\* replayed or raced (CORE 9, the pending branches of evaluate_payment), unless
\* grading it crashes.
PendingIsInconclusive ==
    LET r == call["pay"].response IN
    /\ stage = "done" /\ verdict["RS-PAY-001"] # "CRASH"
    /\ r.settlement = "pending" /\ r.tx # NoTx /\ ~Served(r)
    =>
        /\ verdict["RS-PAY-001"] = "PENDING" /\ verdict["RS-PAY-002"] = "PENDING"
        /\ \A k \in {"RS-PAY-003", "RS-PAY-004", "RS-SEC-001", "RS-SEC-002"} :
              verdict[k] = "SKIP"
=============================================================================
