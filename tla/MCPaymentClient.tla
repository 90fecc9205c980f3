-------------------------- MODULE MCPaymentClient ---------------------------
(* The client against any endpoint: every response and every fault, in any *)
(* order, to each of its sends.                                            *)
EXTENDS PaymentClient

CONSTANTS r1, r2, tx

Plain(status, settlement, hash) ==
    [status |-> status, settlement |-> settlement, tx |-> hash,
     matching |-> TRUE, shared |-> FALSE, leaks |-> FALSE]

\* The paid answer in every form that changes a verdict.
PayResponses ==
    {Plain(status, settlement, hash) :
        status \in {200, 402, 503},
        settlement \in {"absent", "malformed", "success", "pending", "failed"},
        hash \in {tx, NoTx, BareTx}}
      \cup {Plain(status, "absent", NoTx) : status \in {302, 500}}
      \cup {[Plain(200, "success", tx) EXCEPT !.matching = m, !.shared = s, !.leaks = l] :
              m \in BOOLEAN, s \in BOOLEAN, l \in BOOLEAN}

\* A later answer counts through its status and its settlement's success.
LaterResponses == {Plain(status, settlement, NoTx) :
                      status \in {200, 402, 503}, settlement \in {"absent", "success"}}

ResponsesTo(c) == IF c = "pay" THEN PayResponses ELSE LaterResponses

\* A send has raised, or a thread has not started.
Broken ==
    \/ \E c \in Calls : call[c].state = "raised"
    \/ stage = "race" /\ \E c \in Racers : call[c].state = "idle"

\* What must go on: an exception that was raised is caught, but the run cannot
\* count on one.
Proceed ==
    \/ \E payable, rpcMatches \in BOOLEAN : Start(payable, rpcMatches)
    \/ \E balance \in {"unreadable", "short", "enough"} : Preflight(balance)
    \/ \E signable \in BOOLEAN : SignPayment(signable)
    \/ \E c \in Calls :
          \/ Send(c)
          \/ \E r \in ResponsesTo(c) : Receive(c, r)
          \/ RetryableFault(c)
          \/ FatalFault(c)
    \/ \E proof \in {"PASS", "FAIL", "SKIP"}, leaks \in BOOLEAN : Grade(proof, leaks)
    \/ \E unstarted \in SUBSET Racers : GradeReplay(unstarted)
    \/ GradeRace
    \/ Broken /\ Crash
    \/ stage = "done" /\ UNCHANGED clientVars

Next ==
    \/ Proceed
    \/ \E c \in Calls : \E r \in ResponsesTo(c) : RetryAfterRaises(c, r)
    \/ Crash

Spec == ClientInit /\ [][Next]_clientVars /\ WF_clientVars(Proceed)

\* The flow always comes to a report, and a whole one: every retry loop is
\* bounded, every request ends in an answer or a fault (the client has timeouts),
\* and each early return, and the net, decides all eight results.
EventuallyReported == <>(stage = "done" /\ \A k \in PayChecks : verdict[k] # "none")
=============================================================================
