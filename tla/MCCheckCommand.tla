--------------------------- MODULE MCCheckCommand ---------------------------
(* Two test networks, a mainnet, the offers that tell the rules apart, and  *)
(* for each group the result sets that tell the verdicts apart.  A run of   *)
(* the program is one of check, facilitator, scan and discovery.            *)
EXTENDS Commands

CONSTANTS testA, testB, mainnet

E(network, flow) == [network |-> network, flow |-> flow, eligible |-> TRUE, buildable |-> TRUE]

MCOffers ==
    {<<>>,
     <<[E(testA, "authorization") EXCEPT !.eligible = FALSE]>>,
     <<[E(testA, "authorization") EXCEPT !.buildable = FALSE]>>,
     <<E(testA, "authorization")>>,
     <<E(testB, "authorization")>>,
     <<E(testA, "upfront"), E(testB, "authorization")>>,
     <<E(mainnet, "authorization"), E(testA, "upfront")>>,
     <<E(mainnet, "authorization")>>}

R(check, status, gating, reason) ==
    [check |-> check, status |-> status, gating |-> gating, reason |-> reason]

V2 == R("RS-PR-001", "pass", TRUE, "none")

MCOutcomes ==
    [passive |-> {{V2},
                  {V2, R("other", "skip", TRUE, "deferred_pending_upstream")},
                  {V2, R("other", "fail", TRUE, "none")},
                  {R("RS-PR-001", "skip", TRUE, "none"), R("other", "skip", TRUE, "endpoint_absent")},
                  {R("RS-PR-001", "skip", TRUE, "none"), R("other", "skip", TRUE, "none")}},
     active |-> {{R("other", "pass", TRUE, "none")}, {R("other", "fail", TRUE, "none")}},
     pay |-> {{R("other", "pass", TRUE, "none")},
              {R("other", "skip", TRUE, "settlement_pending")},
              {SuiteError}},
     timing |-> {{R("other", "pass", FALSE, "none")}, {R("other", "fail", FALSE, "none")}}]

MCFindings ==
    [supported |-> {{R("other", "pass", TRUE, "none")},
                    {R("other", "skip", TRUE, "endpoint_absent")},
                    {R("other", "fail", TRUE, "none")}},
     verify |-> {{R("other", "pass", TRUE, "noncanonical_reason")},
                 {R("other", "skip", TRUE, "endpoint_absent")},
                 {R("other", "fail", TRUE, "none")}},
     settle |-> {{R("other", "pass", TRUE, "none")},
                 {R("other", "skip", TRUE, "settlement_pending")}},
     discovery |-> {{R("other", "pass", TRUE, "none"), R("other", "fail", FALSE, "none")},
                    {R("other", "fail", TRUE, "none")}}]

Checking == [name |-> "check", targets |-> 0, authorize |-> FALSE]

CheckAlone == command = Checking /\ CheckNext /\ UNCHANGED <<command, entries>>

AnyInit ==
    \/ CheckInit /\ command = Checking /\ entries = <<>>
    \/ CommandInit

AnyNext == CheckAlone \/ (command # Checking /\ CommandNext)

AnySpec == AnyInit /\ [][AnyNext]_commandVars

\* The check command alone.
CheckAloneSpec ==
    CheckInit /\ command = Checking /\ entries = <<>> /\ [][CheckAlone]_commandVars

=============================================================================
