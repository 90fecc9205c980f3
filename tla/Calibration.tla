---------------------------- MODULE Calibration -----------------------------
(***************************************************************************)
(* One group of checks run against the calibration target: evaluate_active *)
(* (`check --active`), check after check or on a pool of threads, or       *)
(* evaluate_facilitator (`facilitator --resource`), always in sequence.    *)
(***************************************************************************)
EXTENDS CalibrationTarget, FacilitatorChecks, FiniteSets, Functions

CONSTANTS
    Setups,        \* the runs: command, target and options
    MaxOvertakes   \* bound: how often a later check may complete first

VARIABLES
    setup,      \* command; the target's bugs and price (its own is 10000, and it
                \* stands for a server of any price); --resource-marker given;
                \* threads; whether the facilitator URL is the target's at all
    taken,      \* checks of the registry taken from the pool's queue
    running,    \* checks on a thread
    collected,  \* results, in the order they completed
    report      \* what the group returns, empty before

calVars == <<setup, taken, running, collected, report>>

Command == [command : {"check", "facilitator"}, bugs : SUBSET BugNames, price : Nat,
            marker : BOOLEAN, concurrency : Nat, there : BOOLEAN]

\* An active run has the challenge it attacks; a facilitator run has no pool.
Setup == {s \in Command : /\ 2 * s.price <= Extreme
                          /\ s.command = "check" => s.there
                          /\ s.command = "facilitator" => s.concurrency = 1}

ASSUME CalibrationAssumption == Setups \subseteq Setup /\ MaxOvertakes \in Nat

CalInit ==
    /\ setup \in Setups
    /\ taken = 0
    /\ running = {}
    /\ collected = <<>>
    /\ report = <<>>

-----------------------------------------------------------------------------
Registry == IF setup.command = "check" THEN ActiveRegistry ELSE FaRegistry

\* One check of the active group: its probe, the target's answer, the verdict.
\* Without --resource-marker nothing looks for the marker.
RunActive(check) ==
    IF Inapplicable(check, setup.price) THEN Judged("skip")
    ELSE LET answer == GetPaid(Probes(setup.price)[check], setup.price, setup.bugs)
         IN  Judged(AssertRejected(answer, AllowedStatuses(check), setup.marker))

NotFound == [status |-> 404, body |-> "malformed", kinds |-> "none",
             reason |-> "none", extension |-> "none"]

Verified(check) ==
    IF setup.there THEN PostVerify(FaProbes(setup.price)[check], setup.price, setup.bugs)
    ELSE NotFound

SupportedAnswer == IF setup.there THEN GetSupported ELSE NotFound

\* One check of the facilitator's registry.
RunFacilitator(check) ==
    CASE check = "SUP_001" -> JudgeSupported(SupportedAnswer)
      [] check = "SUP_002" -> JudgeKinds(SupportedAnswer)
      [] check = "EXT_001" ->
            JudgeExtensions({Verified(c).extension : c \in DOMAIN FaProbes(setup.price)} \ {"none"})
      [] OTHER -> JudgeVerify(check, Verified(check))

Result(check) ==
    LET judged == IF setup.command = "check" THEN RunActive(check) ELSE RunFacilitator(check)
    IN  [check |-> check, status |-> judged.status, code |-> judged.code]

-----------------------------------------------------------------------------
Order(check) == CHOOSE i \in DOMAIN Registry : Registry[i] = check

\* (mutant) the pool's results are returned as they completed.
AsCompleted == collected

\* The results whose check comes before that of collected[j] in the registry.
Before(j) == {k \in DOMAIN collected : Order(collected[k].check) < Order(collected[j].check)}

\* The pool restores the registry's order: it sorts what it collected by the check's
\* place, so that the i-th result is the one with i - 1 before it.
InRegistryOrder ==
    [i \in DOMAIN collected |->
        collected[CHOOSE j \in DOMAIN collected : Cardinality(Before(j)) = i - 1]]

\* Pairs of checks whose later one completed while the earlier still ran.
Overtakes(results, pending) ==
    LET later(i) == {c \in pending \cup {results[j].check : j \in i + 1..Len(results)} :
                        Order(c) < Order(results[i].check)}
    IN  SumFunction([i \in DOMAIN results |-> Cardinality(later(i))])

Pooled == setup.concurrency > 1

\* One thread: a check is run and its result appended.
RunNext ==
    /\ ~Pooled /\ Len(collected) < Len(Registry)
    /\ collected' = Append(collected, Result(Registry[Len(collected) + 1]))
    /\ UNCHANGED <<setup, taken, running, report>>

\* A free thread takes the check submitted earliest.
Take ==
    /\ Pooled /\ taken < Len(Registry)
    /\ Cardinality(running) < setup.concurrency
    /\ taken' = taken + 1
    /\ running' = running \cup {Registry[taken + 1]}
    /\ UNCHANGED <<setup, collected, report>>

\* as_completed hands over a finished check.
Complete(check) ==
    /\ check \in running
    /\ running' = running \ {check}
    /\ collected' = Append(collected, Result(check))
    /\ Overtakes(collected', running') <= MaxOvertakes
    /\ UNCHANGED <<setup, taken, report>>

Return ==
    /\ report = <<>> /\ Len(collected) = Len(Registry)
    /\ report' = IF Pooled THEN InRegistryOrder ELSE collected
    /\ UNCHANGED <<setup, taken, running, collected>>

CalNext ==
    \/ RunNext
    \/ Take
    \/ \E check \in running : Complete(check)
    \/ Return
    \/ report # <<>> /\ UNCHANGED calVars

CalSpec == CalInit /\ [][CalNext]_calVars

-----------------------------------------------------------------------------
\* Which omissions of a server each check is there to find; --resource-marker
\* adds a leak on any refused payment.
Culprits(check) ==
    CASE check \in {"NEG_005", "NEG_006", "NEG_013", "VER_002", "ERR_001"} -> {"amount"}
      [] check = "SEC_011" -> {"amount", "crash_huge"}
      [] check = "NEG_007" -> {"recipient"}
      [] check \in {"NEG_008", "NEG_009"} -> {"time"}
      [] check = "NEG_011" -> {"scheme_network"}
      [] check = "NEG_012" -> {"version"}
      [] check = "SEC_003" -> {"resource_bind"}
      [] check \in {"NEG_003", "NEG_004", "NEG_014", "NEG_015", "SEC_004", "SEC_006", "SEC_007",
                    "SEC_010", "VER_003"} -> {"signature"}
      [] OTHER -> {}

Leakable(check) ==
    check \in DOMAIN Probes(setup.price) /\ Probes(setup.price)[check].form = "payload"

Guilty(check) ==
    \/ Culprits(check) \cap setup.bugs # {}
    \/ "leak" \in setup.bugs /\ setup.marker /\ Leakable(check)

\* At a price of one atomic unit the token payment of the first three checks is
\* the price, and at a price of zero so is its double: nothing is broken, and a
\* correct server is failed for accepting it.
PaysThePrice(check) ==
    \/ setup.price = 1 /\ check \in {"NEG_013", "VER_002", "ERR_001"}
    \/ setup.price = 0 /\ check = "NEG_006"

\* Each probe breaks exactly one thing: a check fails exactly when the target
\* lacks what that check is for, whatever else it lacks, so no other defect masks
\* the finding and the correct server fails none (negative.py:3-6, and the bug
\* modes of calibration_target.py).  What is not there at all is neither failed
\* nor passed (_ENDPOINT_ABSENT of facilitator.py).
FailuresNameTheDefect ==
    \A i \in DOMAIN collected :
        LET r == collected[i] IN
        IF setup.there
        THEN r.status # "skip" /\ ~PaysThePrice(r.check)
                => (r.status = "fail" <=> Guilty(r.check))
        ELSE r.status = "skip"

\* The report does not depend on how many threads ran the group nor on the order
\* they finished in: it is the sequential run's (evaluate_active's promise).
ReportIsSequential ==
    report # <<>> => report = [i \in DOMAIN Registry |-> Result(Registry[i])]
=============================================================================
