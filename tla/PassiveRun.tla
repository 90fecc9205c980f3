----------------------------- MODULE PassiveRun -----------------------------
(***************************************************************************)
(* run_checks (runner.py): two unpaid requests with transient retries, the *)
(* OpenAPI document of a JP-rail endpoint, the re-encoded paths behind a   *)
(* paywall, then every registered check on what came back.  Any request    *)
(* can be answered by the infrastructure instead of the target, or lost.   *)
(***************************************************************************)
EXTENDS PaymentRequiredChecks, PathVariants, FiniteSets

CONSTANTS
    NoAnswer,    \* no target, or no answer yet
    MaxRetries,  \* _MAX_RETRIES
    MaxFaults    \* bound: faults of the network in one run

VARIABLES
    target,    \* what is at the URL and how it answers
    marker,    \* --resource-marker is given
    step,      \* where run_checks stands
    attempt,   \* retries of the request under way
    first, second, openapi,  \* the two probes and the OpenAPI document
    outcomes,  \* [variants requested so far -> Outcomes]
    faults,    \* faults met so far
    results    \* [Checks -> status], empty before

passiveVars == <<target, marker, step, attempt, first, second, openapi, outcomes, faults, results>>

Paths == {"root", "flat", "nested", "facilitator"}

\* `bypass`: the variants that reach the resource past the paywall; `catchAll`:
\* every other path is answered with a page; `guilty`: the checks that ought to
\* find fault with it, which the properties alone read.
Target == [path : Paths, first : Response, second : Response,
           openapi : {"none", "noInvoice", "invoice", "badInvoice", "tooDeep"},
           bypass : SUBSET {"encodedSeparator", "absoluteForm"}, catchAll : BOOLEAN,
           guilty : SUBSET STRING]

Steps == {"idle", "first", "second", "openapi", "variants", "judge",
          "judged", "unreachable", "failed", "crashed"}

ASSUME PassiveAssumption == MaxRetries \in Nat /\ MaxFaults \in Nat

PassiveInit ==
    /\ target = NoAnswer /\ marker = FALSE
    /\ step = "idle"
    /\ attempt = 0
    /\ first = NoAnswer /\ second = NoAnswer /\ openapi = "none"
    /\ outcomes = <<>>
    /\ faults = 0
    /\ results = <<>>

Begin(t, marked) ==
    /\ step = "idle"
    /\ target' = t /\ marker' = marked
    /\ step' = "first"
    /\ UNCHANGED <<attempt, first, second, openapi, outcomes, faults, results>>

-----------------------------------------------------------------------------
(* The two unpaid requests.                                                *)

TransientStatus == {429, 503}

\* A proxy's answer in place of the target's.
ProxyAnswer(status) ==
    [status |-> status, header |-> "absent", doc |-> NoDocument, legacy |-> FALSE, cache |-> "none"]

\* The target answers, or a rate limiter or a gateway does.
Answered(answer, byTarget) ==
    \/ answer = byTarget /\ UNCHANGED faults
    \/ /\ faults < MaxFaults
       /\ faults' = faults + 1
       /\ answer \in {ProxyAnswer(status) : status \in TransientStatus}

Retried(answer) == answer.status \in TransientStatus /\ attempt < MaxRetries

PossibleAnswers(byTarget) == {byTarget} \cup {ProxyAnswer(status) : status \in TransientStatus}

\* (mutant) the retry starts over.
RetryUncounted(byTarget) ==
    /\ \E answer \in PossibleAnswers(byTarget) : Answered(answer, byTarget) /\ Retried(answer)
    /\ UNCHANGED <<target, marker, step, attempt, first, second, openapi, outcomes, results>>

\* _request_with_transient_retry: a transient answer is asked for again.
Retry(byTarget) ==
    /\ \E answer \in PossibleAnswers(byTarget) : Answered(answer, byTarget) /\ Retried(answer)
    /\ attempt' = attempt + 1
    /\ UNCHANGED <<target, marker, step, first, second, openapi, outcomes, results>>

\* A transient answer whose Retry-After is an integer too large for float():
\* _retry_delay raises OverflowError, and nothing in run_checks catches it.
RetryRaises(byTarget) ==
    /\ \E answer \in PossibleAnswers(byTarget) : Answered(answer, byTarget) /\ Retried(answer)
    /\ step' = "crashed"
    /\ UNCHANGED <<target, marker, attempt, first, second, openapi, outcomes, results>>

\* A connection fails: the exception ends the run.
ConnectionFails ==
    /\ step \in {"first", "second"}
    /\ faults < MaxFaults
    /\ faults' = faults + 1
    /\ step' = "failed"
    /\ UNCHANGED <<target, marker, attempt, first, second, openapi, outcomes, results>>

\* _unreachable_reason.
Unreachable(answer) == answer.status >= 500 /\ ~IsPaywall(answer)

GetFirst ==
    /\ step = "first"
    /\ \/ Retry(target.first) \/ RetryRaises(target.first)
       \/ \E answer \in PossibleAnswers(target.first) :
            /\ Answered(answer, target.first)
            /\ ~Retried(answer)
            /\ first' = answer
            /\ step' = IF ProbeRaises(answer) THEN "crashed"
                       ELSE IF Unreachable(answer) THEN "unreachable" ELSE "second"
            /\ attempt' = 0
            /\ UNCHANGED <<target, marker, second, openapi, outcomes, results>>

GetSecond ==
    /\ step = "second"
    /\ \/ Retry(target.second) \/ RetryRaises(target.second)
       \/ \E answer \in PossibleAnswers(target.second) :
            /\ Answered(answer, target.second)
            /\ ~Retried(answer)
            /\ second' = answer
            /\ step' = IF ProbeRaises(answer) THEN "crashed" ELSE "openapi"
            /\ attempt' = 0
            /\ UNCHANGED <<target, marker, first, openapi, outcomes, results>>

-----------------------------------------------------------------------------
\* find_jp402.
AdvertisesJp402(r) == Raw(r) /\ r.doc.jp402 # "none"

\* _maybe_fetch_openapi: asked only of an endpoint that advertises jp402; a
\* failure is a note, nesting too deep for the parser an exception.
GetOpenapi ==
    /\ step = "openapi"
    /\ IF AdvertisesJp402(first)
       THEN \/ /\ openapi' = target.openapi /\ UNCHANGED faults
               /\ step' = IF target.openapi = "tooDeep" THEN "crashed" ELSE "variants"
            \/ /\ faults < MaxFaults /\ faults' = faults + 1 /\ UNCHANGED openapi
               /\ step' = "variants"
       ELSE step' = "variants" /\ UNCHANGED <<openapi, faults>>
    /\ UNCHANGED <<target, marker, attempt, first, second, outcomes, results>>

\* _probe_path_variants runs behind a paywall only.
VariantsOf(r, path) == IF IsPaywall(r) THEN BuildVariants(path) ELSE <<>>
Variants == VariantsOf(first, target.path)

OutcomeAt(t, variant) ==
    IF variant \in t.bypass THEN "resource"
    ELSE IF t.catchAll THEN "page" ELSE "gated"

Record(variant, outcome) ==
    outcomes' = [v \in DOMAIN outcomes \cup {variant} |->
                    IF v = variant THEN outcome ELSE outcomes[v]]

\* The variants are requested one after the other; one that fails is recorded.
GetVariant ==
    /\ step = "variants"
    /\ \E i \in DOMAIN Variants :
         /\ Variants[i] \notin DOMAIN outcomes
         /\ \A j \in 1..(i - 1) : Variants[j] \in DOMAIN outcomes
         /\ \/ Record(Variants[i], OutcomeAt(target, Variants[i])) /\ UNCHANGED faults
            \/ Record(Variants[i], "lost") /\ faults < MaxFaults /\ faults' = faults + 1
    /\ UNCHANGED <<target, marker, step, attempt, first, second, openapi, results>>

VariantsDone ==
    /\ step = "variants" /\ \A i \in DOMAIN Variants : Variants[i] \in DOMAIN outcomes
    /\ step' = "judge"
    /\ UNCHANGED <<target, marker, attempt, first, second, openapi, outcomes, faults, results>>

-----------------------------------------------------------------------------
(* The checks.                                                             *)

\* The registry.
Checks == {"HS_001", "HS_002", "HS_003", "HS_004", "HS_005", "HS_006", "HS_007", "SEC_012",
           "PR_001", "PR_002", "PR_003", "PR_004", "PR_005", "PR_006", "PR_007", "PR_008",
           "PR_009", "PR_010", "PR_011", "PR_012", "PR_013", "PR_014", "PR_015", "PR_016",
           "PR_017", "PR_018", "PR_019", "PR_020", "PR_021", "PR_022", "PR_023", "PR_024",
           "PR_025", "PR_026", "PR_027"}

\* Without a variant there is nothing to classify.
SEC_012(tried, marked) == IF DOMAIN tried = {} THEN "skip" ELSE ClassifyVariants(tried, marked)

\* The verdicts of the registry on a session.
VerdictsOn(path, r, other, document, tried, marked) ==
    [HS_001 |-> HS_001(r, path = "facilitator"), HS_002 |-> HS_002(r),
     HS_003 |-> HS_003(r), HS_004 |-> HS_004(r), HS_005 |-> HS_005(r), HS_006 |-> HS_006(r),
     HS_007 |-> HS_007(r), SEC_012 |-> SEC_012(tried, marked),
     PR_001 |-> PR_001(r), PR_002 |-> PR_002(r), PR_003 |-> PR_003(r), PR_004 |-> PR_004(r),
     PR_005 |-> PR_005(r), PR_006 |-> PR_006(r), PR_007 |-> PR_007(r), PR_008 |-> PR_008(r),
     PR_009 |-> PR_009(r), PR_010 |-> PR_010(r), PR_011 |-> PR_011(r),
     PR_012 |-> PR_012(r, other), PR_013 |-> PR_013(r), PR_014 |-> PR_014(r),
     PR_015 |-> PR_015(r), PR_016 |-> PR_016(r, document), PR_017 |-> PR_017(r),
     PR_018 |-> PR_018(r), PR_019 |-> PR_019(r), PR_020 |-> PR_020(r), PR_021 |-> PR_021(r),
     PR_022 |-> PR_022(r), PR_023 |-> PR_023(r), PR_024 |-> PR_024(r), PR_025 |-> PR_025(r),
     PR_026 |-> PR_026(r), PR_027 |-> PR_027(r)]

Verdicts == VerdictsOn(target.path, first, second, openapi, outcomes, marker)

\* The checks read one immutable session, so they are a single step.
Judge ==
    /\ step = "judge"
    /\ results' = Verdicts
    /\ step' = "judged"
    /\ UNCHANGED <<target, marker, attempt, first, second, openapi, outcomes, faults>>

\* Severity.MINOR never gates.
Advisory == {"HS_005", "HS_006", "PR_008", "PR_010", "PR_011", "PR_012", "PR_015", "PR_016",
             "PR_019", "PR_020", "PR_023", "PR_024", "PR_026"}

PassiveStep ==
    \/ GetFirst \/ GetSecond \/ ConnectionFails
    \/ GetOpenapi \/ GetVariant \/ VariantsDone \/ Judge

Ended == step \in {"judged", "unreachable", "failed", "crashed"}
=============================================================================
