---------------------------- MODULE PassiveTools ----------------------------
(***************************************************************************)
(* The callers of the passive checks: the MCP server (mcp_server.py) and   *)
(* the passive part of the `check` and `discovery` commands.  A caller has *)
(* an endpoint or a Bazaar checked, gets a verdict and a report, may have  *)
(* the endpoint checked again once its owner has changed it, and has the   *)
(* two reports compared.  Calls share nothing, so one at a time will do.   *)
(***************************************************************************)
EXTENDS PassiveRun, Discovery, ReportDiff

CONSTANTS
    Calls,           \* endpoints that may be checked first, each with and without a marker
    Redeployed(_),   \* what an endpoint may have become when it is checked again
    Bazaars,         \* Bazaars that may be checked
    NewListings,     \* what may be listed meanwhile
    MaxReports       \* bound: reports a caller keeps

ASSUME ToolsAssumption ==
    /\ \A c \in Calls : c.target \in Target /\ c.marked \in BOOLEAN
    /\ \A c \in Calls : Redeployed(c.target) \subseteq {d.target : d \in Calls}
    /\ \A b \in Bazaars : b \in [flaw : Flaws, catalogue : Seq(Listing)]
    /\ NewListings \subseteq Listing
    /\ MaxReports \in Nat

VARIABLES
    tool,     \* the tool under way
    reply,    \* its last answer
    reports   \* the reports of check_endpoint the caller has kept

toolVars == <<passiveVars, diVars, tool, reply, reports>>

V == INSTANCE Verdict

NoReply == [verdict |-> "none", diff |-> Diff(<<>>, <<>>)]

ToolsInit ==
    /\ PassiveInit /\ DiInit
    /\ tool = "idle" /\ reply = NoReply /\ reports = <<>>

-----------------------------------------------------------------------------
\* What Verdict reads of a report.  The reason code of a skipped RS-HS-001
\* changes no exit code.
Judged(report) ==
    {[check |-> IF c = "PR_001" THEN "RS-PR-001" ELSE "other",
      status |-> report[c],
      gating |-> c \notin Advisory \cup {"DI_002", "DI_003"},
      reason |-> "none"] : c \in DOMAIN report}

\* A Bazaar's report has no version check to be unproven.
Code(report) == V!AssessmentExitCode(Judged(report))

VerdictOf == <<"conformant", "not_conformant", "inconclusive">>

Begun(name) ==
    /\ tool = "idle"
    /\ tool' = name /\ reply' = NoReply
    /\ UNCHANGED reports

\* A shared transport fetches public addresses only; the caller is told.
Refuse(name) ==
    /\ tool = "idle" /\ name \in {"check_endpoint", "check_discovery"}
    /\ reply' = [NoReply EXCEPT !.verdict = "refused"]
    /\ UNCHANGED <<passiveVars, diVars, tool, reports>>

CheckEndpoint ==
    /\ Begun("check_endpoint") /\ Len(reports) < MaxReports
    /\ \/ reports = <<>> /\ \E c \in Calls : Begin(c.target, c.marked)
       \/ /\ reports # <<>>
          /\ \E t \in Redeployed(reports[Len(reports)].target) : Begin(t, FALSE)
    /\ UNCHANGED diVars

CheckDiscovery(b) ==
    /\ Begun("check_discovery") /\ reports = <<>>
    /\ BeginDiscovery(b)
    /\ UNCHANGED passiveVars

\* The call's own client and session go with it.
ForgetRun ==
    /\ target' = NoAnswer /\ marker' = FALSE /\ step' = "idle" /\ attempt' = 0
    /\ first' = NoAnswer /\ second' = NoAnswer /\ openapi' = "none"
    /\ outcomes' = <<>> /\ faults' = 0 /\ results' = <<>>

ForgetDiscovery ==
    /\ bazaar' = NoPage /\ diStep' = "idle" /\ base' = NoPage
    /\ item' = 0 /\ hop' = 0 /\ url' = NoPage /\ wasSecure' = FALSE
    /\ totalRequests' = 0 /\ requestsPerHost' = [h \in Hosts |-> 0] /\ sent' = {}
    /\ compared' = 0 /\ stale' = FALSE /\ growth' = 0 /\ di' = <<>>

\* Unreachable and failed are inconclusive and come without a report; what the tool
\* does not catch, the framework answers as an error.
AnswerEndpoint ==
    /\ tool = "check_endpoint" /\ Ended
    /\ IF step = "judged"
       THEN /\ reply' = [NoReply EXCEPT !.verdict = VerdictOf[Code(results) + 1]]
            /\ reports' = Append(reports, [target |-> target, results |-> results])
       ELSE /\ reply' = [NoReply EXCEPT !.verdict =
                            IF step = "crashed" THEN "error" ELSE "inconclusive"]
            /\ UNCHANGED reports
    /\ tool' = "idle"
    /\ ForgetRun
    /\ UNCHANGED diVars

AnswerDiscovery ==
    /\ tool = "check_discovery" /\ diStep \in {"done", "failed"}
    /\ reply' = [NoReply EXCEPT !.verdict =
                    IF diStep = "done" THEN VerdictOf[Code(di) + 1] ELSE "inconclusive"]
    /\ tool' = "idle"
    /\ ForgetDiscovery
    /\ UNCHANGED <<passiveVars, reports>>

\* diff_reports, of the two reports a caller has.
DiffReports ==
    /\ tool = "idle" /\ Len(reports) = 2
    /\ reply' = [verdict |-> "diff", diff |-> Diff(reports[1].results, reports[2].results)]
    /\ reports' = <<>>
    /\ UNCHANGED <<passiveVars, diVars, tool>>

-----------------------------------------------------------------------------
Work ==
    \/ PassiveStep /\ UNCHANGED <<diVars, tool, reply, reports>>
    \/ DiscoveryStep /\ UNCHANGED <<passiveVars, tool, reply, reports>>
    \/ AnswerEndpoint \/ AnswerDiscovery

Call ==
    \/ CheckEndpoint
    \/ \E b \in Bazaars : CheckDiscovery(b)
    \/ \E name \in {"check_endpoint", "check_discovery"} : Refuse(name)
    \/ DiffReports

Churn == \E l \in NewListings : Grow(l) /\ UNCHANGED <<passiveVars, tool, reply, reports>>

ToolsNext == Work \/ Call \/ Churn

\* A retry that raises ends a run, but no run can count on it.
Overflows ==
    step \in {"first", "second"} /\ \E own \in {target.first, target.second} : RetryRaises(own)

\* Every request ends, in an answer or at its timeout.
ToolsSpec == ToolsInit /\ [][ToolsNext]_toolVars /\ WF_toolVars(Work /\ ~Overflows)

-----------------------------------------------------------------------------
\* A diff without a regression (has_regressions, the exit code of `diff` and
\* report_diff's verdict, whatever was added or removed) is safe to gate on: it
\* never waves through a report that has become non-conformant.
CleanDiffKeepsTheVerdict ==
    Len(reports) = 2 =>
        LET old == reports[1].results
            new == reports[2].results
        IN  Code(old) = 0 /\ Regressed(old, new) = {} => Code(new) # 1

\* What the checks say of an endpoint when nothing is lost or answered in its
\* place on the way: the reference its runs are compared with.
Unhindered(t, marked) ==
    LET variants == VariantsOf(t.first, t.path) IN
    VerdictsOn(t.path, t.first, t.second,
               IF AdvertisesJp402(t.first) THEN t.openapi ELSE "none",
               [v \in {variants[i] : i \in DOMAIN variants} |-> OutcomeAt(t, v)],
               marked)

\* Two verdicts rest on the network: a rate limiter that outlasts the retries is
\* graded as the endpoint's status, and an endpoint that answers every path with
\* a page is taken for bypassed when the control request is lost.
NetworksFault(check) ==
    \/ check = "HS_001" /\ first = ProxyAnswer(429)
    \/ check = "SEC_012" /\ target.catchAll /\ outcomes[Control] = "lost"

\* No other check fails because of what the network lost or answered (run_checks,
\* _probe_path_variants): it fails without faults too.
NetworkAccusesNobody ==
    step = "judged" =>
        \A c \in Checks : results[c] \in Bad =>
            Unhindered(target, marker)[c] \in Bad \/ NetworksFault(c)

\* Nobody is accused of what he did not do: a check that does not pass names a
\* defect the endpoint has, whatever the network lost or answered in its place.
AccusesOnlyTheGuilty ==
    step = "judged" =>
        \A c \in Checks : results[c] \in Bad => c \in target.guilty \/ NetworksFault(c)

\* No defect is hidden by the other entries, by another defect, or by the order
\* of the entries: on a network without faults every check that is the fault of
\* one fails, save RS-SEC-012 where every path serves a page and no marker tells
\* the resource from it.
DefectsAreFound ==
    step = "judged" /\ faults = 0 =>
        \A c \in target.guilty :
            results[c] \in Bad \/ (c = "SEC_012" /\ target.catchAll /\ ~marker)
=============================================================================
