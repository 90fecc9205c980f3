---------------------------- MODULE CheckCommand ----------------------------
(***************************************************************************)
(* The `check` command of cli.py, from its options to its exit code: the   *)
(* passive run, the safety preflight, the three groups that sign payments, *)
(* the verdict, the run record and the report.                             *)
(*                                                                         *)
(* Every step that needs the endpoint's offer fetches it anew, and the     *)
(* endpoint may offer something else each time; every step that needs the  *)
(* RPC's chain asks anew.  What the groups find is a parameter.            *)
(***************************************************************************)
EXTENDS Verdict, Sequences

CONSTANTS
    Networks,   \* CAIP-2 identifiers an offer may name
    SafeNets,   \* SafetyPolicy's allowlist
    NoNet,      \* no network, or an RPC whose chain id could not be read
    Offers,     \* what the endpoint's `accepts` may hold at a fetch
    Outcomes    \* the result sets a run of a group may end with

Groups == {"active", "pay", "timing"}

\* eligible: scheme exact, eip155, EIP-3009, a defined flow, a token name and
\* version.  buildable: the fields the payload is built from are there.
Entry == [network : Networks, flow : {"authorization", "upfront"},
          eligible : BOOLEAN, buildable : BOOLEAN]

ASSUME CheckAssumption ==
    /\ SafeNets \subseteq Networks
    /\ NoNet \notin Networks
    /\ Offers \subseteq Seq(Entry)
    /\ Outcomes \in [{"passive"} \cup Groups -> SUBSET SUBSET Result]

VARIABLES
    opts,     \* the options of the run, and the state of the signing library
    stage,    \* how far the command has come
    results,  \* the results so far
    ran,      \* the groups that contributed results
    signed,   \* the last payment signed and sent, or NoPayment
    paid,     \* a funded payment was sent
    record,   \* exitCode of the run record on disk, or NoCode
    journal,  \* exitCode of its line in runs.jsonl, or NoCode
    report,   \* the report on disk, or NoReport
    exit      \* the process's exit code, or NoCode

checkVars == <<opts, stage, results, ran, signed, paid, record, journal, report, exit>>
disk == <<record, journal, report>>

NoCode == 3
Codes == 0..2
NoReport == [code |-> NoCode, reason |-> "none"]
NoEntry == [network |-> NoNet, flow |-> "none", eligible |-> FALSE, buildable |-> FALSE]
NoPayment == [group |-> "none", offer |-> <<>>, entry |-> NoEntry, chain |-> NoNet]

Options == [active : BOOLEAN, pay : BOOLEAN, timing : BOOLEAN, rpc : BOOLEAN,
            key : {"none", "valid", "invalid"}, log : BOOLEAN,
            evm : {"installed", "missing", "broken"}]
Requested == {g \in Groups : opts[g]}

Stages == {"args", "passive", "preflight", "verdict", "emit", "done", "crashed"} \cup Groups

CheckTypeOK ==
    /\ opts \in Options
    /\ stage \in Stages
    /\ results \subseteq Result
    /\ ran \subseteq Groups
    /\ signed.group \in Groups \cup {"none"}
    /\ paid \in BOOLEAN
    /\ record \in Codes \cup {NoCode} /\ journal \in Codes \cup {NoCode}
    /\ report.code \in Codes \cup {NoCode}
    /\ exit \in Codes \cup {NoCode}

CheckInit ==
    /\ opts \in Options
    /\ stage = "args"
    /\ results = {}
    /\ ran = {}
    /\ signed = NoPayment
    /\ paid = FALSE
    /\ record = NoCode /\ journal = NoCode
    /\ report = NoReport
    /\ exit = NoCode

-----------------------------------------------------------------------------
(* The offer: choose_eip3009_requirement.                                  *)

FirstOf(offer, indices) ==
    offer[CHOOSE i \in indices : \A j \in indices : i <= j]

Eligible(offer) == {i \in DOMAIN offer : offer[i].eligible}
Safe(offer) == {i \in Eligible(offer) : offer[i].network \in SafeNets}
SafeAuthorization(offer) == {i \in Safe(offer) : offer[i].flow = "authorization"}

\* (mutant) The first eligible entry, its network left to the preflight.
ChooseUnchecked(offer) ==
    IF Eligible(offer) # {} THEN FirstOf(offer, Eligible(offer)) ELSE NoEntry

\* (mutant) The first safe entry, whatever its flow.
ChooseFirstSafe(offer) ==
    IF Safe(offer) # {} THEN FirstOf(offer, Safe(offer)) ELSE NoEntry

\* A safe authorization entry, or else a safe upfront one.
Choose(offer) ==
    IF SafeAuthorization(offer) # {} THEN FirstOf(offer, SafeAuthorization(offer))
    ELSE IF Safe(offer) # {} THEN FirstOf(offer, Safe(offer))
    ELSE NoEntry

\* Eligible entries, none of them safe: SafetyViolation.
Denied(offer) == Eligible(offer) # {} /\ Safe(offer) = {}

-----------------------------------------------------------------------------
(* Leaving the command and writing the run record.                         *)

Stop(code) == stage' = "done" /\ exit' = code

WriteRecord(code) ==
    IF opts.log THEN record' = code /\ journal' = code ELSE UNCHANGED <<record, journal>>

\* The file, or only the journal line after it, could not be written.
RecordFails(code) ==
    /\ opts.log
    /\ record' \in {record, code}
    /\ UNCHANGED journal

RecordAndStop(code) == (WriteRecord(code) \/ RecordFails(code)) /\ Stop(code)

Refuse ==
    /\ stage = "args"
    /\ opts.pay /\ (~opts.rpc \/ opts.key = "none")
    /\ Stop(2)
    /\ UNCHANGED <<opts, results, ran, signed, paid, disk>>

Accept ==
    /\ stage = "args"
    /\ opts.pay => opts.rpc /\ opts.key # "none"
    /\ stage' = "passive"
    /\ UNCHANGED <<opts, results, ran, signed, paid, disk, exit>>

\* run_checks against an endpoint that cannot be reached.
Unreachable ==
    /\ stage = "passive"
    /\ RecordAndStop(2)
    /\ UNCHANGED <<opts, results, ran, signed, paid, report>>

RunChecks(found) ==
    /\ stage = "passive"
    /\ results' = found
    /\ stage' = IF Requested = {} THEN "verdict" ELSE "preflight"
    /\ UNCHANGED <<opts, ran, signed, paid, disk, exit>>

-----------------------------------------------------------------------------
(* preflight_resource_network.                                             *)

\* (mutant) The refused run is recorded with the passive verdict.
PreflightRefusesUnrecorded ==
    /\ stage = "preflight"
    /\ WriteRecord(AssessmentExitCode(results))
    /\ Stop(2)
    /\ UNCHANGED <<opts, results, ran, signed, paid, report>>

\* The endpoint is down, its offer is denied, or the RPC is on another chain.
PreflightRefuses ==
    /\ stage = "preflight"
    /\ RecordAndStop(2)
    /\ UNCHANGED <<opts, results, ran, signed, paid, report>>

RpcAgrees(entry, chain) == opts.pay /\ entry # NoEntry => chain = entry.network

PreflightPasses ==
    /\ stage = "preflight"
    /\ stage' = "active"
    /\ UNCHANGED <<opts, results, ran, signed, paid, disk, exit>>

Preflight(offer, chain) ==
    IF Denied(offer) \/ ~RpcAgrees(Choose(offer), chain)
    THEN PreflightRefuses
    ELSE PreflightPasses

-----------------------------------------------------------------------------
(* The groups: run_active_checks, run_payment_checks, run_timing_checks.   *)

After == [active |-> "pay", pay |-> "timing", timing |-> "verdict"]

\* (mutant) A group's results take the place of the earlier ones.
ContributeOverwrites(g, found) ==
    /\ results' = found
    /\ ran' = ran \cup {g}
    /\ stage' = After[g]
    /\ UNCHANGED <<opts, disk, exit>>

Contribute(g, found) ==
    /\ results' = results \cup found
    /\ ran' = ran \cup {g}
    /\ stage' = After[g]
    /\ UNCHANGED <<opts, disk, exit>>

\* The group was not asked for, or payload_builder itself fails to import and
\* _make_signer returns None.
PassOver(g) ==
    /\ stage = g
    /\ ~opts[g] \/ opts.evm = "broken"
    /\ stage' = After[g]
    /\ UNCHANGED <<opts, results, ran, signed, paid, disk, exit>>

\* An exception nothing between here and Typer catches.
Crash ==
    /\ stage' = "crashed"
    /\ exit' = 1
    /\ UNCHANGED <<opts, results, ran, signed, paid, disk>>

\* _make_signer: without eth-account the signer raises a RuntimeError; a key that
\* is no key is a usage error.
NoSigner(g) ==
    /\ stage = g /\ opts[g]
    /\ \/ opts.evm = "missing" /\ Crash
       \/ /\ opts.evm = "installed" /\ opts.key = "invalid"
          /\ Stop(2)
          /\ UNCHANGED <<opts, results, ran, signed, paid, disk>>

Starts(g) == stage = g /\ opts[g] /\ opts.evm = "installed" /\ opts.key # "invalid"

\* (mutant) A reason code the report's list does not know.
SkippedForItsOwnReason ==
    [check |-> "other", status |-> "skip", gating |-> TRUE, reason |-> "no_requirement"]

Skipped == [check |-> "other", status |-> "skip", gating |-> TRUE, reason |-> "none"]

SuiteError == [check |-> "other", status |-> "error", gating |-> TRUE, reason |-> "none"]

\* build_active_context: an unreachable endpoint, or none of its entries payable.
NothingToPay(g) ==
    /\ Contribute(g, {Skipped})
    /\ UNCHANGED <<signed, paid>>

Sign(g, offer, chain) ==
    signed' = [group |-> g, offer |-> offer, entry |-> Choose(offer), chain |-> chain]

\* Checks the group cannot run report an error each; a crash ends the timing probe.
Probe(g, offer, found) ==
    LET entry == Choose(offer) IN
    CASE entry = NoEntry -> NothingToPay(g)
      [] entry # NoEntry /\ ~entry.buildable ->
            IF g = "timing" THEN Crash
            ELSE Contribute(g, {SuiteError}) /\ UNCHANGED <<signed, paid>>
      [] OTHER -> Contribute(g, found) /\ Sign(g, offer, NoNet) /\ UNCHANGED paid

\* (mutant) The RPC's chain left to the preflight.
PayUnchecked(offer, chain, found) ==
    LET entry == Choose(offer) IN
    CASE entry = NoEntry -> NothingToPay("pay")
      [] entry # NoEntry /\ ~entry.buildable ->
            Contribute("pay", {SuiteError}) /\ UNCHANGED <<signed, paid>>
      [] OTHER -> Contribute("pay", found) /\ Sign("pay", offer, chain) /\ paid' = TRUE

\* The RPC is asked once more; the group's net turns what it raises into errors.
Pay(offer, chain, found) ==
    LET entry == Choose(offer) IN
    CASE entry = NoEntry -> NothingToPay("pay")
      [] entry # NoEntry /\ (chain # entry.network \/ ~entry.buildable) ->
            Contribute("pay", {SuiteError}) /\ UNCHANGED <<signed, paid>>
      [] OTHER -> Contribute("pay", found) /\ Sign("pay", offer, chain) /\ paid' = TRUE

\* Each of these stages fetches the challenge outside every net, and build_probe
\* raises on one it cannot decode; run_checks can raise on a Retry-After or an
\* OpenAPI document as well.
Fetches == stage \in {"passive", "preflight"} \/ \E g \in Groups : Starts(g)

FetchRaises == Fetches /\ Crash

GroupUnreachable(g) ==
    /\ Starts(g)
    /\ NothingToPay(g)

RunGroup(g, offer, chain, found) ==
    /\ Starts(g)
    /\ IF Denied(offer) THEN Crash
       ELSE IF g = "pay" THEN Pay(offer, chain, found)
       ELSE Probe(g, offer, found)

-----------------------------------------------------------------------------
(* The verdict and the report.                                             *)

Assess ==
    /\ stage = "verdict"
    /\ LET code == AssessmentExitCode(results) IN
         \/ WriteRecord(code) /\ stage' = "emit" /\ UNCHANGED exit
         \/ RecordFails(code) /\ Stop(2)
    /\ UNCHANGED <<opts, results, ran, signed, paid, report>>

Report ==
    LET code == AssessmentExitCode(results) IN
    [code |-> code, reason |-> IF code = 2 THEN InconclusiveReason(results) ELSE "none"]

\* With a report to write or without one.
Emit ==
    /\ stage = "emit"
    /\ Stop(AssessmentExitCode(results))
    /\ report' \in {NoReport, Report}
    /\ UNCHANGED <<opts, results, ran, signed, paid, record, journal>>

\* An artifact, the first or a later one, could not be written.
EmitFails ==
    /\ stage = "emit"
    /\ Stop(2)
    /\ report' \in {NoReport, Report}
    /\ UNCHANGED <<opts, results, ran, signed, paid, record, journal>>

CheckNext ==
    \/ Refuse
    \/ Accept
    \/ Unreachable
    \/ \E found \in Outcomes["passive"] : RunChecks(found)
    \/ PreflightRefuses
    \/ \E offer \in Offers, chain \in Networks \cup {NoNet} : Preflight(offer, chain)
    \/ FetchRaises
    \/ \E g \in Groups :
        \/ PassOver(g)
        \/ NoSigner(g)
        \/ GroupUnreachable(g)
        \/ \E offer \in Offers, chain \in Networks \cup {NoNet}, found \in Outcomes[g] :
                RunGroup(g, offer, chain, found)
    \/ Assess
    \/ Emit
    \/ EmitFails
    \/ stage \in {"done", "crashed"} /\ UNCHANGED checkVars

CheckSpec == CheckInit /\ [][CheckNext]_checkVars

-----------------------------------------------------------------------------
(* Safety.                                                                 *)

\* No payment is signed for a network outside the allowlist, whatever the
\* endpoint offered when the preflight looked: each group checks the offer it uses.
NothingUnsafeIsSigned ==
    signed # NoPayment => signed.entry.network \in SafeNets

\* A funded payment is for the chain the RPC itself reported for it, however the
\* offer and the RPC changed since the preflight.
FundsFollowTheRpc ==
    signed.group = "pay" => signed.chain = signed.entry.network

\* An upfront entry, which settles before the resource runs, is signed only when
\* the offer holds no authorization entry on a safe network.
UpfrontIsLastResort ==
    signed.entry.flow = "upfront" =>
        ~\E i \in DOMAIN signed.offer :
            /\ signed.offer[i].eligible
            /\ signed.offer[i].flow = "authorization"
            /\ signed.offer[i].network \in SafeNets

\* Evidence of non-conformance is never taken back by what a later group finds.
FailureIsNeverMasked ==
    [][NonConformant(results) => NonConformant(results')]_checkVars

\* Conformance is claimed, by the exit code, the record, the journal or the
\* report, only on conformant results and after every group asked for that the
\* installation can run has contributed.
ConformanceIsEarned ==
    0 \in {exit, record, journal, report.code} =>
        /\ ~NonConformant(results) /\ ~Unjudged(results)
        /\ opts.evm # "broken" => Requested \subseteq ran

\* The reason an inconclusive report gives is one that holds of its results; the
\* last of the list, not_x402_v2, is a default no test of the version precedes.
ReportNamesItsCause ==
    CASE report.reason = "not_x402_v2" -> VersionUnproven(results)
      [] report.reason = "no_checks_applicable" -> NothingApplied(results)
      [] report.reason = "none" -> report.code # 2
      [] OTHER -> HasReason(results, report.reason)

(* What the documentation says, and the code does not do.                  *)

\* The command's help: exit code 1 means not conformant.
ExitOneIsNonConformance == exit = 1 => NonConformant(results)
=============================================================================
