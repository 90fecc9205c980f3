------------------------------ MODULE Commands ------------------------------
(***************************************************************************)
(* The `facilitator`, `scan` and `discovery` commands of cli.py.  The      *)
(* first two run run_facilitator_checks: on one facilitator and as far as  *)
(* /settle, or on a list of them and never beyond /verify.  The third runs *)
(* run_discovery_checks, which pays nothing.                               *)
(*                                                                         *)
(* The state is that of the check command: opts.active stands for          *)
(* --resource, which has /verify sent signed payments, and opts.pay for    *)
(* --settle, which has funds moved.  Stage "active" is the visits.         *)
(***************************************************************************)
EXTENDS CheckCommand

CONSTANTS
    MaxTargets,  \* bound on the facilitators a scan is given
    Findings     \* the result sets each part of a visit may yield

ASSUME CommandsAssumption ==
    /\ MaxTargets \in Nat
    /\ Findings \in [{"supported", "verify", "settle", "discovery"} -> SUBSET SUBSET Result]

VARIABLES
    command,    \* the command, the number of its targets, and scan's consent
    entries  \* scan's entries so far: the code of each target, or Lost

commandVars == <<checkVars, command, entries>>

Lost == NoCode  \* an entry that says the target could not be reached

AnyCommand == [name : {"facilitator", "discovery"}, targets : {1}, authorize : {FALSE}]
                 \cup [name : {"scan"}, targets : 0..MaxTargets, authorize : BOOLEAN]

CommandTypeOK == command \in AnyCommand /\ entries \in Seq(Codes \cup {Lost})

CommandInit ==
    /\ CheckInit
    /\ ~opts.timing /\ ~opts.log
    /\ command \in AnyCommand
    /\ command.name # "facilitator" => ~opts.pay /\ ~opts.rpc
    /\ command.name = "discovery" => ~opts.active
    /\ entries = <<>>

-----------------------------------------------------------------------------
(* Options, preflight and signer.                                          *)

\* Settling needs a resource, an RPC and a funded key; a scan needs targets, and
\* consent exactly when it probes /verify.
Granted ==
    /\ opts.pay => opts.active /\ opts.rpc /\ opts.key # "none"
    /\ command.name = "scan" => command.targets > 0 /\ opts.active = command.authorize

RefuseCommand ==
    /\ stage = "args" /\ ~Granted
    /\ Stop(2)
    /\ UNCHANGED <<opts, results, ran, signed, paid, disk, command, entries>>

AcceptCommand ==
    /\ stage = "args" /\ Granted
    /\ stage' = IF opts.active THEN "preflight" ELSE "active"
    /\ UNCHANGED <<opts, results, ran, signed, paid, disk, exit, command, entries>>

\* The same preflight as the check command's.
CommandPreflight ==
    /\ \/ PreflightRefuses
       \/ \E offer \in Offers, chain \in Networks \cup {NoNet} : Preflight(offer, chain)
    /\ UNCHANGED <<command, entries>>

\* And the same signer, made once for all targets.
CommandNoSigner == NoSigner("active") /\ UNCHANGED <<command, entries>>

-----------------------------------------------------------------------------
(* One visit: run_facilitator_checks.                                      *)

\* There is a signer, or none is needed, or none can be had.
Visiting ==
    /\ stage = "active"
    /\ Len(entries) < command.targets
    /\ opts.active => opts.evm = "broken" \/ (opts.evm = "installed" /\ opts.key # "invalid")

\* (mutant) The visit signs what the preflight has let pass.
VisitRefusedUnchecked(offer, chain) == opts.active /\ Denied(offer)

\* The offer is fetched, and the RPC asked, once more for each target.
VisitRefused(offer, chain) ==
    opts.active /\ (Denied(offer) \/ ~RpcAgrees(Choose(offer), chain))

Payable(offer) == opts.active /\ opts.evm = "installed" /\ Choose(offer) # NoEntry
Signs(offer) == Payable(offer) /\ Choose(offer).buildable

\* Checks that cannot build their payment report an error each, and those without
\* requirements or a signer are skipped.
Found(offer, supported, verify, settle) ==
    supported \cup (IF Signs(offer) THEN verify
                    ELSE IF Payable(offer) THEN {SuiteError} ELSE {Skipped})
              \cup (IF Signs(offer) /\ opts.pay THEN settle ELSE {Skipped})

\* SafetyViolation ends the facilitator command; a scan does not catch it, and
\* the entries it has are lost with it.
RefuseVisit(offer, chain) ==
    /\ Visiting /\ VisitRefused(offer, chain)
    /\ IF command.name = "scan" THEN Crash
       ELSE Stop(2) /\ UNCHANGED <<opts, results, ran, signed, paid, disk>>
    /\ UNCHANGED <<command, entries>>

\* The target or the resource fails to answer: before anything is sent, after
\* /verify probes, or after payments.  A scan goes on to its next target.
LoseVisit(offer, chain) ==
    /\ Visiting
    /\ \/ UNCHANGED <<signed, paid>>
       \/ /\ Signs(offer) /\ ~VisitRefused(offer, chain)
          /\ \/ Sign("active", offer, NoNet) /\ UNCHANGED paid
             \/ opts.pay /\ Sign("pay", offer, chain) /\ paid' = TRUE
    /\ IF command.name = "scan"
       THEN entries' = Append(entries, Lost) /\ UNCHANGED <<stage, exit>>
       ELSE Stop(2) /\ UNCHANGED entries
    /\ UNCHANGED <<opts, results, ran, disk, command>>

\* The settle group builds its payment outside the registry's net.
CrashVisit(offer, chain) ==
    /\ Visiting /\ ~VisitRefused(offer, chain)
    /\ opts.pay /\ Payable(offer) /\ ~Signs(offer)
    /\ Crash
    /\ UNCHANGED <<command, entries>>

\* The resource's challenge, fetched by the preflight and again by each visit, is one
\* that build_probe cannot decode.
CommandFetchRaises ==
    /\ stage = "preflight" \/ (Visiting /\ opts.active)
    /\ Crash
    /\ UNCHANGED <<command, entries>>

\* Every check has its result.  A scan folds its target's into an entry.
Visit(offer, chain, supported, verify, settle) ==
    LET found == Found(offer, supported, verify, settle) IN
    /\ Visiting /\ command.name # "discovery" /\ ~VisitRefused(offer, chain)
    /\ opts.pay /\ Payable(offer) => Signs(offer)
    /\ results' = results \cup found
    /\ ran' = ran \cup Requested
    /\ IF Signs(offer)
       THEN IF opts.pay THEN Sign("pay", offer, chain) /\ paid' = TRUE
            ELSE Sign("active", offer, NoNet) /\ UNCHANGED paid
       ELSE UNCHANGED <<signed, paid>>
    /\ IF command.name = "scan"
       THEN entries' = Append(entries, AssessmentExitCode(found)) /\ UNCHANGED stage
       ELSE stage' = "verdict" /\ UNCHANGED entries
    /\ UNCHANGED <<opts, disk, exit, command>>

\* run_discovery_checks, with its own kind of target.
VisitDiscovery(found) ==
    /\ Visiting /\ command.name = "discovery"
    /\ results' = results \cup found
    /\ stage' = "verdict"
    /\ UNCHANGED <<opts, ran, signed, paid, disk, exit, command, entries>>

\* --allow-cross-fetch is parsed inside the run, where nothing catches it.
BadAllowlist ==
    /\ Visiting /\ command.name = "discovery"
    /\ Crash
    /\ UNCHANGED <<command, entries>>

-----------------------------------------------------------------------------
(* The end of a scan, and the other commands' report.                      *)

\* (mutant) A scan that reached nobody finds nobody at fault.
ScanExitCodeUnreached == IF \E i \in DOMAIN entries : entries[i] \in {1, 2} THEN 1 ELSE 0

\* (mutant) Only the last target's entry decides.
ScanExitCodeOfLast == IF entries[Len(entries)] \in {0, Lost} THEN 0 ELSE 1

Reachable == {i \in DOMAIN entries : entries[i] # Lost}

ScanExitCode ==
    IF Reachable = {} THEN 2
    ELSE IF \E i \in Reachable : entries[i] # 0 THEN 1 ELSE 0

\* The scan's JSON, if asked for, may fail to be written.
EndScan ==
    /\ stage = "active" /\ command.name = "scan"
    /\ Len(entries) = command.targets
    /\ Stop(ScanExitCode) \/ Stop(2)
    /\ UNCHANGED <<opts, results, ran, signed, paid, disk, command, entries>>

\* The other commands end as the check command does.
CommandReports == (Assess \/ Emit \/ EmitFails) /\ UNCHANGED <<command, entries>>

CommandNext ==
    \/ RefuseCommand
    \/ AcceptCommand
    \/ CommandPreflight
    \/ CommandNoSigner
    \/ \E offer \in Offers, chain \in Networks \cup {NoNet} :
        \/ RefuseVisit(offer, chain)
        \/ LoseVisit(offer, chain)
        \/ CrashVisit(offer, chain)
        \/ \E supported \in Findings["supported"], verify \in Findings["verify"],
              settle \in Findings["settle"] :
                Visit(offer, chain, supported, verify, settle)
    \/ \E found \in Findings["discovery"] : VisitDiscovery(found)
    \/ BadAllowlist
    \/ CommandFetchRaises
    \/ EndScan
    \/ CommandReports
    \/ stage \in {"done", "crashed"} /\ UNCHANGED commandVars

CommandSpec == CommandInit /\ [][CommandNext]_commandVars
=============================================================================
