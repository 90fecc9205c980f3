--------------------------- MODULE CommandsProofs ---------------------------
(***************************************************************************)
(* The safety of the check command for any networks, allowlist, offers and *)
(* findings, and then of the facilitator, scan and discovery commands over *)
(* the same groups and any number of targets.                              *)
(***************************************************************************)
EXTENDS Commands, WellFoundedInduction, SequenceTheorems, TLAPS

\* The passive run is the first to find anything.
EvidenceStartsEmpty == stage \in {"args", "passive"} => results = {}

\* The groups run in their order, and one asked for is passed over only when the
\* signing module does not import.
GroupsInOrder ==
    opts.evm # "broken" =>
        /\ stage = "pay" => Requested \cap {"active"} \subseteq ran
        /\ stage = "timing" => Requested \cap {"active", "pay"} \subseteq ran
        /\ stage \in {"verdict", "emit"} => Requested \subseteq ran

\* Nothing is claimed before the verdict, and between the verdict and the report
\* only the record and its journal line claim it.
ClaimsFollowVerdict ==
    /\ stage \notin {"emit", "done"} => /\ record = NoCode /\ journal = NoCode
                                         /\ report.code = NoCode
                                         /\ exit \in {1, NoCode}
    /\ stage = "emit" => /\ {record, journal} \subseteq {NoCode, AssessmentExitCode(results)}
                         /\ report.code = NoCode /\ exit = NoCode

\* The exit code is the last thing there is.
RunningHasNoExit == stage \notin {"done", "crashed"} => exit = NoCode

\* The strengthening of the command's safety invariants every step preserves.
CheckInv ==
    /\ CheckTypeOK
    /\ EvidenceStartsEmpty
    /\ GroupsInOrder
    /\ ClaimsFollowVerdict
    /\ RunningHasNoExit
    /\ NothingUnsafeIsSigned
    /\ FundsFollowTheRpc
    /\ UpfrontIsLastResort
    /\ ConformanceIsEarned

-----------------------------------------------------------------------------
\* The entry FirstOf picks is one of those it is given.
LEMMA FirstOfIsMember ==
    ASSUME NEW offer \in Seq(Entry), NEW S \in SUBSET DOMAIN offer, S # {}
    PROVE  \E i \in S : FirstOf(offer, S) = offer[i]
<1>1. S \in SUBSET Nat
  BY LenProperties
<1>2. \E i \in S : \A j \in S : <<j, i>> \notin OpToRel(<, Nat)
  BY <1>1, NatLessThanWellFounded, WFMin
<1>. DEFINE Below == {ss \in Nat \X Nat : ss[1] < ss[2]}
<1>3. OpToRel(<, Nat) = Below
  BY DEF OpToRel
<1>4. PICK i \in S : \A j \in S : <<j, i>> \notin Below
  BY <1>2, <1>3, Zenon
<1>5. ASSUME NEW j \in S PROVE i <= j
  <2>1. i \in Nat /\ j \in Nat
    BY <1>1
  <2>2. <<j, i>> \in Nat \X Nat /\ <<j, i>>[1] = j /\ <<j, i>>[2] = i
    BY <2>1
  <2>3. ~(j < i)
    BY <1>4, <2>2
  <2>4. QED
    BY <2>1, <2>3
<1>6. QED
  BY <1>5 DEF FirstOf

\* An entry that is chosen is eligible and on a safe network, and is an upfront
\* one only when no safe authorization entry is offered.
LEMMA ChooseIsSafe ==
    ASSUME NEW offer \in Offers, Choose(offer) # NoEntry
    PROVE  /\ Choose(offer).network \in SafeNets
           /\ Choose(offer).flow = "upfront" => SafeAuthorization(offer) = {}
<1>1. offer \in Seq(Entry)
  BY CheckAssumption
<1>2. SafeAuthorization(offer) \subseteq DOMAIN offer /\ Safe(offer) \subseteq DOMAIN offer
  BY DEF SafeAuthorization, Safe, Eligible
<1>3. CASE SafeAuthorization(offer) # {}
  <2>1. PICK i \in SafeAuthorization(offer) : Choose(offer) = offer[i]
    BY <1>1, <1>2, <1>3, FirstOfIsMember DEF Choose
  <2>2. QED
    BY <2>1 DEF SafeAuthorization, Safe
<1>4. CASE SafeAuthorization(offer) = {}
  <2>1. PICK i \in Safe(offer) : Choose(offer) = offer[i]
    BY <1>1, <1>2, <1>4, FirstOfIsMember DEF Choose
  <2>2. QED
    BY <1>4, <2>1 DEF Safe
<1>5. QED
  BY <1>3, <1>4

\* The exit code of an assessment is one of the three, and 0 only on results
\* that are conformant and judged.
LEMMA AssessmentExitCodeIsCode ==
    ASSUME NEW res
    PROVE  /\ AssessmentExitCode(res) \in Codes
           /\ AssessmentExitCode(res) = 0 => ~NonConformant(res) /\ ~Unjudged(res)
BY DEF AssessmentExitCode, Codes

-----------------------------------------------------------------------------
\* The invariant holds when the command is started.
LEMMA CheckInitInv == CheckInit => CheckInv
<1> SUFFICES ASSUME CheckInit PROVE CheckInv  OBVIOUS
<1>1. CheckTypeOK
  BY DEF CheckInit, CheckTypeOK, NoPayment, NoReport, NoCode, Codes, Stages
<1>2. QED
  BY <1>1 DEF CheckInit, CheckInv, EvidenceStartsEmpty, GroupsInOrder, ClaimsFollowVerdict,
     RunningHasNoExit, NothingUnsafeIsSigned, FundsFollowTheRpc, UpfrontIsLastResort, ConformanceIsEarned,
     NoPayment, NoReport, NoEntry, NoCode


\* The results a group adds keep the invariant, if the payment it signed for them
\* keeps the rules about payments.
LEMMA ContributeInv ==
    ASSUME CheckInv, NEW g \in Groups, stage = g, opts.evm = "installed",
           NEW found \in SUBSET Result, Contribute(g, found),
           signed'.group \in Groups \cup {"none"}, paid' \in BOOLEAN,
           NothingUnsafeIsSigned', FundsFollowTheRpc', UpfrontIsLastResort'
    PROVE  CheckInv'
<1>. USE DEF CheckInv, Contribute, disk
<1>1. /\ opts' = opts /\ results' = results \cup found /\ ran' = ran \cup {g}
      /\ stage' = After[g] /\ After[g] \in {"pay", "timing", "verdict"}
      /\ <<record, journal, report, exit>>' = <<record, journal, report, exit>>
  BY DEF After, Groups
<1>2. record = NoCode /\ journal = NoCode /\ report.code = NoCode /\ exit = NoCode
  BY DEF ClaimsFollowVerdict, RunningHasNoExit, Groups
<1>3. CheckTypeOK'
  BY <1>1 DEF CheckTypeOK, Stages, Groups
<1>4. EvidenceStartsEmpty' /\ ClaimsFollowVerdict' /\ RunningHasNoExit'
      /\ ConformanceIsEarned'
  BY <1>1, <1>2 DEF EvidenceStartsEmpty, ClaimsFollowVerdict, RunningHasNoExit,
     ConformanceIsEarned, NoCode
<1>5. GroupsInOrder'
  BY <1>1 DEF GroupsInOrder, Requested, Groups, After
<1>6. QED
  BY <1>3, <1>4, <1>5

\* Ending a run before its verdict claims nothing but 1 or 2.
LEMMA EndInv ==
    ASSUME CheckInv, stage \notin {"verdict", "emit", "done", "crashed"},
           UNCHANGED <<opts, results, ran, signed, paid, report>>,
           \/ /\ stage' = "done" /\ exit' = 2
              /\ record' \in {NoCode, 2} /\ journal' \in {NoCode, 2}
           \/ stage' = "crashed" /\ exit' = 1 /\ UNCHANGED <<record, journal>>
    PROVE  CheckInv'
<1>. USE DEF CheckInv
<1>1. record = NoCode /\ journal = NoCode /\ report.code = NoCode
  BY DEF ClaimsFollowVerdict
<1>2. CheckTypeOK'
  BY DEF CheckTypeOK, Stages, Codes, NoCode, Groups
<1>3. EvidenceStartsEmpty' /\ GroupsInOrder' /\ ClaimsFollowVerdict' /\ RunningHasNoExit'
      /\ ConformanceIsEarned'
  BY <1>1 DEF EvidenceStartsEmpty, GroupsInOrder, ClaimsFollowVerdict, RunningHasNoExit,
     ConformanceIsEarned, NoCode
<1>4. NothingUnsafeIsSigned' /\ FundsFollowTheRpc' /\ UpfrontIsLastResort'
  BY DEF NothingUnsafeIsSigned, FundsFollowTheRpc, UpfrontIsLastResort
<1>5. QED
  BY <1>2, <1>3, <1>4

\* A step to a stage before the verdict that changes nothing else.
LEMMA MoveInv ==
    ASSUME CheckInv, stage \notin {"verdict", "emit", "done", "crashed"},
           UNCHANGED <<opts, results, ran, signed, paid, disk, exit>>,
           \/ stage = "args" /\ stage' = "passive"
           \/ stage = "preflight" /\ stage' = "active"
           \/ /\ stage \in Groups /\ stage' = After[stage]
              /\ ~opts[stage] \/ opts.evm = "broken"
    PROVE  CheckInv'
<1>. USE DEF CheckInv, disk
<1>1. stage' \in {"passive", "active", "pay", "timing", "verdict"}
  BY DEF Groups, After
<1>2. CheckTypeOK'
  BY <1>1 DEF CheckTypeOK, Stages, Groups
<1>3. EvidenceStartsEmpty'
  BY DEF EvidenceStartsEmpty, Groups, After
<1>4. GroupsInOrder'
  <2>. SUFFICES ASSUME opts.evm # "broken" PROVE GroupsInOrder'  BY DEF GroupsInOrder
  <2>1. CASE stage = "args"
    BY <2>1 DEF GroupsInOrder, Groups
  <2>2. CASE stage = "preflight"
    BY <2>2 DEF GroupsInOrder, Groups
  <2>3. CASE stage = "active"
    BY <2>3 DEF GroupsInOrder, Groups, After, Requested
  <2>4. CASE stage = "pay"
    BY <2>4 DEF GroupsInOrder, Groups, After, Requested
  <2>5. CASE stage = "timing"
    BY <2>5 DEF GroupsInOrder, Groups, After, Requested
  <2>6. QED
    BY <2>1, <2>2, <2>3, <2>4, <2>5 DEF Groups
<1>5. ClaimsFollowVerdict' /\ RunningHasNoExit'
      /\ ConformanceIsEarned'
  BY <1>1 DEF ClaimsFollowVerdict, RunningHasNoExit,
     ConformanceIsEarned, NoCode
<1>6. NothingUnsafeIsSigned' /\ FundsFollowTheRpc' /\ UpfrontIsLastResort'
  BY DEF NothingUnsafeIsSigned, FundsFollowTheRpc, UpfrontIsLastResort
<1>7. QED
  BY <1>2, <1>3, <1>4, <1>5, <1>6

\* The passive run's findings keep the invariant.
LEMMA RunChecksInv ==
    ASSUME CheckInv, NEW found \in Outcomes["passive"], RunChecks(found)
    PROVE  CheckInv'
<1>. USE DEF CheckInv, RunChecks, disk
<1>1. found \in SUBSET Result
  BY CheckAssumption
<1>2. CheckTypeOK'
  BY <1>1 DEF CheckTypeOK, Stages
<1>3. EvidenceStartsEmpty' /\ GroupsInOrder' /\ ClaimsFollowVerdict' /\ RunningHasNoExit'
      /\ ConformanceIsEarned'
  BY DEF EvidenceStartsEmpty, GroupsInOrder, ClaimsFollowVerdict, RunningHasNoExit, ConformanceIsEarned,
         NoCode, Requested
<1>4. NothingUnsafeIsSigned' /\ FundsFollowTheRpc' /\ UpfrontIsLastResort'
  BY DEF NothingUnsafeIsSigned, FundsFollowTheRpc, UpfrontIsLastResort
<1>5. QED
  BY <1>2, <1>3, <1>4

\* The payment a group signs for an offer is for the entry Choose picks of it.
LEMMA SignIsSafe ==
    ASSUME NEW g \in Groups, NEW offer \in Offers, NEW chain,
           Choose(offer) # NoEntry, Sign(g, offer, chain),
           g = "pay" => chain = Choose(offer).network
    PROVE  /\ signed'.group \in Groups \cup {"none"}
           /\ NothingUnsafeIsSigned' /\ FundsFollowTheRpc' /\ UpfrontIsLastResort'
<1>1. /\ signed'.group = g /\ signed'.offer = offer
      /\ signed'.entry = Choose(offer) /\ signed'.chain = chain
  BY DEF Sign
<1>2. NothingUnsafeIsSigned' /\ FundsFollowTheRpc'
  BY <1>1, ChooseIsSafe DEF NothingUnsafeIsSigned, FundsFollowTheRpc
<1>3. UpfrontIsLastResort'
  BY <1>1, ChooseIsSafe DEF UpfrontIsLastResort, SafeAuthorization, Safe, Eligible
<1>4. QED
  BY <1>1, <1>2, <1>3


\* A group that finds nothing it can pay, or cannot build the payment, reports it.
LEMMA UnpaidInv ==
    ASSUME CheckInv, NEW g \in Groups, Starts(g),
           NothingToPay(g) \/ (Contribute(g, {SuiteError}) /\ UNCHANGED <<signed, paid>>)
    PROVE  CheckInv'
<1>1. {Skipped} \in SUBSET Result /\ {SuiteError} \in SUBSET Result
  BY DEF Skipped, SuiteError, Result, Statuses, Reasons
<1>2. stage = g /\ opts.evm = "installed"
  BY DEF Starts
<1>3. /\ signed'.group \in Groups \cup {"none"} /\ paid' \in BOOLEAN
      /\ NothingUnsafeIsSigned' /\ FundsFollowTheRpc' /\ UpfrontIsLastResort'
  BY DEF CheckInv, CheckTypeOK, NothingToPay, NothingUnsafeIsSigned, FundsFollowTheRpc,
         UpfrontIsLastResort
<1>4. CASE Contribute(g, {Skipped})
  BY <1>1, <1>2, <1>3, <1>4, ContributeInv
<1>5. CASE Contribute(g, {SuiteError})
  BY <1>1, <1>2, <1>3, <1>5, ContributeInv
<1>6. QED
  BY <1>4, <1>5 DEF NothingToPay

\* Each group keeps the invariant.
LEMMA RunGroupInv ==
    ASSUME CheckInv, NEW g \in Groups, NEW offer \in Offers,
           NEW chain \in Networks \cup {NoNet}, NEW found \in Outcomes[g],
           RunGroup(g, offer, chain, found)
    PROVE  CheckInv'
<1>1. Starts(g) /\ stage = g /\ opts.evm = "installed"
  BY DEF RunGroup, Starts
<1>2. found \in SUBSET Result
  BY CheckAssumption
<1>3. CASE Crash
  <2>1. stage \notin {"verdict", "emit", "done", "crashed"}
    BY <1>1 DEF Groups
  <2>2. /\ stage' = "crashed" /\ exit' = 1 /\ UNCHANGED <<record, journal>>
        /\ UNCHANGED <<opts, results, ran, signed, paid, report>>
    BY <1>3 DEF Crash, disk
  <2>3. QED
    BY <2>1, <2>2, EndInv
<1>4. CASE NothingToPay(g) \/ (Contribute(g, {SuiteError}) /\ UNCHANGED <<signed, paid>>)
  BY <1>1, <1>4, UnpaidInv
<1>5. CASE /\ Contribute(g, found) /\ Choose(offer) # NoEntry
           /\ \/ Sign(g, offer, NoNet) /\ g # "pay" /\ UNCHANGED paid
              \/ Sign(g, offer, chain) /\ chain = Choose(offer).network /\ paid' = TRUE
  <2>1. paid' \in BOOLEAN
    BY <1>5 DEF CheckInv, CheckTypeOK
  <2>2. /\ signed'.group \in Groups \cup {"none"}
        /\ NothingUnsafeIsSigned' /\ FundsFollowTheRpc' /\ UpfrontIsLastResort'
    BY <1>5, SignIsSafe
  <2>3. QED
    BY <1>1, <1>2, <1>5, <2>1, <2>2, ContributeInv
<1>6. QED
  BY <1>3, <1>4, <1>5 DEF RunGroup, Probe, Pay

\* The verdict, and the record written for it.
LEMMA AssessInv == CheckInv /\ Assess => CheckInv'
<1> SUFFICES ASSUME CheckInv, Assess PROVE CheckInv'  OBVIOUS
<1>. DEFINE code == AssessmentExitCode(results)
<1>1. code \in Codes /\ (code = 0 => ~NonConformant(results) /\ ~Unjudged(results))
  BY AssessmentExitCodeIsCode
<1>2. /\ stage = "verdict" /\ UNCHANGED <<opts, results, ran, signed, paid, report>>
      /\ record' \in {NoCode, code} /\ journal' \in {NoCode, code}
      /\ \/ stage' = "emit" /\ exit' = exit
         \/ stage' = "done" /\ exit' = 2
      /\ record = NoCode /\ journal = NoCode /\ report.code = NoCode /\ exit \in {1, NoCode}
  BY DEF Assess, WriteRecord, RecordFails, Stop, CheckInv, ClaimsFollowVerdict
<1>3. exit = NoCode
  BY <1>2 DEF CheckInv, RunningHasNoExit
<1>. HIDE DEF code
<1>4. CheckTypeOK'
  BY <1>1, <1>2 DEF CheckInv, CheckTypeOK, Stages, Codes, NoCode
<1>5. EvidenceStartsEmpty' /\ GroupsInOrder' /\ RunningHasNoExit'
  BY <1>2, <1>3 DEF CheckInv, EvidenceStartsEmpty, GroupsInOrder, Requested, RunningHasNoExit
<1>6. ClaimsFollowVerdict'
  BY <1>2, <1>3 DEF ClaimsFollowVerdict, code, AssessmentExitCode, NonConformant, Unjudged,
     NothingApplied, HasReason, VersionUnproven
<1>7. ConformanceIsEarned'
  <2>1. opts.evm # "broken" => Requested \subseteq ran
    BY <1>2 DEF CheckInv, GroupsInOrder
  <2>2. 0 \in {exit', record', journal', report.code'} => code = 0
    BY <1>2, <1>3 DEF NoCode
  <2>3. QED
    BY <1>1, <1>2, <2>1, <2>2 DEF ConformanceIsEarned, Requested, NonConformant, Unjudged,
       NothingApplied, HasReason, VersionUnproven
<1>8. NothingUnsafeIsSigned' /\ FundsFollowTheRpc' /\ UpfrontIsLastResort'
  BY <1>2 DEF CheckInv, NothingUnsafeIsSigned, FundsFollowTheRpc, UpfrontIsLastResort
<1>9. QED
  BY <1>4, <1>5, <1>6, <1>7, <1>8 DEF CheckInv

\* The report, and the exit code.
LEMMA EmitInv == CheckInv /\ (Emit \/ EmitFails) => CheckInv'
<1> SUFFICES ASSUME CheckInv, Emit \/ EmitFails PROVE CheckInv'  OBVIOUS
<1>. DEFINE code == AssessmentExitCode(results)
<1>1. code \in Codes /\ (code = 0 => ~NonConformant(results) /\ ~Unjudged(results))
  BY AssessmentExitCodeIsCode
<1>2. /\ stage = "emit" /\ UNCHANGED <<opts, results, ran, signed, paid, record, journal>>
      /\ stage' = "done" /\ exit' \in {code, 2} /\ report'.code \in {NoCode, code}
      /\ {record, journal} \subseteq {NoCode, code}
  BY DEF Emit, EmitFails, Stop, Report, NoReport, CheckInv, ClaimsFollowVerdict
<1>. HIDE DEF code
<1>3. CheckTypeOK'
  BY <1>1, <1>2 DEF CheckInv, CheckTypeOK, Stages, Codes, NoCode
<1>4. EvidenceStartsEmpty' /\ GroupsInOrder' /\ ClaimsFollowVerdict' /\ RunningHasNoExit'
  BY <1>2 DEF EvidenceStartsEmpty, GroupsInOrder, ClaimsFollowVerdict, RunningHasNoExit
<1>5. ConformanceIsEarned'
  <2>1. opts.evm # "broken" => Requested \subseteq ran
    BY <1>2 DEF CheckInv, GroupsInOrder
  <2>2. 0 \in {exit', record', journal', report'.code} => code = 0
    BY <1>2 DEF NoCode
  <2>3. QED
    BY <1>1, <1>2, <2>1, <2>2 DEF ConformanceIsEarned, Requested, NonConformant, Unjudged,
       NothingApplied, HasReason, VersionUnproven
<1>6. NothingUnsafeIsSigned' /\ FundsFollowTheRpc' /\ UpfrontIsLastResort'
  BY <1>2 DEF CheckInv, NothingUnsafeIsSigned, FundsFollowTheRpc, UpfrontIsLastResort
<1>7. QED
  BY <1>3, <1>4, <1>5, <1>6 DEF CheckInv


\* Every step keeps the invariant.
LEMMA CheckNextInv == CheckInv /\ [CheckNext]_checkVars => CheckInv'
<1> SUFFICES ASSUME CheckInv, [CheckNext]_checkVars PROVE CheckInv'  OBVIOUS
<1>0. stage # "verdict" => (record = NoCode /\ journal = NoCode) \/ stage \in {"emit", "done"}
  BY DEF CheckInv, ClaimsFollowVerdict
<1>1. CASE Refuse
  BY <1>0, <1>1, EndInv DEF Refuse, Stop, disk
<1>2. CASE Accept
  BY <1>2, MoveInv DEF Accept
<1>3. CASE Unreachable \/ PreflightRefuses
  BY <1>0, <1>3, EndInv DEF Unreachable, PreflightRefuses, RecordAndStop, WriteRecord,
     RecordFails, Stop
<1>4. ASSUME NEW found \in Outcomes["passive"], RunChecks(found) PROVE CheckInv'
  BY <1>4, RunChecksInv
<1>5. CASE PreflightPasses
  BY <1>5, MoveInv DEF PreflightPasses
<1>6. ASSUME NEW g \in Groups, PassOver(g) PROVE CheckInv'
  BY <1>6, MoveInv DEF PassOver, Groups
<1>7. ASSUME NEW g \in Groups, NoSigner(g) PROVE CheckInv'
  BY <1>0, <1>7, EndInv DEF NoSigner, Crash, Stop, disk, Groups
<1>8. ASSUME NEW g \in Groups, GroupUnreachable(g) PROVE CheckInv'
  BY <1>8, UnpaidInv DEF GroupUnreachable
<1>9. ASSUME NEW g \in Groups, NEW offer \in Offers, NEW chain \in Networks \cup {NoNet},
             NEW found \in Outcomes[g], RunGroup(g, offer, chain, found)
      PROVE CheckInv'
  BY <1>9, RunGroupInv
<1>10. CASE Assess
  BY <1>10, AssessInv
<1>11. CASE Emit \/ EmitFails
  BY <1>11, EmitInv
<1>12. CASE UNCHANGED checkVars
  BY <1>12 DEF checkVars, CheckInv, CheckTypeOK, EvidenceStartsEmpty, GroupsInOrder,
     ClaimsFollowVerdict, RunningHasNoExit, NothingUnsafeIsSigned, FundsFollowTheRpc,
     UpfrontIsLastResort, ConformanceIsEarned, Requested, AssessmentExitCode,
     NonConformant, Unjudged, NothingApplied, HasReason, VersionUnproven
<1>13. CASE FetchRaises
  BY <1>0, <1>13, EndInv DEF FetchRaises, Fetches, Starts, Crash, disk, Groups
<1>14. QED
  BY <1>1, <1>2, <1>3, <1>4, <1>5, <1>6, <1>7, <1>8, <1>9, <1>10, <1>11, <1>12, <1>13
     DEF CheckNext, Preflight

\* The invariant holds throughout every run.
LEMMA CheckInvHolds == CheckSpec => []CheckInv
BY CheckInitInv, CheckNextInv, PTL DEF CheckSpec

-----------------------------------------------------------------------------
\* The command's state keeps its shape whatever the groups find.
THEOREM CheckTypeCorrect == CheckSpec => []CheckTypeOK
BY CheckInvHolds, PTL DEF CheckInv

\* Whatever the endpoint offers, and however the offer changes between the
\* fetches, no payment is signed for a network outside the allowlist.
THEOREM OnlySafeNetworks == CheckSpec => []NothingUnsafeIsSigned
BY CheckInvHolds, PTL DEF CheckInv

\* A funded payment is for the chain the RPC reported for that very offer.
THEOREM FundsOnTheRpcsChain == CheckSpec => []FundsFollowTheRpc
BY CheckInvHolds, PTL DEF CheckInv

\* The upfront flow is used only for want of a safe authorization entry.
THEOREM UpfrontLast == CheckSpec => []UpfrontIsLastResort
BY CheckInvHolds, PTL DEF CheckInv

\* Exit code, run record, journal and report claim conformance only for
\* conformant, judged results to which every group asked for contributed.
THEOREM ConformanceEarned == CheckSpec => []ConformanceIsEarned
BY CheckInvHolds, PTL DEF CheckInv

\* No group takes an earlier finding of non-conformance back.
THEOREM FailuresStand == CheckSpec => FailureIsNeverMasked
<1>1. ASSUME CheckInv, [CheckNext]_checkVars
      PROVE [NonConformant(results) => NonConformant(results')]_checkVars
  <2>. SUFFICES ASSUME NonConformant(results) PROVE NonConformant(results')  OBVIOUS
  <2>1. CASE \E found \in Outcomes["passive"] : RunChecks(found)
    BY <1>1, <2>1 DEF RunChecks, CheckInv, EvidenceStartsEmpty, NonConformant
  <2>2. CASE results \subseteq results'
    BY <2>2 DEF NonConformant
  <2>3. QED
    BY <1>1, <2>1, <2>2 DEF CheckNext, Refuse, Accept, Unreachable, Preflight,
       PreflightRefuses, PreflightPasses, PassOver, NoSigner, FetchRaises, Crash,
       GroupUnreachable, NothingToPay, RunGroup, Probe, Pay, Contribute, Assess, Emit, EmitFails, checkVars
<1>2. QED
  BY <1>1, CheckInvHolds, PTL DEF CheckSpec, FailureIsNeverMasked

-----------------------------------------------------------------------------
\* There is no report before the end, and the one there is names a cause.
ReportInv ==
    /\ stage # "done" => report = NoReport
    /\ ReportNamesItsCause

LEMMA NoReportNamesNone ==
    ASSUME report = NoReport
    PROVE  ReportNamesItsCause
BY DEF NoReport, NoCode, ReportNamesItsCause

\* The default of the list is reached only by results whose version is unproven.
LEMMA ReasonHolds ==
    ASSUME UNCHANGED results, report' \in {NoReport, Report}
    PROVE  ReportNamesItsCause'
<1> DEFINE code == AssessmentExitCode(results)
           reason == InconclusiveReason(results)
<1>1. CASE report' = NoReport
  BY <1>1 DEF NoReport, NoCode, ReportNamesItsCause
<1>2. CASE report' = Report /\ code = 2
  <2>1. Unjudged(results)
    BY <1>2 DEF AssessmentExitCode
  <2>2. report'.reason = reason /\ report'.code = 2
    BY <1>2 DEF Report
  <2>3. \/ reason \in {"endpoint_absent", "deferred_pending_upstream", "settlement_pending"}
          /\ HasReason(results, reason)
        \/ reason = "no_checks_applicable" /\ NothingApplied(results)
        \/ reason = "not_x402_v2" /\ VersionUnproven(results)
    BY <2>1 DEF InconclusiveReason, Unjudged
  <2> HIDE DEF reason
  <2>4. QED
    BY <2>2, <2>3 DEF ReportNamesItsCause, HasReason, NothingApplied, VersionUnproven
<1>3. CASE report' = Report /\ code # 2
  <2>1. report'.reason = "none" /\ report'.code # 2
    BY <1>3 DEF Report
  <2>2. QED  BY <2>1 DEF ReportNamesItsCause
<1>4. QED  BY <1>1, <1>2, <1>3

LEMMA ReportStep == ReportInv /\ [CheckNext]_checkVars => ReportInv'
<1> SUFFICES ASSUME ReportInv, [CheckNext]_checkVars PROVE ReportInv'
  OBVIOUS
<1>1. CASE UNCHANGED checkVars
  BY <1>1 DEF checkVars, ReportInv, ReportNamesItsCause, HasReason, NothingApplied,
              VersionUnproven
<1>2. CASE Emit \/ EmitFails
  <2>1. stage' = "done" /\ UNCHANGED results /\ report' \in {NoReport, Report}
    BY <1>2 DEF Emit, EmitFails, Stop
  <2>2. QED  BY <2>1, ReasonHolds DEF ReportInv
<1>3. CASE stage # "done" /\ UNCHANGED report
  <2>1. report' = NoReport
    BY <1>3 DEF ReportInv
  <2>2. ReportNamesItsCause'
    BY <2>1 DEF NoReport, NoCode, ReportNamesItsCause
  <2>3. QED  BY <2>1, <2>2 DEF ReportInv
<1>4. QED
  BY <1>1, <1>2, <1>3
     DEF CheckNext, Refuse, Accept, Unreachable, RunChecks, Preflight, PreflightRefuses,
         PreflightPasses, PassOver, NoSigner, FetchRaises, Fetches, Crash, GroupUnreachable,
         Starts, NothingToPay, RunGroup, Probe, Pay, Contribute, Assess, Groups, disk

\* The reason an inconclusive report gives is one its results have, whatever the
\* groups found: the default of the list included.
THEOREM ReasonsAreCauses == CheckSpec => []ReportNamesItsCause
<1>1. CheckInit => ReportInv
  BY NoReportNamesNone DEF CheckInit, ReportInv
<1>2. ReportInv => ReportNamesItsCause
  BY DEF ReportInv
<1>3. QED  BY <1>1, <1>2, ReportStep, PTL DEF CheckSpec
-----------------------------------------------------------------------------
(* The facilitator, scan and discovery commands.                           *)

\* A scan never comes to the stages of a single report.
ScanHasNoReport == command.name = "scan" => stage \notin {"verdict", "emit"}

Faultless == \A i \in DOMAIN entries : entries[i] \in {0, Lost}

\* While no entry is at fault, nothing found so far is either, and an entry that
\* claims conformance was judged with everything that was asked for.
EntriesTellTheResults ==
    command.name = "scan" /\ Faultless =>
        /\ ~NonConformant(results)
        /\ Reachable = {} => results = {}
        /\ Reachable # {} => ~Unjudged(results) /\ Requested \subseteq ran

\* What was asked for fits the command.
OptionsFit == command.name = "discovery" => ~opts.active /\ ~opts.pay /\ ~opts.timing

\* The strengthening of the commands' safety invariants every step preserves.
CommandInv ==
    /\ CheckInv
    /\ CommandTypeOK
    /\ ScanHasNoReport
    /\ EntriesTellTheResults
    /\ OptionsFit

-----------------------------------------------------------------------------
LEMMA CommandsTypes ==
    /\ Findings \in [{"supported", "verify", "settle", "discovery"} -> SUBSET SUBSET Result]
    /\ {Skipped} \in SUBSET Result /\ {SuiteError} \in SUBSET Result
BY CommandsAssumption DEF Skipped, SuiteError, Result, Statuses, Reasons

\* The invariant holds when a command is started.
LEMMA CommandInitInv == CommandInit => CommandInv
<1> SUFFICES ASSUME CommandInit PROVE CommandInv  OBVIOUS
<1>1. CheckInv
  BY CheckInitInv DEF CommandInit
<1>2. CommandTypeOK
  BY DEF CommandInit, CommandTypeOK
<1>3. stage = "args" /\ results = {} /\ entries = <<>>
  BY DEF CommandInit, CheckInit
<1>4. EntriesTellTheResults
  BY <1>3 DEF EntriesTellTheResults, NonConformant, Reachable
<1>5. QED
  BY <1>1, <1>2, <1>3, <1>4 DEF CommandInv, ScanHasNoReport, OptionsFit, CommandInit

-----------------------------------------------------------------------------
(* One visit.                                                              *)

\* What a visit adds keeps the check command's invariant, if the payment it
\* signed keeps the rules about payments.
LEMMA VisitKeepsCheckInv ==
    ASSUME CheckInv, stage = "active",
           results' \in SUBSET Result,
           ran \subseteq ran', ran' \subseteq Groups,
           \/ stage' = "active"
           \/ stage' = "verdict" /\ Requested \subseteq ran'
           \/ stage' = "crashed" /\ exit' = 1
           \/ stage' = "done" /\ exit' = 2,
           stage' \in {"active", "verdict"} => exit' = exit,
           UNCHANGED <<opts, record, journal, report>>,
           signed'.group \in Groups \cup {"none"}, paid' \in BOOLEAN,
           NothingUnsafeIsSigned', FundsFollowTheRpc', UpfrontIsLastResort'
    PROVE  CheckInv'
<1>1. record = NoCode /\ journal = NoCode /\ report.code = NoCode /\ exit = NoCode
  BY DEF CheckInv, ClaimsFollowVerdict, RunningHasNoExit
<1>2. CheckTypeOK'
  BY <1>1 DEF CheckInv, CheckTypeOK, Stages, Groups, Codes, NoCode
<1>3. EvidenceStartsEmpty' /\ ClaimsFollowVerdict' /\ RunningHasNoExit' /\ ConformanceIsEarned'
  BY <1>1 DEF EvidenceStartsEmpty, ClaimsFollowVerdict, RunningHasNoExit,
     ConformanceIsEarned, NoCode
<1>4. GroupsInOrder'
  BY DEF GroupsInOrder, Requested
<1>5. QED
  BY <1>2, <1>3, <1>4 DEF CheckInv

\* A visit that signs does so for an entry its own offer and RPC allow.
LEMMA VisitSignIsSafe ==
    ASSUME CheckInv, NEW offer \in Offers, NEW chain \in Networks \cup {NoNet},
           \/ UNCHANGED <<signed, paid>>
           \/ /\ Signs(offer) /\ ~VisitRefused(offer, chain)
              /\ \/ Sign("active", offer, NoNet) /\ UNCHANGED paid
                 \/ opts.pay /\ Sign("pay", offer, chain) /\ paid' = TRUE
    PROVE  /\ signed'.group \in Groups \cup {"none"} /\ paid' \in BOOLEAN
           /\ NothingUnsafeIsSigned' /\ FundsFollowTheRpc' /\ UpfrontIsLastResort'
<1>1. CASE UNCHANGED <<signed, paid>>
  BY <1>1 DEF CheckInv, CheckTypeOK, NothingUnsafeIsSigned, FundsFollowTheRpc,
              UpfrontIsLastResort
<1>2. CASE /\ Signs(offer) /\ ~VisitRefused(offer, chain)
           /\ \/ Sign("active", offer, NoNet) /\ UNCHANGED paid
              \/ opts.pay /\ Sign("pay", offer, chain) /\ paid' = TRUE
  <2>1. Choose(offer) # NoEntry /\ paid' \in BOOLEAN
    BY <1>2 DEF Signs, Payable, CheckInv, CheckTypeOK
  <2>2. opts.pay => chain = Choose(offer).network
    BY <1>2, <2>1 DEF Signs, Payable, VisitRefused, RpcAgrees
  <2>3. "active" \in Groups /\ "pay" \in Groups /\ "active" # "pay"
    BY DEF Groups
  <2>4. CASE Sign("active", offer, NoNet)
    BY <2>1, <2>3, <2>4, SignIsSafe
  <2>5. CASE opts.pay /\ Sign("pay", offer, chain)
    BY <2>1, <2>2, <2>3, <2>5, SignIsSafe
  <2>6. QED  BY <1>2, <2>1, <2>4, <2>5
<1>3. QED  BY <1>1, <1>2

\* Results that earn a 0, added to results that are no evidence against a target,
\* are no evidence either, and are judged.
LEMMA ConformantAdded ==
    ASSUME NEW found, AssessmentExitCode(found) = 0, ~NonConformant(results),
           results' = results \cup found,
           results = {} \/ ~Unjudged(results)
    PROVE  ~NonConformant(results') /\ ~Unjudged(results')
<1>1. ~NonConformant(found) /\ ~Unjudged(found)
  BY AssessmentExitCodeIsCode
<1>2. ~NonConformant(results')
  BY <1>1 DEF NonConformant
<1>3. ~NothingApplied(results')
  BY <1>1 DEF Unjudged, NothingApplied
<1>4. ASSUME NEW reason \in {"deferred_pending_upstream", "settlement_pending"}
      PROVE  ~HasReason(results', reason)
  BY <1>1 DEF Unjudged, HasReason
<1>5. ~VersionUnproven(results')
  BY <1>1 DEF Unjudged, VersionUnproven
<1>6. QED
  BY <1>2, <1>3, <1>4, <1>5 DEF Unjudged

\* What a visit finds is results.
LEMMA FoundAreResults ==
    ASSUME NEW offer, NEW supported \in Findings["supported"],
           NEW verify \in Findings["verify"], NEW settle \in Findings["settle"]
    PROVE  Found(offer, supported, verify, settle) \in SUBSET Result
BY CommandsTypes DEF Found

\* One more entry: what it does to the set of targets reached.
LEMMA EntryAdded ==
    ASSUME CommandTypeOK, NEW e \in Codes \cup {Lost}, entries' = Append(entries, e)
    PROVE  /\ entries' \in Seq(Codes \cup {Lost})
           /\ Faultless' => Faultless /\ e \in {0, Lost}
           /\ e = Lost => Reachable' = Reachable
           /\ e # Lost => Reachable' # {}
<1>1. entries \in Seq(Codes \cup {Lost})
  BY DEF CommandTypeOK
<1>2. /\ entries' \in Seq(Codes \cup {Lost})
      /\ DOMAIN entries' = DOMAIN entries \cup {Len(entries) + 1}
      /\ entries'[Len(entries) + 1] = e
      /\ \A i \in DOMAIN entries : entries'[i] = entries[i]
      /\ Len(entries) + 1 \notin DOMAIN entries
  BY <1>1
<1>3. QED
  BY <1>2 DEF Faultless, Reachable

\* A visit that ends with its checks' results keeps the invariant.
LEMMA VisitInv ==
    ASSUME CommandInv, NEW offer \in Offers, NEW chain \in Networks \cup {NoNet},
           NEW supported \in Findings["supported"], NEW verify \in Findings["verify"],
           NEW settle \in Findings["settle"],
           Visit(offer, chain, supported, verify, settle)
    PROVE  CommandInv'
<1> DEFINE found == Found(offer, supported, verify, settle)
<1>1. found \in SUBSET Result
  BY FoundAreResults
<1>2. /\ stage = "active" /\ UNCHANGED <<opts, record, journal, report, exit, command>>
      /\ results' = results \cup found /\ ran' = ran \cup Requested
      /\ ~VisitRefused(offer, chain)
  BY DEF Visit, Visiting, disk
<1>3. \/ UNCHANGED <<signed, paid>>
      \/ /\ Signs(offer) /\ ~VisitRefused(offer, chain)
         /\ \/ Sign("active", offer, NoNet) /\ UNCHANGED paid
            \/ opts.pay /\ Sign("pay", offer, chain) /\ paid' = TRUE
  BY DEF Visit
<1>4. \/ /\ command.name = "scan" /\ stage' = "active"
         /\ entries' = Append(entries, AssessmentExitCode(found))
      \/ command.name # "scan" /\ stage' = "verdict" /\ entries' = entries
  BY <1>2 DEF Visit
<1> HIDE DEF found
<1>5. CheckInv'
  <2>1. /\ signed'.group \in Groups \cup {"none"} /\ paid' \in BOOLEAN
        /\ NothingUnsafeIsSigned' /\ FundsFollowTheRpc' /\ UpfrontIsLastResort'
    BY <1>3, VisitSignIsSafe DEF CommandInv
  <2>2. results' \in SUBSET Result /\ ran' \subseteq Groups /\ Requested \subseteq ran'
        /\ ran \subseteq ran'
    BY <1>1, <1>2 DEF CommandInv, CheckInv, CheckTypeOK, Requested
  <2>3. QED
    BY <1>2, <1>4, <2>1, <2>2, VisitKeepsCheckInv DEF CommandInv
<1>6. AssessmentExitCode(found) \in Codes
  BY AssessmentExitCodeIsCode
<1>7. CommandTypeOK'
  BY <1>2, <1>4, <1>6, EntryAdded DEF CommandInv, CommandTypeOK
<1>8. EntriesTellTheResults'
  <2>1. CASE command.name = "scan" /\ Faultless'
    <3>1. AssessmentExitCode(found) = 0 /\ Faultless /\ Reachable' # {}
      BY <1>4, <1>6, <2>1, EntryAdded DEF CommandInv, Codes, Lost, NoCode
    <3>2. ~NonConformant(results) /\ (results = {} \/ ~Unjudged(results))
      BY <2>1, <3>1 DEF CommandInv, EntriesTellTheResults
    <3>3. ~NonConformant(results') /\ ~Unjudged(results')
      BY <1>2, <3>1, <3>2, ConformantAdded
    <3>4. Requested' \subseteq ran'
      BY <1>2 DEF Requested
    <3>5. QED
      BY <3>1, <3>3, <3>4 DEF EntriesTellTheResults, NonConformant, Unjudged, NothingApplied,
         HasReason, VersionUnproven
  <2>2. QED
    BY <1>2, <2>1 DEF EntriesTellTheResults
<1>9. QED
  BY <1>2, <1>4, <1>5, <1>7, <1>8 DEF CommandInv, ScanHasNoReport, OptionsFit

\* A visit that loses its target keeps it.
LEMMA LoseVisitInv ==
    ASSUME CommandInv, NEW offer \in Offers, NEW chain \in Networks \cup {NoNet},
           LoseVisit(offer, chain)
    PROVE  CommandInv'
<1>1. /\ stage = "active"
      /\ UNCHANGED <<opts, results, ran, record, journal, report, command>>
      /\ \/ /\ command.name = "scan" /\ stage' = "active" /\ exit' = exit
            /\ entries' = Append(entries, Lost)
         \/ command.name # "scan" /\ stage' = "done" /\ exit' = 2 /\ entries' = entries
  BY DEF LoseVisit, Visiting, disk, Stop
<1>2. /\ signed'.group \in Groups \cup {"none"} /\ paid' \in BOOLEAN
      /\ NothingUnsafeIsSigned' /\ FundsFollowTheRpc' /\ UpfrontIsLastResort'
  BY VisitSignIsSafe DEF LoseVisit, CommandInv
<1>3. CheckInv'
  BY <1>1, <1>2, VisitKeepsCheckInv DEF CommandInv, CheckInv, CheckTypeOK
<1>4. CommandTypeOK'
  BY <1>1, EntryAdded DEF CommandInv, CommandTypeOK
<1>5. EntriesTellTheResults'
  <2>1. CASE command.name = "scan" /\ Faultless'
    <3>1. Faultless /\ Reachable' = Reachable
      BY <1>1, <2>1, EntryAdded DEF CommandInv
    <3>2. QED
      BY <1>1, <2>1, <3>1 DEF CommandInv, EntriesTellTheResults, NonConformant, Unjudged,
         NothingApplied, HasReason, VersionUnproven, Requested
  <2>2. QED
    BY <1>1, <2>1 DEF EntriesTellTheResults
<1>6. QED
  BY <1>1, <1>3, <1>4, <1>5 DEF CommandInv, ScanHasNoReport, OptionsFit

-----------------------------------------------------------------------------
(* The other steps.                                                        *)

\* A step that leaves results, entries and options alone needs only CheckInv.
LEMMA QuietInv ==
    ASSUME CommandInv, CheckInv', UNCHANGED <<opts, results, ran, command, entries>>,
           command.name = "scan" => stage' \notin {"verdict", "emit"}
    PROVE  CommandInv'
BY DEF CommandInv, CommandTypeOK, ScanHasNoReport, EntriesTellTheResults, OptionsFit, Faultless,
       Reachable, Requested, NonConformant, Unjudged, NothingApplied, HasReason, VersionUnproven

\* A command that ends before its verdict claims nothing but 1 or 2.
LEMMA CommandEnds ==
    ASSUME CommandInv, stage \notin {"verdict", "emit", "done", "crashed"},
           UNCHANGED <<opts, results, ran, signed, paid, record, journal, report, command, entries>>,
           \/ stage' = "done" /\ exit' = 2
           \/ stage' = "crashed" /\ exit' = 1
    PROVE  CommandInv'
<1>1. record = NoCode /\ journal = NoCode
  BY DEF CommandInv, CheckInv, ClaimsFollowVerdict
<1>2. CheckInv'
  BY <1>1, EndInv DEF CommandInv
<1>3. QED
  BY <1>2, QuietInv

\* A scan's own verdict: exit code 0 is earned by its entries.
LEMMA EndScanInv == CommandInv /\ EndScan => CommandInv'
<1> SUFFICES ASSUME CommandInv, EndScan PROVE CommandInv'  OBVIOUS
<1>1. /\ stage = "active" /\ command.name = "scan" /\ stage' = "done"
      /\ exit' \in {ScanExitCode, 2}
      /\ UNCHANGED <<opts, results, ran, signed, paid, record, journal, report, command, entries>>
  BY DEF EndScan, Stop, disk
<1>2. record = NoCode /\ journal = NoCode /\ report.code = NoCode
  BY <1>1 DEF CommandInv, CheckInv, ClaimsFollowVerdict
<1>3. ScanExitCode \in Codes
  BY DEF ScanExitCode, Codes
<1>4. ASSUME exit' = 0
      PROVE  ~NonConformant(results) /\ ~Unjudged(results) /\ Requested \subseteq ran
  <2>1. Reachable # {} /\ Faultless
    BY <1>1, <1>4 DEF ScanExitCode, Faultless, Reachable
  <2>2. QED
    BY <1>1, <2>1 DEF CommandInv, EntriesTellTheResults
<1>5. CheckInv'
  <2>1. CheckTypeOK'
    BY <1>1, <1>3 DEF CommandInv, CheckInv, CheckTypeOK, Stages, Codes
  <2>2. ConformanceIsEarned'
    BY <1>1, <1>2, <1>4 DEF ConformanceIsEarned, NoCode, Requested, NonConformant, Unjudged,
       NothingApplied, HasReason, VersionUnproven
  <2>3. /\ EvidenceStartsEmpty' /\ GroupsInOrder' /\ ClaimsFollowVerdict' /\ RunningHasNoExit'
        /\ NothingUnsafeIsSigned' /\ FundsFollowTheRpc' /\ UpfrontIsLastResort'
    BY <1>1 DEF CommandInv, CheckInv, EvidenceStartsEmpty, GroupsInOrder, ClaimsFollowVerdict,
       RunningHasNoExit, NothingUnsafeIsSigned, FundsFollowTheRpc, UpfrontIsLastResort
  <2>4. QED  BY <2>1, <2>2, <2>3 DEF CheckInv
<1>6. QED
  BY <1>1, <1>5, QuietInv

\* What discovery finds is judged like any other results.
LEMMA DiscoveryInv ==
    ASSUME CommandInv, NEW found \in Findings["discovery"], VisitDiscovery(found)
    PROVE  CommandInv'
<1>1. /\ stage = "active" /\ command.name = "discovery" /\ stage' = "verdict"
      /\ results' = results \cup found
      /\ UNCHANGED <<opts, ran, signed, paid, record, journal, report, exit, command, entries>>
  BY DEF VisitDiscovery, Visiting, disk
<1>2. results' \in SUBSET Result
  BY <1>1, CommandsTypes DEF CommandInv, CheckInv, CheckTypeOK
<1>3. Requested = {}
  BY <1>1 DEF CommandInv, OptionsFit, Requested, Groups
<1>4. CheckInv'
  BY <1>1, <1>2, <1>3, VisitKeepsCheckInv DEF CommandInv, CheckInv, CheckTypeOK,
     NothingUnsafeIsSigned, FundsFollowTheRpc, UpfrontIsLastResort
<1>5. QED
  BY <1>1, <1>4 DEF CommandInv, CommandTypeOK, ScanHasNoReport, EntriesTellTheResults, OptionsFit

\* Every step keeps the invariant.
LEMMA CommandNextInv == CommandInv /\ [CommandNext]_commandVars => CommandInv'
<1> SUFFICES ASSUME CommandInv, [CommandNext]_commandVars PROVE CommandInv'  OBVIOUS
<1>1. CASE RefuseCommand
  BY <1>1, CommandEnds DEF RefuseCommand, Stop, disk
<1>2. CASE AcceptCommand
  <2>1. CheckInv'
    <3>1. /\ stage = "args" /\ stage' \in {"preflight", "active"}
          /\ UNCHANGED <<opts, results, ran, signed, paid, record, journal, report, exit>>
      BY <1>2 DEF AcceptCommand, disk
    <3>2. CheckTypeOK' /\ EvidenceStartsEmpty' /\ GroupsInOrder' /\ RunningHasNoExit'
          /\ ClaimsFollowVerdict'
      BY <3>1 DEF CommandInv, CheckInv, CheckTypeOK, Stages, Groups, EvidenceStartsEmpty,
         GroupsInOrder, RunningHasNoExit, ClaimsFollowVerdict
    <3>3. /\ ConformanceIsEarned' /\ NothingUnsafeIsSigned' /\ FundsFollowTheRpc'
          /\ UpfrontIsLastResort'
      BY <3>1 DEF CommandInv, CheckInv, ConformanceIsEarned, NothingUnsafeIsSigned, Requested,
         FundsFollowTheRpc, UpfrontIsLastResort, NonConformant, Unjudged, NothingApplied,
         HasReason, VersionUnproven
    <3>4. QED  BY <3>2, <3>3 DEF CheckInv
  <2>2. QED  BY <1>2, <2>1, QuietInv DEF AcceptCommand
<1>3. CASE CommandPreflight
  <2>1. PreflightRefuses \/ PreflightPasses
    BY <1>3 DEF CommandPreflight, Preflight
  <2>2. CheckInv'
    <3>1. [CheckNext]_checkVars
      BY <1>3 DEF CommandPreflight, CheckNext
    <3>2. QED  BY <3>1, CheckNextInv DEF CommandInv
  <2>3. stage' \in {"done", "active"} /\ UNCHANGED <<opts, results, ran, command, entries>>
    BY <1>3, <2>1 DEF CommandPreflight, PreflightRefuses, PreflightPasses, RecordAndStop, Stop
  <2>4. QED  BY <2>2, <2>3, QuietInv
<1>4. CASE CommandNoSigner
  BY <1>4, CommandEnds DEF CommandNoSigner, NoSigner, Crash, Stop, disk
<1>5. ASSUME NEW offer \in Offers, NEW chain \in Networks \cup {NoNet},
             RefuseVisit(offer, chain) \/ CrashVisit(offer, chain)
      PROVE  CommandInv'
  BY <1>5, CommandEnds DEF RefuseVisit, CrashVisit, Visiting, Crash, Stop, disk
<1>6. ASSUME NEW offer \in Offers, NEW chain \in Networks \cup {NoNet},
             LoseVisit(offer, chain)
      PROVE  CommandInv'
  BY <1>6, LoseVisitInv
<1>7. ASSUME NEW offer \in Offers, NEW chain \in Networks \cup {NoNet},
             NEW supported \in Findings["supported"], NEW verify \in Findings["verify"],
             NEW settle \in Findings["settle"],
             Visit(offer, chain, supported, verify, settle)
      PROVE  CommandInv'
  BY <1>7, VisitInv
<1>8. ASSUME NEW found \in Findings["discovery"], VisitDiscovery(found) PROVE CommandInv'
  BY <1>8, DiscoveryInv
<1>9. CASE BadAllowlist
  BY <1>9, CommandEnds DEF BadAllowlist, Visiting, Crash, disk
<1>10. CASE EndScan
  BY <1>10, EndScanInv
<1>11. CASE CommandReports
  <2>1. CheckInv'
    <3>1. [CheckNext]_checkVars
      BY <1>11 DEF CommandReports, CheckNext
    <3>2. QED  BY <3>1, CheckNextInv DEF CommandInv
  <2>2. command.name # "scan"
    BY <1>11 DEF CommandReports, Assess, Emit, EmitFails, CommandInv, ScanHasNoReport
  <2>3. UNCHANGED <<opts, results, ran, command, entries>>
    BY <1>11 DEF CommandReports, Assess, Emit, EmitFails
  <2>4. QED  BY <2>1, <2>2, <2>3, QuietInv
<1>12. CASE UNCHANGED commandVars
  <2>1. [CheckNext]_checkVars /\ UNCHANGED <<command, entries>> /\ UNCHANGED checkVars
    BY <1>12 DEF commandVars
  <2>2. CheckInv'
    BY <2>1, CheckNextInv DEF CommandInv
  <2>3. QED
    BY <2>1, <2>2, QuietInv DEF checkVars, CommandInv, ScanHasNoReport
<1>13. CASE CommandFetchRaises
  BY <1>13, CommandEnds DEF CommandFetchRaises, Visiting, Crash, disk
<1>14. QED
  BY <1>1, <1>2, <1>3, <1>4, <1>5, <1>6, <1>7, <1>8, <1>9, <1>10, <1>11, <1>12, <1>13
     DEF CommandNext

\* The invariant holds throughout every run of a command.
LEMMA CommandInvHolds == CommandSpec => []CommandInv
BY CommandInitInv, CommandNextInv, PTL DEF CommandSpec

-----------------------------------------------------------------------------
\* Whatever the resource offers to each visit, the facilitator and scan commands
\* sign no payment for a network outside the allowlist.
THEOREM CommandsSignSafely == CommandSpec => []NothingUnsafeIsSigned
<1>1. CommandInv => NothingUnsafeIsSigned
  BY DEF CommandInv, CheckInv
<1>2. QED  BY <1>1, CommandInvHolds, PTL

\* What the facilitator command has settled is for the chain its RPC reported
\* for that very offer.
THEOREM CommandsSettleOnTheRpcsChain == CommandSpec => []FundsFollowTheRpc
<1>1. CommandInv => FundsFollowTheRpc
  BY DEF CommandInv, CheckInv
<1>2. QED  BY <1>1, CommandInvHolds, PTL

\* Exit code 0, a scan's over any number of targets included, is earned: nothing
\* found on any target reached is against it, and all of it was judged.
THEOREM CommandsEarnConformance == CommandSpec => []ConformanceIsEarned
<1>1. CommandInv => ConformanceIsEarned
  BY DEF CommandInv, CheckInv
<1>2. QED  BY <1>1, CommandInvHolds, PTL
=============================================================================
