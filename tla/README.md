# A verification of x402-conformance

x402-conformance tests implementations of the x402 payment protocol: it probes
resource servers and facilitators, sends them payments that must be accepted and
payments that must be refused, and turns what they do into a verdict that a CI
job acts on. Two of its modes move funds. What must be right is therefore not
only what a server under test does but what the suite itself does: what it
signs, how often it pays, and whether its verdicts are true of the chain.

This directory models that core in TLA+, checks it with TLC and proves most of
its safety properties with TLAPS. Paths below are relative to the repository; Python modules live
in `src/x402_conformance/`.

## 1. Inventory

| Part | State | Operations | Hard behaviour | What makes it correct |
|---|---|---|---|---|
| Test token, `onchain/src/MockUSDC.sol` | balances, supply, used nonces | `mint`, two overloads of `transferWithAuthorization` | order of mark and move, checked arithmetic, exclusive time window | tokens conserved; a debit uses up one fresh nonce |
| On-chain facilitator, `tools/onchain_facilitator.py` | none of its own between requests; the chain and the node's pool | GET resource, `/supported`, POST `/verify`, `/settle` | chain moves between verify and broadcast; receipt wait times out; reverts; pool-nonce reuse; clients that stop half way | a nonce settles once; a 200 is a mined transfer; every request that was sent whole is answered |
| Paid checks, `active.py` (`_do`), `checks/payment.py` | one retry loop per send, results | preflight, pay, grade, replay, race | lost answers and resends, five threads, pending settlements, reads before writes, exceptions after a payment | no third transfer; findings rest on evidence; the report is whole |
| Settle group, `checks/facilitator.py` (`evaluate_settle`) | answers seen, results by id | four sends and their grading | pending then retry, early decisions, aborted group | reconciliation told from re-broadcast; a conformant facilitator cleared |
| Registry checks of `checks/facilitator.py` | notes of absent and non-canonical checks | `/supported`, `/verify`, errors, extensions | absent endpoint told from wrong answer | absence never graded |
| `check` command, `cli.py` | results, run record, reports, exit code | passive run, preflight, three signing groups, verdict, outputs | offer and RPC change between fetches; crash or full disk between steps | nothing signed off the allowlist; conformance claimed only when earned |
| Other commands, `cli.py` (`facilitator`, `discovery`, `scan`), `scan.py` | results, one entry per target, outputs | preflight, signer, visits, verdict | offer and RPC change between visits; a visit lost after payments; one target of many fails | conformance claimed only when every target reached earns it; funds on the RPC's chain |
| Report diff, `diff.py` | none | compare two reports | a status changes, a check comes or goes | a clean diff never waves a failing report through |
| Safety policy, `safety.py` | none | allowlist, RPC match | stale chain id | fail closed |
| Verdict and reports, `report.py` | none | exit code, reason, renderings | precedence of causes | the reason given is a reason |
| Run record, `run_record.py` | one file per run, one journal | write file, append line | failure between the two | both carry the verdict |
| Passive runner, `runner.py`, `probe.py` | probes of one session | two unpaid probes, OpenAPI, path variants | transient statuses, lost requests, another server answering in between | a failed check names a defect that is there |
| Handshake and challenge checks, `checks/handshake.py`, `checks/payment_required.py` | none | 34 judgements of one or two answers | each skips what another check reports | no defect hides another |
| Path variants, `checks/path_variants.py` | none | up to 12 rewritten requests, compared with a control | any of them lost | a lost request is not evidence |
| Negative checks, `checks/negative.py` | results | one tampered payment per check, thread pool | completion order, probes that mask one another | a check fails on its defect alone; report order stable |
| Calibration target, `tools/calibration_target.py` | none; the bugs it was started with | GET resource, POST `/verify`, `/supported` | order of validations | the correct server fails no check |
| Timing probe, `checks/timing.py` | samples | two sample series | dropped connections | too few samples decide nothing |
| Discovery, `checks/discovery.py` | shared fetch budget | four checks over a paged catalogue, cross-fetched resources | the catalogue grows between pages; redirects; budget exhausted half way; places the fetcher cannot cope with | the budget is kept; unfetched is not failed |
| MCP server, `mcp_server.py` | none | tool calls around the runners | guards of its own | every call is answered |
| Solana, PQC, JP-402, error registry, redaction, repository tools | little or none | stateless checks, text and data | none a model checker reaches | unit tests |

How they interact: the CLI calls the runners; each runner opens its own HTTP
client and fetches the endpoint's offer anew (so the offer can change between
groups); the paid checks and the settle group talk to a server which talks to a
node; the verdict is a function of all results, and the record, the reports and
the exit code are written from it one after the other.

## 2. Modules

```
MockUSDC <- OnchainFacilitator <- ChainClient <- PaidFlow     (INSTANCE PaymentClient, ExactPayment)
                                              <- FaSettleFlow (INSTANCE FaSettle)
PaymentClient   FaSettle <- FaSettlePending    Verdict <- CheckCommand <- Commands
NegativeChecks <- CalibrationTarget, FacilitatorChecks <- Calibration
Probe <- HandshakeChecks <- PaymentRequiredChecks <- PassiveRun (with PathVariants)
PassiveRun, Discovery, ReportDiff <- PassiveTools
```

Theorems are in modules of their own, which compose as the models do:

```
OnchainFacilitatorProofs <- PaidFlowProofs     (INSTANCE PaymentClientProofs)
                         <- FaSettleFlowProofs
PaymentClientProofs   FaSettleProofs   CommandsProofs   CalibrationProofs   PassiveToolsProofs
```

| Module | Models | State and actions |
|---|---|---|
| `MockUSDC` | the token | the contract's variables; a revert is a call that is not enabled; a signature is the account it recovers to |
| `OnchainFacilitator` | the server and its node | `phase` is the point the single thread has reached; `BeginSettle`, `Broadcast`, `BroadcastFails`, `ReceiptFound`, `ReceiptWaitFails` are the steps of `settle()`, the `Chain` actions come between them; `unread` are the requests of which a part is still to be sent, `reading` the one the thread is blocked on, `dropped` the connections closed without an answer |
| `ChainClient` | what the suite signs for and reads from the chain | operators only; faults of the environment are a set `Faults` |
| `PaymentClient` | `_do`, `run_payment_checks`, `evaluate_payment` | `call[c]` is one retry loop; `stage` the flow; `Crash` the net around it, whose ERROR is `"CRASH"` to tell it from the preflight's; the environment's answers are parameters |
| `PaidFlow` | client, network, server and chain together | every attempt is a connection of its own |
| `ExactPayment` | the promise: sign once, pay once, deliver once | abstract specification `PaidFlow` implements |
| `FaSettle` | `evaluate_settle`, `_settle` | `step` is the send or grading reached; `results` is `by_id` |
| `FaSettleFlow` | the group against the on-chain facilitator | the facilitator's steps between the group's |
| `FaSettlePending` | the group against any facilitator, and against one that answers `settlement_pending` and reconciles | `broadcast` is what the facilitator did with the payment, `told` what it said |
| `NegativeChecks` | the probes of `checks/negative.py`, `payload_builder.py`, `_assert_rejected` | operators: a payment and the message that was signed for it |
| `CalibrationTarget` | `tools/calibration_target.py` | operators: which validations a payment does not meet, and the answer with a set of `bugs` |
| `FacilitatorChecks` | the registry checks of `checks/facilitator.py` | operators: one judgement per check |
| `Calibration` | `evaluate_active`, `evaluate_facilitator` against the target | `running` is the pool, `collected` the results as they complete, `report` what is returned |
| `Verdict` | `exit_code`, `assessment_exit_code`, the inconclusive reason | operators |
| `CheckCommand` | `check` from options to exit code | each group fetches an offer of its own; results of groups are a parameter |
| `Commands` | `facilitator`, `scan`, `discovery` | the state of `CheckCommand`, read for these commands, and `entries`, scan's list; a visit is one run of `run_facilitator_checks` |
| `Probe` | one answer and the stages its header decodes through | operators: a stage that fails leaves the later ones without a value |
| `HandshakeChecks`, `PaymentRequiredChecks` | the RS-HS and RS-PR checks | one operator per check, its status |
| `PathVariants` | which spellings a path gets, and RS-SEC-012 | operators |
| `PassiveRun` | `run_checks`, `_fetch_with_transient_retry` | `step` is the request under way, `attempt` its retries, `outcomes` the variants so far; a target answers as it is, or the network does in its place |
| `Discovery` | DI-001 to DI-004, `_SafeCrossFetcher` | `sent` is what the fetcher has requested; a listing may be added between two requests |
| `ReportDiff` | `diff_reports`, `has_regressions` | operators over functions from check ids to statuses |
| `PassiveTools` | the MCP tools and the passive commands around the last three | `tool` is the call being served, `reports` what the caller keeps |
| `MC*` | inputs for TLC | |
| `*Proofs` | theorems | |

Operators whose comment begins with `(mutant)` are deliberately wrong versions
of the definition that follows them. They are not part of any specification:
each shows that a property would notice that mistake.

### Abstractions

* Authorizations are well-formed objects. Fields that do not parse give
  `invalid_payload`; that path is kept for whole bodies (`malformedPost`) only.
  What raises inside the handler and drops the connection (an authorization that
  is no object, a Content-Length that is no number) is the route `unreadable`.
* A signature is the account it recovers to; hashes of transactions are
  injective in what they stand for (call, signer, account nonce).
* The server's clock is the block clock; bounds on time name `MaxTime`.
* Status codes stand for their classes in the paid flows: 503 for 429, 502, 503
  and 504; 302 for every redirect; 500 for other server errors. The passive
  runner keeps the codes that its checks tell apart.
* `CheckCommand` and `Commands` treat one run of a group, or one visit, as one
  step: inside it, the offer fetched and the chain id read are the ones signed
  for. What happens between the sends of the paid group is `PaidFlow`'s subject,
  between those of the settle group `FaSettleFlow`'s. A visit that is lost may
  have sent nothing, probes or payments. `results` of a scan is all it has found
  on any target; the code keeps a list per target and folds each into an entry.
* In the probes, a time window is one of open, expired and future, and an address
  one of a few names; `Huge` and `Extreme` stand for 2^256 - 1 and 10^30. A
  document is well-formed or not. The target's answer to an oversized header is
  taken to arrive before the connection is reset. RS-NEG-016 is the skip it is on
  a target without the builder-code extension, whose checks never raise.
* In the passive checks a text (an address, an amount, a key of `extra`) is a
  member of a small set, one member for each thing a check tells apart.
  `eth_utils` is installed. An endpoint's answers do not depend on the request's
  body. One request of the cross-fetcher stands for its tries at each of the
  host's validated addresses; the code counts it once as well.
* A node keeps one pooled transaction per account nonce: a second one replaces
  it at a higher gas price (`PoolWithNext`) and is refused otherwise.

## 3. Runs

| Run | Question | Bounds |
|---|---|---|
| `MCFacilitator` | do settlements, answers and the chain agree; is the token sound; is every request answered | 3 connections: two that race for one nonce and one more for the balance; every other request kind once, an unreadable one included; two whose client may stop half way, go on or hang up; 2 ticks cross both window ends; words 0..3, so that a mint overflows (that no transfer does is proved); a transfer to oneself |
| `MCPaymentClient` | does a second payment wait for the first; is a pending one left open; does the run end, whatever the endpoint does | any response to any send, 2 racing threads, 1 retry (the code has 2; one shows every way a retry can change an answer) |
| `MCPaidRetry` | are the verdicts true of the chain over a faulty network; do retries and exceptions cost the payer more | all fault kinds, an exception of the client included; the 2 retries of the code; no race |
| `MCPaidRace` | can the replay and the race cost more, or accuse wrongly; does the run implement `ExactPayment` | 2 threads, funds for 3 payments, no retries (three attempts per thread multiply the states, and `MCPaidRetry` has them) |
| `MCPaidLost` (violation) | is a settled payment ever reported as refused | 1 retry |
| `MCFaSettle` | does the group decide well against any facilitator, and clear a reconciling one on evidence only | 2 hashes: the same one again, another one, or none; every time of confirmation relative to the sends |
| `MCFaSettleFlow` | is the real facilitator cleared, at the cost of one price | price 2 of a balance of 5, so that an underpayment differs from the price and a second one would be seen; time to 3 |
| `MCCheckCommand` | what is signed, claimed and recorded by check, facilitator, scan and discovery, when offer, RPC and disk change under the command | offers of up to two entries over two safe networks and one unsafe; result sets that reach every verdict and reason; scans of up to 3 targets (one at fault, one lost and one conformant, in every order) |
| `MCCheckExitOne` (violation) | does exit code 1 mean non-conformance, whatever a fetch or a group raises | the same, the check command alone |
| `MCCalibration` | does each probe find its defect and nothing else; is the report the same on a pool | every set of the 9 bugs with and without the marker, sequentially, at prices 0 (where twice the price is the price), 1 (where the least amount is), 2 (half of it is the least underpayment) and 5; two threads with one bug at most, two overtakings (one check late and two checks swapped both occur) |
| `MCPassiveTools` | do the passive checks accuse and find rightly; is the fetcher's budget kept; is a clean diff safe; is every call answered | an honest challenge of each of 12 schemes and namespaces, spoiled by one defect of an entry, one of the answer, one of each, or one in each of two entries; 2 network faults and 1 retry (lost and outlasting statuses both occur); a Bazaar with one flaw or none, 3 listings, 1 listed meanwhile; 11 URLs on 2 hosts (a redirect loop, a redirect to nowhere, a path that is not ASCII and a challenge that cannot be decoded among them), 2 redirects, budgets 4 and 2, so that either budget ends a fetch; 2 reports |
| `MCHostileHeader` (violation) | does a header that cannot be decoded end as a graded check | the same |

Each property's comment says what it means. The ones a reader should start
with: `NoDoubleSettle`, `ServedIsPaid`, `SpendIsBounded`, `ImplementsExactPayment`,
`NoFalseDoubleSpend`, `RebroadcastIsCaught`, `ConformantIsCleared`,
`NothingUnsafeIsSigned`, `ConformanceIsEarned`, `AccusesOnlyTheGuilty`,
`DefectsAreFound`.

What a target of `MCPassiveTools` is guilty of (`Blames`) is written down in
`MCPassiveTools` from the specification each check cites, not from the checks:
that is what these two properties of `PassiveTools` compare the checks with.

**Fairness.** `FairFacSpec` assumes weak fairness of the handler: `serve_forever`
keeps taking connections, and its waits for the node end (the receipt's after
thirty seconds, an RPC call's with the client's timeout). Nothing makes the chain
produce blocks. Nor is there a timeout on reading a request: neither the headers
nor `rfile.read(length)` (`onchain_facilitator.py:328`) has one, so a client that
stops half way blocks the one thread, and everyone, for as long as it likes. No
fairness is assumed of clients; `EveryRequestAnswered` is conditional instead: if
the thread is free of such a client again and again (`[]<>(reading = {})`), every
request that was sent whole, and is not `unreadable`, is answered.
`MCPaymentClient` and `MCPassiveTools` assume that the flow keeps moving: an HTTP
client with a timeout either gets an answer or a fault. An exception that the code
may raise and need not is left out of what is fair (`Proceed`, `Overflows`): that a
run ends never rests on one. In `PassiveTools` only `Work`, the steps of a call
under way, is fair: callers need not call, and sellers need not list.

**Deadlock** is checked everywhere except in `MCFacilitator`, where a bounded
clock and a finite set of requests really leave nothing to do.

## 4. Proofs

| Module | Theorem | For every value of the constants |
|---|---|---|
| `OnchainFacilitatorProofs` | `TokenTypeCorrect`, `NonceGuards` | of the token alone: types, so no overflow; a debit uses up exactly one fresh nonce |
| | `SupplyHeld`, `CreditNeverOverflows` | any finite set of accounts: they hold the supply, and no transfer fails for its credit |
| | `FacTypeCorrect`, `SettlesAtMostOnce`, `ServedOnlyWhenPaid`, `SettlementServesOnce`, `ValidMeansSettleable`, `ServerNonceGuards` | any number of connections, requests and third parties |
| | `FundsAccounted` | the same, if nobody else moves the merchant's account and the merchant does not pay itself: its balance is the price times the settlements that mined |
| `PaymentClientProofs` | `OnePayment`, `PendingInconclusive` | any endpoint, any number of racing threads and retries |
| `PaidFlowProofs` | `AcceptedPaid`, `NotRunNotPaid`, `SpendBounded`, `NoFalseDoubleSpends`, `ProofNeverMissesTransfer` | client, network, server and chain: any faults, threads, retries, prices, balances and blocks |
| | `RunImplementsServer`, `RunImplementsClient` | a run is a behaviour of `FacSpec` and of `ClientSpec`, so the theorems above hold in it |
| | `ImplementsExact` | a run implements `ExactPayment` |
| `FaSettleProofs` | `RebroadcastCaught`, `StillPendingOpen`, `BroadcastUnderpaymentFailed` | any facilitator, any hashes |
| | `GroupIsImplemented` | the group with a facilitator (`PendingSpec`) implements the group alone (`SettleSpec`) |
| | `ConformantCleared`, `EvidenceForClearance` | a reconciling facilitator, whenever its broadcast confirms |
| `FaSettleFlowProofs` | `NoFalseDoubleSettles` | the group on the real facilitator: any faults, any time of each send |
| | `GroupCostsOne` | the same, at any price but one atomic unit |
| | `GroupImplementsServer`, `GroupImplementsGroup` | it is a behaviour of `FacSpec` and of `SettleSpec` |
| `CommandsProofs` | `CheckTypeCorrect`, `OnlySafeNetworks`, `FundsOnTheRpcsChain`, `UpfrontLast`, `ConformanceEarned`, `FailuresStand`, `ReasonsAreCauses` | `check`: any networks, offers of any length, any outcomes of the groups |
| | `CommandsSignSafely`, `CommandsSettleOnTheRpcsChain`, `CommandsEarnConformance` | the other commands: the same, and any number of targets |
| `CalibrationProofs` | `OneDefect`, `FailuresAreFindings` | any price, set of bugs and marker |
| | `SequentialReport` | any number of threads and any order of completion |
| `PassiveToolsProofs` | `CrossFetchBounded` | any web, hosts, listings and budgets |
| | `DiscoveryAccusations` | any Bazaar, catalogue and web, whatever is listed meanwhile |
| | `CleanDiffKeepsVerdict` | any endpoint before and after its change |
| | `NetworkIsNotBlamed` | any endpoint, any lost or foreign answers |
| | `OnlyTheGuiltyAreAccused` | the same, for endpoints whose `guilty` holds what fails with nothing lost |
| | `WithoutFaults` | any endpoint on a network that loses nothing |
| | `EntryDefectsAreFound` | any endpoint whose challenge was seen, whatever was lost afterwards |
| | `EntriesAreJudgedAlone` | a challenge with any number of entries in any order |
| | `EveryStepAdvances` | any endpoint, Bazaar and web: every step of a call leads to its end |

**Token and facilitator.** The token's theorems on types and nonces need only its
type invariant. `SupplyHeld` is about a sum over the accounts, a recursive
definition. The library's induction theorems cannot be used here, so the proof
makes its own from the least element of a set of numbers: `SumsDefined` shows that
the sums of all subsets exist, size by size, and `BySize` that a set of subsets
which holds of one whenever it holds of it without its next element has them all.
`SumChanges` follows (one balance changed by d changes the sum by d), and a
transfer is two such changes, of -v and v, to one account or two. As two balances
are then never more than the supply, the checked addition of `_finalize` is never
what reverts a transfer (`CreditNeverOverflows`).
The facilitator's invariant `FacInv` adds to types what links the handler, the
pool and the chain: `ReceiptsArePast` (a receipt's account nonce is below the
account's count, and a success has its authorization's nonce marked),
`PoolIsNext` (the node holds at most one transaction, with the account's next
nonce), `HandlerIsSettling` (what is being settled pays the merchant the exact
amount, and no answer names the transaction awaited). None of the three safety
properties is inductive alone: `NoDoubleSettle` needs every earlier success to
have marked its nonce, `ServedIsPaid` needs the amount of the request being
settled, and `OneResponsePerSettlement` needs the awaited transaction to be new,
which holds because its account nonce is above every receipt's. `PaysInv` adds
that the set of receipts is finite and that whatever is pooled pays the
merchant, from somebody else; the two hypotheses of `FundsAccounted`, which
`MCFacilitator` assumes of its constants too, are needed. A mint to the
merchant or a transfer out of its account changes the balance, and a payment of
the merchant to itself is a settlement that does not.

**Paid client.** `ClientInv` says what has been sent by each stage of the paid
run: nothing before the payment, the payment alone while it is outstanding, and
that the payment is known to have settled in the replay and the race. `Crash` can
come at any of these stages and only ends the run. Without
the last part a replay could start from a state with a pending first payment,
which no run reaches.

**The whole run.** `PaidInv` is `FacInv`, `ClientInv` and what links the two:

* `WireInv`: every request, pooled transaction, receipt and answer carries one of
  the two authorizations the client signed, with the `validBefore` it signed.
* `SignedInv`: which authorization is signed by which stage, and that the second
  one is signed only after the first was reported as settled.
* `AnswerInv`: what the client takes for accepted, the server has answered as
  settled. With `FacInv` this is a mined transfer.
* `MerchantInv`: the merchant holds one price for each of the two that is paid.
* `VerdictInv`: what each verdict says of the chain, long after the stage that
  wrote it. A run that ended in the net of `run_payment_checks` says nothing of it.

`SpendBounded` then follows by adding two terms, and `NoFalseDoubleSpends` from
the fact that two racing calls accepted would be two answers for one settlement.
`RunImplementsServer` needs the invariant for one thing: that what the client puts
on the wire is in `Requests`, because it was signed before it is sent. `ImplementsExact` maps each authorization to
its fate, unsigned, signed, paid or delivered, which the state shows
(`FatesInOrder`: a delivered one is paid, a paid one signed). A step changes the
fate of one authorization at most: signing belongs to the client, paying to a
block and delivering to the handler, and no step is one of two of these. What does not
change a fate stutters; retries, losses and resends are all of this kind.

**Settle group.** `SettleInv` keeps a finding on a pending first answer from the
step that makes it: which of the two results is decided, and that no later step
decides it again. `PendingInv` adds what a conformant facilitator has done by
each step: that it has broadcast once, has named that transaction and no other,
and has reported a settlement only once it is in a block. `GroupIsImplemented`
carries the theorems on the group over to the group with its facilitator.
`SettleFlowInv` puts `FacInv` and `PaysInv` beside the group: only the two
authorizations the group has signed by this step are on the wire, what is pooled
is one of them that pays the price, nothing is ever pending here, and a success
the group repeats the payment after is an answer of this facilitator. `GroupCostsOne` assumes that the
price is not one atomic unit, for otherwise the "underpayment" is a second
payment of the price (see Divergences).

Both compositions assume of their constants (`PaidAssumption`,
`SettleFlowAssumption`) that the two nonces differ, that no third party uses the
merchant's account (`MerchantAlone`), and that `Requests` contains what the
client can send. The code draws 32 random bytes for a nonce; the merchant's
account is the test deployment's own.

**Commands.** `CheckInv` strengthens the safety of the command with the order in
which it works: no evidence before the passive run, no group that needs an
earlier one without it (`EvidenceStartsEmpty`, `GroupsInOrder`), and record,
journal and exit code only after the verdict they carry (`ClaimsFollowVerdict`,
`RunningHasNoExit`). That the first entry of an offer with a property exists is
a lemma on finite sequences, by the minimum of a set of indices. `ReportInv`
adds that there is no report before the end. `CommandInv` reuses `CheckInv` and
adds what scan's entries say of the results: while none is at fault nothing
found is, and once one claims conformance everything found is judged
(`EntriesTellTheResults`); exit code 0 of a scan follows from it.

**Calibration.** `OneDefect` is what the docstring of `checks/negative.py` claims
of its probes, as arithmetic: at every price at which a payment applies it leaves
one validation unmet, the one it is for. `CalInv` says of a pool that every check
is in the queue, on a thread or collected, exactly once, with the result the
sequential run would have computed. That the sorted list is the sequential one
then rests on counting: with every check collected once, the result that has
`i - 1` others before it is the `i`-th check's.
`FailuresAreFindings` is `OneDefect` put through the target's answer and the
judgement, check by check. Its one hypothesis on the price is that twice of it
is no more than the 10^30 above which the target's `crash_huge` bug shows.

**Passive tools.** `BudgetInv` is the pair of the requests sent and what is left
of the budgets: each is charged before it is sent. `ReportsInv` keeps that a
report's results are statuses of the known checks; that a clean diff keeps the
verdict then follows from what `Regressed` leaves.

*Bazaars.* `AccusesInv` says what a discovery run knows: at a Bazaar without a
flaw, as long as nothing is listed meanwhile, the baseline is still its first page
(`BaseStands`), and the resource being read was reached from its listing by
redirects (`FetchStands`, with `Followed` for the trail of URLs), so that a stale
listing is one whose seller does ask for something else, and what the fetcher
trips over is a place the listing leads to (`TrailLeads`). A check that raises is
an error, which condemns a Bazaar as a failure does, so errors are accusations
here (`Condemning`). The rest is about pages:
that an honest Bazaar's filter, limit and offset are never taken for ignored
unless a listing came in between. A page is a selection from the catalogue.
Filtering a sequence is recursive, and what a recursive definition computes
cannot be proved here, so `Picked` selects by rank: its k-th listing is at the
position with k - 1 selected ones before it. `RanksAreTaken` shows that every
rank has its position.

*Endpoints.* The reference for what a run finds is `Unhindered`: the verdicts of
the same checks on the endpoint's own answers. `NetworkInv` says how far a run may
be from them: an answer is the endpoint's or one of a proxy that outlasted the
retries (`ProbesStand`), and a variant's outcome is the endpoint's or lost
(`OutcomesStand`), with the control among the variants tried. A lost outcome can
only take evidence away, unless it is the control's; a proxy's 429 carries no
challenge, so no check but RS-HS-001 has anything to object to. `NetworksFault` names those two
exceptions, which are divergences (section 5).

`OnlyTheGuiltyAreAccused` needs to know what an endpoint's `guilty` means.
`FailsAreGuilt` says it of an endpoint by itself: what its checks fail with
nothing lost is in `guilty`. This is a statement on the catalogue of endpoints
and on the checks, without runs, retries or faults, and the fault-free behaviours
of `MCPassiveTools` go through all of that run's endpoints. The theorem says that
no run then accuses anybody else. That no defect goes unfound is proved in two
parts that need no such hypothesis: `WithoutFaults`, that a run that lost nothing
gives every check the result of `Unhindered`, and `EntryDefectsAreFound` below.

*Entries.* The catalogue spoils at most two entries. That this is enough is
`EntriesAreJudgedAlone`: each of the twelve checks on entries fails a challenge
exactly when it fails one of the entries alone (`EntryFault` says which), and RS-PR-018
exactly when it fails two of them. `EntryDefectsAreFound` is that of a run:
whatever the network loses, retries or answers, once the challenge was seen the
results of these checks are the defects of the endpoint's entries, no more and no
fewer.

*Termination.* `EveryStepAdvances` is what of `EveryCallAnswers` can be stated
without fairness: every step of a call ends it, takes its run to a later stage,
spends a retry, tries another variant, or goes on to the next of at most
`MaxListings` listings or `MaxRedirects` redirects.

Assumptions are the named `ASSUME`s of the modules, evaluated by TLC in the runs.

**Only model-checked**:

* that the endpoints of `MCPassiveTools` are guilty of what the checks fail
  (`FailsAreGuilt` for that catalogue) and the reverse (`DefectsAreFound`): the
  catalogue is a finite table of defects, which TLC goes through;
* liveness (`EveryRequestAnswered`, `EventuallyReported`, `EveryCallAnswers`),
  which needs fairness and ENABLED.

## 5. Divergences met while modelling

Run by TLC (`findings` of `PROJECT.json`): a lost answer turns a settled payment
into a failed RS-PAY-001 (`active.py:251`); an exception in a fetch or a group
exits with 1 (`cli.py:642`); a header that does not decode ends the passive run
(`probe.py:175`).

Met, read in the code, and not among the runs:

* `active.py:405-417` makes every RS-PAY id an ERROR ("check crashed") whatever
  raises, after the payment as before it. Money may have moved by then, and the
  answers, with them the settlement's hash, are lost. `NotRunMeansNotPaid` is
  about the other skips and errors, which say that no payment was sent;
  `SpendIsBounded` holds after a crash too. One thing that raises is
  `active.py:63`: `float()` of an integer `Retry-After` beyond its range is an
  OverflowError, and only ValueError is caught.
* `onchain_facilitator.py:328` reads a body without a timeout, on the one thread
  there is, and an exception outside `do_POST`'s try drops the connection without
  an answer (`:326`, and an authorization that is no object).
* `probe.py:175` catches what `json.loads` raises on bad JSON and on deep nesting.
  It raises UnicodeDecodeError on bytes that are no UTF-8 and ValueError on an
  integer of more than 4300 digits as well; both end the passive run, a group, a
  visit or DI-003, each in its own way. `runner.py:84` misses the RecursionError
  of a deeply nested `/openapi.json`.
* `checks/discovery.py:746` takes what cannot be fetched for unreachable, but
  neither urljoin's ValueError on a malformed Location (`:255`), nor the
  UnicodeEncodeError of a path that is not ASCII (`:298`), nor what build_probe
  raises. DI-003 is then an ERROR (`:859`), which gates (`report.py:59-66`): a
  flawless Bazaar is NOT CONFORMANT because of one seller.
  `DiscoveryAccusesRightly` says so. A catalogue nested too deeply, and a
  `maxTimeoutSeconds` or `lastUpdated` beyond the range of a float
  (`math.isfinite`), do the same to the checks that read it.
* `checks/facilitator.py:788` passes FA-SET-003 on any repeat that is not a
  success, a pending one included, as the catalogue's "second call fails" has it.
* `checks/payment_required.py:527` compares two answers value by value, and NaN is
  no value's equal: two identical answers with a NaN in `accepts` fail RS-PR-012.
* `onchain_facilitator.py:274-289` answers a reverted or timed-out broadcast with
  an empty `transaction`; `models.py:99` reserves that for "no transaction was
  broadcast".
* `checks/facilitator.py:609` says an absent endpoint must not be graded; only
  the first of the four sends looks (688), the others drop the status.
* `checks/facilitator.py:811` builds the underpayment with amount 1, which is
  the price when the price is one atomic unit. The same holds of RS-NEG-013
  (`checks/negative.py:283`), FA-VER-002 and FA-ERR-001; only RS-NEG-005 skips at
  that price. `FailuresNameTheDefect` exempts these three there: with a funded
  signer, or a server that reads no balances, they fail a correct server. It
  exempts RS-NEG-006 at a price of zero for the same reason (`negative.py:388`
  sends twice the price; `OneDefect` would be false of it). RS-PR-014 reports
  such a price, which does not keep the active group from running. At a price of
  one the settle group pays twice; `GroupCostsOnePrice` exempts it.
* `checks/negative.py:3` says each check breaks exactly one thing. Three break
  none in a corner: RS-NEG-006 at a price of zero, RS-NEG-007 redirects to
  an address that may already be the merchant's, and RS-SEC-010 signs for
  `eip155:1`, the server's own chain if it is that one.
* `cli.py:669` writes the record once all groups have returned, so a run that
  paid and then crashed in the timing group leaves none.
* `cli.py:196` says `_make_signer` returns None without eth-account; the guarded
  import makes it a RuntimeError that the except clause does not catch.
* `cli.py:344` says of scan "Exit 1 if any reachable target is non-conformant,
  else 0". A target whose results are inconclusive (`/verify` absent) exits with
  1 as well, and a scan that reaches nobody with 2 (`cli.py:407-410`).
* `cli.py:394` catches only transport errors of a visit. An offer that turns
  unsafe after the preflight ends a scan with a traceback, and the entries of
  the targets already judged are lost; `facilitator` catches the same exception.
  A resource that is down makes every target "unreachable".
* `cli.py:756` reports a facilitator that dies after it was paid as unreachable,
  exit code 2, without a report of what was settled.
* `checks/discovery.py:63` raises ValueError for an `--allow-cross-fetch` entry
  that does not parse; `discovery` catches transport errors only, and exits with
  1, the code of a finding.
* `checks/path_variants.py:44` promises a skip, "rather than inventing a critical
  finding", where a control request shows that any path is served. When that
  request is lost the endpoint is failed for a bypass; `AccusesOnlyTheGuilty`
  exempts it. When all variants are lost RS-SEC-012 passes on no evidence.
* `runner.py:53` returns a status that outlasts the retries as the endpoint's
  own: an endpoint behind a rate limiter fails RS-HS-001 (exempted as well).
* `checks/payment_required.py:1085` leaves a `paymentFlow` the protocol does not
  define to RS-PR-025 ("not a binding mismatch"). A list or an object raises in
  that very line, and RS-PR-027 reports an error of the suite, which gates.
* A well-formed v1 challenge fails RS-PR-006 and RS-PR-007, which read v2 fields
  of whatever parses; a 503 that carries a challenge can be conformant, and a 200
  that carries one still has its variants probed.
* `diff.py` calls a check that goes from fail to error "still failing". For a
  minor check the first does not gate and the second does, so such a diff would
  be clean over a report that has become non-conformant. `CleanDiffKeepsTheVerdict`
  holds of `check_endpoint`'s reports because no minor check in them can be an
  error: only RS-PR-027 can (`Report` in `PassiveToolsProofs`), and it gates. A
  minor check that raises would break it. Reports of `discovery` (DI-002 and
  DI-003 are minor and can raise) are not compared in the model.

## 6. Not modelled

* `checks/timing.py`: the statistics are arithmetic over measured time; that the
  group may run, skip or crash is in `CheckCommand`.
* `checks/pqc.py`, `pqc_runner.py`: stateless checks of one answer of an external
  verifier, over byte lengths and encodings.
* Solana (`svm*.py`, `checks/svm_facilitator.py`): the layout of a transaction,
  instruction by instruction, and an offline harness; no state and no order.
* Renderings (Markdown, SARIF, developer report), scan's ranking, redaction, the
  error registry, `jp402.py`'s data, `explain` and `version`: text and data.
* Maintenance scripts of `tools/`.

What is not proved is liveness, and with it fairness and ENABLED:
`EveryStepAdvances` stops where the argument would need them. Every invariant of
the passing runs but `DefectsAreFound`, and every action property, is stated by a
theorem.

What some properties leave out on purpose, because the code does it: `NetworksFault`
(the rate limiter of RS-HS-001 and the lost control request of RS-SEC-012) in
`AccusesOnlyTheGuilty`; a listing that came between two pages, for DI-002, in
`DiscoveryAccusesRightly`; failed RPC reads in `ProofNeverMisses`; the price of
one atomic unit in `GroupCostsOnePrice` and, with zero, in `FailuresNameTheDefect`.
Each is a divergence above or a hazard without a property in `PROJECT.json`.
