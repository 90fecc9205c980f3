--------------------------- MODULE FaSettleProofs ---------------------------
(***************************************************************************)
(* The FA-SET group: what it finds against any facilitator at all, and what *)
(* it must not find against a conformant one.                              *)
(***************************************************************************)
EXTENDS FaSettlePending, TLAPS

\* What FA-SET-001 and FA-SET-003 say so far.
First == results["FA-SET-001"]
NoRepeat == results["FA-SET-003"]

\* The retry named another transaction than the pending answer did.
Rebroadcast ==
    /\ firstPending # NoAnswer /\ firstPending.tx # NoTx
    /\ r1.tx \notin {NoTx, firstPending.tx}

\* The retry did not settle the matter either.
StillPending ==
    /\ firstPending # NoAnswer /\ r1.kind = "pending"
    /\ firstPending.tx = NoTx \/ r1.tx = firstPending.tx

\* The findings on a pending first answer, from the step that makes them to the
\* end; "second" is reached only without one.
SettleInv ==
    /\ SettleTypeOK
    /\ step \in {"start", "first"} => firstPending = NoAnswer
    /\ step \in {"start", "first", "retry"} => NoRepeat = "none"
    /\ step = "retry" => firstPending.kind = "pending"
    /\ step = "second" => NoRepeat = "none" /\ r1.kind = "success"
    /\ step \in {"grade", "grade003", "second", "cheap", "done"} /\ Rebroadcast =>
          NoRepeat = "FAIL"
    /\ step \in {"grade", "grade003"} /\ StillPending => NoRepeat = "none"
    /\ step \in {"grade003", "cheap", "done"} /\ StillPending => First = "PENDING"
    /\ step \in {"cheap", "done"} /\ StillPending => NoRepeat = "PENDING"

-----------------------------------------------------------------------------
LEMMA NoAnswerIsNone == NoAnswer.kind = "none" /\ NoAnswer.tx = NoTx
BY DEF NoAnswer

LEMMA SettleInitInv == SettleInit => SettleInv
BY DEF SettleInit, SettleInv, SettleTypeOK, Steps, SettleChecks, NoRepeat, Rebroadcast,
       StillPending

LEMMA SkipAllKeeps ==
    ASSUME SettleInv, step \in {"start", "first"}, NEW result \in {"SKIP", "ABSENT"},
           SkipAll(result)
    PROVE  SettleInv'
BY DEF SettleInv, SettleTypeOK, SkipAll, Steps, SettleResults, Rebroadcast, StillPending

LEMMA StartKeeps ==
    ASSUME SettleInv, NEW allowed, NEW sourced, NEW signable,
           StartSettle(allowed, sourced, signable)
    PROVE  SettleInv'
<1>1. CASE SkipAll("SKIP")
  BY <1>1, SkipAllKeeps DEF StartSettle
<1>2. CASE /\ step' = IF signable THEN "first" ELSE "aborted"
           /\ UNCHANGED <<inFlight, r1, firstPending, answers, results>>
  BY <1>2 DEF StartSettle, SettleInv, SettleTypeOK, Steps, Sends, NoRepeat
<1>3. QED  BY <1>1, <1>2 DEF StartSettle

LEMMA WireKeeps ==
    ASSUME SettleInv, SendSettle \/ SettleFault
    PROVE  SettleInv'
<1>1. CASE SendSettle
  BY <1>1 DEF SendSettle, SettleInv, SettleTypeOK, First, NoRepeat, Rebroadcast, StillPending
<1>2. CASE SettleFault
  BY <1>2 DEF SettleFault, SettleInv, SettleTypeOK, Steps
<1>3. QED  BY <1>1, <1>2

LEMMA RecordKeeps ==
    ASSUME answers \subseteq Answer, NEW a \in Answer, Record(a)
    PROVE  answers' \subseteq Answer
BY DEF Record

LEMMA ReceiveFirstKeeps ==
    ASSUME SettleInv, NEW a \in Answer, ReceiveFirst(a)
    PROVE  SettleInv'
<1>1. CASE SkipAll("ABSENT")
  BY <1>1, SkipAllKeeps DEF ReceiveFirst
<1>2. CASE a.kind # "absent" /\ r1' = a /\ Record(a) /\ inFlight' = FALSE /\ UNCHANGED results
  <2>1. answers' \subseteq Answer
    BY <1>2, RecordKeeps DEF SettleInv, SettleTypeOK
  <2>2. CASE a.kind = "pending" /\ step' = "retry" /\ firstPending' = a
    BY <1>2, <2>1, <2>2 DEF ReceiveFirst, SettleInv, SettleTypeOK, Steps, Sends, NoRepeat
  <2>3. CASE a.kind # "pending" /\ step' = "grade" /\ UNCHANGED firstPending
    BY <1>2, <2>1, <2>3
       DEF ReceiveFirst, SettleInv, SettleTypeOK, Steps, Rebroadcast, StillPending
  <2>4. QED  BY <1>2, <2>2, <2>3, SkipAllKeeps DEF ReceiveFirst
<1>3. QED  BY <1>1, <1>2 DEF ReceiveFirst

LEMMA ReceiveRetryKeeps ==
    ASSUME SettleInv, NEW a \in Answer, ReceiveRetry(a)
    PROVE  SettleInv'
<1> DEFINE v == RetryVerdict(a)
<1>1. v \in SettleResults \cup {"none"}
  BY DEF RetryVerdict, SettleResults
<1>2. firstPending.tx # NoTx /\ a.tx \notin {NoTx, firstPending.tx} => v = "FAIL"
  BY DEF RetryVerdict
<1>3. a.kind = "pending" /\ (firstPending.tx = NoTx \/ a.tx = firstPending.tx) => v = "none"
  BY DEF RetryVerdict, Parsed
<1>4. /\ step' = "grade" /\ r1' = a /\ inFlight' = FALSE /\ UNCHANGED firstPending
      /\ results' = [results EXCEPT !["FA-SET-003"] = v]
  BY DEF ReceiveRetry
<1>5. answers' \subseteq Answer
  BY RecordKeeps DEF ReceiveRetry, SettleInv, SettleTypeOK
<1> HIDE DEF v
<1>6. results' \in [SettleChecks -> SettleResults \cup {"none"}] /\ NoRepeat' = v
  BY <1>1, <1>4 DEF SettleInv, SettleTypeOK, SettleChecks, NoRepeat
<1>7. SettleTypeOK'
  BY <1>4, <1>5, <1>6 DEF SettleInv, SettleTypeOK, Steps
<1>8. QED
  BY <1>2, <1>3, <1>4, <1>6, <1>7 DEF SettleInv, Rebroadcast, StillPending

LEMMA GradeFirstKeeps ==
    ASSUME SettleInv, NEW rpc, NEW proof \in {"PASS", "FAIL", "SKIP"}, GradeFirst(rpc, proof)
    PROVE  SettleInv'
<1> DEFINE v == FirstVerdict(rpc, proof)
<1>1. v \in SettleResults /\ (r1.kind = "pending" => v = "PENDING")
  BY DEF FirstVerdict, SettleResults, Parsed
<1>2. /\ step = "grade" /\ step' = "grade003"
      /\ results' = [results EXCEPT !["FA-SET-001"] = v]
      /\ UNCHANGED <<inFlight, r1, firstPending, answers>>
  BY DEF GradeFirst
<1> HIDE DEF v
<1>3. /\ results' \in [SettleChecks -> SettleResults \cup {"none"}]
      /\ First' = v /\ NoRepeat' = NoRepeat
  BY <1>1, <1>2 DEF SettleInv, SettleTypeOK, SettleChecks, First, NoRepeat
<1>4. QED
  BY <1>1, <1>2, <1>3 DEF SettleInv, SettleTypeOK, Steps, Rebroadcast, StillPending

LEMMA GradeNoRepeatKeeps == ASSUME SettleInv, GradeNoRepeat PROVE SettleInv'
<1>1. step = "grade003" /\ UNCHANGED <<inFlight, r1, firstPending, answers>>
  BY DEF GradeNoRepeat
<1>2. CASE NoRepeat # "none" /\ step' = "cheap" /\ UNCHANGED results
  BY <1>1, <1>2 DEF SettleInv, SettleTypeOK, Steps, Sends, Rebroadcast, StillPending,
                    First, NoRepeat
<1>3. CASE NoRepeat = "none" /\ r1.kind = "success" /\ step' = "second" /\ UNCHANGED results
  BY <1>1, <1>3 DEF SettleInv, SettleTypeOK, Steps, Sends, Rebroadcast, NoRepeat
<1>4. ASSUME NoRepeat = "none", r1.kind # "success", step' = "cheap",
             results' = [results EXCEPT !["FA-SET-003"] =
                           IF r1.kind = "pending" THEN "PENDING" ELSE "SKIP"]
      PROVE  SettleInv'
  <2> DEFINE v == IF r1.kind = "pending" THEN "PENDING" ELSE "SKIP"
  <2>1. v \in SettleResults /\ (r1.kind = "pending" => v = "PENDING")
    BY DEF SettleResults
  <2>2. results' = [results EXCEPT !["FA-SET-003"] = v]
    BY <1>4
  <2> HIDE DEF v
  <2>3. /\ results' \in [SettleChecks -> SettleResults \cup {"none"}]
        /\ First' = First /\ NoRepeat' = v
    BY <2>1, <2>2 DEF SettleInv, SettleTypeOK, SettleChecks, First, NoRepeat
  <2>4. ~Rebroadcast
    BY <1>1, <1>4 DEF SettleInv
  <2>5. QED
    BY <1>1, <1>4, <2>1, <2>3, <2>4
       DEF SettleInv, SettleTypeOK, Steps, Sends, Rebroadcast, StillPending
<1>5. QED  BY <1>2, <1>3, <1>4 DEF GradeNoRepeat, NoRepeat

LEMMA ReceiveSecondKeeps ==
    ASSUME SettleInv, NEW a \in Answer, ReceiveSecond(a)
    PROVE  SettleInv'
<1> DEFINE v == RepeatVerdict(a)
<1>1. v \in SettleResults
  BY DEF RepeatVerdict, SettleResults
<1>2. /\ step = "second" /\ step' = "cheap" /\ inFlight' = FALSE
      /\ UNCHANGED <<r1, firstPending>>
      /\ results' = [results EXCEPT !["FA-SET-003"] = v]
  BY DEF ReceiveSecond
<1>3. answers' \subseteq Answer
  BY RecordKeeps DEF ReceiveSecond, SettleInv, SettleTypeOK
<1> HIDE DEF v
<1>4. results' \in [SettleChecks -> SettleResults \cup {"none"}]
  BY <1>1, <1>2 DEF SettleInv, SettleTypeOK
<1>5. ~Rebroadcast /\ ~StillPending
  BY <1>2 DEF SettleInv, StillPending
<1>6. QED
  BY <1>2, <1>3, <1>4, <1>5
     DEF SettleInv, SettleTypeOK, Steps, Sends, Rebroadcast, StillPending

LEMMA CheapVerdictsAreResults ==
    ASSUME NEW a, NEW seen
    PROVE  CheapVerdict(a) \in SettleResults /\ PendingVerdict(seen) \in SettleResults
BY DEF CheapVerdict, PendingVerdict, SettleResults

LEMMA ReceiveCheapKeeps ==
    ASSUME SettleInv, NEW a \in Answer, ReceiveCheap(a)
    PROVE  SettleInv'
<1> DEFINE v == CheapVerdict(a)
           w == PendingVerdict(answers')
<1>1. v \in SettleResults /\ w \in SettleResults
  BY CheapVerdictsAreResults
<1>2. /\ step = "cheap" /\ step' = "done" /\ inFlight' = FALSE
      /\ UNCHANGED <<r1, firstPending>>
      /\ results' = [results EXCEPT !["FA-SET-002"] = v, !["FA-SET-004"] = w]
  BY DEF ReceiveCheap
<1>3. answers' \subseteq Answer
  BY RecordKeeps DEF ReceiveCheap, SettleInv, SettleTypeOK
<1> HIDE DEF v, w
<1>4. /\ results' \in [SettleChecks -> SettleResults \cup {"none"}]
      /\ First' = First /\ NoRepeat' = NoRepeat
  BY <1>1, <1>2 DEF SettleInv, SettleTypeOK, SettleChecks, First, NoRepeat
<1>5. QED
  BY <1>2, <1>3, <1>4 DEF SettleInv, SettleTypeOK, Steps, Rebroadcast, StillPending

LEMMA SettleStep == SettleInv /\ [SettleNext]_settleVars => SettleInv'
<1> SUFFICES ASSUME SettleInv, [SettleNext]_settleVars PROVE SettleInv'
  OBVIOUS
<1>1. CASE UNCHANGED settleVars
  BY <1>1 DEF settleVars, SettleInv, SettleTypeOK, First, NoRepeat, Rebroadcast, StillPending
<1>2. CASE \E allowed, sourced, signable \in BOOLEAN : StartSettle(allowed, sourced, signable)
  BY <1>2, StartKeeps
<1>3. CASE SendSettle \/ SettleFault
  BY <1>3, WireKeeps
<1>4. CASE \E a \in Answer : ReceiveSettle(a)
  BY <1>4, ReceiveFirstKeeps, ReceiveRetryKeeps, ReceiveSecondKeeps, ReceiveCheapKeeps
     DEF ReceiveSettle
<1>5. CASE \E rpc \in BOOLEAN, proof \in {"PASS", "FAIL", "SKIP"} : GradeFirst(rpc, proof)
  BY <1>5, GradeFirstKeeps
<1>6. CASE GradeNoRepeat
  BY <1>6, GradeNoRepeatKeeps
<1>7. QED  BY <1>1, <1>2, <1>3, <1>4, <1>5, <1>6 DEF SettleNext

THEOREM SettleInvariant == SettleSpec => []SettleInv
BY SettleInitInv, SettleStep, PTL DEF SettleSpec

\* Whatever the facilitator answers, a retry that names another transaction is a
\* failure of FA-SET-003 that no later answer takes back (RebroadcastIsCaught).
THEOREM RebroadcastCaught == SettleSpec => []RebroadcastIsCaught
<1>1. SettleInv => RebroadcastIsCaught
  BY DEF SettleInv, RebroadcastIsCaught, Rebroadcast, NoRepeat
<1>2. QED  BY <1>1, SettleInvariant, PTL

\* Whatever the facilitator answers, a payment still pending after its retry is
\* neither passed nor failed (StillPendingIsOpen).
THEOREM StillPendingOpen == SettleSpec => []StillPendingIsOpen
<1>1. SettleInv => StillPendingIsOpen
  BY DEF SettleInv, StillPendingIsOpen, StillPending, First, NoRepeat
<1>2. QED  BY <1>1, SettleInvariant, PTL

\* Only the last answer of the group is received at "cheap".
LEMMA CheapAnswers ==
    ASSUME SettleInv, SettleNext, step = "cheap", NEW a \in answers' \ answers
    PROVE  ReceiveCheap(a)
<1>1. ASSUME NEW b \in Answer, ReceiveSettle(b)
      PROVE  ReceiveCheap(a)
  <2>1. ReceiveCheap(b)
    BY <1>1 DEF ReceiveSettle, ReceiveFirst, ReceiveRetry, ReceiveSecond
  <2>2. a = b
    BY <2>1 DEF ReceiveCheap, Record
  <2>3. QED  BY <2>1, <2>2
<1>2. CASE \E allowed, sourced, signable \in BOOLEAN : StartSettle(allowed, sourced, signable)
  BY <1>2 DEF StartSettle
<1>3. CASE SendSettle \/ SettleFault
  BY <1>3 DEF SendSettle, SettleFault
<1>4. CASE \/ \E rpc \in BOOLEAN, proof \in {"PASS", "FAIL", "SKIP"} : GradeFirst(rpc, proof)
           \/ GradeNoRepeat
  BY <1>4 DEF GradeFirst, GradeNoRepeat
<1>5. QED  BY <1>1, <1>2, <1>3, <1>4 DEF SettleNext

\* Whatever the facilitator answers, an underpayment it broadcast, or left
\* pending, fails FA-SET-002 or FA-SET-004 (BroadcastUnderpaymentFails).
THEOREM BroadcastUnderpaymentFailed == SettleSpec => BroadcastUnderpaymentFails
<1> DEFINE Fails == \A a \in answers' \ answers :
              step = "cheap" /\ (a.tx # NoTx \/ a.kind = "pending") =>
                 "FAIL" \in {results'["FA-SET-002"], results'["FA-SET-004"]}
<1>1. SettleInv /\ [SettleNext]_settleVars => [Fails]_settleVars
  <2> SUFFICES ASSUME SettleInv, SettleNext, NEW a \in answers' \ answers,
                      step = "cheap", a.tx # NoTx \/ a.kind = "pending"
               PROVE  "FAIL" \in {results'["FA-SET-002"], results'["FA-SET-004"]}
    BY DEF settleVars
  <2> DEFINE v == CheapVerdict(a)
             w == PendingVerdict(answers')
  <2>1. ReceiveCheap(a)
    BY CheapAnswers
  <2>2. v = "FAIL" \/ w = "FAIL"
    <3>1. CASE a.tx # NoTx
      BY <3>1 DEF CheapVerdict
    <3>2. CASE a.kind = "pending" /\ a.tx = NoTx
      BY <3>2 DEF PendingVerdict
    <3>3. QED  BY <3>1, <3>2
  <2>3. results' = [results EXCEPT !["FA-SET-002"] = v, !["FA-SET-004"] = w]
    BY <2>1 DEF ReceiveCheap
  <2> HIDE DEF v, w
  <2>4. QED
    BY <2>2, <2>3 DEF SettleInv, SettleTypeOK, SettleChecks
<1>2. QED  BY <1>1, SettleInvariant, PTL DEF SettleSpec, BroadcastUnderpaymentFails

-----------------------------------------------------------------------------
(* The conformant facilitator.                                             *)

Sent == broadcast # "none" /\ hash \in TxIds

\* What a conformant facilitator has done and said by each step of the group.
Conforms ==
    /\ told => broadcast = "confirmed"
    /\ broadcast # "none" => hash \in TxIds
    /\ \A a \in answers : a.kind = "pending" => a.tx # NoTx
    /\ \A c \in SettleChecks : results[c] # "FAIL"
    /\ NoRepeat = "PASS" => told
    /\ step \in {"start", "first", "retry"} => ~told /\ NoRepeat = "none"
    /\ firstPending # NoAnswer => Sent /\ firstPending.tx = hash
    /\ step = "retry" => firstPending # NoAnswer
    /\ step \in {"grade", "grade003", "second"} =>
          /\ Sent /\ r1.tx = hash /\ r1.network
          /\ r1.kind \in {"success", "pending"}
          /\ r1.kind = "success" => told

PendingInv ==
    /\ SettleInv
    /\ broadcast \in {"none", "pending", "confirmed"}
    /\ told \in BOOLEAN
    /\ conformant => Conforms

LEMMA PendingInitInv == PendingInit => PendingInv
BY SettleInitInv DEF PendingInit, PendingInv, Conforms, SettleInit, SettleChecks, NoRepeat

\* The answers of a conformant facilitator are answers.
LEMMA AnswersAreAnswers ==
    ASSUME PendingInv, inFlight, conformant /\ step # "cheap" => broadcast # "none"
    PROVE  Answers \subseteq Answer
<1>1. Refuses \in Answer
  BY DEF Refuses, Answer
<1>2. CASE conformant /\ step # "cheap"
  <2>1. hash \in TxIds
    BY <1>2 DEF PendingInv, Conforms
  <2>2. Succeeds \in Answer /\ Pends \in Answer /\ RefusesNaming \in Answer
    BY <2>1 DEF Succeeds, Pends, Refuses, RefusesNaming, Answer
  <2>3. QED  BY <1>1, <2>2 DEF Answers
<1>3. QED  BY <1>1, <1>2 DEF Answers

\* Each step of the group and its facilitator is a step of the group.
LEMMA GroupStep == PendingInv /\ [PendingNext]_pendingVars => [SettleNext]_settleVars
<1> SUFFICES ASSUME PendingInv, PendingNext PROVE [SettleNext]_settleVars
  BY DEF pendingVars
<1>1. CASE Group
  <2>1. Proofs \subseteq {"PASS", "FAIL", "SKIP"}
    BY DEF Proofs
  <2>2. QED  BY <1>1, <2>1 DEF Group, SettleNext
<1>2. CASE Reply
  BY <1>2, AnswersAreAnswers DEF Reply, SettleNext
<1>3. CASE Broadcast \/ Confirm \/ PendingEnded
  BY <1>3 DEF Broadcast, Confirm, PendingEnded, pendingVars
<1>4. QED  BY <1>1, <1>2, <1>3 DEF PendingNext

\* What the chain does concerns a broadcast, and changes none that was made.
LEMMA ChainKeeps ==
    ASSUME Conforms, UNCHANGED <<settleVars, told>>,
           \/ broadcast = "none" /\ broadcast' = "pending" /\ hash' \in TxIds
           \/ broadcast = "pending" /\ broadcast' = "confirmed" /\ UNCHANGED hash
    PROVE  Conforms'
BY DEF Conforms, settleVars, Sent, NoRepeat

LEMMA GroupConforms ==
    ASSUME PendingInv, conformant, Group
    PROVE  Conforms'
<1> USE DEF PendingInv
<1>1. UNCHANGED chainVars /\ Conforms /\ results \in [SettleChecks -> SettleResults \cup {"none"}]
  BY DEF Group, SettleInv, SettleTypeOK
<1>2. ASSUME NEW allowed, NEW sourced, NEW signable, StartSettle(allowed, sourced, signable)
      PROVE  Conforms'
  BY <1>1, <1>2 DEF StartSettle, SkipAll, Conforms, chainVars, Sent, NoRepeat, SettleChecks
<1>3. CASE SendSettle \/ SettleFault
  BY <1>1, <1>3 DEF SendSettle, SettleFault, Conforms, chainVars, Sent, NoRepeat
<1>4. ASSUME NEW rpc, NEW proof \in Proofs, GradeFirst(rpc, proof)
      PROVE  Conforms'
  <2> DEFINE v == FirstVerdict(rpc, proof)
  <2>1. v # "FAIL"
    BY <1>1, <1>4 DEF FirstVerdict, GradeFirst, Conforms, Proofs, Parsed
  <2>2. /\ step = "grade" /\ step' = "grade003"
        /\ results' = [results EXCEPT !["FA-SET-001"] = v]
        /\ UNCHANGED <<inFlight, r1, firstPending, answers>>
    BY <1>4 DEF GradeFirst
  <2> HIDE DEF v
  <2>3. NoRepeat' = NoRepeat /\ \A c \in SettleChecks : results'[c] # "FAIL"
    BY <1>1, <2>1, <2>2 DEF NoRepeat, Conforms, SettleChecks
  <2>4. QED  BY <1>1, <2>2, <2>3 DEF Conforms, chainVars, Sent
<1>5. CASE GradeNoRepeat
  <2>1. step = "grade003" /\ UNCHANGED <<inFlight, r1, firstPending, answers>>
    BY <1>5 DEF GradeNoRepeat
  <2>2. CASE UNCHANGED results /\ step' \in {"cheap", "second"}
    BY <1>1, <2>1, <2>2 DEF Conforms, chainVars, Sent, NoRepeat
  <2>3. CASE /\ step' = "cheap"
             /\ results' = [results EXCEPT !["FA-SET-003"] =
                               IF r1.kind = "pending" THEN "PENDING" ELSE "SKIP"]
    <3>1. NoRepeat' \in {"PENDING", "SKIP"} /\ \A c \in SettleChecks : results'[c] # "FAIL"
      BY <1>1, <2>3 DEF NoRepeat, Conforms, SettleChecks
    <3>2. QED  BY <1>1, <2>1, <2>3, <3>1 DEF Conforms, chainVars, Sent
  <2>4. QED  BY <1>5, <2>2, <2>3 DEF GradeNoRepeat
<1>6. QED  BY <1>2, <1>3, <1>4, <1>5 DEF Group

LEMMA FirstConforms ==
    ASSUME PendingInv, conformant, broadcast # "none", UNCHANGED <<conformant, broadcast, hash>>,
           NEW a \in Answers, ReceiveFirst(a), told' = (told \/ a = Succeeds)
    PROVE  Conforms'
<1> USE DEF PendingInv
<1>1. Sent /\ ~told /\ step = "first"
  BY DEF Conforms, Sent, ReceiveFirst
<1>2. \/ broadcast = "pending" /\ a = Pends
      \/ broadcast = "confirmed" /\ a = Succeeds
  BY <1>1 DEF Answers
<1>3. /\ a.kind \in {"pending", "success"} /\ a.tx = hash /\ a.network
      /\ (a = Succeeds) <=> (a.kind = "success")
      /\ a.kind = "success" => broadcast = "confirmed"
  BY <1>2 DEF Pends, Succeeds
<1>4. /\ a # NoAnswer /\ hash # NoTx
  BY <1>1, <1>3, SettleAssumption, NoAnswerIsNone DEF Sent
<1>5. /\ r1' = a /\ answers' = answers \cup {a} /\ UNCHANGED results
      /\ IF a.kind = "pending" THEN step' = "retry" /\ firstPending' = a
                               ELSE step' = "grade" /\ UNCHANGED firstPending
  BY <1>3 DEF ReceiveFirst, Record, Parsed
<1>6. (told' <=> a.kind = "success") /\ (told' => broadcast' = "confirmed")
  BY <1>1, <1>3
<1>7. Sent' /\ hash' = hash
  BY <1>1 DEF Sent
<1>8. \A b \in answers' : b.kind = "pending" => b.tx # NoTx
  BY <1>3, <1>4, <1>5 DEF Conforms
<1>9. CASE a.kind = "pending"
  BY <1>1, <1>3, <1>4, <1>5, <1>6, <1>7, <1>8, <1>9 DEF Conforms, NoRepeat
<1>10. CASE a.kind = "success"
  BY <1>1, <1>3, <1>4, <1>5, <1>6, <1>7, <1>8, <1>10 DEF Conforms, NoRepeat
<1>11. QED  BY <1>3, <1>9, <1>10

LEMMA RetryConforms ==
    ASSUME PendingInv, conformant, broadcast # "none", UNCHANGED <<conformant, broadcast, hash>>,
           NEW a \in Answers, ReceiveRetry(a), told' = (told \/ a = Succeeds)
    PROVE  Conforms'
<1> USE DEF PendingInv
<1>1. Sent /\ ~told /\ step = "retry" /\ firstPending.tx = hash
  BY DEF Conforms, Sent, ReceiveRetry
<1>2. \/ broadcast = "pending" /\ a = Pends
      \/ broadcast = "confirmed" /\ a = Succeeds
  BY <1>1 DEF Answers
<1>3. /\ a.kind \in {"pending", "success"} /\ a.tx = hash /\ a.network
      /\ (a = Succeeds) <=> (a.kind = "success")
      /\ a.kind = "success" => broadcast = "confirmed"
  BY <1>2 DEF Pends, Succeeds
<1>4. hash # NoTx
  BY <1>1, SettleAssumption DEF Sent
<1>5. RetryVerdict(a) = "none"
  BY <1>1, <1>3 DEF RetryVerdict, Parsed
<1>6. /\ r1' = a /\ answers' = answers \cup {a} /\ UNCHANGED firstPending
      /\ step' = "grade" /\ results' = [results EXCEPT !["FA-SET-003"] = "none"]
  BY <1>3, <1>5 DEF ReceiveRetry, Record, Parsed
<1>7. NoRepeat' = "none" /\ \A c \in SettleChecks : results'[c] # "FAIL"
  BY <1>6 DEF NoRepeat, Conforms, SettleChecks, SettleInv, SettleTypeOK
<1>8. (told' <=> a.kind = "success") /\ (told' => broadcast' = "confirmed")
  BY <1>1, <1>3
<1>9. Sent' /\ hash' = hash
  BY <1>1 DEF Sent
<1>10. \A b \in answers' : b.kind = "pending" => b.tx # NoTx
  BY <1>3, <1>4, <1>6 DEF Conforms
<1>11. QED
  BY <1>1, <1>3, <1>6, <1>7, <1>8, <1>9, <1>10 DEF Conforms

LEMMA SecondConforms ==
    ASSUME PendingInv, conformant, broadcast # "none", UNCHANGED <<conformant, broadcast, hash>>,
           NEW a \in Answers, ReceiveSecond(a), told' = (told \/ a = Succeeds)
    PROVE  Conforms'
<1> USE DEF PendingInv
<1>1. Sent /\ told /\ broadcast = "confirmed" /\ step = "second" /\ r1.tx = hash
  BY DEF Conforms, SettleInv, ReceiveSecond
<1>2. hash # NoTx
  BY <1>1, SettleAssumption DEF Sent
<1>3. a \in {Refuses, RefusesNaming} \/ (a = Succeeds /\ firstPending # NoAnswer)
  BY <1>1 DEF Answers
<1>4. /\ a.kind \in {"failed", "success"}
      /\ a.kind = "success" => firstPending # NoAnswer /\ a.tx = hash
  BY <1>3 DEF Refuses, RefusesNaming, Succeeds
<1>5. RepeatVerdict(a) = "PASS"
  BY <1>1, <1>2, <1>4 DEF RepeatVerdict, Parsed, Conforms
<1>6. /\ UNCHANGED <<r1, firstPending>> /\ answers' = answers \cup {a}
      /\ step' = "cheap" /\ results' = [results EXCEPT !["FA-SET-003"] = "PASS"]
  BY <1>4, <1>5 DEF ReceiveSecond, Record, Parsed
<1>7. \A c \in SettleChecks : results'[c] # "FAIL"
  BY <1>6 DEF Conforms, SettleChecks, SettleInv, SettleTypeOK
<1>8. QED
  BY <1>1, <1>4, <1>6, <1>7 DEF Conforms, Sent

LEMMA CheapConforms ==
    ASSUME PendingInv, conformant, UNCHANGED <<conformant, broadcast, hash>>,
           NEW a \in Answers, ReceiveCheap(a), told' = (told \/ a = Succeeds)
    PROVE  Conforms'
<1> USE DEF PendingInv
<1>1. step = "cheap" /\ a = Refuses
  BY DEF Answers, ReceiveCheap
<1>2. a.kind = "failed" /\ a.tx = NoTx
  BY <1>1 DEF Refuses
<1>3. a # Succeeds
  BY <1>2 DEF Succeeds
<1>4. answers' = answers \cup {a}
  BY <1>2 DEF ReceiveCheap, Record, Parsed
<1>5. CheapVerdict(a) = "PASS" /\ PendingVerdict(answers') # "FAIL"
  BY <1>2, <1>4 DEF CheapVerdict, PendingVerdict, Conforms
<1> DEFINE w == PendingVerdict(answers')
<1>6. /\ UNCHANGED <<r1, firstPending>> /\ step' = "done"
      /\ results' = [results EXCEPT !["FA-SET-002"] = "PASS", !["FA-SET-004"] = w]
  BY <1>5 DEF ReceiveCheap
<1>7. w # "FAIL"
  BY <1>5
<1> HIDE DEF w
<1>8. NoRepeat' = NoRepeat /\ \A c \in SettleChecks : results'[c] # "FAIL"
  BY <1>6, <1>7 DEF NoRepeat, Conforms, SettleChecks, SettleInv, SettleTypeOK
<1>9. QED
  BY <1>1, <1>2, <1>3, <1>4, <1>6, <1>8 DEF Conforms, Sent

LEMMA PendingStep == PendingInv /\ [PendingNext]_pendingVars => PendingInv'
<1> SUFFICES ASSUME PendingInv, [PendingNext]_pendingVars PROVE PendingInv'
  OBVIOUS
<1>1. SettleInv'
  BY GroupStep, SettleStep DEF PendingInv
<1>2. /\ UNCHANGED conformant
      /\ (broadcast \in {"none", "pending", "confirmed"} /\ told \in BOOLEAN)'
  BY DEF PendingInv, PendingNext, Group, Broadcast, Confirm, Reply, PendingEnded,
         pendingVars, chainVars
<1>3. ASSUME conformant PROVE Conforms'
  <2>1. CASE UNCHANGED pendingVars
    BY <1>3, <2>1 DEF PendingInv, Conforms, pendingVars, settleVars, chainVars, Sent, NoRepeat
  <2>2. CASE Group
    BY <1>3, <2>2, GroupConforms
  <2>3. CASE Broadcast \/ Confirm
    BY <1>3, <2>3, ChainKeeps DEF PendingInv, Broadcast, Confirm
  <2>4. CASE Reply
    <3>1. PICK a \in Answers : ReceiveSettle(a) /\ told' = (told \/ a = Succeeds)
      BY <1>3, <2>4 DEF Reply
    <3>2. step # "cheap" => broadcast # "none"
      BY <1>3, <2>4 DEF Reply
    <3>3. UNCHANGED <<conformant, broadcast, hash>>
      BY <2>4 DEF Reply
    <3>4. CASE ReceiveFirst(a)
      BY <1>3, <3>1, <3>2, <3>3, <3>4, FirstConforms DEF ReceiveFirst
    <3>5. CASE ReceiveRetry(a)
      BY <1>3, <3>1, <3>2, <3>3, <3>5, RetryConforms DEF ReceiveRetry
    <3>6. CASE ReceiveSecond(a)
      BY <1>3, <3>1, <3>2, <3>3, <3>6, SecondConforms DEF ReceiveSecond
    <3>7. CASE ReceiveCheap(a)
      BY <1>3, <3>1, <3>3, <3>7, CheapConforms
    <3>8. QED  BY <3>1, <3>4, <3>5, <3>6, <3>7 DEF ReceiveSettle
  <2>5. QED  BY <2>1, <2>2, <2>3, <2>4 DEF PendingNext, PendingEnded
<1>4. QED  BY <1>1, <1>2, <1>3 DEF PendingInv

THEOREM PendingInvariant == PendingSpec => []PendingInv
BY PendingInitInv, PendingStep, PTL DEF PendingSpec

\* The group with its facilitator implements the group against any facilitator,
\* so what is proved of SettleSpec holds of the checked instances too.
THEOREM GroupIsImplemented == PendingSpec => SettleSpec
<1>1. PendingInit => SettleInit
  BY DEF PendingInit
<1>2. QED  BY <1>1, GroupStep, PendingInvariant, PTL DEF PendingSpec, SettleSpec

\* A facilitator that pends and reconciles as the protocol says fails no check,
\* with any hash and whenever the broadcast confirms (ConformantIsCleared).
THEOREM ConformantCleared == PendingSpec => []ConformantIsCleared
<1>1. PendingInv => ConformantIsCleared
  BY DEF PendingInv, Conforms, ConformantIsCleared
<1>2. QED  BY <1>1, PendingInvariant, PTL

\* FA-SET-003 passes a conformant facilitator only once its payment is in a
\* block and it has reported it as settled (ClearedOnEvidence).
THEOREM EvidenceForClearance == PendingSpec => []ClearedOnEvidence
<1>1. PendingInv => ClearedOnEvidence
  BY DEF PendingInv, Conforms, ClearedOnEvidence, NoRepeat
<1>2. QED  BY <1>1, PendingInvariant, PTL
=============================================================================
