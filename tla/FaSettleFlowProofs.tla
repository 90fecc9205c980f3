------------------------- MODULE FaSettleFlowProofs -------------------------
(***************************************************************************)
(* The FA-SET group against the on-chain facilitator: what it must not     *)
(* find, and what it costs, for any price, funds, faults and third parties *)
(* that leave the merchant's account alone.                                *)
(***************************************************************************)
EXTENDS FaSettleFlow, OnchainFacilitatorProofs

Keys == {"good", "cheap"}

\* An authorization of the group is on the wire only once it is signed.
Signed(k) == expiry[k] # 0
Auth(k) == Payment(k, expiry[k])

FromGroup(r) ==
    /\ r.conn \in Group!Sends
    /\ r.route = "settle"
    /\ Signed(Key(r.conn)) /\ r.auth = Auth(Key(r.conn))

\* A transaction of the group, which the facilitator found to pay the price.
OfGroup(tx) == \E k \in Keys : Signed(k) /\ tx.auth = Auth(k) /\ tx.auth.value = Amount

WireInv ==
    /\ \A r \in Held : FromGroup(r)
    /\ \A a \in answers : FromGroup(a)
    /\ \A tx \in pool : OfGroup(tx)
    /\ \A m \in mined : OfGroup(m.tx)

\* Each authorization is signed once, before it is first sent.
SignedInv ==
    /\ expiry \in [Keys -> Times]
    /\ step \in {"start", "first", "grade", "grade003", "second", "cheap", "done", "aborted"}
    /\ step = "start" => ~Signed("good")
    /\ step \in {"start", "first", "grade", "grade003", "second"} => ~Signed("cheap")
    /\ step \in {"first", "grade", "grade003", "second"} => Signed("good")
    /\ step = "cheap" => Signed("cheap")

\* Nothing is ever pending here; a success the payment is repeated after is an
\* answer of the facilitator to the first send.
FoundInv ==
    /\ firstPending = Group!NoAnswer
    /\ r1.kind = "success" => \E a \in answers : a.conn = "first" /\ a.outcome = "settled"
    /\ step = "second" => r1.kind = "success"
    /\ results = [c \in Group!SettleChecks |-> results[c]]
    /\ NoFalseDoubleSettle

\* The strengthening that every step of the group and its facilitator preserves.
SettleFlowInv == FacInv /\ PaysInv /\ WireInv /\ SignedInv /\ FoundInv

-----------------------------------------------------------------------------
(* The data of the group.                                                  *)

LEMMA AuthFields ==
    \A k \in Keys : \A t :
        /\ Payment(k, t).from = Payer /\ Payment(k, t).to = PayTo
        /\ Payment(k, t).nonce = IF k = "cheap" THEN CheapNonce ELSE GoodNonce
        /\ Payment(k, t).value = IF k = "cheap" THEN CheapValue ELSE Amount
BY DEF Payment, BuildAuthorization

LEMMA KeysOfSends == \A c : Key(c) \in Keys
BY DEF Key, Keys

LEMMA PayerIsNotMerchant == PayersAreOthers
<1>1. \A conn, t : RequestAt(conn, t).auth.from = Payer
  BY AuthFields, KeysOfSends DEF RequestAt
<1>2. QED  BY <1>1, SettleFlowAssumption, FacilitatorAssumption DEF PayersAreOthers

LEMMA ExpiryIsSigned ==
    ASSUME timestamp \in Nat
    PROVE  Expiry \in 1 .. MaxTime + 1 /\ Expiry \in Times /\ Expiry # 0
BY TokenAssumption, ChainClientAssumption DEF Expiry, Times

LEMMA RequestIsPossible ==
    ASSUME SignedInv, step \in Group!Sends
    PROVE  RequestOf(step) \in Requests /\ FromGroup(RequestOf(step))
<1>1. Signed(Key(step)) /\ Key(step) \in Keys
  BY DEF SignedInv, Key, Keys, Group!Sends
<1>2. expiry[Key(step)] \in 1 .. MaxTime + 1
  BY <1>1, TokenAssumption DEF SignedInv, Signed, Times
<1>3. QED
  BY <1>1, <1>2, SettleFlowAssumption DEF RequestOf, RequestAt, FromGroup, Auth

\* What was signed stays signed, and so does what carries it.
LEMMA SignedStays ==
    ASSUME \A k \in Keys : Signed(k) => expiry'[k] = expiry[k]
    PROVE  /\ \A r : FromGroup(r) => FromGroup(r)'
           /\ \A tx : OfGroup(tx) => OfGroup(tx)'
BY KeysOfSends DEF FromGroup, OfGroup, Signed, Auth

-----------------------------------------------------------------------------
(* A step of the flow is a step of its facilitator.                        *)

LEMMA ServerSide == SettleFlowInv /\ [SettleFlowNext]_settleFlowVars => [FacNext]_facVars
<1> SUFFICES ASSUME SettleFlowInv, SettleFlowNext PROVE [FacNext]_facVars
  BY DEF settleFlowVars
<1>1. CASE GroupSend
  <2>1. step \in Group!Sends
    BY <1>1 DEF GroupSend, Group!SendSettle
  <2>2. QED  BY <1>1, <2>1, RequestIsPossible DEF GroupSend, FacNext, Clients, SettleFlowInv
<1>2. CASE GroupStart \/ GroupReceive \/ GroupFault \/ GroupGrade
  BY <1>2 DEF GroupStart, GroupReceive, GroupFault, GroupGrade
<1>3. CASE ServerStep \/ ChainStep
  BY <1>3 DEF ServerStep, ChainStep, FacNext
<1>4. CASE Ended
  BY <1>4 DEF Ended, settleFlowVars
<1>5. QED  BY <1>1, <1>2, <1>3, <1>4 DEF SettleFlowNext, GroupStep

-----------------------------------------------------------------------------
(* What is signed and carried.                                             *)

LEMMA ServerWire ==
    ASSUME SettleFlowInv, ServerStep
    PROVE  WireInv' /\ answers \subseteq answers'
<1>1. Handle /\ UNCHANGED expiry
  BY DEF ServerStep
<1>2. (\A r : FromGroup(r) => FromGroup(r)') /\ (\A p : OfGroup(p) => OfGroup(p)')
  BY <1>1, SignedStays
<1>3. /\ Held' \subseteq Held
      /\ answers \subseteq answers'
      /\ \A a \in answers' \ answers : \E r \in Held :
            a.conn = r.conn /\ a.route = r.route /\ a.auth = r.auth
      /\ UNCHANGED mined
  BY <1>1, HandleCarries
<1>4. \A a \in answers' : FromGroup(a)
  BY <1>3 DEF SettleFlowInv, WireInv, FromGroup
<1>5. \A p \in pool' : OfGroup(p)
  <2>1. \A p \in pool' \ pool : \E r \in Held : p.auth = r.auth
    BY <1>1, HandleCarries
  <2>2. \A p \in pool' : p.auth.value = Amount
    BY <1>1, HandlePays, PayerIsNotMerchant DEF SettleFlowInv
  <2>3. QED
    BY <2>1, <2>2, KeysOfSends DEF SettleFlowInv, WireInv, FromGroup, OfGroup
<1>6. QED
  BY <1>2, <1>3, <1>4, <1>5 DEF SettleFlowInv, WireInv

LEMMA ChainWire ==
    ASSUME SettleFlowInv, ChainStep
    PROVE  WireInv' /\ answers \subseteq answers'
<1>1. Chain /\ UNCHANGED expiry
  BY DEF ChainStep
<1>2. (\A r : FromGroup(r) => FromGroup(r)') /\ (\A p : OfGroup(p) => OfGroup(p)')
  BY <1>1, SignedStays
<1>3. /\ UNCHANGED <<Held, answers>> /\ pool' \subseteq pool
      /\ \A m \in mined' : m \in mined \/ m.tx \in pool
  BY <1>1, ChainCarries DEF handlerVars, Held
<1>4. QED  BY <1>2, <1>3 DEF SettleFlowInv, WireInv

LEMMA GroupWire ==
    ASSUME SettleFlowInv, \A k \in Keys : Signed(k) => expiry'[k] = expiry[k],
           UNCHANGED facVars \/ (step \in Group!Sends /\ Arrive(RequestOf(step)))
    PROVE  WireInv' /\ answers \subseteq answers'
<1>1. (\A r : FromGroup(r) => FromGroup(r)') /\ (\A p : OfGroup(p) => OfGroup(p)')
  BY SignedStays
<1>2. CASE UNCHANGED facVars
  BY <1>1, <1>2 DEF SettleFlowInv, WireInv, Held, facVars, handlerVars, nodeVars
<1>3. CASE step \in Group!Sends /\ Arrive(RequestOf(step))
  <2>1. FromGroup(RequestOf(step))
    BY <1>3, RequestIsPossible DEF SettleFlowInv
  <2>2. Held' = Held \cup {RequestOf(step)} /\ UNCHANGED <<answers, pool, mined>>
    BY <1>3 DEF Arrive, Queue, Held, nodeVars
  <2>3. QED  BY <1>1, <2>1, <2>2 DEF SettleFlowInv, WireInv
<1>4. QED  BY <1>2, <1>3

-----------------------------------------------------------------------------
(* What the group finds.                                                   *)

\* The payment is not settled again: a second success would be another answer to
\* one authorization.
LEMMA RepeatIsRefused ==
    ASSUME SettleFlowInv, NEW a \in answers, a.conn = "second", r1.kind = "success"
    PROVE  a.outcome # "settled"
<1> SUFFICES ASSUME a.outcome = "settled" PROVE FALSE
  OBVIOUS
<1>1. PICK b \in answers : b.conn = "first" /\ b.outcome = "settled"
  BY DEF SettleFlowInv, FoundInv
<1>2. a.auth = Auth("good") /\ b.auth = Auth("good")
  BY <1>1 DEF SettleFlowInv, WireInv, FromGroup, Key
<1> DEFINE m1 == [tx |-> a.tx, ok |-> TRUE]
           m2 == [tx |-> b.tx, ok |-> TRUE]
<1>3. m1 \in mined /\ m2 \in mined /\ a.tx.auth = b.tx.auth
  BY <1>1, <1>2 DEF SettleFlowInv, FacInv, ServedIsPaid
<1>4. m1.ok /\ m2.ok /\ m1.tx = a.tx /\ m2.tx = b.tx
  OBVIOUS
<1>5. m1 = m2
  BY <1>3, <1>4 DEF SettleFlowInv, FacInv, NoDoubleSettle
<1>6. a = b
  BY <1>1, <1>4, <1>5 DEF SettleFlowInv, FacInv, OneResponsePerSettlement
<1>7. QED  BY <1>1, <1>6

\* A finding other than a failure of FA-SET-003 is no false one.
LEMMA ResultsKeep ==
    ASSUME results = [c \in Group!SettleChecks |-> results[c]], NoFalseDoubleSettle,
           NEW c \in Group!SettleChecks, NEW v, c = "FA-SET-003" => v # "FAIL",
           results' = [results EXCEPT ![c] = v]
    PROVE  results' = [d \in Group!SettleChecks |-> results'[d]] /\ NoFalseDoubleSettle'
<1>1. "FA-SET-003" \in Group!SettleChecks
  BY DEF Group!SettleChecks
<1>2. QED  BY <1>1 DEF NoFalseDoubleSettle

LEMMA SkipAllKeeps ==
    ASSUME SettleFlowInv, NEW v, v # "FAIL", Group!SkipAll(v), answers \subseteq answers',
           step # "second"
    PROVE  FoundInv' /\ step' = "done"
<1>1. results' = [c \in Group!SettleChecks |-> v] /\ "FA-SET-003" \in Group!SettleChecks
  BY DEF Group!SkipAll, Group!SettleChecks
<1>2. QED
  BY <1>1 DEF Group!SkipAll, SettleFlowInv, FoundInv, NoFalseDoubleSettle, Group!NoAnswer

LEMMA StartKeeps ==
    ASSUME SettleFlowInv, GroupStart
    PROVE  WireInv' /\ SignedInv' /\ FoundInv'
<1>1. /\ step = "start" /\ UNCHANGED facVars /\ UNCHANGED answers
      /\ IF step' = "first" THEN Signs("good") ELSE UNCHANGED expiry
      /\ \/ Group!SkipAll("SKIP")
         \/ step' = "first" /\ UNCHANGED <<inFlight, r1, firstPending, seen, results>>
  BY DEF GroupStart, Group!StartSettle, facVars, handlerVars
<1>2. Expiry \in Times /\ Expiry # 0
  BY ExpiryIsSigned DEF SettleFlowInv, FacInv, FacTypeOK, TokenTypeOK
<1>3. ~Signed("good") /\ ~Signed("cheap") /\ expiry \in [Keys -> Times]
  BY <1>1 DEF SettleFlowInv, SignedInv
<1>4. expiry' \in [Keys -> Times] /\ expiry'["cheap"] = expiry["cheap"]
      /\ (step' = "first" => expiry'["good"] = Expiry)
  BY <1>1, <1>2, <1>3 DEF Signs, Keys
<1>5. WireInv'
  BY <1>1, <1>3, <1>4, GroupWire DEF Keys
<1>6. CASE Group!SkipAll("SKIP")
  <2>1. FoundInv' /\ step' = "done"
    BY <1>1, <1>6, SkipAllKeeps
  <2>2. QED  BY <1>3, <1>4, <1>5, <2>1 DEF SignedInv, Signed
<1>7. CASE step' = "first" /\ UNCHANGED <<inFlight, r1, firstPending, seen, results>>
  <2>1. SignedInv'
    BY <1>2, <1>3, <1>4, <1>7 DEF SignedInv, Signed
  <2>2. FoundInv'
    BY <1>1, <1>7 DEF SettleFlowInv, FoundInv, NoFalseDoubleSettle
  <2>3. QED  BY <1>5, <2>1, <2>2
<1>8. QED  BY <1>1, <1>6, <1>7

\* Sending and failing to send tell the group nothing.
LEMMA WireStepKeeps ==
    ASSUME SettleFlowInv, GroupSend \/ GroupFault
    PROVE  WireInv' /\ SignedInv' /\ FoundInv'
<1>1. /\ UNCHANGED <<r1, firstPending, results, expiry>>
      /\ step' = step \/ step' = "aborted"
      /\ UNCHANGED facVars \/ (step \in Group!Sends /\ Arrive(RequestOf(step)))
  BY DEF GroupSend, GroupFault, Group!SendSettle, Group!SettleFault
<1>2. WireInv' /\ answers \subseteq answers'
  BY <1>1, GroupWire
<1>3. SignedInv'
  BY <1>1 DEF SettleFlowInv, SignedInv, Signed
<1>4. FoundInv'
  BY <1>1, <1>2 DEF SettleFlowInv, FoundInv, NoFalseDoubleSettle
<1>5. QED  BY <1>2, <1>3, <1>4

\* The flow goes from one graded answer to the next send, and signs the
\* underpaying authorization when its turn comes.
LEMMA TurnKeeps ==
    ASSUME SettleFlowInv, step \in {"first", "grade", "grade003", "second", "cheap"},
           step = "cheap" => step' = "done",
           step' \in {"grade", "grade003", "second", "cheap", "done"},
           SignsCheapInTurn, UNCHANGED facVars
    PROVE  WireInv' /\ SignedInv'
<1>1. Expiry \in Times /\ Expiry # 0
  BY ExpiryIsSigned DEF SettleFlowInv, FacInv, FacTypeOK, TokenTypeOK
<1>2. expiry \in [Keys -> Times]
  BY DEF SettleFlowInv, SignedInv
<1>3. CASE step' = "cheap" /\ step # "cheap"
  <2>1. expiry' = [expiry EXCEPT !["cheap"] = Expiry] /\ ~Signed("cheap")
    BY <1>3 DEF SignsCheapInTurn, Signs, SettleFlowInv, SignedInv
  <2>2. expiry' \in [Keys -> Times] /\ expiry'["cheap"] = Expiry
        /\ expiry'["good"] = expiry["good"]
    BY <1>1, <1>2, <2>1 DEF Keys
  <2>3. SignedInv'
    BY <1>1, <1>3, <2>2 DEF SignedInv, Signed
  <2>4. WireInv'
    BY <2>1, <2>2, GroupWire DEF Keys
  <2>5. QED  BY <2>3, <2>4
<1>4. CASE ~(step' = "cheap" /\ step # "cheap")
  <2>1. UNCHANGED expiry
    BY <1>4 DEF SignsCheapInTurn
  <2>2. QED  BY <1>4, <2>1, GroupWire DEF SettleFlowInv, SignedInv, Signed
<1>5. QED  BY <1>3, <1>4

LEMMA ReceiveKeeps ==
    ASSUME SettleFlowInv, GroupReceive
    PROVE  WireInv' /\ SignedInv' /\ FoundInv'
<1>1. PICK a \in answers : a.conn = step /\ Group!ReceiveSettle(AnswerOf(a))
  BY DEF GroupReceive
<1> DEFINE x == AnswerOf(a)
<1>2. x.kind \in {"success", "failed"} /\ (x.kind = "success" <=> a.outcome = "settled")
  BY DEF AnswerOf
<1>3. UNCHANGED <<facVars, answers>> /\ SignsCheapInTurn
  BY DEF GroupReceive, facVars, handlerVars
<1> HIDE DEF x
<1>4. CASE Group!ReceiveFirst(x)
  <2>1. /\ step = "first" /\ step' = "grade" /\ r1' = x
        /\ UNCHANGED <<firstPending, results>>
    BY <1>2, <1>4 DEF Group!ReceiveFirst
  <2>2. FoundInv'
    BY <1>1, <1>2, <1>3, <2>1 DEF SettleFlowInv, FoundInv, NoFalseDoubleSettle
  <2>3. QED  BY <1>3, <2>1, <2>2, TurnKeeps
<1>5. CASE Group!ReceiveRetry(x)
  BY <1>5 DEF Group!ReceiveRetry, SettleFlowInv, SignedInv
<1>6. CASE Group!ReceiveSecond(x)
  <2>1. /\ step = "second" /\ step' = "cheap" /\ UNCHANGED <<r1, firstPending>>
        /\ results' = [results EXCEPT !["FA-SET-003"] = Group!RepeatVerdict(x)]
    BY <1>6 DEF Group!ReceiveSecond
  <2>2. x.kind = "failed"
    BY <1>1, <1>2, <2>1, RepeatIsRefused DEF SettleFlowInv, FoundInv
  <2>3. Group!RepeatVerdict(x) # "FAIL"
    BY <2>2 DEF Group!RepeatVerdict, Group!Parsed
  <2> DEFINE v == Group!RepeatVerdict(x)
  <2> HIDE DEF v
  <2>4. results' = [results EXCEPT !["FA-SET-003"] = v] /\ v # "FAIL"
    BY <2>1, <2>3 DEF v
  <2>5. /\ results' = [d \in Group!SettleChecks |-> results'[d]]
        /\ NoFalseDoubleSettle'
    BY <2>4, ResultsKeep DEF SettleFlowInv, FoundInv, Group!SettleChecks
  <2>6. FoundInv'
    BY <1>3, <2>1, <2>5 DEF SettleFlowInv, FoundInv
  <2>7. QED  BY <1>3, <2>1, <2>6, TurnKeeps
<1>7. CASE Group!ReceiveCheap(x)
  <2> DEFINE v == Group!CheapVerdict(x)
             w == Group!PendingVerdict(seen')
  <2>1. /\ step = "cheap" /\ step' = "done" /\ UNCHANGED <<r1, firstPending>>
        /\ results' = [results EXCEPT !["FA-SET-002"] = v, !["FA-SET-004"] = w]
    BY <1>7 DEF Group!ReceiveCheap
  <2> HIDE DEF v, w
  <2>2. /\ results' = [d \in Group!SettleChecks |-> results'[d]]
        /\ NoFalseDoubleSettle'
    BY <2>1 DEF SettleFlowInv, FoundInv, Group!SettleChecks, NoFalseDoubleSettle
  <2>3. FoundInv'
    BY <1>3, <2>1, <2>2 DEF SettleFlowInv, FoundInv
  <2>4. QED  BY <1>3, <2>1, <2>3, TurnKeeps
<1>8. QED  BY <1>1, <1>4, <1>5, <1>6, <1>7 DEF x, Group!ReceiveSettle

LEMMA GradeKeeps ==
    ASSUME SettleFlowInv, GroupGrade
    PROVE  WireInv' /\ SignedInv' /\ FoundInv'
<1>1. UNCHANGED <<facVars, answers>> /\ SignsCheapInTurn
  BY DEF GroupGrade, facVars, handlerVars
<1>2. ASSUME NEW proof, Group!GradeFirst(TRUE, proof)
      PROVE  WireInv' /\ SignedInv' /\ FoundInv'
  <2> DEFINE v == Group!FirstVerdict(TRUE, proof)
  <2>1. /\ step = "grade" /\ step' = "grade003" /\ UNCHANGED <<r1, firstPending>>
        /\ results' = [results EXCEPT !["FA-SET-001"] = v]
    BY <1>2 DEF Group!GradeFirst
  <2> HIDE DEF v
  <2>2. results' = [d \in Group!SettleChecks |-> results'[d]] /\ NoFalseDoubleSettle'
    BY <2>1, ResultsKeep DEF SettleFlowInv, FoundInv, Group!SettleChecks
  <2>3. FoundInv'
    BY <1>1, <2>1, <2>2 DEF SettleFlowInv, FoundInv
  <2>4. QED  BY <1>1, <2>1, <2>3, TurnKeeps
<1>3. CASE Group!GradeNoRepeat
  <2>1. /\ step = "grade003" /\ UNCHANGED <<r1, firstPending>>
        /\ step' = "cheap" \/ (step' = "second" /\ r1.kind = "success")
        /\ \/ UNCHANGED results
           \/ results' = [results EXCEPT !["FA-SET-003"] = "PENDING"]
           \/ results' = [results EXCEPT !["FA-SET-003"] = "SKIP"]
    BY <1>3 DEF Group!GradeNoRepeat
  <2>2. results' = [d \in Group!SettleChecks |-> results'[d]] /\ NoFalseDoubleSettle'
    BY <2>1, ResultsKeep DEF SettleFlowInv, FoundInv, Group!SettleChecks, NoFalseDoubleSettle
  <2>3. FoundInv'
    BY <1>1, <2>1, <2>2 DEF SettleFlowInv, FoundInv
  <2>4. QED  BY <1>1, <2>1, <2>3, TurnKeeps
<1>4. QED  BY <1>2, <1>3 DEF GroupGrade

-----------------------------------------------------------------------------
(* The whole group.                                                        *)

LEMMA SettleFlowInitInv == SettleFlowInit => SettleFlowInv
<1> SUFFICES ASSUME SettleFlowInit PROVE SettleFlowInv  OBVIOUS
<1>1. FacInv /\ PaysInv
  BY FacInitInv, PaysInit DEF SettleFlowInit
<1>2. WireInv
  BY DEF SettleFlowInit, FacInit, WireInv, Held
<1>3. SignedInv
  BY TokenAssumption DEF SettleFlowInit, Group!SettleInit, SignedInv, Signed, Keys, Times
<1>4. FoundInv
  BY DEF SettleFlowInit, Group!SettleInit, FoundInv, NoFalseDoubleSettle, Group!NoAnswer,
         Group!SettleChecks
<1>5. QED  BY <1>1, <1>2, <1>3, <1>4 DEF SettleFlowInv

LEMMA SettleFlowStep == SettleFlowInv /\ [SettleFlowNext]_settleFlowVars => SettleFlowInv'
<1> SUFFICES ASSUME SettleFlowInv, [SettleFlowNext]_settleFlowVars PROVE SettleFlowInv'
  OBVIOUS
<1>1. FacInv' /\ PaysInv'
  BY ServerSide, FacNextInv, PaysStep, PayerIsNotMerchant, SettleFlowAssumption
     DEF SettleFlowInv
<1>2. CASE UNCHANGED groupVars /\ UNCHANGED expiry /\ WireInv' /\ answers \subseteq answers'
  <2>1. SignedInv'
    BY <1>2 DEF groupVars, SettleFlowInv, SignedInv, Signed
  <2>2. FoundInv'
    BY <1>2 DEF groupVars, SettleFlowInv, FoundInv, NoFalseDoubleSettle
  <2>3. QED  BY <1>1, <1>2, <2>1, <2>2 DEF SettleFlowInv
<1>3. CASE UNCHANGED settleFlowVars
  <2>1. WireInv' /\ answers \subseteq answers'
    BY <1>3, GroupWire DEF settleFlowVars
  <2>2. QED  BY <1>2, <1>3, <2>1 DEF settleFlowVars
<1>4. CASE ServerStep \/ ChainStep
  BY <1>2, <1>4, ServerWire, ChainWire DEF ServerStep, ChainStep
<1>5. CASE GroupStep
  BY <1>1, <1>5, StartKeeps, WireStepKeeps, ReceiveKeeps, GradeKeeps
     DEF GroupStep, SettleFlowInv
<1>6. QED  BY <1>3, <1>4, <1>5 DEF SettleFlowNext, Ended

THEOREM SettleFlowInvariant == SettleFlowSpec => []SettleFlowInv
BY SettleFlowInitInv, SettleFlowStep, PTL DEF SettleFlowSpec

\* A facilitator whose token never lets a nonce settle twice is not accused of it.
THEOREM NoFalseDoubleSettles == SettleFlowSpec => []NoFalseDoubleSettle
<1>1. SettleFlowInv => NoFalseDoubleSettle  BY DEF SettleFlowInv, FoundInv
<1>2. QED  BY <1>1, SettleFlowInvariant, PTL

\* The facilitator and the chain of the group are those of OnchainFacilitator.
THEOREM GroupImplementsServer == SettleFlowSpec => FacSpec
<1>1. SettleFlowInit => FacInit  BY DEF SettleFlowInit
<1>2. QED
  BY <1>1, ServerSide, SettleFlowInvariant, PTL DEF SettleFlowSpec, FacSpec

\* At most one settlement of the group mines, if the underpayment is one.
LEMMA OneSettlement ==
    ASSUME SettleFlowInv, Amount # CheapValue
    PROVE  Cardinality(SettledReceipts) \in {0, 1}
<1>1. \A m \in SettledReceipts : m.tx.auth.from = Payer /\ m.tx.auth.nonce = GoodNonce
  <2> SUFFICES ASSUME NEW m \in SettledReceipts
               PROVE  m.tx.auth.from = Payer /\ m.tx.auth.nonce = GoodNonce
    OBVIOUS
  <2>1. PICK k \in Keys : m.tx.auth = Auth(k) /\ m.tx.auth.value = Amount
    BY DEF SettleFlowInv, WireInv, OfGroup, SettledReceipts
  <2>2. QED  BY <2>1, AuthFields DEF Auth, Keys
<1>2. \A m, n \in SettledReceipts : m = n
  BY <1>1 DEF SettleFlowInv, FacInv, NoDoubleSettle, SettledReceipts
<1>3. CASE SettledReceipts = {}
  BY <1>3, FS_EmptySet
<1>4. ASSUME NEW m \in SettledReceipts PROVE Cardinality(SettledReceipts) \in {0, 1}
  <2>1. SettledReceipts = {m}
    BY <1>2
  <2>2. QED  BY <2>1, FS_Singleton
<1>5. QED  BY <1>3, <1>4

\* The settles of the group cost the payer one price at most, at every price that
\* the underpayment of one atomic unit falls short of (GroupCostsOnePrice).
THEOREM GroupCostsOne ==
    ASSUME Amount # CheapValue
    PROVE  SettleFlowSpec => []GroupCostsOnePrice
<1>1. SettleFlowInv => GroupCostsOnePrice
  <2> SUFFICES ASSUME SettleFlowInv PROVE GroupCostsOnePrice  OBVIOUS
  <2>1. Amount \in Nat
    BY FacilitatorAssumption DEF Uint
  <2>2. balanceOf[PayTo] = Amount * Cardinality(SettledReceipts)
    BY DEF SettleFlowInv, PaysInv, MerchantHasSettlements, SettledReceipts
  <2>3. Amount * 0 = 0 /\ Amount * 1 = Amount
    BY <2>1
  <2>4. QED  BY <2>2, <2>3, OneSettlement DEF GroupCostsOnePrice
<1>2. QED  BY <1>1, SettleFlowInvariant, PTL

-----------------------------------------------------------------------------
(* The group is the group against any facilitator.                         *)

\* A settled answer names its transaction.
LEMMA AnswersAreAnswers == ASSUME SettleFlowInv, NEW a \in answers PROVE AnswerOf(a) \in Group!Answer
<1>1. a.tx \in Tx \cup {NoTx}
  BY DEF SettleFlowInv, FacInv, FacTypeOK, Answer
<1>2. a.outcome = "settled" => a.tx \in Tx
  <2>1. a.outcome = "settled" => [tx |-> a.tx, ok |-> TRUE] \in mined
    BY DEF SettleFlowInv, FacInv, ServedIsPaid
  <2>2. \A m \in mined : m.tx \in Tx
    BY DEF SettleFlowInv, FacInv, FacTypeOK, Receipt
  <2>3. QED  BY <2>1, <2>2
<1>3. QED  BY <1>1, <1>2 DEF AnswerOf, Group!Answer

LEMMA GroupSide ==
    SettleFlowInv /\ [SettleFlowNext]_settleFlowVars => [Group!SettleNext]_Group!settleVars
<1> SUFFICES ASSUME SettleFlowInv, SettleFlowNext
             PROVE  [Group!SettleNext]_Group!settleVars
  BY DEF settleFlowVars, groupVars, Group!settleVars
<1>1. CASE GroupStart
  BY <1>1 DEF GroupStart, Group!SettleNext
<1>2. CASE GroupSend \/ GroupFault
  BY <1>2 DEF GroupSend, GroupFault, Group!SettleNext
<1>3. CASE GroupReceive
  BY <1>3, AnswersAreAnswers DEF GroupReceive, Group!SettleNext
<1>4. CASE GroupGrade
  <2>1. TxProofs(r1.tx) \subseteq {"PASS", "FAIL", "SKIP"}
    BY DEF TxProofs
  <2>2. QED  BY <1>4, <2>1 DEF GroupGrade, Group!SettleNext
<1>5. CASE ServerStep \/ ChainStep \/ Ended
  BY <1>5 DEF ServerStep, ChainStep, Ended, settleFlowVars, groupVars, Group!settleVars
<1>6. QED  BY <1>1, <1>2, <1>3, <1>4, <1>5 DEF SettleFlowNext, GroupStep

\* The group with this facilitator implements the group against any facilitator.
THEOREM GroupImplementsGroup == SettleFlowSpec => Group!SettleSpec
<1>1. SettleFlowInit => Group!SettleInit  BY DEF SettleFlowInit
<1>2. QED
  BY <1>1, GroupSide, SettleFlowInvariant, PTL DEF SettleFlowSpec, Group!SettleSpec
=============================================================================
