------------------------ MODULE PaymentRequiredChecks ------------------------
(***************************************************************************)
(* RS-PR-001 to RS-PR-027 (checks/payment_required.py), on the decoded     *)
(* challenge.  Each operator is the status of its check; eth_utils is      *)
(* installed, so checksums are checked.                                    *)
(***************************************************************************)
EXTENDS HandshakeChecks

\* The scheme-private vocabularies of `extra`, by scheme and namespace.
Vocabulary(scheme, family) ==
    CASE <<scheme, family>> = <<"exact", "eip155">> -> {"domain"}
      [] <<scheme, family>> = <<"exact", "solana">> -> {"feePayer"}
      [] <<scheme, family>> = <<"exact", "hedera">> -> {"feePayer", "executors"}
      [] <<scheme, family>> = <<"exact", "starknet">> -> {"feePayer"}
      [] <<scheme, family>> = <<"exact", "lnbtc">> -> {"invoice"}
      [] <<scheme, family>> = <<"exact", "cardano">> -> {"terms"}
      [] <<scheme, family>> = <<"upto", "eip155">> -> {"domain", "facilitatorAddress"}
      [] <<scheme, family>> = <<"upto", "solana">> ->
            {"feePayer", "receiverAuthorizer", "withdrawDelay"}
      [] <<scheme, family>> = <<"batch-settlement", "eip155">> ->
            {"domain", "receiverAuthorizer", "withdrawDelay"}
      [] <<scheme, family>> = <<"batch-settlement", "solana">> ->
            {"feePayer", "receiverAuthorizer", "withdrawDelay"}
      [] <<scheme, family>> = <<"auth-capture", "eip155">> ->
            {"domain", "receiverAuthorizer", "captureMode"}
      [] OTHER -> {}

AllVocabularies ==
    UNION {Vocabulary(scheme, family) : scheme \in Schemes, family \in Families}

Bound(e) == e.family # "bare"
Binding(e) == <<e.scheme, e.family>>
HasVocabulary(e) == Bound(e) /\ Vocabulary(e.scheme, e.family) # {}

\* The entry carries an `extra` object, a reserved key counting.
HasExtra(e) == e.extra # {} \/ e.method # "none" \/ e.flow # "none"
DeclaresFlow(e) == e.flow # "none"

\* An entry check skips without entries, a v2-shape check on v1 too.
V2Inspectable(r) == Inspectable(r) /\ ~SpeaksV1(r)
Some(r, Test(_)) == Inspectable(r) /\ \E e \in Entries(r.doc) : Test(e)
GradeEntries(applies, r, Bad(_)) == Grade(applies, Some(r, Bad))

-----------------------------------------------------------------------------
(* The envelope.                                                           *)

PR_001(r) == Grade(Raw(r) /\ r.doc.version # 1, r.doc.version # 2)
PR_002(r) == Grade(Raw(r) /\ ~SpeaksV1(r), r.doc.resource = "none")

\* _resource_identity of the advertised and of the requested URL differ.
PR_003(r) == Grade(Parsed(r), r.doc.resource = "another")
PR_004(r) == Grade(Raw(r), ~Inspectable(r))
PR_010(r) == Grade(Parsed(r), r.doc.info = "long")
PR_011(r) == Grade(Raw(r) /\ r.doc.extensions # "none", r.doc.extensions = "bare")

\* (mutant) a second probe that could not be decoded differs from the first.
PR_012_AnySecond(r, second) ==
    Grade(Raw(r),
          \/ ~Raw(second)
          \/ r.doc.accepts # second.doc.accepts \/ r.doc.listed # second.doc.listed
          \/ "nan" \in r.doc.text \cup second.doc.text)

\* Two decodable probes are compared; the NaN of one is not the NaN of the other.
PR_012(r, second) ==
    Grade(Raw(r) /\ Raw(second),
          \/ r.doc.accepts # second.doc.accepts \/ r.doc.listed # second.doc.listed
          \/ "nan" \in r.doc.text \cup second.doc.text)

PR_015(r) == Grade(Raw(r) /\ r.doc.jp402 \in {"tax", "badTax"}, r.doc.jp402 = "badTax")

\* The OpenAPI document is fetched when jp402 is advertised and may not be had.
PR_016(r, openapi) ==
    Grade(Raw(r) /\ r.doc.jp402 # "none" /\ openapi \in {"invoice", "badInvoice"},
          openapi = "badInvoice")
PR_021(r) == Grade(Raw(r), "literals" \in r.doc.text)
PR_022(r) == Grade(Raw(r), "duplicates" \in r.doc.text)
PR_023(r) == Grade(Raw(r) /\ r.doc.builder # "none", r.doc.builder = "badApp")
PR_024(r) == Grade(Raw(r) /\ r.doc.builder # "none", r.doc.builder = "manyCodes")

-----------------------------------------------------------------------------
(* The entries.                                                            *)

PR_005(r) == GradeEntries(V2Inspectable(r), r, LAMBDA e : ~e.complete)
PR_006(r) == GradeEntries(Inspectable(r), r, LAMBDA e : ~Bound(e))
PR_007(r) == GradeEntries(Inspectable(r), r, LAMBDA e : e.amount \in {"number", "text"})

PR_008(r) ==
    LET onEvm(e) == e.family = "eip155"
    IN  GradeEntries(Some(r, onEvm), r,
                     LAMBDA e : onEvm(e) /\ e.asset \in {"native", "unsummed"})

PR_009(r) ==
    LET byEip3009(e) == Binding(e) = <<"exact", "eip155">> /\ e.method \in {"none", "eip3009"}
    IN  GradeEntries(Some(r, byEip3009), r,
                     LAMBDA e : byEip3009(e) /\ "domain" \notin e.extra)

\* "solana" stands for XRPL too: neither has addresses of the EVM form.
PR_013(r) ==
    GradeEntries(Inspectable(r), r,
        LAMBDA e : \/ e.family = "eip155" /\ ~(IsEvm(e.asset) /\ IsEvm(e.payTo))
                   \/ e.family = "solana" /\ (IsEvm(e.asset) \/ IsEvm(e.payTo)))

PR_014(r) == GradeEntries(Inspectable(r), r, LAMBDA e : e.amount = "zero")
PR_017(r) == GradeEntries(Inspectable(r), r, LAMBDA e : e.scheme = "unknown")

\* (mutant) the reserved keys are not part of what makes an offer.
OfferKeyPlain(e) == <<e.scheme, e.family, e.asset>>

\* One asset on one rail may be offered once per method and flow.
OfferKey(e) == <<e.scheme, e.family, e.asset, e.method, e.flow>>

PR_018(r) ==
    GradeEntries(Inspectable(r), r,
        LAMBDA e : \E o \in Entries(r.doc) :
            OfferKey(e) = OfferKey(o) /\ <<e.payTo, e.amount>> # <<o.payTo, o.amount>>)

\* A key of another binding's vocabulary, on a binding that has one.
PR_019(r) ==
    LET graded(e) == HasExtra(e) /\ HasVocabulary(e)
        foreign(e) == (e.extra \ Vocabulary(e.scheme, e.family)) \cap AllVocabularies
    IN  GradeEntries(V2Inspectable(r) /\ Some(r, graded), r,
                     LAMBDA e : graded(e) /\ foreign(e) # {})

PR_020(r) == GradeEntries(V2Inspectable(r), r, LAMBDA e : ~e.plain)

-----------------------------------------------------------------------------
(* Payment flows.                                                          *)

PR_025(r) ==
    GradeEntries(V2Inspectable(r) /\ Some(r, DeclaresFlow), r,
                 LAMBDA e : DeclaresFlow(e) /\ e.flow \notin DefinedFlows)

\* Advisory: never a failure.
PR_026(r) ==
    LET preHandler(e) ==
            \/ Bound(e) /\ (e.scheme = "auth-capture" \/ Binding(e) = <<"upto", "solana">>)
            \/ /\ ~(Bound(e) /\ Binding(e) \in {<<"batch-settlement", "solana">>,
                                <<"upto", "eip155">>, <<"batch-settlement", "eip155">>})
               /\ e.extra \cap {"withdrawDelay", "receiverAuthorizer"} # {}
    IN  Grade(V2Inspectable(r) /\ Some(r, preHandler), FALSE)

\* _FLOW_CONSTRAINED, and any exact entry offered upfront.
FlowGraded(e) ==
    /\ Bound(e)
    /\ \/ e.scheme \in {"upto", "auth-capture"}
       \/ Binding(e) \in {<<"exact", "lnbtc">>, <<"exact", "starknet">>, <<"exact", "cardano">>,
                          <<"batch-settlement", "solana">>}
       \/ e.scheme = "exact" /\ e.flow = "upfront"

\* _flow_problems; an undefined flow is RS-PR-025's.
FlowProblem(e) ==
    /\ e.flow \in DefinedFlows \cup {"none"}
    /\ \/ e.scheme = "upto" /\ e.flow = "upfront"
       \/ Binding(e) = <<"upto", "solana">> /\ e.flow \notin {"none", "escrow"}
       \/ Binding(e) = <<"exact", "lnbtc">> /\ e.flow # "upfront"
       \/ /\ Binding(e) \in {<<"exact", "starknet">>, <<"exact", "cardano">>,
                             <<"batch-settlement", "solana">>}
          /\ e.flow \notin {"none", "authorization"}
       \/ /\ e.scheme = "auth-capture"
          /\ \/ e.flow = "upfront"
             \/ "autoCapture" \in e.extra
             \/ e.flow = "authorization" /\ "captureMode" \in e.extra

\* Looking a list or an object up in a frozenset raises: the check is an error.
PR_027(r) ==
    IF V2Inspectable(r) /\ Some(r, LAMBDA e : FlowGraded(e) /\ e.flow = "structured")
    THEN "error"
    ELSE GradeEntries(V2Inspectable(r) /\ Some(r, FlowGraded), r,
                      LAMBDA e : FlowGraded(e) /\ FlowProblem(e))
=============================================================================
