--------------------------- MODULE MCPassiveTools ---------------------------
(***************************************************************************)
(* Endpoints with known defects and Bazaars with known flaws, for the      *)
(* passive checks to judge.  An honest challenge of every scheme and       *)
(* namespace is spoiled by one defect of an entry, by one of the answer,   *)
(* by one of each, or by one in each of two entries; what a defect is the  *)
(* fault of (Blames), and what it keeps from being graded (Hides), is      *)
(* written down from the specification each check cites.                   *)
(***************************************************************************)
EXTENDS PassiveTools, TLC

Bindings ==
    {<<"exact", family>> : family \in {"eip155", "solana", "hedera", "starknet", "lnbtc",
                                       "cardano", "aptos"}}
        \cup ({"upto", "batch-settlement"} \X {"eip155", "solana"})
        \cup {<<"auth-capture", "eip155">>}

\* Hedera accounts may be paid by an EVM alias.
Honest(b) ==
    [scheme |-> b[1], family |-> b[2], amount |-> "price",
     asset |-> IF b[2] = "eip155" THEN "evm" ELSE "native",
     payTo |-> IF b[2] \in {"eip155", "hedera"} THEN "evm" ELSE "native",
     extra |-> Vocabulary(b[1], b[2]), method |-> "none",
     flow |-> IF b[2] = "lnbtc" THEN "upfront" ELSE "none", complete |-> TRUE, plain |-> TRUE]

Companion(b) == Honest(IF b = <<"exact", "solana">> THEN <<"exact", "eip155">>
                                                    ELSE <<"exact", "solana">>)

-----------------------------------------------------------------------------
(* Defects of an entry; the last line of each table is harmless.           *)

Foreign(b) == IF b[2] = "lnbtc" THEN "terms" ELSE "invoice"
OtherForm(address) == IF IsEvm(address) THEN "native" ELSE "evm"

\* A flow the binding does not allow, and one it does.
WrongFlow(b) ==
    CASE b = <<"upto", "solana">> -> "authorization"
      [] b = <<"exact", "lnbtc">> -> "none"
      [] OTHER -> "upfront"
AllowedFlow(b) ==
    CASE b = <<"exact", "lnbtc">> -> "upfront"
      [] b \in {<<"upto", "solana">>, <<"auth-capture", "eip155">>} -> "escrow"
      [] OTHER -> "authorization"

FlowRestricted ==
    {<<"upto", "eip155">>, <<"upto", "solana">>, <<"exact", "lnbtc">>, <<"exact", "starknet">>,
     <<"exact", "cardano">>, <<"batch-settlement", "solana">>, <<"auth-capture", "eip155">>}

Everywhere == {"missingField", "numberAmount", "textAmount", "zeroAmount", "unknownField",
               "badNetwork", "unknownScheme", "contradiction", "foreignExtra", "oddFlow",
               "structuredFlow", "privateKey", "allowedFlow", "honest"}

EntryDefects(b) ==
    Everywhere
        \cup (IF b[2] \in {"eip155", "solana"} THEN {"foreignAsset", "foreignPayTo"} ELSE {})
        \cup (IF b[2] = "eip155" THEN {"badChecksum"} ELSE {})
        \cup (IF b = <<"exact", "eip155">> THEN {"noDomain", "permit2", "upfrontToo"} ELSE {})
        \cup (IF b \in FlowRestricted THEN {"wrongFlow"} ELSE {})
        \cup (IF b[1] = "auth-capture" THEN {"autoCapture", "captureMode"} ELSE {})

Spoil(b, d) ==
    LET e == Honest(b) IN
    CASE d = "missingField" -> [e EXCEPT !.complete = FALSE]
      [] d = "numberAmount" -> [e EXCEPT !.amount = "number"]
      [] d = "textAmount" -> [e EXCEPT !.amount = "text"]
      [] d = "zeroAmount" -> [e EXCEPT !.amount = "zero"]
      [] d = "unknownField" -> [e EXCEPT !.plain = FALSE]
      [] d = "badNetwork" -> [e EXCEPT !.family = "bare"]
      [] d = "unknownScheme" -> [e EXCEPT !.scheme = "unknown"]
      [] d = "foreignExtra" -> [e EXCEPT !.extra = @ \cup {Foreign(b)}]
      [] d = "oddFlow" -> [e EXCEPT !.flow = "odd"]
      [] d = "structuredFlow" -> [e EXCEPT !.flow = "structured"]
      [] d = "foreignAsset" -> [e EXCEPT !.asset = OtherForm(@)]
      [] d = "foreignPayTo" -> [e EXCEPT !.payTo = OtherForm(@)]
      [] d = "badChecksum" -> [e EXCEPT !.asset = "unsummed"]
      [] d = "noDomain" -> [e EXCEPT !.extra = {}]
      [] d = "wrongFlow" -> [e EXCEPT !.flow = WrongFlow(b)]
      [] d = "autoCapture" -> [e EXCEPT !.extra = @ \cup {"autoCapture"}]
      [] d = "captureMode" -> [e EXCEPT !.flow = "authorization"]
      [] d = "privateKey" -> [e EXCEPT !.extra = @ \cup {"private"}]
      [] d = "allowedFlow" -> [e EXCEPT !.flow = AllowedFlow(b)]
      [] d = "permit2" -> [e EXCEPT !.method = "permit2", !.extra = {}]
      [] OTHER -> e

\* Some defects are a second entry: the same offer at another price, or the same
\* asset at another price and settled upfront, which is no contradiction.
Spoiled(b, d) ==
    LET rival == [Honest(b) EXCEPT !.amount = "otherPrice"] IN
    CASE d = "contradiction" -> <<Honest(b), rival>>
      [] d = "upfrontToo" -> <<Honest(b), [rival EXCEPT !.flow = "upfront"]>>
      [] OTHER -> <<Spoil(b, d)>>

EntryBlames(b, d) ==
    CASE d = "missingField" -> {"PR_005", "HS_004"}
      [] d = "numberAmount" -> {"PR_007", "HS_004"}
      [] d = "textAmount" -> {"PR_007"}
      [] d = "zeroAmount" -> {"PR_014"}
      [] d = "unknownField" -> {"PR_020"}
      [] d = "badNetwork" -> {"PR_006"}
      [] d = "unknownScheme" -> {"PR_017"}
      [] d = "contradiction" -> {"PR_018"}
      [] d = "foreignExtra" -> IF b[2] = "aptos" THEN {} ELSE {"PR_019"}
      [] d = "oddFlow" -> {"PR_025"}
      [] d = "structuredFlow" -> {"PR_025"} \cup (IF b \in FlowRestricted THEN {"PR_027"} ELSE {})
      [] d = "foreignAsset" -> {"PR_013"} \cup (IF b[2] = "eip155" THEN {"PR_008"} ELSE {})
      [] d = "foreignPayTo" -> {"PR_013"}
      [] d = "badChecksum" -> {"PR_008"}
      [] d = "noDomain" -> {"PR_009"}
      [] d \in {"wrongFlow", "autoCapture", "captureMode"} -> {"PR_027"}
      [] OTHER -> {}

\* What the schema rejects is not read any further by two checks.
EntryHides(d) == IF d \in {"missingField", "numberAmount"} THEN {"PR_003", "PR_010"} ELSE {}

-----------------------------------------------------------------------------
(* Defects of the answer, on an endpoint that offers `accepts`.            *)

Answer(accepts) ==
    [status |-> 402, header |-> "document", legacy |-> FALSE, cache |-> "private",
     doc |-> [NoDocument EXCEPT !.resource = "requested", !.listed = TRUE, !.accepts = accepts]]

AnswerDefects ==
    {"v3", "v1", "noResource", "otherResource", "noAccepts", "emptyAccepts", "longInfo",
     "bareExtension", "literals", "duplicates", "badApp", "manyCodes", "badTax", "legacy",
     "cacheable", "servedToo", "notBase64", "notJson", "raises", "noHeader", "served", "down",
     "overloaded", "jp402", "jp402Entry", "wholeExtension", "builder", "nan"}

SpoilAnswer(r, d) ==
    CASE d = "v3" -> [r EXCEPT !.doc.version = 3]
      [] d = "v1" -> [r EXCEPT !.doc.version = 1, !.doc.resource = "none"]
      [] d = "noResource" -> [r EXCEPT !.doc.resource = "none"]
      [] d = "otherResource" -> [r EXCEPT !.doc.resource = "another"]
      [] d = "noAccepts" -> [r EXCEPT !.doc.listed = FALSE, !.doc.accepts = <<>>]
      [] d = "emptyAccepts" -> [r EXCEPT !.doc.accepts = <<>>]
      [] d = "longInfo" -> [r EXCEPT !.doc.info = "long"]
      [] d = "bareExtension" -> [r EXCEPT !.doc.extensions = "bare"]
      [] d = "wholeExtension" -> [r EXCEPT !.doc.extensions = "whole"]
      [] d \in {"literals", "duplicates"} -> [r EXCEPT !.doc.text = {d}]
      [] d = "nan" -> [r EXCEPT !.doc.text = {"literals", "nan"}]
      [] d \in {"badApp", "manyCodes"} ->
            [r EXCEPT !.doc.builder = d, !.doc.extensions = "whole"]
      [] d = "builder" -> [r EXCEPT !.doc.builder = "fine", !.doc.extensions = "whole"]
      [] d = "badTax" -> [r EXCEPT !.doc.jp402 = "badTax", !.doc.extensions = "whole"]
      [] d = "jp402" -> [r EXCEPT !.doc.jp402 = "tax", !.doc.extensions = "bare"]
      [] d = "jp402Entry" -> [r EXCEPT !.doc.jp402 = "tax", !.doc.accepts[1].plain = FALSE]
      [] d = "legacy" -> [r EXCEPT !.legacy = TRUE]
      [] d = "cacheable" -> [r EXCEPT !.cache = "public"]
      [] d = "servedToo" -> [r EXCEPT !.status = 200]
      [] d = "overloaded" -> [r EXCEPT !.status = 503]
      [] d \in {"notBase64", "notJson", "raises"} -> [r EXCEPT !.header = d]
      [] d = "noHeader" -> [r EXCEPT !.header = "absent"]
      [] d = "served" -> [r EXCEPT !.status = 200, !.header = "absent"]
      [] d = "down" -> [r EXCEPT !.status = 500, !.header = "absent"]
      [] OTHER -> r

AnswerBlames(d) ==
    CASE d = "v3" -> {"PR_001"}
      [] d = "noResource" -> {"PR_002", "HS_004"}
      [] d = "otherResource" -> {"PR_003"}
      [] d = "noAccepts" -> {"PR_004", "HS_004"}
      [] d = "emptyAccepts" -> {"PR_004"}
      [] d = "longInfo" -> {"PR_010"}
      [] d \in {"bareExtension", "jp402"} -> {"PR_011"}
      [] d = "jp402Entry" -> {"PR_020"}
      [] d = "nan" -> {"PR_012", "PR_021"}
      [] d = "literals" -> {"PR_021"}
      [] d = "duplicates" -> {"PR_022"}
      [] d = "badApp" -> {"PR_023"}
      [] d = "manyCodes" -> {"PR_024"}
      [] d = "badTax" -> {"PR_015"}
      [] d = "legacy" -> {"HS_005"}
      [] d = "cacheable" -> {"HS_007"}
      [] d \in {"servedToo", "served"} -> {"HS_001"}
      [] d = "notBase64" -> {"HS_003"}
      [] d = "notJson" -> {"HS_004"}
      [] d = "noHeader" -> {"HS_002"}
      [] OTHER -> {}

EntryChecks == {"PR_005", "PR_006", "PR_007", "PR_008", "PR_009", "PR_013", "PR_014", "PR_017",
                "PR_018", "PR_019", "PR_020", "PR_025", "PR_026", "PR_027"}
HeaderChecks == {"HS_001", "HS_002", "HS_003", "HS_005", "HS_007", "SEC_012"}

\* A v1 challenge is not held to v2; without a document only the answer is graded.
AnswerHides(d) ==
    CASE d = "v1" -> {"HS_004", "PR_001", "PR_002", "PR_003", "PR_005", "PR_010", "PR_019",
                      "PR_020", "PR_025", "PR_027"}
      [] d = "noAccepts" -> EntryChecks \cup {"PR_003", "PR_010"}
      [] d = "noResource" -> {"PR_003", "PR_010"}
      [] d = "emptyAccepts" -> EntryChecks \cup {"HS_004"}
      [] d = "notJson" -> Checks \ (HeaderChecks \cup {"HS_004"})
      [] d \in {"notBase64", "noHeader", "served", "down"} -> Checks \ HeaderChecks
      [] OTHER -> {}

-----------------------------------------------------------------------------
(* The endpoints.  `guilty` is read by the properties alone.               *)

Endpoint(accepts, d, guilty) ==
    LET r == SpoilAnswer(Answer(accepts), d) IN
    [path |-> "root", first |-> r, second |-> r, openapi |-> "none", bypass |-> {},
     catchAll |-> FALSE, guilty |-> (guilty \cup AnswerBlames(d)) \ AnswerHides(d)]

\* One defect of an entry, alone, first or second.
OneEntry ==
    UNION {UNION {LET e == Spoiled(b, d) IN
                  {Endpoint(accepts, "none", EntryBlames(b, d)) :
                      accepts \in {e, e \o <<Companion(b)>>, <<Companion(b)>> \o e}} :
                  d \in EntryDefects(b)} : b \in Bindings}

Usual == <<"exact", "eip155">>
Metered == <<"upto", "solana">>

BypassOn(path) ==
    CASE path = "root" -> {}
      [] path = "nested" -> {"encodedSeparator", "absoluteForm"}
      [] OTHER -> {"absoluteForm"}

\* One of an entry and one of the answer.
OneOfEach(accepts, b, d, a) ==
    [Endpoint(accepts, a, EntryBlames(b, d)) EXCEPT !.guilty = @ \ EntryHides(d)]
EntryAndAnswer ==
    {OneOfEach(Spoiled(Usual, d) \o <<Companion(Usual)>>, Usual, d, a) :
        d \in EntryDefects(Usual), a \in AnswerDefects}

\* One in each of two entries.
TwoEntries ==
    {Endpoint(Spoiled(Usual, d) \o Spoiled(Metered, o), "none",
              EntryBlames(Usual, d) \cup EntryBlames(Metered, o)) :
        d \in EntryDefects(Usual), o \in EntryDefects(Metered)}

\* Paths that reach the resource behind the paywall, or any page at all.
Bypassed ==
    {[Endpoint(<<Honest(Usual)>>, d, {}) EXCEPT
        !.path = path, !.bypass = bypass, !.catchAll = catchAll,
        !.guilty = @ \cup (IF bypass \cap BypassOn(path) # {} THEN {"SEC_012"} ELSE {})] :
        d \in {"none", "noHeader"}, path \in Paths,
        bypass \in SUBSET {"encodedSeparator", "absoluteForm"}, catchAll \in BOOLEAN}

\* A facilitator's own paths answer 200 without being a paywall.
FacilitatorPaths ==
    {[Endpoint(<<Honest(Usual)>>, "served", {}) EXCEPT !.path = "facilitator", !.guilty = {}]}

\* The second probe is offered another price, or nothing that can be read.
Unstable ==
    LET t == Endpoint(<<Honest(Usual)>>, "none", {}) IN
    {[t EXCEPT !.second.doc.accepts[1].amount = "otherPrice", !.guilty = {"PR_012"}],
     [t EXCEPT !.second.header = "absent"], [t EXCEPT !.second.header = "raises"]}

\* jp402 is advertised, and the OpenAPI document has or lacks the invoice terms.
Invoiced ==
    {[Endpoint(<<Honest(Usual)>>, d, {}) EXCEPT
        !.openapi = o, !.guilty = @ \cup (IF o = "badInvoice" THEN {"PR_016"} ELSE {})] :
        d \in {"jp402", "jp402Entry"}, o \in {"noInvoice", "invoice", "badInvoice", "tooDeep"}}

\* An owner puts one of these right, or breaks it otherwise.
Revisited ==
    {OneOfEach(Spoiled(b, d), b, d, a) :
        b \in {Usual, <<"exact", "aptos">>}, d \in {"honest", "missingField", "unknownField"},
        a \in {"none", "v1", "otherResource", "notBase64"}}
      \cup {OneOfEach(Spoiled(Usual, "noDomain"), Usual, "noDomain", "none")}

MCTargets == OneEntry \cup EntryAndAnswer \cup TwoEntries \cup Bypassed \cup FacilitatorPaths
               \cup Unstable \cup Invoiced \cup Revisited
MCCalls ==
    {[target |-> t, marked |-> FALSE] : t \in MCTargets}
        \cup {[target |-> t, marked |-> TRUE] : t \in Bypassed}
MCRedeployed(t) == IF t \in Revisited THEN Revisited ELSE {}

-----------------------------------------------------------------------------
(* A Bazaar of sellers, two of them reached by a redirect.                 *)

CONSTANTS u1, u2, u3, u4, u5, u6, u7, u8, u9, u10, u11, h1, h2

MCWeb ==
    LET place == [host |-> h1, secure |-> TRUE, public |-> TRUE, ascii |-> TRUE,
                  reply |-> "challenge", to |-> u1, payTo |-> "p1"]
        plain == [place EXCEPT !.secure = FALSE]
    IN  u1 :> place
        @@ u2 :> [plain EXCEPT !.reply = "redirect", !.to = u3]
        @@ u3 :> [plain EXCEPT !.host = h2, !.payTo = "p2"]
        @@ u4 :> [place EXCEPT !.host = h2, !.reply = "redirect", !.to = u4]
        @@ u5 :> [place EXCEPT !.reply = "redirect", !.to = u3]
        @@ u6 :> [place EXCEPT !.reply = "redirect", !.to = u6, !.public = FALSE]
        @@ u7 :> [place EXCEPT !.reply = "free"]
        @@ u8 :> [plain EXCEPT !.reply = "redirect", !.to = u9]
        @@ u9 :> [plain EXCEPT !.host = h2, !.reply = "badRedirect"]
        @@ u10 :> [place EXCEPT !.ascii = FALSE]
        @@ u11 :> [plain EXCEPT !.host = h2, !.reply = "undecodable"]

\* Listings of one seller each: live, stale, reached by a redirect, redirecting
\* for ever, redirecting to http, private, free, redirecting to nowhere, at
\* a path that is not ASCII, undecodable.
Sold(u) == [url |-> u, type |-> "http", payTo |-> "p1", scheme |-> "exact", network |-> "n1",
            extension |-> "none", schema |-> "local"]
Live == Sold(u1)
Moved2 == [Sold(u2) EXCEPT !.payTo = "p2", !.type = "mcp"]
Endless == [Sold(u4) EXCEPT !.network = "n2", !.extension = "bazaar"]
Downgraded == [Sold(u5) EXCEPT !.extension = "bazaar", !.schema = "external"]
Stale == [Sold(u1) EXCEPT !.payTo = "p2"]
Private == Sold(u6)
Free == [Sold(u7) EXCEPT !.scheme = "upto"]
Nowhere == Sold(u8)
Accented == Sold(u10)
Garbled == Sold(u11)

MCCatalogues ==
    {<<>>, <<Live>>, <<Stale>>, <<Private>>, <<Live, Moved2>>, <<Moved2, Live>>, <<Stale, Live>>,
     <<Endless, Live>>, <<Live, Endless>>, <<Downgraded, Live>>, <<Moved2, Endless, Live>>,
     <<Private, Stale>>, <<Free, Live>>, <<Endless, Moved2, Stale>>, <<Downgraded, Endless>>,
     <<Nowhere, Live>>, <<Live, Stale, Nowhere>>, <<Accented, Live>>, <<Endless, Garbled>>,
     <<Live, Moved2, Live, Nowhere>>}
MCBazaars == [flaw : Flaws, catalogue : MCCatalogues]
MCNewListings == {Moved2, Downgraded}

-----------------------------------------------------------------------------
\* Every call is answered: retries, variants, redirects and listings are all
\* bounded, and a run that ends badly still ends.
EveryCallAnswers == tool # "idle" ~> tool = "idle"

\* "Stage base64, JSON, and strict schema parsing without raising on hostile input"
\* (build_probe, probe.py:150): no run ends in an exception over what an answer's
\* header holds.
HostileInputIsStaged ==
    step = "crashed" => \A answer \in {first, second} \ {NoAnswer} : ~ProbeRaises(answer)
=============================================================================
