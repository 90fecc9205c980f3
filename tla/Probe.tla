------------------------------- MODULE Probe --------------------------------
(***************************************************************************)
(* One unpaid answer and the staged decoding of its PAYMENT-REQUIRED       *)
(* header: base64, JSON, schema (probe.py, models.py).  A stage that fails *)
(* leaves the later ones without a value, which is what the checks test.   *)
(***************************************************************************)
EXTENDS Naturals, Sequences

Schemes == {"exact", "upto", "batch-settlement", "auth-capture", "unknown"}

\* CAIP-2 namespaces; "bare" is a network name without one.
Families == {"eip155", "solana", "hedera", "starknet", "lnbtc", "cardano", "aptos", "bare"}

\* "number" is not a string; the others are, and "text" is no integer.
Amounts == {"price", "otherPrice", "zero", "text", "number"}

\* Two EVM addresses, one whose checksum is wrong, one of another chain's form.
Addresses == {"evm", "otherEvm", "unsummed", "native"}
IsEvm(address) == address \in {"evm", "otherEvm", "unsummed"}

\* The keys of `extra` the checks tell apart: one or two per vocabulary
\* ("domain" is name and version), two with a meaning of their own, and one that
\* no vocabulary knows.
ExtraKeys == {"domain", "feePayer", "executors", "invoice", "terms", "facilitatorAddress",
              "receiverAuthorizer", "withdrawDelay", "captureMode", "autoCapture", "private"}

\* extra.paymentFlow: absent, defined, another string, a list or an object.
DefinedFlows == {"authorization", "upfront", "escrow"}
Flows == DefinedFlows \cup {"none", "odd", "structured"}

\* One accepts entry.  `complete`: maxTimeoutSeconds is there; `plain`: no field
\* outside the v2 schema.
Entry == [scheme : Schemes, family : Families, amount : Amounts, asset : Addresses,
          payTo : Addresses, extra : SUBSET ExtraKeys, method : {"none", "eip3009", "permit2"},
          flow : Flows, complete : BOOLEAN, plain : BOOLEAN]

\* The decoded challenge.  `text` is what only the JSON text shows: literals that
\* are not JSON, a NaN among those of `accepts`, repeated keys.
Fields ==
    [version : {1, 2, 3}, resource : {"requested", "another", "none"}, info : {"fine", "long"},
     listed : BOOLEAN, accepts : Seq(Entry), extensions : {"none", "whole", "bare"},
     builder : {"none", "noApp", "fine", "badApp", "manyCodes"},
     jp402 : {"none", "plain", "tax", "badTax"},
     text : SUBSET {"literals", "nan", "duplicates"}]

\* builder-code is an extension; jp402 is one too, or a field of an entry that the
\* v2 schema does not know.
Coherent(doc) ==
    /\ doc.builder # "none" => doc.extensions # "none"
    /\ doc.jp402 # "none" =>
          doc.extensions # "none" \/ \E i \in DOMAIN doc.accepts : ~doc.accepts[i].plain
    /\ "nan" \in doc.text => "literals" \in doc.text /\ doc.accepts # <<>>

Document == {doc \in Fields : Coherent(doc)}

\* An answer: its status, the header (absent, not base64, bytes on which json.loads
\* raises what build_probe does not catch, not a JSON object, a document), the
\* document, and the other headers the checks read.
Header == {"absent", "notBase64", "raises", "notJson", "document"}
Response == [status : {200, 402, 404, 429, 500, 503}, header : Header, doc : Document,
             legacy : BOOLEAN, cache : {"none", "private", "public"}]

NoDocument ==
    [version |-> 2, resource |-> "none", info |-> "fine", listed |-> FALSE, accepts |-> <<>>,
     extensions |-> "none", builder |-> "none", jp402 |-> "none", text |-> {}]

Entries(doc) == {doc.accepts[i] : i \in DOMAIN doc.accepts}

\* (mutant) numbers are coerced to strings.
MatchesSchemaCoercing(doc) ==
    /\ doc.resource # "none"
    /\ doc.listed
    /\ \A e \in Entries(doc) : e.complete

\* The pydantic models: required fields and strict strings.
MatchesSchema(doc) ==
    /\ doc.resource # "none"
    /\ doc.listed
    /\ \A e \in Entries(doc) : e.complete /\ e.amount # "number"

-----------------------------------------------------------------------------
(* What build_probe leaves for the checks.                                 *)

\* Bytes that are not UTF-8 and an integer of too many digits are a ValueError,
\* but no JSONDecodeError: there is no probe at all.
ProbeRaises(r) == r.header = "raises"

HasHeader(r) == r.header # "absent"
Decoded(r) == r.header \in {"notJson", "document"}
Raw(r) == r.header = "document"
Parsed(r) == Raw(r) /\ MatchesSchema(r.doc)

\* _accepts_raw, whose None and [] both leave the entry checks nothing.
Inspectable(r) == Raw(r) /\ r.doc.listed /\ r.doc.accepts # <<>>

SpeaksV1(r) == Raw(r) /\ r.doc.version = 1

IsPaywall(r) == r.status = 402 \/ HasHeader(r)
=============================================================================
