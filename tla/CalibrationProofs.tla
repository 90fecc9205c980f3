------------------------- MODULE CalibrationProofs --------------------------
(***************************************************************************)
(* The findings on the calibration target for every price, every set of    *)
(* its bugs and any number of threads.                                     *)
(***************************************************************************)
EXTENDS Calibration, FiniteSetTheorems, TLAPS

-----------------------------------------------------------------------------
(* What each payment breaks.                                               *)

\* The offer attacked, and its variants.
Terms(network, asset, payTo, amount, resource) ==
    [network |-> network, asset |-> asset, payTo |-> payTo, amount |-> amount,
     resource |-> resource]

LEMMA TermsFields ==
  \A n, a, p, m, r :
      LET t == Terms(n, a, p, m, r) IN
      t.network = n /\ t.asset = a /\ t.payTo = p /\ t.amount = m /\ t.resource = r
BY DEF Terms

LEMMA OfferVariants ==
  ASSUME NEW price, NEW x
  PROVE  /\ Offer(price) = Terms("own", "token", "merchant", price, "unset")
         /\ [Offer(price) EXCEPT !.amount = x] = Terms("own", "token", "merchant", x, "unset")
         /\ [Offer(price) EXCEPT !.payTo = x] = Terms("own", "token", x, price, "unset")
         /\ [Offer(price) EXCEPT !.network = x] = Terms(x, "token", "merchant", price, "unset")
         /\ [Offer(price) EXCEPT !.asset = x] = Terms("own", x, "merchant", price, "unset")
BY DEF Offer, Terms

\* A payment's shape, which every attack but the raw headers keeps.
Auth(from, to, value, window, nonce) ==
    [from |-> from, to |-> to, value |-> value, window |-> window, nonce |-> nonce]

Signed(auth, network, asset, key) ==
    [auth |-> auth, network |-> network, asset |-> asset, key |-> key]

Shaped(p, version, accepted, resource, auth, signed) ==
    /\ p.form = "payload" /\ p.version = version /\ p.accepted = accepted
    /\ p.resource = resource /\ p.auth = auth /\ p.signed = signed

\* What building a payment and each way of breaking one make of it.
LEMMA Built ==
  ASSUME NEW network, NEW asset, NEW payTo, NEW amount, NEW resource, NEW window, NEW x
  PROVE  LET offer == Terms(network, asset, payTo, amount, resource)
             auth == Auth("signer", payTo, amount, window, "bytes32")
             signed == Signed(auth, network, asset, "signer")
             p == Build(offer, window)
         IN
         /\ Shaped(p, 2, offer, "own", auth, signed)
         /\ Shaped(Claiming(p, x), 2, x, "own", auth, signed)
         /\ Shaped(TamperSignature(p), 2, offer, "own", auth,
                   Signed(auth, network, asset, "nobody"))
         /\ Shaped(TamperFrom(p, x), 2, offer, "own",
                   Auth(x, payTo, amount, window, "bytes32"), signed)
BY DEF Build, Shaped, Auth, Signed, Claiming, TamperSignature, TamperFrom, Terms

\* The three payments broken outside the builder.
OfVersion(p) == [p EXCEPT !.version = 99]
ShortNonce(p) == [p EXCEPT !.auth.nonce = "twoBytes"]
ForForeign(p) == [p EXCEPT !.resource = "foreign", !.accepted.resource = "foreign"]

LEMMA Altered ==
  ASSUME NEW price
  PROVE  LET auth == Auth("signer", "merchant", price, "open", "bytes32")
             signed == Signed(auth, "own", "token", "signer")
             offer == Terms("own", "token", "merchant", price, "unset")
             p == Build(Offer(price), "open")
         IN
         /\ Shaped(OfVersion(p), 99, offer, "own", auth, signed)
         /\ Shaped(ShortNonce(p), 2, offer, "own",
                   Auth("signer", "merchant", price, "open", "twoBytes"), signed)
         /\ Shaped(ForForeign(p), 2,
                   Terms("own", "token", "merchant", price, "foreign"), "foreign",
                   auth, signed)
<1>1. Build(Offer(price), "open")
        = [form |-> "payload", version |-> 2,
           accepted |-> [network |-> "own", asset |-> "token", payTo |-> "merchant",
                         amount |-> price, resource |-> "unset"],
           resource |-> "own",
           auth |-> [from |-> "signer", to |-> "merchant", value |-> price,
                     window |-> "open", nonce |-> "bytes32"],
           signed |-> Signed(Auth("signer", "merchant", price, "open", "bytes32"),
                             "own", "token", "signer")]
  BY DEF Build, Offer, Auth, Signed
<1>2. QED  BY <1>1 DEF Shaped, Terms, Auth, OfVersion, ShortNonce, ForForeign

LEMMA UnmetMembers ==
  ASSUME NEW p, NEW price
  PROVE  LET unmet == Unmet(p, price) IN
         /\ unmet \subseteq Steps
         /\ "version" \in unmet <=> p.version # 2
         /\ "scheme_network" \in unmet <=> p.accepted.network # "own"
         /\ "resource_bind" \in unmet
              <=> p.resource # "own" \/ p.accepted.resource \notin {"unset", "own"}
         /\ "recipient" \in unmet <=> p.auth.to # "merchant"
         /\ "amount" \in unmet <=> p.auth.value # price
         /\ "time" \in unmet <=> p.auth.window # "open"
         /\ "signature" \in unmet <=> ~SignatureRecovers(p)
BY Zenon DEF Unmet, Steps, VerifySteps

\* What a payment of the shape does not meet, one validation at a time.
LEMMA UnmetShaped ==
  ASSUME NEW p, NEW price, NEW version, NEW accepted, NEW resource, NEW from, NEW to,
         NEW value, NEW window, NEW nonce, NEW signedAuth, NEW network, NEW asset, NEW key,
         Shaped(p, version, accepted, resource, Auth(from, to, value, window, nonce),
                Signed(signedAuth, network, asset, key))
  PROVE  LET unmet == Unmet(p, price) IN
         /\ unmet \subseteq Steps
         /\ "version" \in unmet <=> version # 2
         /\ "scheme_network" \in unmet <=> accepted.network # "own"
         /\ "resource_bind" \in unmet
              <=> resource # "own" \/ accepted.resource \notin {"unset", "own"}
         /\ "recipient" \in unmet <=> to # "merchant"
         /\ "amount" \in unmet <=> value # price
         /\ "time" \in unmet <=> window # "open"
         /\ "signature" \in unmet
              <=> ~(/\ signedAuth = Auth(from, to, value, window, nonce)
                    /\ network = "own" /\ asset = "token" /\ key = from)
<1>1. /\ p.auth = Auth(from, to, value, window, nonce)
      /\ p.accepted = accepted /\ p.version = version /\ p.resource = resource
      /\ p.signed = Signed(signedAuth, network, asset, key)
  BY DEF Shaped
<1>2. p.auth.to = to /\ p.auth.value = value /\ p.auth.window = window /\ p.auth.from = from
  BY <1>1 DEF Auth
<1>3. SignatureRecovers(p)
        <=> signedAuth = p.auth /\ network = "own" /\ asset = "token" /\ key = from
  BY <1>1, <1>2 DEF SignatureRecovers, Signed
<1>4. QED  BY <1>1, <1>2, <1>3, UnmetMembers, Zenon

\* Each check's payment, as its table has it.
LEMMA TheProbes ==
  ASSUME NEW price
  PROVE  LET p == Probes(price)
             v == VerificationProbes(price)
             b == BindingProbes(price)
             e == EdgeProbes(price)
         IN  /\ DOMAIN p = DOMAIN v \cup DOMAIN b \cup DOMAIN e
             /\ \A check \in DOMAIN v : p[check] = v[check]
             /\ \A check \in DOMAIN b : p[check] = b[check]
             /\ \A check \in DOMAIN e : p[check] = e[check]
<1> DEFINE v == VerificationProbes(price)
           b == BindingProbes(price)
           e == EdgeProbes(price)
<1>1. DOMAIN v = {"NEG_001", "NEG_002", "NEG_003", "NEG_004", "NEG_005", "NEG_007",
                  "NEG_008", "NEG_009"}
  BY DEF VerificationProbes
<1>2. DOMAIN b = {"NEG_013", "NEG_014", "NEG_015", "SEC_010", "SEC_003"}
  BY DEF BindingProbes
<1>3. DOMAIN e = {"NEG_006", "SEC_011", "SEC_005", "SEC_007", "SEC_006", "SEC_004",
                  "NEG_011", "NEG_012"}
  BY DEF EdgeProbes
<1>4. Probes(price) = [check \in DOMAIN v \cup DOMAIN b \cup DOMAIN e |->
                         IF check \in DOMAIN v THEN v[check]
                         ELSE IF check \in DOMAIN b THEN b[check] ELSE e[check]]
  BY DEF Probes
<1> HIDE DEF v, b, e
<1>5. QED  BY <1>1, <1>2, <1>3, <1>4 DEF v, b, e

\* What verification must find.
LEMMA VerificationTable ==
  ASSUME NEW price
  PROVE  LET p == Probes(price)
             offer == Terms("own", "token", "merchant", price, "unset")
             valid == Build(offer, "open")
         IN  /\ p["NEG_001"] = Raw("notBase64")
             /\ p["NEG_002"] = Raw("notJson")
             /\ p["NEG_003"] = TamperSignature(valid)
             /\ p["NEG_004"] = TamperFrom(valid, "attacker")
             /\ p["NEG_005"]
                  = Claiming(Build(Terms("own", "token", "merchant", Larger(1, price \div 2), "unset"),
                                   "open"), offer)
             /\ p["NEG_007"]
                  = Claiming(Build(Terms("own", "token", "attacker", price, "unset"),
                                   "open"), offer)
             /\ p["NEG_008"] = Build(offer, "expired")
             /\ p["NEG_009"] = Build(offer, "future")
<1> DEFINE t == VerificationProbes(price)
           offer == Terms("own", "token", "merchant", price, "unset")
           valid == Build(offer, "open")
<1>1. DOMAIN t
        = {"NEG_001", "NEG_002", "NEG_003", "NEG_004", "NEG_005", "NEG_007", "NEG_008", "NEG_009"}
  BY DEF VerificationProbes
<1>2. t["NEG_001"] = Raw("notBase64")
  BY DEF VerificationProbes
<1>3. t["NEG_002"] = Raw("notJson")
  BY DEF VerificationProbes
<1>4. t["NEG_003"] = TamperSignature(valid)
  <2>1. t["NEG_003"] = TamperSignature(Build(Offer(price), "open"))
    BY DEF VerificationProbes
  <2>2. QED  BY <2>1, OfferVariants, Zenon
<1>5. t["NEG_004"] = TamperFrom(valid, "attacker")
  <2>1. t["NEG_004"] = TamperFrom(Build(Offer(price), "open"), "attacker")
    BY DEF VerificationProbes
  <2>2. QED  BY <2>1, OfferVariants, Zenon
<1>6. t["NEG_005"]
        = Claiming(Build(Terms("own", "token", "merchant", Larger(1, price \div 2), "unset"),
                         "open"), offer)
  <2> DEFINE x == Larger(1, price \div 2)
  <2>1. t["NEG_005"] = Claiming(Build([Offer(price) EXCEPT !.amount = x], "open"), Offer(price))
    BY DEF VerificationProbes, Underpayment
  <2> HIDE DEF x
  <2>2. t["NEG_005"] = Claiming(Build(Terms("own", "token", "merchant", x, "unset"), "open"), offer)
    BY <2>1, OfferVariants, Zenon
  <2>3. QED  BY <2>2 DEF x
<1>7. t["NEG_007"]
        = Claiming(Build(Terms("own", "token", "attacker", price, "unset"), "open"), offer)
  <2>1. t["NEG_007"]
          = Claiming(Build([Offer(price) EXCEPT !.payTo = "attacker"], "open"), Offer(price))
    BY DEF VerificationProbes
  <2>2. QED  BY <2>1, OfferVariants, Zenon
<1>8. t["NEG_008"] = Build(offer, "expired")
  <2>1. t["NEG_008"] = Build(Offer(price), "expired")
    BY DEF VerificationProbes
  <2>2. QED  BY <2>1, OfferVariants, Zenon
<1>9. t["NEG_009"] = Build(offer, "future")
  <2>1. t["NEG_009"] = Build(Offer(price), "future")
    BY DEF VerificationProbes
  <2>2. QED  BY <2>1, OfferVariants, Zenon
<1> HIDE DEF t
<1>10. \A check \in DOMAIN t : Probes(price)[check] = t[check]
  BY TheProbes DEF t
<1>11. QED  BY <1>1, <1>2, <1>3, <1>4, <1>5, <1>6, <1>7, <1>8, <1>9, <1>10

\* What the payment is bound to.
LEMMA BindingTable ==
  ASSUME NEW price
  PROVE  LET p == Probes(price)
             offer == Terms("own", "token", "merchant", price, "unset")
             valid == Build(offer, "open")
         IN  /\ p["NEG_013"] = Build(Terms("own", "token", "merchant", 1, "unset"), "open")
             /\ p["NEG_014"] = Build(Terms("own", "otherToken", "merchant", price, "unset"), "open")
             /\ p["NEG_015"] = Build(Terms("own", "account", "merchant", price, "unset"), "open")
             /\ p["SEC_010"]
                  = Claiming(Build(Terms("foreign", "token", "merchant", price, "unset"),
                                   "open"), offer)
             /\ p["SEC_003"] = ForForeign(Build(Offer(price), "open"))
<1> DEFINE t == BindingProbes(price)
           offer == Terms("own", "token", "merchant", price, "unset")
           valid == Build(offer, "open")
<1>1. DOMAIN t = {"NEG_013", "NEG_014", "NEG_015", "SEC_010", "SEC_003"}
  BY DEF BindingProbes
<1>2. t["NEG_013"] = Build(Terms("own", "token", "merchant", 1, "unset"), "open")
  <2> DEFINE x == 1
  <2>1. t["NEG_013"] = Build([Offer(price) EXCEPT !.amount = x], "open")
    BY DEF BindingProbes
  <2> HIDE DEF x
  <2>2. t["NEG_013"] = Build(Terms("own", "token", "merchant", x, "unset"), "open")
    BY <2>1, OfferVariants, Zenon
  <2>3. QED  BY <2>2 DEF x
<1>3. t["NEG_014"] = Build(Terms("own", "otherToken", "merchant", price, "unset"), "open")
  <2>1. t["NEG_014"] = Build([Offer(price) EXCEPT !.asset = "otherToken"], "open")
    BY DEF BindingProbes
  <2>2. QED  BY <2>1, OfferVariants, Zenon
<1>4. t["NEG_015"] = Build(Terms("own", "account", "merchant", price, "unset"), "open")
  <2>1. t["NEG_015"] = Build([Offer(price) EXCEPT !.asset = "account"], "open")
    BY DEF BindingProbes
  <2>2. QED  BY <2>1, OfferVariants, Zenon
<1>5. t["SEC_010"]
        = Claiming(Build(Terms("foreign", "token", "merchant", price, "unset"), "open"), offer)
  <2>1. t["SEC_010"]
          = Claiming(Build([Offer(price) EXCEPT !.network = "foreign"], "open"), Offer(price))
    BY DEF BindingProbes
  <2>2. QED  BY <2>1, OfferVariants, Zenon
<1>6. t["SEC_003"] = ForForeign(Build(Offer(price), "open"))
  BY DEF BindingProbes, ForForeign
<1> HIDE DEF t
<1>7. \A check \in DOMAIN t : Probes(price)[check] = t[check]
  BY TheProbes DEF t
<1>8. QED  BY <1>1, <1>2, <1>3, <1>4, <1>5, <1>6, <1>7

\* Values and headers at the edges.
LEMMA EdgeTable ==
  ASSUME NEW price
  PROVE  LET p == Probes(price)
             offer == Terms("own", "token", "merchant", price, "unset")
             valid == Build(offer, "open")
         IN  /\ p["NEG_006"] = Build(Terms("own", "token", "merchant", 2 * price, "unset"), "open")
             /\ p["SEC_011"] = Build(Terms("own", "token", "merchant", Huge, "unset"), "open")
             /\ p["SEC_005"] = Raw("oversized")
             /\ p["SEC_007"] = TamperFrom(valid, "mangled")
             /\ p["SEC_006"] = TamperSignature(valid)
             /\ p["SEC_004"] = ShortNonce(Build(Offer(price), "open"))
             /\ p["NEG_011"]
                  = Claiming(valid, Terms("unoffered", "token", "merchant", price, "unset"))
             /\ p["NEG_012"] = OfVersion(Build(Offer(price), "open"))
<1> DEFINE t == EdgeProbes(price)
           offer == Terms("own", "token", "merchant", price, "unset")
           valid == Build(offer, "open")
<1>1. DOMAIN t
        = {"NEG_006", "SEC_011", "SEC_005", "SEC_007", "SEC_006", "SEC_004", "NEG_011", "NEG_012"}
  BY DEF EdgeProbes
<1>2. t["NEG_006"] = Build(Terms("own", "token", "merchant", 2 * price, "unset"), "open")
  <2> DEFINE x == 2 * price
  <2>1. t["NEG_006"] = Build([Offer(price) EXCEPT !.amount = x], "open")
    BY DEF EdgeProbes
  <2> HIDE DEF x
  <2>2. t["NEG_006"] = Build(Terms("own", "token", "merchant", x, "unset"), "open")
    BY <2>1, OfferVariants, Zenon
  <2>3. QED  BY <2>2 DEF x
<1>3. t["SEC_011"] = Build(Terms("own", "token", "merchant", Huge, "unset"), "open")
  <2>1. t["SEC_011"] = Build([Offer(price) EXCEPT !.amount = Huge], "open")
    BY DEF EdgeProbes
  <2>2. QED  BY <2>1, OfferVariants, Zenon
<1>4. t["SEC_005"] = Raw("oversized")
  BY DEF EdgeProbes
<1>5. t["SEC_007"] = TamperFrom(valid, "mangled")
  <2>1. t["SEC_007"] = TamperFrom(Build(Offer(price), "open"), "mangled")
    BY DEF EdgeProbes
  <2>2. QED  BY <2>1, OfferVariants, Zenon
<1>6. t["SEC_006"] = TamperSignature(valid)
  <2>1. t["SEC_006"] = TamperSignature(Build(Offer(price), "open"))
    BY DEF EdgeProbes
  <2>2. QED  BY <2>1, OfferVariants, Zenon
<1>7. t["SEC_004"] = ShortNonce(Build(Offer(price), "open"))
  BY DEF EdgeProbes, ShortNonce
<1>8. t["NEG_011"] = Claiming(valid, Terms("unoffered", "token", "merchant", price, "unset"))
  <2>1. t["NEG_011"]
          = Claiming(Build(Offer(price), "open"), [Offer(price) EXCEPT !.network = "unoffered"])
    BY DEF EdgeProbes
  <2>2. QED  BY <2>1, OfferVariants, Zenon
<1>9. t["NEG_012"] = OfVersion(Build(Offer(price), "open"))
  BY DEF EdgeProbes, OfVersion
<1> HIDE DEF t
<1>10. \A check \in DOMAIN t : Probes(price)[check] = t[check]
  BY TheProbes DEF t
<1>11. QED  BY <1>1, <1>2, <1>3, <1>4, <1>5, <1>6, <1>7, <1>8, <1>9, <1>10

\* Checks that send a payment, well formed but for one thing.
Payments == {"NEG_003", "NEG_004", "NEG_005", "NEG_007", "NEG_008", "NEG_009",
             "NEG_013", "NEG_014", "NEG_015", "SEC_010", "SEC_003", "NEG_006",
             "SEC_011", "SEC_007", "SEC_006", "SEC_004", "NEG_011", "NEG_012"}

\* The one thing each of them breaks.
Defect(check) ==
    CASE check \in {"NEG_005", "NEG_006", "NEG_013", "SEC_011"} -> "amount"
      [] check = "NEG_007" -> "recipient"
      [] check \in {"NEG_008", "NEG_009"} -> "time"
      [] check = "NEG_011" -> "scheme_network"
      [] check = "NEG_012" -> "version"
      [] check = "SEC_003" -> "resource_bind"
      [] OTHER -> "signature"

\* The prices at which a check's payment is another than the price.
Applies(check, price) ==
    /\ check = "NEG_005" => price > 1
    /\ check = "NEG_013" => price # 1
    /\ check = "NEG_006" => price # 0

LEMMA Amounts ==
  ASSUME NEW price \in Nat, 2 * price <= Extreme
  PROVE  /\ price > 1 => Larger(1, price \div 2) # price
         /\ price # 0 => 2 * price # price
         /\ Huge # price
         /\ Huge > Extreme /\ ~(price > Extreme) /\ ~(1 > Extreme) /\ ~(2 * price > Extreme)
         /\ ~(Larger(1, price \div 2) > Extreme)
BY TargetAssumption DEF Larger

LEMMA AuthFields ==
  \A f, t, v, w, n, f2, t2, v2, w2, n2 :
      Auth(f, t, v, w, n) = Auth(f2, t2, v2, w2, n2)
        <=> f = f2 /\ t = t2 /\ v = v2 /\ w = w2 /\ n = n2
BY DEF Auth

\* Every payment of the group breaks one validation and no other, whatever the
\* price: the payments are what their docstrings say (negative.py:3-6).
THEOREM OneDefect ==
  ASSUME NEW price \in Nat, 2 * price <= Extreme, NEW check \in Payments,
         Applies(check, price)
  PROVE  /\ Probes(price)[check].form = "payload"
         /\ Unmet(Probes(price)[check], price) = {Defect(check)}
         /\ Probes(price)[check].auth.value > Extreme <=> check = "SEC_011"
<1> DEFINE half == Larger(1, price \div 2)
           p == Probes(price)[check]
<1>1. CASE check = "NEG_003"
  <2>1. Shaped(p, 2, Terms("own", "token", "merchant", price, "unset"), "own",
               Auth("signer", "merchant", price, "open", "bytes32"),
               Signed(Auth("signer", "merchant", price, "open", "bytes32"),
                      "own", "token", "nobody"))
    BY <1>1, VerificationTable, Built, Zenon
  <2>2. Unmet(p, price) = {"signature"}
    BY <1>1, <2>1, UnmetShaped, TermsFields DEF Steps, VerifySteps
  <2>4. p.auth.value > Extreme <=> check = "SEC_011"
    BY <1>1, <2>1, Amounts DEF Shaped, Auth
  <2> QED  BY <1>1, <2>1, <2>2, <2>4 DEF Shaped, Defect
<1>2. CASE check = "NEG_004"
  <2>1. Shaped(p, 2, Terms("own", "token", "merchant", price, "unset"), "own",
               Auth("attacker", "merchant", price, "open", "bytes32"),
               Signed(Auth("signer", "merchant", price, "open", "bytes32"),
                      "own", "token", "signer"))
    BY <1>2, VerificationTable, Built, Zenon
  <2>2. Unmet(p, price) = {"signature"}
    BY <1>2, <2>1, UnmetShaped, TermsFields DEF Steps, VerifySteps
  <2>4. p.auth.value > Extreme <=> check = "SEC_011"
    BY <1>2, <2>1, Amounts DEF Shaped, Auth
  <2> QED  BY <1>2, <2>1, <2>2, <2>4 DEF Shaped, Defect
<1>3. CASE check = "NEG_005"
  <2>1. Shaped(p, 2, Terms("own", "token", "merchant", price, "unset"), "own",
               Auth("signer", "merchant", half, "open", "bytes32"),
               Signed(Auth("signer", "merchant", half, "open", "bytes32"),
                      "own", "token", "signer"))
    BY <1>3, VerificationTable, Built, Zenon
  <2>2. Unmet(p, price) = {"amount"}
    BY <1>3, <2>1, UnmetShaped, TermsFields, Amounts DEF Steps, VerifySteps, Applies
  <2>4. p.auth.value > Extreme <=> check = "SEC_011"
    BY <1>3, <2>1, Amounts DEF Shaped, Auth
  <2> QED  BY <1>3, <2>1, <2>2, <2>4 DEF Shaped, Defect
<1>4. CASE check = "NEG_007"
  <2>1. Shaped(p, 2, Terms("own", "token", "merchant", price, "unset"), "own",
               Auth("signer", "attacker", price, "open", "bytes32"),
               Signed(Auth("signer", "attacker", price, "open", "bytes32"),
                      "own", "token", "signer"))
    BY <1>4, VerificationTable, Built, Zenon
  <2>2. Unmet(p, price) = {"recipient"}
    BY <1>4, <2>1, UnmetShaped, TermsFields DEF Steps, VerifySteps
  <2>4. p.auth.value > Extreme <=> check = "SEC_011"
    BY <1>4, <2>1, Amounts DEF Shaped, Auth
  <2> QED  BY <1>4, <2>1, <2>2, <2>4 DEF Shaped, Defect
<1>5. CASE check = "NEG_008"
  <2>1. Shaped(p, 2, Terms("own", "token", "merchant", price, "unset"), "own",
               Auth("signer", "merchant", price, "expired", "bytes32"),
               Signed(Auth("signer", "merchant", price, "expired", "bytes32"),
                      "own", "token", "signer"))
    BY <1>5, VerificationTable, Built, Zenon
  <2>2. Unmet(p, price) = {"time"}
    BY <1>5, <2>1, UnmetShaped, TermsFields DEF Steps, VerifySteps
  <2>4. p.auth.value > Extreme <=> check = "SEC_011"
    BY <1>5, <2>1, Amounts DEF Shaped, Auth
  <2> QED  BY <1>5, <2>1, <2>2, <2>4 DEF Shaped, Defect
<1>6. CASE check = "NEG_009"
  <2>1. Shaped(p, 2, Terms("own", "token", "merchant", price, "unset"), "own",
               Auth("signer", "merchant", price, "future", "bytes32"),
               Signed(Auth("signer", "merchant", price, "future", "bytes32"),
                      "own", "token", "signer"))
    BY <1>6, VerificationTable, Built, Zenon
  <2>2. Unmet(p, price) = {"time"}
    BY <1>6, <2>1, UnmetShaped, TermsFields DEF Steps, VerifySteps
  <2>4. p.auth.value > Extreme <=> check = "SEC_011"
    BY <1>6, <2>1, Amounts DEF Shaped, Auth
  <2> QED  BY <1>6, <2>1, <2>2, <2>4 DEF Shaped, Defect
<1>7. CASE check = "NEG_013"
  <2>1. Shaped(p, 2, Terms("own", "token", "merchant", 1, "unset"), "own",
               Auth("signer", "merchant", 1, "open", "bytes32"),
               Signed(Auth("signer", "merchant", 1, "open", "bytes32"), "own", "token", "signer"))
    BY <1>7, BindingTable, Built, Zenon
  <2>2. Unmet(p, price) = {"amount"}
    BY <1>7, <2>1, UnmetShaped, TermsFields, Amounts DEF Steps, VerifySteps, Applies
  <2>4. p.auth.value > Extreme <=> check = "SEC_011"
    BY <1>7, <2>1, Amounts DEF Shaped, Auth
  <2> QED  BY <1>7, <2>1, <2>2, <2>4 DEF Shaped, Defect
<1>8. CASE check = "NEG_014"
  <2>1. Shaped(p, 2, Terms("own", "otherToken", "merchant", price, "unset"), "own",
               Auth("signer", "merchant", price, "open", "bytes32"),
               Signed(Auth("signer", "merchant", price, "open", "bytes32"),
                      "own", "otherToken", "signer"))
    BY <1>8, BindingTable, Built, Zenon
  <2>2. Unmet(p, price) = {"signature"}
    BY <1>8, <2>1, UnmetShaped, TermsFields DEF Steps, VerifySteps
  <2>4. p.auth.value > Extreme <=> check = "SEC_011"
    BY <1>8, <2>1, Amounts DEF Shaped, Auth
  <2> QED  BY <1>8, <2>1, <2>2, <2>4 DEF Shaped, Defect
<1>9. CASE check = "NEG_015"
  <2>1. Shaped(p, 2, Terms("own", "account", "merchant", price, "unset"), "own",
               Auth("signer", "merchant", price, "open", "bytes32"),
               Signed(Auth("signer", "merchant", price, "open", "bytes32"),
                      "own", "account", "signer"))
    BY <1>9, BindingTable, Built, Zenon
  <2>2. Unmet(p, price) = {"signature"}
    BY <1>9, <2>1, UnmetShaped, TermsFields DEF Steps, VerifySteps
  <2>4. p.auth.value > Extreme <=> check = "SEC_011"
    BY <1>9, <2>1, Amounts DEF Shaped, Auth
  <2> QED  BY <1>9, <2>1, <2>2, <2>4 DEF Shaped, Defect
<1>10. CASE check = "SEC_010"
  <2>1. Shaped(p, 2, Terms("own", "token", "merchant", price, "unset"), "own",
               Auth("signer", "merchant", price, "open", "bytes32"),
               Signed(Auth("signer", "merchant", price, "open", "bytes32"),
                      "foreign", "token", "signer"))
    BY <1>10, BindingTable, Built, Zenon
  <2>2. Unmet(p, price) = {"signature"}
    BY <1>10, <2>1, UnmetShaped, TermsFields DEF Steps, VerifySteps
  <2>4. p.auth.value > Extreme <=> check = "SEC_011"
    BY <1>10, <2>1, Amounts DEF Shaped, Auth
  <2> QED  BY <1>10, <2>1, <2>2, <2>4 DEF Shaped, Defect
<1>11. CASE check = "SEC_003"
  <2>1. Shaped(p, 2, Terms("own", "token", "merchant", price, "foreign"), "foreign",
               Auth("signer", "merchant", price, "open", "bytes32"),
               Signed(Auth("signer", "merchant", price, "open", "bytes32"),
                      "own", "token", "signer"))
    BY <1>11, BindingTable, Altered, Zenon
  <2>2. Unmet(p, price) = {"resource_bind"}
    BY <1>11, <2>1, UnmetShaped, TermsFields DEF Steps, VerifySteps
  <2>4. p.auth.value > Extreme <=> check = "SEC_011"
    BY <1>11, <2>1, Amounts DEF Shaped, Auth
  <2> QED  BY <1>11, <2>1, <2>2, <2>4 DEF Shaped, Defect
<1>12. CASE check = "NEG_006"
  <2>1. Shaped(p, 2, Terms("own", "token", "merchant", 2 * price, "unset"), "own",
               Auth("signer", "merchant", 2 * price, "open", "bytes32"),
               Signed(Auth("signer", "merchant", 2 * price, "open", "bytes32"),
                      "own", "token", "signer"))
    BY <1>12, EdgeTable, Built, Zenon
  <2>2. Unmet(p, price) = {"amount"}
    BY <1>12, <2>1, UnmetShaped, TermsFields, Amounts DEF Steps, VerifySteps, Applies
  <2>4. p.auth.value > Extreme <=> check = "SEC_011"
    BY <1>12, <2>1, Amounts DEF Shaped, Auth
  <2> QED  BY <1>12, <2>1, <2>2, <2>4 DEF Shaped, Defect
<1>13. CASE check = "SEC_011"
  <2>1. Shaped(p, 2, Terms("own", "token", "merchant", Huge, "unset"), "own",
               Auth("signer", "merchant", Huge, "open", "bytes32"),
               Signed(Auth("signer", "merchant", Huge, "open", "bytes32"),
                      "own", "token", "signer"))
    BY <1>13, EdgeTable, Built, Zenon
  <2>2. Unmet(p, price) = {"amount"}
    BY <1>13, <2>1, UnmetShaped, TermsFields, Amounts DEF Steps, VerifySteps, Applies
  <2>4. p.auth.value > Extreme <=> check = "SEC_011"
    BY <1>13, <2>1, Amounts DEF Shaped, Auth
  <2> QED  BY <1>13, <2>1, <2>2, <2>4 DEF Shaped, Defect
<1>14. CASE check = "SEC_007"
  <2>1. Shaped(p, 2, Terms("own", "token", "merchant", price, "unset"), "own",
               Auth("mangled", "merchant", price, "open", "bytes32"),
               Signed(Auth("signer", "merchant", price, "open", "bytes32"),
                      "own", "token", "signer"))
    BY <1>14, EdgeTable, Built, Zenon
  <2>2. Unmet(p, price) = {"signature"}
    BY <1>14, <2>1, UnmetShaped, TermsFields DEF Steps, VerifySteps
  <2>4. p.auth.value > Extreme <=> check = "SEC_011"
    BY <1>14, <2>1, Amounts DEF Shaped, Auth
  <2> QED  BY <1>14, <2>1, <2>2, <2>4 DEF Shaped, Defect
<1>15. CASE check = "SEC_006"
  <2>1. Shaped(p, 2, Terms("own", "token", "merchant", price, "unset"), "own",
               Auth("signer", "merchant", price, "open", "bytes32"),
               Signed(Auth("signer", "merchant", price, "open", "bytes32"),
                      "own", "token", "nobody"))
    BY <1>15, EdgeTable, Built, Zenon
  <2>2. Unmet(p, price) = {"signature"}
    BY <1>15, <2>1, UnmetShaped, TermsFields DEF Steps, VerifySteps
  <2>4. p.auth.value > Extreme <=> check = "SEC_011"
    BY <1>15, <2>1, Amounts DEF Shaped, Auth
  <2> QED  BY <1>15, <2>1, <2>2, <2>4 DEF Shaped, Defect
<1>16. CASE check = "SEC_004"
  <2>1. Shaped(p, 2, Terms("own", "token", "merchant", price, "unset"), "own",
               Auth("signer", "merchant", price, "open", "twoBytes"),
               Signed(Auth("signer", "merchant", price, "open", "bytes32"),
                      "own", "token", "signer"))
    BY <1>16, EdgeTable, Altered, Zenon
  <2>3. Auth("signer", "merchant", price, "open", "bytes32")
        # Auth("signer", "merchant", price, "open", "twoBytes")
    BY AuthFields
  <2>2. Unmet(p, price) = {"signature"}
    BY <1>16, <2>1, UnmetShaped, TermsFields, <2>3 DEF Steps, VerifySteps
  <2>4. p.auth.value > Extreme <=> check = "SEC_011"
    BY <1>16, <2>1, Amounts DEF Shaped, Auth
  <2> QED  BY <1>16, <2>1, <2>2, <2>4 DEF Shaped, Defect
<1>17. CASE check = "NEG_011"
  <2>1. Shaped(p, 2, Terms("unoffered", "token", "merchant", price, "unset"), "own",
               Auth("signer", "merchant", price, "open", "bytes32"),
               Signed(Auth("signer", "merchant", price, "open", "bytes32"),
                      "own", "token", "signer"))
    BY <1>17, EdgeTable, Built, Zenon
  <2>2. Unmet(p, price) = {"scheme_network"}
    BY <1>17, <2>1, UnmetShaped, TermsFields DEF Steps, VerifySteps
  <2>4. p.auth.value > Extreme <=> check = "SEC_011"
    BY <1>17, <2>1, Amounts DEF Shaped, Auth
  <2> QED  BY <1>17, <2>1, <2>2, <2>4 DEF Shaped, Defect
<1>18. CASE check = "NEG_012"
  <2>1. Shaped(p, 99, Terms("own", "token", "merchant", price, "unset"), "own",
               Auth("signer", "merchant", price, "open", "bytes32"),
               Signed(Auth("signer", "merchant", price, "open", "bytes32"),
                      "own", "token", "signer"))
    BY <1>18, EdgeTable, Altered, Zenon
  <2>2. Unmet(p, price) = {"version"}
    BY <1>18, <2>1, UnmetShaped, TermsFields DEF Steps, VerifySteps
  <2>4. p.auth.value > Extreme <=> check = "SEC_011"
    BY <1>18, <2>1, Amounts DEF Shaped, Auth
  <2> QED  BY <1>18, <2>1, <2>2, <2>4 DEF Shaped, Defect
<1>19. QED  BY <1>1, <1>2, <1>3, <1>4, <1>5, <1>6, <1>7, <1>8, <1>9,
           <1>10, <1>11, <1>12, <1>13, <1>14, <1>15, <1>16, <1>17, <1>18 DEF Payments

LEMMA ProbeDomain ==
  ASSUME NEW price
  PROVE  DOMAIN Probes(price) = Payments \cup {"NEG_001", "NEG_002", "SEC_005"}
<1>1. DOMAIN VerificationProbes(price)
        = {"NEG_001", "NEG_002", "NEG_003", "NEG_004", "NEG_005", "NEG_007", "NEG_008", "NEG_009"}
  BY DEF VerificationProbes
<1>2. DOMAIN BindingProbes(price) = {"NEG_013", "NEG_014", "NEG_015", "SEC_010", "SEC_003"}
  BY DEF BindingProbes
<1>3. DOMAIN EdgeProbes(price)
        = {"NEG_006", "SEC_011", "SEC_005", "SEC_007", "SEC_006", "SEC_004", "NEG_011", "NEG_012"}
  BY DEF EdgeProbes
<1>4. DOMAIN Probes(price)
        = DOMAIN VerificationProbes(price) \cup DOMAIN BindingProbes(price)
            \cup DOMAIN EdgeProbes(price)
  BY TheProbes, Zenon
<1>5. QED  BY <1>1, <1>2, <1>3, <1>4 DEF Payments

-----------------------------------------------------------------------------
(* The verdict on the answer.                                              *)

\* A group's setup, whatever the group.
LEMMA SetupFields ==
  ASSUME setup \in Setup
  PROVE  /\ setup.price \in Nat /\ 2 * setup.price <= Extreme
         /\ setup.bugs \subseteq BugNames /\ setup.marker \in BOOLEAN
         /\ setup.command \in {"check", "facilitator"} /\ setup.there \in BOOLEAN
         /\ setup.command = "check" => setup.there
BY DEF Setup, Command

\* What the target answers a payment with one defect.
LEMMA AnswerToDefect ==
  ASSUME NEW p, NEW price, NEW bugs, NEW defect,
         p.form = "payload", Unmet(p, price) = {defect},
         ~("crash_huge" \in bugs /\ p.auth.value > Extreme)
  PROVE  GetPaid(p, price, bugs)
           = IF defect \in bugs THEN Response(200, "success", "marked")
             ELSE Response(402, "failure", IF "leak" \in bugs THEN "marked" ELSE "plain")
BY DEF GetPaid

\* How each answer of the target is judged.
LEMMA Judgement ==
  ASSUME NEW check, NEW looked \in BOOLEAN, NEW body
  PROVE  LET verdict(status, settlement) ==
               AssertRejected(Response(status, settlement, body), AllowedStatuses(check), looked)
         IN
         /\ verdict(200, "success") = "fail"
         /\ verdict(500, "none") = "fail"
         /\ check \in Payments =>
              verdict(402, "failure") = IF looked /\ body = "marked" THEN "fail" ELSE "pass"
         /\ check \in {"NEG_001", "NEG_002"} /\ body = "plain" => verdict(400, "none") = "pass"
         /\ check = "SEC_005" /\ body = "plain" => verdict(431, "none") = "pass"
<1> DEFINE verdict(status, settlement) ==
             AssertRejected(Response(status, settlement, body), AllowedStatuses(check), looked)
<1>1. \A status, settlement :
        LET r == Response(status, settlement, body) IN
        r.status = status /\ r.settlement = settlement /\ r.body = body
  BY DEF Response
<1>2. check \in Payments => 402 \in AllowedStatuses(check)
  BY DEF AllowedStatuses, Payments
<1>3. check \in {"NEG_001", "NEG_002"} => 400 \in AllowedStatuses(check)
  BY DEF AllowedStatuses
<1>4. check = "SEC_005" => 431 \in AllowedStatuses(check)
  BY DEF AllowedStatuses
<1>5. verdict(200, "success") = "fail" /\ verdict(500, "none") = "fail"
  BY <1>1 DEF AssertRejected
<1>6. ASSUME check \in Payments
      PROVE  verdict(402, "failure") = IF looked /\ body = "marked" THEN "fail" ELSE "pass"
  BY <1>1, <1>2, <1>6 DEF AssertRejected
<1>7. ASSUME check \in {"NEG_001", "NEG_002"}, body = "plain"
      PROVE  verdict(400, "none") = "pass"
  BY <1>1, <1>3, <1>7 DEF AssertRejected
<1>8. ASSUME check = "SEC_005", body = "plain"
      PROVE  verdict(431, "none") = "pass"
  BY <1>1, <1>4, <1>8 DEF AssertRejected
<1>9. QED  BY <1>5, <1>6, <1>7, <1>8

\* A payment is refused unless the one validation it breaks is missing, and a
\* refusal fails only for the marker.
LEMMA AnswerVerdict ==
  ASSUME NEW price, NEW bugs, NEW looked \in BOOLEAN, NEW check \in Payments, NEW p,
         p.form = "payload", Unmet(p, price) = {Defect(check)},
         p.auth.value > Extreme <=> check = "SEC_011"
  PROVE  AssertRejected(GetPaid(p, price, bugs), AllowedStatuses(check), looked)
           = IF \/ "crash_huge" \in bugs /\ check = "SEC_011"
                \/ Defect(check) \in bugs
                \/ "leak" \in bugs /\ looked
             THEN "fail" ELSE "pass"
<1>1. CASE "crash_huge" \in bugs /\ check = "SEC_011"
  <2>1. GetPaid(p, price, bugs) = Response(500, "none", "plain")
    BY <1>1 DEF GetPaid
  <2>2. QED  BY <1>1, <2>1, Judgement
<1>2. CASE ~("crash_huge" \in bugs /\ check = "SEC_011")
  BY <1>2, AnswerToDefect, Judgement
<1>3. QED  BY <1>1, <1>2

LEMMA ActiveStatus ==
  ASSUME NEW check, ~Inapplicable(check, setup.price)
  PROVE  RunActive(check).status
           = AssertRejected(GetPaid(Probes(setup.price)[check], setup.price, setup.bugs),
                            AllowedStatuses(check), setup.marker)
BY DEF RunActive, Judged

\* An active check that sends a payment.
LEMMA PaymentVerdict ==
  ASSUME setup \in Setup, setup.command = "check", NEW check \in Payments,
         ~Inapplicable(check, setup.price), ~PaysThePrice(check)
  PROVE  RunActive(check).status = "fail" <=> Guilty(check)
<1> DEFINE price == setup.price
           bugs == setup.bugs
           p == Probes(price)[check]
<1>1. price \in Nat /\ 2 * price <= Extreme /\ setup.marker \in BOOLEAN
  BY SetupFields
<1>2. Applies(check, price)
  BY <1>1 DEF Applies, Inapplicable, PaysThePrice
<1>3. /\ p.form = "payload" /\ Unmet(p, price) = {Defect(check)}
      /\ p.auth.value > Extreme <=> check = "SEC_011"
  BY <1>1, <1>2, OneDefect
<1>4. check \in DOMAIN Probes(price)
  BY ProbeDomain
<1>5. Guilty(check) <=> \/ "crash_huge" \in bugs /\ check = "SEC_011"
                        \/ Defect(check) \in bugs
                        \/ "leak" \in bugs /\ setup.marker
  <2>1. Leakable(check)
    BY <1>3, <1>4 DEF Leakable
  <2>2. Culprits(check) = IF check = "SEC_011" THEN {Defect(check), "crash_huge"}
                          ELSE {Defect(check)}
    BY DEF Culprits, Defect, Payments
  <2>3. QED  BY <2>1, <2>2 DEF Guilty
<1>6. QED  BY <1>1, <1>3, <1>5, ActiveStatus, AnswerVerdict

\* A header that holds no payment is refused, and an unoffered builder code is
\* not asked for.
LEMMA HeaderVerdict ==
  ASSUME setup \in Setup, setup.command = "check",
         NEW check \in {"NEG_001", "NEG_002", "SEC_005", "NEG_016"}
  PROVE  /\ RunActive(check).status = IF check = "NEG_016" THEN "skip" ELSE "pass"
         /\ ~Guilty(check)
<1> DEFINE price == setup.price
           bugs == setup.bugs
           p == Probes(price)[check]
<1>1. check = "SEC_005" => p.form = "oversized"
  BY EdgeTable DEF Raw
<1>2. check = "NEG_001" => p.form = "notBase64"
  BY VerificationTable DEF Raw
<1>3. check = "NEG_002" => p.form = "notJson"
  BY VerificationTable DEF Raw
<1>4. ~Leakable(check)
  BY <1>1, <1>2, <1>3, ProbeDomain DEF Leakable, Payments
<1>5. ~Guilty(check)
  BY <1>4 DEF Guilty, Culprits
<1>6. CASE check = "NEG_016"
  BY <1>5, <1>6 DEF RunActive, Inapplicable, Judged
<1>7. CASE check # "NEG_016"
  <2>1. ~Inapplicable(check, price)
    BY <1>7 DEF Inapplicable
  <2>2. GetPaid(p, price, bugs) = IF check = "SEC_005" THEN Response(431, "none", "plain")
                                  ELSE Response(400, "none", "plain")
    BY <1>1, <1>2, <1>3, <1>7 DEF GetPaid
  <2>3. setup.marker \in BOOLEAN
    BY SetupFields
  <2>4. QED  BY <1>5, <1>7, <2>1, <2>2, <2>3, ActiveStatus, Judgement
<1>8. QED  BY <1>6, <1>7

-----------------------------------------------------------------------------
(* The verdicts of the facilitator's registry.                             *)

FaChecks == {"SUP_001", "SUP_002", "VER_002", "VER_003", "VER_004", "ERR_001", "EXT_001"}

\* The payments submitted to /verify are two of the active group's.
LEMMA FaTable ==
  ASSUME NEW price
  PROVE  /\ DOMAIN FaProbes(price) = {"VER_002", "VER_003", "VER_004", "ERR_001"}
         /\ FaProbes(price)["VER_002"] = Probes(price)["NEG_013"]
         /\ FaProbes(price)["ERR_001"] = Probes(price)["NEG_013"]
         /\ FaProbes(price)["VER_003"] = Probes(price)["NEG_015"]
         /\ FaProbes(price)["VER_004"] = Probes(price)["NEG_015"]
<1> DEFINE cheap == Build([Offer(price) EXCEPT !.amount = 1], "open")
           account == Build([Offer(price) EXCEPT !.asset = "account"], "open")
<1>1. DOMAIN FaProbes(price) = {"VER_002", "VER_003", "VER_004", "ERR_001"}
  BY DEF FaProbes
<1>2. /\ FaProbes(price)["VER_002"] = cheap /\ FaProbes(price)["ERR_001"] = cheap
      /\ FaProbes(price)["VER_003"] = account /\ FaProbes(price)["VER_004"] = account
  BY DEF FaProbes
<1>3. /\ DOMAIN BindingProbes(price) = {"NEG_013", "NEG_014", "NEG_015", "SEC_010", "SEC_003"}
      /\ BindingProbes(price)["NEG_013"] = cheap /\ BindingProbes(price)["NEG_015"] = account
  BY DEF BindingProbes
<1> HIDE DEF cheap, account
<1>4. Probes(price)["NEG_013"] = cheap /\ Probes(price)["NEG_015"] = account
  BY <1>3, TheProbes
<1>5. QED  BY <1>1, <1>2, <1>4

\* /verify answers with what its remaining validations find.
LEMMA VerifyAnswer ==
  ASSUME NEW p, NEW price, NEW bugs
  PROVE  LET answer == PostVerify(p, price, bugs) IN
         /\ answer.status = 200 /\ answer.extension = "none"
         /\ \A defect \in VerifySteps : Unmet(p, price) = {defect} =>
              IF defect \in bugs THEN answer.body = "valid" /\ answer.reason = "none"
              ELSE answer.body = "invalid" /\ answer.reason = "known"
BY DEF PostVerify

LEMMA FaNotLeakable ==
  ASSUME NEW check \in FaChecks
  PROVE  Guilty(check) <=> \/ check \in {"VER_002", "ERR_001"} /\ "amount" \in setup.bugs
                           \/ check = "VER_003" /\ "signature" \in setup.bugs
<1>1. ~Leakable(check)
  BY ProbeDomain DEF Leakable, FaChecks, Payments
<1>2. Culprits(check) = IF check \in {"VER_002", "ERR_001"} THEN {"amount"}
                        ELSE IF check = "VER_003" THEN {"signature"} ELSE {}
  BY DEF Culprits, FaChecks
<1>3. QED  BY <1>1, <1>2 DEF Guilty

\* A check of a facilitator that is not there is skipped.
LEMMA NothingToJudge ==
  ASSUME ~setup.there, NEW check \in FaChecks
  PROVE  RunFacilitator(check).status = "skip"
<1>1. \A c : Verified(c) = NotFound
  BY DEF Verified
<1>2. SupportedAnswer = NotFound
  BY DEF SupportedAnswer
<1>3. NotFound.status = 404 /\ NotFound.extension = "none" /\ NotFound.body = "malformed"
  BY DEF NotFound
<1>4. CASE check = "SUP_001"
  BY <1>2, <1>3, <1>4 DEF RunFacilitator, JudgeSupported, Judged
<1>5. CASE check = "SUP_002"
  BY <1>2, <1>3, <1>5 DEF RunFacilitator, JudgeKinds, Judged
<1>6. CASE check = "EXT_001"
  <2>1. {Verified(c).extension : c \in DOMAIN FaProbes(setup.price)} \ {"none"} = {}
    BY <1>1, <1>3
  <2>2. QED  BY <1>6, <2>1 DEF RunFacilitator, JudgeExtensions, Judged
<1>7. CASE check \in {"VER_002", "VER_003", "VER_004", "ERR_001"}
  BY <1>1, <1>3, <1>7 DEF RunFacilitator, JudgeVerify, EndpointAbsent, Absent
<1>8. QED  BY <1>4, <1>5, <1>6, <1>7 DEF FaChecks

\* A check of the target's /verify.
LEMMA VerifyVerdict ==
  ASSUME setup \in Setup, setup.there,
         NEW check \in {"VER_002", "VER_003", "VER_004", "ERR_001"}, ~PaysThePrice(check)
  PROVE  JudgeVerify(check, Verified(check)).status = "fail" <=> Guilty(check)
<1> DEFINE price == setup.price
           bugs == setup.bugs
           answer == Verified(check)
           defect == IF check \in {"VER_002", "ERR_001"} THEN "amount" ELSE "signature"
<1>1. price \in Nat /\ 2 * price <= Extreme
  BY SetupFields
<1>2. check # "VER_004" => Unmet(FaProbes(price)[check], price) = {defect}
  <2>1. price # 1 => Unmet(Probes(price)["NEG_013"], price) = {"amount"}
    BY <1>1, OneDefect DEF Payments, Applies, Defect
  <2>2. Unmet(Probes(price)["NEG_015"], price) = {"signature"}
    BY <1>1, OneDefect DEF Payments, Applies, Defect
  <2>3. QED  BY <2>1, <2>2, FaTable DEF PaysThePrice
<1>3. answer = PostVerify(FaProbes(price)[check], price, bugs)
  BY DEF Verified
<1>4. answer.status = 200
  BY <1>3, VerifyAnswer
<1>5. check # "VER_004" =>
        IF defect \in bugs THEN answer.body = "valid" /\ answer.reason = "none"
        ELSE answer.body = "invalid" /\ answer.reason = "known"
  BY <1>2, <1>3, VerifyAnswer DEF VerifySteps
<1>6. Guilty(check) <=> check # "VER_004" /\ defect \in bugs
  BY FaNotLeakable DEF FaChecks
<1> HIDE DEF answer
<1>7. answer.status \notin EndpointAbsent /\ answer.status \in 200..299
  BY <1>4 DEF EndpointAbsent
<1>8. CASE check = "VER_002"
  BY <1>5, <1>6, <1>7, <1>8 DEF JudgeVerify, JudgeAmount, Unparsed, Judged, answer
<1>9. CASE check = "VER_003"
  BY <1>5, <1>6, <1>7, <1>9 DEF JudgeVerify, JudgeAsset, Unparsed, Judged, answer
<1>10. CASE check = "VER_004"
  BY <1>6, <1>7, <1>10 DEF JudgeVerify, JudgeClean, Judged, answer
<1>11. CASE check = "ERR_001"
  BY <1>5, <1>6, <1>7, <1>11 DEF JudgeVerify, JudgeReason, Unparsed, Judged, answer
<1>12. QED  BY <1>8, <1>9, <1>10, <1>11

\* A check that has nothing of the target's to find does not fail it.
LEMMA FacilitatorVerdict ==
  ASSUME setup \in Setup, setup.there, NEW check \in FaChecks, ~PaysThePrice(check),
         RunFacilitator(check).status # "skip"
  PROVE  RunFacilitator(check).status = "fail" <=> Guilty(check)
<1>1. CASE check \in {"SUP_001", "SUP_002"}
  <2>1. SupportedAnswer = [status |-> 200, body |-> "complete", kinds |-> "wellFormed"]
    BY DEF SupportedAnswer, GetSupported
  <2>2. RunFacilitator(check).status = "pass"
    BY <1>1, <2>1 DEF RunFacilitator, JudgeSupported, JudgeKinds, Judged
  <2>3. QED  BY <1>1, <2>2, FaNotLeakable
<1>2. CASE check = "EXT_001"
  <2>1. \A c \in DOMAIN FaProbes(setup.price) : Verified(c).extension = "none"
    BY VerifyAnswer DEF Verified
  <2>2. {Verified(c).extension : c \in DOMAIN FaProbes(setup.price)} \ {"none"} = {}
    BY <2>1
  <2>3. RunFacilitator(check).status = "skip"
    BY <1>2, <2>2 DEF RunFacilitator, JudgeExtensions, Judged
  <2>4. QED  BY <2>3
<1>3. CASE check \in {"VER_002", "VER_003", "VER_004", "ERR_001"}
  <2>1. RunFacilitator(check) = JudgeVerify(check, Verified(check))
    BY <1>3 DEF RunFacilitator
  <2>2. QED  BY <1>3, <2>1, VerifyVerdict
<1>4. QED  BY <1>1, <1>2, <1>3 DEF FaChecks

-----------------------------------------------------------------------------
(* The registry.                                                           *)

ActiveChecks == Payments \cup {"NEG_001", "NEG_002", "SEC_005", "NEG_016"}

LEMMA ActiveRegistryOnce ==
  /\ Len(ActiveRegistry) = 22
  /\ \A i \in 1..22 : ActiveRegistry[i] \in ActiveChecks
  /\ \A i, j \in 1..22 : ActiveRegistry[i] = ActiveRegistry[j] => i = j
BY DEF ActiveRegistry, ActiveChecks, Payments

LEMMA FaRegistryOnce ==
  /\ Len(FaRegistry) = 7
  /\ \A i \in 1..7 : FaRegistry[i] \in FaChecks
  /\ \A i, j \in 1..7 : FaRegistry[i] = FaRegistry[j] => i = j
BY DEF FaRegistry, FaChecks

Checks == IF setup.command = "check" THEN ActiveChecks ELSE FaChecks

LEMMA RegistryOnce ==
  /\ Len(Registry) \in Nat \ {0} /\ DOMAIN Registry = 1..Len(Registry)
  /\ \A i \in 1..Len(Registry) : Registry[i] \in Checks
  /\ \A i, j \in 1..Len(Registry) : Registry[i] = Registry[j] => i = j
<1>1. DOMAIN ActiveRegistry = 1..22 /\ DOMAIN FaRegistry = 1..7
  BY DEF ActiveRegistry, FaRegistry
<1>2. CASE setup.command = "check"
  <2>1. Registry = ActiveRegistry /\ Checks = ActiveChecks
    BY <1>2 DEF Registry, Checks
  <2>2. Len(Registry) = 22 /\ DOMAIN Registry = 1..22
    BY <1>1, <2>1, ActiveRegistryOnce
  <2>3. QED  BY <2>1, <2>2, ActiveRegistryOnce
<1>3. CASE setup.command # "check"
  <2>1. Registry = FaRegistry /\ Checks = FaChecks
    BY <1>3 DEF Registry, Checks
  <2>2. Len(Registry) = 7 /\ DOMAIN Registry = 1..7
    BY <1>1, <2>1, FaRegistryOnce
  <2>3. QED  BY <2>1, <2>2, FaRegistryOnce
<1>4. QED  BY <1>2, <1>3

\* A check's result names it, and what it says of the target is right.
LEMMA ResultCheck ==
  \A check : Result(check).check = check
BY DEF Result

LEMMA ResultVerdict ==
  ASSUME setup \in Setup, NEW check \in Checks
  PROVE  LET r == Result(check) IN
         IF setup.there
         THEN r.status # "skip" /\ ~PaysThePrice(r.check) => (r.status = "fail" <=> Guilty(r.check))
         ELSE r.status = "skip"
<1>1. CASE setup.command = "check"
  <2>1. /\ Result(check).check = check /\ Result(check).status = RunActive(check).status
        /\ setup.there
    BY <1>1, SetupFields DEF Result
  <2>2. CASE check \in Payments
    <3>1. CASE Inapplicable(check, setup.price)
      BY <2>1, <3>1 DEF RunActive, Judged
    <3>2. CASE ~Inapplicable(check, setup.price)
      BY <1>1, <2>1, <2>2, <3>2, PaymentVerdict
    <3>3. QED  BY <3>1, <3>2
  <2>3. CASE check \in {"NEG_001", "NEG_002", "SEC_005", "NEG_016"}
    BY <1>1, <2>1, <2>3, HeaderVerdict
  <2>4. QED  BY <1>1, <2>2, <2>3 DEF Checks, ActiveChecks
<1>2. CASE setup.command # "check"
  <2>1. /\ Result(check).check = check
        /\ Result(check).status = RunFacilitator(check).status
    BY <1>2 DEF Result
  <2>2. check \in FaChecks
    BY <1>2 DEF Checks
  <2>3. QED  BY <2>1, <2>2, FacilitatorVerdict, NothingToJudge
<1>3. QED  BY <1>1, <1>2

-----------------------------------------------------------------------------
(* The group.                                                              *)

\* What the group can collect.
Places == 1..Len(Registry)
Entries == {Result(Registry[i]) : i \in Places}
TakenChecks == {Registry[i] : i \in 1..taken}

\* On one thread no check is on the pool, and the results are the registry's as far
\* as it has come.
InSequence ==
    ~Pooled => /\ running = {}
               /\ Len(collected) <= Len(Registry)
               /\ \A i \in DOMAIN collected : collected[i] = Result(Registry[i])

\* On a pool a check taken is running or has its one result.
EachOnce ==
    Pooled => /\ taken \in 0..Len(Registry)
              /\ running \subseteq TakenChecks
              /\ \A i \in DOMAIN collected : collected[i].check \in TakenChecks \ running
              /\ \A i, j \in DOMAIN collected :
                    collected[i].check = collected[j].check => i = j

\* The strengthening every step preserves.
CalInv ==
    /\ setup \in Setups
    /\ collected \in Seq(Entries)
    /\ InSequence
    /\ EachOnce
    /\ ReportIsSequential

\* A place in the registry is the place of the check that holds it.
LEMMA OrderIsPlace ==
  \A i \in Places : Order(Registry[i]) = i
BY RegistryOnce DEF Order, Places

LEMMA FirstPlaces ==
  \A n \in Nat : IsFiniteSet(1..n) /\ Cardinality(1..n) = n
<1>1. TAKE n \in Nat
<1>2. /\ IsFiniteSet(1..n)
      /\ Cardinality(1..n) = IF 1 > n THEN 0 ELSE n - 1 + 1
  BY FS_Interval, 1 \in Int, n \in Int, Zenon
<1>3. QED  BY <1>2

\* Sorting every result once gives the sequential report.
LEMMA SortRestores ==
  ASSUME collected \in Seq(Entries), Len(collected) = Len(Registry),
         \A i, j \in DOMAIN collected : collected[i].check = collected[j].check => i = j
  PROVE  InRegistryOrder = [i \in DOMAIN Registry |-> Result(Registry[i])]
<1> DEFINE n == Len(Registry)
           place == [j \in 1..n |-> Order(collected[j].check)]
<1>1. n \in Nat /\ DOMAIN Registry = 1..n /\ DOMAIN collected = 1..n
  BY RegistryOnce
<1>2. \A j \in 1..n : /\ place[j] \in 1..n
                      /\ collected[j] = Result(Registry[place[j]])
                      /\ collected[j].check = Registry[place[j]]
  <2>1. TAKE j \in 1..n
  <2>2. collected[j] \in Entries
    BY <1>1
  <2>3. PICK i \in Places : collected[j] = Result(Registry[i])
    BY <2>2 DEF Entries
  <2>4. collected[j].check = Registry[i]
    BY <2>3, ResultCheck
  <2>5. place[j] = i
    BY <2>4, OrderIsPlace
  <2>6. QED  BY <2>3, <2>4, <2>5 DEF Places
<1>3. place \in Injection(1..n, 1..n)
  <2>1. place \in [1..n -> 1..n]
    BY <1>2
  <2> HIDE DEF place
  <2>2. \A i, j \in 1..n : place[i] = place[j] => i = j
    <3>1. TAKE i, j \in 1..n
    <3>2. place[i] = place[j] => collected[i].check = collected[j].check
      BY <1>2
    <3>3. QED  BY <1>1, <3>2
  <2>3. QED  BY <2>1, <2>2 DEF Injection, IsInjective
<1>4. IsFiniteSet(1..n) /\ Cardinality(1..n) = n
  BY <1>1, FirstPlaces
<1>5. place \in Surjection(1..n, 1..n)
  BY <1>3, <1>4, FS_Injection
<1>6. \A j \in 1..n : Before(j) = {k \in 1..n : place[k] < place[j]}
  BY <1>1 DEF Before
<1> HIDE DEF place
<1>7. \A j \in 1..n : Cardinality(Before(j)) = place[j] - 1
  <2>1. TAKE j \in 1..n
  <2> DEFINE earlier == {k \in 1..n : place[k] < place[j]}
             sub == [k \in earlier |-> place[k]]
  <2>2. place[j] \in 1..n
    BY <1>2
  <2>3. IsFiniteSet(1..place[j] - 1) /\ Cardinality(1..place[j] - 1) = place[j] - 1
    <3>1. place[j] - 1 \in Nat
      BY <2>2
    <3>2. QED  BY <3>1, FirstPlaces
  <2>4. sub \in Bijection(earlier, 1..place[j] - 1)
    <3>1. sub \in [earlier -> 1..place[j] - 1]
      BY <1>2, <2>2
    <3>2. \A a, b \in earlier : sub[a] = sub[b] => a = b
      BY <1>3 DEF Injection, IsInjective
    <3>3. \A m \in 1..place[j] - 1 : \E a \in earlier : sub[a] = m
      <4>1. TAKE m \in 1..place[j] - 1
      <4>2. m \in 1..n /\ m < place[j]
        BY <2>2
      <4>3. PICK a \in 1..n : place[a] = m
        BY <1>5, <4>2 DEF Surjection
      <4>4. QED  BY <4>2, <4>3
    <3> HIDE DEF sub, earlier
    <3>4. QED  BY <3>1, <3>2, <3>3 DEF Bijection, Injection, Surjection, IsInjective
  <2>5. IsFiniteSet(earlier)
    BY <1>4, FS_Subset
  <2>6. Cardinality(1..place[j] - 1) = Cardinality(earlier)
    <3> HIDE DEF sub, earlier
    <3>1. QED  BY <2>4, <2>5, FS_Bijection DEF ExistsBijection
  <2>7. QED  BY <1>6, <2>3, <2>6
<1>8. \A i \in 1..n : LET c == CHOOSE j \in DOMAIN collected : Cardinality(Before(j)) = i - 1
                      IN  c \in 1..n /\ place[c] = i
  <2>1. TAKE i \in 1..n
  <2>2. PICK a \in 1..n : place[a] = i
    BY <1>5 DEF Surjection
  <2>3. \E j \in DOMAIN collected : Cardinality(Before(j)) = i - 1
    BY <1>1, <1>7, <2>2
  <2> DEFINE c == CHOOSE j \in DOMAIN collected : Cardinality(Before(j)) = i - 1
  <2>4. c \in DOMAIN collected /\ Cardinality(Before(c)) = i - 1
    BY <2>3, Zenon
  <2> HIDE DEF c
  <2>5. c \in 1..n /\ place[c] - 1 = i - 1 /\ place[c] \in 1..n
    BY <1>1, <1>2, <1>7, <2>4
  <2>6. c \in 1..n /\ place[c] = i
    BY <2>5
  <2>7. QED  BY <2>6 DEF c
<1>9. \A i \in 1..n : collected[CHOOSE j \in DOMAIN collected : Cardinality(Before(j)) = i - 1]
                        = Result(Registry[i])
  <2>1. TAKE i \in 1..n
  <2> DEFINE c == CHOOSE j \in DOMAIN collected : Cardinality(Before(j)) = i - 1
  <2>2. c \in 1..n /\ place[c] = i
    BY <1>8
  <2> HIDE DEF c
  <2>3. collected[c] = Result(Registry[i])
    BY <1>2, <2>2
  <2>4. QED  BY <2>3 DEF c
<1>10. QED  BY <1>1, <1>9, Zenon DEF InRegistryOrder

-----------------------------------------------------------------------------
(* The invariant.                                                          *)

LEMMA CalInitInv == CalInit => CalInv
<1> SUFFICES ASSUME CalInit PROVE CalInv
  OBVIOUS
<1>1. collected = <<>> /\ taken = 0 /\ running = {} /\ report = <<>> /\ setup \in Setups
  BY DEF CalInit
<1>2. QED  BY <1>1, RegistryOnce DEF CalInv, InSequence, EachOnce, ReportIsSequential

\* A step of the group leaves what it runs as it was.
LEMMA SameGroup ==
  ASSUME setup' = setup
  PROVE  /\ Registry' = Registry /\ Entries' = Entries /\ Pooled' = Pooled /\ Places' = Places
         /\ \A check : Result(check)' = Result(check)
BY DEF Registry, Entries, Pooled, Places, Result, RunActive, RunFacilitator, Verified,
       SupportedAnswer

\* One thread: the next result is the next check's.
LEMMA RunNextInv == CalInv /\ RunNext => CalInv'
<1> SUFFICES ASSUME CalInv, RunNext PROVE CalInv'
  OBVIOUS
<1> DEFINE k == Len(collected) + 1
           r == Result(Registry[k])
<1>1. /\ ~Pooled /\ Len(collected) < Len(Registry) /\ collected' = Append(collected, r)
      /\ setup' = setup /\ report' = report /\ running' = running
  BY DEF RunNext
<1>2. /\ collected \in Seq(Entries) /\ setup \in Setups
      /\ \A i \in DOMAIN collected : collected[i] = Result(Registry[i])
      /\ running = {}
  BY <1>1 DEF CalInv, InSequence
<1>3. k \in Places /\ r \in Entries
  BY <1>1, <1>2, RegistryOnce DEF Places, Entries
<1> HIDE DEF r
<1>4. /\ collected' \in Seq(Entries) /\ Len(collected') = k
      /\ \A i \in 1..k : collected'[i] = IF i = k THEN r ELSE collected[i]
  BY <1>1, <1>2, <1>3
<1>5. \A i \in 1..k : collected'[i] = Result(Registry[i])
  BY <1>2, <1>4 DEF r
<1>6. InSequence'
  <2>1. k <= Len(Registry) /\ DOMAIN collected' = 1..k
    BY <1>1, <1>2, <1>4, RegistryOnce
  <2>2. QED  BY <1>1, <1>2, <1>4, <1>5, <2>1, SameGroup DEF InSequence
<1>7. EachOnce'
  BY <1>1, SameGroup DEF EachOnce
<1>8. ReportIsSequential'
  BY <1>1, SameGroup DEF CalInv, ReportIsSequential
<1>9. QED  BY <1>1, <1>2, <1>4, <1>6, <1>7, <1>8, SameGroup DEF CalInv

\* A thread takes a check no thread had.
LEMMA TakeInv == CalInv /\ Take => CalInv'
<1> SUFFICES ASSUME CalInv, Take PROVE CalInv'
  OBVIOUS
<1>1. /\ Pooled /\ taken < Len(Registry) /\ taken' = taken + 1
      /\ running' = running \cup {Registry[taken + 1]}
      /\ setup' = setup /\ report' = report /\ collected' = collected
  BY DEF Take
<1>2. EachOnce /\ taken \in Nat
  BY <1>1 DEF CalInv, EachOnce
<1>3. taken' \in 0..Len(Registry)
  BY <1>1, <1>2, RegistryOnce
<1>4. TakenChecks' = TakenChecks \cup {Registry[taken + 1]}
  BY <1>1, <1>2, SameGroup DEF TakenChecks
<1>5. Registry[taken + 1] \notin TakenChecks
  BY <1>1, <1>2, RegistryOnce DEF TakenChecks
<1>6. EachOnce'
  BY <1>1, <1>2, <1>3, <1>4, <1>5, SameGroup DEF EachOnce
<1>7. InSequence' /\ ReportIsSequential'
  BY <1>1, SameGroup DEF CalInv, InSequence, ReportIsSequential
<1>8. QED  BY <1>1, <1>6, <1>7, SameGroup DEF CalInv

\* A check that ran has its one result.
LEMMA CompleteInv ==
  ASSUME CalInv, NEW check \in running, Complete(check)
  PROVE  CalInv'
<1>0. Pooled
  BY DEF CalInv, InSequence
<1>1. /\ running' = running \ {check} /\ collected' = Append(collected, Result(check))
      /\ setup' = setup /\ report' = report /\ taken' = taken
  BY DEF Complete
<1>2. /\ EachOnce /\ collected \in Seq(Entries) /\ taken \in Nat /\ taken <= Len(Registry)
      /\ Len(collected) \in Nat
  BY <1>0, RegistryOnce DEF CalInv, EachOnce
<1>3. check \in TakenChecks
  BY <1>0, <1>2 DEF EachOnce
<1>4. Result(check) \in Entries
  BY <1>2, <1>3, RegistryOnce DEF TakenChecks, Entries, Places
<1>5. TakenChecks' = TakenChecks
  BY <1>1, SameGroup DEF TakenChecks
<1> DEFINE n == Len(collected)
<1>6. /\ collected' \in Seq(Entries) /\ DOMAIN collected' = 1..n + 1 /\ DOMAIN collected = 1..n
      /\ \A i \in 1..n + 1 :
            collected'[i].check = IF i = n + 1 THEN check ELSE collected[i].check
  BY <1>1, <1>2, <1>4, ResultCheck
<1>7. \A i \in 1..n : collected[i].check \in TakenChecks \ running
  BY <1>0, <1>2, <1>6 DEF EachOnce
<1>8. EachOnce'
  <2>1. taken' \in 0..Len(Registry)' /\ (running \subseteq TakenChecks)'
    BY <1>0, <1>1, <1>2, <1>5, SameGroup DEF EachOnce
  <2>2. \A i \in 1..n + 1 : collected'[i].check \in TakenChecks \ running'
    BY <1>1, <1>3, <1>6, <1>7
  <2>3. \A i, j \in 1..n + 1 : collected'[i].check = collected'[j].check => i = j
    <3>1. \A i, j \in 1..n : collected[i].check = collected[j].check => i = j
      BY <1>0, <1>2, <1>6 DEF EachOnce
    <3>2. QED  BY <1>2, <1>6, <1>7, <3>1
  <2>4. QED  BY <1>5, <1>6, <2>1, <2>2, <2>3 DEF EachOnce
<1>9. InSequence'
  BY <1>0, <1>1, SameGroup DEF InSequence
<1>10. ReportIsSequential'
  BY <1>1, SameGroup DEF CalInv, ReportIsSequential
<1>11. QED  BY <1>1, <1>6, <1>8, <1>9, <1>10, SameGroup DEF CalInv

\* What is returned is the registry's results in the registry's order.
LEMMA ReturnInv == CalInv /\ Return => CalInv'
<1> SUFFICES ASSUME CalInv, Return PROVE CalInv'
  OBVIOUS
<1>1. /\ Len(collected) = Len(Registry)
      /\ report' = IF Pooled THEN InRegistryOrder ELSE collected
      /\ setup' = setup /\ taken' = taken /\ running' = running /\ collected' = collected
  BY DEF Return
<1>2. report' = [i \in DOMAIN Registry |-> Result(Registry[i])]
  <2>1. CASE Pooled
    BY <1>1, <2>1, SortRestores DEF CalInv, EachOnce
  <2>2. CASE ~Pooled
    <3>1. /\ collected \in Seq(Entries)
          /\ \A i \in DOMAIN collected : collected[i] = Result(Registry[i])
      BY <2>2 DEF CalInv, InSequence
    <3>2. DOMAIN collected = DOMAIN Registry
      BY <1>1, <3>1, RegistryOnce
    <3>3. collected = [i \in DOMAIN collected |-> collected[i]]
      BY <3>1
    <3>4. QED  BY <1>1, <2>2, <3>1, <3>2, <3>3
  <2>3. QED  BY <2>1, <2>2
<1>3. ReportIsSequential'
  BY <1>1, <1>2, SameGroup DEF ReportIsSequential
<1>4. InSequence' /\ EachOnce'
  BY <1>1, SameGroup DEF CalInv, InSequence, EachOnce, TakenChecks
<1>5. QED  BY <1>1, <1>3, <1>4, SameGroup DEF CalInv

LEMMA CalNextInv == CalInv /\ [CalNext]_calVars => CalInv'
<1> SUFFICES ASSUME CalInv, [CalNext]_calVars PROVE CalInv'
  OBVIOUS
<1>1. CASE RunNext
  BY <1>1, RunNextInv
<1>2. CASE Take
  BY <1>2, TakeInv
<1>3. CASE \E check \in running : Complete(check)
  BY <1>3, CompleteInv
<1>4. CASE Return
  BY <1>4, ReturnInv
<1>5. CASE UNCHANGED calVars
  <2>1. /\ setup' = setup /\ taken' = taken /\ running' = running
        /\ collected' = collected /\ report' = report
    BY <1>5 DEF calVars
  <2>2. QED  BY <2>1, SameGroup
             DEF CalInv, InSequence, EachOnce, TakenChecks, ReportIsSequential
<1>6. QED  BY <1>1, <1>2, <1>3, <1>4, <1>5 DEF CalNext

LEMMA CalInvHolds == CalSpec => []CalInv
BY CalInitInv, CalNextInv, PTL DEF CalSpec

\* The report is the sequential run's, whatever the number of threads and the order
\* they finish in: evaluate_active's promise (negative.py:660-664).
THEOREM SequentialReport == CalSpec => []ReportIsSequential
<1>1. CalInv => ReportIsSequential
  BY DEF CalInv
<1>2. QED  BY <1>1, CalInvHolds, PTL

\* Whatever the price, the bugs and the marker, a check that can be asked fails
\* exactly the targets that lack what it is for, but for the payments that at a
\* price of 0 or 1 are the price (negative.py:3-6).
THEOREM FailuresAreFindings == CalSpec => []FailuresNameTheDefect
<1>1. CalInv => FailuresNameTheDefect
  <2> SUFFICES ASSUME CalInv, NEW i \in DOMAIN collected
               PROVE  LET r == collected[i] IN
                      IF setup.there
                      THEN r.status # "skip" /\ ~PaysThePrice(r.check)
                              => (r.status = "fail" <=> Guilty(r.check))
                      ELSE r.status = "skip"
    BY DEF FailuresNameTheDefect
  <2>1. setup \in Setup
    BY CalibrationAssumption DEF CalInv
  <2>2. collected[i] \in Entries
    BY DEF CalInv
  <2>3. PICK k \in Places : collected[i] = Result(Registry[k])
    BY <2>2 DEF Entries
  <2>4. Registry[k] \in Checks
    BY RegistryOnce DEF Places
  <2>5. QED  BY <2>1, <2>3, <2>4, ResultVerdict
<1>2. QED  BY <1>1, CalInvHolds, PTL
=============================================================================
