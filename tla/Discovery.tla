----------------------------- MODULE Discovery ------------------------------
(***************************************************************************)
(* evaluate_discovery (checks/discovery.py): DI-001 to DI-004 over a       *)
(* Bazaar's catalogue.  Each check asks for the catalogue again, and the   *)
(* catalogue may grow between two requests.  DI-003 also fetches what is   *)
(* listed, through a fetcher that validates every hop and has a budget of  *)
(* requests.  URLs and hosts are abstract; what is at a URL is in Web.     *)
(***************************************************************************)
EXTENDS Naturals, Sequences, FiniteSets

CONSTANTS
    Urls, Hosts,     \* URLs of listed resources and of redirects, and their hosts
    Web,             \* what is at each URL
    NoPage,          \* no catalogue, no page, no URL
    MaxCrossFetches, MaxCrossFetchesPerHost,  \* _MAX_CROSS_FETCH_REQUESTS, ..._PER_HOST
    MaxRedirects,    \* _MAX_REDIRECTS
    MaxListings,     \* _MAX_STALENESS_ITEMS
    MaxGrowth        \* bound: listings added during one run

\* `secure`: https; `public`: every address it resolves to is public or
\* allowlisted; `ascii`: its path and query are; `to` is where a redirect points, a
\* bad one nowhere urljoin can make out, and `payTo` whom a live 402 pays.  An
\* undecodable answer is a challenge on which build_probe raises.
Place == [host : Hosts, secure : BOOLEAN, public : BOOLEAN, ascii : BOOLEAN,
          reply : {"challenge", "undecodable", "free", "redirect", "badRedirect"},
          to : Urls, payTo : {"p1", "p2"}]

ASSUME DiscoveryAssumption ==
    /\ Web \in [Urls -> Place]
    /\ {MaxCrossFetches, MaxCrossFetchesPerHost, MaxRedirects, MaxListings, MaxGrowth} \subseteq Nat

VARIABLES
    bazaar,     \* the flaw of the Bazaar and its catalogue
    diStep,     \* the request evaluate_discovery is about to send
    base,       \* the unfiltered page DI-002 compares with, then DI-003's
    item, hop, url, wasSecure,  \* the listing under cross-fetch and its redirects
    totalRequests, requestsPerHost,  \* the fetcher's budgets
    sent,       \* the requests made: which one it was and its URL
    compared, stale,  \* listings compared with a live 402, and some that differ
    growth,     \* listings added so far
    di          \* [DI checks -> status]

budgetVars == <<totalRequests, requestsPerHost, sent>>
fetchVars == <<item, hop, url, wasSecure, budgetVars, compared, stale>>
diVars == <<bazaar, diStep, base, fetchVars, growth, di>>

\* The attributes the filters select by.
Filters == <<"type", "payTo", "scheme", "network", "extension">>
Listing == [url : Urls, type : {"http", "mcp"}, payTo : {"p1", "p2"}, scheme : {"exact", "upto"},
            network : {"n1", "n2"}, extension : {"none", "bazaar"}, schema : {"local", "external"}]

Flaws == {"none", "notFound", "badSchema", "ignoresFilter", "ignoresLimit", "ignoresOffset",
          "pageTotal", "tooDeep", "hugeNumber"}

DiSteps == {"idle", "DI_001", "base"} \cup {Filters[i] : i \in DOMAIN Filters}
             \cup {"limited", "offset", "listings", "cross", "schemas", "done", "failed"}

DiInit ==
    /\ bazaar = NoPage
    /\ diStep = "idle"
    /\ base = NoPage
    /\ item = 0 /\ hop = 0 /\ url = NoPage /\ wasSecure = FALSE
    /\ totalRequests = 0 /\ requestsPerHost = [h \in Hosts |-> 0] /\ sent = {}
    /\ compared = 0 /\ stale = FALSE
    /\ growth = 0
    /\ di = <<>>

BeginDiscovery(b) ==
    /\ diStep = "idle"
    /\ bazaar' = b
    /\ diStep' = "DI_001"
    /\ UNCHANGED <<base, fetchVars, growth, di>>

-----------------------------------------------------------------------------
(* The Bazaar and the judgement of one page.                               *)

\* The listings at some positions of a catalogue, in its order.
Picked(listings, positions) ==
    [k \in 1..Cardinality(positions) |->
        listings[CHOOSE i \in positions : Cardinality({j \in positions : j < i}) = k - 1]]

\* The positions a filter keeps.
Matching(filter, value) ==
    {i \in DOMAIN bazaar.catalogue :
        filter = "none" \/ bazaar.flaw = "ignoresFilter" \/ bazaar.catalogue[i][filter] = value}

\* GET /discovery/resources, as a Bazaar with one flaw or none answers it.
Page(filter, value, limit, offset) ==
    LET matching == Picked(bazaar.catalogue, Matching(filter, value))
        from == IF bazaar.flaw = "ignoresOffset" THEN 0 ELSE offset
        upTo == IF bazaar.flaw = "ignoresLimit" THEN Len(matching) ELSE from + limit
        listings == SubSeq(matching, from + 1, IF upTo < Len(matching) THEN upTo ELSE Len(matching))
    IN  [listings |-> listings,
         total |-> IF bazaar.flaw = "pageTotal" THEN Len(listings) ELSE Len(matching)]

\* _get_json gives None for anything but 200 with an object.
Missing == bazaar.flaw = "notFound"

\* The catalogue is nested too deep to be parsed (RecursionError), or a number in a
\* listing is too large to be tested for finiteness (OverflowError).
Unreadable == bazaar.flaw = "tooDeep"
ValidationRaises(page) == Unreadable \/ (bazaar.flaw = "hugeNumber" /\ page.listings # <<>>)

\* _validate_discovery_body, with the requested limit and offset.
Valid(page, limit, offset) ==
    /\ bazaar.flaw # "badSchema"
    /\ Len(page.listings) <= limit
    /\ offset < page.total => offset + Len(page.listings) <= page.total
    /\ offset >= page.total => page.listings = <<>>

Unfiltered == Page("none", "none", 20, 0)
Empty == Missing \/ Unfiltered.listings = <<>>

\* evaluate_discovery makes an error of what a check raises; errors gate, whatever
\* the severity of the check.
Decide(check, status, next) ==
    /\ di' = [c \in DOMAIN di \cup {check} |-> IF c = check THEN status ELSE di[c]]
    /\ diStep' = next

\* A 5xx or a lost request raises through evaluate_discovery: no results.
RequestFails ==
    /\ diStep \notin {"idle", "cross", "done", "failed"}
    /\ diStep' = "failed"
    /\ UNCHANGED <<bazaar, base, fetchVars, growth, di>>

\* Another seller is listed meanwhile, at the end or first.
Grow(listing) ==
    /\ diStep \notin {"idle", "done", "failed"}
    /\ growth < MaxGrowth
    /\ growth' = growth + 1
    /\ \E catalogue \in {<<listing>> \o bazaar.catalogue, Append(bazaar.catalogue, listing)} :
          bazaar' = [bazaar EXCEPT !.catalogue = catalogue]
    /\ UNCHANGED <<diStep, base, fetchVars, di>>

-----------------------------------------------------------------------------
(* DI-001 and DI-002.                                                      *)

DI_001 ==
    /\ diStep = "DI_001"
    /\ Decide("DI_001",
              IF ValidationRaises(Unfiltered) THEN "error"
              ELSE IF ~Missing /\ Valid(Unfiltered, 20, 0) THEN "pass" ELSE "fail",
              "base")
    /\ UNCHANGED <<bazaar, base, fetchVars, growth>>

GetBase ==
    /\ diStep = "base"
    /\ base' = Unfiltered
    /\ IF ValidationRaises(Unfiltered)
       THEN Decide("DI_002", "error", "listings")
       ELSE \/ Empty /\ Decide("DI_002", "skip", "listings")
            \/ ~Empty /\ ~Valid(Unfiltered, 20, 0) /\ Decide("DI_002", "fail", "listings")
            \/ ~Empty /\ Valid(Unfiltered, 20, 0) /\ diStep' = Filters[1] /\ UNCHANGED di
    /\ UNCHANGED <<bazaar, fetchVars, growth>>

\* The value a filter is tried with is the first the page shows; without an
\* extension to ask for, one that nobody has.
Seed(filter) ==
    LET usable == {i \in DOMAIN base.listings : base.listings[i][filter] # "none"}
        leading == CHOOSE i \in usable : \A j \in usable : i <= j
    IN  IF usable = {} THEN "missing" ELSE base.listings[leading][filter]

Honoured(page, filter) ==
    IF Seed(filter) = "missing"
    THEN page.listings = <<>> /\ page.total = 0
    ELSE page.listings # <<>> /\ \A i \in DOMAIN page.listings :
                                    page.listings[i][filter] = Seed(filter)

TryFilter(i) ==
    /\ diStep = Filters[i]
    /\ LET page == Page(Filters[i], Seed(Filters[i]), 100, 0) IN
         IF Valid(page, 100, 0) /\ Honoured(page, Filters[i])
         THEN diStep' = (IF i < Len(Filters) THEN Filters[i + 1] ELSE "limited") /\ UNCHANGED di
         ELSE Decide("DI_002", "fail", "listings")
    /\ UNCHANGED <<bazaar, base, fetchVars, growth>>

TryLimit ==
    /\ diStep = "limited"
    /\ LET page == Page("none", "none", 1, 0) IN
         IF Valid(page, 1, 0) /\ page.total = base.total
         THEN diStep' = "offset" /\ UNCHANGED di
         ELSE Decide("DI_002", "fail", "listings")
    /\ UNCHANGED <<bazaar, base, fetchVars, growth>>

\* The page at offset 1 starts at the second listing of the unfiltered page.
Continues(page) ==
    /\ Len(base.listings) >= 2 =>
         page.listings # <<>> /\ page.listings[1].url = base.listings[2].url
    /\ base.total = 1 => page.listings = <<>>

TryOffset ==
    /\ diStep = "offset"
    /\ LET page == Page("none", "none", 100, 1) IN
         Decide("DI_002",
                IF Valid(page, 100, 1) /\ page.total = base.total /\ Continues(page)
                THEN "pass" ELSE "fail",
                "listings")
    /\ UNCHANGED <<bazaar, base, fetchVars, growth>>

-----------------------------------------------------------------------------
(* DI-003: the listings against what is live.                              *)

Start(i, listings) == item' = i /\ hop' = 0 /\ url' = listings[i].url /\ wasSecure' = FALSE

GetListings ==
    /\ diStep = "listings"
    /\ base' = Unfiltered
    /\ IF Unreadable \/ Empty
       THEN /\ Decide("DI_003", IF Unreadable THEN "error" ELSE "skip", "schemas")
            /\ UNCHANGED <<item, hop, url, wasSecure>>
       ELSE diStep' = "cross" /\ Start(1, Unfiltered.listings) /\ UNCHANGED di
    /\ UNCHANGED <<bazaar, budgetVars, compared, stale, growth>>

NextListing == item < Len(base.listings) /\ item < MaxListings

\* DI-003's verdict: nothing compared is a skip, whatever could not be fetched.
Staleness(count, differs) == IF count = 0 THEN "skip" ELSE IF differs THEN "fail" ELSE "pass"

\* The next of the first MaxListings listings, or the verdict.
MoveOn(count, differs) ==
    /\ compared' = count /\ stale' = differs
    /\ IF NextListing
       THEN Start(item + 1, base.listings) /\ UNCHANGED <<diStep, di>>
       ELSE Decide("DI_003", Staleness(count, differs), "schemas")
            /\ UNCHANGED <<item, hop, url, wasSecure>>

\* __call__ before the request: the hop is validated, https never leads to http,
\* and the budgets have room.
Allowed ==
    /\ Web[url].public
    /\ ~(wasSecure /\ ~Web[url].secure)
    /\ totalRequests < MaxCrossFetches
    /\ requestsPerHost[Web[url].host] < MaxCrossFetchesPerHost

\* (mutant) only the first hop of a listing is charged.
ReserveFirstHop ==
    /\ totalRequests' = totalRequests + (IF hop = 0 THEN 1 ELSE 0)
    /\ requestsPerHost' = [requestsPerHost EXCEPT ![Web[url].host] = @ + (IF hop = 0 THEN 1 ELSE 0)]

\* _reserve_request charges before anything is sent.
Reserve ==
    /\ totalRequests' = totalRequests + 1
    /\ requestsPerHost' = [requestsPerHost EXCEPT ![Web[url].host] = @ + 1]

\* The address that was validated is connected to, and the request sent.
Fetch == sent' = sent \cup {[nth |-> Cardinality(sent) + 1, url |-> url]}

\* A listing that may not be fetched is counted and passed over.
Blocked ==
    /\ diStep = "cross" /\ ~Allowed
    /\ MoveOn(compared, stale)
    /\ UNCHANGED <<bazaar, base, budgetVars, growth>>

\* Every validated address is tried and none answers.
Unreached ==
    /\ diStep = "cross" /\ Allowed
    /\ Reserve /\ Fetch
    /\ MoveOn(compared, stale)
    /\ UNCHANGED <<bazaar, base, growth>>

\* After so many redirects a place makes the fetcher or build_probe raise what
\* di_003 does not catch: http.client encodes the request as ASCII once it is
\* connected, urljoin refuses a malformed Location, and json.loads raises.
Trips(place, hops) ==
    \/ ~place.ascii
    \/ place.reply = "undecodable"
    \/ place.reply = "badRedirect" /\ hops < MaxRedirects

\* (mutant) no answer is not caught either.
FetchRaisesUnreached ==
    /\ diStep = "cross" /\ Allowed
    /\ Reserve /\ Fetch
    /\ Decide("DI_003", "error", "schemas")
    /\ UNCHANGED <<bazaar, base, item, hop, url, wasSecure, compared, stale, growth>>

\* DI-003 is an error, and the listings that are left are not looked at.
FetchRaises ==
    /\ diStep = "cross" /\ Allowed /\ Trips(Web[url], hop)
    /\ Reserve /\ Fetch
    /\ Decide("DI_003", "error", "schemas")
    /\ UNCHANGED <<bazaar, base, item, hop, url, wasSecure, compared, stale, growth>>

Follow ==
    /\ diStep = "cross" /\ Allowed
    /\ Web[url].ascii /\ Web[url].reply \in {"redirect", "badRedirect"}
    /\ Reserve /\ Fetch
    /\ IF hop = MaxRedirects
       THEN MoveOn(compared, stale)
       ELSE /\ Web[url].reply = "redirect"
            /\ hop' = hop + 1 /\ url' = Web[url].to /\ wasSecure' = Web[url].secure
            /\ UNCHANGED <<item, compared, stale, diStep, di>>
    /\ UNCHANGED <<bazaar, base, growth>>

\* (mutant) an answer without a challenge is a listing gone stale.
StaleUnlessSame(listing, place) ==
    place.reply # "challenge" \/ place.payTo # listing.payTo

\* _accept_identity differs; without a live challenge there is nothing to compare.
StaleAgainst(listing, place) == place.reply = "challenge" /\ place.payTo # listing.payTo

Compare ==
    /\ diStep = "cross" /\ Allowed
    /\ Web[url].ascii /\ Web[url].reply \in {"challenge", "free"}
    /\ Reserve /\ Fetch
    /\ MoveOn(compared + (IF Web[url].reply = "challenge" THEN 1 ELSE 0),
              stale \/ StaleAgainst(base.listings[item], Web[url]))
    /\ UNCHANGED <<bazaar, base, growth>>

-----------------------------------------------------------------------------
\* DI-004 reads the schemas of the catalogue once more and resolves nothing.
DI_004 ==
    /\ diStep = "schemas"
    /\ LET declared == {i \in DOMAIN Unfiltered.listings :
                           Unfiltered.listings[i].extension # "none"} IN
         Decide("DI_004",
                IF Unreadable THEN "error"
                ELSE IF Missing \/ declared = {} THEN "skip"
                ELSE IF \E i \in declared : Unfiltered.listings[i].schema = "external"
                THEN "fail" ELSE "pass",
                "done")
    /\ UNCHANGED <<bazaar, base, fetchVars, growth>>

DiscoveryStep ==
    \/ DI_001 \/ GetBase \/ TryLimit \/ TryOffset \/ GetListings \/ DI_004 \/ RequestFails
    \/ \E i \in DOMAIN Filters : TryFilter(i)
    \/ Blocked \/ Unreached \/ FetchRaises \/ Follow \/ Compare

-----------------------------------------------------------------------------
SentTo(h) == {s \in sent : Web[s.url].host = h}

\* However listings and redirects point at one another, a run sends no more than
\* its budget of requests, to one host no more than that host's, and none to an
\* address it may not reach (_SafeCrossFetcher).  A request counts once, however
\* many of its host's validated addresses it is tried at.
CrossFetchIsBounded ==
    /\ Cardinality(sent) <= MaxCrossFetches
    /\ \A h \in Hosts : Cardinality(SentTo(h)) <= MaxCrossFetchesPerHost
    /\ \A s \in sent : Web[s.url].public

-----------------------------------------------------------------------------
\* The redirects of a listing lead here, and a cross-fetch may follow all of them.
LeadsTo(listing, n, trail) ==
    /\ trail[0] = listing.url
    /\ \A k \in 0..n : Web[trail[k]].public
    /\ \A k \in 0..(n - 1) :
          /\ Web[trail[k]].ascii
          /\ Web[trail[k]].reply = "redirect" /\ Web[trail[k]].to = trail[k + 1]
          /\ Web[trail[k]].secure => Web[trail[k + 1]].secure

\* At their end the listing's own seller asks for another payTo.
IsStale(listing) ==
    \E n \in 0..MaxRedirects : \E trail \in [0..n -> Urls] :
        /\ LeadsTo(listing, n, trail)
        /\ Web[trail[n]].reply = "challenge" /\ Web[trail[n]].payTo # listing.payTo

\* Or is a place the fetcher cannot cope with.
IsTripping(listing) ==
    \E n \in 0..MaxRedirects : \E trail \in [0..n -> Urls] :
        LeadsTo(listing, n, trail) /\ Trips(Web[trail[n]], n)

Failed(check) == check \in DOMAIN di /\ di[check] = "fail"
Raised(check) == check \in DOMAIN di /\ di[check] = "error"

\* A Bazaar is failed for a flaw it has (di_001 to di_004): DI-002, which reads
\* eight pages, may also fail it for a listing that came between two of them;
\* DI-003 needs a listing whose own seller asks for another payTo, and DI-004 one
\* that declares an extension with a schema elsewhere.  An error, which condemns a
\* Bazaar too, comes of a catalogue that cannot be read, or in DI-003 of a single
\* listing whose place the fetcher cannot cope with.
DiscoveryAccusesRightly ==
    /\ Raised("DI_001") \/ Raised("DI_002") => bazaar.flaw \in {"tooDeep", "hugeNumber"}
    /\ Raised("DI_003") =>
          bazaar.flaw = "tooDeep" \/ \E i \in DOMAIN base.listings : IsTripping(base.listings[i])
    /\ Raised("DI_004") => bazaar.flaw = "tooDeep"
    /\ Failed("DI_001") => \/ bazaar.flaw \in {"notFound", "badSchema"}
                           \/ bazaar.flaw = "ignoresLimit" /\ Len(bazaar.catalogue) > 20
    /\ Failed("DI_002") => bazaar.flaw # "notFound" /\ (bazaar.flaw # "none" \/ growth > 0)
    /\ Failed("DI_003") => \E i \in DOMAIN base.listings : IsStale(base.listings[i])
    /\ Failed("DI_004") =>
          \E i \in DOMAIN bazaar.catalogue :
             /\ bazaar.catalogue[i].extension # "none"
             /\ bazaar.catalogue[i].schema = "external"
=============================================================================
