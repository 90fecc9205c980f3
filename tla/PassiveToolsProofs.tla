------------------------- MODULE PassiveToolsProofs -------------------------
(***************************************************************************)
(* The passive tools for any endpoints, Bazaars and web: the cross-fetcher *)
(* keeps its budgets, a Bazaar and an endpoint are failed for what they    *)
(* did and an error says where it came from, a run without faults and the  *)
(* checks on entries find what is there, a diff without a regression keeps *)
(* the verdict, and every step of a call leads to its end.                 *)
(***************************************************************************)
EXTENDS PassiveTools, FiniteSetTheorems, SequenceTheorems, TLAPS

-----------------------------------------------------------------------------
(* The cross-fetcher.                                                      *)

\* The fetcher's counters are what has been sent, in all and to each host.
BudgetIsSpent ==
    /\ IsFiniteSet(sent)
    /\ Cardinality(sent) = totalRequests
    /\ \A s \in sent : s.nth \in Nat /\ s.nth <= totalRequests
    /\ totalRequests \in Nat
    /\ requestsPerHost \in [Hosts -> Nat]
    /\ \A h \in Hosts : Cardinality(SentTo(h)) = requestsPerHost[h]

BudgetHolds ==
    /\ totalRequests <= MaxCrossFetches
    /\ \A h \in Hosts : requestsPerHost[h] <= MaxCrossFetchesPerHost
    /\ \A s \in sent : Web[s.url].public

BudgetInv == BudgetIsSpent /\ BudgetHolds

\* Nothing has been sent and nothing is spent.
LEMMA BudgetStarts ==
    ASSUME totalRequests' = 0, requestsPerHost' = [h \in Hosts |-> 0], sent' = {}
    PROVE  BudgetInv'
<1>1. IsFiniteSet({}) /\ Cardinality({}) = 0
  BY FS_EmptySet
<1>2. \A h \in Hosts : SentTo(h)' = {}
  BY DEF SentTo
<1>3. BudgetIsSpent'
  BY <1>1, <1>2 DEF BudgetIsSpent
<1>4. BudgetHolds'
  BY DiscoveryAssumption DEF BudgetHolds
<1>5. QED  BY <1>3, <1>4 DEF BudgetInv

\* A request that is allowed and charged keeps the counters true and in bounds.
LEMMA BudgetSpends ==
    ASSUME BudgetInv, Allowed, Reserve, Fetch
    PROVE  BudgetInv'
<1> DEFINE n == Cardinality(sent) + 1
           s == [nth |-> n, url |-> url]
           host == Web[url].host
<1>1. /\ IsFiniteSet(sent) /\ Cardinality(sent) = totalRequests /\ totalRequests \in Nat
      /\ requestsPerHost \in [Hosts -> Nat]
      /\ MaxCrossFetches \in Nat /\ MaxCrossFetchesPerHost \in Nat
  BY DiscoveryAssumption DEF BudgetInv, BudgetIsSpent
<1>2. s \notin sent
  <2>1. ASSUME s \in sent PROVE FALSE
    <3>1. s.nth <= totalRequests /\ s.nth = totalRequests + 1
      BY <1>1, <2>1 DEF BudgetInv, BudgetIsSpent
    <3>2. QED  BY <1>1, <3>1
  <2>2. QED  BY <2>1
<1>3. sent' = sent \cup {s}
  BY DEF Fetch
<1>4. IsFiniteSet(sent') /\ Cardinality(sent') = totalRequests + 1
  BY <1>1, <1>2, <1>3, FS_AddElement
<1>5. totalRequests' = totalRequests + 1
  BY DEF Reserve
<1>6. requestsPerHost' \in [Hosts -> Nat]
  <2>1. requestsPerHost' = [h \in Hosts |-> IF h = host THEN requestsPerHost[host] + 1
                                                       ELSE requestsPerHost[h]]
    BY <1>1 DEF Reserve
  <2>2. \A h \in Hosts : requestsPerHost[h] \in Nat
    BY <1>1
  <2>3. QED  BY <2>1, <2>2
<1>7. ASSUME NEW h \in Hosts
      PROVE  /\ Cardinality(SentTo(h)') = requestsPerHost'[h]
             /\ requestsPerHost'[h] <= MaxCrossFetchesPerHost
  <2>1. /\ Cardinality(SentTo(h)) = requestsPerHost[h]
        /\ requestsPerHost[h] <= MaxCrossFetchesPerHost /\ requestsPerHost[h] \in Nat
    BY <1>1 DEF BudgetInv, BudgetIsSpent, BudgetHolds
  <2>2. SentTo(h) \subseteq sent /\ IsFiniteSet(SentTo(h))
    BY <1>1, FS_Subset DEF SentTo
  <2>3. CASE h = host
    <3>1. SentTo(h)' = SentTo(h) \cup {s}
      BY <1>3, <2>3 DEF SentTo
    <3>2. Cardinality(SentTo(h)') = requestsPerHost[h] + 1
      BY <1>2, <2>1, <2>2, <3>1, FS_AddElement
    <3>3. requestsPerHost'[h] = requestsPerHost[h] + 1
      BY <1>1, <2>3 DEF Reserve
    <3>4. requestsPerHost[h] < MaxCrossFetchesPerHost
      BY <2>3 DEF Allowed
    <3>5. QED  BY <1>1, <2>1, <3>2, <3>3, <3>4
  <2>4. CASE h # host
    <3>1. SentTo(h)' = SentTo(h)
      BY <1>3, <2>4 DEF SentTo
    <3>2. requestsPerHost'[h] = requestsPerHost[h]
      BY <1>1, <2>4 DEF Reserve
    <3>3. QED  BY <2>1, <3>1, <3>2
  <2>5. QED  BY <2>3, <2>4
<1>8. \A t \in sent' : t.nth \in Nat /\ t.nth <= totalRequests'
  BY <1>1, <1>3, <1>5 DEF BudgetInv, BudgetIsSpent
<1>9. BudgetIsSpent'
  BY <1>1, <1>4, <1>5, <1>6, <1>7, <1>8 DEF BudgetIsSpent
<1>10. totalRequests' <= MaxCrossFetches
  BY <1>1, <1>5 DEF Allowed
<1>11. \A t \in sent' : Web[t.url].public
  BY <1>3 DEF Allowed, BudgetInv, BudgetHolds
<1>12. BudgetHolds'
  BY <1>7, <1>10, <1>11 DEF BudgetHolds
<1>13. QED  BY <1>9, <1>12 DEF BudgetInv

\* Every other step leaves the fetcher alone.
LEMMA BudgetKept ==
    ASSUME BudgetInv, UNCHANGED budgetVars
    PROVE  BudgetInv'
BY DEF budgetVars, BudgetInv, BudgetIsSpent, BudgetHolds, SentTo

\* A step of a discovery run spends a request it is allowed, or none.
LEMMA DiscoveryStepKeepsBudget ==
    ASSUME BudgetInv, DiscoveryStep
    PROVE  BudgetInv'
<1>1. ASSUME Unreached \/ FetchRaises \/ Follow \/ Compare PROVE BudgetInv'
  <2>1. Allowed /\ Reserve /\ Fetch
    BY <1>1 DEF Unreached, FetchRaises, Follow, Compare
  <2>2. QED  BY <2>1, BudgetSpends
<1>2. ASSUME \/ DI_001 \/ GetBase \/ TryLimit \/ TryOffset \/ GetListings \/ DI_004
             \/ RequestFails \/ Blocked \/ \E i \in DOMAIN Filters : TryFilter(i)
      PROVE  BudgetInv'
  <2>1. UNCHANGED budgetVars
    BY <1>2 DEF DI_001, GetBase, TryLimit, TryOffset, GetListings, DI_004, RequestFails,
                Blocked, TryFilter, fetchVars
  <2>2. QED  BY <2>1, BudgetKept
<1>3. QED  BY <1>1, <1>2 DEF DiscoveryStep

\* One step per kind of call.
LEMMA BudgetInvariant == ToolsSpec => []BudgetInv
<1>1. ToolsInit => BudgetInv
  <2> SUFFICES ASSUME ToolsInit PROVE BudgetInv  OBVIOUS
  <2>1. totalRequests = 0 /\ requestsPerHost = [h \in Hosts |-> 0] /\ sent = {}
    BY DEF ToolsInit, DiInit
  <2>2. IsFiniteSet({}) /\ Cardinality({}) = 0
    BY FS_EmptySet
  <2>3. \A h \in Hosts : SentTo(h) = {}
    BY <2>1 DEF SentTo
  <2>4. BudgetIsSpent
    BY <2>1, <2>2, <2>3 DEF BudgetIsSpent
  <2>5. BudgetHolds
    BY <2>1, DiscoveryAssumption DEF BudgetHolds
  <2>6. QED  BY <2>4, <2>5 DEF BudgetInv
<1>2. BudgetInv /\ [ToolsNext]_toolVars => BudgetInv'
  <2> SUFFICES ASSUME BudgetInv, [ToolsNext]_toolVars PROVE BudgetInv'  OBVIOUS
  <2>1. ASSUME DiscoveryStep PROVE BudgetInv'
    BY <2>1, DiscoveryStepKeepsBudget
  <2>2. ASSUME AnswerDiscovery PROVE BudgetInv'
    BY <2>2, BudgetStarts DEF AnswerDiscovery, ForgetDiscovery
  <2>3. ASSUME UNCHANGED diVars PROVE BudgetInv'
    BY <2>3, BudgetKept DEF diVars, fetchVars
  <2>4. ASSUME NEW b \in Bazaars, CheckDiscovery(b) PROVE BudgetInv'
    BY <2>4, BudgetKept DEF CheckDiscovery, BeginDiscovery, fetchVars
  <2>5. ASSUME NEW l \in NewListings, Grow(l) PROVE BudgetInv'
    BY <2>5, BudgetKept DEF Grow, fetchVars
  <2>6. QED
    BY <2>1, <2>2, <2>3, <2>4, <2>5
       DEF ToolsNext, Work, Call, Churn, AnswerEndpoint, CheckEndpoint, Refuse, DiffReports, toolVars
<1>3. QED  BY <1>1, <1>2, PTL DEF ToolsSpec

\* For any listings, redirects and addresses: no more requests than the budget,
\* in all and per host, and none to an address that may not be reached.
THEOREM CrossFetchBounded == ToolsSpec => []CrossFetchIsBounded
<1>1. BudgetInv => CrossFetchIsBounded
  BY DEF BudgetInv, BudgetIsSpent, BudgetHolds, CrossFetchIsBounded
<1>2. QED  BY BudgetInvariant, <1>1, PTL

-----------------------------------------------------------------------------
(* The pages of a Bazaar.                                                  *)

\* In a finite set of numbers every place is taken: for each k there is a member
\* with k - 1 below it.
LEMMA RanksAreTaken ==
    ASSUME NEW n \in Nat, NEW P \in SUBSET (1..n), NEW k \in 1..Cardinality(P)
    PROVE  \E i \in P : Cardinality({j \in P : j < i}) = k - 1
<1> DEFINE Below(i) == {j \in P : j < i}
           size == Cardinality(P)
           rank == [i \in P |-> Cardinality(Below(i))]
<1>1. IsFiniteSet(P) /\ size \in Nat
  <2>1. IsFiniteSet(1..n)
    BY FS_Interval
  <2>2. IsFiniteSet(P)
    BY <2>1, FS_Subset
  <2>3. QED  BY <2>2, FS_CardinalityType
<1>2. \A i \in P : IsFiniteSet(Below(i)) /\ Cardinality(Below(i)) \in 0..(size - 1)
  <2> SUFFICES ASSUME NEW i \in P
               PROVE  IsFiniteSet(Below(i)) /\ Cardinality(Below(i)) \in 0..(size - 1)
    OBVIOUS
  <2>1. Below(i) \in SUBSET P /\ Below(i) # P
    OBVIOUS
  <2>2. IsFiniteSet(Below(i)) /\ Cardinality(Below(i)) <= size /\ Cardinality(Below(i)) # size
    BY <1>1, <2>1, FS_Subset
  <2>3. Cardinality(Below(i)) \in Nat
    BY <2>2, FS_CardinalityType
  <2>4. QED  BY <1>1, <2>2, <2>3
<1>3. \A i, l \in P : i < l => Cardinality(Below(i)) < Cardinality(Below(l))
  <2> SUFFICES ASSUME NEW i \in P, NEW l \in P, i < l
               PROVE  Cardinality(Below(i)) < Cardinality(Below(l))
    OBVIOUS
  <2>1. i \in Nat /\ l \in Nat /\ \A j \in P : j \in Nat
    OBVIOUS
  <2>2. Below(i) \in SUBSET Below(l) /\ i \in Below(l) /\ i \notin Below(i)
    <3>1. \A j \in P : j < i => j < l
      BY <2>1
    <3>2. Below(i) \subseteq Below(l)
      BY <3>1
    <3>3. i \in Below(l) /\ i \notin Below(i)
      BY <2>1
    <3>4. QED  BY <3>2, <3>3
  <2>3. /\ Cardinality(Below(i)) <= Cardinality(Below(l))
        /\ Cardinality(Below(i)) # Cardinality(Below(l))
    BY <1>2, <2>2, FS_Subset
  <2>4. /\ Cardinality(Below(i)) \in Nat /\ Cardinality(Below(l)) \in Nat
    BY <1>2, FS_CardinalityType
  <2>5. QED  BY <2>3, <2>4
<1>4. rank \in Injection(P, 0..(size - 1))
  <2>1. rank \in [P -> 0..(size - 1)]
    BY <1>2
  <2>2. ASSUME NEW i \in P, NEW l \in P, rank[i] = rank[l] PROVE i = l
    <3>1. Cardinality(Below(i)) = Cardinality(Below(l)) /\ Cardinality(Below(i)) \in Nat
      BY <1>2, <2>2, FS_CardinalityType
    <3>2. ~(i < l) /\ ~(l < i)
      BY <1>3, <3>1
    <3>3. QED  BY <3>2
  <2> HIDE DEF rank
  <2>3. QED  BY <2>1, <2>2 DEF Injection, IsInjective
<1> HIDE DEF size, rank
<1>5. IsFiniteSet(0..(size - 1)) /\ Cardinality(0..(size - 1)) = size
  <2>1. /\ IsFiniteSet(0..(size - 1))
        /\ Cardinality(0..(size - 1)) = IF 0 > size - 1 THEN 0 ELSE size - 1 - 0 + 1
    BY <1>1, FS_Interval
  <2>2. QED  BY <1>1, <2>1
<1>6. rank \in Surjection(P, 0..(size - 1))
  BY <1>4, <1>5, FS_Injection DEF size
<1>7. k - 1 \in 0..(size - 1)
  BY <1>1 DEF size
<1>8. PICK i \in P : rank[i] = k - 1
  BY <1>6, <1>7 DEF Surjection
<1>9. QED  BY <1>8 DEF rank

\* What is picked from a catalogue is of it, in the number that was asked for.
LEMMA PickedProperties ==
    ASSUME NEW X, NEW s \in Seq(X), NEW P \in SUBSET (DOMAIN s)
    PROVE  /\ Picked(s, P) \in Seq(X)
           /\ Len(Picked(s, P)) = Cardinality(P) /\ Cardinality(P) \in Nat
           /\ \A k \in 1..Cardinality(P) : \E i \in P : Picked(s, P)[k] = s[i]
           /\ P # {} => Cardinality(P) > 0
           /\ P = {} => Cardinality(P) = 0
<1> DEFINE size == Cardinality(P)
           place(k) == CHOOSE i \in P : Cardinality({j \in P : j < i}) = k - 1
<1>1. Len(s) \in Nat /\ DOMAIN s = 1..Len(s) /\ \A i \in P : s[i] \in X
  BY LenProperties, ElementOfSeq
<1>2. IsFiniteSet(P) /\ size \in Nat
  <2>1. IsFiniteSet(1..Len(s))
    BY <1>1, FS_Interval
  <2>2. IsFiniteSet(P)
    BY <1>1, <2>1, FS_Subset
  <2>3. QED  BY <2>2, FS_CardinalityType
<1>3. \A k \in 1..size : place(k) \in P
  <2> SUFFICES ASSUME NEW k \in 1..size PROVE place(k) \in P
    OBVIOUS
  <2>1. \E i \in P : Cardinality({j \in P : j < i}) = k - 1
    BY <1>1, RanksAreTaken
  <2>2. QED  BY <2>1
<1>4. Picked(s, P) = [k \in 1..size |-> s[place(k)]]
  BY DEF Picked
<1> HIDE DEF place
<1>5. Picked(s, P) \in [1..size -> X]
  BY <1>1, <1>3, <1>4
<1>6. Picked(s, P) \in Seq(X)
  BY <1>2, <1>5, SeqDef
<1>7. Len(Picked(s, P)) = size
  <2>1. DOMAIN Picked(s, P) = 1..size /\ DOMAIN Picked(s, P) = 1..Len(Picked(s, P))
    BY <1>5, <1>6, LenProperties
  <2>2. Len(Picked(s, P)) \in Nat
    BY <1>6, LenProperties
  <2>3. QED  BY <1>2, <2>1, <2>2
<1>8. \A k \in 1..size : \E i \in P : Picked(s, P)[k] = s[i]
  BY <1>3, <1>4
<1>9. (P # {} => size > 0) /\ (P = {} => size = 0)
  BY <1>2, FS_EmptySet
<1>10. QED  BY <1>2, <1>6, <1>7, <1>8, <1>9

\* Whoever asks for everything gets the catalogue.
LEMMA PickedAll ==
    ASSUME NEW X, NEW s \in Seq(X)
    PROVE  Picked(s, DOMAIN s) = s
<1> DEFINE n == Len(s)
           P == DOMAIN s
<1>1. n \in Nat /\ P = 1..n
  BY LenProperties
<1>2. /\ Picked(s, P) \in Seq(X) /\ Len(Picked(s, P)) = Cardinality(P)
  BY PickedProperties
<1>3. \A i \in 0..n : Cardinality(1..i) = i
  <2> SUFFICES ASSUME NEW i \in 0..n PROVE Cardinality(1..i) = i
    OBVIOUS
  <2>1. Cardinality(1..i) = IF 1 > i THEN 0 ELSE i - 1 + 1
    BY <1>1, FS_Interval
  <2>2. QED  BY <1>1, <2>1
<1>4. \A i \in 1..n : Cardinality({j \in P : j < i}) = i - 1
  <2> SUFFICES ASSUME NEW i \in 1..n PROVE Cardinality({j \in P : j < i}) = i - 1
    OBVIOUS
  <2>1. {j \in P : j < i} = 1..(i - 1)
    BY <1>1
  <2>2. i - 1 \in 0..n
    BY <1>1
  <2>3. QED  BY <1>3, <2>1, <2>2
<1>5. \A k \in 1..n : Picked(s, P)[k] = s[k]
  <2> SUFFICES ASSUME NEW k \in 1..n PROVE Picked(s, P)[k] = s[k]
    OBVIOUS
  <2> DEFINE place == CHOOSE i \in P : Cardinality({j \in P : j < i}) = k - 1
  <2>1. k \in P /\ Cardinality({j \in P : j < k}) = k - 1
    BY <1>1, <1>4
  <2>2. place \in P /\ Cardinality({j \in P : j < place}) = k - 1
    BY <2>1
  <2>3. Picked(s, P)[k] = s[place]
    BY <1>1, <1>3 DEF Picked
  <2> HIDE DEF place
  <2>4. place - 1 = k - 1
    BY <1>1, <1>4, <2>2
  <2>5. place = k
    BY <1>1, <2>2, <2>4
  <2>6. QED  BY <2>3, <2>5
<1>6. Len(Picked(s, P)) = n
  BY <1>1, <1>2, <1>3
<1>7. QED  BY <1>1, <1>2, <1>5, <1>6, SeqEqual

\* A set of positions has a first one.
LEMMA FirstPosition ==
    ASSUME NEW n \in Nat, NEW P \in SUBSET (1..n), P # {}
    PROVE  \E i \in P : \A j \in P : i <= j
<1>1. IsFiniteSet(P) /\ Cardinality(P) \in Nat
  <2>1. IsFiniteSet(1..n)
    BY FS_Interval
  <2>2. QED  BY <2>1, FS_Subset, FS_CardinalityType
<1>2. 1 \in 1..Cardinality(P)
  BY <1>1, FS_EmptySet
<1>3. PICK i \in P : Cardinality({j \in P : j < i}) = 1 - 1
  BY <1>2, RanksAreTaken
<1>4. IsFiniteSet({j \in P : j < i})
  BY <1>1, FS_Subset
<1>5. {j \in P : j < i} = {}
  BY <1>3, <1>4, FS_EmptySet
<1>6. \A j \in P : ~(j < i) /\ j \in Nat
  BY <1>5
<1>7. QED  BY <1>6

\* The page at an offset is the listings after From(offset), through LastOf.
From(offset) == IF bazaar.flaw = "ignoresOffset" THEN 0 ELSE offset
LastOf(n, limit, offset) ==
    LET upTo == IF bazaar.flaw = "ignoresLimit" THEN n ELSE From(offset) + limit
    IN  IF upTo < n THEN upTo ELSE n

\* What is on a page: consecutive listings of those that match.
LEMMA PageListings ==
    ASSUME bazaar.catalogue \in Seq(Listing), NEW filter, NEW value,
           NEW limit \in Nat, NEW offset \in Nat,
           NEW matching, matching = Picked(bazaar.catalogue, Matching(filter, value)),
           NEW page, page = Page(filter, value, limit, offset),
           NEW from, from = From(offset),
           NEW last, last = LastOf(Len(matching), limit, offset)
    PROVE  /\ matching \in Seq(Listing) /\ Len(matching) \in Nat
           /\ page.listings \in Seq(Listing)
           /\ Len(page.listings) = IF from + 1 <= last THEN last - from ELSE 0
           /\ \A k \in 1..Len(page.listings) :
                 from + k \in 1..Len(matching) /\ page.listings[k] = matching[from + k]
           /\ page.total = IF bazaar.flaw = "pageTotal" THEN Len(page.listings)
                                                      ELSE Len(matching)
<1>1. matching \in Seq(Listing) /\ Len(matching) \in Nat
  <2>1. Matching(filter, value) \in SUBSET (DOMAIN bazaar.catalogue)
    BY DEF Matching
  <2>2. matching \in Seq(Listing)
    BY <2>1, PickedProperties
  <2>3. QED  BY <2>2, LenProperties
<1>2. /\ page.listings = SubSeq(matching, from + 1, last)
      /\ page.total = IF bazaar.flaw = "pageTotal" THEN Len(page.listings) ELSE Len(matching)
  BY DEF Page, From, LastOf
<1>3. from \in Nat /\ last \in Nat /\ last <= Len(matching)
  BY <1>1 DEF From, LastOf
<1>4. \A i \in (from + 1)..last : matching[i] \in Listing
  BY <1>1, <1>3, ElementOfSeq
<1>5. /\ page.listings \in Seq(Listing)
      /\ Len(page.listings) = IF from + 1 <= last THEN last - (from + 1) + 1 ELSE 0
      /\ \A k \in 1..(last - (from + 1) + 1) : page.listings[k] = matching[from + 1 + k - 1]
  <2>1. \A a, b \in Int :
           (\A i \in a..b : matching[i] \in Listing) =>
              /\ SubSeq(matching, a, b) \in Seq(Listing)
              /\ Len(SubSeq(matching, a, b)) = IF a <= b THEN b - a + 1 ELSE 0
              /\ \A k \in 1..(b - a + 1) : SubSeq(matching, a, b)[k] = matching[a + k - 1]
    BY SubSeqProperties
  <2>2. from + 1 \in Int /\ last \in Int
    BY <1>3
  <2>3. QED  BY <1>2, <1>4, <2>1, <2>2
<1>6. Len(page.listings) = IF from + 1 <= last THEN last - from ELSE 0
  BY <1>3, <1>5
<1>7. \A k \in 1..Len(page.listings) :
         from + k \in 1..Len(matching) /\ page.listings[k] = matching[from + k]
  <2> SUFFICES ASSUME NEW k \in 1..Len(page.listings)
               PROVE  from + k \in 1..Len(matching) /\ page.listings[k] = matching[from + k]
    OBVIOUS
  <2>1. from + 1 <= last /\ k \in 1..(last - from)
    BY <1>3, <1>6, SMTT(30)
  <2>2. k \in 1..(last - (from + 1) + 1) /\ from + 1 + k - 1 = from + k
    BY <1>3, <2>1, SMTT(30)
  <2>3. from + k \in 1..Len(matching)
    BY <1>1, <1>3, <2>1, SMTT(30)
  <2>4. QED  BY <1>5, <2>2, <2>3
<1>8. QED  BY <1>1, <1>2, <1>5, <1>6, <1>7

\* The unfiltered pages are read off the catalogue itself.
LEMMA UnfilteredMatches ==
    ASSUME bazaar.catalogue \in Seq(Listing)
    PROVE  Picked(bazaar.catalogue, Matching("none", "none")) = bazaar.catalogue
<1>1. Matching("none", "none") = DOMAIN bazaar.catalogue
  BY DEF Matching
<1>2. QED  BY <1>1, PickedAll

\* The first page: valid of any Bazaar that does not break its schema or its limit.
LEMMA UnfilteredPage ==
    ASSUME bazaar \in [flaw : Flaws, catalogue : Seq(Listing)]
    PROVE  /\ Unfiltered.listings \in Seq(Listing)
           /\ Len(Unfiltered.listings) <= Len(bazaar.catalogue)
           /\ \A i \in DOMAIN Unfiltered.listings :
                 i \in DOMAIN bazaar.catalogue /\ Unfiltered.listings[i] = bazaar.catalogue[i]
           /\ bazaar.flaw = "none" => Unfiltered.total = Len(bazaar.catalogue)
           /\ \/ bazaar.flaw = "badSchema"
              \/ bazaar.flaw = "ignoresLimit" /\ Len(bazaar.catalogue) > 20
              \/ Valid(Unfiltered, 20, 0)
<1> DEFINE n == Len(bazaar.catalogue)
           last == LastOf(n, 20, 0)
<1>1. n \in Nat /\ DOMAIN bazaar.catalogue = 1..n
  BY LenProperties
<1>2. bazaar.catalogue \in Seq(Listing) /\ 20 \in Nat /\ 0 \in Nat
  OBVIOUS
<1>3. /\ Unfiltered.listings \in Seq(Listing)
      /\ Len(Unfiltered.listings) = last
      /\ \A k \in 1..Len(Unfiltered.listings) :
            k \in 1..n /\ Unfiltered.listings[k] = bazaar.catalogue[k]
      /\ Unfiltered.total = IF bazaar.flaw = "pageTotal" THEN Len(Unfiltered.listings) ELSE n
  <2>1. From(0) = 0
    BY DEF From
  <2>2. /\ Unfiltered.listings \in Seq(Listing)
        /\ Len(Unfiltered.listings) = IF 0 + 1 <= last THEN last - 0 ELSE 0
        /\ \A k \in 1..Len(Unfiltered.listings) :
              0 + k \in 1..n /\ Unfiltered.listings[k] = bazaar.catalogue[0 + k]
        /\ Unfiltered.total = IF bazaar.flaw = "pageTotal" THEN Len(Unfiltered.listings) ELSE n
    <3>1. Picked(bazaar.catalogue, Matching("none", "none")) = bazaar.catalogue
      BY <1>2, UnfilteredMatches
    <3>2. Unfiltered = Page("none", "none", 20, 0)
      BY DEF Unfiltered
    <3>3. PICK limit \in Nat, offset \in Nat : limit = 20 /\ offset = 0
      OBVIOUS
    <3> DEFINE page == Page("none", "none", limit, offset)
               from == From(offset)
               upTo == LastOf(n, limit, offset)
    <3>4. page = Unfiltered /\ from = 0 /\ upTo = last
      BY <2>1, <3>2, <3>3
    <3>5. /\ page.listings \in Seq(Listing)
          /\ Len(page.listings) = IF from + 1 <= upTo THEN upTo - from ELSE 0
          /\ \A k \in 1..Len(page.listings) :
                from + k \in 1..n /\ page.listings[k] = bazaar.catalogue[from + k]
          /\ page.total = IF bazaar.flaw = "pageTotal" THEN Len(page.listings) ELSE n
      BY <1>2, <3>1, PageListings
    <3> HIDE DEF page, from, upTo, last, n
    <3>6. QED  BY <3>4, <3>5
  <2>3. last \in Nat
    BY <1>1, <2>1 DEF LastOf
  <2>4. (IF 0 + 1 <= last THEN last - 0 ELSE 0) = last
    BY <2>3
  <2> HIDE DEF last
  <2>5. \A k \in 1..Len(Unfiltered.listings) : 0 + k = k
    BY <2>2, LenProperties
  <2>6. QED  BY <2>2, <2>4, <2>5
<1>4. DOMAIN Unfiltered.listings = 1..Len(Unfiltered.listings)
  BY <1>3, LenProperties
<1>5. last <= n /\ last \in Nat
  BY <1>1 DEF LastOf, From
<1>6. ASSUME bazaar.flaw # "badSchema", ~(bazaar.flaw = "ignoresLimit" /\ n > 20)
      PROVE  Valid(Unfiltered, 20, 0)
  <2>1. last <= 20
    BY <1>1, <1>6 DEF LastOf, From
  <2>2. Unfiltered.total \in Nat /\ last <= Unfiltered.total
    BY <1>1, <1>3, <1>5
  <2>3. 0 >= Unfiltered.total => last = 0
    BY <1>5, <2>2
  <2>4. 0 >= Unfiltered.total => Unfiltered.listings = <<>>
    BY <1>3, <2>3, EmptySeq
  <2> HIDE DEF last
  <2>5. QED  BY <1>3, <1>5, <1>6, <2>1, <2>2, <2>4 DEF Valid
<1>7. bazaar.flaw = "none" => Unfiltered.total = n
  BY <1>3
<1> HIDE DEF last
<1>8. QED  BY <1>1, <1>3, <1>4, <1>5, <1>6, <1>7

\* Every page of a Bazaar without a flaw is valid and counts what matches.
LEMMA HonestPage ==
    ASSUME bazaar \in [flaw : Flaws, catalogue : Seq(Listing)], bazaar.flaw = "none",
           NEW filter, NEW value, NEW limit \in Nat, NEW offset \in Nat,
           NEW matching, matching = Picked(bazaar.catalogue, Matching(filter, value)),
           NEW page, page = Page(filter, value, limit, offset)
    PROVE  /\ Valid(page, limit, offset)
           /\ page.listings \in Seq(Listing)
           /\ page.total = Len(matching) /\ Len(matching) \in Nat
           /\ Len(page.listings) = IF Len(matching) <= offset THEN 0
                                   ELSE IF Len(matching) - offset < limit
                                   THEN Len(matching) - offset ELSE limit
           /\ \A k \in 1..Len(page.listings) :
                 offset + k \in 1..Len(matching) /\ page.listings[k] = matching[offset + k]
<1> DEFINE m == Len(matching)
           last == LastOf(m, limit, offset)
           taken == IF offset + 1 <= last THEN last - offset ELSE 0
<1>1. From(offset) = offset
  BY DEF From
<1>2. /\ m \in Nat
      /\ page.listings \in Seq(Listing)
      /\ Len(page.listings) = taken
      /\ \A k \in 1..Len(page.listings) :
            offset + k \in 1..m /\ page.listings[k] = matching[offset + k]
      /\ page.total = m
  <2>1. /\ m \in Nat
        /\ page.listings \in Seq(Listing)
        /\ Len(page.listings) = taken
        /\ \A k \in 1..Len(page.listings) :
              offset + k \in 1..m /\ page.listings[k] = matching[offset + k]
        /\ page.total = IF bazaar.flaw = "pageTotal" THEN Len(page.listings) ELSE m
    BY <1>1, PageListings
  <2>2. QED  BY <2>1
<1>3. last = IF offset + limit < m THEN offset + limit ELSE m
  BY <1>1 DEF LastOf
<1> HIDE DEF last
<1>4. taken = IF m <= offset THEN 0 ELSE IF m - offset < limit THEN m - offset ELSE limit
  BY <1>2, <1>3
<1>5. taken <= limit /\ (offset < m => offset + taken <= m) /\ (offset >= m => taken = 0)
  BY <1>2, <1>4
<1> HIDE DEF taken, m
<1>6. offset >= m => page.listings = <<>>
  BY <1>2, <1>5, EmptySeq
<1>7. Valid(page, limit, offset)
  BY <1>2, <1>5, <1>6 DEF Valid
<1> USE DEF m
<1>8. QED  BY <1>2, <1>4, <1>7

FilterNames == {"type", "payTo", "scheme", "network", "extension"}

\* The filters, and that nobody is listed under a value nobody has.
LEMMA FilterIsNamed == \A i \in DOMAIN Filters : Filters[i] \in FilterNames
BY DEF Filters, FilterNames

LEMMA NobodyIsMissing ==
    ASSUME NEW l \in Listing, NEW f \in FilterNames
    PROVE  l[f] # "missing"
BY DEF Listing, FilterNames

\* A Bazaar without a flaw honours a filter that is tried with a value off its own
\* first page, or with one that nobody has.
LEMMA HonestFilter ==
    ASSUME bazaar \in [flaw : Flaws, catalogue : Seq(Listing)], bazaar.flaw = "none",
           base = Unfiltered, base.listings # <<>>, NEW f \in FilterNames,
           NEW page, page = Page(f, Seed(f), 100, 0)
    PROVE  Valid(page, 100, 0) /\ Honoured(page, f)
<1> DEFINE keeps == Matching(f, Seed(f))
           matching == Picked(bazaar.catalogue, keeps)
           usable == {i \in DOMAIN base.listings : base.listings[i][f] # "none"}
           leading == CHOOSE i \in usable : \A j \in usable : i <= j
<1>1. /\ DOMAIN bazaar.catalogue = 1..Len(bazaar.catalogue) /\ Len(bazaar.catalogue) \in Nat
      /\ \A i \in DOMAIN bazaar.catalogue : bazaar.catalogue[i] \in Listing
  BY LenProperties, ElementOfSeq
<1>2. /\ base.listings \in Seq(Listing)
      /\ \A i \in DOMAIN base.listings :
            i \in DOMAIN bazaar.catalogue /\ base.listings[i] = bazaar.catalogue[i]
  BY UnfilteredPage
<1>3. keeps = {i \in DOMAIN bazaar.catalogue : bazaar.catalogue[i][f] = Seed(f)}
  BY DEF Matching, FilterNames
<1>4. /\ matching \in Seq(Listing) /\ Len(matching) = Cardinality(keeps)
      /\ Cardinality(keeps) \in Nat
      /\ \A k \in 1..Cardinality(keeps) : \E i \in keeps : matching[k] = bazaar.catalogue[i]
      /\ keeps # {} => Cardinality(keeps) > 0
      /\ keeps = {} => Cardinality(keeps) = 0
  <2>1. keeps \in SUBSET (DOMAIN bazaar.catalogue)
    BY <1>3
  <2> HIDE DEF keeps
  <2>2. QED  BY <2>1, PickedProperties
<1>5. /\ Valid(page, 100, 0)
      /\ page.listings \in Seq(Listing)
      /\ page.total = Len(matching)
      /\ Len(page.listings) = IF Len(matching) <= 0 THEN 0
                              ELSE IF Len(matching) - 0 < 100 THEN Len(matching) - 0 ELSE 100
      /\ \A k \in 1..Len(page.listings) :
            0 + k \in 1..Len(matching) /\ page.listings[k] = matching[0 + k]
  BY HonestPage
<1> HIDE DEF matching, keeps
<1>6. CASE usable = {}
  <2>1. Seed(f) = "missing"
    BY <1>6 DEF Seed
  <2>2. keeps = {}
    BY <1>1, <1>3, <2>1, NobodyIsMissing
  <2>3. page.total = 0 /\ Len(page.listings) = 0
    BY <1>4, <1>5, <2>2
  <2>4. page.listings = <<>>
    BY <1>5, <2>3, EmptySeq
  <2>5. QED  BY <1>5, <2>1, <2>3, <2>4 DEF Honoured
<1>7. CASE usable # {}
  <2>1. leading \in usable
    <3>1. usable \in SUBSET (1..Len(base.listings)) /\ Len(base.listings) \in Nat
      BY <1>2, LenProperties
    <3>2. \E i \in usable : \A j \in usable : i <= j
      BY <1>7, <3>1, FirstPosition
    <3>3. QED  BY <3>2
  <2>2. Seed(f) = base.listings[leading][f]
    BY <1>7 DEF Seed
  <2> HIDE DEF leading
  <2>3. leading \in keeps
    BY <1>2, <1>3, <2>1, <2>2
  <2>4. Seed(f) # "missing"
    BY <1>1, <1>2, <2>1, <2>2, NobodyIsMissing
  <2>5. Len(matching) > 0 /\ Len(matching) \in Nat
    BY <1>4, <2>3
  <2>6. Len(page.listings) > 0
    BY <1>5, <2>5
  <2>7. page.listings # <<>>
    BY <2>6, EmptySeq
  <2>8. \A k \in DOMAIN page.listings : page.listings[k][f] = Seed(f)
    <3> SUFFICES ASSUME NEW k \in DOMAIN page.listings PROVE page.listings[k][f] = Seed(f)
      OBVIOUS
    <3>1. k \in 1..Len(page.listings) /\ k \in Nat /\ 0 + k = k
      BY <1>5, LenProperties
    <3>2. k \in 1..Cardinality(keeps) /\ page.listings[k] = matching[k]
      BY <1>4, <1>5, <3>1
    <3>3. PICK i \in keeps : matching[k] = bazaar.catalogue[i]
      BY <1>4, <3>2
    <3>4. QED  BY <1>3, <3>2, <3>3
  <2>9. QED  BY <1>5, <2>4, <2>7, <2>8 DEF Honoured
<1>8. QED  BY <1>6, <1>7

\* And its pages by limit and offset continue the first one.
LEMMA HonestLimit ==
    ASSUME bazaar \in [flaw : Flaws, catalogue : Seq(Listing)], bazaar.flaw = "none",
           base = Unfiltered, NEW page, page = Page("none", "none", 1, 0)
    PROVE  Valid(page, 1, 0) /\ page.total = base.total
<1>1. Picked(bazaar.catalogue, Matching("none", "none")) = bazaar.catalogue
  BY UnfilteredMatches
<1>2. Valid(page, 1, 0) /\ page.total = Len(bazaar.catalogue)
  BY <1>1, HonestPage
<1>3. QED  BY <1>2, UnfilteredPage

LEMMA HonestOffset ==
    ASSUME bazaar \in [flaw : Flaws, catalogue : Seq(Listing)], bazaar.flaw = "none",
           base = Unfiltered, NEW page, page = Page("none", "none", 100, 1)
    PROVE  Valid(page, 100, 1) /\ page.total = base.total /\ Continues(page)
<1> DEFINE n == Len(bazaar.catalogue)
<1>1. Picked(bazaar.catalogue, Matching("none", "none")) = bazaar.catalogue
  BY UnfilteredMatches
<1>2. /\ Valid(page, 100, 1)
      /\ page.listings \in Seq(Listing)
      /\ page.total = n /\ n \in Nat
      /\ Len(page.listings) = IF n <= 1 THEN 0 ELSE IF n - 1 < 100 THEN n - 1 ELSE 100
      /\ \A k \in 1..Len(page.listings) :
            1 + k \in 1..n /\ page.listings[k] = bazaar.catalogue[1 + k]
  BY <1>1, HonestPage
<1>3. /\ base.listings \in Seq(Listing) /\ Len(base.listings) <= n /\ base.total = n
      /\ \A i \in DOMAIN base.listings : base.listings[i] = bazaar.catalogue[i]
  BY UnfilteredPage
<1> HIDE DEF n
<1>4. DOMAIN base.listings = 1..Len(base.listings) /\ Len(base.listings) \in Nat
  BY <1>3, LenProperties
<1>5. ASSUME Len(base.listings) >= 2
      PROVE  page.listings # <<>> /\ page.listings[1].url = base.listings[2].url
  <2>1. Len(page.listings) >= 1 /\ Len(page.listings) \in Nat
    BY <1>2, <1>3, <1>4, <1>5
  <2>2. page.listings # <<>>
    BY <2>1, EmptySeq
  <2>3. page.listings[1] = bazaar.catalogue[2]
    BY <1>2, <2>1
  <2>4. base.listings[2] = bazaar.catalogue[2]
    BY <1>3, <1>4, <1>5
  <2>5. QED  BY <2>2, <2>3, <2>4
<1>6. base.total = 1 => page.listings = <<>>
  BY <1>2, <1>3, EmptySeq
<1>7. QED  BY <1>2, <1>3, <1>5, <1>6 DEF Continues

-----------------------------------------------------------------------------
\* The steps of DI-002 after its base page, and those before any cross-fetch.
Comparing == FilterNames \cup {"limited", "offset"}
BeforeCross == {"idle", "DI_001", "base", "listings"} \cup Comparing

\* A run has a Bazaar, whose catalogue only grows.
HasBazaar ==
    /\ growth \in Nat
    /\ diStep # "idle" => bazaar \in [flaw : Flaws, catalogue : Seq(Listing)]

\* Nothing is said of the listings before they are fetched, and of an honest
\* Bazaar DI-002 compares with what is still its first page.
BaseStands ==
    /\ diStep = "idle" => DOMAIN di = {}
    /\ diStep \in BeforeCross => ~stale /\ "DI_003" \notin DOMAIN di
    /\ diStep \in Comparing =>
          /\ ~Missing
          /\ bazaar.flaw = "none" /\ growth = 0 => base = Unfiltered /\ base.listings # <<>>

\* The redirects followed so far lead from the listing to the URL under way; each
\* was one the fetcher may follow.
Followed(trail) ==
    /\ trail \in [0..hop -> Urls]
    /\ trail[0] = base.listings[item].url /\ trail[hop] = url
    /\ \A k \in 0..(hop - 1) :
          /\ Web[trail[k]].public /\ Web[trail[k]].ascii
          /\ Web[trail[k]].reply = "redirect" /\ Web[trail[k]].to = trail[k + 1]
    /\ \A k \in 0..(hop - 2) : Web[trail[k]].secure => Web[trail[k + 1]].secure
    /\ hop > 0 => wasSecure = Web[trail[hop - 1]].secure

SomeIsStale == \E i \in DOMAIN base.listings : IsStale(base.listings[i])
SomeIsTripping == \E i \in DOMAIN base.listings : IsTripping(base.listings[i])

FetchStands ==
    /\ diStep = "cross" =>
          /\ base.listings \in Seq(Listing)
          /\ item \in DOMAIN base.listings
          /\ hop \in 0..MaxRedirects
          /\ \E trail \in [0..hop -> Urls] : Followed(trail)
    /\ stale /\ diStep = "cross" => SomeIsStale

AccusesInv == HasBazaar /\ BaseStands /\ FetchStands /\ DiscoveryAccusesRightly

\* Who is stale, and whose place the fetcher cannot cope with, is a matter of the
\* listings and of the web.
LEMMA StaleStays ==
    UNCHANGED base => (SomeIsStale' <=> SomeIsStale) /\ (SomeIsTripping' <=> SomeIsTripping)
BY DEF SomeIsStale, IsStale, SomeIsTripping, IsTripping

\* What each check may fail a Bazaar for, and what it may end in an error for.
DiChecks == {"DI_001", "DI_002", "DI_003", "DI_004"}
DeclaresExternal ==
    \E i \in DOMAIN bazaar.catalogue :
       bazaar.catalogue[i].extension # "none" /\ bazaar.catalogue[i].schema = "external"
Blamed(check) ==
    CASE check = "DI_001" -> \/ bazaar.flaw \in {"notFound", "badSchema"}
                             \/ bazaar.flaw = "ignoresLimit" /\ Len(bazaar.catalogue) > 20
      [] check = "DI_002" -> bazaar.flaw # "notFound" /\ (bazaar.flaw # "none" \/ growth > 0)
      [] check = "DI_003" -> SomeIsStale
      [] OTHER -> DeclaresExternal
Breaks(check) ==
    CASE check \in {"DI_001", "DI_002"} -> bazaar.flaw \in {"tooDeep", "hugeNumber"}
      [] check = "DI_003" -> bazaar.flaw = "tooDeep" \/ SomeIsTripping
      [] OTHER -> bazaar.flaw = "tooDeep"

\* Either status condemns the Bazaar, and either has its grounds.
Condemning == {"fail", "error"}
Says(check, status) == check \in DOMAIN di /\ di[check] = status
Grounds(check, status) == IF status = "fail" THEN Blamed(check) ELSE Breaks(check)
AllGrounded == \A c \in DiChecks, s \in Condemning : Says(c, s) => Grounds(c, s)

LEMMA AccusesByCheck ==
    /\ DiscoveryAccusesRightly <=> AllGrounded
    /\ DiscoveryAccusesRightly' <=> AllGrounded'
<1>1. DiscoveryAccusesRightly <=> AllGrounded
  BY DEF DiscoveryAccusesRightly, AllGrounded, DiChecks, Condemning, Says, Failed, Raised,
         Grounds, Blamed, Breaks, SomeIsStale, SomeIsTripping, DeclaresExternal
<1>2. DiscoveryAccusesRightly' <=> AllGrounded'
  BY DEF DiscoveryAccusesRightly, AllGrounded, DiChecks, Condemning, Says, Failed, Raised,
         Grounds, Blamed, Breaks, SomeIsStale, SomeIsTripping, DeclaresExternal
<1>3. QED  BY <1>1, <1>2

LEMMA GroundsStay ==
    ASSUME UNCHANGED <<bazaar, growth>>, NEW c \in DiChecks, NEW s \in Condemning,
           UNCHANGED base \/ c # "DI_003"
    PROVE  Grounds(c, s)' <=> Grounds(c, s)
<1>1. DeclaresExternal' <=> DeclaresExternal
  BY DEF DeclaresExternal
<1>2. QED  BY <1>1, StaleStays DEF Grounds, Blamed, Breaks, DiChecks

\* What a decision adds to the verdicts.
LEMMA Decided ==
    ASSUME NEW check, NEW status, NEW next, Decide(check, status, next)
    PROVE  /\ diStep' = next
           /\ \A c : c \in (DOMAIN di)' <=> c = check \/ c \in DOMAIN di
           /\ \A c, s : Says(c, s)' <=> IF c = check THEN status = s ELSE Says(c, s)
BY DEF Decide, Says

\* The accusations of a run stand while its verdicts and its Bazaar do.
LEMMA StaysRight ==
    ASSUME DiscoveryAccusesRightly, UNCHANGED <<bazaar, base, growth, di>>
    PROVE  DiscoveryAccusesRightly'
<1>1. \A c \in DiChecks, s \in Condemning : Says(c, s)' <=> Says(c, s)
  BY DEF Says
<1>2. \A c \in DiChecks, s \in Condemning : Grounds(c, s)' <=> Grounds(c, s)
  BY GroundsStay
<1>3. AllGrounded'
  BY <1>1, <1>2, AccusesByCheck DEF AllGrounded
<1>4. QED  BY <1>3, AccusesByCheck

\* Nobody is accused anew by a step that adds no failure and no error.
LEMMA NobodyNewIsAccused ==
    ASSUME DiscoveryAccusesRightly, UNCHANGED <<bazaar, growth>>,
           \A c \in DiChecks, s \in Condemning :
              Says(c, s)' => Says(c, s) /\ (UNCHANGED base \/ c # "DI_003")
    PROVE  DiscoveryAccusesRightly'
<1>1. \A c \in DiChecks, s \in Condemning : Says(c, s)' => Grounds(c, s)
  BY AccusesByCheck DEF AllGrounded
<1>2. \A c \in DiChecks, s \in Condemning : Says(c, s)' => Grounds(c, s)'
  BY <1>1, GroundsStay
<1>3. AllGrounded'
  BY <1>2 DEF AllGrounded
<1>4. QED  BY <1>3, AccusesByCheck

\* One more verdict, with its grounds if it condemns the Bazaar.
LEMMA JudgedRightly ==
    ASSUME DiscoveryAccusesRightly, UNCHANGED <<bazaar, growth>>,
           NEW check \in DiChecks, NEW status, NEW next, Decide(check, status, next),
           status \in Condemning => Grounds(check, status),
           UNCHANGED base \/ (check # "DI_003" /\ "DI_003" \notin DOMAIN di)
    PROVE  DiscoveryAccusesRightly'
<1>1. \A c \in DiChecks, s \in Condemning :
         Says(c, s)' <=> IF c = check THEN status = s ELSE Says(c, s)
  BY Decided
<1>2. \A c \in DiChecks, s \in Condemning : Says(c, s)' => Grounds(c, s)
  BY <1>1, AccusesByCheck DEF AllGrounded
<1>3. \A c \in DiChecks, s \in Condemning : Says(c, s)' => UNCHANGED base \/ c # "DI_003"
  BY <1>1 DEF Says
<1>4. \A c \in DiChecks, s \in Condemning : Says(c, s)' => Grounds(c, s)'
  BY <1>2, <1>3, GroundsStay
<1>5. AllGrounded'
  BY <1>4 DEF AllGrounded
<1>6. QED  BY <1>5, AccusesByCheck

\* A catalogue that cannot be read makes an error of any check of it.
LEMMA UnreadableIsAnError ==
    ASSUME DiscoveryAccusesRightly, UNCHANGED <<bazaar, growth>>, bazaar.flaw = "tooDeep",
           NEW next, Decide("DI_003", "error", next)
    PROVE  DiscoveryAccusesRightly'
<1>1. \A c \in DiChecks, s \in Condemning :
         Says(c, s)' <=> IF c = "DI_003" THEN s = "error" ELSE Says(c, s)
  BY Decided
<1>2. \A c \in DiChecks, s \in Condemning :
         c # "DI_003" => (Grounds(c, s)' <=> Grounds(c, s))
  BY GroundsStay
<1>3. Grounds("DI_003", "error")'
  BY DEF Grounds, Breaks
<1>4. AllGrounded'
  BY <1>1, <1>2, <1>3, AccusesByCheck DEF AllGrounded
<1>5. QED  BY <1>4, AccusesByCheck

\* The redirects that were followed lead from the listing to the URL under way.
LEMMA TrailLeads ==
    ASSUME FetchStands, diStep = "cross", Allowed
    PROVE  /\ hop \in 0..MaxRedirects
           /\ \E trail \in [0..hop -> Urls] :
                 LeadsTo(base.listings[item], hop, trail) /\ trail[hop] = url
<1>1. hop \in 0..MaxRedirects /\ hop \in Nat
  BY DiscoveryAssumption DEF FetchStands
<1>2. PICK trail \in [0..hop -> Urls] : Followed(trail)
  BY DEF FetchStands
<1>3. trail[0] = base.listings[item].url /\ trail[hop] = url
  BY <1>2 DEF Followed
<1>4. \A k \in 0..hop : Web[trail[k]].public
  <2> SUFFICES ASSUME NEW k \in 0..hop PROVE Web[trail[k]].public
    OBVIOUS
  <2>1. CASE k = hop
    BY <1>3, <2>1 DEF Allowed
  <2>2. CASE k # hop
    BY <1>1, <1>2, <2>2 DEF Followed
  <2>3. QED  BY <2>1, <2>2
<1>5. \A k \in 0..(hop - 1) :
         /\ Web[trail[k]].ascii
         /\ Web[trail[k]].reply = "redirect" /\ Web[trail[k]].to = trail[k + 1]
         /\ Web[trail[k]].secure => Web[trail[k + 1]].secure
  <2> SUFFICES ASSUME NEW k \in 0..(hop - 1)
               PROVE  /\ Web[trail[k]].ascii
                      /\ Web[trail[k]].reply = "redirect" /\ Web[trail[k]].to = trail[k + 1]
                      /\ Web[trail[k]].secure => Web[trail[k + 1]].secure
    OBVIOUS
  <2>1. Web[trail[k]].ascii /\ Web[trail[k]].reply = "redirect" /\ Web[trail[k]].to = trail[k + 1]
    BY <1>2 DEF Followed
  <2>2. CASE k = hop - 1
    <3>1. wasSecure = Web[trail[k]].secure /\ k + 1 = hop
      BY <1>1, <1>2, <2>2 DEF Followed
    <3>2. Web[trail[k]].secure => Web[url].secure
      BY <3>1 DEF Allowed
    <3>3. QED  BY <1>3, <2>1, <3>1, <3>2
  <2>3. CASE k # hop - 1
    <3>1. k \in 0..(hop - 2)
      BY <1>1, <2>3
    <3>2. QED  BY <1>2, <2>1, <3>1 DEF Followed
  <2>4. QED  BY <2>2, <2>3
<1>6. QED  BY <1>1, <1>2, <1>3, <1>4, <1>5 DEF LeadsTo

\* A listing has another seller at the end of its redirects, or a place the fetcher
\* cannot cope with, if that is what the fetcher has come upon.
LEMMA CaughtIsStale ==
    ASSUME FetchStands, diStep = "cross", Allowed, StaleAgainst(base.listings[item], Web[url])
    PROVE  IsStale(base.listings[item])
<1>1. PICK trail \in [0..hop -> Urls] :
         LeadsTo(base.listings[item], hop, trail) /\ trail[hop] = url
  BY TrailLeads
<1>2. Web[trail[hop]].reply = "challenge" /\ Web[trail[hop]].payTo # base.listings[item].payTo
  BY <1>1 DEF StaleAgainst
<1>3. QED  BY <1>1, <1>2, TrailLeads DEF IsStale

LEMMA CaughtIsTripping ==
    ASSUME FetchStands, diStep = "cross", Allowed, Trips(Web[url], hop)
    PROVE  IsTripping(base.listings[item])
<1>1. PICK trail \in [0..hop -> Urls] :
         LeadsTo(base.listings[item], hop, trail) /\ trail[hop] = url
  BY TrailLeads
<1>2. QED  BY <1>1, TrailLeads DEF IsTripping

\* The next listing starts on a trail of its own.
LEMMA Started ==
    ASSUME NEW i, NEW listings \in Seq(Listing), i \in DOMAIN listings, Start(i, listings),
           base'.listings = listings
    PROVE  /\ (item \in DOMAIN base.listings)'
           /\ (hop \in 0..MaxRedirects)'
           /\ (\E trail \in [0..hop -> Urls] : Followed(trail))'
<1>1. item' = i /\ hop' = 0 /\ url' = listings[i].url
  BY DEF Start
<1>2. listings[i] \in Listing
  BY LenProperties, ElementOfSeq
<1>3. listings[i].url \in Urls
  BY <1>2 DEF Listing
<1> DEFINE trail == [k \in 0..0 |-> listings[i].url]
<1>4. 0..(0 - 1) = {} /\ 0..(0 - 2) = {} /\ 0 \in 0..0
  OBVIOUS
<1>5. trail \in [0..hop' -> Urls] /\ trail[0] = listings[i].url
  BY <1>1, <1>3, <1>4
<1> HIDE DEF trail
<1>6. Followed(trail)'
  <2>1. 0..(hop' - 1) = {} /\ 0..(hop' - 2) = {} /\ ~(hop' > 0)
    BY <1>1
  <2>2. trail[0] = base'.listings[item'].url /\ trail[hop'] = url'
    BY <1>1, <1>5
  <2>3. QED  BY <1>5, <2>1, <2>2 DEF Followed
<1>7. 0 \in 0..MaxRedirects
  BY DiscoveryAssumption
<1>8. QED  BY <1>1, <1>5, <1>6, <1>7

\* Whatever a step of DI-003 found, the verdict of its listings is one of them.
LEMMA MovedOn ==
    ASSUME AccusesInv, diStep = "cross", NEW count, NEW differs, MoveOn(count, differs),
           UNCHANGED <<bazaar, base, growth>>,
           differs => SomeIsStale
    PROVE  AccusesInv'
<1>1. HasBazaar'
  BY DEF AccusesInv, HasBazaar
<1>2. CASE NextListing
  <2>1. Start(item + 1, base.listings) /\ UNCHANGED <<diStep, di>> /\ stale' = differs
    BY <1>2 DEF MoveOn
  <2>2. base.listings \in Seq(Listing) /\ item \in DOMAIN base.listings
    BY DEF AccusesInv, FetchStands
  <2>3. item + 1 \in DOMAIN base.listings
    BY <1>2, <2>2, LenProperties DEF NextListing
  <2>4. FetchStands'
    BY <2>1, <2>2, <2>3, Started, StaleStays DEF FetchStands
  <2>5. BaseStands'
    BY <2>1 DEF BaseStands, BeforeCross, Comparing, FilterNames
  <2>6. DiscoveryAccusesRightly'
    <3>1. UNCHANGED di
      BY <2>1
    <3>2. QED  BY <3>1, StaysRight DEF AccusesInv
  <2>7. QED  BY <1>1, <2>4, <2>5, <2>6 DEF AccusesInv
<1>3. CASE ~NextListing
  <2>1. Decide("DI_003", Staleness(count, differs), "schemas")
    BY <1>3 DEF MoveOn
  <2>2. diStep' = "schemas"
    BY <2>1, Decided
  <2>3. Staleness(count, differs) # "error" /\ (Staleness(count, differs) = "fail" => differs)
    BY DEF Staleness
  <2>4. DiscoveryAccusesRightly'
    <3>1. Staleness(count, differs) \in Condemning =>
             Grounds("DI_003", Staleness(count, differs))
      BY <2>3 DEF Condemning, Grounds, Blamed
    <3>2. "DI_003" \in DiChecks
      BY DEF DiChecks
    <3>3. QED  BY <2>1, <3>1, <3>2, JudgedRightly DEF AccusesInv
  <2>5. FetchStands' /\ BaseStands'
    BY <2>2 DEF FetchStands, BaseStands, BeforeCross, Comparing, FilterNames
  <2>6. QED  BY <1>1, <2>4, <2>5 DEF AccusesInv
<1>4. QED  BY <1>2, <1>3

\* One more redirect that may be followed.
LEMMA FollowedOn ==
    ASSUME AccusesInv, Follow
    PROVE  AccusesInv'
<1>1. /\ diStep = "cross" /\ Allowed /\ Web[url].ascii
      /\ UNCHANGED <<bazaar, base, growth>>
  BY DEF Follow
<1>2. stale => SomeIsStale
  BY <1>1 DEF AccusesInv, FetchStands
<1>3. CASE hop = MaxRedirects
  <2>1. MoveOn(compared, stale)
    BY <1>3 DEF Follow
  <2>2. QED  BY <1>1, <1>2, <2>1, MovedOn
<1>4. CASE hop # MaxRedirects
  <2>1. /\ Web[url].reply = "redirect"
        /\ hop' = hop + 1 /\ url' = Web[url].to /\ wasSecure' = Web[url].secure
        /\ UNCHANGED <<item, compared, stale, diStep, di>>
    BY <1>4 DEF Follow
  <2>2. hop \in 0..MaxRedirects /\ hop \in Nat /\ MaxRedirects \in Nat
    BY <1>1, DiscoveryAssumption DEF AccusesInv, FetchStands
  <2>3. PICK trail \in [0..hop -> Urls] : Followed(trail)
    BY <1>1 DEF AccusesInv, FetchStands
  <2>4. url \in Urls /\ Web[url].to \in Urls
    <3>1. url \in Urls
      BY <2>2, <2>3 DEF Followed
    <3>2. QED  BY <3>1, DiscoveryAssumption DEF Place
  <2>5. PICK longer \in [0..(hop + 1) -> Urls] :
           longer[hop + 1] = Web[url].to /\ \A k \in 0..hop : longer[k] = trail[k]
    <3> DEFINE w == [k \in 0..(hop + 1) |-> IF k = hop + 1 THEN Web[url].to ELSE trail[k]]
    <3>1. \A k \in 0..hop : k \in 0..(hop + 1) /\ k # hop + 1 /\ w[k] = trail[k]
      BY <2>2
    <3>2. w \in [0..(hop + 1) -> Urls] /\ w[hop + 1] = Web[url].to
      BY <2>2, <2>4
    <3> HIDE DEF w
    <3>3. QED  BY <3>1, <3>2
  <2>6. longer[hop + 1] = Web[url].to
    BY <2>5
  <2>7. longer[0] = base.listings[item].url /\ longer[hop] = url
    BY <2>2, <2>3, <2>5 DEF Followed
  <2>8. \A k \in 0..hop :
           /\ Web[longer[k]].public /\ Web[longer[k]].ascii
           /\ Web[longer[k]].reply = "redirect" /\ Web[longer[k]].to = longer[k + 1]
    <3> SUFFICES ASSUME NEW k \in 0..hop
                 PROVE  /\ Web[longer[k]].public /\ Web[longer[k]].ascii
                        /\ Web[longer[k]].reply = "redirect"
                        /\ Web[longer[k]].to = longer[k + 1]
      OBVIOUS
    <3>1. CASE k = hop
      BY <1>1, <2>1, <2>6, <2>7, <3>1 DEF Allowed
    <3>2. CASE k # hop
      <4>1. k \in 0..(hop - 1) /\ k + 1 \in 0..hop
        BY <2>2, <3>2
      <4>2. longer[k] = trail[k] /\ longer[k + 1] = trail[k + 1]
        BY <2>5, <4>1
      <4>3. QED  BY <2>3, <4>1, <4>2 DEF Followed
    <3>3. QED  BY <3>1, <3>2
  <2>9. \A k \in 0..(hop - 1) : Web[longer[k]].secure => Web[longer[k + 1]].secure
    <3> SUFFICES ASSUME NEW k \in 0..(hop - 1)
                 PROVE  Web[longer[k]].secure => Web[longer[k + 1]].secure
      OBVIOUS
    <3>1. k \in 0..hop /\ k + 1 \in 0..hop
      BY <2>2
    <3>2. longer[k] = trail[k] /\ longer[k + 1] = trail[k + 1]
      BY <2>5, <3>1
    <3>3. CASE k = hop - 1
      <4>1. wasSecure = Web[trail[k]].secure /\ longer[k + 1] = url
        BY <2>2, <2>3, <2>7, <3>3 DEF Followed
      <4>2. QED  BY <1>1, <3>2, <4>1 DEF Allowed
    <3>4. CASE k # hop - 1
      <4>1. k \in 0..(hop - 2)
        BY <2>2, <3>4
      <4>2. QED  BY <2>3, <3>2, <4>1 DEF Followed
    <3>5. QED  BY <3>3, <3>4
  <2>10. Followed(longer)'
    <3>1. /\ hop' = hop + 1 /\ hop + 1 - 1 = hop /\ hop + 1 - 2 = hop - 1
          /\ UNCHANGED <<base, item>>
      BY <1>1, <2>1, <2>2
    <3>2. hop' > 0 => wasSecure' = Web[longer[hop]].secure
      BY <2>1, <2>7
    <3>3. hop' - 1 = hop /\ hop' - 2 = hop - 1
      BY <2>2, <3>1
    <3>4. longer \in [0..hop' -> Urls] /\ longer[hop'] = url'
      BY <2>1, <2>5, <2>6
    <3>5. longer[0] = base'.listings[item'].url
      BY <2>7, <3>1
    <3>6. \A k \in 0..(hop' - 1) :
             /\ Web[longer[k]].public /\ Web[longer[k]].ascii
             /\ Web[longer[k]].reply = "redirect" /\ Web[longer[k]].to = longer[k + 1]
      BY <2>8, <3>3
    <3>7. \A k \in 0..(hop' - 2) : Web[longer[k]].secure => Web[longer[k + 1]].secure
      BY <2>9, <3>3
    <3>8. hop' > 0 => wasSecure' = Web[longer[hop' - 1]].secure
      BY <3>2, <3>3
    <3>9. QED  BY <3>4, <3>5, <3>6, <3>7, <3>8 DEF Followed
  <2>11. FetchStands'
    <3>1. hop' \in 0..MaxRedirects
      BY <1>4, <2>1, <2>2
    <3>2. longer \in [0..hop' -> Urls]
      BY <2>1, <2>5
    <3>3. /\ base'.listings \in Seq(Listing) /\ item' \in DOMAIN base'.listings
          /\ stale' => SomeIsStale'
      BY <1>1, <1>2, <2>1, StaleStays DEF AccusesInv, FetchStands
    <3>4. (\E t \in [0..hop -> Urls] : Followed(t))'
      BY <2>10, <3>2
    <3>5. QED  BY <3>1, <3>3, <3>4 DEF FetchStands
  <2>12. HasBazaar' /\ BaseStands'
    BY <1>1, <2>1
       DEF AccusesInv, HasBazaar, BaseStands, BeforeCross, Comparing, FilterNames
  <2>13. DiscoveryAccusesRightly'
    BY <1>1, <2>1, StaysRight DEF AccusesInv
  <2>14. QED  BY <2>11, <2>12, <2>13 DEF AccusesInv
<1>5. QED  BY <1>3, <1>4

\* A step of DI-001 or DI-002, or the page of DI-003, decides rightly.
LEMMA PagesJudgeRightly ==
    ASSUME AccusesInv,
           \/ DI_001 \/ GetBase \/ TryLimit \/ TryOffset
           \/ \E i \in DOMAIN Filters : TryFilter(i)
    PROVE  AccusesInv'
<1> USE DEF BeforeCross, Comparing, FilterNames
<1>1. diStep \in BeforeCross \ {"idle", "listings"} /\ UNCHANGED <<bazaar, fetchVars, growth>>
  BY FilterIsNamed DEF DI_001, GetBase, TryLimit, TryOffset, TryFilter
<1>2. HasBazaar' /\ bazaar \in [flaw : Flaws, catalogue : Seq(Listing)] /\ growth \in Nat
  BY <1>1 DEF AccusesInv, HasBazaar
<1>3. ~stale /\ "DI_003" \notin DOMAIN di
  BY <1>1 DEF AccusesInv, BaseStands
<1>4. ASSUME NEW check \in {"DI_001", "DI_002"}, NEW status,
             NEW next \in {"base", "listings"}, Decide(check, status, next),
             status \in Condemning => Grounds(check, status)
      PROVE  AccusesInv'
  <2>1. diStep' = next /\ \A c : c \in (DOMAIN di)' <=> c = check \/ c \in DOMAIN di
    BY <1>4, Decided
  <2>2. check \in DiChecks /\ check # "DI_003"
    BY DEF DiChecks
  <2>3. DiscoveryAccusesRightly'
    BY <1>1, <1>3, <1>4, <2>2, JudgedRightly DEF AccusesInv
  <2>4. BaseStands'
    BY <1>1, <1>3, <1>4, <2>1 DEF BaseStands, fetchVars
  <2>5. FetchStands'
    BY <1>1, <1>3, <1>4, <2>1 DEF FetchStands, fetchVars
  <2>6. QED  BY <1>2, <2>3, <2>4, <2>5 DEF AccusesInv
<1>5. ASSUME diStep' \in Comparing, UNCHANGED di, ~Missing,
             bazaar.flaw = "none" /\ growth = 0 => base' = Unfiltered /\ base'.listings # <<>>
      PROVE  AccusesInv'
  <2>1. \A c \in DiChecks, s \in Condemning : Says(c, s)' => Says(c, s) /\ c # "DI_003"
    BY <1>3, <1>5 DEF Says
  <2>2. DiscoveryAccusesRightly'
    BY <1>1, <2>1, NobodyNewIsAccused DEF AccusesInv
  <2>3. UNCHANGED <<Missing, Unfiltered>>
    BY <1>1 DEF Missing, Unfiltered, Page, Matching
  <2>4. BaseStands'
    BY <1>1, <1>3, <1>5, <2>3 DEF BaseStands, fetchVars
  <2>5. FetchStands'
    BY <1>1, <1>3, <1>5 DEF FetchStands, fetchVars
  <2>6. QED  BY <1>2, <2>2, <2>4, <2>5 DEF AccusesInv
<1>6. ASSUME DI_001 PROVE AccusesInv'
  <2>1. CASE ValidationRaises(Unfiltered)
    <3>1. Grounds("DI_001", "error")
      BY <2>1 DEF ValidationRaises, Unreadable, Grounds, Breaks
    <3>2. QED  BY <1>4, <1>6, <2>1, <3>1 DEF DI_001
  <2>2. CASE ~ValidationRaises(Unfiltered) /\ ~(~Missing /\ Valid(Unfiltered, 20, 0))
    <3>1. Grounds("DI_001", "fail")
      BY <1>2, <2>2, UnfilteredPage DEF Missing, Grounds, Blamed
    <3>2. QED  BY <1>4, <1>6, <2>2, <3>1 DEF DI_001
  <2>3. CASE ~ValidationRaises(Unfiltered) /\ ~Missing /\ Valid(Unfiltered, 20, 0)
    <3>1. Decide("DI_001", "pass", "base") /\ "pass" \notin Condemning
      BY <1>6, <2>3 DEF DI_001, Condemning
    <3>2. QED  BY <1>4, <3>1
  <2>4. QED  BY <2>1, <2>2, <2>3
<1>7. ASSUME GetBase PROVE AccusesInv'
  <2>1. base' = Unfiltered
    BY <1>7 DEF GetBase
  <2>2. CASE Decide("DI_002", "skip", "listings")
    BY <1>4, <2>2 DEF Condemning
  <2>6. CASE ValidationRaises(Unfiltered) /\ Decide("DI_002", "error", "listings")
    <3>1. Grounds("DI_002", "error")
      BY <2>6 DEF ValidationRaises, Unreadable, Grounds, Breaks
    <3>2. QED  BY <1>4, <2>6, <3>1
  <2>3. CASE ~Empty /\ ~Valid(Unfiltered, 20, 0) /\ Decide("DI_002", "fail", "listings")
    <3>1. Grounds("DI_002", "fail")
      BY <1>2, <2>3, UnfilteredPage DEF Empty, Missing, Grounds, Blamed
    <3>2. QED  BY <1>4, <2>3, <3>1
  <2>4. CASE ~Empty /\ diStep' = Filters[1] /\ UNCHANGED di
    <3>1. diStep' \in Comparing
      BY <2>4, FilterIsNamed DEF Filters
    <3>2. QED  BY <1>5, <2>1, <2>4, <3>1 DEF Empty
  <2>5. QED  BY <1>7, <2>2, <2>3, <2>4, <2>6 DEF GetBase
<1>8. ASSUME NEW ok \in BOOLEAN, diStep \in Comparing, UNCHANGED base,
             \/ ok /\ diStep' \in Comparing /\ UNCHANGED di
             \/ ~ok /\ Decide("DI_002", "fail", "listings")
             \/ ok /\ Decide("DI_002", "pass", "listings"),
             bazaar.flaw = "none" /\ base = Unfiltered /\ base.listings # <<>> => ok
      PROVE  AccusesInv'
  <2>1. /\ ~Missing
        /\ bazaar.flaw = "none" /\ growth = 0 => base = Unfiltered /\ base.listings # <<>>
    BY <1>8 DEF AccusesInv, BaseStands
  <2>2. CASE ok /\ diStep' \in Comparing /\ UNCHANGED di
    BY <1>5, <1>8, <2>1, <2>2
  <2>3. CASE ~ok /\ Decide("DI_002", "fail", "listings")
    <3>1. Grounds("DI_002", "fail")
      BY <1>2, <1>8, <2>1, <2>3 DEF Missing, Grounds, Blamed
    <3>2. QED  BY <1>4, <2>3, <3>1
  <2>4. CASE ok /\ Decide("DI_002", "pass", "listings")
    BY <1>4, <2>4 DEF Condemning
  <2>5. QED  BY <1>8, <2>2, <2>3, <2>4
<1>9. ASSUME NEW i \in DOMAIN Filters, TryFilter(i) PROVE AccusesInv'
  <2> DEFINE page == Page(Filters[i], Seed(Filters[i]), 100, 0)
             ok == Valid(page, 100, 0) /\ Honoured(page, Filters[i])
  <2>1. Filters[i] \in FilterNames
    BY FilterIsNamed
  <2>2. i < Len(Filters) => Filters[i + 1] \in FilterNames
    BY FilterIsNamed DEF Filters
  <2>3. bazaar.flaw = "none" /\ base = Unfiltered /\ base.listings # <<>> => ok
    BY <1>2, <2>1, HonestFilter
  <2>4. /\ diStep = Filters[i] /\ UNCHANGED base
        /\ \/ ok /\ diStep' = (IF i < Len(Filters) THEN Filters[i + 1] ELSE "limited") /\ UNCHANGED di
           \/ ~ok /\ Decide("DI_002", "fail", "listings")
    BY <1>9 DEF TryFilter
  <2>5. ok \in BOOLEAN
    BY DEF Valid, Honoured
  <2> HIDE DEF ok
  <2>6. QED  BY <1>8, <2>1, <2>2, <2>3, <2>4, <2>5
<1>10. ASSUME TryLimit PROVE AccusesInv'
  <2> DEFINE page == Page("none", "none", 1, 0)
             ok == Valid(page, 1, 0) /\ page.total = base.total
  <2>1. bazaar.flaw = "none" /\ base = Unfiltered => ok
    BY <1>2, HonestLimit
  <2>2. /\ diStep = "limited" /\ UNCHANGED base
        /\ \/ ok /\ diStep' = "offset" /\ UNCHANGED di
           \/ ~ok /\ Decide("DI_002", "fail", "listings")
    BY <1>10 DEF TryLimit
  <2>3. ok \in BOOLEAN
    BY DEF Valid
  <2> HIDE DEF ok
  <2>4. QED  BY <1>8, <2>1, <2>2, <2>3
<1>11. ASSUME TryOffset PROVE AccusesInv'
  <2> DEFINE page == Page("none", "none", 100, 1)
             ok == Valid(page, 100, 1) /\ page.total = base.total /\ Continues(page)
  <2>1. bazaar.flaw = "none" /\ base = Unfiltered => ok
    BY <1>2, HonestOffset
  <2>2. /\ diStep = "offset" /\ UNCHANGED base
        /\ Decide("DI_002", IF ok THEN "pass" ELSE "fail", "listings")
    BY <1>11 DEF TryOffset
  <2>3. ok \in BOOLEAN
    BY DEF Valid, Continues
  <2> HIDE DEF ok
  <2>4. QED  BY <1>8, <2>1, <2>2, <2>3
<1>12. QED  BY <1>6, <1>7, <1>9, <1>10, <1>11

\* DI-003 starts on the first listing of a page of its own.
LEMMA ListingsAreTaken ==
    ASSUME AccusesInv, GetListings
    PROVE  AccusesInv'
<1> USE DEF BeforeCross, Comparing, FilterNames
<1>1. diStep = "listings" /\ base' = Unfiltered /\ UNCHANGED <<bazaar, stale, growth>>
  BY DEF GetListings
<1>2. ~stale /\ "DI_003" \notin DOMAIN di
  BY <1>1 DEF AccusesInv, BaseStands
<1>3. HasBazaar' /\ bazaar \in [flaw : Flaws, catalogue : Seq(Listing)]
  BY <1>1 DEF AccusesInv, HasBazaar
<1>4. CASE Unreadable \/ Empty
  <2> DEFINE status == IF Unreadable THEN "error" ELSE "skip"
  <2>1. Decide("DI_003", status, "schemas")
    BY <1>4 DEF GetListings
  <2>2. diStep' = "schemas" /\ \A c, s : Says(c, s)' <=> IF c = "DI_003" THEN status = s
                                                                        ELSE Says(c, s)
    BY <2>1, Decided
  <2>3. DiscoveryAccusesRightly'
    <3>1. CASE Unreadable
      BY <1>1, <2>1, <3>1, UnreadableIsAnError DEF AccusesInv, Unreadable
    <3>2. CASE ~Unreadable
      <4>1. \A c \in DiChecks, s \in Condemning : Says(c, s)' => Says(c, s) /\ c # "DI_003"
        BY <2>2, <3>2 DEF Condemning
      <4>2. QED  BY <1>1, <4>1, NobodyNewIsAccused DEF AccusesInv
    <3>3. QED  BY <3>1, <3>2
  <2>4. BaseStands' /\ FetchStands'
    BY <2>2 DEF BaseStands, FetchStands
  <2>5. QED  BY <1>3, <2>3, <2>4 DEF AccusesInv
<1>5. CASE ~(Unreadable \/ Empty)
  <2>1. diStep' = "cross" /\ Start(1, Unfiltered.listings) /\ UNCHANGED di
    BY <1>5 DEF GetListings
  <2>2. Unfiltered.listings \in Seq(Listing) /\ Unfiltered.listings # <<>>
    BY <1>3, <1>5, UnfilteredPage DEF Empty
  <2>3. 1 \in DOMAIN Unfiltered.listings
    BY <2>2, LenProperties, EmptySeq
  <2>4. base'.listings = Unfiltered.listings
    BY <1>1
  <2>5. FetchStands'
    BY <1>1, <1>2, <2>1, <2>2, <2>3, <2>4, Started DEF FetchStands
  <2>6. BaseStands'
    BY <2>1 DEF BaseStands
  <2>7. \A c \in DiChecks, s \in Condemning : Says(c, s)' => Says(c, s) /\ c # "DI_003"
    BY <1>2, <2>1 DEF Says
  <2>8. DiscoveryAccusesRightly'
    BY <1>1, <2>7, NobodyNewIsAccused DEF AccusesInv
  <2>9. QED  BY <1>3, <2>5, <2>6, <2>8 DEF AccusesInv
<1>6. QED  BY <1>4, <1>5

\* What a cross-fetch comes upon is stale only if its listing is.
LEMMA ComparedRightly ==
    ASSUME AccusesInv, Blocked \/ Unreached \/ Compare
    PROVE  AccusesInv'
<1>1. diStep = "cross" /\ UNCHANGED <<bazaar, base, growth>>
  BY DEF Blocked, Unreached, Compare
<1>2. stale => SomeIsStale
  BY <1>1 DEF AccusesInv, FetchStands
<1>3. CASE Blocked \/ Unreached
  BY <1>1, <1>2, <1>3, MovedOn DEF Blocked, Unreached
<1>4. CASE Compare
  <2> DEFINE differs == stale \/ StaleAgainst(base.listings[item], Web[url])
  <2>1. StaleAgainst(base.listings[item], Web[url]) => SomeIsStale
    BY <1>1, <1>4, CaughtIsStale DEF Compare, AccusesInv, FetchStands, SomeIsStale
  <2>2. differs => SomeIsStale
    BY <1>2, <2>1
  <2>3. MoveOn(compared + (IF Web[url].reply = "challenge" THEN 1 ELSE 0), differs)
    BY <1>4 DEF Compare
  <2> HIDE DEF differs
  <2>4. QED  BY <1>1, <2>2, <2>3, MovedOn
<1>5. QED  BY <1>3, <1>4

\* A cross-fetch raises only on the place of a listing.
LEMMA RaisedRightly ==
    ASSUME AccusesInv, FetchRaises
    PROVE  AccusesInv'
<1>1. /\ diStep = "cross" /\ Allowed /\ Trips(Web[url], hop)
      /\ Decide("DI_003", "error", "schemas")
      /\ UNCHANGED <<bazaar, base, item, hop, url, wasSecure, stale, growth>>
  BY DEF FetchRaises
<1>2. SomeIsTripping
  BY <1>1, CaughtIsTripping DEF AccusesInv, FetchStands, SomeIsTripping
<1>3. Grounds("DI_003", "error") /\ "DI_003" \in DiChecks
  BY <1>2 DEF Grounds, Breaks, DiChecks
<1>4. DiscoveryAccusesRightly'
  BY <1>1, <1>3, JudgedRightly DEF AccusesInv
<1>5. diStep' = "schemas"
  BY <1>1, Decided
<1>6. HasBazaar' /\ BaseStands' /\ FetchStands'
  BY <1>1, <1>5
     DEF AccusesInv, HasBazaar, BaseStands, FetchStands, BeforeCross, Comparing, FilterNames
<1>7. QED  BY <1>4, <1>6 DEF AccusesInv

\* DI-004 reads what the catalogue declares.
LEMMA SchemasAreJudged ==
    ASSUME AccusesInv, DI_004
    PROVE  AccusesInv'
<1> DEFINE declared == {i \in DOMAIN Unfiltered.listings :
                           Unfiltered.listings[i].extension # "none"}
           status == IF Unreadable THEN "error"
                     ELSE IF Missing \/ declared = {} THEN "skip"
                     ELSE IF \E i \in declared : Unfiltered.listings[i].schema = "external"
                     THEN "fail" ELSE "pass"
<1>1. diStep = "schemas" /\ UNCHANGED <<bazaar, base, growth>>
  BY DEF DI_004
<1>2. HasBazaar' /\ bazaar \in [flaw : Flaws, catalogue : Seq(Listing)]
  BY <1>1 DEF AccusesInv, HasBazaar
<1>3. Decide("DI_004", status, "done")
  BY DEF DI_004
<1>4. ASSUME status = "fail" PROVE DeclaresExternal
  <2>1. PICK i \in declared : Unfiltered.listings[i].schema = "external"
    BY <1>4
  <2>2. i \in DOMAIN bazaar.catalogue /\ Unfiltered.listings[i] = bazaar.catalogue[i]
    BY <1>2, UnfilteredPage
  <2>3. QED  BY <2>1, <2>2 DEF DeclaresExternal
<1>10. status = "error" => bazaar.flaw = "tooDeep"
  BY DEF Unreadable
<1> HIDE DEF status
<1>5. "DI_004" \in DiChecks /\ (status \in Condemning => Grounds("DI_004", status))
  BY <1>4, <1>10 DEF DiChecks, Condemning, Grounds, Blamed, Breaks
<1>6. DiscoveryAccusesRightly'
  BY <1>1, <1>3, <1>5, JudgedRightly DEF AccusesInv
<1>7. diStep' = "done"
  BY <1>3, Decided
<1>8. BaseStands' /\ FetchStands'
  BY <1>7 DEF BaseStands, FetchStands, BeforeCross, Comparing, FilterNames
<1>9. QED  BY <1>2, <1>6, <1>8 DEF AccusesInv

\* Whoever is to blame stays so when another seller is listed.
LEMMA GrownCatalogue ==
    ASSUME AccusesInv, NEW l \in NewListings, Grow(l)
    PROVE  AccusesInv'
<1>1. /\ diStep # "idle" /\ growth' = growth + 1
      /\ UNCHANGED <<diStep, base, item, hop, url, wasSecure, stale, di>>
  BY DEF Grow, fetchVars
<1>2. bazaar \in [flaw : Flaws, catalogue : Seq(Listing)] /\ growth \in Nat
  BY <1>1 DEF AccusesInv, HasBazaar
<1>3. l \in Listing /\ <<l>> \in Seq(Listing) /\ Len(<<l>>) = 1
  BY ToolsAssumption
<1> DEFINE old == bazaar.catalogue
<1>4. PICK new \in {<<l>> \o old, Append(old, l)} : bazaar' = [bazaar EXCEPT !.catalogue = new]
  BY DEF Grow
<1>5. old \in Seq(Listing) /\ Len(old) \in Nat /\ DOMAIN old = 1..Len(old)
  BY <1>2, LenProperties
<1>6. /\ new \in Seq(Listing) /\ Len(new) = Len(old) + 1
      /\ \A i \in DOMAIN old : \E j \in DOMAIN new : new[j] = old[i]
  <2>1. CASE new = <<l>> \o old
    <3>1. new \in Seq(Listing) /\ Len(new) = Len(old) + 1
      BY <1>3, <1>5, <2>1, ConcatProperties
    <3>2. \A i \in DOMAIN old : 1 + i \in DOMAIN new /\ new[1 + i] = old[i]
      <4> SUFFICES ASSUME NEW i \in DOMAIN old PROVE 1 + i \in DOMAIN new /\ new[1 + i] = old[i]
        OBVIOUS
      <4>1. i \in 1..Len(old) /\ i \in Nat /\ 1 + i \in 1..(Len(old) + 1)
        BY <1>5
      <4>2. DOMAIN new = 1..(Len(old) + 1)
        BY <3>1, LenProperties
      <4>3. QED  BY <1>3, <1>5, <2>1, <4>1, <4>2, ConcatProperties
    <3>3. QED  BY <3>1, <3>2
  <2>2. CASE new = Append(old, l)
    <3>1. /\ new \in Seq(Listing) /\ Len(new) = Len(old) + 1
          /\ \A i \in 1..Len(old) : new[i] = old[i]
      BY <1>3, <1>5, <2>2, AppendProperties
    <3>2. DOMAIN new = 1..(Len(old) + 1)
      BY <3>1, LenProperties
    <3>3. QED  BY <1>5, <3>1, <3>2
  <2>3. QED  BY <2>1, <2>2
<1>7. bazaar'.flaw = bazaar.flaw /\ bazaar'.catalogue = new
      /\ bazaar' \in [flaw : Flaws, catalogue : Seq(Listing)]
  BY <1>2, <1>4, <1>6
<1>8. DeclaresExternal => DeclaresExternal'
  BY <1>6, <1>7 DEF DeclaresExternal
<1>9. (SomeIsStale' <=> SomeIsStale) /\ (SomeIsTripping' <=> SomeIsTripping)
  BY <1>1, StaleStays
<1>10. \A c \in DiChecks, s \in Condemning : Grounds(c, s) => Grounds(c, s)'
  BY <1>1, <1>2, <1>5, <1>6, <1>7, <1>8, <1>9 DEF Grounds, Blamed, Breaks, DiChecks
<1>11. \A c \in DiChecks, s \in Condemning : Says(c, s)' => Says(c, s)
  BY <1>1 DEF Says
<1>12. DiscoveryAccusesRightly'
  BY <1>10, <1>11, AccusesByCheck DEF AccusesInv, AllGrounded
<1>13. HasBazaar' /\ BaseStands'
  BY <1>1, <1>2, <1>7 DEF AccusesInv, HasBazaar, BaseStands, Missing
<1>14. FetchStands'
  BY <1>1, <1>9 DEF AccusesInv, FetchStands, Followed
<1>15. QED  BY <1>12, <1>13, <1>14 DEF AccusesInv

\* Every step of a discovery run accuses rightly.
LEMMA DiscoveryStepAccusesRightly ==
    ASSUME AccusesInv, DiscoveryStep
    PROVE  AccusesInv'
<1>1. ASSUME RequestFails PROVE AccusesInv'
  <2>1. diStep' = "failed" /\ diStep # "idle" /\ UNCHANGED <<bazaar, base, growth, di>>
    BY <1>1 DEF RequestFails
  <2>2. DiscoveryAccusesRightly'
    BY <2>1, StaysRight DEF AccusesInv
  <2>3. HasBazaar' /\ BaseStands' /\ FetchStands'
    BY <2>1 DEF AccusesInv, HasBazaar, BaseStands, FetchStands, BeforeCross, Comparing, FilterNames
  <2>4. QED  BY <2>2, <2>3 DEF AccusesInv
<1>2. QED
  BY <1>1, PagesJudgeRightly, ListingsAreTaken, SchemasAreJudged, ComparedRightly, RaisedRightly,
     FollowedOn DEF DiscoveryStep

\* One step per kind of call.
LEMMA AccusesInvariant == ToolsSpec => []AccusesInv
<1> USE DEF BeforeCross, Comparing, FilterNames
<1>1. ToolsInit => AccusesInv
  BY DEF ToolsInit, DiInit, AccusesInv, HasBazaar, BaseStands, FetchStands,
         DiscoveryAccusesRightly, Failed, Raised
<1>2. AccusesInv /\ [ToolsNext]_toolVars => AccusesInv'
  <2> SUFFICES ASSUME AccusesInv, [ToolsNext]_toolVars PROVE AccusesInv'  OBVIOUS
  <2>1. ASSUME DiscoveryStep PROVE AccusesInv'
    BY <2>1, DiscoveryStepAccusesRightly
  <2>2. ASSUME AnswerDiscovery PROVE AccusesInv'
    BY <2>2 DEF AnswerDiscovery, ForgetDiscovery, AccusesInv, HasBazaar, BaseStands, FetchStands,
                DiscoveryAccusesRightly, Failed, Raised
  <2>3. ASSUME UNCHANGED diVars PROVE AccusesInv'
    <3>1. UNCHANGED <<bazaar, diStep, base, item, hop, url, wasSecure, stale, growth, di>>
      BY <2>3 DEF diVars, fetchVars
    <3>2. DiscoveryAccusesRightly'
      BY <3>1, StaysRight DEF AccusesInv
    <3>3. UNCHANGED <<Missing, Unfiltered>>
      BY <3>1 DEF Missing, Unfiltered, Page, Matching
    <3>4. HasBazaar' /\ BaseStands'
      BY <3>1, <3>3 DEF AccusesInv, HasBazaar, BaseStands
    <3>5. FetchStands'
      BY <3>1, StaleStays DEF AccusesInv, FetchStands, Followed
    <3>6. QED  BY <3>2, <3>4, <3>5 DEF AccusesInv
  <2>4. ASSUME NEW b \in Bazaars, CheckDiscovery(b) PROVE AccusesInv'
    <3>1. /\ diStep = "idle" /\ diStep' = "DI_001" /\ bazaar' = b
          /\ UNCHANGED <<base, stale, growth, di>>
      BY <2>4 DEF CheckDiscovery, BeginDiscovery, fetchVars
    <3>2. DOMAIN di = {} /\ ~stale
      BY <3>1 DEF AccusesInv, BaseStands
    <3>3. b \in [flaw : Flaws, catalogue : Seq(Listing)]
      BY ToolsAssumption
    <3>4. QED
      BY <3>1, <3>2, <3>3
         DEF AccusesInv, HasBazaar, BaseStands, FetchStands, DiscoveryAccusesRightly, Failed,
             Raised
  <2>5. ASSUME NEW l \in NewListings, Grow(l) PROVE AccusesInv'
    BY <2>5, GrownCatalogue
  <2>6. QED
    BY <2>1, <2>2, <2>3, <2>4, <2>5
       DEF ToolsNext, Work, Call, Churn, AnswerEndpoint, CheckEndpoint, Refuse, DiffReports, toolVars
<1>3. QED  BY <1>1, <1>2, PTL DEF ToolsSpec

\* For any Bazaar, any catalogue and whatever is listed meanwhile: a Bazaar is
\* failed for a flaw it has, a listing that came between two pages, a seller who
\* asks for another payTo, or a schema kept elsewhere; and it gets an error, which
\* condemns it as well, for a catalogue that cannot be read or for one listed place
\* the fetcher cannot cope with.
THEOREM DiscoveryAccusations == ToolsSpec => []DiscoveryAccusesRightly
<1>1. AccusesInv => DiscoveryAccusesRightly
  BY DEF AccusesInv
<1>2. QED  BY AccusesInvariant, <1>1, PTL

-----------------------------------------------------------------------------
(* Reports and their comparison.                                           *)

Statuses == {"pass", "fail", "skip", "error"}
Targets == {c.target : c \in Calls}

\* What a run reports: a status for every check of the registry, and only
\* RS-PR-027, which gates, can be an error.
Report == {r \in [Checks -> Statuses] : \A c \in Checks \ {"PR_027"} : r[c] # "error"}

\* The checks give a report whatever the two answers were.
LEMMA VerdictsAreAReport == Verdicts \in Report
<1>1. \A c \in Checks : Verdicts[c] \in Statuses /\ (c # "PR_027" => Verdicts[c] # "error")
  BY DEF Verdicts, VerdictsOn, Checks, Statuses, Grade, GradeEntries, HS_001, HS_002, HS_003, HS_004, HS_005,
         HS_006, HS_007, SEC_012, ClassifyVariants, PR_001, PR_002, PR_003, PR_004, PR_005, PR_006,
         PR_007, PR_008, PR_009, PR_010, PR_011, PR_012, PR_013, PR_014, PR_015, PR_016, PR_017,
         PR_018, PR_019, PR_020, PR_021, PR_022, PR_023, PR_024, PR_025, PR_026, PR_027
<1>2. Verdicts = [c \in Checks |-> Verdicts[c]]
  BY DEF Verdicts, VerdictsOn, Checks
<1>3. QED  BY <1>1, <1>2 DEF Report

\* What a report says of non-conformance: an error, or a failure that gates.
Condemns(r) ==
    \E c \in Checks : r[c] = "error" \/ (r[c] = "fail" /\ c \notin Advisory \cup {"DI_002", "DI_003"})

\* The exit code of a report is 1 exactly when it condemns.
LEMMA CodeCondemns == \A r \in Report : (Code(r) = 1) <=> Condemns(r)
<1> SUFFICES ASSUME NEW r \in Report PROVE (Code(r) = 1) <=> Condemns(r)
  OBVIOUS
<1>1. DOMAIN r = Checks
  BY DEF Report
<1>2. V!NonConformant(Judged(r)) <=> Condemns(r)
  <2> DEFINE Row(c) == [check |-> IF c = "PR_001" THEN "RS-PR-001" ELSE "other",
                        status |-> r[c],
                        gating |-> c \notin Advisory \cup {"DI_002", "DI_003"},
                        reason |-> "none"]
  <2>1. Judged(r) = {Row(c) : c \in Checks}
    BY <1>1 DEF Judged
  <2>2. \A c \in Checks :
           /\ Row(c).status = r[c]
           /\ Row(c).gating <=> c \notin Advisory \cup {"DI_002", "DI_003"}
    OBVIOUS
  <2> HIDE DEF Row
  <2>3. V!NonConformant(Judged(r)) <=>
           \E c \in Checks : Row(c).status = "error" \/ (Row(c).status = "fail" /\ Row(c).gating)
    BY <2>1 DEF V!NonConformant
  <2>4. QED  BY <2>2, <2>3 DEF Condemns
<1>3. (Code(r) = 1) <=> V!NonConformant(Judged(r))
  BY DEF Code, V!AssessmentExitCode
<1>4. QED  BY <1>2, <1>3

\* A check that condemns the new report has condemned the old one, has passed or
\* been skipped there, which is a regression, or has failed there as a warning
\* and is now an error, which no warning ever is.
LEMMA CleanDiffKeeps ==
    ASSUME NEW old \in Report, NEW new \in Report, Code(old) = 0,
           Regressed(old, new) = {}
    PROVE  Code(new) # 1
<1> SUFFICES ASSUME Condemns(new) PROVE Condemns(old)
  <2>1. ~Condemns(old) => ~Condemns(new)  OBVIOUS
  <2>2. QED  BY <2>1, CodeCondemns
<1>1. PICK c \in Checks : \/ new[c] = "error"
                          \/ new[c] = "fail" /\ c \notin Advisory \cup {"DI_002", "DI_003"}
  BY DEF Condemns
<1>2. DOMAIN old = Checks /\ DOMAIN new = Checks /\ old[c] \in Statuses
  BY DEF Report
<1>3. old[c] \notin {"pass", "skip"}
  BY <1>1, <1>2 DEF Regressed, Common, Bad
<1>4. old[c] \in {"fail", "error"}
  BY <1>2, <1>3 DEF Statuses
<1>5. CASE c \notin Advisory \cup {"DI_002", "DI_003"}
  BY <1>4, <1>5 DEF Condemns
<1>6. CASE c \in Advisory \cup {"DI_002", "DI_003"}
  <2>1. c # "PR_027"
    BY <1>6 DEF Advisory
  <2>2. new[c] # "error"
    BY <2>1 DEF Report
  <2>3. QED  BY <1>1, <1>6, <2>2
<1>7. QED  BY <1>5, <1>6

-----------------------------------------------------------------------------
\* Whom a run may be of, and whether it has a marker.
Sessions == {<<c.target, c.marked>> : c \in Calls} \cup {<<t, FALSE>> : t \in Targets}

\* A run is of an endpoint a caller may name, its results are a report, and so
\* are those that were kept.
Kept == [target : Targets, results : Report]
ReportsInv ==
    /\ step # "idle" => target \in Targets /\ <<target, marker>> \in Sessions
    /\ step = "judged" => results \in Report
    /\ reports \in Seq(Kept)

\* No step of a run changes the endpoint, and the last one judges it.
LEMMA PassiveStepKeepsReports ==
    ASSUME ReportsInv, PassiveStep, UNCHANGED reports
    PROVE  ReportsInv'
<1>1. step # "idle" /\ UNCHANGED <<target, marker>>
  BY DEF PassiveStep, GetFirst, GetSecond, ConnectionFails, GetOpenapi, GetVariant, VariantsDone,
         Judge, Retry, RetryRaises, Ended
<1>2. step' = "judged" => results' = Verdicts
  BY DEF PassiveStep, GetFirst, GetSecond, ConnectionFails, GetOpenapi, GetVariant, VariantsDone,
         Judge, Retry, RetryRaises
<1>3. QED  BY <1>1, <1>2, VerdictsAreAReport DEF ReportsInv

\* An endpoint is named by a call or is what the endpoint of the last report has
\* become.
LEMMA CheckEndpointKeepsReports ==
    ASSUME ReportsInv, CheckEndpoint
    PROVE  ReportsInv'
<1>1. \E t \in Targets, m \in {c.marked : c \in Calls} \cup {FALSE} :
         Begin(t, m) /\ <<t, m>> \in Sessions
  <2>1. CASE \E c \in Calls : Begin(c.target, c.marked)
    <3>1. PICK c \in Calls : Begin(c.target, c.marked)
      BY <2>1
    <3>2. c.target \in Targets /\ <<c.target, c.marked>> \in Sessions
      BY DEF Targets, Sessions
    <3>3. QED  BY <3>1, <3>2
  <2>2. CASE /\ reports # <<>>
             /\ \E t \in Redeployed(reports[Len(reports)].target) : Begin(t, FALSE)
    <3>1. reports[Len(reports)] \in Kept
      BY <2>2, LenProperties, ElementOfSeq, EmptySeq DEF ReportsInv
    <3>2. PICK c \in Calls : c.target = reports[Len(reports)].target
      BY <3>1 DEF Kept, Targets
    <3>3. Redeployed(c.target) \subseteq Targets
      BY ToolsAssumption DEF Targets
    <3>4. PICK t \in Redeployed(c.target) : Begin(t, FALSE)
      BY <2>2, <3>2
    <3>5. t \in Targets /\ <<t, FALSE>> \in Sessions
      BY <3>3 DEF Sessions
    <3>6. QED  BY <3>4, <3>5
  <2>3. QED  BY <2>1, <2>2 DEF CheckEndpoint
<1>2. <<target', marker'>> \in Sessions /\ target' \in Targets /\ step' = "first"
  BY <1>1 DEF Begin
<1>3. UNCHANGED reports
  BY DEF CheckEndpoint, Begun
<1>4. QED  BY <1>1, <1>2, <1>3 DEF ReportsInv

\* A judged run's report is kept.
LEMMA AnswerKeepsReports ==
    ASSUME ReportsInv, AnswerEndpoint
    PROVE  ReportsInv'
<1>1. step' = "idle"
  BY DEF AnswerEndpoint, ForgetRun
<1>2. CASE step = "judged"
  <2>1. [target |-> target, results |-> results] \in Kept
    BY <1>2 DEF ReportsInv, Kept
  <2>2. reports' = Append(reports, [target |-> target, results |-> results])
    BY <1>2 DEF AnswerEndpoint
  <2>3. reports' \in Seq(Kept)
    BY <2>1, <2>2, AppendProperties DEF ReportsInv
  <2>4. QED  BY <1>1, <2>3 DEF ReportsInv
<1>3. CASE step # "judged"
  BY <1>1, <1>3 DEF AnswerEndpoint, ReportsInv
<1>4. QED  BY <1>2, <1>3

\* One step per kind of call.
LEMMA ReportsInvariant == ToolsSpec => []ReportsInv
<1>1. ToolsInit => ReportsInv
  BY EmptySeq DEF ToolsInit, PassiveInit, ReportsInv
<1>2. ReportsInv /\ [ToolsNext]_toolVars => ReportsInv'
  <2> SUFFICES ASSUME ReportsInv, [ToolsNext]_toolVars PROVE ReportsInv'  OBVIOUS
  <2>1. ASSUME PassiveStep, UNCHANGED reports PROVE ReportsInv'
    BY <2>1, PassiveStepKeepsReports
  <2>2. ASSUME CheckEndpoint PROVE ReportsInv'
    BY <2>2, CheckEndpointKeepsReports
  <2>3. ASSUME AnswerEndpoint PROVE ReportsInv'
    BY <2>3, AnswerKeepsReports
  <2>4. ASSUME UNCHANGED passiveVars, reports' \in {reports, <<>>} PROVE ReportsInv'
    BY <2>4, EmptySeq DEF passiveVars, ReportsInv
  <2>5. QED
    BY <2>1, <2>2, <2>3, <2>4
       DEF ToolsNext, Work, Call, Churn, AnswerDiscovery, CheckDiscovery, Begun, Refuse,
           DiffReports, toolVars
<1>3. QED  BY <1>1, <1>2, PTL DEF ToolsSpec

\* For any endpoints and however they change: a diff that shows no regression
\* never waves a report through that has become non-conformant.
THEOREM CleanDiffKeepsVerdict == ToolsSpec => []CleanDiffKeepsTheVerdict
<1>1. ReportsInv => CleanDiffKeepsTheVerdict
  <2> SUFFICES ASSUME ReportsInv, Len(reports) = 2
               PROVE  LET old == reports[1].results
                          new == reports[2].results
                      IN  Code(old) = 0 /\ Regressed(old, new) = {} => Code(new) # 1
    BY DEF CleanDiffKeepsTheVerdict
  <2>1. reports[1] \in Kept /\ reports[2] \in Kept
    <3>1. reports \in Seq(Kept) /\ 1 \in 1..Len(reports) /\ 2 \in 1..Len(reports)
      BY DEF ReportsInv
    <3> HIDE DEF Kept
    <3>2. QED  BY <3>1, ElementOfSeq
  <2>2. reports[1].results \in Report /\ reports[2].results \in Report
    BY <2>1 DEF Kept
  <2>3. QED  BY <2>2, CleanDiffKeeps
<1>2. QED  BY ReportsInvariant, <1>1, PTL

-----------------------------------------------------------------------------
(* The verdicts of an endpoint and the network.                            *)

HasFirst == {"second", "openapi", "variants", "judge", "judged"}
HasSecond == HasFirst \ {"second"}
HasDocument == HasSecond \ {"openapi"}

Advertised == IF AdvertisesJp402(first) THEN target.openapi ELSE "none"
TriedPaths == {Variants[i] : i \in DOMAIN Variants}

\* What a run has been told is the endpoint's own, or a proxy's, or lost; without
\* a fault it is the endpoint's own.
ProbesStand ==
    /\ step \in HasFirst =>
          /\ first \in PossibleAnswers(target.first) /\ ~Unreachable(first)
          /\ faults = 0 => first = target.first
    /\ step \in HasSecond =>
          /\ second \in PossibleAnswers(target.second)
          /\ faults = 0 => second = target.second
    /\ step \in HasDocument =>
          /\ openapi \in {"none", Advertised}
          /\ faults = 0 => openapi = Advertised

OutcomesStand ==
    /\ step \in {"idle", "first", "second", "openapi"} =>
          openapi = "none" /\ DOMAIN outcomes = {}
    /\ step \in HasDocument =>
          /\ DOMAIN outcomes \subseteq TriedPaths
          /\ \A v \in DOMAIN outcomes :
                /\ outcomes[v] \in {OutcomeAt(target, v), "lost"}
                /\ faults = 0 => outcomes[v] = OutcomeAt(target, v)
    /\ step \in {"judge", "judged"} => TriedPaths \subseteq DOMAIN outcomes

NetworkInv ==
    /\ faults \in Nat
    /\ ProbesStand /\ OutcomesStand
    /\ step = "judged" => results = Verdicts

\* One probe more.
LEMMA ProbedAnswers ==
    ASSUME NetworkInv, GetFirst \/ GetSecond
    PROVE  NetworkInv'
<1> USE DEF HasFirst, HasSecond, HasDocument
<1>1. \A answer, byTarget :
         Answered(answer, byTarget) =>
            /\ faults' \in Nat /\ (faults' = 0 => faults = 0)
            /\ faults' = 0 => answer = byTarget
  BY DEF Answered, NetworkInv
<1>2. step \in {"first", "second"} /\ openapi = "none" /\ DOMAIN outcomes = {}
      /\ UNCHANGED <<target, openapi, outcomes>>
  BY DEF NetworkInv, OutcomesStand, GetFirst, GetSecond, Retry, RetryRaises
<1>3. ASSUME NEW byTarget, Retry(byTarget) PROVE NetworkInv'
  <2>1. PICK answer \in PossibleAnswers(byTarget) : Answered(answer, byTarget)
    BY <1>3 DEF Retry
  <2>2. faults' \in Nat /\ (faults' = 0 => faults = 0)
    BY <1>1, <2>1
  <2>3. UNCHANGED <<step, first, second>>
    BY <1>3 DEF Retry
  <2>4. ProbesStand'
    BY <1>2, <2>2, <2>3 DEF NetworkInv, ProbesStand
  <2>5. OutcomesStand'
    BY <1>2, <2>3 DEF OutcomesStand
  <2>6. QED  BY <1>2, <2>2, <2>3, <2>4, <2>5 DEF NetworkInv
<1>7. ASSUME NEW byTarget, RetryRaises(byTarget) PROVE NetworkInv'
  <2>1. step' = "crashed" /\ faults' \in Nat
    BY <1>1, <1>7 DEF RetryRaises
  <2>2. QED  BY <2>1 DEF NetworkInv, ProbesStand, OutcomesStand
<1>4. CASE GetFirst /\ ~Retry(target.first) /\ ~RetryRaises(target.first)
  <2>1. PICK answer \in PossibleAnswers(target.first) :
           /\ Answered(answer, target.first)
           /\ first' = answer
           /\ \/ step' = "crashed"
              \/ step' = IF Unreachable(answer) THEN "unreachable" ELSE "second"
    BY <1>4 DEF GetFirst
  <2>2. faults' \in Nat /\ (faults' = 0 => first' = target'.first)
    BY <1>1, <1>2, <2>1
  <2>3. ProbesStand'
    BY <1>2, <2>1, <2>2 DEF ProbesStand, Unreachable
  <2>4. OutcomesStand'
    BY <1>2, <2>1 DEF OutcomesStand
  <2>5. QED  BY <2>1, <2>2, <2>3, <2>4 DEF NetworkInv
<1>5. CASE GetSecond /\ ~Retry(target.second) /\ ~RetryRaises(target.second)
  <2>1. PICK answer \in PossibleAnswers(target.second) :
           /\ Answered(answer, target.second)
           /\ second' = answer /\ step' \in {"crashed", "openapi"} /\ UNCHANGED first
    BY <1>5 DEF GetSecond
  <2>2. faults' \in Nat /\ (faults' = 0 => faults = 0 /\ second' = target'.second)
    BY <1>1, <1>2, <2>1
  <2>3. step = "second"
    BY <1>5 DEF GetSecond
  <2>4. ProbesStand'
    BY <1>2, <2>1, <2>2, <2>3 DEF NetworkInv, ProbesStand
  <2>5. OutcomesStand'
    BY <1>2, <2>1 DEF OutcomesStand
  <2>6. QED  BY <2>1, <2>2, <2>4, <2>5 DEF NetworkInv
<1>6. QED  BY <1>3, <1>4, <1>5, <1>7

\* The variants are those of the first answer, and stay so.
LEMMA VariantsStay == UNCHANGED <<first, target>> => UNCHANGED <<Advertised, TriedPaths, Variants>>
BY DEF Advertised, TriedPaths, Variants

\* One variant more.
LEMMA VariantIsTried ==
    ASSUME NetworkInv, GetVariant
    PROVE  NetworkInv'
<1> USE DEF HasFirst, HasSecond, HasDocument
<1>1. step = "variants" /\ UNCHANGED <<target, step, first, second, openapi>>
  BY DEF GetVariant
<1>2. PICK i \in DOMAIN Variants :
         \/ Record(Variants[i], OutcomeAt(target, Variants[i])) /\ UNCHANGED faults
         \/ Record(Variants[i], "lost") /\ faults' = faults + 1
  BY DEF GetVariant
<1>3. PICK outcome \in {OutcomeAt(target, Variants[i]), "lost"} :
         /\ Record(Variants[i], outcome)
         /\ faults' \in Nat
         /\ faults' = 0 => faults = 0 /\ outcome = OutcomeAt(target, Variants[i])
  BY <1>2 DEF NetworkInv
<1>4. /\ DOMAIN outcomes' = DOMAIN outcomes \cup {Variants[i]}
      /\ \A v \in DOMAIN outcomes' :
            outcomes'[v] = IF v = Variants[i] THEN outcome ELSE outcomes[v]
  BY <1>3 DEF Record
<1>5. UNCHANGED <<Advertised, TriedPaths, Variants>>
  BY <1>1, VariantsStay
<1>6. ProbesStand'
  BY <1>1, <1>3, <1>5 DEF NetworkInv, ProbesStand
<1>7. DOMAIN outcomes' \subseteq TriedPaths'
  BY <1>1, <1>4, <1>5 DEF NetworkInv, OutcomesStand, TriedPaths
<1>8. ASSUME NEW v \in DOMAIN outcomes'
      PROVE  /\ outcomes'[v] \in {OutcomeAt(target, v), "lost"}
             /\ faults' = 0 => outcomes'[v] = OutcomeAt(target, v)
  <2>1. CASE v = Variants[i]
    BY <1>3, <1>4, <2>1
  <2>2. CASE v # Variants[i]
    BY <1>1, <1>3, <1>4, <2>2 DEF NetworkInv, OutcomesStand
  <2>3. QED  BY <2>1, <2>2
<1>9. \A v : OutcomeAt(target, v)' = OutcomeAt(target, v)
  BY <1>1 DEF OutcomeAt
<1>10. OutcomesStand'
  BY <1>1, <1>7, <1>8, <1>9 DEF OutcomesStand
<1>11. QED  BY <1>1, <1>3, <1>6, <1>10 DEF NetworkInv

\* The other steps of a run.
LEMMA PassiveStepStands ==
    ASSUME NetworkInv, PassiveStep
    PROVE  NetworkInv'
<1> USE DEF HasFirst, HasSecond, HasDocument
<1>1. CASE ConnectionFails
  <2>1. step' = "failed" /\ faults' = faults + 1
    BY <1>1 DEF ConnectionFails
  <2>2. QED  BY <2>1 DEF NetworkInv, ProbesStand, OutcomesStand
<1>2. CASE GetOpenapi
  <2>1. /\ step = "openapi" /\ step' \in {"variants", "crashed"}
        /\ UNCHANGED <<target, first, second, outcomes>>
    BY <1>2 DEF GetOpenapi
  <2>2. openapi = "none" /\ DOMAIN outcomes = {} /\ faults \in Nat
    BY <2>1 DEF NetworkInv, OutcomesStand
  <2>3. /\ faults' \in Nat /\ (faults' = 0 => faults = 0)
        /\ openapi' \in {"none", Advertised}
        /\ faults' = 0 => openapi' = Advertised
    BY <1>2, <2>2 DEF GetOpenapi, Advertised
  <2>4. UNCHANGED Advertised
    BY <2>1, VariantsStay
  <2>5. ProbesStand'
    BY <2>1, <2>3, <2>4 DEF NetworkInv, ProbesStand
  <2>6. OutcomesStand'
    BY <2>1, <2>2 DEF OutcomesStand
  <2>7. QED  BY <2>1, <2>3, <2>5, <2>6 DEF NetworkInv
<1>3. CASE VariantsDone \/ Judge
  <2>1. /\ \/ step = "variants" /\ step' = "judge" /\ TriedPaths \subseteq DOMAIN outcomes
           \/ step = "judge" /\ step' = "judged" /\ results' = Verdicts
        /\ UNCHANGED <<target, marker, first, second, openapi, outcomes, faults>>
    BY <1>3 DEF VariantsDone, Judge, TriedPaths
  <2>2. UNCHANGED <<Advertised, TriedPaths, Variants>>
    BY <2>1, VariantsStay
  <2>3. UNCHANGED Verdicts
    BY <2>1 DEF Verdicts
  <2>4. ProbesStand'
    BY <2>1, <2>2 DEF NetworkInv, ProbesStand
  <2>5. OutcomesStand'
    BY <2>1, <2>2 DEF NetworkInv, OutcomesStand, OutcomeAt
  <2>6. QED  BY <2>1, <2>3, <2>4, <2>5 DEF NetworkInv
<1>4. QED  BY <1>1, <1>2, <1>3, ProbedAnswers, VariantIsTried DEF PassiveStep

\* One step per kind of call.
LEMMA NetworkInvariant == ToolsSpec => []NetworkInv
<1> USE DEF HasFirst, HasSecond, HasDocument
<1>1. ToolsInit => NetworkInv
  BY DEF ToolsInit, PassiveInit, NetworkInv, ProbesStand, OutcomesStand
<1>2. NetworkInv /\ [ToolsNext]_toolVars => NetworkInv'
  <2> SUFFICES ASSUME NetworkInv, [ToolsNext]_toolVars PROVE NetworkInv'  OBVIOUS
  <2>1. ASSUME PassiveStep PROVE NetworkInv'
    BY <2>1, PassiveStepStands
  <2>2. ASSUME NEW t, NEW marked, Begin(t, marked) PROVE NetworkInv'
    BY <2>2 DEF Begin, NetworkInv, ProbesStand, OutcomesStand
  <2>3. ASSUME ForgetRun PROVE NetworkInv'
    BY <2>3 DEF ForgetRun, NetworkInv, ProbesStand, OutcomesStand
  <2>4. ASSUME UNCHANGED passiveVars PROVE NetworkInv'
    <3>1. UNCHANGED <<target, marker, step, first, second, openapi, outcomes, faults, results>>
      BY <2>4 DEF passiveVars
    <3>2. UNCHANGED <<Advertised, TriedPaths, Verdicts>>
      BY <3>1, VariantsStay DEF Verdicts
    <3>3. ProbesStand' /\ OutcomesStand'
      BY <3>1, <3>2 DEF NetworkInv, ProbesStand, OutcomesStand, OutcomeAt
    <3>4. QED  BY <3>1, <3>2, <3>3 DEF NetworkInv
  <2>5. QED
    BY <2>1, <2>2, <2>3, <2>4
       DEF ToolsNext, Work, Call, Churn, AnswerEndpoint, AnswerDiscovery, CheckEndpoint,
           CheckDiscovery, Refuse, DiffReports, toolVars
<1>3. QED  BY <1>1, <1>2, PTL DEF ToolsSpec

-----------------------------------------------------------------------------
\* Behind a paywall the control is always among the variants.
LEMMA ControlIsTried ==
    ASSUME NEW path, path # "root"
    PROVE  \E i \in DOMAIN BuildVariants(path) : BuildVariants(path)[i] = Control
<1> DEFINE head == <<"trailingLineFeed", "embeddedLineFeed", "carriageReturn", "lineSeparator",
                     "rawBackslash", "encodedBackslash">>
           middle == IF path = "nested" THEN <<"encodedSeparator">> ELSE <<>>
           tail == <<"currentDirectory", "parentDirectory", "unreserved", "absoluteForm", Control>>
           names == {head[i] : i \in 1..6} \cup {"encodedSeparator"} \cup {tail[i] : i \in 1..5}
<1>1. BuildVariants(path) = head \o middle \o tail
  BY DEF BuildVariants
<1>2. head \in Seq(names) /\ middle \in Seq(names)
  <2>1. head \in Seq(names)
    OBVIOUS
  <2>2. <<"encodedSeparator">> \in Seq(names) /\ <<>> \in Seq(names)
    OBVIOUS
  <2>3. QED  BY <2>1, <2>2
<1>3. tail \in Seq(names) /\ Len(tail) = 5 /\ tail[5] = Control
  <2>1. tail \in Seq(names)
    OBVIOUS
  <2>2. Len(tail) = 5 /\ tail[5] = Control
    OBVIOUS
  <2>3. QED  BY <2>1, <2>2
<1>4. head \o middle \in Seq(names)
  BY <1>2, ConcatProperties
<1> DEFINE front == head \o middle
<1> HIDE DEF front, tail, names
<1>5. /\ front \o tail \in Seq(names)
      /\ Len(front \o tail) = Len(front) + 5
      /\ (front \o tail)[Len(front) + 5] = tail[5]
      /\ Len(front) \in Nat
  <2>1. front \in Seq(names)
    BY <1>4 DEF front
  <2>2. Len(front) \in Nat
    BY <2>1, LenProperties
  <2>3. /\ front \o tail \in Seq(names) /\ Len(front \o tail) = Len(front) + Len(tail)
        /\ \A i \in 1..(Len(front) + Len(tail)) :
              (front \o tail)[i] = IF i <= Len(front) THEN front[i] ELSE tail[i - Len(front)]
    BY <1>3, <2>1, ConcatProperties
  <2>4. QED  BY <1>3, <2>2, <2>3
<1>6. Len(front) + 5 \in DOMAIN (front \o tail)
  BY <1>5, LenProperties
<1>7. BuildVariants(path) = front \o tail
  BY <1>1 DEF front, tail
<1>8. QED  BY <1>3, <1>5, <1>6, <1>7

\* Of the checks only three read more than the path and the first answer.
LEMMA OnlyTheFirstAnswer ==
    ASSUME NEW path, NEW r, NEW other, NEW document, NEW tried, NEW marked,
           NEW other2, NEW document2, NEW tried2, NEW marked2,
           NEW c \in Checks \ {"PR_012", "PR_016", "SEC_012"}
    PROVE  VerdictsOn(path, r, other, document, tried, marked)[c]
              = VerdictsOn(path, r, other2, document2, tried2, marked2)[c]
BY DEF VerdictsOn, Checks

LEMMA TheThreeOthers ==
    ASSUME NEW path, NEW r, NEW other, NEW document, NEW tried, NEW marked
    PROVE  LET verdicts == VerdictsOn(path, r, other, document, tried, marked) IN
           /\ verdicts["PR_012"] = PR_012(r, other)
           /\ verdicts["PR_016"] = PR_016(r, document)
           /\ verdicts["SEC_012"] = SEC_012(tried, marked)
BY DEF VerdictsOn

\* An answer without a challenge fails no check but the handshake.
LEMMA ProxyFailsTheHandshake ==
    ASSUME NEW path, NEW other, NEW document, NEW tried, NEW marked, DOMAIN tried = {},
           NEW c \in Checks,
           VerdictsOn(path, ProxyAnswer(429), other, document, tried, marked)[c] \in Bad
    PROVE  c = "HS_001"
<1> DEFINE r == ProxyAnswer(429)
<1>1. ~HasHeader(r) /\ ~Decoded(r) /\ ~Raw(r) /\ ~r.legacy /\ r.status = 429
  BY DEF ProxyAnswer, HasHeader, Decoded, Raw
<1> HIDE DEF r
<1>2. ~Parsed(r) /\ ~Inspectable(r) /\ ~V2Inspectable(r)
  BY <1>1 DEF Parsed, Inspectable, V2Inspectable
<1>3. \A d \in Checks \ {"HS_001"} :
         VerdictsOn(path, r, other, document, tried, marked)[d] \in {"pass", "skip"}
  BY <1>1, <1>2
     DEF VerdictsOn, Checks, Grade, GradeEntries, Some, HS_002, HS_003, HS_004, HS_005,
         HS_006, HS_007, SEC_012, PR_001, PR_002, PR_003, PR_004, PR_005, PR_006,
         PR_007, PR_008, PR_009, PR_010, PR_011, PR_012, PR_013, PR_014, PR_015, PR_016, PR_017,
         PR_018, PR_019, PR_020, PR_021, PR_022, PR_023, PR_024, PR_025, PR_026, PR_027
<1>4. QED  BY <1>3 DEF r, Bad

\* What Unhindered says of the variants.
Open(t) == LET variants == VariantsOf(t.first, t.path) IN
           [v \in {variants[i] : i \in DOMAIN variants} |-> OutcomeAt(t, v)]

\* A run that has judged on the endpoint's own first answer has tried every
\* variant, the control among them if there is one.
LEMMA AllAreTried ==
    ASSUME NetworkInv, step = "judged", first = target.first
    PROVE  /\ DOMAIN outcomes = DOMAIN Open(target)
           /\ \A v \in DOMAIN outcomes :
                 /\ outcomes[v] \in {Open(target)[v], "lost"}
                 /\ faults = 0 => outcomes[v] = Open(target)[v]
           /\ DOMAIN outcomes # {} => Control \in DOMAIN outcomes
<1> DEFINE variants == VariantsOf(target.first, target.path)
<1>1. Variants = variants
  BY DEF Variants
<1>2. DOMAIN Open(target) = TriedPaths /\ \A v \in TriedPaths : Open(target)[v] = OutcomeAt(target, v)
  BY <1>1 DEF Open, TriedPaths
<1>3. DOMAIN outcomes = TriedPaths
  BY DEF NetworkInv, OutcomesStand, HasDocument, HasSecond, HasFirst
<1>4. \A v \in DOMAIN outcomes :
         /\ outcomes[v] \in {OutcomeAt(target, v), "lost"}
         /\ faults = 0 => outcomes[v] = OutcomeAt(target, v)
  BY DEF NetworkInv, OutcomesStand, HasDocument, HasSecond, HasFirst
<1>5. ASSUME TriedPaths # {} PROVE Control \in TriedPaths
  <2>1. PICK i \in DOMAIN variants : TRUE
    BY <1>1, <1>5 DEF TriedPaths
  <2>2. IsPaywall(target.first)
    BY <2>1, EmptySeq DEF VariantsOf
  <2>3. variants = BuildVariants(target.path)
    BY <2>2 DEF VariantsOf
  <2>4. target.path # "root"
    BY <2>1, <2>3 DEF BuildVariants
  <2>5. QED  BY <1>1, <2>3, <2>4, ControlIsTried DEF TriedPaths
<1>6. QED  BY <1>2, <1>3, <1>4, <1>5

\* The bypass test accuses on what was answered only, unless it is the control
\* that was lost and every path serves a page.
LEMMA BypassIsReal ==
    ASSUME NetworkInv, step = "judged", first = target.first, target \in Target,
           SEC_012(outcomes, marker) \in Bad
    PROVE  \/ SEC_012(Open(target), marker) \in Bad
           \/ target.catchAll /\ outcomes[Control] = "lost"
<1> DEFINE open == Open(target)
<1>1. /\ DOMAIN outcomes = DOMAIN open
      /\ \A v \in DOMAIN outcomes : outcomes[v] \in {open[v], "lost"}
      /\ DOMAIN outcomes # {} => Control \in DOMAIN outcomes
  BY AllAreTried
<1>2. open[Control] = OutcomeAt(target, Control) \/ Control \notin DOMAIN open
  BY DEF Open
<1> HIDE DEF open
<1>3. /\ DOMAIN outcomes # {}
      /\ ~Served(outcomes[Control], marker)
      /\ \E v \in DOMAIN outcomes \ {Control} : Served(outcomes[v], marker)
  BY DEF SEC_012, ClassifyVariants, Bad
<1>4. PICK v \in DOMAIN outcomes \ {Control} : Served(outcomes[v], marker)
  BY <1>3
<1>5. outcomes[v] # "lost"
  BY <1>4 DEF Served
<1>6. v \in DOMAIN open \ {Control} /\ Served(open[v], marker)
  BY <1>1, <1>4, <1>5
<1>7. CASE ~Served(open[Control], marker)
  BY <1>1, <1>3, <1>6, <1>7 DEF open, SEC_012, ClassifyVariants, Bad
<1>8. CASE Served(open[Control], marker)
  <2>1. outcomes[Control] = "lost"
    BY <1>1, <1>3, <1>8
  <2>2. target.bypass \subseteq {"encodedSeparator", "absoluteForm"} /\ target.catchAll \in BOOLEAN
    BY DEF Target
  <2>3. Control \notin target.bypass
    BY <2>2 DEF Control
  <2>4. open[Control] = IF target.catchAll THEN "page" ELSE "gated"
    BY <1>1, <1>2, <1>3, <2>3 DEF OutcomeAt
  <2>5. target.catchAll
    BY <1>8, <2>4 DEF Served
  <2>6. QED  BY <2>1, <2>5
<1>9. QED  BY <1>7, <1>8

\* Unhindered, check by check.
LEMMA UnhinderedVerdicts ==
    ASSUME NEW t, NEW marked
    PROVE  /\ \A c \in Checks \ {"PR_012", "PR_016", "SEC_012"} :
                 \A other, document, tried, m :
                    Unhindered(t, marked)[c]
                       = VerdictsOn(t.path, t.first, other, document, tried, m)[c]
           /\ Unhindered(t, marked)["PR_012"] = PR_012(t.first, t.second)
           /\ Unhindered(t, marked)["PR_016"] =
                 PR_016(t.first, IF AdvertisesJp402(t.first) THEN t.openapi ELSE "none")
           /\ Unhindered(t, marked)["SEC_012"] = SEC_012(Open(t), marked)
<1>1. Unhindered(t, marked) =
         VerdictsOn(t.path, t.first, t.second,
                    IF AdvertisesJp402(t.first) THEN t.openapi ELSE "none", Open(t), marked)
  BY DEF Unhindered, Open
<1>2. QED  BY <1>1, OnlyTheFirstAnswer, TheThreeOthers

\* A check that fails on the endpoint's own first answer fails without faults too.
LEMMA OwnAnswerIsJudged ==
    ASSUME NetworkInv, step = "judged", first = target.first, target \in Target,
           NEW c \in Checks, results[c] \in Bad
    PROVE  Unhindered(target, marker)[c] \in Bad \/ NetworksFault(c)
<1>1. results = VerdictsOn(target.path, target.first, second, openapi, outcomes, marker)
  BY DEF NetworkInv, Verdicts
<1>2. /\ second \in PossibleAnswers(target.second)
      /\ openapi \in {"none", Advertised}
  BY DEF NetworkInv, ProbesStand, HasDocument, HasSecond, HasFirst
<1>3. CASE c = "PR_012"
  <2>1. PR_012(target.first, second) \in Bad
    BY <1>1, <1>3, TheThreeOthers
  <2>2. Raw(second)
    BY <2>1 DEF PR_012, Grade, Bad
  <2>3. second = target.second
    BY <1>2, <2>2 DEF PossibleAnswers, ProxyAnswer, Raw
  <2>4. QED  BY <1>3, <2>1, <2>3, UnhinderedVerdicts
<1>4. CASE c = "PR_016"
  <2>1. PR_016(target.first, openapi) \in Bad
    BY <1>1, <1>4, TheThreeOthers
  <2>2. openapi # "none"
    BY <2>1 DEF PR_016, Grade, Bad
  <2>3. openapi = IF AdvertisesJp402(target.first) THEN target.openapi ELSE "none"
    BY <1>2, <2>2 DEF Advertised
  <2>4. QED  BY <1>4, <2>1, <2>3, UnhinderedVerdicts
<1>5. CASE c = "SEC_012"
  <2>1. SEC_012(outcomes, marker) \in Bad
    BY <1>1, <1>5, TheThreeOthers
  <2>2. \/ SEC_012(Open(target), marker) \in Bad
        \/ target.catchAll /\ outcomes[Control] = "lost"
    BY <2>1, BypassIsReal
  <2>3. QED  BY <1>5, <2>2, UnhinderedVerdicts DEF NetworksFault
<1>6. CASE c \notin {"PR_012", "PR_016", "SEC_012"}
  <2>1. Unhindered(target, marker)[c] = results[c]
    BY <1>1, <1>6, UnhinderedVerdicts
  <2>2. QED  BY <2>1
<1>7. QED  BY <1>3, <1>4, <1>5, <1>6

\* A run that was answered in the endpoint's place can fail the handshake only.
LEMMA ProxyIsJudged ==
    ASSUME NetworkInv, step = "judged", first # target.first,
           NEW c \in Checks, results[c] \in Bad
    PROVE  NetworksFault(c)
<1>1. first \in PossibleAnswers(target.first) /\ ~Unreachable(first)
  BY DEF NetworkInv, ProbesStand, HasFirst
<1>2. first # ProxyAnswer(503)
  BY <1>1 DEF Unreachable, IsPaywall, HasHeader, ProxyAnswer
<1>3. first = ProxyAnswer(429)
  BY <1>1, <1>2 DEF PossibleAnswers, TransientStatus
<1>4. ~IsPaywall(first)
  BY <1>3 DEF IsPaywall, HasHeader, ProxyAnswer
<1>5. TriedPaths = {}
  BY <1>4 DEF TriedPaths, Variants, VariantsOf
<1>6. DOMAIN outcomes = {}
  BY <1>5 DEF NetworkInv, OutcomesStand, HasDocument, HasSecond, HasFirst
<1>7. results = VerdictsOn(target.path, ProxyAnswer(429), second, openapi, outcomes, marker)
  BY <1>3 DEF NetworkInv, Verdicts
<1>8. c = "HS_001"
  BY <1>6, <1>7, ProxyFailsTheHandshake
<1>9. QED  BY <1>3, <1>8 DEF NetworksFault

\* Whatever the endpoint and the network: no check fails because of what the
\* network lost or answered in the endpoint's place, save the two that say so.
THEOREM NetworkIsNotBlamed == ToolsSpec => []NetworkAccusesNobody
<1>1. NetworkInv /\ ReportsInv => NetworkAccusesNobody
  <2> SUFFICES ASSUME NetworkInv, ReportsInv, step = "judged", NEW c \in Checks, results[c] \in Bad
               PROVE  Unhindered(target, marker)[c] \in Bad \/ NetworksFault(c)
    BY DEF NetworkAccusesNobody
  <2>1. target \in Target
    BY ToolsAssumption DEF ReportsInv, Targets
  <2>2. QED  BY <2>1, OwnAnswerIsJudged, ProxyIsJudged
<1>2. QED  BY ReportsInvariant, NetworkInvariant, <1>1, PTL

\* Without a fault the verdicts are those of the endpoint, check by check.
LEMMA FaultlessVerdict ==
    ASSUME NetworkInv, step = "judged", faults = 0, NEW c \in Checks
    PROVE  results[c] = Unhindered(target, marker)[c]
<1>1. first = target.first /\ second = target.second /\ openapi = Advertised
  BY DEF NetworkInv, ProbesStand, HasDocument, HasSecond, HasFirst
<1>2. results = VerdictsOn(target.path, target.first, second, openapi, outcomes, marker)
  BY <1>1 DEF NetworkInv, Verdicts
<1>3. SEC_012(outcomes, marker) = SEC_012(Open(target), marker)
  <2> DEFINE open == Open(target)
  <2>1. /\ DOMAIN outcomes = DOMAIN open
        /\ \A v \in DOMAIN outcomes : outcomes[v] = open[v]
        /\ DOMAIN outcomes # {} => Control \in DOMAIN outcomes
    BY <1>1, AllAreTried
  <2> HIDE DEF open
  <2>2. SEC_012(outcomes, marker) = SEC_012(open, marker)
    BY <2>1 DEF SEC_012, ClassifyVariants
  <2>3. QED  BY <2>2 DEF open
<1>4. CASE c \in {"PR_012", "PR_016", "SEC_012"}
  BY <1>1, <1>2, <1>3, <1>4, UnhinderedVerdicts, TheThreeOthers DEF Advertised
<1>5. CASE c \notin {"PR_012", "PR_016", "SEC_012"}
  BY <1>2, <1>5, UnhinderedVerdicts
<1>6. QED  BY <1>4, <1>5

\* Whatever was retried and in however many answers: a run that lost nothing and
\* was judged reports of every check what the endpoint's own answers deserve.
THEOREM WithoutFaults ==
    ToolsSpec => [](step = "judged" /\ faults = 0 =>
                       \A c \in Checks : results[c] = Unhindered(target, marker)[c])
<1>1. NetworkInv => (step = "judged" /\ faults = 0 =>
                       \A c \in Checks : results[c] = Unhindered(target, marker)[c])
  BY FaultlessVerdict
<1>2. QED  BY NetworkInvariant, <1>1, PTL

\* What makes a catalogue of endpoints say what it means: with nothing lost only
\* the checks in `guilty` fail.  It is about the catalogue and the checks alone;
\* MCPassiveTools lists such endpoints, which its runs without a fault show.
FailsAreGuilt ==
    \A s \in Sessions : ~Unreachable(s[1].first) =>
       \A c \in Checks : Unhindered(s[1], s[2])[c] \in Bad => c \in s[1].guilty

\* For endpoints whose guilt is known: nobody is accused of what he did not do,
\* whatever the network lost or answered.
THEOREM OnlyTheGuiltyAreAccused ==
    ASSUME FailsAreGuilt
    PROVE  ToolsSpec => []AccusesOnlyTheGuilty
<1>1. NetworkInv /\ ReportsInv => AccusesOnlyTheGuilty
  <2> SUFFICES ASSUME NetworkInv, ReportsInv, step = "judged", NEW c \in Checks, results[c] \in Bad
               PROVE  c \in target.guilty \/ NetworksFault(c)
    BY DEF AccusesOnlyTheGuilty
  <2>1. CASE first = target.first
    <3>1. target \in Target /\ <<target, marker>> \in Sessions
      BY ToolsAssumption DEF ReportsInv, Targets
    <3>2. ~Unreachable(target.first)
      BY <2>1 DEF NetworkInv, ProbesStand, HasFirst
    <3>3. Unhindered(target, marker)[c] \in Bad \/ NetworksFault(c)
      BY <2>1, <3>1, OwnAnswerIsJudged
    <3>4. Unhindered(target, marker)[c] \in Bad => c \in target.guilty
      BY <3>1, <3>2 DEF FailsAreGuilt
    <3>5. QED  BY <3>3, <3>4
  <2>2. CASE first # target.first
    BY <2>2, ProxyIsJudged
  <2>3. QED  BY <2>1, <2>2
<1>2. QED  BY ReportsInvariant, NetworkInvariant, <1>1, PTL

-----------------------------------------------------------------------------
(* The entries of a challenge.                                             *)

\* The checks that find fault with an entry for itself, and what each objects to;
\* a v1 challenge is not held to some of them.
HeldToV2 == {"PR_005", "PR_019", "PR_020", "PR_025", "PR_027"}
EntryWise == HeldToV2 \cup {"PR_006", "PR_007", "PR_008", "PR_009", "PR_013", "PR_014", "PR_017"}

EntryFault(check, e) ==
    CASE check = "PR_005" -> ~e.complete
      [] check = "PR_006" -> ~Bound(e)
      [] check = "PR_007" -> e.amount \in {"number", "text"}
      [] check = "PR_008" -> e.family = "eip155" /\ e.asset \in {"native", "unsummed"}
      [] check = "PR_009" -> /\ Binding(e) = <<"exact", "eip155">>
                             /\ e.method \in {"none", "eip3009"} /\ "domain" \notin e.extra
      [] check = "PR_013" -> \/ e.family = "eip155" /\ ~(IsEvm(e.asset) /\ IsEvm(e.payTo))
                             \/ e.family = "solana" /\ (IsEvm(e.asset) \/ IsEvm(e.payTo))
      [] check = "PR_014" -> e.amount = "zero"
      [] check = "PR_017" -> e.scheme = "unknown"
      [] check = "PR_019" -> /\ HasExtra(e) /\ HasVocabulary(e)
                             /\ (e.extra \ Vocabulary(e.scheme, e.family)) \cap AllVocabularies # {}
      [] check = "PR_020" -> ~e.plain
      [] check = "PR_025" -> DeclaresFlow(e) /\ e.flow \notin DefinedFlows
      [] OTHER -> FlowGraded(e) /\ (e.flow = "structured" \/ FlowProblem(e))

\* Two offers of the same thing that disagree (RS-PR-018).
Contradict(e, o) == OfferKey(e) = OfferKey(o) /\ <<e.payTo, e.amount>> # <<o.payTo, o.amount>>

\* Such a check fails exactly when there is an entry it objects to.
LEMMA FailsByAnEntry ==
    ASSUME NEW r, Inspectable(r), NEW check \in EntryWise,
           NEW path, NEW other, NEW document, NEW tried, NEW marked
    PROVE  VerdictsOn(path, r, other, document, tried, marked)[check] \in Bad
             <=> /\ check \in HeldToV2 => ~SpeaksV1(r)
                 /\ \E e \in Entries(r.doc) : EntryFault(check, e)
<1> DEFINE verdict == VerdictsOn(path, r, other, document, tried, marked)[check]
<1> USE DEF Grade, GradeEntries, Some, V2Inspectable, Bad, EntryFault, HeldToV2
<1>1. CASE check = "PR_005"
  <2>1. verdict = PR_005(r)  BY <1>1 DEF VerdictsOn
  <2>2. QED  BY <1>1, <2>1 DEF PR_005
<1>2. CASE check = "PR_006"
  <2>1. verdict = PR_006(r)  BY <1>2 DEF VerdictsOn
  <2>2. QED  BY <1>2, <2>1 DEF PR_006
<1>3. CASE check = "PR_007"
  <2>1. verdict = PR_007(r)  BY <1>3 DEF VerdictsOn
  <2>2. QED  BY <1>3, <2>1 DEF PR_007
<1>4. CASE check = "PR_008"
  <2>1. verdict = PR_008(r)  BY <1>4 DEF VerdictsOn
  <2>2. QED  BY <1>4, <2>1 DEF PR_008
<1>5. CASE check = "PR_009"
  <2>1. verdict = PR_009(r)  BY <1>5 DEF VerdictsOn
  <2>2. QED  BY <1>5, <2>1 DEF PR_009
<1>6. CASE check = "PR_013"
  <2>1. verdict = PR_013(r)  BY <1>6 DEF VerdictsOn
  <2>2. QED  BY <1>6, <2>1 DEF PR_013
<1>7. CASE check = "PR_014"
  <2>1. verdict = PR_014(r)  BY <1>7 DEF VerdictsOn
  <2>2. QED  BY <1>7, <2>1 DEF PR_014
<1>8. CASE check = "PR_017"
  <2>1. verdict = PR_017(r)  BY <1>8 DEF VerdictsOn
  <2>2. QED  BY <1>8, <2>1 DEF PR_017
<1>9. CASE check = "PR_019"
  <2>1. verdict = PR_019(r)  BY <1>9 DEF VerdictsOn
  <2>2. QED  BY <1>9, <2>1 DEF PR_019
<1>10. CASE check = "PR_020"
  <2>1. verdict = PR_020(r)  BY <1>10 DEF VerdictsOn
  <2>2. QED  BY <1>10, <2>1 DEF PR_020
<1>11. CASE check = "PR_025"
  <2>1. verdict = PR_025(r)  BY <1>11 DEF VerdictsOn
  <2>2. QED  BY <1>11, <2>1 DEF PR_025
<1>12. CASE check = "PR_027"
  <2>1. verdict = PR_027(r)  BY <1>12 DEF VerdictsOn
  <2>2. QED  BY <1>12, <2>1 DEF PR_027
<1>13. QED
  BY <1>1, <1>2, <1>3, <1>4, <1>5, <1>6, <1>7, <1>8, <1>9, <1>10, <1>11, <1>12 DEF EntryWise

LEMMA FailsByAPair ==
    ASSUME NEW r, Inspectable(r), NEW path, NEW other, NEW document, NEW tried, NEW marked
    PROVE  VerdictsOn(path, r, other, document, tried, marked)["PR_018"] \in Bad
             <=> \E e, o \in Entries(r.doc) : Contradict(e, o)
<1>1. VerdictsOn(path, r, other, document, tried, marked)["PR_018"] = PR_018(r)
  BY DEF VerdictsOn
<1>2. QED  BY <1>1 DEF PR_018, Grade, GradeEntries, Some, Bad, Contradict

\* The same challenge with other entries.
Offering(r, accepts) == [r EXCEPT !.doc.accepts = accepts]

LEMMA OfferedEntries ==
    ASSUME NEW r \in Response, Inspectable(r), NEW accepts, accepts # <<>>
    PROVE  LET q == Offering(r, accepts) IN
           /\ Inspectable(q) /\ (SpeaksV1(q) <=> SpeaksV1(r))
           /\ q.doc.accepts = accepts
BY DEF Offering, Response, Document, Fields, Inspectable, Raw, SpeaksV1

\* However many entries a challenge has and in whatever order: a check that judges
\* entries fails exactly when it fails on one of them offered alone, and RS-PR-018
\* exactly when it fails on two of them, so no entry hides another's defect and
\* none is blamed on another's account.
THEOREM EntriesAreJudgedAlone ==
    ASSUME NEW r \in Response, Inspectable(r),
           NEW path, NEW other, NEW document, NEW tried, NEW marked
    PROVE  LET Fails(check, q) ==
                   VerdictsOn(path, q, other, document, tried, marked)[check] \in Bad
           IN  /\ \A check \in EntryWise :
                     Fails(check, r) <=>
                        \E i \in DOMAIN r.doc.accepts :
                           Fails(check, Offering(r, <<r.doc.accepts[i]>>))
               /\ Fails("PR_018", r) <=>
                     \E i, j \in DOMAIN r.doc.accepts :
                        Fails("PR_018", Offering(r, <<r.doc.accepts[i], r.doc.accepts[j]>>))
<1> DEFINE Fails(check, q) == VerdictsOn(path, q, other, document, tried, marked)[check] \in Bad
<1>1. ASSUME NEW check \in EntryWise
      PROVE  Fails(check, r) <=>
                \E i \in DOMAIN r.doc.accepts : Fails(check, Offering(r, <<r.doc.accepts[i]>>))
  <2>1. ASSUME NEW i \in DOMAIN r.doc.accepts
        PROVE  Fails(check, Offering(r, <<r.doc.accepts[i]>>))
                 <=> /\ check \in HeldToV2 => ~SpeaksV1(r)
                     /\ EntryFault(check, r.doc.accepts[i])
    <3> DEFINE q == Offering(r, <<r.doc.accepts[i]>>)
    <3>1. /\ Inspectable(q) /\ (SpeaksV1(q) <=> SpeaksV1(r))
          /\ q.doc.accepts = <<r.doc.accepts[i]>>
      <4>1. <<r.doc.accepts[i]>> # <<>>  OBVIOUS
      <4>2. QED  BY <4>1, OfferedEntries
    <3> HIDE DEF q
    <3>2. Entries(q.doc) = {r.doc.accepts[i]}
      BY <3>1 DEF Entries
    <3>3. Fails(check, q) <=> /\ check \in HeldToV2 => ~SpeaksV1(q)
                              /\ \E e \in Entries(q.doc) : EntryFault(check, e)
      BY <3>1, FailsByAnEntry
    <3>4. Fails(check, q) <=> /\ check \in HeldToV2 => ~SpeaksV1(r)
                              /\ EntryFault(check, r.doc.accepts[i])
      BY <3>1, <3>2, <3>3
    <3>5. QED  BY <3>4 DEF q
  <2>2. Fails(check, r) <=> /\ check \in HeldToV2 => ~SpeaksV1(r)
                            /\ \E e \in Entries(r.doc) : EntryFault(check, e)
    BY FailsByAnEntry
  <2> HIDE DEF Fails
  <2>3. QED  BY <2>1, <2>2 DEF Entries
<1>2. Fails("PR_018", r) <=>
         \E i, j \in DOMAIN r.doc.accepts :
            Fails("PR_018", Offering(r, <<r.doc.accepts[i], r.doc.accepts[j]>>))
  <2>1. ASSUME NEW i \in DOMAIN r.doc.accepts, NEW j \in DOMAIN r.doc.accepts
        PROVE  Fails("PR_018", Offering(r, <<r.doc.accepts[i], r.doc.accepts[j]>>))
                 <=> Contradict(r.doc.accepts[i], r.doc.accepts[j])
    <3> DEFINE a == r.doc.accepts[i]
               b == r.doc.accepts[j]
               q == Offering(r, <<a, b>>)
    <3>1. Inspectable(q) /\ q.doc.accepts = <<a, b>>
      <4>1. <<a, b>> # <<>>  OBVIOUS
      <4>2. QED  BY <4>1, OfferedEntries
    <3> HIDE DEF a, b, q
    <3>2. Entries(q.doc) = {a, b}
      BY <3>1 DEF Entries
    <3>3. Fails("PR_018", q) <=> \E e, o \in Entries(q.doc) : Contradict(e, o)
      BY <3>1, FailsByAPair
    <3>4. (\E e, o \in {a, b} : Contradict(e, o)) <=> Contradict(a, b)
      BY DEF Contradict
    <3>5. QED  BY <3>2, <3>3, <3>4 DEF a, b, q
  <2>2. Fails("PR_018", r) <=> \E e, o \in Entries(r.doc) : Contradict(e, o)
    BY FailsByAPair
  <2> HIDE DEF Fails
  <2>3. QED  BY <2>1, <2>2 DEF Entries
<1>3. QED  BY <1>1, <1>2

\* What is wrong with the entries an endpoint offers, check by check.
EntryDefects(t) ==
    {check \in EntryWise :
        /\ check \in HeldToV2 => ~SpeaksV1(t.first)
        /\ \E e \in Entries(t.first.doc) : EntryFault(check, e)}
    \cup {check \in {"PR_018"} : \E e, o \in Entries(t.first.doc) : Contradict(e, o)}

\* Whatever the network lost, retried or answered in the endpoint's place, and
\* whatever else is wrong with it: once its entries have been seen, the checks of
\* entries fail for exactly the defects they have.
THEOREM EntryDefectsAreFound ==
    ToolsSpec => [](step = "judged" /\ Inspectable(first) =>
                       {check \in EntryWise \cup {"PR_018"} : results[check] \in Bad}
                          = EntryDefects(target))
<1>1. ASSUME NetworkInv, step = "judged", Inspectable(first)
      PROVE  {check \in EntryWise \cup {"PR_018"} : results[check] \in Bad} = EntryDefects(target)
  <2>1. first = target.first
    <3>1. first \in {target.first, ProxyAnswer(429), ProxyAnswer(503)}
      BY <1>1 DEF NetworkInv, ProbesStand, HasFirst, PossibleAnswers, TransientStatus
    <3>2. ~Inspectable(ProxyAnswer(429)) /\ ~Inspectable(ProxyAnswer(503))
      BY DEF Inspectable, Raw, ProxyAnswer
    <3>3. QED  BY <1>1, <3>1, <3>2
  <2>2. results = VerdictsOn(target.path, target.first, second, openapi, outcomes, marker)
    BY <1>1, <2>1 DEF NetworkInv, Verdicts
  <2>3. \A check \in EntryWise :
           results[check] \in Bad <=> /\ check \in HeldToV2 => ~SpeaksV1(target.first)
                                      /\ \E e \in Entries(target.first.doc) : EntryFault(check, e)
    BY <1>1, <2>1, <2>2, FailsByAnEntry
  <2>4. results["PR_018"] \in Bad <=> \E e, o \in Entries(target.first.doc) : Contradict(e, o)
    BY <1>1, <2>1, <2>2, FailsByAPair
  <2>5. "PR_018" \notin EntryWise
    BY DEF EntryWise, HeldToV2
  <2>6. QED  BY <2>3, <2>4, <2>5 DEF EntryDefects
<1>2. QED  BY <1>1, NetworkInvariant, PTL

-----------------------------------------------------------------------------
(* Every call comes to an end.                                             *)

\* How far a run has yet to go.
RunRank ==
    CASE step = "first" -> 6 [] step = "second" -> 5 [] step = "openapi" -> 4
      [] step = "variants" -> 3 [] step = "judge" -> 2
      [] step \in {"judged", "unreachable", "failed", "crashed"} -> 1 [] OTHER -> 0

DiscoveryRank ==
    CASE diStep = "DI_001" -> 13 [] diStep = "base" -> 12 [] diStep = "type" -> 11
      [] diStep = "payTo" -> 10 [] diStep = "scheme" -> 9 [] diStep = "network" -> 8
      [] diStep = "extension" -> 7 [] diStep = "limited" -> 6 [] diStep = "offset" -> 5
      [] diStep = "listings" -> 4 [] diStep = "cross" -> 3 [] diStep = "schemas" -> 2
      [] diStep \in {"done", "failed"} -> 1 [] OTHER -> 0

\* A step of a run leads on to the next request, spends a retry, or tries a path
\* that had not been tried.
RunAdvances ==
    \/ RunRank' < RunRank
    \/ step' = step /\ attempt < attempt' /\ attempt' <= MaxRetries
    \/ /\ step' = step /\ DOMAIN outcomes' \subseteq TriedPaths /\ UNCHANGED TriedPaths
       /\ DOMAIN outcomes \subseteq DOMAIN outcomes' /\ DOMAIN outcomes' # DOMAIN outcomes

\* A step of a discovery run leads on to the next request, to the next of the
\* listings that are fetched, or to the next of its redirects.
DiscoveryAdvances ==
    \/ DiscoveryRank' < DiscoveryRank
    \/ diStep' = diStep /\ item < item' /\ item' <= MaxListings
    \/ diStep' = diStep /\ item' = item /\ hop < hop' /\ hop' <= MaxRedirects

StepsTypeOK == attempt \in Nat /\ diStep \in DiSteps

LEMMA StepsTyped == ToolsSpec => []StepsTypeOK
<1> USE DEF DiSteps, Filters
<1>1. ToolsInit => StepsTypeOK
  BY DEF ToolsInit, PassiveInit, DiInit, StepsTypeOK
<1>2. StepsTypeOK /\ [ToolsNext]_toolVars => StepsTypeOK'
  <2> SUFFICES ASSUME StepsTypeOK, [ToolsNext]_toolVars PROVE StepsTypeOK'  OBVIOUS
  <2>1. attempt' \in Nat
    <3>1. ASSUME PassiveStep PROVE attempt' \in Nat
      BY <3>1 DEF StepsTypeOK, PassiveStep, GetFirst, GetSecond, Retry, RetryRaises,
                  ConnectionFails, GetOpenapi, GetVariant, VariantsDone, Judge
    <3>2. ASSUME NEW t, NEW marked, Begin(t, marked) PROVE attempt' \in Nat
      BY <3>2 DEF StepsTypeOK, Begin
    <3>3. ASSUME ForgetRun PROVE attempt' \in Nat
      BY <3>3 DEF ForgetRun
    <3>4. ASSUME UNCHANGED passiveVars PROVE attempt' \in Nat
      BY <3>4 DEF StepsTypeOK, passiveVars
    <3>5. QED
      BY <3>1, <3>2, <3>3, <3>4
         DEF ToolsNext, Work, Call, Churn, AnswerEndpoint, AnswerDiscovery, CheckEndpoint,
             CheckDiscovery, Refuse, DiffReports, toolVars
  <2>2. diStep' \in DiSteps
    <3>1. ASSUME DI_001 \/ GetBase \/ TryLimit \/ TryOffset \/ GetListings \/ DI_004 \/ RequestFails
          PROVE  diStep' \in DiSteps
      BY <3>1 DEF DI_001, GetBase, TryLimit, TryOffset, GetListings, DI_004, RequestFails, Decide
    <3>2. ASSUME NEW i \in DOMAIN Filters, TryFilter(i) PROVE diStep' \in DiSteps
      BY <3>2 DEF TryFilter, Decide
    <3>3. ASSUME Blocked \/ Unreached \/ FetchRaises \/ Follow \/ Compare
          PROVE  diStep' \in DiSteps
      BY <3>3 DEF StepsTypeOK, Blocked, Unreached, FetchRaises, Follow, Compare, MoveOn, Decide
    <3>4. ASSUME UNCHANGED diStep PROVE diStep' \in DiSteps
      BY <3>4 DEF StepsTypeOK
    <3>5. ASSUME AnswerDiscovery \/ \E b \in Bazaars : CheckDiscovery(b) PROVE diStep' \in DiSteps
      BY <3>5 DEF AnswerDiscovery, ForgetDiscovery, CheckDiscovery, BeginDiscovery
    <3>6. QED
      BY <3>1, <3>2, <3>3, <3>4, <3>5
         DEF ToolsNext, Work, DiscoveryStep, Call, Churn, Grow, AnswerEndpoint, CheckEndpoint, Refuse,
             DiffReports, toolVars, diVars
  <2>3. QED  BY <2>1, <2>2 DEF StepsTypeOK
<1>3. QED  BY <1>1, <1>2, PTL DEF ToolsSpec

\* One step per request of a run.
LEMMA PassiveStepAdvances ==
    ASSUME StepsTypeOK, NetworkInv, NetworkInv', PassiveStep
    PROVE  RunAdvances
<1>1. ASSUME NEW byTarget, Retry(byTarget) PROVE RunAdvances
  <2>1. attempt < MaxRetries /\ attempt' = attempt + 1 /\ step' = step
    BY <1>1 DEF Retry, Retried
  <2>2. attempt < attempt' /\ attempt' <= MaxRetries
    BY <2>1, PassiveAssumption DEF StepsTypeOK
  <2>3. QED  BY <2>1, <2>2 DEF RunAdvances
<1>2. CASE GetFirst /\ ~Retry(target.first)
  <2>1. step = "first" /\ step' \in {"unreachable", "second", "crashed"}
    BY <1>2 DEF GetFirst, RetryRaises
  <2>2. QED  BY <2>1 DEF RunAdvances, RunRank
<1>3. CASE GetSecond /\ ~Retry(target.second)
  <2>1. step = "second" /\ step' \in {"openapi", "crashed"}
    BY <1>3 DEF GetSecond, RetryRaises
  <2>2. QED  BY <2>1 DEF RunAdvances, RunRank
<1>4. CASE ConnectionFails \/ GetOpenapi \/ VariantsDone \/ Judge
  <2>1. \/ step \in {"first", "second"} /\ step' = "failed"
        \/ step = "openapi" /\ step' \in {"variants", "crashed"}
        \/ step = "variants" /\ step' = "judge"
        \/ step = "judge" /\ step' = "judged"
    BY <1>4 DEF ConnectionFails, GetOpenapi, VariantsDone, Judge
  <2>2. QED  BY <2>1 DEF RunAdvances, RunRank
<1>5. CASE GetVariant
  <2>1. step = "variants" /\ UNCHANGED <<step, first, target>>
    BY <1>5 DEF GetVariant
  <2>2. UNCHANGED TriedPaths
    BY <2>1, VariantsStay
  <2>3. DOMAIN outcomes' \subseteq TriedPaths
    BY <2>1, <2>2 DEF NetworkInv, OutcomesStand, HasDocument, HasSecond, HasFirst
  <2>4. PICK i \in DOMAIN Variants :
           /\ Variants[i] \notin DOMAIN outcomes
           /\ \E outcome : Record(Variants[i], outcome)
    BY <1>5 DEF GetVariant
  <2>5. DOMAIN outcomes' = DOMAIN outcomes \cup {Variants[i]}
    BY <2>4 DEF Record
  <2>6. QED  BY <2>1, <2>2, <2>3, <2>4, <2>5 DEF RunAdvances
<1>6. QED  BY <1>1, <1>2, <1>3, <1>4, <1>5 DEF PassiveStep

\* One step per request of a discovery run.
LEMMA DiscoveryStepAdvances ==
    ASSUME StepsTypeOK, AccusesInv, DiscoveryStep
    PROVE  DiscoveryAdvances
<1>1. CASE \/ DI_001 \/ GetBase \/ TryLimit \/ TryOffset \/ GetListings \/ DI_004
  <2>1. \/ diStep = "DI_001" /\ diStep' = "base"
        \/ diStep = "base" /\ diStep' \in {"listings", "type"}
        \/ diStep = "limited" /\ diStep' \in {"offset", "listings"}
        \/ diStep = "offset" /\ diStep' = "listings"
        \/ diStep = "listings" /\ diStep' \in {"schemas", "cross"}
        \/ diStep = "schemas" /\ diStep' = "done"
    BY <1>1 DEF DI_001, GetBase, TryLimit, TryOffset, GetListings, DI_004, Decide, Filters
  <2>2. QED  BY <2>1 DEF DiscoveryAdvances, DiscoveryRank
<1>2. CASE \E i \in DOMAIN Filters : TryFilter(i)
  <2>1. PICK i \in DOMAIN Filters : TryFilter(i)
    BY <1>2
  <2>2. /\ diStep = Filters[i]
        /\ diStep' = "listings" \/ diStep' = (IF i < Len(Filters) THEN Filters[i + 1] ELSE "limited")
    BY <2>1 DEF TryFilter, Decide
  <2>3. \/ diStep = "type" /\ diStep' \in {"listings", "payTo"}
        \/ diStep = "payTo" /\ diStep' \in {"listings", "scheme"}
        \/ diStep = "scheme" /\ diStep' \in {"listings", "network"}
        \/ diStep = "network" /\ diStep' \in {"listings", "extension"}
        \/ diStep = "extension" /\ diStep' \in {"listings", "limited"}
    BY <2>2 DEF Filters
  <2>4. QED  BY <2>3 DEF DiscoveryAdvances, DiscoveryRank
<1>3. CASE RequestFails
  <2>1. diStep' = "failed" /\ diStep \notin {"idle", "cross", "done", "failed"}
    BY <1>3 DEF RequestFails
  <2>2. diStep \in DiSteps
    BY DEF StepsTypeOK
  <2>3. QED  BY <2>1, <2>2 DEF DiscoveryAdvances, DiscoveryRank, DiSteps, Filters
<1>4. ASSUME NEW count, NEW differs, diStep = "cross", MoveOn(count, differs)
      PROVE  DiscoveryAdvances
  <2>1. CASE NextListing
    <3>1. item < MaxListings /\ item' = item + 1 /\ diStep' = diStep
      BY <1>4, <2>1 DEF MoveOn, NextListing, Start
    <3>2. item \in Nat /\ MaxListings \in Nat
      BY <1>4, LenProperties, DiscoveryAssumption DEF AccusesInv, FetchStands
    <3>3. item < item' /\ item' <= MaxListings
      BY <3>1, <3>2
    <3>4. QED  BY <3>1, <3>3 DEF DiscoveryAdvances
  <2>2. CASE ~NextListing
    <3>1. diStep' = "schemas"
      BY <1>4, <2>2 DEF MoveOn, Decide
    <3>2. QED  BY <1>4, <3>1 DEF DiscoveryAdvances, DiscoveryRank
  <2>3. QED  BY <2>1, <2>2
<1>5. CASE Blocked \/ Unreached \/ Compare
  BY <1>4, <1>5 DEF Blocked, Unreached, Compare
<1>6. CASE Follow
  <2>1. CASE hop = MaxRedirects
    BY <1>4, <1>6, <2>1 DEF Follow
  <2>2. CASE hop # MaxRedirects
    <3>1. diStep = "cross" /\ hop' = hop + 1 /\ UNCHANGED <<item, diStep>>
      BY <1>6, <2>2 DEF Follow
    <3>2. hop \in 0..MaxRedirects /\ MaxRedirects \in Nat
      BY <3>1, DiscoveryAssumption DEF AccusesInv, FetchStands
    <3>3. hop < hop' /\ hop' <= MaxRedirects
      BY <2>2, <3>1, <3>2
    <3>4. QED  BY <3>1, <3>3 DEF DiscoveryAdvances
  <2>3. QED  BY <2>1, <2>2
<1>8. CASE FetchRaises
  <2>1. diStep = "cross" /\ diStep' = "schemas"
    BY <1>8 DEF FetchRaises, Decide
  <2>2. QED  BY <2>1 DEF DiscoveryAdvances, DiscoveryRank
<1>7. QED  BY <1>1, <1>2, <1>3, <1>5, <1>6, <1>8 DEF DiscoveryStep

\* What bounds a call, for any endpoint, Bazaar and web (the safety half of
\* EveryCallAnswers): each of its steps is its last or advances it towards its
\* end in an order without an infinite descent, and what is listed meanwhile
\* does not set it back.
THEOREM EveryStepAdvances ==
    ToolsSpec => [][/\ Work => \/ tool # "idle" /\ tool' = "idle"
                               \/ RunAdvances /\ UNCHANGED diVars
                               \/ DiscoveryAdvances /\ UNCHANGED passiveVars
                    /\ Churn => UNCHANGED <<passiveVars, diStep, item, hop>>]_toolVars
<1> DEFINE Advances == \/ tool # "idle" /\ tool' = "idle"
                       \/ RunAdvances /\ UNCHANGED diVars
                       \/ DiscoveryAdvances /\ UNCHANGED passiveVars
<1>1. ASSUME StepsTypeOK, NetworkInv, NetworkInv', AccusesInv
      PROVE  /\ Work => Advances
             /\ Churn => UNCHANGED <<passiveVars, diStep, item, hop>>
  <2>1. Work => Advances
    BY <1>1, PassiveStepAdvances, DiscoveryStepAdvances DEF Work, AnswerEndpoint, AnswerDiscovery
  <2>2. Churn => UNCHANGED <<passiveVars, diStep, item, hop>>
    BY DEF Churn, Grow, fetchVars
  <2>3. QED  BY <2>1, <2>2
<1>2. QED  BY <1>1, StepsTyped, NetworkInvariant, AccusesInvariant, PTL DEF ToolsSpec
=============================================================================
