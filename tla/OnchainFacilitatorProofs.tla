---------------------- MODULE OnchainFacilitatorProofs ----------------------
(***************************************************************************)
(* The token's and the server's safety for any set of connections,         *)
(* requests, accounts and third-party transfers.                           *)
(***************************************************************************)
EXTENDS OnchainFacilitator, FiniteSetTheorems, WellFoundedInduction, TLAPS

\* The two balance updates of _finalize stay inside uint256 whenever the
\* transfer is allowed, a transfer to oneself included.
LEMMA MovedType ==
    ASSUME TokenTypeOK, NEW auth \in Authorization,
           balanceOf[auth.from] >= auth.value, Moved(auth)[auth.to] <= MaxUint
    PROVE  Moved(auth) \in [Accounts -> Uint]
<1> DEFINE debited == [balanceOf EXCEPT ![auth.from] = @ - auth.value]
<1>1. /\ auth.from \in Accounts /\ auth.to \in Accounts /\ auth.value \in Uint
      /\ balanceOf \in [Accounts -> Uint] /\ MaxUint \in Nat
  BY TokenAssumption DEF Authorization, TokenTypeOK
<1>2. debited \in [Accounts -> Uint]
  <2>1. balanceOf[auth.from] - auth.value \in Uint  BY <1>1 DEF Uint
  <2>2. QED  BY <1>1, <2>1
<1>3. Moved(auth)[auth.to] = debited[auth.to] + auth.value
  BY <1>1, <1>2 DEF Moved
<1>4. debited[auth.to] + auth.value \in Uint
  BY <1>1, <1>2, <1>3 DEF Uint
<1>5. Moved(auth) = [debited EXCEPT ![auth.to] = debited[auth.to] + auth.value]
  BY <1>2 DEF Moved
<1>6. QED  BY <1>1, <1>2, <1>4, <1>5

\* What a transfer does to each balance, between two different accounts.
LEMMA MovedBalances ==
    ASSUME TokenTypeOK, NEW auth \in Authorization
    PROVE  /\ auth.from # auth.to => Moved(auth)[auth.to] = balanceOf[auth.to] + auth.value
           /\ \A a \in Accounts \ {auth.from, auth.to} : Moved(auth)[a] = balanceOf[a]
<1>1. auth.from \in Accounts /\ auth.to \in Accounts /\ balanceOf \in [Accounts -> Uint]
  BY DEF Authorization, TokenTypeOK
<1>2. QED  BY <1>1 DEF Moved

\* transferWithAuthorization keeps every value inside its type.
LEMMA TransferType ==
    ASSUME TokenTypeOK, NEW auth \in Authorization, NEW signer,
           TransferWithAuthorization(auth, signer)
    PROVE  TokenTypeOK'
<1>1. Moved(auth) \in [Accounts -> Uint]
  BY MovedType DEF TransferWithAuthorization, CanTransfer
<1>2. authorizationState' \in [Accounts -> [Nonces -> BOOLEAN]]
  BY DEF TransferWithAuthorization, TokenTypeOK, Authorization
<1>3. QED  BY <1>1, <1>2 DEF TransferWithAuthorization, TokenTypeOK

\* A transfer uses up exactly its own nonce and debits nobody but its payer.
LEMMA TransferUsesNonce ==
    ASSUME TokenTypeOK, NEW auth \in Authorization, NEW signer,
           TransferWithAuthorization(auth, signer)
    PROVE  /\ auth.from \in Accounts /\ auth.nonce \in Nonces
           /\ ~authorizationState[auth.from][auth.nonce]
           /\ \A a \in Accounts, n \in Nonces :
                 authorizationState'[a][n] <=>
                    authorizationState[a][n] \/ (a = auth.from /\ n = auth.nonce)
           /\ \A a \in Accounts : a # auth.from => balanceOf'[a] >= balanceOf[a]
<1>1. /\ auth.from \in Accounts /\ auth.to \in Accounts /\ auth.nonce \in Nonces
      /\ auth.value \in Uint /\ balanceOf \in [Accounts -> Uint] /\ MaxUint \in Nat
      /\ authorizationState \in [Accounts -> [Nonces -> BOOLEAN]]
  BY TokenAssumption DEF Authorization, TokenTypeOK
<1>2. ~authorizationState[auth.from][auth.nonce]
  BY DEF TransferWithAuthorization, CanTransfer, Authorized
<1>3. \A a \in Accounts, n \in Nonces :
         authorizationState'[a][n] <=>
            authorizationState[a][n] \/ (a = auth.from /\ n = auth.nonce)
  <2>1. authorizationState' = [authorizationState EXCEPT ![auth.from][auth.nonce] = TRUE]
    BY DEF TransferWithAuthorization
  <2>2. QED  BY <1>1, <2>1
<1>4. ASSUME NEW a \in Accounts, a # auth.from
      PROVE  balanceOf'[a] >= balanceOf[a]
  <2>1. balanceOf' = Moved(auth)  BY DEF TransferWithAuthorization
  <2>2. balanceOf'[a] = IF a = auth.to THEN balanceOf[a] + auth.value ELSE balanceOf[a]
    BY <1>1, <1>4, <2>1 DEF Moved
  <2>3. balanceOf[a] \in Nat /\ auth.value \in Nat  BY <1>1 DEF Uint
  <2>4. QED  BY <2>2, <2>3
<1>5. QED  BY <1>1, <1>2, <1>3, <1>4

-----------------------------------------------------------------------------
\* Minting keeps every value inside its type: both additions are checked.
LEMMA MintType ==
    ASSUME TokenTypeOK, NEW to \in Accounts, NEW amount \in Uint, Mint(to, amount)
    PROVE  TokenTypeOK'
<1>1. balanceOf[to] + amount \in Uint /\ totalSupply + amount \in Uint
  BY TokenAssumption DEF TokenTypeOK, Mint, Uint
<1>2. QED  BY <1>1 DEF TokenTypeOK, Mint

\* Type correctness of the token: no addition or subtraction of mint or
\* _finalize leaves uint256.
THEOREM TokenTypeCorrect == TokenSpec => []TokenTypeOK
<1>1. TokenInit => TokenTypeOK
  BY TokenAssumption DEF TokenInit, TokenTypeOK, Uint
<1>2. TokenTypeOK /\ [TokenNext]_tokenVars => TokenTypeOK'
  <2> SUFFICES ASSUME TokenTypeOK, [TokenNext]_tokenVars PROVE TokenTypeOK'
    OBVIOUS
  <2>1. CASE \E to \in Accounts, amount \in Uint : Mint(to, amount)
    BY <2>1, MintType
  <2>2. CASE \E auth \in Authorization, signer \in Accounts \cup {NoSigner} :
                TransferWithAuthorization(auth, signer)
    BY <2>2, TransferType
  <2>3. CASE Tick
    BY <2>3, TokenAssumption DEF Tick, TokenTypeOK
  <2>4. CASE UNCHANGED tokenVars
    BY <2>4 DEF tokenVars, TokenTypeOK
  <2>5. QED  BY <2>1, <2>2, <2>3, <2>4 DEF TokenNext
<1>3. QED  BY <1>1, <1>2, PTL DEF TokenSpec

\* The nonces a step uses up, and that a step which takes funds uses one up.
Fresh(a) == {n \in Nonces : ~authorizationState[a][n] /\ authorizationState'[a][n]}
Guarded(a) ==
    /\ \A n \in Nonces : authorizationState[a][n] => authorizationState'[a][n]
    /\ balanceOf'[a] < balanceOf[a] => \E n \in Nonces : Fresh(a) = {n}

LEMMA TokenStepGuarded ==
    TokenTypeOK /\ [TokenNext]_tokenVars => [\A a \in Accounts : Guarded(a)]_tokenVars
<1> USE DEF Fresh, Guarded
<1> SUFFICES ASSUME TokenTypeOK, [TokenNext]_tokenVars, NEW a \in Accounts
             PROVE  Guarded(a) \/ UNCHANGED tokenVars
  OBVIOUS
<1>1. balanceOf[a] \in Nat
  BY TokenAssumption DEF TokenTypeOK, Uint
<1>2. ASSUME NEW to \in Accounts, NEW amount \in Uint, Mint(to, amount)
      PROVE  Guarded(a)
  <2>1. authorizationState' = authorizationState  BY <1>2 DEF Mint
  <2>2. balanceOf'[a] >= balanceOf[a]
    BY <1>1, <1>2, TokenAssumption DEF Mint, TokenTypeOK, Uint
  <2>3. ~(balanceOf'[a] < balanceOf[a])
    <3>1. balanceOf'[a] \in Int
      BY <1>1, <1>2, TokenAssumption DEF Mint, TokenTypeOK, Uint
    <3>2. QED  BY <2>2, <1>1, <3>1
  <2>4. QED  BY <2>1, <2>3
<1>3. ASSUME NEW auth \in Authorization, NEW signer \in Accounts \cup {NoSigner},
             TransferWithAuthorization(auth, signer)
      PROVE  Guarded(a)
  <2>1. TokenTypeOK'  BY <1>3, TransferType
  <2>2. /\ auth.from \in Accounts /\ auth.nonce \in Nonces
        /\ ~authorizationState[auth.from][auth.nonce]
        /\ \A b \in Accounts, n \in Nonces :
              authorizationState'[b][n] <=>
                 authorizationState[b][n] \/ (b = auth.from /\ n = auth.nonce)
        /\ \A b \in Accounts : b # auth.from => balanceOf'[b] >= balanceOf[b]
    BY <1>3, TransferUsesNonce
  <2>3. CASE a = auth.from
    <3>1. Fresh(a) = {auth.nonce}  BY <2>2, <2>3
    <3>2. QED  BY <2>2, <3>1
  <2>4. CASE a # auth.from
    <3>1. balanceOf'[a] >= balanceOf[a] /\ balanceOf'[a] \in Nat
      BY <2>1, <2>2, <2>4, TokenAssumption DEF TokenTypeOK, Uint
    <3>2. ~(balanceOf'[a] < balanceOf[a])  BY <1>1, <3>1
    <3>3. QED  BY <2>2, <3>2
  <2>5. QED  BY <2>3, <2>4
<1>4. ASSUME Tick PROVE Guarded(a)
  BY <1>1, <1>4 DEF Tick
<1>5. QED  BY <1>2, <1>3, <1>4 DEF TokenNext

\* Single use and no debit without one, in every step of the token.
THEOREM NonceGuards == TokenSpec => NonceGuardsDebit
<1>1. TokenTypeOK /\ [TokenNext]_tokenVars => [\A a \in Accounts : Guarded(a)]_tokenVars
  BY TokenStepGuarded
<1>2. QED
  BY <1>1, TokenTypeCorrect, PTL DEF TokenSpec, NonceGuardsDebit, Guarded, Fresh

-----------------------------------------------------------------------------
(* Sums over a finite set.                                                 *)

\* The recursion behind SumFunctionOnSet: the element it takes from s next, what
\* s adds to the sums of smaller sets, and the function that has all the sums.
NextOf(s) == CHOOSE x \in s : TRUE
Adds(f, g, s) == IF s = {} THEN 0 ELSE f[NextOf(s)] + g[s \ {NextOf(s)}]
Sums(f, S) == CHOOSE g : g = [s \in SUBSET S |-> Adds(f, g, s)]

LEMMA SumIsRecursive == ASSUME NEW f, NEW S PROVE SumFunctionOnSet(f, S) = Sums(f, S)[S]
BY DEF SumFunctionOnSet, FoldFunctionOnSet, MapThenFoldSet, Sums, Adds, NextOf

\* A set of natural numbers that is not empty has a least one.
LEMMA LeastOf ==
    ASSUME NEW T \in SUBSET Nat, T # {}
    PROVE  \E n \in T : \A m \in T : n <= m
<1>1. \E i \in T : \A j \in T : <<j, i>> \notin OpToRel(<, Nat)
  BY NatLessThanWellFounded, WFMin
<1>. DEFINE Below == {ss \in Nat \X Nat : ss[1] < ss[2]}
<1>2. OpToRel(<, Nat) = Below
  BY DEF OpToRel
<1>3. PICK i \in T : \A j \in T : <<j, i>> \notin Below
  BY <1>1, <1>2, Zenon
<1>4. ASSUME NEW j \in T PROVE i <= j
  <2>1. i \in Nat /\ j \in Nat  OBVIOUS
  <2>2. ~(j < i)
    BY <1>3, <2>1
  <2>3. QED  BY <2>1, <2>2
<1>5. QED  BY <1>4

\* Induction on the size of the subsets of a finite set, for the set of those
\* that have a property.
LEMMA BySize ==
    ASSUME NEW S, IsFiniteSet(S), NEW T,
           \A s \in SUBSET S : s = {} \/ s \ {NextOf(s)} \in T => s \in T
    PROVE  \A s \in SUBSET S : s \in T
<1> DEFINE Sizes == {n \in Nat : \E s \in SUBSET S : s \notin T /\ Cardinality(s) = n}
<1>1. SUFFICES ASSUME Sizes # {} PROVE FALSE
  <2>1. \A s \in SUBSET S : Cardinality(s) \in Nat
    BY FS_Subset, FS_CardinalityType
  <2>2. QED  BY <2>1
<1>2. PICK n \in Sizes : \A m \in Sizes : n <= m
  BY <1>1, LeastOf
<1>3. PICK s \in SUBSET S : s \notin T /\ Cardinality(s) = n
  BY <1>2
<1>4. s # {} /\ s \ {NextOf(s)} \notin T /\ s \ {NextOf(s)} \in SUBSET S
  BY <1>3
<1>5. NextOf(s) \in s
  BY <1>4 DEF NextOf
<1>6. Cardinality(s \ {NextOf(s)}) = n - 1 /\ n \in Nat
  BY <1>2, <1>3, <1>5, FS_Subset, FS_RemoveElement
<1>7. Cardinality(s \ {NextOf(s)}) \in Nat
  BY <1>4, FS_Subset, FS_CardinalityType
<1>8. n - 1 \in Sizes
  BY <1>4, <1>6, <1>7
<1>9. QED  BY <1>2, <1>6, <1>8

\* The sums of all subsets of a finite set exist, so the recursion defines them.
\* The subsets of at most n elements have theirs for every n: one size more needs
\* only the sums of one size less.
LEMMA SumsDefined ==
    ASSUME NEW f, NEW S, IsFiniteSet(S)
    PROVE  \A s \in SUBSET S : Sums(f, S)[s] = Adds(f, Sums(f, S), s)
<1> DEFINE Small(n) == {s \in SUBSET S : Cardinality(s) <= n}
           Have == {n \in Nat : \E g : g = [s \in Small(n) |-> Adds(f, g, s)]}
<1>1. \A s \in SUBSET S : Cardinality(s) \in Nat /\ (s # {} =>
         /\ s \ {NextOf(s)} \in SUBSET S
         /\ Cardinality(s \ {NextOf(s)}) = Cardinality(s) - 1)
  BY FS_Subset, FS_CardinalityType, FS_RemoveElement DEF NextOf
<1>2. 0 \in Have
  <2> DEFINE g == [s \in Small(0) |-> 0]
  <2>1. \A s \in Small(0) : s = {}
    <3>1. SUFFICES ASSUME NEW s \in SUBSET S, Cardinality(s) <= 0, s # {} PROVE FALSE
      OBVIOUS
    <3>2. Cardinality(s \ {NextOf(s)}) \in Nat
      BY <1>1, <3>1
    <3>3. QED  BY <1>1, <3>1, <3>2
  <2>2. g = [s \in Small(0) |-> Adds(f, g, s)]
    BY <2>1 DEF Adds
  <2>3. QED  BY <2>2
<1>3. ASSUME NEW n \in Have PROVE n + 1 \in Have
  <2>1. PICK g : g = [s \in Small(n) |-> Adds(f, g, s)]
    BY <1>3
  <2> DEFINE h == [s \in Small(n + 1) |-> IF s \in Small(n) THEN g[s] ELSE Adds(f, g, s)]
  <2>2. \A s \in Small(n + 1) : s # {} => s \ {NextOf(s)} \in Small(n)
    BY <1>1
  <2>3. Small(n) \subseteq Small(n + 1)
    <3>1. n \in Nat
      BY <1>3
    <3>2. ASSUME NEW s \in SUBSET S, Cardinality(s) <= n PROVE Cardinality(s) <= n + 1
      <4>1. Cardinality(s) \in Nat
        BY <1>1
      <4>2. QED  BY <3>1, <3>2, <4>1
    <3>3. QED  BY <3>2
  <2>4. ASSUME NEW s \in Small(n + 1) PROVE h[s] = Adds(f, h, s)
    <3>1. h[s] = Adds(f, g, s)
      BY <2>1
    <3>2. s # {} => h[s \ {NextOf(s)}] = g[s \ {NextOf(s)}]
      BY <2>2, <2>3
    <3> HIDE DEF h
    <3>3. QED  BY <3>1, <3>2 DEF Adds
  <2>5. h = [s \in Small(n + 1) |-> Adds(f, h, s)]
    BY <2>4
  <2> HIDE DEF h
  <2>6. QED  BY <2>5
<1>4. Nat \subseteq Have
  <2> DEFINE Lack == Nat \ Have
  <2>1. SUFFICES ASSUME Lack # {} PROVE FALSE  OBVIOUS
  <2> HIDE DEF Have
  <2>2. PICK n \in Lack : \A m \in Lack : n <= m
    BY <2>1, LeastOf
  <2>3. n # 0 /\ n - 1 \in Nat /\ n - 1 \in Have
    BY <1>2, <2>2
  <2>4. (n - 1) + 1 \in Have
    BY <1>3, <2>3
  <2>5. QED  BY <2>2, <2>4
<1>5. Small(Cardinality(S)) = SUBSET S /\ Cardinality(S) \in Have
  BY <1>4, FS_Subset, FS_CardinalityType
<1>6. \E g : g = [s \in SUBSET S |-> Adds(f, g, s)]
  BY <1>5
<1> DEFINE all == Sums(f, S)
<1>7. all = [s \in SUBSET S |-> Adds(f, all, s)]
  BY <1>6 DEF Sums
<1> HIDE DEF all
<1>8. \A s \in SUBSET S : all[s] = Adds(f, all, s)
  BY <1>7
<1>9. QED  BY <1>8 DEF all

\* One value changed by d changes the sum by d.
LEMMA SumChanges ==
    ASSUME NEW S, IsFiniteSet(S), NEW f \in [S -> Int], NEW a \in S, NEW d \in Int
    PROVE  /\ SumFunctionOnSet(f, S) \in Int
           /\ SumFunctionOnSet([f EXCEPT ![a] = @ + d], S) = SumFunctionOnSet(f, S) + d
<1> DEFINE g == [f EXCEPT ![a] = @ + d]
           T == {s \in SUBSET S :
                   /\ Sums(f, S)[s] \in Int
                   /\ Sums(g, S)[s] = Sums(f, S)[s] + IF a \in s THEN d ELSE 0}
<1>1. ASSUME NEW s \in SUBSET S, s = {} \/ s \ {NextOf(s)} \in T PROVE s \in T
  <2>1. /\ Sums(f, S)[s] = Adds(f, Sums(f, S), s)
        /\ Sums(g, S)[s] = Adds(g, Sums(g, S), s)
    BY SumsDefined
  <2>2. CASE s = {}
    BY <2>1, <2>2 DEF Adds
  <2>3. CASE s # {}
    <3>1. NextOf(s) \in s /\ NextOf(s) \in S
      BY <2>3 DEF NextOf
    <3>2. g[NextOf(s)] = f[NextOf(s)] + IF a = NextOf(s) THEN d ELSE 0
      BY <3>1
    <3>3. s \ {NextOf(s)} \in T
      BY <1>1, <2>3
    <3> HIDE DEF g
    <3>4. /\ Sums(f, S)[s] = f[NextOf(s)] + Sums(f, S)[s \ {NextOf(s)}]
          /\ Sums(g, S)[s] = g[NextOf(s)] + Sums(g, S)[s \ {NextOf(s)}]
      BY <2>1, <2>3 DEF Adds
    <3>5. f[NextOf(s)] \in Int
      BY <3>1
    <3>6. QED  BY <3>1, <3>2, <3>3, <3>4, <3>5
  <2>4. QED  BY <2>2, <2>3
<1>2. \A s \in SUBSET S : s \in T
  <2> HIDE DEF T
  <2>1. QED  BY <1>1, BySize
<1>3. S \in T
  BY <1>2
<1>4. QED  BY <1>3, SumIsRecursive

\* A sum of natural numbers is one, and no smaller than any of them.
LEMMA SumOfNaturals ==
    ASSUME NEW S, IsFiniteSet(S), NEW f \in [S -> Nat]
    PROVE  /\ SumFunctionOnSet(f, S) \in Nat
           /\ \A a \in S : f[a] <= SumFunctionOnSet(f, S)
           /\ (\A a \in S : f[a] = 0) => SumFunctionOnSet(f, S) = 0
<1> DEFINE T == {s \in SUBSET S :
                   /\ Sums(f, S)[s] \in Nat
                   /\ \A a \in s : f[a] <= Sums(f, S)[s]
                   /\ (\A a \in S : f[a] = 0) => Sums(f, S)[s] = 0}
<1>1. ASSUME NEW s \in SUBSET S, s = {} \/ s \ {NextOf(s)} \in T PROVE s \in T
  <2>1. Sums(f, S)[s] = Adds(f, Sums(f, S), s)
    BY SumsDefined
  <2>2. CASE s = {}
    BY <2>1, <2>2 DEF Adds
  <2>3. CASE s # {}
    <3>1. NextOf(s) \in s /\ NextOf(s) \in S /\ f[NextOf(s)] \in Nat
      BY <2>3 DEF NextOf
    <3>2. Sums(f, S)[s] = f[NextOf(s)] + Sums(f, S)[s \ {NextOf(s)}]
      BY <2>1, <2>3 DEF Adds
    <3>3. s \ {NextOf(s)} \in T
      BY <1>1, <2>3
    <3>4. \A a \in s : f[a] \in Nat /\ (a = NextOf(s) \/ a \in s \ {NextOf(s)})
      OBVIOUS
    <3>5. ASSUME NEW a \in s PROVE f[a] <= Sums(f, S)[s]
      <4>1. CASE a = NextOf(s)
        BY <3>1, <3>2, <3>3, <4>1
      <4>2. CASE a \in s \ {NextOf(s)}
        <5>1. /\ f[a] <= Sums(f, S)[s \ {NextOf(s)}]
              /\ Sums(f, S)[s \ {NextOf(s)}] \in Nat
          BY <3>3, <4>2
        <5>2. QED  BY <3>1, <3>2, <3>4, <5>1
      <4>3. QED  BY <4>1, <4>2
    <3>6. Sums(f, S)[s] \in Nat
      BY <3>1, <3>2, <3>3
    <3>7. (\A a \in S : f[a] = 0) => Sums(f, S)[s] = 0
      BY <3>1, <3>2, <3>3
    <3>8. QED  BY <3>5, <3>6, <3>7
  <2>4. QED  BY <2>2, <2>3
<1>2. \A s \in SUBSET S : s \in T
  <2> HIDE DEF T
  <2>1. QED  BY <1>1, BySize
<1>3. S \in T
  BY <1>2
<1>4. QED  BY <1>3, SumIsRecursive

-----------------------------------------------------------------------------
(* The supply.                                                             *)

LEMMA SupplyIsSum ==
    TokenTypeOK => (SupplyIsHeld <=> totalSupply = SumFunctionOnSet(balanceOf, Accounts))
BY DEF TokenTypeOK, SupplyIsHeld, SumFunction

LEMMA BalancesAreNumbers ==
    TokenTypeOK => balanceOf \in [Accounts -> Nat] /\ balanceOf \in [Accounts -> Int]
BY TokenAssumption DEF TokenTypeOK, Uint

LEMMA MintKeepsSupply ==
    ASSUME TokenTypeOK, SupplyIsHeld, NEW to \in Accounts, NEW amount \in Uint,
           Mint(to, amount)
    PROVE  SupplyIsHeld'
<1>1. amount \in Int
  BY TokenAssumption DEF Uint
<1>2. SumFunctionOnSet(balanceOf', Accounts) = SumFunctionOnSet(balanceOf, Accounts) + amount
  BY <1>1, BalancesAreNumbers, SumChanges, TokenAssumption DEF Mint
<1>3. DOMAIN balanceOf' = Accounts
  BY DEF Mint, TokenTypeOK
<1>4. QED  BY <1>2, <1>3, SupplyIsSum DEF Mint, SupplyIsHeld, SumFunction

\* The debit takes from the sum what the credit adds to it, also to one account.
LEMMA TransferKeepsSupply ==
    ASSUME TokenTypeOK, SupplyIsHeld, NEW auth \in Authorization, NEW signer,
           TransferWithAuthorization(auth, signer)
    PROVE  SupplyIsHeld'
<1> DEFINE debited == [balanceOf EXCEPT ![auth.from] = @ + (-auth.value)]
<1>1. auth.from \in Accounts /\ auth.to \in Accounts /\ auth.value \in Int /\ -auth.value \in Int
  BY TokenAssumption DEF Authorization, Uint
<1>2. balanceOf \in [Accounts -> Int] /\ IsFiniteSet(Accounts)
  BY BalancesAreNumbers, TokenAssumption
<1>3. balanceOf[auth.from] + (-auth.value) = balanceOf[auth.from] - auth.value
  BY <1>1, <1>2
<1>4. debited \in [Accounts -> Int]
  BY <1>1, <1>2
<1>5. balanceOf' = [debited EXCEPT ![auth.to] = @ + auth.value]
  BY <1>3 DEF TransferWithAuthorization, Moved
<1>6. /\ SumFunctionOnSet(debited, Accounts)
            = SumFunctionOnSet(balanceOf, Accounts) + (-auth.value)
      /\ SumFunctionOnSet(balanceOf, Accounts) \in Int
  BY <1>1, <1>2, SumChanges
<1> HIDE DEF debited
<1>7. SumFunctionOnSet(balanceOf', Accounts) = SumFunctionOnSet(debited, Accounts) + auth.value
  BY <1>1, <1>2, <1>4, <1>5, SumChanges
<1>8. DOMAIN balanceOf' = Accounts
  BY <1>4, <1>5
<1>9. SumFunctionOnSet(balanceOf', Accounts) = SumFunctionOnSet(balanceOf, Accounts)
  BY <1>1, <1>6, <1>7
<1>10. QED
  BY <1>8, <1>9, SupplyIsSum DEF TransferWithAuthorization, SupplyIsHeld, SumFunction

LEMMA TokenStepKeepsSupply ==
    TokenTypeOK /\ SupplyIsHeld /\ [TokenNext]_tokenVars => SupplyIsHeld'
<1> SUFFICES ASSUME TokenTypeOK, SupplyIsHeld, [TokenNext]_tokenVars PROVE SupplyIsHeld'
  OBVIOUS
<1>1. CASE \E to \in Accounts, amount \in Uint : Mint(to, amount)
  BY <1>1, MintKeepsSupply
<1>2. CASE \E auth \in Authorization, signer \in Accounts \cup {NoSigner} :
              TransferWithAuthorization(auth, signer)
  BY <1>2, TransferKeepsSupply
<1>3. CASE UNCHANGED <<balanceOf, totalSupply>>
  BY <1>3 DEF SupplyIsHeld
<1>4. QED  BY <1>1, <1>2, <1>3 DEF TokenNext, Tick, tokenVars

\* The accounts of the token hold its supply, through any mints and transfers
\* (SupplyIsHeld).
THEOREM SupplyHeld == TokenSpec => []SupplyIsHeld
<1>1. TokenInit => SupplyIsHeld
  <2> SUFFICES ASSUME TokenInit PROVE SupplyIsHeld  OBVIOUS
  <2>1. balanceOf \in [Accounts -> Nat] /\ \A a \in Accounts : balanceOf[a] = 0
    BY DEF TokenInit
  <2>2. SumFunctionOnSet(balanceOf, Accounts) = 0
    BY <2>1, SumOfNaturals, TokenAssumption
  <2>3. QED  BY <2>1, <2>2 DEF TokenInit, SupplyIsHeld, SumFunction
<1>2. QED  BY <1>1, TokenTypeCorrect, TokenStepKeepsSupply, PTL DEF TokenSpec

\* What two accounts hold is no more than the supply, which fits into a uint256.
LEMMA TwoBalances ==
    ASSUME TokenTypeOK, SupplyIsHeld, NEW a \in Accounts, NEW b \in Accounts, a # b
    PROVE  balanceOf[a] + balanceOf[b] <= MaxUint
<1>1. /\ balanceOf \in [Accounts -> Nat] /\ balanceOf \in [Accounts -> Int]
      /\ IsFiniteSet(Accounts) /\ -balanceOf[a] \in Int
  BY BalancesAreNumbers, TokenAssumption
<1> DEFINE emptied == [balanceOf EXCEPT ![a] = @ + (-balanceOf[a])]
<1>2. emptied \in [Accounts -> Nat] /\ emptied[b] = balanceOf[b]
  <2>1. balanceOf[a] + (-balanceOf[a]) = 0
    BY <1>1
  <2>2. QED  BY <1>1, <2>1
<1>3. /\ SumFunctionOnSet(emptied, Accounts)
            = SumFunctionOnSet(balanceOf, Accounts) + (-balanceOf[a])
      /\ SumFunctionOnSet(balanceOf, Accounts) \in Int
  BY <1>1, SumChanges
<1> HIDE DEF emptied
<1>4. balanceOf[b] <= SumFunctionOnSet(emptied, Accounts)
  BY <1>1, <1>2, SumOfNaturals
<1>5. totalSupply = SumFunctionOnSet(balanceOf, Accounts) /\ totalSupply <= MaxUint
  BY SupplyIsSum, TokenAssumption DEF TokenTypeOK, Uint
<1>6. QED  BY <1>1, <1>3, <1>4, <1>5, TokenAssumption

\* The checked addition of _finalize never reverts a transfer: one fails for its
\* window, its nonce, its signer or its payer's balance, and for nothing else.
THEOREM CreditNeverOverflows ==
    TokenSpec => [](\A auth \in Authorization, signer \in Accounts \cup {NoSigner} :
                       CanTransfer(auth, signer) <=>
                          /\ Authorized(auth) /\ signer = auth.from
                          /\ balanceOf[auth.from] >= auth.value)
<1> DEFINE NoOverflow ==
       \A auth \in Authorization, signer \in Accounts \cup {NoSigner} :
          CanTransfer(auth, signer) <=>
             /\ Authorized(auth) /\ signer = auth.from
             /\ balanceOf[auth.from] >= auth.value
<1>1. TokenTypeOK /\ SupplyIsHeld => NoOverflow
  <2> SUFFICES ASSUME TokenTypeOK, SupplyIsHeld, NEW auth \in Authorization,
                      balanceOf[auth.from] >= auth.value
               PROVE  Moved(auth)[auth.to] <= MaxUint
    BY DEF CanTransfer
  <2>1. /\ auth.from \in Accounts /\ auth.to \in Accounts /\ auth.value \in Nat
        /\ balanceOf \in [Accounts -> Nat] /\ MaxUint \in Nat
        /\ balanceOf[auth.from] <= MaxUint
    BY BalancesAreNumbers, TokenAssumption DEF Authorization, TokenTypeOK, Uint
  <2>2. CASE auth.from = auth.to
    <3>1. Moved(auth)[auth.to] = (balanceOf[auth.from] - auth.value) + auth.value
      BY <2>1, <2>2 DEF Moved
    <3>2. QED  BY <2>1, <3>1
  <2>3. CASE auth.from # auth.to
    <3>1. Moved(auth)[auth.to] = balanceOf[auth.to] + auth.value
      BY <2>3, MovedBalances
    <3>2. balanceOf[auth.from] + balanceOf[auth.to] <= MaxUint
      BY <2>1, <2>3, TwoBalances
    <3>3. balanceOf[auth.from] \in Nat /\ balanceOf[auth.to] \in Nat
      BY <2>1
    <3>4. QED  BY <2>1, <3>1, <3>2, <3>3
  <2>4. QED  BY <2>2, <2>3
<1> HIDE DEF NoOverflow
<1>2. TokenSpec => []NoOverflow
  BY <1>1, TokenTypeCorrect, SupplyHeld, PTL
<1>3. QED  BY <1>2 DEF NoOverflow

-----------------------------------------------------------------------------
(* The server.                                                             *)

\* A receipt is of an earlier account nonce, and one that succeeded has used
\* its authorization's nonce up.
ReceiptsArePast ==
    \A m \in mined :
        /\ m.tx.seq < accountNonce
        /\ m.ok => authorizationState[m.tx.auth.from][m.tx.auth.nonce]

\* The node holds at most one transaction, and it is the account's next one.
PoolIsNext ==
    /\ \A p \in pool : p.seq = accountNonce
    /\ \A p, q \in pool : p = q

\* What the handler is settling has been verified, and no answer names the
\* transaction it waits for.
HandlerIsSettling ==
    /\ phase # "idle" => current.auth.to = PayTo /\ current.auth.value = Amount
    /\ phase = "awaiting" =>
          /\ sent.auth = current.auth
          /\ \A a \in answers : a.outcome = "settled" => a.tx # sent

\* The strengthening of the three safety invariants that every step preserves.
FacInv ==
    /\ FacTypeOK
    /\ ReceiptsArePast
    /\ PoolIsNext
    /\ HandlerIsSettling
    /\ NoDoubleSettle
    /\ ServedIsPaid
    /\ OneResponsePerSettlement

-----------------------------------------------------------------------------
\* Every result verify() can have is a reason an answer can carry.
LEMMA VerifyResultsType == \A req : VerifyResults(req) \subseteq Reasons
BY DEF VerifyResults, OffchainError, ChainResults, SimulateResults, Reasons

\* A request verify() accepts pays the merchant the required amount.
LEMMA VerifiedIsExact ==
    \A req : "none" \in VerifyResults(req) => req.auth.to = PayTo /\ req.auth.value = Amount
BY DEF VerifyResults, OffchainError

\* The invariant holds of the freshly deployed token and the idle server.
LEMMA FacInitInv == FacInit => FacInv
<1> SUFFICES ASSUME FacInit PROVE FacInv  OBVIOUS
<1>1. TokenTypeOK
  BY TokenAssumption, FacilitatorAssumption DEF FacInit, TokenTypeOK, Uint
<1>2. FacTypeOK
  BY <1>1 DEF FacInit, FacTypeOK
<1>3. QED
  BY <1>2 DEF FacInit, FacInv, ReceiptsArePast, PoolIsNext, HandlerIsSettling,
              NoDoubleSettle, ServedIsPaid, OneResponsePerSettlement

\* A settlement may be reported when it is in a block, is exact, and has not
\* been reported before.
Reportable(req, outcome, tx) ==
    outcome = "settled" =>
        /\ [tx |-> tx, ok |-> TRUE] \in mined
        /\ tx.auth = req.auth /\ req.auth.to = PayTo /\ req.auth.value = Amount
        /\ \A a \in answers : a.outcome = "settled" => a.tx # tx

\* Writing a reportable response keeps the invariant.
LEMMA RespondKeeps ==
    ASSUME FacInv, NEW req \in Request, NEW status \in {200, 400, 402, 404},
           NEW outcome \in Outcomes, NEW reason \in Reasons, NEW tx \in Tx \cup {NoTx},
           Respond(req, status, outcome, reason, tx),
           backlog' \subseteq backlog, pool' \subseteq Tx, PoolIsNext',
           UNCHANGED <<tokenVars, mined, accountNonce>>,
           Reportable(req, outcome, tx)
    PROVE  FacInv'
<1> DEFINE new == [conn |-> req.conn, route |-> req.route, auth |-> req.auth,
                   status |-> status, outcome |-> outcome, reason |-> reason, tx |-> tx]
<1>1. /\ answers' = answers \cup {new} /\ phase' = "idle"
      /\ reading' = {} /\ UNCHANGED <<unread, dropped>>
  BY DEF Respond
<1>2. new \in Answer
  BY DEF Answer, Request
<1>3. FacTypeOK'
  BY <1>1, <1>2 DEF FacInv, FacTypeOK, TokenTypeOK, tokenVars
<1>4. ReceiptsArePast'
  BY DEF FacInv, ReceiptsArePast, tokenVars
<1>5. HandlerIsSettling'
  BY <1>1 DEF HandlerIsSettling
<1>6. NoDoubleSettle'
  BY DEF FacInv, NoDoubleSettle
<1>7. ServedIsPaid'
  <2> SUFFICES ASSUME NEW a \in answers', a.outcome = "settled"
               PROVE  /\ [tx |-> a.tx, ok |-> TRUE] \in mined
                      /\ a.tx.auth = a.auth
                      /\ a.auth.to = PayTo /\ a.auth.value = Amount
    BY DEF ServedIsPaid
  <2>1. CASE a \in answers
    BY <2>1 DEF FacInv, ServedIsPaid
  <2>2. CASE a = new
    <3>1. a.outcome = outcome /\ a.tx = tx /\ a.auth = req.auth
      BY <2>2
    <3>2. QED  BY <3>1 DEF Reportable
  <2>3. QED  BY <1>1, <2>1, <2>2
<1>8. OneResponsePerSettlement'
  BY <1>1 DEF FacInv, OneResponsePerSettlement, Reportable
<1>9. QED
  BY <1>3, <1>4, <1>5, <1>6, <1>7, <1>8 DEF FacInv

\* An answer that reports no settlement keeps the invariant.
LEMMA RespondOtherKeeps ==
    ASSUME FacInv, NEW req \in Request, NEW status \in {200, 400, 402, 404},
           NEW outcome \in Outcomes \ {"settled"}, NEW reason \in Reasons,
           Respond(req, status, outcome, reason, NoTx),
           backlog' \subseteq backlog, pool' \subseteq Tx, PoolIsNext',
           UNCHANGED <<tokenVars, mined, accountNonce>>
    PROVE  FacInv'
<1>1. outcome \in Outcomes /\ NoTx \in Tx \cup {NoTx}
  OBVIOUS
<1>2. Reportable(req, outcome, NoTx)
  BY DEF Reportable
<1>3. QED
  BY <1>1, <1>2, RespondKeeps

\* A failed settlement is reported with an empty transaction.
LEMMA RespondFailureKeeps ==
    ASSUME FacInv, NEW req \in Request, NEW reason \in Reasons,
           RespondSettle(req, "failed", reason, NoTx),
           backlog' \subseteq backlog, pool' \subseteq Tx, PoolIsNext',
           UNCHANGED <<tokenVars, mined, accountNonce>>
    PROVE  FacInv'
<1>1. PICK status \in {200, 402} : Respond(req, status, "failed", reason, NoTx)
  BY DEF RespondSettle
<1>2. QED
  BY <1>1, RespondOtherKeeps DEF Outcomes

-----------------------------------------------------------------------------
\* The clients move their requests and nothing else,
LEMMA ClientsLeaveAlone ==
    Clients => UNCHANGED <<tokenVars, nodeVars, phase, current, sent, answers>>
BY DEF Clients, Arrive, ArrivePartly, Queue, SendRest, HangUp

\* of which the server queues only those it is sent.
LEMMA ClientsQueue ==
    ASSUME Clients
    PROVE  backlog' \subseteq backlog \cup Requests
<1>1. ASSUME NEW req \in Requests, Arrive(req) \/ ArrivePartly(req)
      PROVE  backlog' \subseteq backlog \cup Requests
  BY <1>1 DEF Arrive, ArrivePartly, Queue
<1>2. ASSUME NEW req \in unread, SendRest(req) \/ HangUp(req)
      PROVE  backlog' \subseteq backlog \cup Requests
  BY <1>2 DEF SendRest, HangUp
<1>3. QED  BY <1>1, <1>2, FacilitatorAssumption DEF Clients

LEMMA ClientsType == FacTypeOK /\ Clients => FacTypeOK'
<1> SUFFICES ASSUME FacTypeOK, Clients PROVE FacTypeOK'  OBVIOUS
<1>1. backlog' \subseteq Request
  BY ClientsQueue, FacilitatorAssumption DEF FacTypeOK
<1>2. /\ unread' \subseteq Request /\ reading' \subseteq Request
      /\ dropped' \subseteq Conns
  <2>1. ASSUME NEW req \in Requests, Arrive(req) \/ ArrivePartly(req)
        PROVE  /\ unread' \subseteq Request /\ reading' \subseteq Request
               /\ dropped' \subseteq Conns
    BY <2>1, FacilitatorAssumption DEF Arrive, ArrivePartly, Queue, FacTypeOK
  <2>2. ASSUME NEW req \in unread, SendRest(req) \/ HangUp(req)
        PROVE  /\ unread' \subseteq Request /\ reading' \subseteq Request
               /\ dropped' \subseteq Conns
    BY <2>2 DEF SendRest, HangUp, FacTypeOK, Request
  <2>3. QED  BY <2>1, <2>2, FacilitatorAssumption DEF Clients
<1>3. QED
  BY <1>1, <1>2, ClientsLeaveAlone DEF FacTypeOK, TokenTypeOK, tokenVars, nodeVars

\* Reading, and closing a connection unanswered, settle and answer nothing.
LEMMA UnansweredKeeps ==
    ASSUME FacInv, NEW req \in backlog, Wait(req) \/ HandleUnreadable(req)
    PROVE  FacInv'
<1>1. /\ UNCHANGED <<tokenVars, nodeVars, phase, current, sent, answers, unread>>
      /\ backlog' \subseteq backlog /\ reading' \subseteq {req}
      /\ dropped' \subseteq dropped \cup {req.conn}
  BY DEF Wait, HandleUnreadable
<1>2. req \in Request /\ req.conn \in Conns
  BY DEF FacInv, FacTypeOK, Request
<1>3. FacTypeOK'
  BY <1>1, <1>2 DEF FacInv, FacTypeOK, TokenTypeOK, tokenVars, nodeVars
<1>4. QED
  BY <1>1, <1>3 DEF FacInv, ReceiptsArePast, PoolIsNext, HandlerIsSettling,
        NoDoubleSettle, ServedIsPaid, OneResponsePerSettlement, tokenVars, nodeVars

\* One step per action of the server and of the node.
LEMMA FacNextInv == FacInv /\ [FacNext]_facVars => FacInv'
<1> SUFFICES ASSUME FacInv, [FacNext]_facVars PROVE FacInv'
  OBVIOUS
<1>0. UNCHANGED nodeVars => pool' \subseteq Tx /\ PoolIsNext'
  BY DEF nodeVars, PoolIsNext, FacInv, FacTypeOK
<1>1. ASSUME Clients PROVE FacInv'
  <2>1. FacTypeOK'
    BY <1>1, ClientsType DEF FacInv
  <2>2. UNCHANGED <<tokenVars, nodeVars, phase, current, sent, answers>>
    BY <1>1, ClientsLeaveAlone
  <2>3. QED
    BY <2>1, <2>2 DEF FacInv, ReceiptsArePast, PoolIsNext, HandlerIsSettling,
          NoDoubleSettle, ServedIsPaid, OneResponsePerSettlement, tokenVars, nodeVars
<1>2. ASSUME NEW req \in backlog, HandleStatic(req) PROVE FacInv'
  <2>1. req \in Request /\ req.route \in StaticRoutes
    BY <1>2 DEF HandleStatic, FacInv, FacTypeOK
  <2>2. PICK reason \in Reasons :
           Respond(req, StaticStatus[req.route], StaticOutcome[req.route], reason, NoTx)
    BY <1>2 DEF HandleStatic, Reasons
  <2>3. PICK status \in {200, 400, 402, 404}, outcome \in Outcomes \ {"settled"} :
           Respond(req, status, outcome, reason, NoTx)
    BY <2>1, <2>2 DEF StaticStatus, StaticOutcome, StaticRoutes, Outcomes
  <2>4. /\ pool' \subseteq Tx /\ PoolIsNext' /\ backlog' \subseteq backlog
        /\ UNCHANGED <<tokenVars, mined, accountNonce>>
    BY <1>0, <1>2 DEF HandleStatic, nodeVars
  <2>5. QED
    BY <2>1, <2>3, <2>4, RespondOtherKeeps
<1>3. ASSUME NEW req \in backlog, HandleVerify(req) PROVE FacInv'
  <2>1. req \in Request
    BY DEF FacInv, FacTypeOK
  <2>2. PICK reason \in VerifyResults(req) :
           Respond(req, 200, IF reason = "none" THEN "valid" ELSE "invalid", reason, NoTx)
    BY <1>3 DEF HandleVerify
  <2>3. PICK outcome \in Outcomes \ {"settled"} : Respond(req, 200, outcome, reason, NoTx)
    BY <2>2 DEF Outcomes
  <2>4. reason \in Reasons
    BY VerifyResultsType
  <2>5. /\ pool' \subseteq Tx /\ PoolIsNext' /\ backlog' \subseteq backlog
        /\ UNCHANGED <<tokenVars, mined, accountNonce>>
    BY <1>0, <1>3 DEF HandleVerify, nodeVars
  <2>6. QED
    BY <2>1, <2>3, <2>4, <2>5, RespondOtherKeeps
<1>4. ASSUME NEW req \in backlog, RefuseSettle(req) PROVE FacInv'
  <2>1. req \in Request
    BY DEF FacInv, FacTypeOK
  <2>2. PICK reason \in Reasons : RespondSettle(req, "failed", reason, NoTx)
    BY <1>4, VerifyResultsType DEF RefuseSettle
  <2>3. QED
    BY <1>0, <1>4, <2>1, <2>2, RespondFailureKeeps DEF RefuseSettle, nodeVars
<1>5. ASSUME NEW req \in backlog, BeginSettle(req) PROVE FacInv'
  <2>1. req.auth.to = PayTo /\ req.auth.value = Amount
    BY <1>5, VerifiedIsExact DEF BeginSettle
  <2>2. FacTypeOK'
    BY <1>5 DEF BeginSettle, FacInv, FacTypeOK, TokenTypeOK, tokenVars, nodeVars
  <2>3. HandlerIsSettling'
    BY <1>5, <2>1 DEF BeginSettle, HandlerIsSettling
  <2>4. QED
    BY <1>5, <2>2, <2>3 DEF BeginSettle, FacInv, ReceiptsArePast, PoolIsNext,
          NoDoubleSettle, ServedIsPaid, OneResponsePerSettlement, tokenVars, nodeVars
<1>6. ASSUME Broadcast PROVE FacInv'
  <2>1. NextTx \in Tx /\ NextTx.auth = current.auth /\ NextTx.seq = accountNonce
    BY <1>6 DEF Broadcast, NextTx, Tx, Request, FacInv, FacTypeOK
  <2>2. FacTypeOK'
    BY <1>6, <2>1 DEF Broadcast, PoolWithNext, FacInv, FacTypeOK, TokenTypeOK, tokenVars, wireVars
  <2>3. PoolIsNext'
    BY <1>6, <2>1 DEF Broadcast, PoolWithNext, NextTx, FacInv, PoolIsNext
  <2>4. HandlerIsSettling'
    <3>1. \A a \in answers : a.outcome = "settled" => a.tx # NextTx
      <4>1. ASSUME NEW a \in answers, a.outcome = "settled", a.tx = NextTx
            PROVE  FALSE
        <5>1. [tx |-> a.tx, ok |-> TRUE] \in mined
          BY <4>1 DEF FacInv, ServedIsPaid
        <5>2. a.tx.seq < accountNonce
          BY <5>1 DEF FacInv, ReceiptsArePast
        <5>3. QED
          BY <2>1, <4>1, <5>2 DEF FacInv, FacTypeOK
      <4>2. QED  BY <4>1
    <3>2. QED
      BY <1>6, <2>1, <3>1 DEF Broadcast, FacInv, HandlerIsSettling
  <2>5. QED
    BY <1>6, <2>2, <2>3, <2>4 DEF Broadcast, FacInv, ReceiptsArePast, NoDoubleSettle,
          ServedIsPaid, OneResponsePerSettlement, tokenVars
<1>7. ASSUME BroadcastFails PROVE FacInv'
  <2>1. current \in Request
    BY <1>7 DEF BroadcastFails, FacInv, FacTypeOK
  <2>2. NextTx \in Tx /\ NextTx.seq = accountNonce
    BY <1>7 DEF BroadcastFails, NextTx, Tx, Request, FacInv, FacTypeOK
  <2>3. pool' \subseteq Tx /\ PoolIsNext'
    <3>1. CASE UNCHANGED pool
      BY <1>7, <3>1 DEF BroadcastFails, FacInv, FacTypeOK, PoolIsNext
    <3>2. CASE pool' = PoolWithNext
      BY <1>7, <2>2, <3>2 DEF BroadcastFails, PoolWithNext, NextTx, FacInv, FacTypeOK, PoolIsNext
    <3>3. QED  BY <1>7, <3>1, <3>2 DEF BroadcastFails
  <2>4. QED
    BY <1>7, <2>1, <2>3, RespondFailureKeeps DEF BroadcastFails, Reasons
<1>8. ASSUME ReceiptFound PROVE FacInv'
  <2>1. current \in Request /\ sent \in Tx
    BY <1>8 DEF ReceiptFound, FacInv, FacTypeOK
  <2>2. PICK m \in mined :
           /\ m.tx = sent
           /\ IF m.ok THEN RespondSettle(current, "settled", "none", sent)
              ELSE RespondSettle(current, "failed", "invalid_transaction_state", NoTx)
    BY <1>8 DEF ReceiptFound
  <2>3. CASE m.ok
    <3>1. m = [tx |-> sent, ok |-> TRUE]
      BY <2>2, <2>3 DEF FacInv, FacTypeOK, Receipt
    <3>2. Respond(current, 200, "settled", "none", sent)
      BY <2>2, <2>3 DEF RespondSettle
    <3>3. Reportable(current, "settled", sent)
      BY <1>8, <2>2, <3>1 DEF Reportable, ReceiptFound, FacInv, HandlerIsSettling
    <3>4. "settled" \in Outcomes /\ "none" \in Reasons
      BY DEF Outcomes, Reasons
    <3>5. /\ pool' \subseteq Tx /\ PoolIsNext' /\ backlog' \subseteq backlog
          /\ UNCHANGED <<tokenVars, mined, accountNonce>>
      BY <1>0, <1>8 DEF ReceiptFound, nodeVars
    <3>6. QED
      BY <2>1, <3>2, <3>3, <3>4, <3>5, RespondKeeps
  <2>4. CASE ~m.ok
    BY <1>0, <1>8, <2>1, <2>2, <2>4, RespondFailureKeeps DEF ReceiptFound, nodeVars, Reasons
  <2>5. QED  BY <2>3, <2>4
<1>9. ASSUME ReceiptWaitFails PROVE FacInv'
  <2>1. current \in Request
    BY <1>9 DEF ReceiptWaitFails, FacInv, FacTypeOK
  <2>2. QED
    BY <1>0, <1>9, <2>1, RespondFailureKeeps DEF ReceiptWaitFails, nodeVars, Reasons
<1>10. ASSUME NEW tx \in pool, Mine(tx) PROVE FacInv'
  <2>1. /\ tx \in Tx /\ tx.auth \in Authorization
        /\ tx.seq = accountNonce /\ accountNonce \in Nat
        /\ accountNonce' = accountNonce + 1 /\ pool' = {}
    BY <1>10 DEF Mine, Tx, FacInv, FacTypeOK, PoolIsNext
  <2>2. CASE /\ TransferWithAuthorization(tx.auth, tx.signer)
             /\ mined' = mined \cup {[tx |-> tx, ok |-> TRUE]}
    <3>1. TokenTypeOK'
      BY <2>1, <2>2, TransferType DEF FacInv, FacTypeOK
    <3>2. /\ tx.auth.from \in Accounts /\ tx.auth.nonce \in Nonces
          /\ ~authorizationState[tx.auth.from][tx.auth.nonce]
          /\ \A a \in Accounts, n \in Nonces :
                authorizationState'[a][n] <=>
                   authorizationState[a][n] \/ (a = tx.auth.from /\ n = tx.auth.nonce)
      BY <2>1, <2>2, TransferUsesNonce DEF FacInv, FacTypeOK
    <3>3. FacTypeOK'
      <4>1. [tx |-> tx, ok |-> TRUE] \in Receipt  BY <2>1 DEF Receipt
      <4>2. mined' \subseteq Receipt  BY <2>2, <4>1 DEF FacInv, FacTypeOK
      <4>3. QED
        BY <1>10, <2>1, <3>1, <4>2 DEF Mine, handlerVars, wireVars, FacInv, FacTypeOK
    <3>4. ReceiptsArePast'
      <4>1. \A m \in mined : m.tx.seq \in Nat /\ m.tx.auth.from \in Accounts
                             /\ m.tx.auth.nonce \in Nonces
        BY DEF FacInv, FacTypeOK, Receipt, Tx, Authorization
      <4>2. \A m \in mined : m.tx.seq < accountNonce'
        BY <2>1, <4>1 DEF FacInv, ReceiptsArePast
      <4>3. \A m \in mined : m.ok => authorizationState'[m.tx.auth.from][m.tx.auth.nonce]
        BY <3>2, <4>1 DEF FacInv, ReceiptsArePast
      <4>4. tx.seq < accountNonce' /\ authorizationState'[tx.auth.from][tx.auth.nonce]
        BY <2>1, <3>2
      <4>5. QED  BY <2>2, <4>2, <4>3, <4>4 DEF ReceiptsArePast
    <3>5. NoDoubleSettle'
      <4>1. \A m \in mined : m.ok => m.tx.auth.from # tx.auth.from \/ m.tx.auth.nonce # tx.auth.nonce
        BY <3>2 DEF FacInv, ReceiptsArePast
      <4>2. \A m \in mined' : m \in mined \/ (m = [tx |-> tx, ok |-> TRUE] /\ m.tx = tx)
        BY <2>2
      <4>3. QED
        BY <4>1, <4>2 DEF FacInv, NoDoubleSettle
    <3>6. QED
      BY <1>10, <2>1, <2>2, <3>3, <3>4, <3>5 DEF Mine, handlerVars, FacInv, PoolIsNext,
            HandlerIsSettling, ServedIsPaid, OneResponsePerSettlement
  <2>3. CASE /\ UNCHANGED tokenVars
             /\ mined' = mined \cup {[tx |-> tx, ok |-> FALSE]}
    <3>1. FacTypeOK'
      <4>1. [tx |-> tx, ok |-> FALSE] \in Receipt  BY <2>1 DEF Receipt
      <4>2. mined' \subseteq Receipt  BY <2>3, <4>1 DEF FacInv, FacTypeOK
      <4>3. TokenTypeOK'  BY <2>3 DEF tokenVars, FacInv, FacTypeOK, TokenTypeOK
      <4>4. QED
        BY <1>10, <2>1, <4>2, <4>3 DEF Mine, handlerVars, wireVars, FacInv, FacTypeOK
    <3>2. ReceiptsArePast'
      <4>1. \A m \in mined : m.tx.seq \in Nat
        BY DEF FacInv, FacTypeOK, Receipt, Tx
      <4>2. QED
        BY <2>1, <2>3, <4>1 DEF FacInv, ReceiptsArePast, tokenVars
    <3>3. QED
      BY <1>10, <2>1, <2>3, <3>1, <3>2 DEF Mine, handlerVars, FacInv, PoolIsNext,
            HandlerIsSettling, NoDoubleSettle, ServedIsPaid, OneResponsePerSettlement
  <2>4. QED  BY <1>10, <2>2, <2>3 DEF Mine
<1>11. ASSUME NEW auth \in Externals, External(auth) PROVE FacInv'
  <2>1. auth \in Authorization /\ TransferWithAuthorization(auth, auth.from)
    BY <1>11, FacilitatorAssumption DEF External
  <2>2. TokenTypeOK'
    BY <2>1, TransferType DEF FacInv, FacTypeOK
  <2>3. \A a \in Accounts, n \in Nonces : authorizationState[a][n] => authorizationState'[a][n]
    BY <2>1, TransferUsesNonce DEF FacInv, FacTypeOK
  <2>4. \A m \in mined : m.tx.auth.from \in Accounts /\ m.tx.auth.nonce \in Nonces
    BY DEF FacInv, FacTypeOK, Receipt, Tx, Authorization
  <2>5. FacTypeOK'
    BY <1>11, <2>2 DEF External, handlerVars, wireVars, nodeVars, FacInv, FacTypeOK
  <2>6. ReceiptsArePast'
    BY <1>11, <2>3, <2>4 DEF External, nodeVars, FacInv, ReceiptsArePast
  <2>7. QED
    BY <1>11, <2>5, <2>6 DEF External, handlerVars, nodeVars, FacInv, PoolIsNext,
          HandlerIsSettling, NoDoubleSettle, ServedIsPaid, OneResponsePerSettlement
<1>12. ASSUME Clock PROVE FacInv'
  <2>1. TokenTypeOK'
    BY <1>12, TokenAssumption DEF Clock, Tick, FacInv, FacTypeOK, TokenTypeOK
  <2>2. QED
    BY <1>12, <2>1 DEF Clock, Tick, handlerVars, wireVars, nodeVars, FacInv, FacTypeOK, ReceiptsArePast,
          PoolIsNext, HandlerIsSettling, NoDoubleSettle, ServedIsPaid, OneResponsePerSettlement
<1>13. ASSUME NEW m \in Mints, Faucet(m) PROVE FacInv'
  <2>1. m.to \in Accounts /\ m.amount \in Uint /\ Mint(m.to, m.amount)
    BY <1>13, FacilitatorAssumption DEF Faucet
  <2>2. TokenTypeOK'
    BY <2>1, MintType DEF FacInv, FacTypeOK
  <2>3. UNCHANGED <<authorizationState, handlerVars, nodeVars>>
    BY <1>13, <2>1 DEF Faucet, Mint
  <2>4. FacTypeOK'
    BY <2>2, <2>3 DEF handlerVars, wireVars, nodeVars, FacInv, FacTypeOK
  <2>5. QED
    BY <2>3, <2>4 DEF handlerVars, nodeVars, FacInv, ReceiptsArePast, PoolIsNext,
          HandlerIsSettling, NoDoubleSettle, ServedIsPaid, OneResponsePerSettlement
<1>14. ASSUME UNCHANGED facVars PROVE FacInv'
  BY <1>14 DEF facVars, tokenVars, handlerVars, wireVars, nodeVars, FacInv, FacTypeOK, TokenTypeOK,
        ReceiptsArePast, PoolIsNext, HandlerIsSettling, NoDoubleSettle, ServedIsPaid,
        OneResponsePerSettlement
<1>15. QED
  BY UnansweredKeeps, <1>1, <1>2, <1>3, <1>4, <1>5, <1>6, <1>7, <1>8, <1>9, <1>10, <1>11, <1>12, <1>13, <1>14
     DEF FacNext, Handle, Chain

-----------------------------------------------------------------------------
\* The inductive invariant holds throughout.
LEMMA FacInvariant == FacSpec => []FacInv
BY FacInitInv, FacNextInv, PTL DEF FacSpec

\* Every variable of the server and of the node keeps its type.
THEOREM FacTypeCorrect == FacSpec => []FacTypeOK
<1>1. FacInv => FacTypeOK  BY DEF FacInv
<1>2. QED  BY FacInvariant, <1>1, PTL

\* An authorization settles at most once, for any number of requests that carry
\* it and however their broadcasts and timeouts interleave.
THEOREM SettlesAtMostOnce == FacSpec => []NoDoubleSettle
<1>1. FacInv => NoDoubleSettle  BY DEF FacInv
<1>2. QED  BY FacInvariant, <1>1, PTL

\* Whatever is served has been paid exactly, in a block.
THEOREM ServedOnlyWhenPaid == FacSpec => []ServedIsPaid
<1>1. FacInv => ServedIsPaid  BY DEF FacInv
<1>2. QED  BY FacInvariant, <1>1, PTL

\* A settlement is reported by one answer only.
THEOREM SettlementServesOnce == FacSpec => []OneResponsePerSettlement
<1>1. FacInv => OneResponsePerSettlement  BY DEF FacInv
<1>2. QED  BY FacInvariant, <1>1, PTL

-----------------------------------------------------------------------------
\* "valid" is written only by POST /verify with no reason against it; the one
\* answer of every other action has another outcome.
LEMMA ValidOnlyFromVerify ==
    ASSUME FacInv, [FacNext]_facVars,
           NEW a \in answers' \ answers, a.outcome = "valid"
    PROVE  \E req \in backlog :
              "none" \in VerifyResults(req) /\ a.auth = req.auth
<1>1. CASE UNCHANGED answers
  BY <1>1
<1>2. ASSUME NEW req \in backlog, HandleStatic(req) PROVE FALSE
  <2>1. StaticOutcome[req.route] # "valid"
    BY <1>2 DEF HandleStatic, StaticOutcome, StaticRoutes
  <2>2. QED  BY <1>2, <2>1 DEF HandleStatic, Respond
<1>3. ASSUME NEW req \in backlog, HandleVerify(req)
      PROVE  "none" \in VerifyResults(req) /\ a.auth = req.auth
  BY <1>3 DEF HandleVerify, Respond
<1>4. ASSUME NEW req \in backlog, RefuseSettle(req) PROVE FALSE
  BY <1>4 DEF RefuseSettle, RespondSettle, Respond
<1>5. CASE BroadcastFails \/ ReceiptFound \/ ReceiptWaitFails
  BY <1>5 DEF BroadcastFails, ReceiptFound, ReceiptWaitFails, RespondSettle, Respond
<1>6. CASE \/ Clients
           \/ \E req \in backlog : Wait(req) \/ HandleUnreadable(req) \/ BeginSettle(req)
           \/ Broadcast \/ Chain
  BY <1>1, <1>6, ClientsLeaveAlone DEF Wait, HandleUnreadable, BeginSettle, Broadcast, Chain,
        Mine, External, Faucet, Clock, handlerVars
<1>7. CASE UNCHANGED facVars
  BY <1>1, <1>7 DEF facVars, handlerVars
<1>8. QED
  BY <1>2, <1>3, <1>4, <1>5, <1>6, <1>7 DEF FacNext, Handle

\* A verification with no reason against it found the signer to be the payer and
\* the transfer possible, in the state it read.
LEMMA VerifiedCanTransfer ==
    ASSUME NEW req, "none" \in VerifyResults(req)
    PROVE  CanTransfer(req.auth, req.auth.from)
<1>1. OffchainError(req.auth) = "none" /\ req.signer = req.auth.from
  BY DEF VerifyResults
<1>2. "none" \in SimulateResults(req)
  BY <1>1 DEF VerifyResults, ChainResults
<1>3. QED  BY <1>1, <1>2 DEF SimulateResults

\* Whatever else is in flight, /verify says valid only of a payment the contract
\* would take at that moment (ValidIsSettleable).
THEOREM ValidMeansSettleable == FacSpec => ValidIsSettleable
<1> DEFINE Settleable == \A a \in answers' \ answers : a.outcome = "valid" =>
              /\ a.auth.to = PayTo /\ a.auth.value = Amount
              /\ CanTransfer(a.auth, a.auth.from)
<1>1. FacInv /\ [FacNext]_facVars => [Settleable]_facVars
  <2> SUFFICES ASSUME FacInv, [FacNext]_facVars,
                      NEW a \in answers' \ answers, a.outcome = "valid"
               PROVE  /\ a.auth.to = PayTo /\ a.auth.value = Amount
                      /\ CanTransfer(a.auth, a.auth.from)
    OBVIOUS
  <2>1. PICK req \in backlog : "none" \in VerifyResults(req) /\ a.auth = req.auth
    BY ValidOnlyFromVerify
  <2>2. QED  BY <2>1, VerifiedIsExact, VerifiedCanTransfer
<1>2. QED  BY <1>1, FacInvariant, PTL DEF FacSpec, ValidIsSettleable

-----------------------------------------------------------------------------
(* What goes through the server.                                           *)

\* The requests the server has and has not answered.
Held == backlog \cup {r \in {current} : phase # "idle"}

\* The server answers what it holds, each request on its own connection, and
\* broadcasts only authorizations that it holds.
LEMMA HandleCarries ==
    ASSUME Handle
    PROVE  /\ Held' \subseteq Held
           /\ answers \subseteq answers'
           /\ \A a \in answers' \ answers : \E r \in Held :
                 a.conn = r.conn /\ a.route = r.route /\ a.auth = r.auth
           /\ \A p \in pool' \ pool : \E r \in Held : p.auth = r.auth
           /\ UNCHANGED <<tokenVars, mined>>
<1>1. ASSUME NEW req \in Held, NEW status, NEW outcome, NEW reason, NEW tx,
             Respond(req, status, outcome, reason, tx), backlog' \subseteq backlog
      PROVE  /\ Held' \subseteq Held
             /\ answers \subseteq answers'
             /\ \A a \in answers' \ answers : \E r \in Held :
                   a.conn = r.conn /\ a.route = r.route /\ a.auth = r.auth
  BY <1>1 DEF Respond, Held
<1>2. ASSUME NEW req \in backlog,
             \/ Wait(req) \/ HandleUnreadable(req)
             \/ HandleStatic(req) \/ HandleVerify(req) \/ RefuseSettle(req) \/ BeginSettle(req)
      PROVE  /\ Held' \subseteq Held
             /\ answers \subseteq answers'
             /\ \A a \in answers' \ answers : \E r \in Held :
                   a.conn = r.conn /\ a.route = r.route /\ a.auth = r.auth
             /\ UNCHANGED <<tokenVars, nodeVars>>
  <2>1. req \in Held
    BY DEF Held
  <2>2. CASE Wait(req) \/ HandleUnreadable(req) \/ BeginSettle(req)
    BY <2>2 DEF Wait, HandleUnreadable, BeginSettle, Held
  <2>3. CASE HandleStatic(req) \/ HandleVerify(req) \/ RefuseSettle(req)
    BY <1>1, <2>1, <2>3 DEF HandleStatic, HandleVerify, RefuseSettle, RespondSettle
  <2>4. QED  BY <1>2, <2>2, <2>3
<1>3. CASE Broadcast
  BY <1>3 DEF Broadcast, Held, PoolWithNext, NextTx
<1>4. CASE BroadcastFails \/ ReceiptFound \/ ReceiptWaitFails
  <2>1. current \in Held
    BY <1>4 DEF BroadcastFails, ReceiptFound, ReceiptWaitFails, Held
  <2>2. /\ Held' \subseteq Held
        /\ answers \subseteq answers'
        /\ \A a \in answers' \ answers : \E r \in Held :
              a.conn = r.conn /\ a.route = r.route /\ a.auth = r.auth
    BY <1>1, <1>4, <2>1 DEF BroadcastFails, ReceiptFound, ReceiptWaitFails, RespondSettle
  <2>3. /\ \A p \in pool' \ pool : p.auth = current.auth
        /\ UNCHANGED <<tokenVars, mined>>
    BY <1>4 DEF BroadcastFails, ReceiptFound, ReceiptWaitFails, PoolWithNext, NextTx, nodeVars
  <2>4. QED  BY <2>1, <2>2, <2>3
<1>5. QED  BY <1>2, <1>3, <1>4 DEF Handle, nodeVars

\* The chain mines what is in the pool and leaves the server's requests alone.
LEMMA ChainCarries ==
    ASSUME Chain
    PROVE  /\ UNCHANGED handlerVars
           /\ pool' \subseteq pool
           /\ \A m \in mined' \ mined : m.tx \in pool
           /\ mined \subseteq mined'
BY DEF Chain, Mine, External, Faucet, Clock, nodeVars

-----------------------------------------------------------------------------
(* The token under the server.                                             *)

\* Whatever the server and the chain do, the token takes one step of its own.
LEMMA ServerUsesToken == FacInv /\ [FacNext]_facVars => [TokenNext]_tokenVars
<1> SUFFICES ASSUME FacInv, FacNext PROVE [TokenNext]_tokenVars
  BY DEF facVars
<1>1. CASE Clients
  BY <1>1, ClientsLeaveAlone
<1>2. CASE Handle
  BY <1>2 DEF Handle, Wait, HandleUnreadable, HandleStatic, HandleVerify, RefuseSettle, BeginSettle, Broadcast,
              BroadcastFails, ReceiptFound, ReceiptWaitFails
<1>3. ASSUME NEW tx \in pool, Mine(tx) PROVE [TokenNext]_tokenVars
  <2>1. tx.auth \in Authorization /\ tx.signer \in Accounts \cup {NoSigner}
    BY DEF FacInv, FacTypeOK, Tx
  <2>2. QED  BY <1>3, <2>1 DEF Mine, TokenNext
<1>4. ASSUME NEW auth \in Externals, External(auth) PROVE TokenNext
  <2>1. auth \in Authorization /\ auth.from \in Accounts \cup {NoSigner}
    BY FacilitatorAssumption DEF Authorization
  <2>2. QED  BY <1>4, <2>1 DEF External, TokenNext
<1>5. ASSUME NEW m \in Mints, Faucet(m) PROVE TokenNext
  <2>1. m.to \in Accounts /\ m.amount \in Uint
    BY FacilitatorAssumption
  <2>2. QED  BY <1>5, <2>1 DEF Faucet, TokenNext
<1>6. CASE Clock
  BY <1>6 DEF Clock, TokenNext
<1>7. QED  BY <1>1, <1>2, <1>3, <1>4, <1>5, <1>6 DEF FacNext, Chain

\* Whoever submits what, through the server or past it, a nonce stays used and an
\* account is debited only for one fresh nonce of its own (NonceGuardsDebit).
THEOREM ServerNonceGuards == FacSpec => NonceGuardsDebit
<1>1. FacInv /\ [FacNext]_facVars => [\A a \in Accounts : Guarded(a)]_tokenVars
  BY ServerUsesToken, TokenStepGuarded DEF FacInv, FacTypeOK
<1>2. QED
  BY <1>1, FacInvariant, PTL DEF FacSpec, NonceGuardsDebit, Guarded, Fresh

-----------------------------------------------------------------------------
(* The merchant's account.                                                 *)

\* A block that takes a transaction to the merchant in either pays its value, for
\* an authorization no other settlement has used, or reverts and pays nothing.
LEMMA MinePays ==
    ASSUME FacInv, NEW tx \in pool, Mine(tx), tx.auth.from # PayTo, tx.auth.to = PayTo
    PROVE  \/ /\ mined' = mined \cup {[tx |-> tx, ok |-> TRUE]}
              /\ balanceOf'[PayTo] = balanceOf[PayTo] + tx.auth.value
              /\ \A m \in mined :
                    m.ok => ~(m.tx.auth.from = tx.auth.from /\ m.tx.auth.nonce = tx.auth.nonce)
           \/ /\ mined' = mined \cup {[tx |-> tx, ok |-> FALSE]}
              /\ balanceOf'[PayTo] = balanceOf[PayTo]
<1>1. tx.auth \in Authorization /\ TokenTypeOK
  BY DEF FacInv, FacTypeOK, Tx
<1>2. CASE TransferWithAuthorization(tx.auth, tx.signer)
  <2>1. ~authorizationState[tx.auth.from][tx.auth.nonce]
    BY <1>1, <1>2, TransferUsesNonce
  <2>2. \A m \in mined :
           m.ok => ~(m.tx.auth.from = tx.auth.from /\ m.tx.auth.nonce = tx.auth.nonce)
    BY <2>1 DEF FacInv, ReceiptsArePast
  <2>3. balanceOf'[PayTo] = balanceOf[PayTo] + tx.auth.value
    BY <1>1, <1>2, MovedBalances DEF TransferWithAuthorization
  <2>4. CASE mined' = mined \cup {[tx |-> tx, ok |-> TRUE]}
    BY <2>2, <2>3, <2>4
  <2>5. CASE ~CanTransfer(tx.auth, tx.signer)
    BY <1>2, <2>5 DEF TransferWithAuthorization
  <2>6. QED  BY <2>4, <2>5 DEF Mine
<1>3. CASE ~TransferWithAuthorization(tx.auth, tx.signer)
  BY <1>3 DEF Mine, tokenVars
<1>4. QED  BY <1>2, <1>3

\* Nobody else's use of the token moves the merchant's balance.
LEMMA OthersDoNotPay ==
    ASSUME FacInv, MerchantAlone,
           \/ \E auth \in Externals : External(auth)
           \/ \E m \in Mints : Faucet(m)
           \/ Clock
    PROVE  balanceOf'[PayTo] = balanceOf[PayTo]
<1>1. TokenTypeOK /\ PayTo \in Accounts
  BY FacilitatorAssumption DEF FacInv, FacTypeOK
<1>2. ASSUME NEW auth \in Externals, External(auth)
      PROVE  balanceOf'[PayTo] = balanceOf[PayTo]
  <2>1. auth \in Authorization /\ PayTo \in Accounts \ {auth.from, auth.to}
    BY FacilitatorAssumption DEF MerchantAlone
  <2>2. QED  BY <1>1, <1>2, <2>1, MovedBalances DEF External, TransferWithAuthorization
<1>3. ASSUME NEW m \in Mints, Faucet(m)
      PROVE  balanceOf'[PayTo] = balanceOf[PayTo]
  BY <1>1, <1>3 DEF Faucet, Mint, TokenTypeOK, MerchantAlone
<1>4. CASE Clock
  BY <1>4 DEF Clock, Tick
<1>5. QED  BY <1>2, <1>3, <1>4

SettledReceipts == {m \in mined : m.ok}

\* What is handled, pooled and mined pays the merchant the price, from another
\* account, and each settlement has done so once.
PaysInv ==
    /\ FacInv
    /\ backlog \subseteq Requests
    /\ phase # "idle" => current \in Requests
    /\ \A p \in pool : p.auth.from # PayTo /\ p.auth.to = PayTo /\ p.auth.value = Amount
    /\ IsFiniteSet(mined)
    /\ MerchantHasSettlements

LEMMA PaysInit == FacInit => PaysInv
<1> SUFFICES ASSUME FacInit PROVE PaysInv  OBVIOUS
<1>1. SettledReceipts = {} /\ IsFiniteSet({}) /\ Cardinality({}) = 0
  BY FS_EmptySet DEF FacInit, SettledReceipts
<1>2. balanceOf[PayTo] = 0 /\ Amount \in Nat
  BY FacilitatorAssumption DEF FacInit, Uint
<1>3. MerchantHasSettlements
  <2>1. Cardinality(SettledReceipts) = 0
    BY <1>1
  <2>2. Amount * 0 = 0
    BY <1>2
  <2>3. QED  BY <1>2, <2>1, <2>2 DEF MerchantHasSettlements, SettledReceipts
<1>4. QED  BY <1>1, <1>3, FacInitInv DEF PaysInv, FacInit

\* What the handler takes and broadcasts.
LEMMA HandlePays ==
    ASSUME PaysInv, PayersAreOthers, Handle
    PROVE  /\ backlog' \subseteq Requests
           /\ phase' # "idle" => current' \in Requests
           /\ \A p \in pool' : p.auth.from # PayTo /\ p.auth.to = PayTo /\ p.auth.value = Amount
           /\ UNCHANGED <<tokenVars, mined>>
<1>1. phase = "verified" =>
         \A p \in PoolWithNext : p.auth.from # PayTo /\ p.auth.to = PayTo /\ p.auth.value = Amount
  BY DEF PaysInv, FacInv, HandlerIsSettling, PayersAreOthers, PoolWithNext, NextTx
<1>2. QED
  BY <1>1
     DEF PaysInv, Handle, Wait, HandleUnreadable, Reads, HandleStatic, HandleVerify, RefuseSettle, BeginSettle, Broadcast,
         BroadcastFails, ReceiptFound, ReceiptWaitFails, RespondSettle, Respond, nodeVars

\* A block adds one receipt; it pays the merchant if and only if it is a settlement.
LEMMA MineSettles ==
    ASSUME PaysInv, NEW tx \in pool, Mine(tx)
    PROVE  IsFiniteSet(mined') /\ MerchantHasSettlements'
<1>1. /\ Amount \in Nat /\ IsFiniteSet(SettledReceipts)
      /\ balanceOf[PayTo] = Amount * Cardinality(SettledReceipts)
      /\ Cardinality(SettledReceipts) \in Nat
  BY FacilitatorAssumption, FS_Subset, FS_CardinalityType
     DEF Uint, PaysInv, MerchantHasSettlements, SettledReceipts
<1> DEFINE paid == [tx |-> tx, ok |-> TRUE]
           failed == [tx |-> tx, ok |-> FALSE]
<1>2. CASE mined' = mined \cup {paid} /\ balanceOf'[PayTo] = balanceOf[PayTo] + tx.auth.value
  <2>1. paid \notin SettledReceipts
    <3>1. \A m \in mined : m.tx.seq < accountNonce /\ m.tx.seq \in Nat
      BY DEF PaysInv, FacInv, FacTypeOK, ReceiptsArePast, Receipt, Tx
    <3>2. paid.tx.seq = accountNonce /\ accountNonce \in Nat
      BY DEF PaysInv, FacInv, FacTypeOK, PoolIsNext
    <3>3. QED  BY <3>1, <3>2 DEF SettledReceipts
  <2>2. SettledReceipts' = SettledReceipts \cup {paid}
    BY <1>2 DEF SettledReceipts
  <2>3. Cardinality(SettledReceipts') = Cardinality(SettledReceipts) + 1
    BY <1>1, <2>1, <2>2, FS_AddElement
  <2>4. IsFiniteSet(mined')
    BY <1>2, FS_AddElement DEF PaysInv
  <2>5. tx.auth.value = Amount
    BY DEF PaysInv
  <2> HIDE DEF paid
  <2>6. balanceOf'[PayTo] = Amount * Cardinality(SettledReceipts')
    <3> DEFINE n == Cardinality(SettledReceipts)
    <3>1. balanceOf'[PayTo] = Amount * n + Amount /\ n \in Nat
      BY <1>1, <1>2, <2>5
    <3>2. Amount * n + Amount = Amount * (n + 1)
      BY <1>1
    <3>3. QED  BY <2>3, <3>1, <3>2
  <2>7. QED  BY <2>4, <2>6 DEF MerchantHasSettlements, SettledReceipts
<1>3. CASE mined' = mined \cup {failed} /\ balanceOf'[PayTo] = balanceOf[PayTo]
  <2>1. SettledReceipts' = SettledReceipts
    BY <1>3 DEF SettledReceipts
  <2>2. IsFiniteSet(mined')
    BY <1>3, FS_AddElement DEF PaysInv
  <2>3. QED  BY <1>1, <1>3, <2>1, <2>2 DEF MerchantHasSettlements, SettledReceipts
<1>4. QED  BY <1>2, <1>3, MinePays DEF PaysInv

LEMMA PaysStep ==
    MerchantAlone /\ PayersAreOthers /\ PaysInv /\ [FacNext]_facVars => PaysInv'
<1> SUFFICES ASSUME MerchantAlone, PayersAreOthers, PaysInv, [FacNext]_facVars
             PROVE  PaysInv'
  OBVIOUS
<1>1. FacInv'
  BY FacNextInv DEF PaysInv
<1>2. CASE UNCHANGED facVars
  BY <1>1, <1>2 DEF PaysInv, MerchantHasSettlements, facVars, tokenVars, handlerVars, nodeVars
<1>3. CASE Clients
  <2>1. backlog' \subseteq Requests
    BY <1>3, ClientsQueue DEF PaysInv
  <2>2. QED
    BY <1>1, <1>3, <2>1, ClientsLeaveAlone DEF PaysInv, MerchantHasSettlements, tokenVars, nodeVars
<1>4. CASE Handle
  <2>1. MerchantHasSettlements' /\ IsFiniteSet(mined')
    BY <1>4, HandlePays DEF PaysInv, MerchantHasSettlements, tokenVars
  <2>2. QED  BY <1>1, <1>4, <2>1, HandlePays DEF PaysInv
<1>5. ASSUME NEW tx \in pool, Mine(tx) PROVE PaysInv'
  BY <1>1, <1>5, MineSettles DEF Mine, PaysInv, handlerVars
<1>6. CASE \/ \E auth \in Externals : External(auth)
           \/ \E m \in Mints : Faucet(m)
           \/ Clock
  <2>1. balanceOf'[PayTo] = balanceOf[PayTo]
    BY <1>6, OthersDoNotPay DEF PaysInv
  <2>2. UNCHANGED <<handlerVars, nodeVars>>
    BY <1>6 DEF External, Faucet, Clock
  <2>3. QED  BY <1>1, <2>1, <2>2 DEF PaysInv, MerchantHasSettlements, handlerVars, nodeVars
<1>7. QED  BY <1>2, <1>3, <1>4, <1>5, <1>6 DEF FacNext, Chain

\* The accounts hold the supply under the server as well.
LEMMA ServerKeepsSupply == FacSpec => []SupplyIsHeld
<1>1. FacInit => SupplyIsHeld
  <2> SUFFICES ASSUME FacInit PROVE SupplyIsHeld  OBVIOUS
  <2> DEFINE none == [a \in Accounts |-> 0]
  <2>1. none \in [Accounts -> Nat] /\ none \in [Accounts -> Int] /\ Funding \in Int
    BY FacilitatorAssumption DEF Uint
  <2>2. SumFunctionOnSet(none, Accounts) = 0
    BY <2>1, SumOfNaturals, TokenAssumption
  <2>3. balanceOf = [none EXCEPT ![Payer] = @ + Funding]
    BY <2>1, FacilitatorAssumption DEF FacInit
  <2> HIDE DEF none
  <2>4. SumFunctionOnSet(balanceOf, Accounts) = 0 + Funding
    BY <2>1, <2>2, <2>3, SumChanges, FacilitatorAssumption, TokenAssumption
  <2>5. DOMAIN balanceOf = Accounts /\ totalSupply = Funding
    BY DEF FacInit
  <2>6. QED  BY <2>1, <2>4, <2>5 DEF SupplyIsHeld, SumFunction
<1>2. FacInv /\ SupplyIsHeld /\ [FacNext]_facVars => SupplyIsHeld'
  BY ServerUsesToken, TokenStepKeepsSupply DEF FacInv, FacTypeOK
<1>3. QED  BY <1>1, <1>2, FacInvariant, PTL DEF FacSpec

\* When nobody moves the merchant's tokens past the facilitator, the merchant has
\* the price of every settlement that mined and nothing else, whatever failed,
\* timed out or was repeated; and nothing is lost or made between the accounts
\* (FundsAreAccountedFor).
THEOREM FundsAccounted ==
    ASSUME MerchantAlone, PayersAreOthers
    PROVE  FacSpec => []FundsAreAccountedFor
<1>1. PaysInv /\ [FacNext]_facVars => PaysInv'
  BY PaysStep
<1>2. PaysInv => MerchantHasSettlements
  BY DEF PaysInv
<1>3. MerchantHasSettlements /\ SupplyIsHeld => FundsAreAccountedFor
  BY DEF FundsAreAccountedFor
<1>4. QED  BY <1>1, <1>2, <1>3, PaysInit, ServerKeepsSupply, PTL DEF FacSpec
=============================================================================
