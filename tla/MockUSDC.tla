------------------------------ MODULE MockUSDC ------------------------------
(***************************************************************************)
(* The EIP-3009 test token of onchain/src/MockUSDC.sol: balances, the      *)
(* used-nonce map and the block clock.  A call that reverts changes        *)
(* nothing, so a revert is the action not being enabled.  Signatures are   *)
(* abstracted to the account that _recover returns.                        *)
(***************************************************************************)
EXTENDS Integers, FiniteSets, Functions

CONSTANTS
    Accounts,   \* addresses that can hold the token, 160 bits each
    Nonces,     \* bytes32 authorization nonces
    NoSigner,   \* address(0), what ecrecover yields for a malformed signature
    MaxUint,    \* 2^256 - 1 in the code; the arithmetic is checked (0.8)
    MaxTime     \* bound on block.timestamp

ASSUME TokenAssumption ==
    /\ IsFiniteSet(Accounts)
    /\ MaxUint \in Nat
    /\ MaxTime \in Nat \ {0}

VARIABLES
    balanceOf,           \* [Accounts -> uint256]
    totalSupply,         \* uint256
    authorizationState,  \* [Accounts -> [Nonces -> BOOLEAN]]
    timestamp            \* block.timestamp

tokenVars == <<balanceOf, totalSupply, authorizationState, timestamp>>

Uint == 0 .. MaxUint
Times == 0 .. MaxTime + 1

Authorization ==
    [from : Accounts, to : Accounts, value : Uint,
     validAfter : Times, validBefore : Times, nonce : Nonces]

TokenTypeOK ==
    /\ balanceOf \in [Accounts -> Uint]
    /\ totalSupply \in Uint
    /\ authorizationState \in [Accounts -> [Nonces -> BOOLEAN]]
    /\ timestamp \in 0 .. MaxTime

\* A freshly deployed token; block 1 has a non-zero timestamp.
TokenInit ==
    /\ balanceOf = [a \in Accounts |-> 0]
    /\ totalSupply = 0
    /\ authorizationState = [a \in Accounts |-> [n \in Nonces |-> FALSE]]
    /\ timestamp = 1

-----------------------------------------------------------------------------
\* The open faucet: reverts when the checked addition overflows.
Mint(to, amount) ==
    /\ balanceOf[to] + amount <= MaxUint
    /\ totalSupply + amount <= MaxUint
    /\ balanceOf' = [balanceOf EXCEPT ![to] = @ + amount]
    /\ totalSupply' = totalSupply + amount
    /\ UNCHANGED <<authorizationState, timestamp>>

\* _authorize: both ends of the window are exclusive, the nonce is unused.
Authorized(auth) ==
    /\ timestamp > auth.validAfter
    /\ timestamp < auth.validBefore
    /\ ~authorizationState[auth.from][auth.nonce]

\* (mutant) the recipient's balance is read before the payer is debited.
MovedFromStaleRead(auth) ==
    [balanceOf EXCEPT ![auth.from] = @ - auth.value,
                      ![auth.to] = balanceOf[auth.to] + auth.value]

\* _finalize moves the funds: a checked subtraction, then a checked addition.
Moved(auth) ==
    LET debited == [balanceOf EXCEPT ![auth.from] = @ - auth.value]
    IN  [debited EXCEPT ![auth.to] = @ + auth.value]

\* Every require of transferWithAuthorization holds.
CanTransfer(auth, signer) ==
    /\ Authorized(auth)
    /\ signer = auth.from
    /\ balanceOf[auth.from] >= auth.value
    /\ Moved(auth)[auth.to] <= MaxUint

\* (mutant) the nonce is never marked used.
TransferUnmarked(auth, signer) ==
    /\ CanTransfer(auth, signer)
    /\ balanceOf' = Moved(auth)
    /\ UNCHANGED <<authorizationState, totalSupply, timestamp>>

\* transferWithAuthorization: the nonce is marked, then the funds move.
TransferWithAuthorization(auth, signer) ==
    /\ CanTransfer(auth, signer)
    /\ authorizationState' = [authorizationState EXCEPT ![auth.from][auth.nonce] = TRUE]
    /\ balanceOf' = Moved(auth)
    /\ UNCHANGED <<totalSupply, timestamp>>

\* A later block.
Tick ==
    /\ timestamp < MaxTime
    /\ timestamp' = timestamp + 1
    /\ UNCHANGED <<balanceOf, totalSupply, authorizationState>>

TokenNext ==
    \/ \E to \in Accounts, amount \in Uint : Mint(to, amount)
    \/ \E auth \in Authorization, signer \in Accounts \cup {NoSigner} :
           TransferWithAuthorization(auth, signer)
    \/ Tick

TokenSpec == TokenInit /\ [][TokenNext]_tokenVars

-----------------------------------------------------------------------------
\* Single use: a nonce stays used, and no step takes funds out of an account
\* without using up exactly one fresh nonce of that account.
NonceGuardsDebit ==
    [][ \A a \in Accounts :
          LET fresh == {n \in Nonces : ~authorizationState[a][n] /\ authorizationState'[a][n]}
          IN  /\ \A n \in Nonces : authorizationState[a][n] => authorizationState'[a][n]
              /\ balanceOf'[a] < balanceOf[a] => \E n \in Nonces : fresh = {n}
      ]_tokenVars

\* No token is lost or made but by mint: what the accounts hold is the supply,
\* transfers of everything, to a full account and to oneself included (the two
\* updates of _finalize against mint's).
SupplyIsHeld == totalSupply = SumFunction(balanceOf)
=============================================================================
