CONSTANTS
    payer = payer
    merchant = merchant
    other = other
    n1 = n1
    n2 = n2
    n3 = n3
    c1 = c1
    c2 = c2
    c3 = c3
    Accounts = {payer, merchant, other}
    Nonces = {n1, n2, n3}
    NoSigner = NoSigner
    NoTx = NoTx
    MaxUint = 3
    MaxTime = 2
    Conns = {c1, c2, c3}
    Payer = payer
    PayTo = merchant
    Amount = 1
    Funding = 2
    Requests <- MCRequests
    Slow <- MCSlow
    Externals <- MCExternals
    Mints <- MCMints
SPECIFICATION FairFacSpec
INVARIANT FacTypeOK
INVARIANT NoDoubleSettle
INVARIANT ServedIsPaid
INVARIANT OneResponsePerSettlement
INVARIANT FundsAreAccountedFor
PROPERTY NonceGuardsDebit
PROPERTY ValidIsSettleable
PROPERTY EveryRequestAnswered
CHECK_DEADLOCK FALSE
