CONSTANTS
    payer = payer
    merchant = merchant
    other = other
    nGood = nGood
    nCheap = nCheap
    nOther = nOther
    Accounts = {payer, merchant, other}
    Nonces = {nGood, nCheap, nOther}
    NoSigner = NoSigner
    NoTx = NoTx
    MaxUint = 5
    MaxTime = 3
    Conns <- MCConns
    Payer = payer
    PayTo = merchant
    Amount = 2
    Funding = 5
    Requests <- MCRequests
    Slow = {}
    Externals <- MCExternals
    Mints = {}
    GoodNonce = nGood
    CheapNonce = nCheap
    Window = 2
    Faults = {"lost", "timeout", "rpc"}
SPECIFICATION SettleFlowSpec
INVARIANT NoFalseDoubleSettle
INVARIANT GroupCostsOnePrice
