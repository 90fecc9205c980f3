CONSTANTS
    payer = payer
    merchant = merchant
    other = other
    nPay = nPay
    nRace = nRace
    nOther = nOther
    r1 = r1
    r2 = r2
    Accounts = {payer, merchant, other}
    Nonces = {nPay, nRace, nOther}
    NoSigner = NoSigner
    NoTx = NoTx
    MaxUint = 3
    MaxTime = 2
    Conns <- MCConns
    Payer = payer
    PayTo = merchant
    Amount = 1
    Funding = 3
    Requests <- MCRequests
    Slow = {}
    Externals = {}
    Mints = {}
    Racers <- MCRacers
    MaxRetries = 0
    PayNonce = nPay
    RaceNonce = nRace
    Window = 1
    Faults = {"lost", "timeout", "reset", "gateway"}
SPECIFICATION PaidSpec
INVARIANT SpendIsBounded
INVARIANT NoFalseDoubleSpend
INVARIANT ProofNeverMisses
PROPERTY ImplementsExactPayment
