CONSTANTS
    payer = payer
    merchant = merchant
    other = other
    nPay = nPay
    nRace = nRace
    nOther = nOther
    r1 = r1
    r2 = r2
    Accounts = {payer, merchant, other}
    Nonces = {nPay, nRace, nOther}
    NoSigner = NoSigner
    NoTx = NoTx
    MaxUint = 2
    MaxTime = 2
    Conns <- MCConns
    Payer = payer
    PayTo = merchant
    Amount = 1
    Funding = 2
    Requests <- MCRequests
    Slow = {}
    Externals <- MCExternals
    Mints = {}
    Racers = {}
    MaxRetries = 2
    PayNonce = nPay
    RaceNonce = nRace
    Window = 1
    Faults = {"lost", "timeout", "reset", "gateway", "rpc", "crash"}
SPECIFICATION PaidSpec
INVARIANT AcceptedIsPaid
INVARIANT NotRunMeansNotPaid
INVARIANT SpendIsBounded
