CONSTANTS
    r1 = r1
    r2 = r2
    tx = tx
    Racers = {r1, r2}
    MaxRetries = 1
    TxIds = {tx}
    NoTx = NoTx
    BareTx = BareTx
SPECIFICATION Spec
INVARIANT OnePaymentUntilSettled
INVARIANT PendingIsInconclusive
PROPERTY EventuallyReported
