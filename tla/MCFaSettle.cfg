CONSTANTS
    h1 = h1
    h2 = h2
    TxIds = {h1, h2}
    NoTx = NoTx
SPECIFICATION PendingSpec
INVARIANT RebroadcastIsCaught
INVARIANT StillPendingIsOpen
INVARIANT ConformantIsCleared
INVARIANT ClearedOnEvidence
PROPERTY BroadcastUnderpaymentFails
