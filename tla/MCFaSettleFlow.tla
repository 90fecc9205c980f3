--------------------------- MODULE MCFaSettleFlow ---------------------------
EXTENDS FaSettleFlow

CONSTANTS payer, merchant, other, nGood, nCheap, nOther

MCConns == {"first", "retry", "second", "cheap"}

\* A payment by the same payer elsewhere, which can empty the account.
MCExternals ==
    {[from |-> payer, to |-> other, value |-> 1, validAfter |-> 0,
      validBefore |-> MaxTime + 1, nonce |-> nOther]}

\* Everything the group can put on the wire.
MCRequests ==
    {[conn |-> conn, route |-> "settle", signer |-> payer,
      auth |-> [from |-> payer, to |-> merchant, validAfter |-> 0, validBefore |-> t,
                value |-> IF conn = "cheap" THEN 1 ELSE Amount,
                nonce |-> IF conn = "cheap" THEN nCheap ELSE nGood]] :
        conn \in MCConns, t \in 1 .. MaxTime + 1}
=============================================================================
