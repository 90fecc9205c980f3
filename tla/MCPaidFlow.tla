----------------------------- MODULE MCPaidFlow -----------------------------
EXTENDS PaidFlow

CONSTANTS payer, merchant, other, nPay, nRace, nOther, r1, r2

MCRacers == {r1, r2}
MCConns == ({"pay", "replay"} \cup Racers) \X (0 .. MaxRetries)

\* A payment by the same payer elsewhere, which can empty the account.
Drain == [from |-> payer, to |-> other, value |-> 1, validAfter |-> 0,
          validBefore |-> MaxTime + 1, nonce |-> nOther]
MCExternals == {Drain}

\* Everything the client can put on the wire.
MCRequests ==
    {[conn |-> conn, route |-> "resource", signer |-> payer,
      auth |-> [from |-> payer, to |-> merchant, value |-> 1, validAfter |-> 0,
                validBefore |-> t, nonce |-> IF conn[1] \in MCRacers THEN nRace ELSE nPay]] :
        conn \in MCConns, t \in 1 .. MaxTime + 1}
=============================================================================
