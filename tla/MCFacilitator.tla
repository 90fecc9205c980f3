--------------------------- MODULE MCFacilitator ----------------------------
(* The facilitator and its chain under a mix of concurrent requests: the   *)
(* same authorization on several connections, one that underpays, one that *)
(* is misdirected, one that expires, one not signed by its payer.          *)
EXTENDS OnchainFacilitator

CONSTANTS payer, merchant, other, n1, n2, n3, c1, c2, c3

Good == [from |-> payer, to |-> merchant, value |-> 1, validAfter |-> 0,
         validBefore |-> 3, nonce |-> n1]
GoodToo == [Good EXCEPT !.nonce = n2]
Late == [Good EXCEPT !.nonce = n2, !.validBefore = 2]
Early == [Good EXCEPT !.validAfter = 1]
NotYet == [Good EXCEPT !.validAfter = 2]
Underpaid == [Good EXCEPT !.value = 0]
Misdirected == [Good EXCEPT !.to = other]
Drain == [from |-> payer, to |-> other, value |-> 1, validAfter |-> 0,
          validBefore |-> 3, nonce |-> n3]

Ask(c, route, auth, signer) == [conn |-> c, route |-> route, auth |-> auth, signer |-> signer]

\* Settles race for the payer's two units on all three connections; next to
\* them, one request of every other kind.
MCRequests ==
    {Ask(c, "resource", Good, payer) : c \in {c1, c2, c3}}
        \cup {Ask(c3, "resource", auth, payer) : auth \in {GoodToo, Late, Underpaid}}
        \cup {Ask(c2, route, Good, payer) : route \in StaticRoutes \cup {"unreadable"}}
        \cup {Ask(c2, "verify", auth, payer) :
                 auth \in {Good, Early, NotYet, Underpaid, Misdirected}}
        \cup {Ask(c2, "settle", Good, s) : s \in {payer, NoSigner}}

\* A POST whose body, and a GET whose headers, do not come.
MCSlow == {Ask(c2, "settle", Good, payer), Ask(c3, "resource", GoodToo, payer)}

\* A transfer to oneself, which uses up the nonce of the drain.
Reshuffle == [Drain EXCEPT !.to = payer]

MCExternals == {Drain, Reshuffle}
MCMints == {[to |-> payer, amount |-> 1]}

\* What FundsAreAccountedFor needs of the requests and of third parties.
ASSUME MerchantIsLeftAlone == MerchantAlone /\ PayersAreOthers
=============================================================================
