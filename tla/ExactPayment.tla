---------------------------- MODULE ExactPayment ----------------------------
(***************************************************************************)
(* What paying by a signed `exact` authorization promises, with no network *)
(* and no chain in it: an authorization is signed once, moves the price    *)
(* to the merchant at most once, and buys at most one response, which only *)
(* a payment buys.  The second authorization is signed only when the first *)
(* one has bought its response.                                            *)
(***************************************************************************)
EXTENDS Integers

CONSTANTS
    First, Second,  \* the two authorizations of a run
    Price

VARIABLES
    status,   \* [authorization -> "unsigned", "signed", "paid", "delivered"]
    merchant  \* what the merchant has received

payVars == <<status, merchant>>
Authorizations == {First, Second}

Init ==
    /\ status = [k \in Authorizations |-> "unsigned"]
    /\ merchant = 0

Sign(k) ==
    /\ status[k] = "unsigned"
    /\ k = Second => status[First] = "delivered"
    /\ status' = [status EXCEPT ![k] = "signed"]
    /\ UNCHANGED merchant

Pay(k) ==
    /\ status[k] = "signed"
    /\ status' = [status EXCEPT ![k] = "paid"]
    /\ merchant' = merchant + Price

Deliver(k) ==
    /\ status[k] = "paid"
    /\ status' = [status EXCEPT ![k] = "delivered"]
    /\ UNCHANGED merchant

Next == \E k \in Authorizations : Sign(k) \/ Pay(k) \/ Deliver(k)

Spec == Init /\ [][Next]_payVars
=============================================================================
