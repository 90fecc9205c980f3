----------------------------- MODULE MCFaSettle -----------------------------
(* What the FA-SET group makes of the answers of any facilitator.          *)
EXTENDS FaSettlePending

CONSTANTS h1, h2
=============================================================================
