--------------------------- MODULE MCCalibration ----------------------------
(* The active group and the facilitator registry on the calibration target,*)
(* with every set of its bugs.                                             *)
EXTENDS Calibration

Check(bugs, price, marker, concurrency) ==
    [command |-> "check", bugs |-> bugs, price |-> price, marker |-> marker,
     concurrency |-> concurrency, there |-> TRUE]

Facilitator(bugs, price, there) ==
    [command |-> "facilitator", bugs |-> bugs, price |-> price, marker |-> FALSE,
     concurrency |-> 1, there |-> there]

\* On two threads the target has one bug at most.
MCSetups ==
    {Check(bugs, price, marker, 1) :
        bugs \in SUBSET BugNames, price \in {0, 1, 2, 5}, marker \in BOOLEAN}
    \cup {Check(bugs, 5, TRUE, 2) : bugs \in {{}} \cup {{b} : b \in BugNames}}
    \cup {Facilitator(bugs, price, there) :
        bugs \in SUBSET VerifySteps, price \in {0, 1, 2, 5}, there \in BOOLEAN}
=============================================================================
