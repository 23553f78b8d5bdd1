------------------------------ MODULE MCTopUp ------------------------------
(* Small instances of TopUp for TLC. *)
EXTENDS TopUp, TLC

CONSTANTS m1, t1, t2, e1, e2, p1, s1

MCInitialWallet ==
    [m \in Members |-> [SPENDING |-> 2, FUNDING_RESERVED |-> 0,
                        EARNINGS |-> 1, RESERVED_FOR_PAYOUTS |-> 0]]
MCTerms == [t \in TopUps |-> [owner |-> m1, credit |-> IF t = t1 THEN 2 ELSE 3]]

\* Two Top-ups compete for the room in one Wallet: one whose payment and
\* reversal are reported, and one that only reconciliation hears of.
PaidAndReversed ==
    [e \in Events |-> [topUp |-> t1, kind |-> IF e = e1 THEN "PAID" ELSE "REVERSED"]]
=============================================================================
