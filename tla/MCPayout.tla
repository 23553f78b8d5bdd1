------------------------------ MODULE MCPayout ------------------------------
(* Small instances of Payout for TLC. *)
EXTENDS Payout, TLC

CONSTANTS m1, q1, q2, w1, w2

MCQuotes == {q1, q2}
MCInitialWallet ==
    [m \in Members |-> [SPENDING |-> 0, FUNDING_RESERVED |-> 0,
                        EARNINGS |-> 5, RESERVED_FOR_PAYOUTS |-> 0]]
MCTerms ==
    [q \in Quotes |->
        IF q = q1 THEN [owner |-> m1, principal |-> 2, fee |-> 1, tax |-> 0]
        ELSE [owner |-> m1, principal |-> 1, fee |-> 0, tax |-> 1]]
\* For q1 [fee 1] is the whole reserve; for q2 it is the wrong split but within.
WithinQuote == {[fee |-> 0, tax |-> 0], [fee |-> 1, tax |-> 0]}
AboveQuote == WithinQuote \union {[fee |-> 2, tax |-> 0]}
\* Both processes share their configuration; q2's destination is unreadable.
SharedPreparation == [q \in Quotes |-> IF q = q1 THEN "WORKS" ELSE "FAILS"]
Symmetry == Permutations(Workers)
=============================================================================
