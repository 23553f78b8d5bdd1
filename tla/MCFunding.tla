----------------------------- MODULE MCFunding -----------------------------
(* Small instances of Funding for TLC. *)
EXTENDS Funding, TLC
CONSTANTS hirer, worker, r1, r2, k1, k2, k3, v1, v2
MCMembers == {hirer, worker}
\* The worker's Wallet is one short of its capacity from taking every payment.
MCInitialWallet ==
    [m \in Members |-> [SPENDING |-> IF m = hirer THEN 4 ELSE 2, FUNDING_RESERVED |-> 0,
                        EARNINGS |-> 0, RESERVED_FOR_PAYOUTS |-> 0]]
\* r1 is a Quest's escrow; r2 another workflow's, bound to the policy's fee.
MCCallers ==
    [r \in Reservations |->
        [owner |-> hirer, scope |-> IF r = r1 THEN "quest" ELSE "other"]]
\* A fee that rounds up, and a later policy with a lower maximum and no fee.
MCPolicies ==
    [v \in Revisions |-> IF v = v1 THEN [min |-> 1, max |-> 3, bps |-> 4000]
                         ELSE [min |-> 1, max |-> 1, bps |-> 0]]
=============================================================================
