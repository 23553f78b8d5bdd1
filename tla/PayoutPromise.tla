---------------------------- MODULE PayoutPromise ----------------------------
(***************************************************************************)
(* What a Payout promises a Member, whatever Workers, webhooks, crashes    *)
(* and retries do: the money is held once, and then either taken once,     *)
(* never more than the Quote's maximum debit, or returned; what was taken  *)
(* can come back once, in full.  A Member has at most one Payout on hold.  *)
(***************************************************************************)
EXTENDS Integers

CONSTANTS
    Members, Quotes,
    OwnerOf,       \* OwnerOf[q]
    Limit,         \* Limit[q]: the maximum debit
    InitialTotal   \* InitialTotal[m]: everything in the Wallet of m

VARIABLES
    phase,   \* phase[q] \in {"IDLE", "HELD", "TAKEN", "RETURNED", "REFUNDED"}
    taken,   \* taken[q]: the debit while TAKEN, else 0
    total    \* total[m]: everything in the Wallet of m, reserve included

vars == <<phase, taken, total>>

Init ==
    /\ phase = [q \in Quotes |-> "IDLE"]
    /\ taken = [q \in Quotes |-> 0]
    /\ total = InitialTotal

Hold(q) ==
    /\ phase[q] = "IDLE"
    /\ \A p \in Quotes : OwnerOf[p] = OwnerOf[q] => phase[p] # "HELD"
    /\ phase' = [phase EXCEPT ![q] = "HELD"]
    /\ UNCHANGED <<taken, total>>

Take(q) ==
    /\ phase[q] = "HELD"
    /\ \E n \in 1..Limit[q] :
          /\ taken' = [taken EXCEPT ![q] = n]
          /\ total' = [total EXCEPT ![OwnerOf[q]] = @ - n]
    /\ phase' = [phase EXCEPT ![q] = "TAKEN"]

Return(q) ==
    /\ phase[q] = "HELD"
    /\ phase' = [phase EXCEPT ![q] = "RETURNED"]
    /\ UNCHANGED <<taken, total>>

Refund(q) ==
    /\ phase[q] = "TAKEN"
    /\ phase' = [phase EXCEPT ![q] = "REFUNDED"]
    /\ total' = [total EXCEPT ![OwnerOf[q]] = @ + taken[q]]
    /\ taken' = [taken EXCEPT ![q] = 0]

Next == \E q \in Quotes : Hold(q) \/ Take(q) \/ Return(q) \/ Refund(q)

Spec == Init /\ [][Next]_vars
=============================================================================
