--------------------------- MODULE FundingPromise ---------------------------
(***************************************************************************)
(* What a Funding Reservation promises the Hirer and the Workers.          *)
(*                                                                         *)
(* A reservation only commits money until it is closed.  Money leaves the  *)
(* Hirer's Wallet only as a payment of a reservation, to one recipient and *)
(* the platform, and all payments together stay within the commitment;     *)
(* once closed it charges no fee any more.  Compartments, policies, keys   *)
(* and the difference between escrow and Spending are not seen here.       *)
(***************************************************************************)
EXTENDS Integers

CONSTANTS Reservations, Members, OwnerOf, Sizes, InitialTotal

VARIABLES
    phase,      \* phase[r]: FREE, OPEN or CLOSED
    committed,  \* committed[r]: what the Hirer set aside
    paid,       \* paid[r]: what left the Hirer's Wallet for it
    total       \* total[m]: the whole of m's Wallet

vars == <<phase, committed, paid, total>>

Init ==
    /\ phase = [r \in Reservations |-> "FREE"]
    /\ committed = [r \in Reservations |-> 0]
    /\ paid = [r \in Reservations |-> 0]
    /\ total = InitialTotal

Commit(r, n) ==
    /\ phase[r] # "CLOSED"
    /\ phase' = [phase EXCEPT ![r] = "OPEN"]
    /\ committed' = [committed EXCEPT ![r] = committed[r] + n]
    /\ UNCHANGED <<paid, total>>

Pay(r, to, n, fee) ==
    /\ phase[r] # "FREE"
    /\ phase[r] = "CLOSED" => fee = 0
    /\ paid[r] + n + fee <= committed[r]
    /\ paid' = [paid EXCEPT ![r] = paid[r] + n + fee]
    /\ \/ phase' = phase
       \/ phase' = [phase EXCEPT ![r] = "CLOSED"]
    /\ total' = [m \in Members |->
           total[m] - (IF m = OwnerOf[r] THEN n + fee ELSE 0)
                    + (IF m = to THEN n ELSE 0)]
    /\ UNCHANGED committed

Close(r) ==
    /\ phase[r] = "OPEN"
    /\ phase' = [phase EXCEPT ![r] = "CLOSED"]
    /\ UNCHANGED <<committed, paid, total>>

Next ==
    \E r \in Reservations :
        \/ \E n \in Sizes : Commit(r, n)
        \/ \E to \in Members, n \in Sizes, fee \in Sizes : Pay(r, to, n, fee)
        \/ Close(r)

Spec == Init /\ [][Next]_vars
=============================================================================
