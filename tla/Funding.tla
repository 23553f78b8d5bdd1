------------------------------ MODULE Funding ------------------------------
(***************************************************************************)
(* Funding Reservations: money a Hirer sets aside for a workflow (a Quest) *)
(* and that is paid out of it, or returned.                                *)
(*                                                                         *)
(* A reservation is opened against the effective Money Policy, increased,  *)
(* settled to Workers piece by piece, released, and redirected by Dispute  *)
(* Cases before and after the release.  Every operation is one database    *)
(* transaction that locks the reservation row and runs at most once per    *)
(* idempotency key; callers retry, so any command may come again.  The     *)
(* sums over a reservation's history that the code and the database form   *)
(* (operations, settlements, dispute settlements) are kept beside its row; *)
(* the rows of the history themselves are kept by key.                     *)
(***************************************************************************)
EXTENDS Wallet, FiniteSetsExt

CONSTANTS
    Reservations,   \* (owner, caller scope, caller reference)
    Callers,        \* Callers[r]: owner and scope
    Amounts,        \* amounts the callers ask for
    Fees,           \* fees the Quest module snapshotted at publish
    References,     \* idempotency keys of the callers
    Revisions,      \* Money Policy revisions
    Policies,       \* Policies[v]: minimum, maximum, fee in basis points
    FirstRevision   \* the one in effect at the start

CallerScopes == {"quest", "other"}
CommandKinds == {"operation", "settlement", "dispute"}
ReservationStatuses == {"NONE", "ACTIVE", "RELEASED", "SETTLED"}

ReservationRows ==
    [status: ReservationStatuses,
     policy: Revisions,     \* snapshot of the revision it was opened under
     total: Int, remaining: Int,
     settled: Int,          \* sum of its settlements, fees included
     redirected: Int,       \* sum of dispute settlements out of the escrow
     late: Int,             \* sum of dispute settlements after the release
     released: Int]         \* what the release returned

NoReservation ==
    [status |-> "NONE", policy |-> FirstRevision, total |-> 0, remaining |-> 0,
     settled |-> 0, redirected |-> 0, late |-> 0, released |-> 0]

Commands ==
    [reservation: Reservations, kind: CommandKinds, key: References, amount: Int]

ASSUME FundingAssumption ==
    /\ IsFiniteSet(Reservations)
    /\ Callers \in [Reservations -> [owner: Members, scope: CallerScopes]]
    /\ Amounts \subseteq Nat \ {0}
    /\ Fees \subseteq Nat
    /\ Policies \in [Revisions -> [min: Nat, max: Nat, bps: Nat]]
    /\ FirstRevision \in Revisions

VARIABLES
    policy,       \* the revision in effect
    reservation,  \* reservation[r]: its row and its history
    history       \* one row per committed command, under its idempotency key

fundingVars == <<policy, reservation, history>>
vars == <<walletVars, fundingVars>>

Owner(r) == Callers[r].owner

TypeOK ==
    /\ WalletTypeOK
    /\ policy \in Revisions
    /\ reservation \in [Reservations -> ReservationRows]
    /\ history \subseteq Commands

Init ==
    /\ WalletInit
    /\ policy = FirstRevision
    /\ reservation = [r \in Reservations |-> NoReservation]
    /\ history = {}

-----------------------------------------------------------------------------
\* Mutant: the key row is not looked at.
RunAgain(r, kind, k, amount) ==
    history' = history \union
        {[reservation |-> r, kind |-> kind, key |-> k, amount |-> amount]}

\* runMoneyCommand: the command that inserts the key row runs, a later one
\* with the same key replays its result or is refused; neither changes more.
RunOnce(r, kind, k, amount) ==
    /\ \A c \in history : <<c.reservation, c.kind, c.key>> # <<r, kind, k>>
    /\ history' = history \union
           {[reservation |-> r, kind |-> kind, key |-> k, amount |-> amount]}

WithinPolicy(v, n) == Policies[v].min <= n /\ n <= Policies[v].max

\* calculatePlatformFeeSatang rounds up.
PlatformFee(n, bps) == (n * bps + 9999) \div 10000

\* A new Money Policy revision takes effect.
PolicyTakesEffect(v) ==
    /\ policy' = v
    /\ UNCHANGED <<walletVars, reservation, history>>

\* The caller reference is both the idempotency key and unique on the row.
ReserveSpending(r, n) ==
    /\ reservation[r].status = "NONE"
    /\ WithinPolicy(policy, n)
    /\ StudentMayStart(Owner(r))
    /\ PostToWallet(Owner(r), Posted(wallet[Owner(r)], -n, n, 0, 0))
    /\ reservation' = [reservation EXCEPT ![r] =
           [status |-> "ACTIVE", policy |-> policy, total |-> n, remaining |-> n,
            settled |-> 0, redirected |-> 0, late |-> 0, released |-> 0]]
    /\ UNCHANGED <<platform, walletStatus, policy, history>>

\* Mutant: the status of the locked row is not checked.
IncreaseClosedReservation(r, k, n) ==
    LET row == reservation[r]
    IN  /\ RunOnce(r, "operation", k, n)
        /\ row.status # "NONE"
        /\ WithinPolicy(row.policy, n)
        /\ row.total + n <= Capacity
        /\ StudentMayStart(Owner(r))
        /\ PostToWallet(Owner(r), Posted(wallet[Owner(r)], -n, n, 0, 0))
        /\ reservation' = [reservation EXCEPT ![r] =
               [row EXCEPT !.total = row.total + n, !.remaining = row.remaining + n]]
        /\ UNCHANGED <<platform, walletStatus, policy>>

IncreaseFundingReservation(r, k, n) ==
    LET row == reservation[r]
    IN  /\ RunOnce(r, "operation", k, n)
        /\ row.status = "ACTIVE"
        /\ WithinPolicy(row.policy, n)
        /\ row.total + n <= Capacity
        /\ StudentMayStart(Owner(r))
        /\ PostToWallet(Owner(r), Posted(wallet[Owner(r)], -n, n, 0, 0))
        /\ reservation' = [reservation EXCEPT ![r] =
               [row EXCEPT !.total = row.total + n, !.remaining = row.remaining + n]]
        /\ UNCHANGED <<platform, walletStatus, policy>>

\* What a release leaves of the row.
Released(row) ==
    [status |-> "RELEASED", policy |-> row.policy, total |-> row.total,
     remaining |-> 0, settled |-> row.settled, redirected |-> row.redirected,
     late |-> row.late, released |-> row.remaining]

\* Mutant: everything that was ever reserved is returned.
ReleaseWholeReservation(r, k) ==
    LET row == reservation[r]
    IN  /\ row.status = "ACTIVE"
        /\ RunOnce(r, "operation", k, row.total)
        /\ PostToWallet(Owner(r),
               Posted(wallet[Owner(r)], row.total, -row.total, 0, 0))
        /\ reservation' = [reservation EXCEPT ![r] = Released(row)]
        /\ UNCHANGED <<platform, walletStatus, policy>>

\* Releasing what is not ACTIVE completes the key and nothing else.  A frozen
\* Wallet still gets its money back.
ReleaseFundingReservation(r, k) ==
    LET row == reservation[r]
    IN  /\ row.status # "NONE"
        /\ RunOnce(r, "operation", k, row.remaining)
        /\ \/ /\ row.status = "ACTIVE"
              /\ PostToWallet(Owner(r),
                     Posted(wallet[Owner(r)], row.remaining, -row.remaining, 0, 0))
              /\ reservation' = [reservation EXCEPT ![r] = Released(row)]
           \/ /\ row.status # "ACTIVE"
              /\ UNCHANGED <<wallet, reservation>>
        /\ UNCHANGED <<platform, walletStatus, policy>>

\* Mutant: an empty reservation stays open.
DrawnNeverSettled(row, n) ==
    [row EXCEPT !.remaining = row.remaining - n]

\* What a payment of n leaves of the row; an empty reservation is SETTLED.
Drawn(row, n) ==
    [row EXCEPT !.remaining = row.remaining - n,
                !.status = IF row.remaining = n THEN "SETTLED" ELSE "ACTIVE"]

\* The fee a caller may ask for: the one of the snapshotted Money Policy or
\* none; a Quest may also bring the fee it fixed when it was published.
FeeAccepted(r, n, fee) ==
    \/ fee \in {0, PlatformFee(n, Policies[reservation[r].policy].bps)}
    \/ Callers[r].scope = "quest"

\* The recipient is paid into EARNINGS; PostTransfer is the capacity check.
SettleFundingReservation(r, k, to, n, fee) ==
    LET row == reservation[r]
    IN  /\ FeeAccepted(r, n, fee)
        /\ RunOnce(r, "settlement", k, n + fee)
        /\ row.status = "ACTIVE"
        /\ row.remaining >= n + fee
        /\ PostTransfer(Transferred(Owner(r), 0, n + fee, to, n))
        /\ PostToPlatform(fee, 0)
        /\ reservation' = [reservation EXCEPT ![r] =
               [Drawn(row, n + fee) EXCEPT !.settled = row.settled + n + fee]]
        /\ UNCHANGED <<walletStatus, policy>>

\* calculateDisputeResolutionAmountSatang accepts an Admin's exact decision or
\* refuses it; the cap follows the Money Policy in effect now.
WithinDisputeCap(n, available) == n <= available /\ n <= Policies[policy].max

\* settleDisputeCase while the escrow is held.
RedirectHeldFunds(r, k, to, n) ==
    LET row == reservation[r]
    IN  /\ RunOnce(r, "dispute", k, n)
        /\ row.status = "ACTIVE"
        /\ WithinDisputeCap(n, row.remaining)
        /\ PostTransfer(Transferred(Owner(r), 0, n, to, n))
        /\ reservation' = [reservation EXCEPT ![r] =
               [Drawn(row, n) EXCEPT !.redirected = row.redirected + n]]
        /\ UNCHANGED <<platform, walletStatus, policy>>

\* What the history leaves of the commitment after the release.
Uncommitted(row) == row.total - row.settled - (row.redirected + row.late)

\* settleDisputeCase after the release: the Hirer's SPENDING pays, and the row
\* keeps its columns; only the history grows.
RedirectReleasedFunds(r, k, to, n) ==
    LET row == reservation[r]
    IN  /\ RunOnce(r, "dispute", k, n)
        /\ row.status = "RELEASED"
        /\ WithinDisputeCap(n, Uncommitted(row))
        /\ PostTransfer(Transferred(Owner(r), n, 0, to, n))
        /\ reservation' = [reservation EXCEPT ![r] =
               [row EXCEPT !.late = row.late + n]]
        /\ UNCHANGED <<platform, walletStatus, policy>>

OtherWalletActivity ==
    /\ \/ \E m \in Members, n \in ConversionLimits : ConvertEarnings(m, n)
       \/ \E m \in Members, s \in StatusChanges : ChangeWalletStatus(m, s)
    /\ UNCHANGED fundingVars

ReservationStep(r) ==
    \/ \E n \in Amounts : ReserveSpending(r, n)
    \/ \E k \in References : ReleaseFundingReservation(r, k)
    \/ \E k \in References, n \in Amounts : IncreaseFundingReservation(r, k, n)
    \/ \E k \in References, to \in Members, n \in Amounts :
          \/ \E fee \in Fees \union {PlatformFee(n, Policies[reservation[r].policy].bps)} :
                SettleFundingReservation(r, k, to, n, fee)
          \/ RedirectHeldFunds(r, k, to, n)
          \/ RedirectReleasedFunds(r, k, to, n)

Next ==
    \/ \E r \in Reservations : ReservationStep(r)
    \/ \E v \in Revisions : PolicyTakesEffect(v)
    \/ OtherWalletActivity

Spec == Init /\ [][Next]_vars

-----------------------------------------------------------------------------
(* Properties *)

\* The row is what its history says (wallet_assert_funding_reservation_history
\* and the completion check), whatever order payments, disputes and the
\* release came in: nothing is paid by a command that left no history.
RowMatchesHistory ==
    \A r \in Reservations : LET row == reservation[r] IN
        /\ row.remaining = row.total - row.settled - row.redirected - row.released
        /\ row.status = "ACTIVE" <=> row.remaining > 0

\* A Hirer never pays more for a reservation than was committed to it, the
\* disputes decided after its release included.
PaidWithinTotal ==
    \A r \in Reservations : LET row == reservation[r] IN
        row.settled + row.redirected + row.late <= row.total

\* What the commands of one kind that ran for r asked for.
Asked(r, kind) ==
    SumFunctionOnSet([c \in history |-> c.amount],
                     {c \in history : c.reservation = r /\ c.kind = kind})

\* A retried command pays nobody twice: what was settled and redirected is what
\* the commands with different keys asked for.
EachKeyPaysOnce ==
    \A r \in Reservations :
        /\ reservation[r].settled = Asked(r, "settlement")
        /\ reservation[r].redirected + reservation[r].late = Asked(r, "dispute")

\* What the reservations of m hold.
Held(m) ==
    SumFunctionOnSet([r \in Reservations |-> reservation[r].remaining],
                     {r \in Reservations : Owner(r) = m})

\* FUNDING_RESERVED of a Member is exactly what his open reservations hold:
\* none of them can spend the escrow of another.
EscrowMatchesWallet ==
    \A m \in Members :
        wallet[m].FUNDING_RESERVED - InitialWallet[m].FUNDING_RESERVED = Held(m)

-----------------------------------------------------------------------------
(* The promise, and how the detailed state keeps it. *)

PhaseOf(row) ==
    CASE row.status = "NONE" -> "FREE"
      [] row.status = "ACTIVE" -> "OPEN"
      [] OTHER -> "CLOSED"

Promise == INSTANCE FundingPromise WITH
    OwnerOf <- [r \in Reservations |-> Owner(r)],
    Sizes <- 0 .. Capacity,
    InitialTotal <- [m \in Members |-> WalletTotal(InitialWallet[m])],
    phase <- [r \in Reservations |-> PhaseOf(reservation[r])],
    committed <- [r \in Reservations |-> reservation[r].total],
    paid <- [r \in Reservations |-> reservation[r].settled
                + reservation[r].redirected + reservation[r].late],
    total <- [m \in Members |-> WalletTotal(wallet[m])]

\* Funding implements FundingPromise.
KeepsPromise == Promise!Spec
=============================================================================
