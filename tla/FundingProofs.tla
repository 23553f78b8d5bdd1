--------------------------- MODULE FundingProofs ---------------------------
(***************************************************************************)
(* Theorems about Funding, for every value of its constants.               *)
(*                                                                         *)
(* Every step is one of four things seen from one reservation: it commits  *)
(* money, pays, closes, or leaves all reservations and totals alone        *)
(* (Effect).  The invariants and the refinement follow from that.          *)
(***************************************************************************)
EXTENDS Funding, Sums

\* What the constants give for one reservation and one amount.
LEMMA ConstantFacts ==
    /\ \A r \in Reservations : Owner(r) \in Members
    /\ \A n \in Amounts : n \in Nat /\ n > 0
    /\ \A n \in Fees : n \in Nat
BY FundingAssumption DEF Owner

\* A fee is never negative: rounding up keeps the sign.
LEMMA FeeFacts ==
    ASSUME NEW n \in Amounts, NEW v \in Revisions
    PROVE  PlatformFee(n, Policies[v].bps) \in Nat
<1>1. n \in Nat /\ Policies[v].bps \in Nat
  BY FundingAssumption
<1>2. ASSUME NEW b \in Nat PROVE n * b \in Nat
  BY <1>1, <1>2
<1>3. ASSUME NEW x \in Nat PROVE (x + 9999) \div 10000 \in Nat
  BY <1>3
<1> QED
  BY <1>1, <1>2, <1>3 DEF PlatformFee

\* The relations between the columns of a row and its history that every
\* command keeps.
RowInv(row) ==
    /\ row.remaining = row.total - row.settled - row.redirected - row.released
    /\ row.status = "ACTIVE" <=> row.remaining > 0
    /\ row.remaining >= 0 /\ row.settled >= 0 /\ row.redirected >= 0
    /\ row.late >= 0 /\ row.released >= 0
    /\ row.status # "RELEASED" => row.late = 0 /\ row.released = 0
    /\ row.status = "NONE" => row.total = 0
    /\ row.settled + row.redirected + row.late <= row.total
    /\ row.total <= Capacity

WalletsValid == \A m \in Members : ValidProjection(wallet[m])

RowsInv == \A r \in Reservations : RowInv(reservation[r])

StrongInv == TypeOK /\ WalletsValid /\ RowsInv

-----------------------------------------------------------------------------
(* What a step does to the reservations and to the Wallet totals *)

Totals == [m \in Members |-> WalletTotal(wallet[m])]

PaidBy(row) == row.settled + row.redirected + row.late

\* Only the row of r changes.
OnlyRow(r) ==
    /\ reservation' \in [Reservations -> ReservationRows]
    /\ \A s \in Reservations \ {r} : reservation'[s] = reservation[s]

Quiet == reservation' = reservation /\ Totals' = Totals

CommitsRow(old, new, n) ==
    /\ old.status \in {"NONE", "ACTIVE"} /\ new.status = "ACTIVE"
    /\ new.total = old.total + n /\ new.remaining = old.remaining + n
    /\ new.settled = old.settled /\ new.redirected = old.redirected
    /\ new.late = old.late /\ new.released = old.released
    /\ n > 0 /\ n <= Capacity /\ old.total + n <= Capacity

Commits(r, n) ==
    OnlyRow(r) /\ CommitsRow(reservation[r], reservation'[r], n) /\ Totals' = Totals

ClosesRow(old, new) ==
    /\ old.status = "ACTIVE" /\ new.status = "RELEASED"
    /\ new.total = old.total /\ new.remaining = 0
    /\ new.settled = old.settled /\ new.redirected = old.redirected
    /\ new.late = old.late /\ new.released = old.remaining

Closes(r) ==
    OnlyRow(r) /\ ClosesRow(reservation[r], reservation'[r]) /\ Totals' = Totals

\* A payment out of the escrow, or after the release.
PaysRow(old, new, n, fee) ==
    /\ n > 0 /\ fee >= 0
    /\ new.total = old.total /\ new.released = old.released
    /\ \/ /\ old.status = "ACTIVE"
          /\ n + fee <= old.remaining
          /\ new.remaining = old.remaining - (n + fee)
          /\ new.status = IF old.remaining = n + fee THEN "SETTLED" ELSE "ACTIVE"
          /\ new.late = old.late
          /\ \/ new.settled = old.settled + n + fee /\ new.redirected = old.redirected
             \/ new.settled = old.settled /\ new.redirected = old.redirected + n + fee
       \/ /\ old.status = "RELEASED" /\ new.status = "RELEASED"
          /\ fee = 0 /\ n <= Uncommitted(old)
          /\ new.remaining = old.remaining
          /\ new.settled = old.settled /\ new.redirected = old.redirected
          /\ new.late = old.late + n

TransfersTotal(r, to, n, fee) ==
    Totals' = [m \in Members |->
                  Totals[m] - (IF m = Owner(r) THEN n + fee ELSE 0)
                            + (IF m = to THEN n ELSE 0)]

Pays(r, to, n, fee) ==
    /\ OnlyRow(r)
    /\ PaysRow(reservation[r], reservation'[r], n, fee)
    /\ TransfersTotal(r, to, n, fee)

Effect ==
    \/ Quiet
    \/ \E r \in Reservations :
          \/ \E n \in Nat : Commits(r, n)
          \/ Closes(r)
          \/ \E to \in Members, n \in Nat, fee \in Nat : Pays(r, to, n, fee)

-----------------------------------------------------------------------------
\* What a row update gives, column by column.
LEMMA RowFields ==
    ASSUME NEW row \in ReservationRows
    PROVE  /\ row.status \in ReservationStatuses /\ row.policy \in Revisions
           /\ row.total \in Int /\ row.remaining \in Int /\ row.settled \in Int
           /\ row.redirected \in Int /\ row.late \in Int /\ row.released \in Int
BY DEF ReservationRows

\* A release empties the row and remembers what it returned.
LEMMA ReleasedFields ==
    ASSUME NEW row \in ReservationRows
    PROVE  /\ Released(row) \in ReservationRows
           /\ Released(row).status = "RELEASED" /\ Released(row).total = row.total
           /\ Released(row).remaining = 0 /\ Released(row).settled = row.settled
           /\ Released(row).redirected = row.redirected /\ Released(row).late = row.late
           /\ Released(row).released = row.remaining
BY RowFields DEF Released, ReservationRows, ReservationStatuses

\* Replacing one row keeps the others.
LEMMA RowUpdate ==
    ASSUME TypeOK, NEW r \in Reservations, NEW row \in ReservationRows,
           reservation' = [reservation EXCEPT ![r] = row]
    PROVE  OnlyRow(r) /\ reservation'[r] = row
BY DEF OnlyRow, TypeOK

\* RunOnce leaves a history of commands.
LEMMA RunOnceTyped ==
    ASSUME TypeOK, NEW r \in Reservations, NEW kind \in CommandKinds,
           NEW k \in References, NEW n \in Int, RunOnce(r, kind, k, n)
    PROVE  history' \subseteq Commands
BY DEF TypeOK, RunOnce, Commands

\* A move between two compartments of one Wallet keeps its total.
LEMMA MoveWithin ==
    ASSUME TypeOK, NEW m \in Members, NEW n \in Int,
           PostToWallet(m, Posted(wallet[m], -n, n, 0, 0)), WalletsValid
    PROVE  /\ wallet' \in [Members -> Wallets] /\ WalletsValid'
           /\ Totals' = Totals
           /\ wallet[m].SPENDING - n >= 0
           /\ n <= Capacity
<1>1. wallet \in [Members -> Wallets] /\ wallet[m] \in Wallets /\ -n \in Int
  BY DEF TypeOK, WalletTypeOK
<1> DEFINE w == Posted(wallet[m], -n, n, 0, 0)
<1>2. /\ w \in Wallets /\ w.SPENDING = wallet[m].SPENDING + -n
      /\ WalletTotal(w) = WalletTotal(wallet[m]) + (-n) + n + 0 + 0
  BY <1>1, PostedFacts
<1> HIDE DEF w
<1>3. /\ wallet' \in [Members -> Wallets] /\ wallet'[m] = w
      /\ \A x \in Members \ {m} : wallet'[x] = wallet[x]
      /\ ValidProjection(w)
  BY <1>1, <1>2, PostToWalletFacts DEF w
<1>4. /\ WalletTotal(wallet[m]) \in Int /\ wallet[m].SPENDING \in Int
      /\ WalletTotal(wallet[m]) >= wallet[m].SPENDING
      /\ WalletTotal(wallet[m]) <= Capacity /\ Capacity \in Int
      /\ w.SPENDING >= 0
  BY <1>1, <1>3, WalletFields, WalletAssumption DEF WalletTotal, WalletsValid, ValidProjection
<1>5. Totals' = Totals
  BY <1>2, <1>3, <1>4 DEF Totals
<1>6. WalletsValid'
  BY <1>3 DEF WalletsValid
<1> QED
  BY <1>2, <1>3, <1>4, <1>5, <1>6

\* A transfer moves what it takes from one Wallet to the other.
LEMMA TransferTotals ==
    ASSUME TypeOK, NEW r \in Reservations, NEW to \in Members,
           NEW s \in Int, NEW f \in Int, NEW n \in Int, NEW fee \in Int, s + f = n + fee,
           PostTransfer(Transferred(Owner(r), s, f, to, n))
    PROVE  /\ wallet' \in [Members -> Wallets] /\ WalletsValid'
           /\ TransfersTotal(r, to, n, fee)
<1>1. wallet \in [Members -> Wallets]
  BY DEF TypeOK, WalletTypeOK
<1>2. wallet' = Transferred(Owner(r), s, f, to, n)
      /\ \A m \in Members : ValidProjection(wallet'[m])
  BY DEF PostTransfer
<1>3. /\ wallet' \in [Members -> Wallets]
      /\ \A m \in Members :
            WalletTotal(wallet'[m]) = WalletTotal(wallet[m])
                - (IF m = Owner(r) THEN s + f ELSE 0) + (IF m = to THEN n ELSE 0)
  BY <1>1, <1>2, TransferredFacts
<1> QED
  BY <1>2, <1>3 DEF WalletsValid, TransfersTotal, Totals

-----------------------------------------------------------------------------
(* One lemma per command: it keeps the types and has one effect.           *)

Good == TypeOK' /\ WalletsValid' /\ Effect

\* reserveSpending commits the first money of a reservation.
LEMMA ReserveEffect ==
    ASSUME StrongInv, NEW r \in Reservations, NEW n \in Amounts, ReserveSpending(r, n)
    PROVE  Good
<1> DEFINE row == [status |-> "ACTIVE", policy |-> policy, total |-> n, remaining |-> n,
                   settled |-> 0, redirected |-> 0, late |-> 0, released |-> 0]
<1>1. n \in Nat /\ n > 0 /\ Owner(r) \in Members /\ policy \in Revisions
  BY ConstantFacts DEF StrongInv, TypeOK
<1>2. /\ row \in ReservationRows
      /\ row.status = "ACTIVE" /\ row.total = n /\ row.remaining = n /\ row.settled = 0
      /\ row.redirected = 0 /\ row.late = 0 /\ row.released = 0
  BY <1>1 DEF ReservationRows, ReservationStatuses
<1> HIDE DEF row
<1>3. OnlyRow(r) /\ reservation'[r] = row
  BY <1>2, RowUpdate DEF ReserveSpending, StrongInv, row
<1>4. /\ wallet' \in [Members -> Wallets] /\ WalletsValid' /\ Totals' = Totals /\ n <= Capacity
  BY <1>1, MoveWithin DEF ReserveSpending, StrongInv
<1>5. /\ reservation[r] \in ReservationRows /\ RowInv(reservation[r])
      /\ reservation[r].status = "NONE"
  BY DEF StrongInv, TypeOK, RowsInv, ReserveSpending
<1>6. CommitsRow(reservation[r], row, n)
  <2> DEFINE old == reservation[r]
  <2>1. /\ old.total = 0 /\ old.late = 0 /\ old.released = 0
        /\ old.settled >= 0 /\ old.redirected >= 0
        /\ old.settled + old.redirected + old.late <= old.total
        /\ old.remaining = old.total - old.settled - old.redirected - old.released
    BY <1>5 DEF RowInv
  <2>2. old.settled \in Int /\ old.redirected \in Int
    BY <1>5, RowFields
  <2> HIDE DEF old
  <2>3. old.settled = 0 /\ old.redirected = 0 /\ old.remaining = 0
    BY <2>1, <2>2
  <2> QED
    BY <1>1, <1>2, <1>4, <1>5, <2>1, <2>3 DEF CommitsRow, old
<1>7. Commits(r, n)
  BY <1>3, <1>4, <1>6 DEF Commits
<1>8. TypeOK'
  BY <1>3, <1>4 DEF ReserveSpending, StrongInv, TypeOK, WalletTypeOK, OnlyRow
<1> QED
  BY <1>1, <1>4, <1>7, <1>8 DEF Good, Effect

\* increaseFundingReservation commits more.
LEMMA IncreaseEffect ==
    ASSUME StrongInv, NEW r \in Reservations, NEW k \in References, NEW n \in Amounts,
           IncreaseFundingReservation(r, k, n)
    PROVE  Good
<1> DEFINE old == reservation[r]
           row == [old EXCEPT !.total = old.total + n, !.remaining = old.remaining + n]
<1>1. n \in Nat /\ n > 0 /\ Owner(r) \in Members
  BY ConstantFacts
<1>2. old \in ReservationRows /\ old.status = "ACTIVE" /\ old.total + n <= Capacity
  BY DEF StrongInv, TypeOK, IncreaseFundingReservation
<1>3. /\ row \in ReservationRows
      /\ row.status = old.status /\ row.total = old.total + n
      /\ row.remaining = old.remaining + n /\ row.settled = old.settled
      /\ row.redirected = old.redirected /\ row.late = old.late /\ row.released = old.released
  <2> DEFINE t == old.total + n
             x == old.remaining + n
  <2>1. t \in Int /\ x \in Int /\ row = [old EXCEPT !.total = t, !.remaining = x]
    BY <1>1, <1>2, RowFields
  <2> HIDE DEF old, row, t, x
  <2>2. /\ row \in ReservationRows
        /\ row.status = old.status /\ row.total = t
        /\ row.remaining = x /\ row.settled = old.settled
        /\ row.redirected = old.redirected /\ row.late = old.late
        /\ row.released = old.released
    BY <1>2, <2>1 DEF ReservationRows
  <2> QED
    BY <2>2 DEF t, x
<1>4. reservation' = [reservation EXCEPT ![r] = row]
  BY DEF IncreaseFundingReservation
<1> HIDE DEF row, old
<1>5. OnlyRow(r) /\ reservation'[r] = row
  BY <1>3, <1>4, RowUpdate DEF StrongInv
<1>6. /\ wallet' \in [Members -> Wallets] /\ WalletsValid' /\ Totals' = Totals /\ n <= Capacity
  BY <1>1, MoveWithin DEF IncreaseFundingReservation, StrongInv
<1>7. CommitsRow(old, row, n)
  BY <1>1, <1>2, <1>3, <1>6 DEF CommitsRow
<1>8. Commits(r, n)
  BY <1>5, <1>6, <1>7 DEF Commits, old
<1>9. history' \subseteq Commands
  BY <1>1, RunOnceTyped DEF IncreaseFundingReservation, StrongInv, CommandKinds
<1>10. TypeOK'
  BY <1>5, <1>6, <1>9 DEF IncreaseFundingReservation, StrongInv, TypeOK, WalletTypeOK, OnlyRow
<1> QED
  BY <1>1, <1>6, <1>8, <1>10 DEF Good, Effect

\* releaseFundingReservation closes an ACTIVE reservation once, and changes
\* nothing of a closed one.
LEMMA ReleaseEffect ==
    ASSUME StrongInv, NEW r \in Reservations, NEW k \in References,
           ReleaseFundingReservation(r, k)
    PROVE  Good
<1> DEFINE old == reservation[r]
           row == Released(old)
<1>1. /\ old \in ReservationRows /\ old.remaining \in Int /\ -old.remaining \in Int
      /\ Owner(r) \in Members
  BY ConstantFacts, RowFields DEF StrongInv, TypeOK
<1>2. history' \subseteq Commands
  BY <1>1, RunOnceTyped DEF ReleaseFundingReservation, StrongInv, CommandKinds
<1>3. CASE UNCHANGED <<wallet, reservation>>
  <2>1. TypeOK'
    BY <1>2, <1>3 DEF ReleaseFundingReservation, StrongInv, TypeOK, WalletTypeOK
  <2>2. Quiet /\ WalletsValid'
    BY <1>3 DEF Quiet, Totals, StrongInv, WalletsValid
  <2> QED
    BY <2>1, <2>2 DEF Good, Effect
<1>4. CASE /\ old.status = "ACTIVE"
           /\ PostToWallet(Owner(r),
                  Posted(wallet[Owner(r)], old.remaining, -old.remaining, 0, 0))
           /\ reservation' = [reservation EXCEPT ![r] = row]
  <2>1. /\ row \in ReservationRows
        /\ row.status = "RELEASED" /\ row.total = old.total
        /\ row.remaining = 0 /\ row.settled = old.settled
        /\ row.redirected = old.redirected /\ row.late = old.late
        /\ row.released = old.remaining
    BY <1>1, ReleasedFields
  <2> HIDE DEF row
  <2>2. OnlyRow(r) /\ reservation'[r] = row
    BY <1>4, <2>1, RowUpdate DEF StrongInv
  <2>3. -(-old.remaining) = old.remaining
    BY <1>1
  <2>4. /\ wallet' \in [Members -> Wallets] /\ WalletsValid' /\ Totals' = Totals
    BY <1>1, <1>4, <2>3, MoveWithin DEF StrongInv
  <2>5. Closes(r)
    BY <1>4, <2>1, <2>2, <2>4 DEF Closes, ClosesRow
  <2>6. TypeOK'
    BY <1>2, <2>2, <2>4 DEF ReleaseFundingReservation, StrongInv, TypeOK, WalletTypeOK, OnlyRow
  <2> QED
    BY <2>4, <2>5, <2>6 DEF Good, Effect
<1> QED
  BY <1>3, <1>4 DEF ReleaseFundingReservation

\* The row a payment leaves behind.
LEMMA DrawnFields ==
    ASSUME NEW row \in ReservationRows, NEW n \in Int
    PROVE  /\ Drawn(row, n) \in ReservationRows
           /\ Drawn(row, n).remaining = row.remaining - n
           /\ Drawn(row, n).status = IF row.remaining = n THEN "SETTLED" ELSE "ACTIVE"
           /\ Drawn(row, n).total = row.total /\ Drawn(row, n).settled = row.settled
           /\ Drawn(row, n).redirected = row.redirected /\ Drawn(row, n).late = row.late
           /\ Drawn(row, n).released = row.released
<1> DEFINE s == IF row.remaining = n THEN "SETTLED" ELSE "ACTIVE"
<1>1. s \in ReservationStatuses /\ row.remaining - n \in Int
  BY RowFields DEF ReservationStatuses
<1>2. Drawn(row, n) = [row EXCEPT !.remaining = row.remaining - n, !.status = s]
  BY DEF Drawn
<1>3. s = IF row.remaining = n THEN "SETTLED" ELSE "ACTIVE"
  OBVIOUS
<1> DEFINE x == row.remaining - n
<1> HIDE DEF s, x
<1>4. /\ x \in Int /\ Drawn(row, n) = [row EXCEPT !.remaining = x, !.status = s]
  BY <1>1, <1>2 DEF x
<1>5. /\ Drawn(row, n) \in ReservationRows /\ Drawn(row, n).remaining = x
      /\ Drawn(row, n).status = s /\ Drawn(row, n).total = row.total
      /\ Drawn(row, n).settled = row.settled /\ Drawn(row, n).late = row.late
      /\ Drawn(row, n).redirected = row.redirected /\ Drawn(row, n).released = row.released
  BY <1>1, <1>4 DEF ReservationRows
<1> QED
  BY <1>3, <1>5 DEF x

\* settleFundingReservation is a payment with its fee.
LEMMA SettleEffect ==
    ASSUME StrongInv, NEW r \in Reservations, NEW k \in References, NEW to \in Members,
           NEW n \in Amounts, NEW fee \in Nat, SettleFundingReservation(r, k, to, n, fee)
    PROVE  Good
<1> DEFINE old == reservation[r]
           drawn == Drawn(old, n + fee)
           row == [drawn EXCEPT !.settled = old.settled + n + fee]
<1>1. /\ n \in Nat /\ n > 0 /\ n + fee \in Int /\ Owner(r) \in Members
      /\ old \in ReservationRows
  BY ConstantFacts DEF StrongInv, TypeOK
<1>2. old.status = "ACTIVE" /\ n + fee <= old.remaining /\ old.settled + n + fee \in Int
      /\ old.remaining \in Int
  BY <1>1, RowFields DEF SettleFundingReservation
<1>3. /\ drawn \in ReservationRows
      /\ drawn.remaining = old.remaining - (n + fee)
      /\ drawn.status = IF old.remaining = n + fee THEN "SETTLED" ELSE "ACTIVE"
      /\ drawn.total = old.total /\ drawn.settled = old.settled
      /\ drawn.redirected = old.redirected /\ drawn.late = old.late
      /\ drawn.released = old.released
  BY <1>1, DrawnFields
<1>4. reservation' = [reservation EXCEPT ![r] = row]
  BY DEF SettleFundingReservation
<1> HIDE DEF drawn, old
<1>5. /\ row \in ReservationRows
      /\ row.remaining = drawn.remaining /\ row.status = drawn.status
      /\ row.total = drawn.total /\ row.settled = old.settled + n + fee
      /\ row.redirected = drawn.redirected /\ row.late = drawn.late
      /\ row.released = drawn.released
  BY <1>2, <1>3 DEF ReservationRows
<1> HIDE DEF row
<1>6. OnlyRow(r) /\ reservation'[r] = row
  BY <1>4, <1>5, RowUpdate DEF StrongInv
<1>7. /\ wallet' \in [Members -> Wallets] /\ WalletsValid' /\ TransfersTotal(r, to, n, fee)
  <2>1. PostTransfer(Transferred(Owner(r), 0, n + fee, to, n))
    BY DEF SettleFundingReservation
  <2>2. 0 + (n + fee) = n + fee /\ 0 \in Int
    BY <1>1
  <2> QED
    BY <1>1, <2>1, <2>2, TransferTotals DEF StrongInv
<1>8. PaysRow(old, row, n, fee)
  BY <1>1, <1>2, <1>3, <1>5 DEF PaysRow
<1>9. Pays(r, to, n, fee)
  BY <1>6, <1>7, <1>8 DEF Pays, old
<1>10. history' \subseteq Commands
  BY <1>1, RunOnceTyped DEF SettleFundingReservation, StrongInv, CommandKinds
<1>11. platform' \in Platforms
  BY PostToPlatformFacts DEF SettleFundingReservation, StrongInv, TypeOK, WalletTypeOK
<1>12. TypeOK'
  BY <1>6, <1>7, <1>10, <1>11
     DEF SettleFundingReservation, StrongInv, TypeOK, WalletTypeOK, OnlyRow
<1> QED
  BY <1>1, <1>7, <1>9, <1>12 DEF Good, Effect

\* settleDisputeCase on a held escrow is a payment without a fee.
LEMMA RedirectHeldEffect ==
    ASSUME StrongInv, NEW r \in Reservations, NEW k \in References, NEW to \in Members,
           NEW n \in Amounts, RedirectHeldFunds(r, k, to, n)
    PROVE  Good
<1> DEFINE old == reservation[r]
           drawn == Drawn(old, n)
           row == [drawn EXCEPT !.redirected = old.redirected + n]
<1>1. n \in Nat /\ n > 0 /\ Owner(r) \in Members /\ old \in ReservationRows
  BY ConstantFacts DEF StrongInv, TypeOK
<1>2. old.status = "ACTIVE" /\ n <= old.remaining /\ old.redirected + n \in Int
      /\ old.remaining \in Int
  BY <1>1, RowFields DEF RedirectHeldFunds, WithinDisputeCap
<1>3. /\ drawn \in ReservationRows
      /\ drawn.remaining = old.remaining - n
      /\ drawn.status = IF old.remaining = n THEN "SETTLED" ELSE "ACTIVE"
      /\ drawn.total = old.total /\ drawn.settled = old.settled
      /\ drawn.redirected = old.redirected /\ drawn.late = old.late
      /\ drawn.released = old.released
  BY <1>1, DrawnFields
<1>4. reservation' = [reservation EXCEPT ![r] = row]
  BY DEF RedirectHeldFunds
<1> HIDE DEF drawn, old
<1>5. /\ row \in ReservationRows
      /\ row.remaining = drawn.remaining /\ row.status = drawn.status
      /\ row.total = drawn.total /\ row.settled = drawn.settled
      /\ row.redirected = old.redirected + n /\ row.late = drawn.late
      /\ row.released = drawn.released
  BY <1>2, <1>3 DEF ReservationRows
<1> HIDE DEF row
<1>6. OnlyRow(r) /\ reservation'[r] = row
  BY <1>4, <1>5, RowUpdate DEF StrongInv
<1>7. /\ wallet' \in [Members -> Wallets] /\ WalletsValid' /\ TransfersTotal(r, to, n, 0)
  <2>1. PostTransfer(Transferred(Owner(r), 0, n, to, n))
    BY DEF RedirectHeldFunds
  <2>2. 0 + n = n + 0 /\ 0 \in Int
    BY <1>1
  <2> QED
    BY <1>1, <2>1, <2>2, TransferTotals DEF StrongInv
<1>8. PaysRow(old, row, n, 0)
  BY <1>1, <1>2, <1>3, <1>5, RowFields DEF PaysRow
<1>9. Pays(r, to, n, 0)
  BY <1>6, <1>7, <1>8 DEF Pays, old
<1>10. history' \subseteq Commands
  BY <1>1, RunOnceTyped DEF RedirectHeldFunds, StrongInv, CommandKinds
<1>11. TypeOK'
  BY <1>6, <1>7, <1>10 DEF RedirectHeldFunds, StrongInv, TypeOK, WalletTypeOK, OnlyRow
<1> QED
  BY <1>1, <1>7, <1>9, <1>11 DEF Good, Effect

\* settleDisputeCase after the release is one too, out of SPENDING.
LEMMA RedirectReleasedEffect ==
    ASSUME StrongInv, NEW r \in Reservations, NEW k \in References, NEW to \in Members,
           NEW n \in Amounts, RedirectReleasedFunds(r, k, to, n)
    PROVE  Good
<1> DEFINE old == reservation[r]
           row == [old EXCEPT !.late = old.late + n]
<1>1. n \in Nat /\ n > 0 /\ Owner(r) \in Members /\ old \in ReservationRows
  BY ConstantFacts DEF StrongInv, TypeOK
<1>2. old.status = "RELEASED" /\ n <= Uncommitted(old) /\ old.late + n \in Int
  BY <1>1, RowFields DEF RedirectReleasedFunds, WithinDisputeCap
<1>3. reservation' = [reservation EXCEPT ![r] = row]
  BY DEF RedirectReleasedFunds
<1> HIDE DEF old
<1>4. /\ row \in ReservationRows
      /\ row.remaining = old.remaining /\ row.status = old.status
      /\ row.total = old.total /\ row.settled = old.settled
      /\ row.redirected = old.redirected /\ row.late = old.late + n
      /\ row.released = old.released
  BY <1>1, <1>2 DEF ReservationRows
<1> HIDE DEF row
<1>5. OnlyRow(r) /\ reservation'[r] = row
  BY <1>3, <1>4, RowUpdate DEF StrongInv
<1>6. /\ wallet' \in [Members -> Wallets] /\ WalletsValid' /\ TransfersTotal(r, to, n, 0)
  <2>1. PostTransfer(Transferred(Owner(r), n, 0, to, n))
    BY DEF RedirectReleasedFunds
  <2>2. n + 0 = n + 0 /\ 0 \in Int
    BY <1>1
  <2> QED
    BY <1>1, <2>1, <2>2, TransferTotals DEF StrongInv
<1>7. PaysRow(old, row, n, 0)
  BY <1>1, <1>2, <1>4 DEF PaysRow
<1>8. Pays(r, to, n, 0)
  BY <1>5, <1>6, <1>7 DEF Pays, old
<1>9. history' \subseteq Commands
  BY <1>1, RunOnceTyped DEF RedirectReleasedFunds, StrongInv, CommandKinds
<1>10. TypeOK'
  BY <1>5, <1>6, <1>9 DEF RedirectReleasedFunds, StrongInv, TypeOK, WalletTypeOK, OnlyRow
<1> QED
  BY <1>1, <1>6, <1>8, <1>10 DEF Good, Effect

\* A Member's conversion and a Wallet status change touch no reservation.
LEMMA OtherActivityEffect ==
    ASSUME StrongInv, OtherWalletActivity
    PROVE  Good
<1>1. /\ WalletTypeOK' /\ UNCHANGED fundingVars
      /\ \A m \in Members : WalletTotal(wallet'[m]) = WalletTotal(wallet[m])
  BY WalletCommands, WalletAssumption DEF StrongInv, TypeOK, OtherWalletActivity
<1>2. WalletsValid'
  <2>1. CASE \E m \in Members, n \in ConversionLimits : ConvertEarnings(m, n)
    <3>1. PICK m \in Members, n \in ConversionLimits : ConvertEarnings(m, n)
      BY <2>1
    <3> DEFINE w == Posted(wallet[m], n, 0, -n, 0)
    <3>2. wallet \in [Members -> Wallets]
      BY DEF StrongInv, TypeOK, WalletTypeOK
    <3>3. ValidProjection(w) /\ wallet' = [wallet EXCEPT ![m] = w]
      BY <3>1 DEF ConvertEarnings, PostToWallet
    <3> HIDE DEF w
    <3> QED
      BY <3>2, <3>3 DEF StrongInv, WalletsValid
  <2>2. CASE \E m \in Members, s \in StatusChanges : ChangeWalletStatus(m, s)
    BY <2>2 DEF StrongInv, WalletsValid, ChangeWalletStatus
  <2> QED
    BY <2>1, <2>2 DEF OtherWalletActivity
<1>3. Quiet
  BY <1>1 DEF Quiet, Totals, fundingVars
<1>4. TypeOK'
  BY <1>1 DEF StrongInv, TypeOK, fundingVars
<1> QED
  BY <1>2, <1>3, <1>4 DEF Good, Effect

\* A policy change, and a step of another part of the system, are quiet.
LEMMA QuietEffect ==
    ASSUME StrongInv,
           UNCHANGED vars \/ \E v \in Revisions : PolicyTakesEffect(v)
    PROVE  Good
<1>1. UNCHANGED <<walletVars, reservation, history>> /\ policy' \in Revisions
  BY DEF StrongInv, TypeOK, PolicyTakesEffect, vars, fundingVars
<1>2. TypeOK' /\ WalletsValid' /\ Quiet
  BY <1>1 DEF StrongInv, TypeOK, WalletTypeOK, WalletsValid, Quiet, Totals, walletVars
<1> QED
  BY <1>2 DEF Good, Effect

\* Every step has an effect.
LEMMA StepEffect ==
    ASSUME StrongInv, [Next]_vars
    PROVE  Good
<1>1. ASSUME NEW r \in Reservations, ReservationStep(r)
      PROVE  Good
  <2>1. CASE \E n \in Amounts : ReserveSpending(r, n)
    BY <2>1, ReserveEffect
  <2>2. CASE \E k \in References : ReleaseFundingReservation(r, k)
    BY <2>2, ReleaseEffect
  <2>3. CASE \E k \in References, n \in Amounts : IncreaseFundingReservation(r, k, n)
    BY <2>3, IncreaseEffect
  <2>4. ASSUME NEW k \in References, NEW to \in Members, NEW n \in Amounts,
               NEW fee \in Fees \union {PlatformFee(n, Policies[reservation[r].policy].bps)},
               SettleFundingReservation(r, k, to, n, fee)
        PROVE  Good
    <3>1. reservation[r].policy \in Revisions
      BY RowFields DEF StrongInv, TypeOK
    <3>2. fee \in Nat
      BY <3>1, FeeFacts, ConstantFacts
    <3> QED
      BY <2>4, <3>2, SettleEffect
  <2>5. ASSUME NEW k \in References, NEW to \in Members, NEW n \in Amounts,
               RedirectHeldFunds(r, k, to, n)
        PROVE  Good
    BY <2>5, RedirectHeldEffect
  <2>6. ASSUME NEW k \in References, NEW to \in Members, NEW n \in Amounts,
               RedirectReleasedFunds(r, k, to, n)
        PROVE  Good
    BY <2>6, RedirectReleasedEffect
  <2> QED
    BY <1>1, <2>1, <2>2, <2>3, <2>4, <2>5, <2>6 DEF ReservationStep
<1>2. CASE \E v \in Revisions : PolicyTakesEffect(v)
  BY <1>2, QuietEffect
<1>3. CASE OtherWalletActivity
  BY <1>3, OtherActivityEffect
<1>4. CASE UNCHANGED vars
  BY <1>4, QuietEffect
<1> QED
  BY <1>1, <1>2, <1>3, <1>4 DEF Next

-----------------------------------------------------------------------------
(* The inductive invariant *)

\* Each effect keeps the relations between a row and its history.
LEMMA EffectKeepsRow ==
    ASSUME NEW old \in ReservationRows, NEW new \in ReservationRows, RowInv(old),
           \/ \E n \in Nat : CommitsRow(old, new, n)
           \/ ClosesRow(old, new)
           \/ \E n \in Nat, fee \in Nat : PaysRow(old, new, n, fee)
    PROVE  RowInv(new)
<1>0. /\ Capacity \in Int
      /\ old.total \in Int /\ old.remaining \in Int /\ old.settled \in Int
      /\ old.redirected \in Int /\ old.late \in Int /\ old.released \in Int
      /\ new.total \in Int /\ new.remaining \in Int /\ new.settled \in Int
      /\ new.redirected \in Int /\ new.late \in Int /\ new.released \in Int
  BY RowFields, WalletAssumption
<1>1. CASE \E n \in Nat : CommitsRow(old, new, n)
  <2>1. PICK n \in Nat : CommitsRow(old, new, n)
    BY <1>1
  <2>2. /\ old.status \in {"NONE", "ACTIVE"} /\ new.status = "ACTIVE"
        /\ old.late = 0 /\ old.released = 0
    BY <2>1 DEF CommitsRow, RowInv
  <2>3. /\ new.remaining = new.total - new.settled - new.redirected - new.released
        /\ new.remaining > 0
    BY <1>0, <2>1 DEF CommitsRow, RowInv
  <2>4. /\ new.settled >= 0 /\ new.redirected >= 0 /\ new.late = 0 /\ new.released = 0
        /\ new.settled + new.redirected + new.late <= new.total /\ new.total <= Capacity
    BY <1>0, <2>1, <2>2 DEF CommitsRow, RowInv
  <2> QED
    BY <1>0, <2>2, <2>3, <2>4 DEF RowInv
<1>2. CASE ClosesRow(old, new)
  BY <1>0, <1>2 DEF ClosesRow, RowInv
<1>3. ASSUME NEW n \in Nat, NEW fee \in Nat, PaysRow(old, new, n, fee)
      PROVE  RowInv(new)
  <2>1. CASE old.status = "ACTIVE"
    <3>1. /\ new.remaining = old.remaining - (n + fee) /\ n + fee <= old.remaining
          /\ new.total = old.total /\ new.released = old.released /\ new.late = old.late
          /\ new.settled + new.redirected = old.settled + old.redirected + n + fee
          /\ new.settled >= old.settled /\ new.redirected >= old.redirected
          /\ new.status = IF old.remaining = n + fee THEN "SETTLED" ELSE "ACTIVE"
      BY <1>0, <1>3, <2>1 DEF PaysRow
    <3>2. /\ new.status \in {"SETTLED", "ACTIVE"}
          /\ new.status = "ACTIVE" <=> new.remaining > 0
      BY <1>0, <3>1
    <3>3. new.late = 0 /\ new.released = 0
      BY <2>1, <3>1 DEF RowInv
    <3>4. /\ old.remaining = old.total - old.settled - old.redirected - old.released
          /\ old.settled >= 0 /\ old.redirected >= 0 /\ old.total <= Capacity
      BY DEF RowInv
    <3>5. new.remaining = new.total - new.settled - new.redirected - new.released
      BY <1>0, <3>1, <3>4
    <3>6. new.remaining >= 0 /\ new.settled >= 0 /\ new.redirected >= 0
      BY <1>0, <3>1, <3>4
    <3>7. new.settled + new.redirected + new.late <= new.total /\ new.total <= Capacity
      BY <1>0, <3>1, <3>3, <3>4, <3>5, <3>6
    <3> QED
      BY <1>0, <3>2, <3>3, <3>5, <3>6, <3>7 DEF RowInv
  <2>2. CASE old.status = "RELEASED"
    BY <1>0, <1>3, <2>2 DEF PaysRow, RowInv, Uncommitted
  <2> QED
    BY <1>3, <2>1, <2>2 DEF PaysRow
<1> QED
  BY <1>1, <1>2, <1>3

\* The invariant holds at the start.
LEMMA InitStrong == Init => StrongInv
<1> SUFFICES ASSUME Init PROVE StrongInv
  OBVIOUS
<1>1. NoReservation \in ReservationRows /\ RowInv(NoReservation)
  BY WalletAssumption, FundingAssumption
     DEF NoReservation, ReservationRows, ReservationStatuses, RowInv
<1>2. WalletTypeOK /\ WalletsValid
  BY WalletAssumption DEF Init, WalletInit, WalletTypeOK, WalletsValid,
                          Platforms, WalletStatuses
<1> QED
  BY <1>1, <1>2, FundingAssumption DEF Init, StrongInv, TypeOK, RowsInv

\* Every step keeps it.
LEMMA NextStrong == StrongInv /\ [Next]_vars => StrongInv'
<1> SUFFICES ASSUME StrongInv, [Next]_vars PROVE StrongInv'
  OBVIOUS
<1>1. Good
  BY StepEffect
<1>2. ASSUME NEW s \in Reservations PROVE RowInv(reservation'[s])
  <2>1. /\ RowInv(reservation[s]) /\ reservation[s] \in ReservationRows
        /\ reservation'[s] \in ReservationRows
    BY <1>1, <1>2 DEF Good, StrongInv, RowsInv, TypeOK
  <2>2. CASE reservation'[s] = reservation[s]
    BY <2>1, <2>2
  <2>3. CASE \E n \in Nat : Commits(s, n)
    BY <2>1, <2>3, EffectKeepsRow DEF Commits
  <2>4. CASE Closes(s)
    BY <2>1, <2>4, EffectKeepsRow DEF Closes
  <2>5. CASE \E to \in Members, n \in Nat, fee \in Nat : Pays(s, to, n, fee)
    BY <2>1, <2>5, EffectKeepsRow DEF Pays
  <2> QED
    BY <1>1, <2>2, <2>3, <2>4, <2>5 DEF Good, Effect, Quiet, Commits, Closes, Pays, OnlyRow
<1> QED
  BY <1>1, <1>2 DEF Good, StrongInv, RowsInv

\* StrongInv is an invariant of the specification.
LEMMA Strong == Spec => []StrongInv
  BY InitStrong, NextStrong, PTL DEF Spec

\* Type correctness: every command keeps all rows and Wallets in their types.
THEOREM FundingTypeSafe == Spec => []TypeOK
<1>1. StrongInv => TypeOK
  BY DEF StrongInv
<1> QED
  BY <1>1, Strong, PTL

\* The escrow of a reservation is what its committed operations, payments and
\* disputes say, whatever order they and the release come in.
THEOREM HistorySafe == Spec => []RowMatchesHistory
<1>1. StrongInv => RowMatchesHistory
  BY DEF StrongInv, RowsInv, RowInv, RowMatchesHistory
<1> QED
  BY <1>1, Strong, PTL

\* No Hirer pays more for a reservation than was committed to it, the disputes
\* decided after its release included.
THEOREM PaidSafe == Spec => []PaidWithinTotal
<1>1. StrongInv => PaidWithinTotal
  BY DEF StrongInv, RowsInv, RowInv, PaidWithinTotal
<1> QED
  BY <1>1, Strong, PTL

-----------------------------------------------------------------------------
(* The sums: what one command adds to the history, to a row and to what    *)
(* the Wallet of its owner holds in reserve.                               *)

SumsInv == IsFiniteSet(history) /\ EachKeyPaysOnce /\ EscrowMatchesWallet

\* FUNDING_RESERVED moves as the escrow of r does.
ReserveFollows(r) ==
    \A m \in Members :
        wallet'[m].FUNDING_RESERVED = wallet[m].FUNDING_RESERVED
            + (IF m = Owner(r) THEN reservation'[r].remaining - reservation[r].remaining ELSE 0)

\* One command of this kind for n entered in the history, in the row of r and
\* in the Wallets; an operation may leave no history row of its own.
Entered(r, kind, n) ==
    /\ \/ kind = "operation" /\ history' = history
       \/ \E k \in References : RunOnce(r, kind, k, n)
    /\ OnlyRow(r)
    /\ reservation'[r].settled =
           reservation[r].settled + (IF kind = "settlement" THEN n ELSE 0)
    /\ reservation'[r].redirected + reservation'[r].late =
           reservation[r].redirected + reservation[r].late
               + (IF kind = "dispute" THEN n ELSE 0)
    /\ ReserveFollows(r)

NothingEntered ==
    /\ reservation' = reservation /\ history' = history
    /\ \A m \in Members : wallet'[m].FUNDING_RESERVED = wallet[m].FUNDING_RESERVED

\* What a step enters.
Books ==
    \/ NothingEntered
    \/ \E r \in Reservations, kind \in CommandKinds, n \in Int : Entered(r, kind, n)

\* A posting of n between SPENDING and FUNDING_RESERVED.
LEMMA PostedReserve ==
    ASSUME NEW u \in Wallets, NEW n \in Int
    PROVE  /\ Posted(u, -n, n, 0, 0) \in Wallets
           /\ Posted(u, -n, n, 0, 0).FUNDING_RESERVED = u.FUNDING_RESERVED + n
<1>1. -n \in Int /\ 0 \in Int
  OBVIOUS
<1>2. Posted(u, -n, n, 0, 0) \in Wallets
  BY <1>1, PostedFacts
<1>3. Posted(u, -n, n, 0, 0).FUNDING_RESERVED = u.FUNDING_RESERVED + n
  BY <1>1, PostedFacts
<1> QED
  BY <1>2, <1>3

\* A posting between SPENDING and FUNDING_RESERVED of the owner.
LEMMA MoveReserved ==
    ASSUME StrongInv, NEW r \in Reservations, NEW n \in Int,
           PostToWallet(Owner(r), Posted(wallet[Owner(r)], -n, n, 0, 0)),
           reservation'[r].remaining = reservation[r].remaining + n
    PROVE  ReserveFollows(r)
<1> DEFINE m == Owner(r)
           w == Posted(wallet[m], -n, n, 0, 0)
<1>1. /\ m \in Members /\ wallet \in [Members -> Wallets] /\ wallet[m] \in Wallets
      /\ -n \in Int /\ 0 \in Int /\ reservation[r].remaining \in Int
  BY ConstantFacts, RowFields DEF StrongInv, TypeOK, WalletTypeOK
<1> HIDE DEF m
<1>2. w \in Wallets /\ w.FUNDING_RESERVED = wallet[m].FUNDING_RESERVED + n
  BY <1>1, PostedReserve
<1> HIDE DEF w
<1>3. wallet'[m] = w /\ \A x \in Members \ {m} : wallet'[x] = wallet[x]
  BY <1>1, <1>2, PostToWalletFacts DEF w, m
<1>4. \A x \in Members : wallet[x].FUNDING_RESERVED \in Int
  BY <1>1, WalletFields
<1>5. reservation'[r].remaining - reservation[r].remaining = n
  BY <1>1
<1> QED
  BY <1>2, <1>3, <1>4, <1>5 DEF ReserveFollows, m

\* A transfer takes f out of the reserve of the owner.
LEMMA TransferReserved ==
    ASSUME StrongInv, NEW r \in Reservations, NEW to \in Members,
           NEW s \in Int, NEW f \in Int, NEW n \in Int,
           PostTransfer(Transferred(Owner(r), s, f, to, n)),
           reservation'[r].remaining = reservation[r].remaining - f
    PROVE  ReserveFollows(r)
<1>1. wallet \in [Members -> Wallets] /\ reservation[r].remaining \in Int
  BY RowFields DEF StrongInv, TypeOK, WalletTypeOK
<1>2. \A m \in Members :
          wallet'[m].FUNDING_RESERVED
              = wallet[m].FUNDING_RESERVED - (IF m = Owner(r) THEN f ELSE 0)
  BY <1>1, TransferredFacts DEF PostTransfer
<1>3. \A m \in Members : wallet[m].FUNDING_RESERVED \in Int
  BY <1>1, WalletFields
<1>4. reservation'[r].remaining - reservation[r].remaining = -f
  BY <1>1
<1> QED
  BY <1>2, <1>3, <1>4 DEF ReserveFollows

\* The history under a reservation that has none is empty of money.
LEMMA NoRowNoMoney ==
    ASSUME StrongInv, NEW r \in Reservations, reservation[r].status = "NONE"
    PROVE  /\ reservation[r].settled = 0 /\ reservation[r].redirected = 0
           /\ reservation[r].late = 0 /\ reservation[r].remaining = 0
<1>1. reservation[r] \in ReservationRows /\ RowInv(reservation[r])
  BY DEF StrongInv, TypeOK, RowsInv
<1> QED
  BY <1>1, RowFields DEF RowInv

\* reserveSpending enters an escrow.
LEMMA ReserveBooks ==
    ASSUME StrongInv, NEW r \in Reservations, NEW n \in Amounts, ReserveSpending(r, n)
    PROVE  Books
<1> DEFINE row == [status |-> "ACTIVE", policy |-> policy, total |-> n, remaining |-> n,
                   settled |-> 0, redirected |-> 0, late |-> 0, released |-> 0]
<1>1. n \in Nat /\ policy \in Revisions
  BY ConstantFacts DEF StrongInv, TypeOK
<1>2. /\ row \in ReservationRows /\ row.remaining = n /\ row.settled = 0
      /\ row.redirected = 0 /\ row.late = 0
  BY <1>1 DEF ReservationRows, ReservationStatuses
<1>3. reservation' = [reservation EXCEPT ![r] = row]
  BY DEF ReserveSpending
<1> HIDE DEF row
<1>4. OnlyRow(r) /\ reservation'[r] = row
  BY <1>2, <1>3, RowUpdate DEF StrongInv
<1>5. /\ reservation[r].settled = 0 /\ reservation[r].redirected = 0
      /\ reservation[r].late = 0 /\ reservation[r].remaining = 0
  BY NoRowNoMoney DEF ReserveSpending
<1>6. ReserveFollows(r)
  <2>1. reservation'[r].remaining = reservation[r].remaining + n /\ n \in Int
    BY <1>1, <1>2, <1>4, <1>5
  <2>2. PostToWallet(Owner(r), Posted(wallet[Owner(r)], -n, n, 0, 0))
    BY DEF ReserveSpending
  <2> QED
    BY <2>1, <2>2, MoveReserved
<1>7. history' = history
  BY DEF ReserveSpending
<1>8. Entered(r, "operation", 0)
  BY <1>2, <1>4, <1>5, <1>6, <1>7 DEF Entered
<1> QED
  BY <1>8 DEF Books, CommandKinds

\* increaseFundingReservation adds to it.
LEMMA IncreaseBooks ==
    ASSUME StrongInv, NEW r \in Reservations, NEW k \in References, NEW n \in Amounts,
           IncreaseFundingReservation(r, k, n)
    PROVE  Books
<1> DEFINE old == reservation[r]
           t == old.total + n
           x == old.remaining + n
           row == [old EXCEPT !.total = t, !.remaining = x]
<1>1. /\ n \in Int /\ old \in ReservationRows /\ t \in Int /\ x \in Int
      /\ old.settled \in Int /\ old.redirected \in Int /\ old.late \in Int
  BY ConstantFacts, RowFields DEF StrongInv, TypeOK
<1>2. reservation' = [reservation EXCEPT ![r] = row]
  BY DEF IncreaseFundingReservation
<1> HIDE DEF old, t, x
<1>3. /\ row \in ReservationRows /\ row.remaining = x /\ row.settled = old.settled
      /\ row.redirected = old.redirected /\ row.late = old.late
  BY <1>1 DEF ReservationRows
<1> HIDE DEF row
<1>4. OnlyRow(r) /\ reservation'[r] = row
  BY <1>2, <1>3, RowUpdate DEF StrongInv
<1>5. ReserveFollows(r)
  <2>1. reservation'[r].remaining = reservation[r].remaining + n
    BY <1>3, <1>4 DEF x, old
  <2>2. PostToWallet(Owner(r), Posted(wallet[Owner(r)], -n, n, 0, 0))
    BY DEF IncreaseFundingReservation
  <2> QED
    BY <1>1, <2>1, <2>2, MoveReserved
<1>6. \E k2 \in References : RunOnce(r, "operation", k2, n)
  BY DEF IncreaseFundingReservation
<1>7. Entered(r, "operation", n)
  BY <1>1, <1>3, <1>4, <1>5, <1>6 DEF Entered, old
<1> QED
  BY <1>1, <1>7 DEF Books, CommandKinds

\* releaseFundingReservation empties it.
LEMMA ReleaseBooks ==
    ASSUME StrongInv, NEW r \in Reservations, NEW k \in References,
           ReleaseFundingReservation(r, k)
    PROVE  Books
<1> DEFINE old == reservation[r]
           row == Released(old)
           n == old.remaining
<1>1. /\ old \in ReservationRows /\ n \in Int /\ -n \in Int /\ -(-n) = n
      /\ old.settled \in Int /\ old.redirected \in Int /\ old.late \in Int
  BY RowFields DEF StrongInv, TypeOK
<1>2. RunOnce(r, "operation", k, n)
  BY DEF ReleaseFundingReservation
<1>3. CASE UNCHANGED <<wallet, reservation>>
  <2>1. OnlyRow(r)
    BY <1>3 DEF OnlyRow, StrongInv, TypeOK
  <2>2. \A m \in Members : wallet[m].FUNDING_RESERVED \in Int
    BY WalletFields DEF StrongInv, TypeOK, WalletTypeOK
  <2>3. ReserveFollows(r)
    BY <1>1, <1>3, <2>2 DEF ReserveFollows
  <2>4. Entered(r, "operation", n)
    BY <1>1, <1>2, <1>3, <2>1, <2>3 DEF Entered
  <2> QED
    BY <1>1, <2>4 DEF Books, CommandKinds
<1>4. CASE /\ old.status = "ACTIVE"
           /\ PostToWallet(Owner(r), Posted(wallet[Owner(r)], n, -n, 0, 0))
           /\ reservation' = [reservation EXCEPT ![r] = row]
  <2>1. /\ row \in ReservationRows /\ row.remaining = 0 /\ row.settled = old.settled
        /\ row.redirected = old.redirected /\ row.late = old.late
    BY <1>1, ReleasedFields
  <2> HIDE DEF row
  <2>2. OnlyRow(r) /\ reservation'[r] = row
    BY <1>4, <2>1, RowUpdate DEF StrongInv
  <2>3. reservation'[r].remaining = reservation[r].remaining + (-n)
    BY <1>1, <2>1, <2>2
  <2>4. ReserveFollows(r)
    <3> HIDE DEF n, old
    <3> QED
      BY <1>1, <1>4, <2>3, MoveReserved
  <2>5. Entered(r, "operation", n)
    BY <1>1, <1>2, <2>1, <2>2, <2>4 DEF Entered
  <2> QED
    BY <1>1, <2>5 DEF Books, CommandKinds
<1> QED
  BY <1>3, <1>4 DEF ReleaseFundingReservation

\* settleFundingReservation enters a settlement of the amount and its fee.
LEMMA SettleBooks ==
    ASSUME StrongInv, NEW r \in Reservations, NEW k \in References, NEW to \in Members,
           NEW n \in Amounts, NEW fee \in Nat, SettleFundingReservation(r, k, to, n, fee)
    PROVE  Books
<1> DEFINE old == reservation[r]
           a == n + fee
           drawn == Drawn(old, a)
           s == old.settled + n + fee
           row == [drawn EXCEPT !.settled = s]
<1>1. /\ n \in Int /\ a \in Int /\ old \in ReservationRows
      /\ s \in Int /\ s = old.settled + a
      /\ old.settled \in Int /\ old.redirected \in Int /\ old.late \in Int
  BY ConstantFacts, RowFields DEF StrongInv, TypeOK
<1>2. /\ drawn \in ReservationRows /\ drawn.remaining = old.remaining - a
      /\ drawn.redirected = old.redirected /\ drawn.late = old.late
  BY <1>1, DrawnFields
<1>3. reservation' = [reservation EXCEPT ![r] = row]
  BY DEF SettleFundingReservation
<1>4. PostTransfer(Transferred(Owner(r), 0, a, to, n)) /\ RunOnce(r, "settlement", k, a)
  BY DEF SettleFundingReservation
<1> HIDE DEF drawn, old, a, s
<1>5. /\ row \in ReservationRows /\ row.remaining = drawn.remaining /\ row.settled = s
      /\ row.redirected = drawn.redirected /\ row.late = drawn.late
  BY <1>1, <1>2 DEF ReservationRows
<1> HIDE DEF row
<1>6. OnlyRow(r) /\ reservation'[r] = row
  BY <1>3, <1>5, RowUpdate DEF StrongInv
<1>7. ReserveFollows(r)
  <2>1. reservation'[r].remaining = reservation[r].remaining - a /\ 0 \in Int
    BY <1>2, <1>5, <1>6 DEF old
  <2> QED
    BY <1>1, <1>4, <2>1, TransferReserved
<1>8. Entered(r, "settlement", a)
  BY <1>1, <1>2, <1>4, <1>5, <1>6, <1>7 DEF Entered, old
<1> QED
  BY <1>1, <1>8 DEF Books, CommandKinds

\* settleDisputeCase on a held escrow enters a redirection.
LEMMA RedirectHeldBooks ==
    ASSUME StrongInv, NEW r \in Reservations, NEW k \in References, NEW to \in Members,
           NEW n \in Amounts, RedirectHeldFunds(r, k, to, n)
    PROVE  Books
<1> DEFINE old == reservation[r]
           drawn == Drawn(old, n)
           s == old.redirected + n
           row == [drawn EXCEPT !.redirected = s]
<1>1. /\ n \in Int /\ old \in ReservationRows /\ s \in Int
      /\ old.settled \in Int /\ old.redirected \in Int /\ old.late \in Int
  BY ConstantFacts, RowFields DEF StrongInv, TypeOK
<1>2. /\ drawn \in ReservationRows /\ drawn.remaining = old.remaining - n
      /\ drawn.settled = old.settled /\ drawn.late = old.late
  BY <1>1, DrawnFields
<1>3. reservation' = [reservation EXCEPT ![r] = row]
  BY DEF RedirectHeldFunds
<1>4. PostTransfer(Transferred(Owner(r), 0, n, to, n)) /\ RunOnce(r, "dispute", k, n)
  BY DEF RedirectHeldFunds
<1> HIDE DEF drawn, old, s
<1>5. /\ row \in ReservationRows /\ row.remaining = drawn.remaining /\ row.redirected = s
      /\ row.settled = drawn.settled /\ row.late = drawn.late
  BY <1>1, <1>2 DEF ReservationRows
<1> HIDE DEF row
<1>6. OnlyRow(r) /\ reservation'[r] = row
  BY <1>3, <1>5, RowUpdate DEF StrongInv
<1>7. ReserveFollows(r)
  <2>1. reservation'[r].remaining = reservation[r].remaining - n /\ 0 \in Int
    BY <1>2, <1>5, <1>6 DEF old
  <2> QED
    BY <1>1, <1>4, <2>1, TransferReserved
<1>8. Entered(r, "dispute", n)
  BY <1>1, <1>2, <1>4, <1>5, <1>6, <1>7 DEF Entered, old, s
<1> QED
  BY <1>1, <1>8 DEF Books, CommandKinds

\* settleDisputeCase after the release enters one outside the escrow.
LEMMA RedirectReleasedBooks ==
    ASSUME StrongInv, NEW r \in Reservations, NEW k \in References, NEW to \in Members,
           NEW n \in Amounts, RedirectReleasedFunds(r, k, to, n)
    PROVE  Books
<1> DEFINE old == reservation[r]
           s == old.late + n
           row == [old EXCEPT !.late = s]
<1>1. /\ n \in Int /\ old \in ReservationRows /\ s \in Int /\ old.remaining \in Int
      /\ old.settled \in Int /\ old.redirected \in Int /\ old.late \in Int
  BY ConstantFacts, RowFields DEF StrongInv, TypeOK
<1>2. reservation' = [reservation EXCEPT ![r] = row]
  BY DEF RedirectReleasedFunds
<1>3. PostTransfer(Transferred(Owner(r), n, 0, to, n)) /\ RunOnce(r, "dispute", k, n)
  BY DEF RedirectReleasedFunds
<1> HIDE DEF old, s
<1>4. /\ row \in ReservationRows /\ row.remaining = old.remaining /\ row.late = s
      /\ row.settled = old.settled /\ row.redirected = old.redirected
  BY <1>1 DEF ReservationRows
<1> HIDE DEF row
<1>5. OnlyRow(r) /\ reservation'[r] = row
  BY <1>2, <1>4, RowUpdate DEF StrongInv
<1>6. ReserveFollows(r)
  <2>1. reservation'[r].remaining = reservation[r].remaining - 0 /\ 0 \in Int
    BY <1>1, <1>4, <1>5 DEF old
  <2> QED
    BY <1>1, <1>3, <2>1, TransferReserved
<1>7. Entered(r, "dispute", n)
  BY <1>1, <1>3, <1>4, <1>5, <1>6 DEF Entered, old, s
<1> QED
  BY <1>1, <1>7 DEF Books, CommandKinds

\* Every step enters one command at most.
LEMMA StepBooks ==
    ASSUME StrongInv, [Next]_vars
    PROVE  Books
<1>1. ASSUME NEW r \in Reservations, ReservationStep(r)
      PROVE  Books
  <2>1. CASE \E n \in Amounts : ReserveSpending(r, n)
    BY <2>1, ReserveBooks
  <2>2. CASE \E k \in References : ReleaseFundingReservation(r, k)
    BY <2>2, ReleaseBooks
  <2>3. CASE \E k \in References, n \in Amounts : IncreaseFundingReservation(r, k, n)
    BY <2>3, IncreaseBooks
  <2>4. ASSUME NEW k \in References, NEW to \in Members, NEW n \in Amounts,
               NEW fee \in Fees \union {PlatformFee(n, Policies[reservation[r].policy].bps)},
               SettleFundingReservation(r, k, to, n, fee)
        PROVE  Books
    <3>1. reservation[r].policy \in Revisions
      BY RowFields DEF StrongInv, TypeOK
    <3>2. fee \in Nat
      BY <3>1, FeeFacts, ConstantFacts
    <3> QED
      BY <2>4, <3>2, SettleBooks
  <2>5. ASSUME NEW k \in References, NEW to \in Members, NEW n \in Amounts,
               RedirectHeldFunds(r, k, to, n)
        PROVE  Books
    BY <2>5, RedirectHeldBooks
  <2>6. ASSUME NEW k \in References, NEW to \in Members, NEW n \in Amounts,
               RedirectReleasedFunds(r, k, to, n)
        PROVE  Books
    BY <2>6, RedirectReleasedBooks
  <2> QED
    BY <1>1, <2>1, <2>2, <2>3, <2>4, <2>5, <2>6 DEF ReservationStep
<1>2. CASE OtherWalletActivity
  <2>1. /\ UNCHANGED fundingVars
        /\ \A m \in Members : wallet'[m].FUNDING_RESERVED = wallet[m].FUNDING_RESERVED
    BY <1>2, WalletCommands, WalletAssumption DEF StrongInv, TypeOK, OtherWalletActivity
  <2> QED
    BY <2>1 DEF Books, NothingEntered, fundingVars
<1>3. CASE UNCHANGED vars \/ \E v \in Revisions : PolicyTakesEffect(v)
  BY <1>3 DEF PolicyTakesEffect, vars, walletVars, fundingVars, Books, NothingEntered
<1> QED
  BY <1>1, <1>2, <1>3 DEF Next

\* A command that runs adds what it asked for to the sum of its kind.
LEMMA AskedGrows ==
    ASSUME TypeOK, IsFiniteSet(history), NEW r \in Reservations, NEW kind \in CommandKinds,
           NEW k \in References, NEW n \in Int, RunOnce(r, kind, k, n)
    PROVE  /\ IsFiniteSet(history')
           /\ \A s \in Reservations, other \in CommandKinds :
                 Asked(s, other)' = Asked(s, other)
                                      + (IF s = r /\ other = kind THEN n ELSE 0)
<1> DEFINE c == [reservation |-> r, kind |-> kind, key |-> k, amount |-> n]
           Of(h, s, other) == {d \in h : d.reservation = s /\ d.kind = other}
           f == [d \in history |-> d.amount]
           g == [d \in history' |-> d.amount]
<1>1. history' = history \union {c} /\ c \notin history
  BY DEF RunOnce
<1>2. IsFiniteSet(history')
  BY <1>1, FS_AddElement
<1>3. /\ \A d \in history' : g[d] \in Int
      /\ \A d \in history : f[d] \in Int /\ f[d] = g[d]
      /\ g[c] = n
  BY <1>1, RunOnceTyped DEF Commands, TypeOK
<1>4. ASSUME NEW s \in Reservations, NEW other \in CommandKinds
      PROVE  Asked(s, other)' = Asked(s, other)
                                   + (IF s = r /\ other = kind THEN n ELSE 0)
  <2> DEFINE S == Of(history, s, other)
  <2>1. Asked(s, other) = SumFunctionOnSet(f, S)
        /\ Asked(s, other)' = SumFunctionOnSet(g, Of(history', s, other))
    BY DEF Asked
  <2>2. IsFiniteSet(S) /\ S \subseteq history
    <3>1. S \subseteq history
      OBVIOUS
    <3> HIDE DEF S
    <3> QED
      BY <3>1, FS_Subset
  <2>3. Of(history', s, other) = IF s = r /\ other = kind THEN S \union {c} ELSE S
    BY <1>1
  <2>4. c \notin S /\ \A d \in S \union {c} : g[d] \in Int
    BY <1>1, <1>3
  <2>5. \A d \in S : f[d] \in Int /\ f[d] = g[d]
    BY <1>3
  <2> HIDE DEF S, f, g, c
  <2>6. SumFunctionOnSet(f, S) = SumFunctionOnSet(g, S) /\ SumFunctionOnSet(f, S) \in Int
    BY <2>2, <2>5, SumSame, SumType
  <2>7. SumFunctionOnSet(g, S \union {c}) = SumFunctionOnSet(g, S) + g[c]
    BY <2>2, <2>4, SumAdd
  <2>8. g[c] = n
    BY <1>3
  <2>9. CASE s = r /\ other = kind
    BY <2>1, <2>3, <2>6, <2>7, <2>8, <2>9
  <2>10. CASE ~(s = r /\ other = kind)
    <3>1. Of(history', s, other) = S
      BY <2>3, <2>10
    <3>2. Asked(s, other)' = Asked(s, other) /\ Asked(s, other) \in Int
      BY <2>1, <2>6, <3>1
    <3>3. (IF s = r /\ other = kind THEN n ELSE 0) = 0
      BY <2>10
    <3> QED
      BY <3>2, <3>3
  <2> QED
    BY <2>9, <2>10
<1> QED
  BY <1>2, <1>4

\* The sum over the reservations of a Member follows the one that changed.
LEMMA HeldFollows ==
    ASSUME TypeOK, NEW r \in Reservations, OnlyRow(r), NEW m \in Members
    PROVE  /\ Held(m) \in Int
           /\ Held(m)' = Held(m) + (IF m = Owner(r)
                             THEN reservation'[r].remaining - reservation[r].remaining ELSE 0)
<1> DEFINE S == {s \in Reservations : Owner(s) = m}
           f == [s \in Reservations |-> reservation[s].remaining]
           g == [s \in Reservations |-> reservation'[s].remaining]
<1>1. Held(m) = SumFunctionOnSet(f, S) /\ Held(m)' = SumFunctionOnSet(g, S)
  BY DEF Held, Owner
<1>2. S \subseteq Reservations
  OBVIOUS
<1>3. /\ \A s \in Reservations : f[s] \in Int /\ g[s] \in Int
      /\ \A s \in Reservations \ {r} : g[s] = f[s]
      /\ f[r] = reservation[r].remaining /\ g[r] = reservation'[r].remaining
  BY RowFields DEF TypeOK, OnlyRow
<1>4. r \in S <=> m = Owner(r)
  OBVIOUS
<1> HIDE DEF S, f, g
<1>5. IsFiniteSet(S)
  BY <1>2, FundingAssumption, FS_Subset
<1>6. SumFunctionOnSet(f, S) \in Int
  BY <1>2, <1>3, <1>5, SumType
<1>7. CASE m = Owner(r)
  <2>1. SumFunctionOnSet(g, S) = SumFunctionOnSet(f, S) - f[r] + g[r]
    <3>1. /\ r \in S
          /\ \A s \in S : f[s] \in Int /\ g[s] \in Int
          /\ \A s \in S \ {r} : g[s] = f[s]
      BY <1>2, <1>3, <1>4, <1>7
    <3> QED
      BY <1>5, <3>1, SumChange
  <2> QED
    BY <1>1, <1>3, <1>6, <1>7, <2>1
<1>8. CASE m # Owner(r)
  <2>1. \A s \in S : f[s] \in Int /\ f[s] = g[s]
    BY <1>2, <1>3, <1>4, <1>8
  <2>2. SumFunctionOnSet(f, S) = SumFunctionOnSet(g, S)
    BY <1>5, <2>1, SumSame
  <2> QED
    BY <1>1, <1>6, <1>8, <2>2
<1> QED
  BY <1>7, <1>8

\* The sums are right at the start.
LEMMA InitSums == Init => SumsInv
<1> SUFFICES ASSUME Init PROVE SumsInv
  OBVIOUS
<1>1. IsFiniteSet(history)
  BY FS_EmptySet DEF Init
<1>2. EachKeyPaysOnce
  <2>1. ASSUME NEW r \in Reservations, NEW kind PROVE Asked(r, kind) = 0
    <3>1. {c \in history : c.reservation = r /\ c.kind = kind} = {}
      BY DEF Init
    <3> QED
      BY <3>1, SumEmpty DEF Asked
  <2>2. \A r \in Reservations : reservation[r] = NoReservation
    BY DEF Init
  <2> QED
    BY <2>1, <2>2 DEF EachKeyPaysOnce, NoReservation
<1>3. ASSUME NEW m \in Members
      PROVE  wallet[m].FUNDING_RESERVED - InitialWallet[m].FUNDING_RESERVED = Held(m)
  <2> DEFINE S == {s \in Reservations : Owner(s) = m}
             f == [s \in Reservations |-> reservation[s].remaining]
  <2>1. \A s \in Reservations : f[s] = 0
    BY DEF Init, NoReservation
  <2>2. S \subseteq Reservations /\ Held(m) = SumFunctionOnSet(f, S)
    BY DEF Held
  <2> HIDE DEF S, f
  <2>3. IsFiniteSet(S)
    BY <2>2, FundingAssumption, FS_Subset
  <2>4. Held(m) = 0
    BY <2>1, <2>2, <2>3, SumZero
  <2>5. wallet[m] = InitialWallet[m] /\ InitialWallet[m] \in Wallets
    BY WalletAssumption DEF Init, WalletInit
  <2> QED
    BY <2>4, <2>5, WalletFields
<1> QED
  BY <1>1, <1>2, <1>3 DEF SumsInv, EscrowMatchesWallet

\* Every step keeps the sums right.
LEMMA NextSums == StrongInv /\ SumsInv /\ [Next]_vars => SumsInv'
<1> SUFFICES ASSUME StrongInv, SumsInv, [Next]_vars PROVE SumsInv'
  OBVIOUS
<1>1. Books /\ StrongInv'
  BY StepBooks, NextStrong
<1>2. \A m \in Members : /\ wallet[m].FUNDING_RESERVED \in Int
                         /\ InitialWallet[m].FUNDING_RESERVED \in Int
  BY WalletFields, WalletAssumption DEF StrongInv, TypeOK, WalletTypeOK
<1>3. CASE NothingEntered
  <2>1. \A r, kind : Asked(r, kind)' = Asked(r, kind)
    BY <1>3 DEF NothingEntered, Asked
  <2>2. \A m : Held(m)' = Held(m)
    BY <1>3 DEF NothingEntered, Held, Owner
  <2>3. IsFiniteSet(history')
    BY <1>3 DEF NothingEntered, SumsInv
  <2>4. EachKeyPaysOnce'
    BY <1>3, <2>1 DEF NothingEntered, SumsInv, EachKeyPaysOnce
  <2>5. EscrowMatchesWallet'
    BY <1>3, <2>2 DEF NothingEntered, SumsInv, EscrowMatchesWallet
  <2> QED
    BY <2>3, <2>4, <2>5 DEF SumsInv
<1>4. ASSUME NEW r \in Reservations, NEW kind \in CommandKinds, NEW n \in Int,
             Entered(r, kind, n)
      PROVE  SumsInv'
  <2>1. OnlyRow(r) /\ TypeOK /\ IsFiniteSet(history)
    BY <1>4 DEF Entered, StrongInv, SumsInv
  <2>2. /\ IsFiniteSet(history')
        /\ \A s \in Reservations, other \in {"settlement", "dispute"} :
              Asked(s, other)' = Asked(s, other) + (IF s = r /\ other = kind THEN n ELSE 0)
    <3>1. CASE kind = "operation" /\ history' = history
      <4>1. \A s, other : Asked(s, other)' = Asked(s, other)
        BY <3>1 DEF Asked
      <4>2. \A s \in Reservations, other \in {"settlement", "dispute"} : Asked(s, other) \in Int
        <5>1. \A s \in Reservations :
                 /\ Asked(s, "settlement") = reservation[s].settled
                 /\ Asked(s, "dispute") = reservation[s].redirected + reservation[s].late
          BY DEF SumsInv, EachKeyPaysOnce
        <5>2. \A s \in Reservations :
                 /\ reservation[s].settled \in Int
                 /\ reservation[s].redirected + reservation[s].late \in Int
          BY RowFields DEF StrongInv, TypeOK
        <5> QED
          BY <5>1, <5>2
      <4> QED
        BY <2>1, <3>1, <4>1, <4>2
    <3>2. CASE \E k \in References : RunOnce(r, kind, k, n)
      <4>1. PICK k \in References : RunOnce(r, kind, k, n)
        BY <3>2
      <4> QED
        BY <2>1, <4>1, AskedGrows DEF CommandKinds
    <3> QED
      BY <1>4, <3>1, <3>2 DEF Entered
  <2>3. EachKeyPaysOnce'
    <3>1. ASSUME NEW s \in Reservations
          PROVE  /\ reservation'[s].settled = Asked(s, "settlement")'
                 /\ reservation'[s].redirected + reservation'[s].late = Asked(s, "dispute")'
      <4>1. /\ reservation[s].settled = Asked(s, "settlement")
            /\ reservation[s].redirected + reservation[s].late = Asked(s, "dispute")
        BY DEF SumsInv, EachKeyPaysOnce
      <4>2. /\ reservation[s].settled \in Int /\ reservation[s].redirected \in Int
            /\ reservation[s].late \in Int
        BY RowFields DEF StrongInv, TypeOK
      <4>3. CASE s = r
        BY <1>4, <2>2, <4>1, <4>3 DEF Entered
      <4>4. CASE s # r
        <5>1. reservation'[s] = reservation[s]
          BY <2>1, <4>4 DEF OnlyRow
        <5>2. Asked(s, "settlement")' = Asked(s, "settlement") + 0
              /\ Asked(s, "dispute")' = Asked(s, "dispute") + 0
          BY <2>2, <4>4
        <5>3. Asked(s, "settlement") \in Int /\ Asked(s, "dispute") \in Int
          BY <4>1, <4>2
        <5> QED
          BY <4>1, <5>1, <5>2, <5>3
      <4> QED
        BY <4>3, <4>4
    <3> QED
      BY <3>1 DEF EachKeyPaysOnce
  <2>4. EscrowMatchesWallet'
    <3>1. ASSUME NEW m \in Members
          PROVE  wallet'[m].FUNDING_RESERVED - InitialWallet[m].FUNDING_RESERVED = Held(m)'
      <4> DEFINE d == IF m = Owner(r)
                      THEN reservation'[r].remaining - reservation[r].remaining ELSE 0
      <4>1. Held(m)' = Held(m) + d /\ Held(m) \in Int
        BY <2>1, HeldFollows
      <4>2. wallet'[m].FUNDING_RESERVED = wallet[m].FUNDING_RESERVED + d
        BY <1>4 DEF Entered, ReserveFollows
      <4>3. wallet[m].FUNDING_RESERVED - InitialWallet[m].FUNDING_RESERVED = Held(m)
        BY DEF SumsInv, EscrowMatchesWallet
      <4>4. d \in Int
        BY <2>1, RowFields DEF TypeOK, OnlyRow
      <4> HIDE DEF d
      <4> QED
        BY <1>2, <4>1, <4>2, <4>3, <4>4
    <3> QED
      BY <3>1 DEF EscrowMatchesWallet
  <2> QED
    BY <2>2, <2>3, <2>4 DEF SumsInv
<1> QED
  BY <1>1, <1>3, <1>4 DEF Books

\* The sums are right for ever.
LEMMA Sums == Spec => []SumsInv
<1>1. Init => StrongInv /\ SumsInv
  BY InitStrong, InitSums
<1>2. StrongInv /\ SumsInv /\ [Next]_vars => StrongInv' /\ SumsInv'
  BY NextStrong, NextSums
<1> QED
  BY <1>1, <1>2, PTL DEF Spec

\* A command that is retried, or repeated with the same idempotency key, pays
\* once: what a reservation has paid is what its commands with different keys
\* asked for.
THEOREM KeysSafe == Spec => []EachKeyPaysOnce
<1>1. SumsInv => EachKeyPaysOnce
  BY DEF SumsInv
<1> QED
  BY <1>1, Sums, PTL

\* FUNDING_RESERVED of a Member holds the escrow of his open reservations and
\* nothing else, however many he has.
THEOREM EscrowSafe == Spec => []EscrowMatchesWallet
<1>1. SumsInv => EscrowMatchesWallet
  BY DEF SumsInv
<1> QED
  BY <1>1, Sums, PTL

-----------------------------------------------------------------------------
(* Refinement *)

\* Every effect is a step of FundingPromise or a stutter.
LEMMA PromiseStep ==
    ASSUME StrongInv, [Next]_vars
    PROVE  [Promise!Next]_(Promise!vars)
<1> DEFINE OwnerOf == [s \in Reservations |-> Owner(s)]
           phase == [s \in Reservations |-> PhaseOf(reservation[s])]
           committed == [s \in Reservations |-> reservation[s].total]
           paid == [s \in Reservations |-> reservation[s].settled
                       + reservation[s].redirected + reservation[s].late]
<1>1. StrongInv' /\ Good
  BY StepEffect, NextStrong
<1>2. CASE Quiet
  <2>1. UNCHANGED Promise!vars
    BY <1>2 DEF Quiet, Totals, Promise!vars
  <2> QED
    BY <2>1
<1>3. ASSUME NEW r \in Reservations, OnlyRow(r)
      PROVE  /\ phase' = [phase EXCEPT ![r] = PhaseOf(reservation'[r])]
             /\ committed' = [committed EXCEPT ![r] = reservation'[r].total]
             /\ paid' = [paid EXCEPT ![r] = PaidBy(reservation'[r])]
             /\ phase[r] = PhaseOf(reservation[r])
             /\ committed[r] = reservation[r].total
             /\ paid[r] = PaidBy(reservation[r])
  BY <1>3 DEF OnlyRow, PaidBy
<1>4. ASSUME NEW r \in Reservations
      PROVE  /\ RowInv(reservation[r]) /\ reservation[r] \in ReservationRows
             /\ reservation'[r] \in ReservationRows
             /\ phase = [phase EXCEPT ![r] = phase[r]]
             /\ committed = [committed EXCEPT ![r] = committed[r]]
             /\ paid = [paid EXCEPT ![r] = paid[r]]
  BY <1>1, <1>4 DEF StrongInv, TypeOK, RowsInv
<1>5. OwnerOf \in [Reservations -> Members] /\ \A r \in Reservations : OwnerOf[r] = Owner(r)
  BY ConstantFacts
<1> HIDE DEF phase, committed, paid, OwnerOf
<1>6. ASSUME NEW r \in Reservations, NEW n \in Nat, Commits(r, n)
      PROVE  Promise!Commit(r, n) /\ n \in 0 .. Capacity
  <2> DEFINE old == reservation[r]
             new == reservation'[r]
  <2>1. OnlyRow(r) /\ CommitsRow(old, new, n) /\ Totals' = Totals
    BY <1>6 DEF Commits
  <2>2. PhaseOf(old) # "CLOSED" /\ PhaseOf(new) = "OPEN"
    BY <2>1 DEF CommitsRow, PhaseOf
  <2>3. PaidBy(new) = PaidBy(old) /\ new.total = old.total + n /\ n \in 0 .. Capacity
    BY <2>1, WalletAssumption DEF CommitsRow, PaidBy
  <2> HIDE DEF old, new
  <2>4. /\ phase[r] # "CLOSED"
        /\ phase' = [phase EXCEPT ![r] = "OPEN"]
        /\ committed' = [committed EXCEPT ![r] = committed[r] + n]
        /\ paid' = paid
    BY <1>3, <1>4, <2>1, <2>2, <2>3 DEF old, new
  <2> QED
    BY <2>1, <2>3, <2>4 DEF Promise!Commit, Totals, phase, committed, paid
<1>7. ASSUME NEW r \in Reservations, Closes(r)
      PROVE  Promise!Close(r)
  <2> DEFINE old == reservation[r]
             new == reservation'[r]
  <2>1. OnlyRow(r) /\ ClosesRow(old, new) /\ Totals' = Totals
    BY <1>7 DEF Closes
  <2>2. PhaseOf(old) = "OPEN" /\ PhaseOf(new) = "CLOSED"
    BY <2>1 DEF ClosesRow, PhaseOf
  <2>3. PaidBy(new) = PaidBy(old) /\ new.total = old.total
    BY <2>1 DEF ClosesRow, PaidBy
  <2> HIDE DEF old, new
  <2>4. /\ phase[r] = "OPEN"
        /\ phase' = [phase EXCEPT ![r] = "CLOSED"]
        /\ committed' = committed
        /\ paid' = paid
    BY <1>3, <1>4, <2>1, <2>2, <2>3 DEF old, new
  <2> QED
    BY <2>1, <2>4 DEF Promise!Close, Totals, phase, committed, paid
<1>8. ASSUME NEW r \in Reservations, NEW to \in Members, NEW n \in Nat, NEW fee \in Nat,
             Pays(r, to, n, fee)
      PROVE  Promise!Pay(r, to, n, fee) /\ n \in 0 .. Capacity /\ fee \in 0 .. Capacity
  <2> DEFINE old == reservation[r]
             new == reservation'[r]
  <2>1. /\ OnlyRow(r) /\ PaysRow(old, new, n, fee) /\ TransfersTotal(r, to, n, fee)
        /\ RowInv(old) /\ RowInv(new) /\ old \in ReservationRows /\ new \in ReservationRows
    BY <1>1, <1>4, <1>8 DEF Pays, StrongInv, RowsInv
  <2> HIDE DEF old, new
  <2>2. /\ Capacity \in Int
        /\ old.total \in Int /\ old.remaining \in Int /\ old.settled \in Int
        /\ old.redirected \in Int /\ old.late \in Int /\ old.released \in Int
        /\ new.settled \in Int /\ new.redirected \in Int /\ new.late \in Int
    BY <2>1, RowFields, WalletAssumption
  <2>3. /\ new.total = old.total
        /\ PaidBy(new) = PaidBy(old) + n + fee
    BY <2>1, <2>2 DEF PaysRow, PaidBy
  <2>4. /\ PhaseOf(old) # "FREE"
        /\ PhaseOf(old) = "CLOSED" => fee = 0
        /\ PhaseOf(new) = PhaseOf(old) \/ PhaseOf(new) = "CLOSED"
    BY <2>1 DEF PaysRow, PhaseOf
  <2>5. /\ PaidBy(old) >= 0 /\ PaidBy(new) <= new.total /\ new.total <= Capacity
        /\ PaidBy(old) \in Int
    BY <2>1, <2>2 DEF RowInv, PaidBy
  <2>6. /\ PaidBy(old) + n + fee <= old.total
        /\ n \in 0 .. Capacity /\ fee \in 0 .. Capacity
    BY <2>2, <2>3, <2>5
  <2>7. /\ phase[r] # "FREE"
        /\ phase[r] = "CLOSED" => fee = 0
        /\ phase' = phase \/ phase' = [phase EXCEPT ![r] = "CLOSED"]
        /\ committed' = committed
        /\ paid[r] + n + fee <= committed[r]
        /\ paid' = [paid EXCEPT ![r] = paid[r] + n + fee]
    BY <1>3, <1>4, <2>1, <2>3, <2>4, <2>6 DEF old, new
  <2>8. Totals' = [m \in Members |-> Totals[m] - (IF m = OwnerOf[r] THEN n + fee ELSE 0)
                                               + (IF m = to THEN n ELSE 0)]
    BY <1>5, <2>1 DEF TransfersTotal
  <2> QED
    BY <2>6, <2>7, <2>8 DEF Promise!Pay, Totals, phase, committed, paid, OwnerOf
<1> QED
  BY <1>1, <1>2, <1>6, <1>7, <1>8 DEF Good, Effect, Promise!Next

\* The initial states map to initial states of FundingPromise.
LEMMA PromiseInit == Init => Promise!Init
BY DEF Init, WalletInit, NoReservation, PhaseOf, Promise!Init

\* Funding implements FundingPromise: money leaves a Hirer's Wallet only as a
\* payment of a reservation, within its commitment, and without a fee once it
\* is closed.
THEOREM FundingRefinesPromise == Spec => KeepsPromise
<1>1. StrongInv /\ [Next]_vars => [Promise!Next]_(Promise!vars)
  BY PromiseStep
<1> QED
  BY <1>1, Strong, PromiseInit, PTL DEF Spec, KeepsPromise, Promise!Spec
=============================================================================
