------------------------------- MODULE Payout -------------------------------
(***************************************************************************)
(* A Payout from Quote to the Provider's last word.                        *)
(*                                                                         *)
(* A Member confirms a Quote: the maximum debit moves from EARNINGS to     *)
(* RESERVED_FOR_PAYOUTS.  An Admin approves or cancels.  Any number of     *)
(* Payout Workers (the scheduler inside each API process and the separate  *)
(* worker process) claim the approved Payout under a five minute lease,    *)
(* call the Provider outside every database transaction, and write down    *)
(* the answer in another transaction.  Webhooks and reconciliation apply   *)
(* what the Provider reports, late, twice or out of order.                 *)
(*                                                                         *)
(* One action is one database transaction, or one call to the Provider;    *)
(* everything else may run between two of them.  A Payout is named by the  *)
(* Quote it consumes (payment_payouts.quote_id is unique).  The Provider   *)
(* is outside the repository: its actions say only what the adapter relies *)
(* on, that a repeated request with the same idempotency key is not        *)
(* executed again and that it reports an outcome only once that outcome    *)
(* is true.                                                                *)
(***************************************************************************)
EXTENDS Wallet, FiniteSetsExt

CONSTANTS
    Quotes,             \* Payout Quotes, and so Payouts
    Terms,              \* Terms[q]: owner and the amounts the Quote binds
    Charges,            \* the [fee, tax] a Provider may charge or report
    Workers,            \* concurrent runs of processApprovedPayouts
    NoQuote,            \* a Worker holds no Payout
    Preparation,        \* Preparation[q]: whether the Workers can build its request
    ChargesComplete,    \* every success report carries the fee and the tax
    MaxCrashes          \* bound: Worker processes that die half way

NoCharge == [fee |-> 0, tax |-> 0]

ASSUME PayoutAssumption ==
    /\ Terms \in [Quotes -> [owner: Members, principal: Nat, fee: Nat, tax: Nat]]
    /\ \A q \in Quotes : Terms[q].principal > 0
    /\ \A m \in Members : InitialWallet[m].RESERVED_FOR_PAYOUTS = 0
    /\ Charges \subseteq [fee: Nat, tax: Nat]
    /\ NoCharge \in Charges
    /\ NoQuote \notin Quotes
    /\ Preparation \in [Quotes -> {"WORKS", "FAILS", "VARIES"}]
    /\ ChargesComplete \in BOOLEAN
    /\ MaxCrashes \in Nat

Owner(q)    == Terms[q].owner
MaxDebit(q) == Terms[q].principal + Terms[q].fee + Terms[q].tax
Debit(q, c) == Terms[q].principal + c.fee + c.tax

ActiveStatuses   == {"PENDING_ADMIN_APPROVAL", "SUBMITTED_TO_PROVIDER", "PROVIDER_PENDING"}
TerminalStatuses == {"SUCCEEDED", "FAILED", "CANCELLED"}
PayoutStatuses   == ActiveStatuses \union TerminalStatuses

\* "NONE": no row.  settled: what the settlement transaction posted;
\* reversed: a correction of that transaction exists.
PayoutRows == [status: PayoutStatuses \union {"NONE"}, approved: BOOLEAN,
               claim: {"NONE", "LEASED", "STALE"}, job: {"NONE", "PENDING", "DONE"},
               actual: [fee: Nat, tax: Nat], settled: [fee: Nat, tax: Nat],
               reversed: BOOLEAN]

NoRow == [status |-> "NONE", approved |-> FALSE, claim |-> "NONE", job |-> "NONE",
          actual |-> NoCharge, settled |-> NoCharge, reversed |-> FALSE]

GatewayStates == {"UNKNOWN", "ACCEPTED", "REFUSED", "PAID", "FAILED", "CANCELLED", "REVERSED"}
GatewayRequests == [state: GatewayStates, charge: [fee: Nat, tax: Nat], calls: 0..2]
Outcomes == [kind: {"PENDING", "SUCCEEDED", "FAILED", "CANCELLED", "REVERSED"},
             charge: [fee: Nat, tax: Nat]]
Replies == {"NONE", "ACCEPTED", "REFUSED", "UNCERTAIN"}

WorkerStates == [pc: {"IDLE", "SELECTED", "CLAIMED", "REPLIED", "FINALIZED"},
                 quote: Quotes \union {NoQuote}, reply: Replies,
                 charge: [fee: Nat, tax: Nat]]

Idle == [pc |-> "IDLE", quote |-> NoQuote, reply |-> "NONE", charge |-> NoCharge]

VARIABLES
    quote,    \* quote[q] \in {"NONE", "OPEN", "LAPSED", "CONSUMED"}
    payout,   \* payout[q]: the row, its approval history entry and its job
    worker,   \* worker[w]: where one run of processApprovedPayout stands
    gateway,  \* gateway[q]: what the Provider has done with the request
    reports,  \* reports[q]: outcomes the Provider has made known
    crashes   \* crashes left

payoutVars == <<quote, payout, worker, gateway, reports, crashes>>
vars == <<walletVars, payoutVars>>

TypeOK ==
    /\ WalletTypeOK
    /\ quote \in [Quotes -> {"NONE", "OPEN", "LAPSED", "CONSUMED"}]
    /\ payout \in [Quotes -> PayoutRows]
    /\ worker \in [Workers -> WorkerStates]
    /\ gateway \in [Quotes -> GatewayRequests]
    /\ reports \in [Quotes -> SUBSET Outcomes]
    /\ crashes \in Nat

Init ==
    /\ WalletInit
    /\ quote = [q \in Quotes |-> "NONE"]
    /\ payout = [q \in Quotes |-> NoRow]
    /\ worker = [w \in Workers |-> Idle]
    /\ gateway = [q \in Quotes |-> [state |-> "UNKNOWN", charge |-> NoCharge, calls |-> 0]]
    /\ reports = [q \in Quotes |-> {}]
    /\ crashes = MaxCrashes

-----------------------------------------------------------------------------
(* Member *)

\* quotePayout
CreateQuote(q) ==
    /\ quote[q] = "NONE"
    /\ StudentMayStart(Owner(q))
    /\ quote' = [quote EXCEPT ![q] = "OPEN"]
    /\ UNCHANGED <<walletVars, payout, worker, gateway, reports, crashes>>

\* The Quote's lifetime ends, or its destination is retired.
LapseQuote(q) ==
    /\ quote[q] = "OPEN"
    /\ quote' = [quote EXCEPT ![q] = "LAPSED"]
    /\ UNCHANGED <<walletVars, payout, worker, gateway, reports, crashes>>

Active(q) == payout[q].status \in ActiveStatuses

\* Mutant: the check for another active Payout is dropped.
PreparePayoutTwice(q) ==
    LET m == Owner(q)
    IN  /\ StudentMayStart(m)
        /\ quote[q] = "OPEN"
        /\ wallet[m].EARNINGS >= MaxDebit(q)
        /\ PostToWallet(m, Posted(wallet[m], 0, 0, -MaxDebit(q), MaxDebit(q)))
        /\ payout' = [payout EXCEPT ![q].status = "PENDING_ADMIN_APPROVAL"]
        /\ quote' = [quote EXCEPT ![q] = "CONSUMED"]
        /\ UNCHANGED <<platform, walletStatus, worker, gateway, reports, crashes>>

\* preparePayout.  A retry with the same Idempotency-Key returns the row and
\* changes nothing: the key row commits together with the Payout.
PreparePayout(q) ==
    LET m == Owner(q)
    IN  /\ StudentMayStart(m)
        /\ \A p \in Quotes : Owner(p) = m => ~Active(p)
        /\ quote[q] = "OPEN"
        /\ wallet[m].EARNINGS >= MaxDebit(q)
        /\ PostToWallet(m, Posted(wallet[m], 0, 0, -MaxDebit(q), MaxDebit(q)))
        /\ payout' = [payout EXCEPT ![q].status = "PENDING_ADMIN_APPROVAL"]
        /\ quote' = [quote EXCEPT ![q] = "CONSUMED"]
        /\ UNCHANGED <<platform, walletStatus, worker, gateway, reports, crashes>>

-----------------------------------------------------------------------------
(* Admin *)

\* approvePayoutInTransaction: the decision and the job are one transaction.
ApprovePayout(q) ==
    /\ payout[q].status = "PENDING_ADMIN_APPROVAL"
    /\ payout' = [payout EXCEPT ![q] =
                     [@ EXCEPT !.status = "SUBMITTED_TO_PROVIDER",
                               !.approved = TRUE, !.job = "PENDING"]]
    /\ UNCHANGED <<walletVars, quote, worker, gateway, reports, crashes>>

\* The whole reserve goes back to EARNINGS and the Payout ends in s.
ReleaseReserve(q, s) ==
    /\ PostToWallet(Owner(q), Posted(wallet[Owner(q)], 0, 0, MaxDebit(q), -MaxDebit(q)))
    /\ payout' = [payout EXCEPT ![q] =
                     [@ EXCEPT !.status = s, !.claim = "NONE"]]
    /\ UNCHANGED <<platform, walletStatus>>

\* cancelPayoutInTransaction
CancelPayout(q) ==
    /\ payout[q].status = "PENDING_ADMIN_APPROVAL"
    /\ ReleaseReserve(q, "CANCELLED")
    /\ UNCHANGED <<quote, worker, gateway, reports, crashes>>

-----------------------------------------------------------------------------
(* Payout Worker *)

Submittable(q) == payout[q].status = "SUBMITTED_TO_PROVIDER" /\ payout[q].approved

\* The candidates processApprovedPayouts reads, one at a time; the row is
\* not locked, and other Workers may read the same candidate.
SelectCandidate(w, q) ==
    /\ worker[w].pc = "IDLE"
    /\ payout[q].job = "PENDING"
    /\ payout[q].status = "SUBMITTED_TO_PROVIDER"
    /\ payout[q].claim # "LEASED"
    /\ worker' = [worker EXCEPT ![w] = [Idle EXCEPT !.pc = "SELECTED", !.quote = q]]
    /\ UNCHANGED <<walletVars, quote, payout, gateway, reports, crashes>>

\* Mutant: a stale claim is never taken over.
ClaimUnclaimedOnly(w) ==
    LET q == worker[w].quote
        claimable == Submittable(q) /\ payout[q].claim = "NONE"
    IN  /\ worker[w].pc = "SELECTED"
        /\ \/ /\ claimable
              /\ payout' = [payout EXCEPT ![q].claim = "LEASED"]
              /\ worker' = [worker EXCEPT ![w].pc = "CLAIMED"]
           \/ /\ ~claimable
              /\ UNCHANGED payout
              /\ worker' = IF payout[q].status = "SUBMITTED_TO_PROVIDER"
                           THEN [worker EXCEPT ![w] = Idle]
                           ELSE [worker EXCEPT ![w].pc = "FINALIZED"]
        /\ UNCHANGED <<walletVars, quote, gateway, reports, crashes>>

\* claimApprovedPayout: the locked row decides.  Without the claim the run goes
\* on with the next candidate, and completes the job first if the Payout has
\* left SUBMITTED_TO_PROVIDER.
ClaimApprovedPayout(w) ==
    LET q == worker[w].quote
        claimable == Submittable(q) /\ payout[q].claim # "LEASED"
    IN  /\ worker[w].pc = "SELECTED"
        /\ \/ /\ claimable
              /\ payout' = [payout EXCEPT ![q].claim = "LEASED"]
              /\ worker' = [worker EXCEPT ![w].pc = "CLAIMED"]
           \/ /\ ~claimable
              /\ UNCHANGED payout
              /\ worker' = IF payout[q].status = "SUBMITTED_TO_PROVIDER"
                           THEN [worker EXCEPT ![w] = Idle]
                           ELSE [worker EXCEPT ![w].pc = "FINALIZED"]
        /\ UNCHANGED <<walletVars, quote, gateway, reports, crashes>>

\* Five minutes pass since providerSubmissionClaimedAt.
LeaseExpires(q) ==
    /\ payout[q].claim = "LEASED"
    /\ payout' = [payout EXCEPT ![q].claim = "STALE"]
    /\ UNCHANGED <<walletVars, quote, worker, gateway, reports, crashes>>

\* The one check every finalizer of the Worker makes on the locked row.
AwaitsProvider(q) == payout[q].status \in {"SUBMITTED_TO_PROVIDER", "PROVIDER_PENDING"}

Finalize(w) == worker' = [worker EXCEPT ![w].pc = "FINALIZED"]

\* finalizeFailed, shared by finalizeRejected and finalizePreparationFailure.
FinalizeFailed(q) ==
    \/ /\ AwaitsProvider(q)
       /\ ReleaseReserve(q, "FAILED")
    \/ /\ ~AwaitsProvider(q)
       /\ UNCHANGED <<walletVars, payout>>

\* The destination cannot be decrypted or the Provider is not configured, so
\* no request leaves this process.  "VARIES": the API process and the separate
\* worker process need not agree on keys and configuration.
PreparationFails(w) ==
    LET q == worker[w].quote
    IN  /\ worker[w].pc = "CLAIMED"
        /\ Preparation[q] # "WORKS"
        /\ FinalizeFailed(q)
        /\ Finalize(w)
        /\ UNCHANGED <<quote, gateway, reports, crashes>>

\* Answers createPayout can turn the Provider's state into.  SUCCEEDED is not
\* among acceptedProviderStatuses, so a paid request reads as uncertain unless
\* the Provider repeats its first answer; a lost answer always does.  Assumed of
\* the Provider: it answers no request with a refusal (a 4xx other than 408, 409
\* and 429) whose idempotency key it has accepted before.
Answers(state) ==
    CASE state = "ACCEPTED" -> {"ACCEPTED", "UNCERTAIN"}
      [] state = "PAID"     -> {"ACCEPTED", "UNCERTAIN"}
      [] state = "REFUSED"  -> {"REFUSED", "UNCERTAIN"}
      [] state = "UNKNOWN"  -> {"UNCERTAIN"}
      [] OTHER              -> {"ACCEPTED", "REFUSED", "UNCERTAIN"}

\* What a request does at the Provider: nothing (it never arrives, or the
\* idempotency key is known), or a first decision.
RequestEffects(g) ==
    {g} \union
    IF g.state # "UNKNOWN" THEN {}
    ELSE {[g EXCEPT !.state = "REFUSED"]} \union
         {[g EXCEPT !.state = "ACCEPTED", !.charge = c] : c \in Charges}

\* provider.createPayout, outside every transaction; an accepted answer may
\* leave its charges out, which reads as zero.  calls saturates at 2.
CallProvider(w) ==
    LET q == worker[w].quote
    IN  /\ worker[w].pc = "CLAIMED"
        /\ Preparation[q] # "FAILS"
        /\ \E g \in RequestEffects(gateway[q]) : \E r \in Answers(g.state) :
              /\ gateway' = [gateway EXCEPT ![q] =
                     [g EXCEPT !.calls = IF g.calls = 2 THEN 2 ELSE g.calls + 1]]
              /\ \E c \in IF r = "ACCEPTED" THEN {g.charge, NoCharge} ELSE {NoCharge} :
                    worker' = [worker EXCEPT ![w] =
                                  [@ EXCEPT !.pc = "REPLIED", !.reply = r,
                                            !.charge = c]]
        /\ UNCHANGED <<walletVars, quote, payout, reports, crashes>>

\* Mutant: the locked row is not checked again before it is written.
FinalizeWithoutRecheck(w) ==
    LET q == worker[w].quote
        c == worker[w].charge
    IN  /\ worker[w].pc = "REPLIED"
        /\ worker[w].reply = "ACCEPTED"
        /\ payout' = [payout EXCEPT ![q] =
                         [@ EXCEPT !.status = "PROVIDER_PENDING",
                                   !.claim = "NONE", !.actual = c]]
        /\ Finalize(w)
        /\ UNCHANGED <<walletVars, quote, gateway, reports, crashes>>

\* finalizeProviderResponse.  A debit above the reserve throws; the promise is
\* returned without await, so the catch of processApprovedPayout never sees it
\* and the row, its claim included, stays as it was.
FinalizeProviderResponse(w) ==
    LET q == worker[w].quote
        c == worker[w].charge
    IN  /\ worker[w].pc = "REPLIED"
        /\ worker[w].reply = "ACCEPTED"
        /\ \/ /\ AwaitsProvider(q)
              /\ Debit(q, c) <= MaxDebit(q)
              /\ payout' = [payout EXCEPT ![q] =
                               [@ EXCEPT !.status = "PROVIDER_PENDING",
                                         !.claim = "NONE", !.actual = c]]
           \/ /\ ~AwaitsProvider(q) \/ Debit(q, c) > MaxDebit(q)
              /\ UNCHANGED payout
        /\ Finalize(w)
        /\ UNCHANGED <<walletVars, quote, gateway, reports, crashes>>

\* finalizeRejected
FinalizeRejected(w) ==
    /\ worker[w].pc = "REPLIED"
    /\ worker[w].reply = "REFUSED"
    /\ FinalizeFailed(worker[w].quote)
    /\ Finalize(w)
    /\ UNCHANGED <<quote, gateway, reports, crashes>>

\* Mutant: a lost answer is taken for a refusal.
FinalizeUncertainAsFailed(w) ==
    /\ worker[w].pc = "REPLIED"
    /\ worker[w].reply = "UNCERTAIN"
    /\ FinalizeFailed(worker[w].quote)
    /\ Finalize(w)
    /\ UNCHANGED <<quote, gateway, reports, crashes>>

\* finalizeUncertain
FinalizeUncertain(w) ==
    LET q == worker[w].quote
    IN  /\ worker[w].pc = "REPLIED"
        /\ worker[w].reply = "UNCERTAIN"
        /\ \/ /\ AwaitsProvider(q)
              /\ payout' = [payout EXCEPT ![q] =
                               [@ EXCEPT !.status = "PROVIDER_PENDING",
                                         !.claim = "NONE"]]
           \/ /\ ~AwaitsProvider(q)
              /\ UNCHANGED payout
        /\ Finalize(w)
        /\ UNCHANGED <<walletVars, quote, gateway, reports, crashes>>

\* completePayoutSubmissionJob, unless the Payout still waits for submission.
CompleteSubmissionJob(w) ==
    LET q == worker[w].quote
    IN  /\ worker[w].pc = "FINALIZED"
        /\ IF payout[q].status # "SUBMITTED_TO_PROVIDER"
           THEN payout' = [payout EXCEPT ![q].job = "DONE"]
           ELSE UNCHANGED payout
        /\ worker' = [worker EXCEPT ![w] = Idle]
        /\ UNCHANGED <<walletVars, quote, gateway, reports, crashes>>

\* The process dies; what it had not written is lost.
WorkerCrash(w) ==
    /\ crashes > 0
    /\ worker[w].pc # "IDLE"
    /\ worker' = [worker EXCEPT ![w] = Idle]
    /\ crashes' = crashes - 1
    /\ UNCHANGED <<walletVars, quote, payout, gateway, reports>>

-----------------------------------------------------------------------------
(* The Provider (external) *)

\* An accepted request ends; a paid one may still be reversed.
GatewayMoves(q) ==
    /\ \/ /\ gateway[q].state = "ACCEPTED"
          /\ \E s \in {"PAID", "FAILED", "CANCELLED"} :
                gateway' = [gateway EXCEPT ![q].state = s]
       \/ /\ gateway[q].state = "PAID"
          /\ gateway' = [gateway EXCEPT ![q].state = "REVERSED"]
    /\ UNCHANGED <<walletVars, quote, payout, worker, reports, crashes>>

KindOf(state) ==
    CASE state = "ACCEPTED" -> "PENDING"
      [] state = "PAID"     -> "SUCCEEDED"
      [] OTHER              -> state

\* parsePayoutProviderEvent reads an absent fee or tax as zero.
OutcomesOf(g) ==
    {[kind |-> KindOf(g.state), charge |-> c] :
        c \in IF g.state # "PAID" THEN {NoCharge}
              ELSE IF ChargesComplete THEN {g.charge} ELSE {g.charge, NoCharge}}

\* A webhook is sent, or a reconciliation reads the current state.  What is
\* made known once can be applied at any later time.
GatewayReports(q) ==
    /\ gateway[q].state \notin {"UNKNOWN", "REFUSED"}
    /\ \E o \in OutcomesOf(gateway[q]) :
          reports' = [reports EXCEPT ![q] = @ \union {o}]
    /\ UNCHANGED <<walletVars, quote, payout, worker, gateway, crashes>>

-----------------------------------------------------------------------------
(* applyPayoutOutcomeInTransaction, one action per branch that writes.     *)
(* The branches that return or throw leave the state as it is.             *)

Reported(q, kind) == {o.charge : o \in {r \in reports[q] : r.kind = kind}}

\* settlePayout: principal and tax clear, the fee is revenue, the rest of
\* the reserve returns.
SettlePayout(q, c) ==
    LET unused == MaxDebit(q) - Debit(q, c)
    IN  /\ PostToWallet(Owner(q), Posted(wallet[Owner(q)], 0, 0, unused, -MaxDebit(q)))
        /\ PostToPlatform(c.fee, Terms[q].principal + c.tax)
        /\ UNCHANGED walletStatus

ApplySucceeded(q) ==
    \E c \in Reported(q, "SUCCEEDED") :
        /\ Debit(q, c) <= MaxDebit(q)
        /\ \/ /\ AwaitsProvider(q)
              /\ SettlePayout(q, c)
              /\ payout' = [payout EXCEPT ![q] =
                               [@ EXCEPT !.status = "SUCCEEDED",
                                         !.claim = "NONE", !.actual = c,
                                         !.settled = c]]
           \/ /\ payout[q].status = "SUCCEEDED"
              /\ payout' = [payout EXCEPT ![q] =
                               [@ EXCEPT !.actual = c, !.claim = "NONE"]]
              /\ UNCHANGED walletVars
        /\ UNCHANGED <<quote, worker, gateway, reports, crashes>>

\* A reversal that arrives before the success it reverses normalizes to FAILED.
ApplyFailure(q) ==
    /\ AwaitsProvider(q)
    /\ \/ /\ Reported(q, "CANCELLED") # {}
          /\ ReleaseReserve(q, "CANCELLED")
       \/ /\ Reported(q, "FAILED") \union Reported(q, "REVERSED") # {}
          /\ ReleaseReserve(q, "FAILED")
    /\ UNCHANGED <<quote, worker, gateway, reports, crashes>>

ApplyPending(q) ==
    /\ Reported(q, "PENDING") # {}
    /\ AwaitsProvider(q)
    /\ payout' = [payout EXCEPT ![q] =
                     [@ EXCEPT !.status = "PROVIDER_PENDING",
                               !.claim = "NONE"]]
    /\ UNCHANGED <<walletVars, quote, worker, gateway, reports, crashes>>

\* The Wallet after reverseSucceededPayout's first ledger transaction.
Unsettled(q) ==
    Posted(wallet[Owner(q)], 0, 0, Debit(q, payout[q].settled) - MaxDebit(q), MaxDebit(q))

\* reverseSucceededPayout: undo the settlement, then release the reserve; the
\* projection is checked after each of the two ledger transactions.
ApplyReversal(q) ==
    /\ Reported(q, "REVERSED") # {}
    /\ payout[q].status = "SUCCEEDED"
    /\ ~payout[q].reversed
    /\ ValidProjection(Unsettled(q))
    /\ PostToWallet(Owner(q), Posted(Unsettled(q), 0, 0, MaxDebit(q), -MaxDebit(q)))
    /\ PostToPlatform(-payout[q].settled.fee, -(Terms[q].principal + payout[q].settled.tax))
    /\ payout' = [payout EXCEPT ![q].reversed = TRUE]
    /\ UNCHANGED <<walletStatus, quote, worker, gateway, reports, crashes>>

-----------------------------------------------------------------------------
OtherWalletActivity ==
    /\ \/ \E m \in Members, n \in ConversionLimits : ConvertEarnings(m, n)
       \/ \E m \in Members, s \in StatusChanges : ChangeWalletStatus(m, s)
    /\ UNCHANGED payoutVars

WorkerStep(w) ==
    \/ \E q \in Quotes : SelectCandidate(w, q)
    \/ ClaimApprovedPayout(w)
    \/ PreparationFails(w)
    \/ CallProvider(w)
    \/ FinalizeProviderResponse(w)
    \/ FinalizeRejected(w)
    \/ FinalizeUncertain(w)
    \/ CompleteSubmissionJob(w)

PayoutStep(q) ==
    \/ CreateQuote(q)
    \/ LapseQuote(q)
    \/ PreparePayout(q)
    \/ ApprovePayout(q)
    \/ CancelPayout(q)
    \/ LeaseExpires(q)
    \/ GatewayMoves(q)
    \/ GatewayReports(q)
    \/ ApplySucceeded(q)
    \/ ApplyFailure(q)
    \/ ApplyPending(q)
    \/ ApplyReversal(q)

Next ==
    \/ \E q \in Quotes : PayoutStep(q)
    \/ \E w \in Workers : WorkerStep(w) \/ WorkerCrash(w)
    \/ OtherWalletActivity

Spec == Init /\ [][Next]_vars

\* The scheduler ticks every fifteen seconds, a claimed run goes on, and time
\* passes.  Nothing is assumed of Members, Admins or the Provider's reports.
Fairness ==
    /\ \A w \in Workers : WF_vars(WorkerStep(w))
    /\ \A q \in Quotes : WF_vars(LeaseExpires(q))

FairSpec == Spec /\ Fairness
-----------------------------------------------------------------------------
(* Properties *)

\* RESERVED_FOR_PAYOUTS holds exactly the maximum debit of the one Payout of
\* the Member that is neither settled nor released, whoever finalized what.
ReserveMatchesActive ==
    /\ \A p, q \in Quotes : Active(p) /\ Active(q) /\ Owner(p) = Owner(q) => p = q
    /\ \A q \in Quotes :
          Active(q) => wallet[Owner(q)].RESERVED_FOR_PAYOUTS = MaxDebit(q)
    /\ \A m \in Members :
          (\A q \in Quotes : Owner(q) = m => ~Active(q))
              => wallet[m].RESERVED_FOR_PAYOUTS = 0

\* What a Payout has taken from the Member's whole Wallet: its actual debit, if
\* it succeeded and was not reversed.
Taken(q) ==
    IF payout[q].status = "SUCCEEDED" /\ ~payout[q].reversed
    THEN Debit(q, payout[q].settled) ELSE 0

\* The ledger never disagrees with the Provider about the money: a reserve is
\* settled only if the Provider paid, and released only if the Provider will
\* not pay (or has taken the money back).
LedgerFollowsProvider ==
    \A q \in Quotes :
        /\ payout[q].status = "SUCCEEDED" => gateway[q].state \in {"PAID", "REVERSED"}
        /\ payout[q].status \in {"FAILED", "CANCELLED"}
              => gateway[q].state \notin {"ACCEPTED", "PAID"}

\* An approved Payout does not stay with the Worker for ever: crashes, lost
\* answers and expired leases end in an answer or in PROVIDER_PENDING.
SubmissionEnds ==
    \A q \in Quotes : payout[q].status = "SUBMITTED_TO_PROVIDER"
        ~> payout[q].status # "SUBMITTED_TO_PROVIDER"

-----------------------------------------------------------------------------
(* The promise, and how the detailed state keeps it. *)

PhaseOf(row) ==
    CASE row.status = "NONE" -> "IDLE"
      [] row.status \in ActiveStatuses -> "HELD"
      [] row.status \in {"FAILED", "CANCELLED"} -> "RETURNED"
      [] row.status = "SUCCEEDED" -> IF row.reversed THEN "REFUNDED" ELSE "TAKEN"

Promise == INSTANCE PayoutPromise WITH
    OwnerOf <- [q \in Quotes |-> Owner(q)],
    Limit <- [q \in Quotes |-> MaxDebit(q)],
    InitialTotal <- [m \in Members |-> WalletTotal(InitialWallet[m])],
    phase <- [q \in Quotes |-> PhaseOf(payout[q])],
    taken <- [q \in Quotes |-> Taken(q)],
    total <- [m \in Members |-> WalletTotal(wallet[m])]

\* Payout implements PayoutPromise.
KeepsPromise == Promise!Spec
=============================================================================
