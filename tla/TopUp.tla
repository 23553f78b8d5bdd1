------------------------------- MODULE TopUp -------------------------------
(***************************************************************************)
(* A Top-up from Quote to credit and, if the Provider takes the money      *)
(* back, to its reversal.                                                  *)
(*                                                                         *)
(* A Member confirms a Quote: the Top-up is PENDING and its credit counts  *)
(* against the capacity of the Wallet.  The payment request is created at  *)
(* the Provider outside every transaction; a request that gets no clear    *)
(* answer leaves the row as it is and may be repeated with the same        *)
(* Idempotency-Key.  What the Provider decides arrives as events in the    *)
(* inbox (ProviderEventInbox) or is read by an Admin's reconciliation,     *)
(* which does not use the inbox; both apply it the same way, at any time   *)
(* and in any order.                                                       *)
(*                                                                         *)
(* One action is one database transaction or one call to the Provider.  A  *)
(* Top-up is named by the Quote it consumes.  The Provider is outside the  *)
(* repository: its actions say what the adapter relies on, that a repeated *)
(* request with the same idempotency key opens no second payment and gets  *)
(* no other answer, and that an outcome is reported only once it is true.  *)
(***************************************************************************)
EXTENDS Wallet, ProviderEventInbox, FiniteSetsExt

CONSTANTS
    TopUps,         \* Top-up Quotes, and so Top-ups
    TopUpTerms,     \* TopUpTerms[t]: owner and credit
    Content,        \* Content[e]: the Top-up an event is about and what it reports
    Tasks,          \* requests in progress: initiations and reconciliations
    NoTopUp,        \* a task works on no Top-up
    Rewards,        \* amounts the rest of the system pays into EARNINGS
    Fundings,       \* amounts the Member puts into Funding Reservations
    MaxOthers       \* bound: such postings of the rest of the system

\* REVERSED: refund.succeeded and the like; REFUND_FAILED: refund.failed.
Kinds == {"PENDING", "PAID", "EXPIRED", "FAILED", "REVERSED", "REFUND_FAILED"}

ASSUME TopUpAssumption ==
    /\ IsFiniteSet(TopUps)
    /\ TopUpTerms \in [TopUps -> [owner: Members, credit: Nat \ {0}]]
    /\ Content \in [Events -> [topUp: TopUps, kind: Kinds]]
    /\ Webhooks = Events
    /\ NoTopUp \notin TopUps
    /\ Rewards \subseteq Nat
    /\ Fundings \subseteq Nat
    /\ MaxOthers \in Nat

Owner(t)  == TopUpTerms[t].owner
Credit(t) == TopUpTerms[t].credit

\* "NONE": no row.  referenced: provider_reference is set; qr: the payment
\* instructions are; reversed: a correction of the credit exists.
TopUpRows == [status: {"NONE", "PENDING", "PAID", "EXPIRED", "FAILED"},
              referenced: BOOLEAN, qr: BOOLEAN, reversed: BOOLEAN]
NoTopUpRow == [status |-> "NONE", referenced |-> FALSE, qr |-> FALSE, reversed |-> FALSE]

TaskStates == [pc: {"IDLE", "CALLING", "REPLIED", "READ"}, topUp: TopUps \union {NoTopUp},
               reply: {"NONE", "ACCEPTED", "REFUSED"}, kind: Kinds \union {"NONE"}]
NoTask == [pc |-> "IDLE", topUp |-> NoTopUp, reply |-> "NONE", kind |-> "NONE"]

PaymentStates == {"UNKNOWN", "REFUSED", "OPEN", "PAID", "EXPIRED", "FAILED", "REVERSED"}

VARIABLES
    quote,     \* quote[t] \in {"NONE", "OPEN", "LAPSED", "CONSUMED"}
    topUp,     \* topUp[t]: the row
    task,      \* task[s]: where an initiateTopUp or reconcileTopUp stands
    payment,   \* payment[t]: what the Provider has done with the request
    earned,    \* earned[m]: what others have paid into the Wallet
    othersLeft

topUpVars == <<quote, topUp, task, payment, earned, othersLeft>>
vars == <<walletVars, inboxVars, topUpVars>>

TypeOK ==
    /\ WalletTypeOK
    /\ InboxTypeOK
    /\ quote \in [TopUps -> {"NONE", "OPEN", "LAPSED", "CONSUMED"}]
    /\ topUp \in [TopUps -> TopUpRows]
    /\ task \in [Tasks -> TaskStates]
    /\ payment \in [TopUps -> PaymentStates]
    /\ earned \in [Members -> Nat]
    /\ othersLeft \in Nat

Init ==
    /\ WalletInit
    /\ InboxInit
    /\ quote = [t \in TopUps |-> "NONE"]
    /\ topUp = [t \in TopUps |-> NoTopUpRow]
    /\ task = [s \in Tasks |-> NoTask]
    /\ payment = [t \in TopUps |-> "UNKNOWN"]
    /\ earned = [m \in Members |-> 0]
    /\ othersLeft = MaxOthers

-----------------------------------------------------------------------------
(* Member *)

\* quoteTopUp
CreateQuote(t) ==
    /\ quote[t] = "NONE"
    /\ quote' = [quote EXCEPT ![t] = "OPEN"]
    /\ UNCHANGED <<walletVars, inboxVars, topUp, task, payment, earned, othersLeft>>

LapseQuote(t) ==
    /\ quote[t] = "OPEN"
    /\ quote' = [quote EXCEPT ![t] = "LAPSED"]
    /\ UNCHANGED <<walletVars, inboxVars, topUp, task, payment, earned, othersLeft>>

TotalCredit(S) == SumFunctionOnSet([t \in TopUps |-> Credit(t)], S)

PendingCredit(m) ==
    TotalCredit({t \in TopUps : Owner(t) = m /\ topUp[t].status = "PENDING"})

\* Mutant: only the Wallet is looked at, not the Top-ups under way.
HasRoomNow(t) == WalletTotal(wallet[Owner(t)]) + Credit(t) <= Capacity

HasRoom(t) ==
    WalletTotal(wallet[Owner(t)]) + PendingCredit(Owner(t)) + Credit(t) <= Capacity

Starts(s, t) == task' = [task EXCEPT ![s] = [NoTask EXCEPT !.pc = "CALLING", !.topUp = t]]

\* prepareTopUp for a new Idempotency-Key.
PrepareTopUp(s, t) ==
    /\ task[s].pc = "IDLE"
    /\ StudentMayStart(Owner(t))
    /\ quote[t] = "OPEN"
    /\ HasRoom(t)
    /\ topUp' = [topUp EXCEPT ![t].status = "PENDING"]
    /\ quote' = [quote EXCEPT ![t] = "CONSUMED"]
    /\ Starts(s, t)
    /\ UNCHANGED <<walletVars, inboxVars, payment, earned, othersLeft>>

\* A retry with the same key reads the row; without a reference and without an
\* outcome the request is sent again.  Otherwise the row is the answer.
RetryTopUp(s, t) ==
    /\ task[s].pc = "IDLE"
    /\ topUp[t].status = "PENDING" /\ ~topUp[t].referenced
    /\ Starts(s, t)
    /\ UNCHANGED <<walletVars, inboxVars, quote, topUp, payment, earned, othersLeft>>

-----------------------------------------------------------------------------
(* The call to the Provider *)

\* A request never arrives, is known already, or gets a first decision.
RequestEffects(state) == IF state = "UNKNOWN" THEN {"UNKNOWN", "OPEN", "REFUSED"} ELSE {state}

\* createPayment.  A lost, late or incomplete answer reads as uncertain, which
\* ends the request with an error and changes nothing.
CreatePayment(s) ==
    LET t == task[s].topUp
    IN  /\ task[s].pc = "CALLING"
        /\ \E state \in RequestEffects(payment[t]) :
              /\ payment' = [payment EXCEPT ![t] = state]
              /\ \/ task' = [task EXCEPT ![s] = NoTask]
                 \/ /\ state # "UNKNOWN"
                    /\ task' = [task EXCEPT ![s] =
                          [@ EXCEPT !.pc = "REPLIED",
                                    !.reply = IF state = "REFUSED" THEN "REFUSED" ELSE "ACCEPTED"]]
        /\ UNCHANGED <<walletVars, inboxVars, quote, topUp, earned, othersLeft>>

Ends(s) == task' = [task EXCEPT ![s] = NoTask]

\* Mutant: the locked row is not checked again.
FinalizeUnchecked(s) ==
    LET t == task[s].topUp
    IN  /\ task[s].pc = "REPLIED" /\ task[s].reply = "ACCEPTED"
        /\ topUp' = [topUp EXCEPT ![t] =
              [status |-> "PENDING", referenced |-> TRUE, qr |-> TRUE, reversed |-> FALSE]]
        /\ Ends(s)
        /\ UNCHANGED <<walletVars, inboxVars, quote, payment, earned, othersLeft>>

\* finalizeProviderResponse: only a PENDING row takes the answer.
FinalizeProviderResponse(s) ==
    LET t == task[s].topUp
    IN  /\ task[s].pc = "REPLIED" /\ task[s].reply = "ACCEPTED"
        /\ topUp' = IF topUp[t].status # "PENDING" THEN topUp
                    ELSE [topUp EXCEPT ![t] = [@ EXCEPT !.referenced = TRUE, !.qr = TRUE]]
        /\ Ends(s)
        /\ UNCHANGED <<walletVars, inboxVars, quote, payment, earned, othersLeft>>

\* finalizeProviderRejection
FinalizeProviderRejection(s) ==
    LET t == task[s].topUp
    IN  /\ task[s].pc = "REPLIED" /\ task[s].reply = "REFUSED"
        /\ topUp' = IF topUp[t].status # "PENDING" THEN topUp
                    ELSE [topUp EXCEPT ![t].status = "FAILED"]
        /\ Ends(s)
        /\ UNCHANGED <<walletVars, inboxVars, quote, payment, earned, othersLeft>>

\* The process of a task dies, or its transaction fails.
TaskCrash(s) ==
    /\ crashesLeft > 0
    /\ task[s].pc # "IDLE"
    /\ Ends(s)
    /\ crashesLeft' = crashesLeft - 1
    /\ UNCHANGED <<walletVars, inbox, processor, applied, quote, topUp, payment,
                   earned, othersLeft>>

-----------------------------------------------------------------------------
(* The Provider (external) *)

PaymentMoves(t) ==
    /\ \/ /\ payment[t] = "OPEN"
          /\ \E state \in {"PAID", "EXPIRED", "FAILED"} :
                payment' = [payment EXCEPT ![t] = state]
       \/ /\ payment[t] = "PAID"
          /\ payment' = [payment EXCEPT ![t] = "REVERSED"]
    /\ UNCHANGED <<walletVars, inboxVars, quote, topUp, task, earned, othersLeft>>

KindOf(state) == IF state = "OPEN" THEN "PENDING" ELSE state

\* What may have been reported so far.
Reportable(t) ==
    CASE payment[t] \in {"UNKNOWN", "REFUSED"} -> {}
      [] payment[t] = "PAID"     -> {"PENDING", "PAID", "REFUND_FAILED"}
      [] payment[t] = "REVERSED" -> {"PENDING", "PAID", "REFUND_FAILED", "REVERSED"}
      [] OTHER                   -> {"PENDING", KindOf(payment[t])}

-----------------------------------------------------------------------------
(* applyTopUpOutcomeInTransaction *)

\* Mutant: a credit is taken back as often as a reversal is reported.
ReverseAgain(t) ==
    LET m == Owner(t)
    IN  /\ PostToWallet(m, Posted(wallet[m], -Credit(t), 0, 0, 0))
        /\ PostToPlatform(0, Credit(t))
        /\ topUp' = [topUp EXCEPT ![t].reversed = TRUE]
        /\ UNCHANGED walletStatus

\* reversePaidTopUpInTransaction: once per credit, and only from SPENDING.
ReversePaidTopUp(t) ==
    LET m == Owner(t)
    IN  \/ /\ topUp[t].reversed
           /\ UNCHANGED <<walletVars, topUp>>
        \/ /\ ~topUp[t].reversed
           /\ PostToWallet(m, Posted(wallet[m], -Credit(t), 0, 0, 0))
           /\ PostToPlatform(0, Credit(t))
           /\ topUp' = [topUp EXCEPT ![t].reversed = TRUE]
           /\ UNCHANGED walletStatus

CreditTopUp(t) ==
    LET m == Owner(t)
    IN  /\ PostToWallet(m, Posted(wallet[m], Credit(t), 0, 0, 0))
        /\ PostToPlatform(0, -Credit(t))
        /\ topUp' = [topUp EXCEPT ![t] = [@ EXCEPT !.status = "PAID", !.referenced = TRUE]]
        /\ UNCHANGED walletStatus

\* Mutant: a Top-up that has ended can still be paid.
ApplyToAny(t, kind) ==
    \/ /\ topUp[t].status = "PAID" /\ kind = "REVERSED"
       /\ ReversePaidTopUp(t)
    \/ /\ topUp[t].status = "PAID" /\ kind # "REVERSED"
       /\ UNCHANGED <<walletVars, topUp>>
    \/ /\ topUp[t].status # "PAID" /\ kind = "PAID"
       /\ CreditTopUp(t)
    \/ /\ topUp[t].status # "PAID" /\ kind # "PAID"
       /\ topUp' = [topUp EXCEPT ![t].status = IF kind = "EXPIRED" THEN "EXPIRED" ELSE "FAILED"]
       /\ UNCHANGED walletVars

\* A PENDING Top-up takes the outcome, and its Provider reference with it: all
\* but PAID and EXPIRED reads as FAILED, a refund that failed too.  A Top-up that
\* has ended only hears of the reversal of a credit.
ApplyTopUpOutcome(t, kind) ==
    \/ /\ topUp[t].status = "PAID" /\ kind = "REVERSED"
       /\ ReversePaidTopUp(t)
    \/ /\ topUp[t].status # "PENDING"
       /\ ~(topUp[t].status = "PAID" /\ kind = "REVERSED")
       /\ UNCHANGED <<walletVars, topUp>>
    \/ /\ topUp[t].status = "PENDING" /\ kind = "PENDING"
       /\ topUp' = [topUp EXCEPT ![t].referenced = TRUE]
       /\ UNCHANGED walletVars
    \/ /\ topUp[t].status = "PENDING" /\ kind = "PAID"
       /\ CreditTopUp(t)
    \/ /\ topUp[t].status = "PENDING" /\ kind \in Kinds \ {"PENDING", "PAID"}
       /\ topUp' = [topUp EXCEPT ![t] =
             [@ EXCEPT !.status = IF kind = "EXPIRED" THEN "EXPIRED" ELSE "FAILED",
                       !.referenced = TRUE]]
       /\ UNCHANGED walletVars

\* The Provider delivers an event once it is true, and again.
ReceiveEvent(p, e) ==
    /\ Content[e].kind \in Reportable(Content[e].topUp)
    /\ ReceiveWebhook(p, e)
    /\ UNCHANGED <<walletVars, topUpVars>>

\* completeClaimedEvent applies the outcome and settles the event together; a
\* ledger transaction the projection rejects makes it fail (ApplyFails).
ApplyEvent(p, e) ==
    /\ Apply(p, e)
    /\ ApplyTopUpOutcome(Content[e].topUp, Content[e].kind)
    /\ UNCHANGED <<quote, task, payment, earned, othersLeft>>

\* The rest of the inbox touches no Top-up.
InboxStep ==
    /\ \/ \E p \in Processors : ClaimEvents(p) \/ FailClaimedEvent(p) \/ ProcessorCrash(p)
       \/ \E p \in Processors, e \in Events :
             FindProcessed(p, e) \/ FindUnclaimed(p, e) \/ ApplyFails(p, e)
       \/ \E e \in Events : LeaseLapses(e) \/ RetryEvent(e)
    /\ UNCHANGED <<walletVars, topUpVars>>

\* reconcileTopUp reads the Provider first; a request it does not know, or a
\* paid amount that differs, is uncertain and ends the task.
ReadStatus(s, t) ==
    /\ task[s].pc = "IDLE"
    /\ topUp[t].status # "NONE"
    /\ payment[t] \notin {"UNKNOWN", "REFUSED"}
    /\ task' = [task EXCEPT ![s] =
          [pc |-> "READ", topUp |-> t, reply |-> "NONE", kind |-> KindOf(payment[t])]]
    /\ UNCHANGED <<walletVars, inboxVars, quote, topUp, payment, earned, othersLeft>>

\* Then it applies what it read, or fails.
ApplyStatus(s) ==
    /\ task[s].pc = "READ"
    /\ \/ ApplyTopUpOutcome(task[s].topUp, task[s].kind)
       \/ UNCHANGED <<walletVars, topUp>>
    /\ Ends(s)
    /\ UNCHANGED <<inboxVars, quote, payment, earned, othersLeft>>

-----------------------------------------------------------------------------
(* The rest of the system posts to the same Wallet. *)

\* A settlement pays a reward into EARNINGS.
EarnReward(m, amount) ==
    /\ othersLeft > 0
    /\ PostToWallet(m, Posted(wallet[m], 0, 0, amount, 0))
    /\ earned' = [earned EXCEPT ![m] = @ + amount]
    /\ othersLeft' = othersLeft - 1
    /\ UNCHANGED <<platform, walletStatus, inboxVars, quote, topUp, task, payment>>

\* A Funding Reservation takes from SPENDING.
FundReservation(m, amount) ==
    /\ othersLeft > 0
    /\ StudentMayStart(m)
    /\ wallet[m].SPENDING >= amount
    /\ PostToWallet(m, Posted(wallet[m], -amount, amount, 0, 0))
    /\ othersLeft' = othersLeft - 1
    /\ UNCHANGED <<platform, walletStatus, inboxVars, quote, topUp, task, payment, earned>>

WalletStep ==
    /\ \E m \in Members :
          \/ \E amount \in ConversionLimits : ConvertEarnings(m, amount)
          \/ \E status \in StatusChanges : ChangeWalletStatus(m, status)
    /\ UNCHANGED <<inboxVars, topUpVars>>

-----------------------------------------------------------------------------
TopUpStep(t) ==
    \/ CreateQuote(t) \/ LapseQuote(t) \/ PaymentMoves(t)
    \/ \E s \in Tasks : PrepareTopUp(s, t) \/ RetryTopUp(s, t) \/ ReadStatus(s, t)

TaskStep(s) ==
    \/ CreatePayment(s) \/ FinalizeProviderResponse(s) \/ FinalizeProviderRejection(s)
    \/ ApplyStatus(s) \/ TaskCrash(s)

OtherStep(m) ==
    \/ \E amount \in Rewards : EarnReward(m, amount)
    \/ \E amount \in Fundings : FundReservation(m, amount)

Next ==
    \/ \E t \in TopUps : TopUpStep(t)
    \/ \E s \in Tasks : TaskStep(s)
    \/ \E p \in Processors, e \in Events : ReceiveEvent(p, e) \/ ApplyEvent(p, e)
    \/ InboxStep
    \/ \E m \in Members : OtherStep(m)
    \/ WalletStep

Spec == Init /\ [][Next]_vars

-----------------------------------------------------------------------------
(* Properties *)

Credited(t) == topUp[t].status = "PAID" /\ ~topUp[t].reversed

\* Every satang of a Wallet is accounted for: what it started with, what
\* others paid in, and the credit of each Top-up that is PAID and not
\* reversed, once, however often its outcome was reported, read and retried.
CreditedOnce ==
    /\ \A m \in Members :
          WalletTotal(wallet[m]) = WalletTotal(InitialWallet[m]) + earned[m]
              + TotalCredit({t \in TopUps : Owner(t) = m /\ Credited(t)})
    /\ platform.PLATFORM_SUSPENSE = -TotalCredit({t \in TopUps : Credited(t)})

\* A Top-up is credited only after the Provider was paid, and given up only
\* when the Provider will not be, or has returned the money: no payer's money
\* is dropped by a lost answer, a retry, a late event or a stale read.  A refund
\* that failed (REFUND_FAILED) breaks it when it is applied before the payment.
TopUpFollowsProvider ==
    \A t \in TopUps :
        /\ topUp[t].status = "PAID" => payment[t] \in {"PAID", "REVERSED"}
        /\ topUp[t].reversed => payment[t] = "REVERSED"
        /\ topUp[t].status \in {"EXPIRED", "FAILED"}
              => payment[t] \in {"REFUSED", "EXPIRED", "FAILED", "REVERSED"}

\* A processed event has had its effect, in whatever order the events of a
\* Top-up were processed: a payment is credited unless it was returned, and a
\* returned payment is not in the Wallet.
ProcessedTakesEffect ==
    \A e \in Events :
        LET t == Content[e].topUp
        IN  inbox[e].status = "PROCESSED" =>
              CASE Content[e].kind = "PAID"     -> topUp[t].status = "PAID" \/ payment[t] = "REVERSED"
                [] Content[e].kind = "REVERSED" -> topUp[t].status # "PENDING" /\ ~Credited(t)
                [] Content[e].kind = "PENDING"  -> topUp[t].status # "PENDING" \/ topUp[t].referenced
                [] Content[e].kind = "REFUND_FAILED" -> topUp[t].status # "PENDING"
                [] OTHER                        -> topUp[t].status \in {"EXPIRED", "FAILED"}

\* The Top-ups a Member has under way fit into the Wallet beside everything
\* but what others paid in since: concurrent initiations, credits and
\* conversions do not promise the same room twice.
OwnRequestsFit ==
    \A m \in Members : WalletTotal(wallet[m]) - earned[m] + PendingCredit(m) <= Capacity
=============================================================================
