------------------------- MODULE ProviderEventInbox -------------------------
(***************************************************************************)
(* The durable inbox of Provider events (payment_provider_event_inbox).    *)
(*                                                                         *)
(* A webhook stores its event and answers 202; the work starts afterwards, *)
(* in a microtask of the same process.  A processor claims what is ready   *)
(* under a five minute lease, at most BatchLimit events, and then applies  *)
(* them one after the other, each in a transaction that also marks the     *)
(* event PROCESSED.  A failure is written down in one more transaction.    *)
(* Nothing ties a processor to its claim: the row only says that somebody  *)
(* holds it.  No timer and no worker looks for events, so one that is left *)
(* behind waits for the next webhook.                                      *)
(*                                                                         *)
(* Top-ups and Payouts have the same inbox code, each over its own rows;   *)
(* what applying an event does is theirs.  Here it either happens, or is   *)
(* refused for good, or fails for a reason that may pass.                  *)
(***************************************************************************)
EXTENDS Integers, FiniteSets

CONSTANTS
    Events,          \* event identifiers a Provider or a reconciliation uses
    Webhooks,        \* those a Provider delivers; reconciliation inserts the rest
    NoEvent,         \* a processor is not bound to one event
    Processors,      \* webhook requests and reconciliations in progress
    MaxAttempts,     \* providerEventMaxAttempts
    BatchLimit,      \* events one processor claims
    Refused,         \* events whose outcome no row will ever accept
    MaxCrashes       \* bound: processors that die half way

ASSUME InboxAssumption ==
    /\ IsFiniteSet(Events)
    /\ Webhooks \subseteq Events
    /\ NoEvent \notin Events
    /\ MaxAttempts \in Nat \ {0}
    /\ BatchLimit \in Nat \ {0}
    /\ Refused \subseteq Events
    /\ MaxCrashes \in Nat

Settled == {"PROCESSED", "DEAD_LETTER"}
Statuses == {"NONE", "RECEIVED", "PROCESSING", "RETRYABLE"} \union Settled

\* stale: the lease of claimedAt is over; at: the place in receivedAt order.
EventRows == [status: Statuses, attempts: 0..MaxAttempts, stale: BOOLEAN, at: Nat]
NoEventRow == [status |-> "NONE", attempts |-> 0, stale |-> FALSE, at |-> 0]

Errors == {"NONE", "PERMANENT", "TRANSIENT"}
ProcessorStates == [pc: {"IDLE", "QUEUED", "APPLYING", "FAILING"},
                    only: Events \union {NoEvent}, batch: SUBSET Events,
                    event: Events \union {NoEvent}, error: Errors]
Resting == [pc |-> "IDLE", only |-> NoEvent, batch |-> {},
            event |-> NoEvent, error |-> "NONE"]

VARIABLES
    inbox,      \* inbox[e]: the row of event e
    processor,  \* processor[p]: a webhook's microtask or a reconciliation
    applied,    \* applied[e]: how often the outcome of e took effect, up to 2
    crashesLeft

inboxVars == <<inbox, processor, applied, crashesLeft>>

InboxTypeOK ==
    /\ inbox \in [Events -> EventRows]
    /\ processor \in [Processors -> ProcessorStates]
    /\ applied \in [Events -> 0..2]
    /\ crashesLeft \in Nat

InboxInit ==
    /\ inbox = [e \in Events |-> NoEventRow]
    /\ processor = [p \in Processors |-> Resting]
    /\ applied = [e \in Events |-> 0]
    /\ crashesLeft = MaxCrashes

-----------------------------------------------------------------------------
(* Arrival *)

Known(e) == inbox[e].status # "NONE"

Received(place) == [status |-> "RECEIVED", attempts |-> 0, stale |-> FALSE, at |-> place]

\* The row is inserted once; a repeated identifier returns the row it finds.
Store(e) ==
    inbox' = IF Known(e) THEN inbox
             ELSE [inbox EXCEPT ![e] = Received(Cardinality({f \in Events : Known(f)}))]

\* receivePayoutWebhookController: store, answer, and queue the processing of
\* whatever is ready.
ReceiveWebhook(p, e) ==
    /\ processor[p].pc = "IDLE"
    /\ e \in Webhooks
    /\ Store(e)
    /\ processor' = [processor EXCEPT ![p] = [Resting EXCEPT !.pc = "QUEUED"]]
    /\ UNCHANGED <<applied, crashesLeft>>

\* reconcilePayout stores what it read and then processes that event alone.
ReceiveReconciliation(p, e) ==
    /\ processor[p].pc = "IDLE"
    /\ e \notin Webhooks
    /\ Store(e)
    /\ processor' = [processor EXCEPT ![p] =
                        [Resting EXCEPT !.pc = "QUEUED", !.only = e]]
    /\ UNCHANGED <<applied, crashesLeft>>

-----------------------------------------------------------------------------
(* Claim *)

Ready(e) ==
    \/ inbox[e].status \in {"RECEIVED", "RETRYABLE"} /\ inbox[e].attempts < MaxAttempts
    \/ inbox[e].status = "PROCESSING" /\ inbox[e].stale

\* p applies what it claimed in receivedAt order.
Turn(p, e) ==
    /\ processor[p].pc = "APPLYING"
    /\ e \in processor[p].batch
    /\ \A f \in processor[p].batch : inbox[e].at <= inbox[f].at

\* The row each other processor is about to lock, or has locked.
Locked(p) == {e \in Events : \E r \in Processors \ {p} : Turn(r, e) \/ processor[r].event = e}

\* The first BatchLimit ready rows in receivedAt order.  A row that another
\* processor has locked to apply it is skipped.
Candidates(p, held) ==
    LET ready == {e \in Events \ held :
                     Ready(e) /\ processor[p].only \in {NoEvent, e}}
    IN  {e \in ready : Cardinality({f \in ready : inbox[f].at < inbox[e].at}) < BatchLimit}

\* A stale claim that has used its attempts is given up.
Exhausted(e) == inbox[e].status = "PROCESSING" /\ inbox[e].attempts >= MaxAttempts

\* Mutant: the attempt is not counted.
ClaimedUncounted(row) == [row EXCEPT !.status = "PROCESSING", !.stale = FALSE]

Claimed(row) == [status |-> "PROCESSING", attempts |-> row.attempts + 1,
                 stale |-> FALSE, at |-> row.at]

\* claimEvents
ClaimEvents(p) ==
    /\ processor[p].pc = "QUEUED"
    /\ \E held \in SUBSET Locked(p) :
          LET chosen == Candidates(p, held)
              dead   == {e \in chosen : Exhausted(e)}
              taken  == chosen \ dead
          IN  /\ inbox' = [e \in Events |->
                    CASE e \in dead  -> [inbox[e] EXCEPT !.status = "DEAD_LETTER", !.stale = FALSE]
                      [] e \in taken -> Claimed(inbox[e])
                      [] OTHER       -> inbox[e]]
              /\ processor' = [processor EXCEPT ![p] =
                    IF taken = {} THEN Resting
                    ELSE [@ EXCEPT !.pc = "APPLYING", !.batch = taken]]
    /\ UNCHANGED <<applied, crashesLeft>>

\* Five minutes pass since claimedAt.
LeaseLapses(e) ==
    /\ inbox[e].status = "PROCESSING" /\ ~inbox[e].stale
    /\ inbox' = [inbox EXCEPT ![e].stale = TRUE]
    /\ UNCHANGED <<processor, applied, crashesLeft>>

-----------------------------------------------------------------------------
(* Application *)

\* p goes on with the rest of what it claimed.
Proceed(p, e) ==
    LET rest == processor[p].batch \ {e}
    IN  processor' = [processor EXCEPT ![p] =
            IF rest = {} THEN Resting
            ELSE [Resting EXCEPT !.pc = "APPLYING", !.batch = rest]]

\* The transaction of p is rolled back with an error.
Throw(p, e, error) ==
    processor' = [processor EXCEPT ![p] =
                     [@ EXCEPT !.pc = "FAILING", !.event = e, !.error = error]]

\* completeClaimedEvent finds that somebody else applied e.
FindProcessed(p, e) ==
    /\ Turn(p, e)
    /\ inbox[e].status = "PROCESSED"
    /\ Proceed(p, e)
    /\ UNCHANGED <<inbox, applied, crashesLeft>>

\* It finds that the claim is gone: PROVIDER_EVENT_NOT_RETRYABLE.
FindUnclaimed(p, e) ==
    /\ Turn(p, e)
    /\ inbox[e].status \notin {"PROCESSED", "PROCESSING"}
    /\ Throw(p, e, "PERMANENT")
    /\ UNCHANGED <<inbox, applied, crashesLeft>>

Once(n) == IF n = 2 THEN 2 ELSE n + 1

\* Mutant: the status of the locked row is not checked again.
ApplyUnchecked(p, e) ==
    /\ Turn(p, e)
    /\ e \notin Refused
    /\ applied' = [applied EXCEPT ![e] = Once(@)]
    /\ inbox' = [inbox EXCEPT ![e] = [@ EXCEPT !.status = "PROCESSED", !.stale = FALSE]]
    /\ Proceed(p, e)
    /\ UNCHANGED crashesLeft

\* It applies the outcome and marks the event in one transaction.
Apply(p, e) ==
    /\ Turn(p, e)
    /\ inbox[e].status = "PROCESSING"
    /\ e \notin Refused
    /\ applied' = [applied EXCEPT ![e] = Once(@)]
    /\ inbox' = [inbox EXCEPT ![e] = [@ EXCEPT !.status = "PROCESSED", !.stale = FALSE]]
    /\ Proceed(p, e)
    /\ UNCHANGED crashesLeft

\* The outcome is refused for good, or something fails that may pass.
ApplyFails(p, e) ==
    /\ Turn(p, e)
    /\ inbox[e].status = "PROCESSING"
    /\ \E error \in {"PERMANENT", "TRANSIENT"} :
          /\ error = "PERMANENT" => e \in Refused
          /\ Throw(p, e, error)
    /\ UNCHANGED <<inbox, applied, crashesLeft>>

\* The status a failure with this error leads to.
FailedStatus(e, error) ==
    IF error = "PERMANENT" \/ inbox[e].attempts >= MaxAttempts
    THEN "DEAD_LETTER" ELSE "RETRYABLE"

\* Mutant: every failure may be retried.
FailForRetry(p) ==
    LET e == processor[p].event
    IN  /\ processor[p].pc = "FAILING"
        /\ inbox' = IF inbox[e].status # "PROCESSING" THEN inbox
                    ELSE [inbox EXCEPT ![e] = [@ EXCEPT !.status = "RETRYABLE", !.stale = FALSE]]
        /\ Proceed(p, e)
        /\ UNCHANGED <<applied, crashesLeft>>

\* failClaimedEvent.  Whoever holds the claim now loses it.
FailClaimedEvent(p) ==
    LET e == processor[p].event
    IN  /\ processor[p].pc = "FAILING"
        /\ inbox' = IF inbox[e].status # "PROCESSING" THEN inbox
                    ELSE [inbox EXCEPT ![e] =
                             [@ EXCEPT !.status = FailedStatus(e, processor[p].error),
                                       !.stale = FALSE]]
        /\ Proceed(p, e)
        /\ UNCHANGED <<applied, crashesLeft>>

\* The process dies, or the database fails the transaction of
\* failClaimedEvent and the whole run ends with it.
ProcessorCrash(p) ==
    /\ crashesLeft > 0
    /\ processor[p].pc # "IDLE"
    /\ processor' = [processor EXCEPT ![p] = Resting]
    /\ crashesLeft' = crashesLeft - 1
    /\ UNCHANGED <<inbox, applied>>

\* retryPayoutProviderEvent: an Admin puts the event back; nothing is started
\* and the attempts are kept.
RetryEvent(e) ==
    /\ inbox[e].status = "RETRYABLE"
    /\ inbox' = [inbox EXCEPT ![e] = [@ EXCEPT !.status = "RECEIVED", !.stale = FALSE]]
    /\ UNCHANGED <<processor, applied, crashesLeft>>

-----------------------------------------------------------------------------
CompleteClaimedEvent(p) ==
    \E e \in Events : FindProcessed(p, e) \/ FindUnclaimed(p, e)
                         \/ Apply(p, e) \/ ApplyFails(p, e)

Process(p) == ClaimEvents(p) \/ CompleteClaimedEvent(p) \/ FailClaimedEvent(p)

Deliver == \E p \in Processors, e \in Events : ReceiveWebhook(p, e)

InboxNext ==
    \/ \E p \in Processors, e \in Events : ReceiveWebhook(p, e) \/ ReceiveReconciliation(p, e)
    \/ \E p \in Processors : Process(p) \/ ProcessorCrash(p)
    \/ \E e \in Events : LeaseLapses(e) \/ RetryEvent(e)

InboxSpec == InboxInit /\ [][InboxNext]_inboxVars

\* A process that runs goes on, and time passes.  Nobody is obliged to send a
\* webhook, to reconcile or to retry.
FairInboxSpec ==
    /\ InboxSpec
    /\ \A p \in Processors : WF_inboxVars(Process(p))
    /\ \A e \in Events : WF_inboxVars(LeaseLapses(e))

-----------------------------------------------------------------------------
(* Properties *)

\* An outcome takes effect exactly when its event is marked PROCESSED, and
\* once: two processors that hold the same event after a stale claim, a crash
\* between two transactions and a repeated delivery do not apply it again.
AppliedOnce ==
    \A e \in Events : applied[e] = IF inbox[e].status = "PROCESSED" THEN 1 ELSE 0

\* No event waits where no claim will ever find it: one that is RECEIVED or
\* RETRYABLE still has attempts, whatever mix of failures, stale claims and
\* Admin retries came before.
NoneStranded ==
    \A e \in Events : inbox[e].status \in {"RECEIVED", "RETRYABLE"}
                         => inbox[e].attempts < MaxAttempts

\* Webhooks that keep coming, of whatever event, settle every stored event.
SettledWithTraffic ==
    []<><<Deliver>>_inboxVars
        => \A e \in Webhooks : Known(e) ~> inbox[e].status \in Settled

=============================================================================
