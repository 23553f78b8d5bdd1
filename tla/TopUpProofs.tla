---------------------------- MODULE TopUpProofs ----------------------------
(***************************************************************************)
(* What holds of Top-ups for every set of Members, Quotes, events, tasks   *)
(* and processors.                                                         *)
(*                                                                         *)
(* The inbox is proved first, on its own.  A step is then seen from one    *)
(* Top-up: its payment moves on (PaymentGoes), its row takes an outcome    *)
(* the Provider has reported (RowGoes), its events are stored or settled   *)
(* (EventGoes).  Where the row stands to the Provider follows from these.  *)
(***************************************************************************)
EXTENDS TopUp, Sums

-----------------------------------------------------------------------------
(* The inbox on its own, for any number of events, processors, attempts    *)

\* A processor that failed knows which event it failed on.
FailureNamed ==
    \A p \in Processors : processor[p].pc = "FAILING" => processor[p].event \in Events

\* The inductive invariant.
InboxInv == InboxTypeOK /\ FailureNamed /\ AppliedOnce /\ NoneStranded

\* Moving on to the next claimed event keeps the processors well formed.
LEMMA ProceedTyped ==
    ASSUME InboxInv, NEW p \in Processors, NEW e, Proceed(p, e)
    PROVE  /\ processor' \in [Processors -> ProcessorStates]
           /\ FailureNamed'
<1> DEFINE rest == processor[p].batch \ {e}
           next == IF rest = {} THEN Resting
                   ELSE [Resting EXCEPT !.pc = "APPLYING", !.batch = rest]
<1>1. processor[p] \in ProcessorStates /\ processor \in [Processors -> ProcessorStates]
  BY DEF InboxInv, InboxTypeOK
<1>2. rest \in SUBSET Events
  BY <1>1 DEF ProcessorStates
<1>3. next \in ProcessorStates /\ next.pc # "FAILING"
  BY <1>2 DEF ProcessorStates, Resting, Errors
<1>4. processor' = [processor EXCEPT ![p] = next]
  BY DEF Proceed
<1> HIDE DEF next, rest
<1> QED
  BY <1>1, <1>3, <1>4 DEF InboxInv, FailureNamed

\* So does a rolled back transaction.
LEMMA ThrowTyped ==
    ASSUME InboxInv, NEW p \in Processors, NEW e \in Events,
           NEW error \in Errors, Throw(p, e, error)
    PROVE  /\ processor' \in [Processors -> ProcessorStates]
           /\ FailureNamed'
<1>1. processor[p] \in ProcessorStates /\ processor \in [Processors -> ProcessorStates]
  BY DEF InboxInv, InboxTypeOK
<1> QED
  BY <1>1 DEF Throw, ProcessorStates, InboxInv, FailureNamed

\* A processor that starts or stops is well formed.
LEMMA ReplacedTyped ==
    ASSUME InboxInv, NEW p \in Processors, NEW s \in ProcessorStates,
           s.pc # "FAILING", processor' = [processor EXCEPT ![p] = s]
    PROVE  /\ processor' \in [Processors -> ProcessorStates]
           /\ FailureNamed'
BY DEF InboxInv, InboxTypeOK, FailureNamed

\* Storing an event adds at most one RECEIVED row with all its attempts left.
LEMMA StoreSafe ==
    ASSUME InboxInv, NEW e \in Events, Store(e), applied' = applied
    PROVE  /\ inbox' \in [Events -> EventRows]
           /\ AppliedOnce' /\ NoneStranded'
<1> DEFINE place == Cardinality({f \in Events : Known(f)})
           new == Received(place)
<1>1. place \in Nat
  BY InboxAssumption, FS_Subset, FS_CardinalityType
<1>3. \/ inbox' = inbox
      \/ inbox[e].status = "NONE" /\ inbox' = [inbox EXCEPT ![e] = new]
  BY DEF Store, Known
<1> HIDE DEF place
<1>2. new \in EventRows /\ new.status = "RECEIVED" /\ new.attempts = 0
  <2>1. 0 \in 0..MaxAttempts
    BY InboxAssumption
  <2> QED
    BY <1>1, <2>1 DEF Received, EventRows, Statuses
<1> HIDE DEF new
<1> QED
  BY <1>2, <1>3, InboxAssumption DEF InboxInv, InboxTypeOK, AppliedOnce, NoneStranded

\* Changing the status of one row between unapplied statuses.
LEMMA RowSafe ==
    ASSUME InboxInv, NEW e \in Events, NEW row \in EventRows,
           inbox' = [inbox EXCEPT ![e] = row], applied' = applied,
           inbox[e].status # "PROCESSED", row.status # "PROCESSED",
           row.status \in {"RECEIVED", "RETRYABLE"} => row.attempts < MaxAttempts
    PROVE  /\ inbox' \in [Events -> EventRows]
           /\ AppliedOnce' /\ NoneStranded'
BY DEF InboxInv, InboxTypeOK, AppliedOnce, NoneStranded

\* A claim counts its attempt and stays within the limit.
LEMMA ClaimSafe ==
    ASSUME InboxInv, NEW p \in Processors, ClaimEvents(p)
    PROVE  InboxInv'
<1>1. PICK held \in SUBSET Locked(p) :
        LET chosen == Candidates(p, held)
            dead   == {e \in chosen : Exhausted(e)}
            taken  == chosen \ dead
        IN  /\ inbox' = [e \in Events |->
                  CASE e \in dead  -> [inbox[e] EXCEPT !.status = "DEAD_LETTER", !.stale = FALSE]
                    [] e \in taken -> Claimed(inbox[e])
                    [] OTHER       -> inbox[e]]
            /\ processor' = [processor EXCEPT ![p] =
                  IF taken = {} THEN Resting
                  ELSE [@ EXCEPT !.pc = "APPLYING", !.batch = taken]]
  BY DEF ClaimEvents
<1> DEFINE chosen == Candidates(p, held)
           dead   == {e \in chosen : Exhausted(e)}
           taken  == chosen \ dead
           next   == IF taken = {} THEN Resting
                     ELSE [processor[p] EXCEPT !.pc = "APPLYING", !.batch = taken]
<1>2. chosen \subseteq {e \in Events : Ready(e)}
  BY DEF Candidates
<1>3. processor[p] \in ProcessorStates
  BY DEF InboxInv, InboxTypeOK
<1>4. next \in ProcessorStates /\ next.pc # "FAILING"
  BY <1>2, <1>3 DEF ProcessorStates, Resting, Errors
<1>5. processor' \in [Processors -> ProcessorStates] /\ FailureNamed'
  <2>1. processor' = [processor EXCEPT ![p] = next]
    BY <1>1
  <2> HIDE DEF next
  <2> QED
    BY <1>4, <2>1, ReplacedTyped
<1>6. applied' = applied /\ crashesLeft' = crashesLeft
  BY DEF ClaimEvents
<1>7. ASSUME NEW e \in Events
      PROVE  /\ inbox'[e] \in EventRows
             /\ inbox'[e].status = "PROCESSED" <=> inbox[e].status = "PROCESSED"
             /\ inbox'[e].status \in {"RECEIVED", "RETRYABLE"} =>
                    inbox'[e].attempts < MaxAttempts
  <2>1. /\ inbox[e] \in EventRows /\ MaxAttempts \in Nat \ {0}
        /\ inbox[e].status \in {"RECEIVED", "RETRYABLE"} => inbox[e].attempts < MaxAttempts
    BY InboxAssumption DEF InboxInv, InboxTypeOK, NoneStranded
  <2>2. CASE e \in dead
    <3>1. inbox'[e] = [inbox[e] EXCEPT !.status = "DEAD_LETTER", !.stale = FALSE]
      BY <1>1, <2>2
    <3>2. inbox[e].status = "PROCESSING"
      BY <2>2 DEF Exhausted
    <3> QED
      BY <2>1, <3>1, <3>2 DEF EventRows, Statuses, Settled
  <2>3. CASE e \in taken
    <3>1. inbox'[e] = Claimed(inbox[e])
      BY <1>1, <2>3
    <3>2. Ready(e) /\ ~Exhausted(e)
      BY <1>2, <2>3
    <3>3. inbox[e].status # "PROCESSED" /\ inbox[e].attempts < MaxAttempts
      BY <2>1, <3>2 DEF Ready, Exhausted, EventRows
    <3>4. /\ inbox[e].attempts + 1 \in 0..MaxAttempts
          /\ inbox[e].at \in Nat
      BY <2>1, <3>3 DEF EventRows
    <3> QED
      BY <3>1, <3>3, <3>4 DEF Claimed, EventRows, Statuses
  <2>4. CASE e \notin dead /\ e \notin taken
    <3>1. inbox'[e] = inbox[e]
      BY <1>1, <2>4
    <3> QED
      BY <2>1, <3>1
  <2> QED
    BY <2>2, <2>3, <2>4
<1>8. inbox' \in [Events -> EventRows]
  <2>1. inbox' = [e \in Events |-> inbox'[e]]
    BY <1>1
  <2> QED
    BY <1>7, <2>1
<1>9. AppliedOnce' /\ NoneStranded'
  BY <1>6, <1>7 DEF InboxInv, AppliedOnce, NoneStranded
<1> QED
  BY <1>5, <1>6, <1>8, <1>9 DEF InboxInv, InboxTypeOK

\* The first states satisfy the invariant.
LEMMA InboxInitial == InboxInit => InboxInv
<1> SUFFICES ASSUME InboxInit PROVE InboxInv
  OBVIOUS
<1>1. 0 \in 0..MaxAttempts /\ MaxCrashes \in Nat
  BY InboxAssumption
<1>2. NoEventRow \in EventRows /\ Resting \in ProcessorStates
  BY <1>1 DEF NoEventRow, EventRows, Statuses, Resting, ProcessorStates, Errors
<1> QED
  BY <1>1, <1>2 DEF InboxInit, InboxInv, InboxTypeOK, FailureNamed, AppliedOnce,
                    NoneStranded, NoEventRow, Resting

\* A processor's turn in completeClaimedEvent keeps the invariant.
LEMMA CompleteSafe ==
    ASSUME InboxInv, NEW p \in Processors, CompleteClaimedEvent(p)
    PROVE  InboxInv'
<1>1. PICK e \in Events : FindProcessed(p, e) \/ FindUnclaimed(p, e)
                             \/ Apply(p, e) \/ ApplyFails(p, e)
  BY DEF CompleteClaimedEvent
<1>2. CASE FindProcessed(p, e)
  <2>1. Proceed(p, e) /\ UNCHANGED <<inbox, applied, crashesLeft>>
    BY <1>2 DEF FindProcessed
  <2> QED
    BY <2>1, ProceedTyped DEF InboxInv, InboxTypeOK, AppliedOnce, NoneStranded
<1>3. CASE FindUnclaimed(p, e) \/ ApplyFails(p, e)
  <2>1. UNCHANGED <<inbox, applied, crashesLeft>>
    BY <1>3 DEF FindUnclaimed, ApplyFails
  <2>2. PICK error \in Errors : Throw(p, e, error)
    BY <1>3 DEF FindUnclaimed, ApplyFails, Errors
  <2>3. processor' \in [Processors -> ProcessorStates] /\ FailureNamed'
    BY <2>2, ThrowTyped
  <2> QED
    BY <2>1, <2>3 DEF InboxInv, InboxTypeOK, AppliedOnce, NoneStranded
<1>4. CASE Apply(p, e)
  <2> DEFINE row == [inbox[e] EXCEPT !.status = "PROCESSED", !.stale = FALSE]
  <2>1. /\ inbox[e].status = "PROCESSING"
        /\ applied' = [applied EXCEPT ![e] = Once(applied[e])]
        /\ inbox' = [inbox EXCEPT ![e] = row]
        /\ Proceed(p, e) /\ crashesLeft' = crashesLeft
    BY <1>4 DEF Apply
  <2>2. inbox[e] \in EventRows /\ applied[e] = 0
    BY <2>1 DEF InboxInv, InboxTypeOK, AppliedOnce
  <2>3. row \in EventRows /\ row.status = "PROCESSED"
    BY <2>2 DEF EventRows, Statuses, Settled
  <2>5. Once(applied[e]) = 1
    BY <2>2 DEF Once
  <2>4. processor' \in [Processors -> ProcessorStates] /\ FailureNamed'
    BY <2>1, ProceedTyped
  <2> HIDE DEF row
  <2> QED
    BY <2>1, <2>3, <2>4, <2>5 DEF InboxInv, InboxTypeOK, AppliedOnce, NoneStranded
<1> QED
  BY <1>1, <1>2, <1>3, <1>4

\* So does failClaimedEvent, whoever holds the claim by now.
LEMMA FailSafe ==
    ASSUME InboxInv, NEW p \in Processors, FailClaimedEvent(p)
    PROVE  InboxInv'
<1> DEFINE e == processor[p].event
           s == FailedStatus(e, processor[p].error)
           row == [inbox[e] EXCEPT !.status = s, !.stale = FALSE]
<1>1. e \in Events
  BY DEF FailClaimedEvent, InboxInv, FailureNamed
<1>2. inbox[e] \in EventRows /\ MaxAttempts \in Nat
  BY <1>1, InboxAssumption DEF InboxInv, InboxTypeOK
<1>3. /\ Proceed(p, e) /\ applied' = applied /\ crashesLeft' = crashesLeft
      /\ \/ inbox' = inbox
         \/ inbox[e].status = "PROCESSING" /\ inbox' = [inbox EXCEPT ![e] = row]
  BY DEF FailClaimedEvent
<1>4. /\ s \in {"DEAD_LETTER", "RETRYABLE"}
      /\ s = "RETRYABLE" => inbox[e].attempts < MaxAttempts
  BY <1>2 DEF FailedStatus, EventRows
<1>5. processor' \in [Processors -> ProcessorStates] /\ FailureNamed'
  BY <1>1, <1>3, ProceedTyped
<1> HIDE DEF e, s
<1>6. row \in EventRows /\ row.status = s /\ row.attempts = inbox[e].attempts
  BY <1>2, <1>4 DEF EventRows, Statuses, Settled
<1> HIDE DEF row
<1>7. inbox' \in [Events -> EventRows] /\ AppliedOnce' /\ NoneStranded'
  <2>1. CASE inbox' = inbox
    BY <1>3, <2>1 DEF InboxInv, InboxTypeOK, AppliedOnce, NoneStranded
  <2>2. CASE inbox[e].status = "PROCESSING" /\ inbox' = [inbox EXCEPT ![e] = row]
    BY <1>1, <1>3, <1>4, <1>6, <2>2, RowSafe
  <2> QED
    BY <1>3, <2>1, <2>2
<1> QED
  BY <1>3, <1>5, <1>7 DEF InboxInv, InboxTypeOK

\* The lapse of a lease and an Admin's retry change one unapplied row.
LEMMA TimeAndRetrySafe ==
    ASSUME InboxInv, NEW e \in Events, LeaseLapses(e) \/ RetryEvent(e)
    PROVE  InboxInv'
<1>1. inbox[e] \in EventRows
  BY DEF InboxInv, InboxTypeOK
<1>2. PICK row \in EventRows :
         /\ inbox' = [inbox EXCEPT ![e] = row]
         /\ inbox[e].status # "PROCESSED" /\ row.status # "PROCESSED"
         /\ row.status \in {"RECEIVED", "RETRYABLE"} => row.attempts < MaxAttempts
  <2>1. CASE LeaseLapses(e)
    <3> DEFINE row == [inbox[e] EXCEPT !.stale = TRUE]
    <3>1. /\ row \in EventRows /\ row.status = "PROCESSING"
          /\ inbox[e].status = "PROCESSING" /\ inbox' = [inbox EXCEPT ![e] = row]
      BY <1>1, <2>1 DEF LeaseLapses, EventRows
    <3> QED
      BY <3>1
  <2>2. CASE RetryEvent(e)
    <3> DEFINE row == [inbox[e] EXCEPT !.status = "RECEIVED", !.stale = FALSE]
    <3>1. /\ row \in EventRows /\ row.status = "RECEIVED"
          /\ row.attempts = inbox[e].attempts
          /\ inbox[e].status = "RETRYABLE" /\ inbox' = [inbox EXCEPT ![e] = row]
      BY <1>1, <2>2 DEF RetryEvent, EventRows, Statuses
    <3>2. inbox[e].attempts < MaxAttempts
      BY <3>1 DEF InboxInv, NoneStranded
    <3> QED
      BY <3>1, <3>2
  <2> QED
    BY <2>1, <2>2
<1>3. UNCHANGED <<processor, applied, crashesLeft>>
  BY DEF LeaseLapses, RetryEvent
<1>4. inbox' \in [Events -> EventRows] /\ AppliedOnce' /\ NoneStranded'
  BY <1>2, <1>3, RowSafe
<1> QED
  BY <1>3, <1>4 DEF InboxInv, InboxTypeOK, FailureNamed

\* Every step keeps the invariant.
LEMMA InboxKeeps == InboxInv /\ [InboxNext]_inboxVars => InboxInv'
<1> SUFFICES ASSUME InboxInv, [InboxNext]_inboxVars PROVE InboxInv'
  OBVIOUS
<1>1. ASSUME NEW p \in Processors, NEW e \in Events,
             ReceiveWebhook(p, e) \/ ReceiveReconciliation(p, e)
      PROVE  InboxInv'
  <2>1. Store(e) /\ UNCHANGED <<applied, crashesLeft>>
    BY <1>1 DEF ReceiveWebhook, ReceiveReconciliation
  <2>2. PICK s \in ProcessorStates :
           s.pc # "FAILING" /\ processor' = [processor EXCEPT ![p] = s]
    <3>1. [Resting EXCEPT !.pc = "QUEUED"] \in ProcessorStates
      BY DEF Resting, ProcessorStates, Errors
    <3>2. [Resting EXCEPT !.pc = "QUEUED", !.only = e] \in ProcessorStates
      BY DEF Resting, ProcessorStates, Errors
    <3> QED
      BY <1>1, <3>1, <3>2 DEF ReceiveWebhook, ReceiveReconciliation, Resting
  <2>3. processor' \in [Processors -> ProcessorStates] /\ FailureNamed'
    BY <2>2, ReplacedTyped
  <2>4. inbox' \in [Events -> EventRows] /\ AppliedOnce' /\ NoneStranded'
    BY <2>1, StoreSafe
  <2> QED
    BY <2>1, <2>3, <2>4 DEF InboxInv, InboxTypeOK
<1>2. ASSUME NEW p \in Processors, Process(p) PROVE InboxInv'
  BY <1>2, ClaimSafe, CompleteSafe, FailSafe DEF Process
<1>3. ASSUME NEW p \in Processors, ProcessorCrash(p) PROVE InboxInv'
  <2>1. Resting \in ProcessorStates /\ Resting.pc # "FAILING"
    BY DEF Resting, ProcessorStates, Errors
  <2>2. /\ processor' = [processor EXCEPT ![p] = Resting]
        /\ crashesLeft > 0 /\ crashesLeft' = crashesLeft - 1
        /\ UNCHANGED <<inbox, applied>>
    BY <1>3 DEF ProcessorCrash
  <2>3. processor' \in [Processors -> ProcessorStates] /\ FailureNamed'
    BY <2>1, <2>2, ReplacedTyped
  <2>4. crashesLeft' \in Nat
    BY <2>2 DEF InboxInv, InboxTypeOK
  <2> QED
    BY <2>2, <2>3, <2>4 DEF InboxInv, InboxTypeOK, AppliedOnce, NoneStranded
<1>4. CASE UNCHANGED inboxVars
  BY <1>4 DEF inboxVars, InboxInv, InboxTypeOK, FailureNamed, AppliedOnce, NoneStranded
<1> QED
  BY <1>1, <1>2, <1>3, <1>4, TimeAndRetrySafe DEF InboxNext

\* The inductive invariant holds in every reachable state.
LEMMA InboxAlways == InboxSpec => []InboxInv
BY InboxInitial, InboxKeeps, PTL DEF InboxSpec

-----------------------------------------------------------------------------
\* Every reachable state of the inbox has its types; attempt_count keeps to
\* the range its CHECK constraint allows.
THEOREM InboxTypeSafe == InboxSpec => []InboxTypeOK
<1>1. InboxInv => InboxTypeOK
  BY DEF InboxInv
<1> QED
  BY <1>1, InboxAlways, PTL

\* completeClaimedEvent lets no outcome take effect twice, however many
\* processors hold the event.
THEOREM AppliedOnceSafe == InboxSpec => []AppliedOnce
<1>1. InboxInv => AppliedOnce
  BY DEF InboxInv
<1> QED
  BY <1>1, InboxAlways, PTL

\* claimEvents, failClaimedEvent and the Admin's retry leave no waiting event
\* without the attempts a claim asks for.
THEOREM NoneStrandedSafe == InboxSpec => []NoneStranded
<1>1. InboxInv => NoneStranded
  BY DEF InboxInv
<1> QED
  BY <1>1, InboxAlways, PTL

-----------------------------------------------------------------------------
(* Top-ups *)

\* A task in progress works on a Top-up.
TaskNamed == \A s \in Tasks : task[s].pc # "IDLE" => task[s].topUp \in TopUps

\* The types, with what they rest on.
TypesInv == TypeOK /\ InboxInv /\ TaskNamed

\* What the constants give for one Top-up and one event.
LEMMA TermsTypes ==
    /\ \A t \in TopUps : Owner(t) \in Members /\ Credit(t) \in Nat /\ Credit(t) > 0
    /\ \A e \in Events : Content[e].topUp \in TopUps /\ Content[e].kind \in Kinds
BY TopUpAssumption DEF Owner, Credit

\* What a step leaves in the Wallets and the rows has its types.
RowsTyped ==
    /\ WalletTypeOK'
    /\ topUp' \in [TopUps -> TopUpRows]

\* A posting of a credit or its correction keeps the Wallet's types.
LEMMA PostingTyped ==
    ASSUME WalletTypeOK, NEW m \in Members, NEW s \in Int, NEW f \in Int, NEW e \in Int,
           PostToWallet(m, Posted(wallet[m], s, f, e, 0))
    PROVE  wallet' \in [Members -> Wallets]
<1>1. wallet \in [Members -> Wallets] /\ wallet[m] \in Wallets /\ 0 \in Int
  BY DEF WalletTypeOK
<1>2. Posted(wallet[m], s, f, e, 0) \in Wallets
  BY <1>1, PostedFacts
<1> QED
  BY <1>1, <1>2, PostToWalletFacts

\* applyTopUpOutcomeInTransaction writes rows and Wallets of their types.
LEMMA OutcomeTyped ==
    ASSUME WalletTypeOK, topUp \in [TopUps -> TopUpRows], NEW t \in TopUps, NEW kind,
           ApplyTopUpOutcome(t, kind)
    PROVE  RowsTyped
<1> DEFINE m == Owner(t)
<1>1. m \in Members /\ Credit(t) \in Int /\ -Credit(t) \in Int /\ 0 \in Int
  BY TermsTypes
<1>2. topUp[t] \in TopUpRows
  OBVIOUS
<1>3. ASSUME UNCHANGED walletVars PROVE WalletTypeOK'
  BY <1>3 DEF walletVars, WalletTypeOK
<1>4. ASSUME NEW c \in Int, PostToWallet(m, Posted(wallet[m], c, 0, 0, 0)),
             PostToPlatform(0, -c), UNCHANGED walletStatus
      PROVE  WalletTypeOK'
  <2>1. wallet' \in [Members -> Wallets]
    BY <1>1, <1>4, PostingTyped
  <2>2. platform' \in Platforms
    BY <1>1, <1>4, PostToPlatformFacts DEF WalletTypeOK
  <2> QED
    BY <1>4, <2>1, <2>2 DEF WalletTypeOK
<1>5. ASSUME ReversePaidTopUp(t) PROVE RowsTyped
  <2>1. CASE UNCHANGED <<walletVars, topUp>>
    BY <1>3, <2>1 DEF RowsTyped
  <2>2. CASE /\ PostToWallet(m, Posted(wallet[m], -Credit(t), 0, 0, 0))
             /\ PostToPlatform(0, Credit(t))
             /\ topUp' = [topUp EXCEPT ![t].reversed = TRUE]
             /\ UNCHANGED walletStatus
    <3>1. -(-Credit(t)) = Credit(t)
      BY <1>1
    <3>2. WalletTypeOK'
      BY <1>1, <1>4, <2>2, <3>1
    <3> QED
      BY <1>2, <2>2, <3>2 DEF RowsTyped, TopUpRows
  <2> QED
    BY <1>5, <2>1, <2>2 DEF ReversePaidTopUp
<1>6. ASSUME CreditTopUp(t) PROVE RowsTyped
  <2>1. WalletTypeOK'
    BY <1>1, <1>4, <1>6 DEF CreditTopUp
  <2>2. topUp' = [topUp EXCEPT ![t] = [topUp[t] EXCEPT !.status = "PAID", !.referenced = TRUE]]
    BY <1>6 DEF CreditTopUp
  <2>3. [topUp[t] EXCEPT !.status = "PAID", !.referenced = TRUE] \in TopUpRows
    BY <1>2 DEF TopUpRows
  <2> QED
    BY <2>1, <2>2, <2>3 DEF RowsTyped
<1>7. ASSUME UNCHANGED walletVars,
             topUp' = [topUp EXCEPT ![t].referenced = TRUE]
      PROVE  RowsTyped
  BY <1>2, <1>3, <1>7 DEF RowsTyped, TopUpRows
<1>8. ASSUME NEW status \in {"EXPIRED", "FAILED"}, UNCHANGED walletVars,
             topUp' = [topUp EXCEPT ![t] =
                          [topUp[t] EXCEPT !.status = status, !.referenced = TRUE]]
      PROVE  RowsTyped
  <2>1. [topUp[t] EXCEPT !.status = status, !.referenced = TRUE] \in TopUpRows
    BY <1>2 DEF TopUpRows
  <2> QED
    BY <1>3, <1>8, <2>1 DEF RowsTyped
<1>9. ASSUME UNCHANGED <<walletVars, topUp>> PROVE RowsTyped
  BY <1>3, <1>9 DEF RowsTyped
<1> QED
  BY <1>5, <1>6, <1>7, <1>8, <1>9 DEF ApplyTopUpOutcome

-----------------------------------------------------------------------------
(* Types *)

\* Whatever leaves the rows of the inbox alone keeps what is proved of them.
LEMMA InboxUntouched == InboxInv /\ UNCHANGED inboxVars => InboxInv'
BY InboxKeeps

\* The steps of the inbox, with and without an outcome, are steps of the
\* inbox on its own.
LEMMA InboxStepKeeps ==
    ASSUME InboxInv,
           \/ InboxStep
           \/ \E p \in Processors, e \in Events : ReceiveEvent(p, e) \/ ApplyEvent(p, e)
    PROVE  InboxInv'
<1>1. InboxNext
  BY DEF InboxStep, ReceiveEvent, ApplyEvent, InboxNext, Process, CompleteClaimedEvent
<1> QED
  BY <1>1, InboxKeeps

\* A task that changes its state in a typed way keeps TaskNamed.
LEMMA TaskTyped ==
    ASSUME task \in [Tasks -> TaskStates], TaskNamed, NEW s \in Tasks, NEW state \in TaskStates,
           state.pc # "IDLE" => state.topUp \in TopUps,
           task' = [task EXCEPT ![s] = state]
    PROVE  task' \in [Tasks -> TaskStates] /\ TaskNamed'
BY DEF TaskNamed

\* A task that has ended.
LEMMA NoTaskTyped == NoTask \in TaskStates /\ NoTask.pc = "IDLE"
BY DEF NoTask, TaskStates

\* The first states have their types.
LEMMA InitTyped == Init => TypesInv
<1> SUFFICES ASSUME Init PROVE TypesInv
  OBVIOUS
<1>1. InboxInv
  BY InboxInitial DEF Init
<1>2. WalletTypeOK
  BY WalletAssumption DEF Init, WalletInit, WalletTypeOK, Platforms, WalletStatuses
<1>3. NoTopUpRow \in TopUpRows
  BY DEF NoTopUpRow, TopUpRows
<1>4. TaskNamed /\ task \in [Tasks -> TaskStates]
  BY NoTaskTyped DEF Init, TaskNamed
<1> QED
  BY <1>1, <1>2, <1>3, <1>4, TopUpAssumption
     DEF Init, TypesInv, TypeOK, InboxInv, PaymentStates

\* Every step keeps the types.
LEMMA NextTyped == TypesInv /\ [Next]_vars => TypesInv'
<1> SUFFICES ASSUME TypesInv, [Next]_vars PROVE TypesInv'
  OBVIOUS
<1>1. /\ WalletTypeOK /\ InboxInv /\ TaskNamed
      /\ quote \in [TopUps -> {"NONE", "OPEN", "LAPSED", "CONSUMED"}]
      /\ topUp \in [TopUps -> TopUpRows] /\ task \in [Tasks -> TaskStates]
      /\ payment \in [TopUps -> PaymentStates]
      /\ earned \in [Members -> Nat] /\ othersLeft \in Nat
  BY DEF TypesInv, TypeOK
<1>2. UNCHANGED walletVars => WalletTypeOK'
  BY <1>1 DEF walletVars, WalletTypeOK
<1>3. UNCHANGED inboxVars => InboxInv'
  BY <1>1, InboxUntouched
<1>4. UNCHANGED task => TaskNamed'
  BY <1>1 DEF TaskNamed
<1>5. \A s \in Tasks : Ends(s) => task' \in [Tasks -> TaskStates] /\ TaskNamed'
  BY <1>1, NoTaskTyped, TaskTyped DEF Ends
<1>6. InboxInv' => InboxTypeOK'
  BY DEF InboxInv
<1>7. ASSUME NEW t \in TopUps, TopUpStep(t) PROVE TypesInv'
  <2>1. CASE CreateQuote(t) \/ LapseQuote(t)
    BY <1>1, <1>2, <1>3, <1>4, <1>6, <2>1
       DEF CreateQuote, LapseQuote, TypesInv, TypeOK
  <2>2. CASE PaymentMoves(t)
    <3>1. payment' \in [TopUps -> PaymentStates]
      BY <1>1, <2>2 DEF PaymentMoves, PaymentStates
    <3> QED
      BY <1>1, <1>2, <1>3, <1>4, <1>6, <2>2, <3>1 DEF PaymentMoves, TypesInv, TypeOK
  <2>3. ASSUME NEW s \in Tasks, PrepareTopUp(s, t) \/ RetryTopUp(s, t) PROVE TypesInv'
    <3> DEFINE start == [NoTask EXCEPT !.pc = "CALLING", !.topUp = t]
    <3>1. start \in TaskStates /\ start.topUp = t
      BY DEF NoTask, TaskStates
    <3>2. task' = [task EXCEPT ![s] = start]
      BY <2>3 DEF PrepareTopUp, RetryTopUp, Starts
    <3> HIDE DEF start
    <3>3. task' \in [Tasks -> TaskStates] /\ TaskNamed'
      BY <1>1, <3>1, <3>2, TaskTyped
    <3>4. quote' \in [TopUps -> {"NONE", "OPEN", "LAPSED", "CONSUMED"}]
      BY <1>1, <2>3 DEF PrepareTopUp, RetryTopUp
    <3>5. CASE PrepareTopUp(s, t)
      <4> DEFINE row == [topUp[t] EXCEPT !.status = "PENDING"]
      <4>1. row \in TopUpRows
        BY <1>1 DEF TopUpRows
      <4>2. topUp' = [topUp EXCEPT ![t] = row]
        BY <3>5 DEF PrepareTopUp
      <4> HIDE DEF row
      <4>3. topUp' \in [TopUps -> TopUpRows]
        BY <1>1, <4>1, <4>2
      <4> QED
        BY <1>1, <1>2, <1>3, <1>6, <3>3, <3>4, <3>5, <4>3
           DEF PrepareTopUp, TypesInv, TypeOK
    <3>6. CASE RetryTopUp(s, t)
      <4>1. topUp' \in [TopUps -> TopUpRows]
        BY <1>1, <3>6 DEF RetryTopUp
      <4> QED
        BY <1>1, <1>2, <1>3, <1>6, <3>3, <3>4, <3>6, <4>1
           DEF RetryTopUp, TypesInv, TypeOK
    <3> QED
      BY <2>3, <3>5, <3>6
  <2>4. ASSUME NEW s \in Tasks, ReadStatus(s, t) PROVE TypesInv'
    <3> DEFINE read == [pc |-> "READ", topUp |-> t, reply |-> "NONE",
                        kind |-> KindOf(payment[t])]
    <3>1. KindOf(payment[t]) \in Kinds
      BY <1>1, <2>4 DEF ReadStatus, KindOf, Kinds, PaymentStates
    <3>2. read \in TaskStates /\ read.topUp = t
      BY <3>1 DEF TaskStates
    <3>3. task' = [task EXCEPT ![s] = read]
      BY <2>4 DEF ReadStatus
    <3> HIDE DEF read
    <3>4. task' \in [Tasks -> TaskStates] /\ TaskNamed'
      BY <1>1, <3>2, <3>3, TaskTyped
    <3> QED
      BY <1>1, <1>2, <1>3, <1>6, <2>4, <3>4 DEF ReadStatus, TypesInv, TypeOK
  <2> QED
    BY <1>7, <2>1, <2>2, <2>3, <2>4 DEF TopUpStep
<1>8. ASSUME NEW s \in Tasks, TaskStep(s) PROVE TypesInv'
  <2> DEFINE t == task[s].topUp
  <2>1. CASE CreatePayment(s)
    <3>1. t \in TopUps /\ task[s] \in TaskStates
      BY <1>1, <2>1 DEF CreatePayment, TaskNamed
    <3>2. PICK state \in RequestEffects(payment[t]) :
            /\ payment' = [payment EXCEPT ![t] = state]
            /\ \/ task' = [task EXCEPT ![s] = NoTask]
               \/ /\ state # "UNKNOWN"
                  /\ task' = [task EXCEPT ![s] =
                        [@ EXCEPT !.pc = "REPLIED",
                                  !.reply = IF state = "REFUSED" THEN "REFUSED" ELSE "ACCEPTED"]]
      BY <2>1 DEF CreatePayment
    <3>3. state \in PaymentStates
      BY <1>1, <3>1, <3>2 DEF RequestEffects, PaymentStates
    <3> DEFINE replied == [task[s] EXCEPT !.pc = "REPLIED",
                               !.reply = IF state = "REFUSED" THEN "REFUSED" ELSE "ACCEPTED"]
    <3>4. replied \in TaskStates /\ replied.topUp = t
      BY <3>1 DEF TaskStates
    <3>5. task' = [task EXCEPT ![s] = NoTask] \/ task' = [task EXCEPT ![s] = replied]
      BY <3>2
    <3> HIDE DEF replied, t
    <3>6. task' \in [Tasks -> TaskStates] /\ TaskNamed'
      BY <1>1, <3>1, <3>4, <3>5, NoTaskTyped, TaskTyped
    <3>7. payment' \in [TopUps -> PaymentStates]
      BY <1>1, <3>2, <3>3
    <3> QED
      BY <1>1, <1>2, <1>3, <1>6, <2>1, <3>6, <3>7 DEF CreatePayment, TypesInv, TypeOK
  <2>2. CASE FinalizeProviderResponse(s) \/ FinalizeProviderRejection(s)
    <3>1. t \in TopUps
      BY <1>1, <2>2 DEF FinalizeProviderResponse, FinalizeProviderRejection, TaskNamed
    <3>2. topUp[t] \in TopUpRows
      BY <1>1, <3>1
    <3> DEFINE answered == [topUp[t] EXCEPT !.referenced = TRUE, !.qr = TRUE]
               refused  == [topUp[t] EXCEPT !.status = "FAILED"]
    <3>3. answered \in TopUpRows /\ refused \in TopUpRows
      BY <3>2 DEF TopUpRows
    <3>4. topUp' \in {topUp, [topUp EXCEPT ![t] = answered], [topUp EXCEPT ![t] = refused]}
      BY <2>2 DEF FinalizeProviderResponse, FinalizeProviderRejection
    <3> HIDE DEF answered, refused
    <3>5. topUp' \in [TopUps -> TopUpRows]
      BY <1>1, <3>1, <3>3, <3>4
    <3> QED
      BY <1>1, <1>2, <1>3, <1>5, <1>6, <2>2, <3>5
         DEF FinalizeProviderResponse, FinalizeProviderRejection, TypesInv, TypeOK
  <2>3. CASE ApplyStatus(s)
    <3>1. t \in TopUps
      BY <1>1, <2>3 DEF ApplyStatus, TaskNamed
    <3>2. RowsTyped
      <4>1. CASE UNCHANGED <<walletVars, topUp>>
        BY <1>1, <1>2, <4>1 DEF RowsTyped
      <4>2. CASE ApplyTopUpOutcome(task[s].topUp, task[s].kind)
        BY <1>1, <3>1, <4>2, OutcomeTyped
      <4> QED
        BY <2>3, <4>1, <4>2 DEF ApplyStatus
    <3> QED
      BY <1>1, <1>3, <1>5, <1>6, <2>3, <3>2 DEF ApplyStatus, RowsTyped, TypesInv, TypeOK
  <2>4. CASE TaskCrash(s)
    <3>1. crashesLeft' \in Nat /\ UNCHANGED <<inbox, processor, applied>>
      BY <1>1, <2>4 DEF TaskCrash, InboxInv, InboxTypeOK
    <3>2. InboxInv'
      BY <1>1, <3>1 DEF InboxInv, InboxTypeOK, FailureNamed, AppliedOnce, NoneStranded
    <3> QED
      BY <1>1, <1>2, <1>5, <1>6, <2>4, <3>2 DEF TaskCrash, TypesInv, TypeOK
  <2> QED
    BY <1>8, <2>1, <2>2, <2>3, <2>4 DEF TaskStep
<1>9. ASSUME NEW p \in Processors, NEW e \in Events, ReceiveEvent(p, e) \/ ApplyEvent(p, e)
      PROVE  TypesInv'
  <2>1. InboxInv'
    BY <1>1, <1>9, InboxStepKeeps
  <2>2. CASE ReceiveEvent(p, e)
    BY <1>1, <1>2, <1>4, <1>6, <2>1, <2>2 DEF ReceiveEvent, topUpVars, TypesInv, TypeOK
  <2>3. CASE ApplyEvent(p, e)
    <3>1. RowsTyped
      BY <1>1, <2>3, TermsTypes, OutcomeTyped DEF ApplyEvent
    <3> QED
      BY <1>1, <1>4, <1>6, <2>1, <2>3, <3>1 DEF ApplyEvent, RowsTyped, TypesInv, TypeOK
  <2> QED
    BY <1>9, <2>2, <2>3
<1>10. CASE InboxStep
  <2>1. InboxInv'
    BY <1>1, <1>10, InboxStepKeeps
  <2> QED
    BY <1>1, <1>2, <1>4, <1>6, <1>10, <2>1 DEF InboxStep, topUpVars, TypesInv, TypeOK
<1>11. ASSUME NEW m \in Members, OtherStep(m) PROVE TypesInv'
  <2>1. CASE \E amount \in Rewards : EarnReward(m, amount)
    <3>1. PICK amount \in Rewards : EarnReward(m, amount)
      BY <2>1
    <3>2. amount \in Nat /\ amount \in Int /\ 0 \in Int
      BY TopUpAssumption
    <3>3. wallet' \in [Members -> Wallets]
      BY <1>1, <3>1, <3>2, PostingTyped DEF EarnReward
    <3>4. earned' \in [Members -> Nat] /\ othersLeft' \in Nat
      BY <1>1, <3>1, <3>2 DEF EarnReward
    <3> QED
      BY <1>1, <1>3, <1>4, <1>6, <3>1, <3>3, <3>4
         DEF EarnReward, WalletTypeOK, TypesInv, TypeOK
  <2>2. CASE \E amount \in Fundings : FundReservation(m, amount)
    <3>1. PICK amount \in Fundings : FundReservation(m, amount)
      BY <2>2
    <3>2. amount \in Int /\ -amount \in Int /\ 0 \in Int
      BY TopUpAssumption
    <3>3. wallet' \in [Members -> Wallets]
      BY <1>1, <3>1, <3>2, PostingTyped DEF FundReservation
    <3>4. othersLeft' \in Nat
      BY <1>1, <3>1 DEF FundReservation
    <3> QED
      BY <1>1, <1>3, <1>4, <1>6, <3>1, <3>3, <3>4
         DEF FundReservation, WalletTypeOK, TypesInv, TypeOK
  <2> QED
    BY <1>11, <2>1, <2>2 DEF OtherStep
<1>12. CASE WalletStep
  <2>1. WalletTypeOK'
    BY <1>1, <1>12, WalletAssumption, WalletCommands DEF WalletStep
  <2> QED
    BY <1>1, <1>3, <1>4, <1>6, <1>12, <2>1 DEF WalletStep, topUpVars, TypesInv, TypeOK
<1>13. CASE UNCHANGED vars
  BY <1>1, <1>2, <1>3, <1>4, <1>6, <1>13 DEF vars, topUpVars, TypesInv, TypeOK
<1> QED
  BY <1>7, <1>8, <1>9, <1>10, <1>11, <1>12, <1>13 DEF Next

-----------------------------------------------------------------------------
(* The row and the Provider *)

\* No event reports that a refund failed: one that does ends a PENDING Top-up
\* whose payment may still arrive.
NoRefundFails == \A e \in Events : Content[e].kind # "REFUND_FAILED"

\* The Provider may have said this of t.
Told(t, kind) == kind \in Reportable(t) \ {"REFUND_FAILED"}

Paid   == {"PAID", "REVERSED"}
Unpaid == {"REFUSED", "EXPIRED", "FAILED", "REVERSED"}

\* TopUpFollowsProvider, and what it takes: there is no payment without a row,
\* and no row without its Quote.
RowTrue(t) ==
    /\ topUp[t].status = "NONE" => topUp[t] = NoTopUpRow /\ payment[t] = "UNKNOWN"
    /\ topUp[t].status # "NONE" => quote[t] = "CONSUMED"
    /\ topUp[t].status = "PAID" => payment[t] \in Paid
    /\ topUp[t].reversed => payment[t] = "REVERSED"
    /\ topUp[t].status \in {"EXPIRED", "FAILED"} => payment[t] \in Unpaid

\* What a task brings home is true.
TaskTrue(s) ==
    LET t == task[s].topUp
    IN  /\ task[s].pc # "IDLE" => topUp[t].status # "NONE"
        /\ task[s].pc = "REPLIED" /\ task[s].reply = "REFUSED" => payment[t] = "REFUSED"
        /\ task[s].pc = "READ" => Told(t, task[s].kind)

\* The effect a processed event of this kind has had.
Took(t, kind) ==
    CASE kind = "PAID"     -> topUp[t].status = "PAID" \/ payment[t] = "REVERSED"
      [] kind = "REVERSED" -> topUp[t].status # "PENDING" /\ ~Credited(t)
      [] kind = "PENDING"  -> topUp[t].status # "PENDING" \/ topUp[t].referenced
      [] kind = "REFUND_FAILED" -> topUp[t].status # "PENDING"
      [] OTHER             -> topUp[t].status \in {"EXPIRED", "FAILED"}

\* A stored event is true, and a processed one has had its effect.
EventTrue(e) ==
    LET t == Content[e].topUp
    IN  /\ inbox[e].status # "NONE" => Told(t, Content[e].kind)
        /\ inbox[e].status = "PROCESSED" => Took(t, Content[e].kind)

\* The inductive invariant, beside the types.
FollowInv ==
    /\ \A t \in TopUps : RowTrue(t)
    /\ \A s \in Tasks : TaskTrue(s)
    /\ \A e \in Events : EventTrue(e)

\* How a payment goes on.
PaymentGoes(t) ==
    \/ payment'[t] = payment[t]
    \/ payment[t] = "UNKNOWN" /\ payment'[t] \in {"OPEN", "REFUSED"} /\ topUp[t].status # "NONE"
    \/ payment[t] = "OPEN" /\ payment'[t] \in {"PAID", "EXPIRED", "FAILED"}
    \/ payment[t] = "PAID" /\ payment'[t] = "REVERSED"

\* How a row goes on: it is opened, takes an outcome, or is corrected.
RowGoes(t) ==
    /\ quote[t] = "CONSUMED" => quote'[t] = "CONSUMED"
    /\ \/ topUp'[t] = topUp[t]
       \/ /\ topUp[t].status = "NONE" /\ quote'[t] = "CONSUMED"
          /\ topUp'[t].status = "PENDING" /\ ~topUp'[t].reversed
       \/ /\ topUp[t].status = "PENDING" /\ topUp'[t].status # "NONE"
          /\ topUp'[t].reversed = topUp[t].reversed
          /\ topUp[t].referenced => topUp'[t].referenced
          /\ topUp'[t].status = "PAID" => payment[t] \in Paid
          /\ topUp'[t].status \in {"EXPIRED", "FAILED"} => payment[t] \in Unpaid
       \/ /\ topUp[t].status = "PAID" /\ payment[t] = "REVERSED"
          /\ topUp'[t].status = "PAID" /\ topUp'[t].reversed

\* How a task goes on.
TaskGoes(s) ==
    LET t == task'[s].topUp
    IN  \/ task'[s] = task[s]
        \/ task'[s].pc = "IDLE"
        \/ task'[s].pc = "CALLING" /\ topUp'[t].status # "NONE"
        \/ /\ task[s].pc = "CALLING" /\ task'[s].pc = "REPLIED" /\ t = task[s].topUp
           /\ task'[s].reply = "REFUSED" => payment'[t] = "REFUSED"
        \/ task'[s].pc = "READ" /\ Told(t, task'[s].kind) /\ topUp[t].status # "NONE"

\* How an event goes on: stored once it is true, processed with its effect.
EventGoes(e) ==
    LET t == Content[e].topUp
    IN  /\ inbox'[e].status # "NONE" => inbox[e].status # "NONE" \/ Told(t, Content[e].kind)
        /\ inbox'[e].status = "PROCESSED"
              => inbox[e].status = "PROCESSED" \/ Took(t, Content[e].kind)'

\* What was true of a payment stays true.
LEMMA ToldStays ==
    ASSUME NEW t \in TopUps, NEW kind, payment[t] \in PaymentStates, PaymentGoes(t), Told(t, kind)
    PROVE  Told(t, kind)'
<1>1. kind \in Reportable(t) /\ kind # "REFUND_FAILED"
  BY DEF Told
<1>2. CASE payment[t] = "OPEN"
  BY <1>1, <1>2 DEF PaymentGoes, Told, Reportable, KindOf
<1>3. CASE payment[t] = "PAID"
  BY <1>1, <1>3 DEF PaymentGoes, Told, Reportable, KindOf
<1>4. CASE payment[t] \notin {"OPEN", "PAID", "UNKNOWN"}
  BY <1>1, <1>4 DEF PaymentGoes, Told, Reportable, KindOf
<1>5. payment[t] # "UNKNOWN"
  BY <1>1 DEF Reportable
<1> QED
  BY <1>2, <1>3, <1>4, <1>5

\* What is told of a payment says where it stands.
LEMMA ToldMeans ==
    ASSUME NEW t \in TopUps, NEW kind, payment[t] \in PaymentStates, Told(t, kind), RowTrue(t)
    PROVE  /\ topUp[t].status # "NONE"
           /\ kind \in {"PENDING", "PAID", "EXPIRED", "FAILED", "REVERSED"}
           /\ kind = "PAID" => payment[t] \in Paid
           /\ kind \in {"EXPIRED", "FAILED", "REVERSED"} => payment[t] = kind
<1>1. payment[t] \notin {"UNKNOWN", "REFUSED"}
  BY DEF Told, Reportable
<1>2. kind # "REFUND_FAILED"
  BY DEF Told
<1>3. kind \in {"PENDING", "PAID", "REVERSED"} \/ kind = payment[t]
  BY <1>1, <1>2 DEF Told, Reportable, KindOf
<1>4. kind = "PAID" => payment[t] \in Paid
  BY <1>1 DEF Told, Reportable, KindOf, Paid
<1>5. kind = "REVERSED" => payment[t] = "REVERSED"
  BY <1>1 DEF Told, Reportable, KindOf
<1>6. topUp[t].status # "NONE"
  BY <1>1 DEF RowTrue
<1>7. payment[t] = "OPEN" => kind = "PENDING"
  BY <1>1, <1>3 DEF Told, Reportable, KindOf
<1> QED
  BY <1>1, <1>3, <1>4, <1>5, <1>6, <1>7 DEF PaymentStates

\* A row that goes on stays true.
LEMMA RowStays ==
    ASSUME NEW t \in TopUps, topUp[t] \in TopUpRows, topUp'[t] \in TopUpRows,
           payment[t] \in PaymentStates, RowTrue(t), RowGoes(t), PaymentGoes(t)
    PROVE  RowTrue(t)'
<1>1. payment[t] \in Paid => payment'[t] \in Paid
  BY DEF PaymentGoes, Paid
<1>2. payment[t] \in Unpaid => payment'[t] \in Unpaid
  BY DEF PaymentGoes, Unpaid
<1>3. payment[t] = "REVERSED" => payment'[t] = "REVERSED"
  BY DEF PaymentGoes
<1>4. topUp[t].status = "NONE" => topUp[t] = NoTopUpRow /\ ~topUp[t].reversed
  BY DEF RowTrue, NoTopUpRow
<1>5. topUp[t].status = "NONE" /\ topUp'[t] = topUp[t] => payment'[t] = "UNKNOWN"
  BY DEF PaymentGoes, RowTrue
<1>6. CASE topUp'[t] = topUp[t]
  BY <1>1, <1>2, <1>3, <1>5, <1>6 DEF RowTrue, RowGoes
<1>7. CASE /\ topUp[t].status = "NONE" /\ quote'[t] = "CONSUMED"
           /\ topUp'[t].status = "PENDING" /\ ~topUp'[t].reversed
  BY <1>7 DEF RowTrue
<1>8. CASE /\ topUp[t].status = "PENDING" /\ topUp'[t].status # "NONE"
           /\ topUp'[t].reversed = topUp[t].reversed
           /\ topUp'[t].status = "PAID" => payment[t] \in Paid
           /\ topUp'[t].status \in {"EXPIRED", "FAILED"} => payment[t] \in Unpaid
  BY <1>1, <1>2, <1>3, <1>8 DEF RowTrue, RowGoes
<1>9. CASE /\ topUp[t].status = "PAID" /\ payment[t] = "REVERSED"
           /\ topUp'[t].status = "PAID" /\ topUp'[t].reversed
  BY <1>3, <1>9 DEF RowTrue, RowGoes, Paid
<1> QED
  BY <1>6, <1>7, <1>8, <1>9 DEF RowGoes

\* An effect that was had is not lost.
LEMMA TookStays ==
    ASSUME NEW t \in TopUps, NEW kind, topUp[t] \in TopUpRows, topUp'[t] \in TopUpRows,
           payment[t] \in PaymentStates,
           RowTrue(t), RowGoes(t), PaymentGoes(t), Told(t, kind), Took(t, kind)
    PROVE  Took(t, kind)'
<1>1. /\ topUp[t].status # "NONE"
      /\ kind \in {"PENDING", "PAID", "EXPIRED", "FAILED", "REVERSED"}
  BY ToldMeans
<1>2. payment[t] = "REVERSED" => payment'[t] = "REVERSED"
  BY DEF PaymentGoes
<1>3. /\ topUp[t].status # "PENDING" => topUp'[t].status = topUp[t].status
      /\ topUp[t].status # "PENDING" /\ topUp[t].reversed => topUp'[t].reversed
      /\ topUp[t].referenced => topUp'[t].referenced \/ topUp'[t].status = "PAID"
  BY <1>1 DEF RowGoes
<1>4. CASE kind = "PAID"
  BY <1>2, <1>3, <1>4 DEF Took
<1>5. CASE kind = "REVERSED"
  BY <1>3, <1>5 DEF Took, Credited
<1>6. CASE kind = "PENDING"
  BY <1>3, <1>6 DEF Took
<1>7. CASE kind \in {"EXPIRED", "FAILED"}
  BY <1>3, <1>7 DEF Took
<1> QED
  BY <1>1, <1>4, <1>5, <1>6, <1>7

\* applyTopUpOutcomeInTransaction on what was told moves the row legally, and
\* has the effect.
LEMMA OutcomeTrue ==
    ASSUME topUp \in [TopUps -> TopUpRows], NEW t \in TopUps, NEW kind,
           payment[t] \in PaymentStates, RowTrue(t), Told(t, kind),
           ApplyTopUpOutcome(t, kind), UNCHANGED <<quote, payment>>
    PROVE  /\ \A u \in TopUps : RowGoes(u)
           /\ Took(t, kind)'
<1>1. /\ topUp[t] \in TopUpRows /\ topUp[t].status # "NONE"
      /\ kind \in {"PENDING", "PAID", "EXPIRED", "FAILED", "REVERSED"}
      /\ kind = "PAID" => payment[t] \in Paid
      /\ kind \in {"EXPIRED", "FAILED", "REVERSED"} => payment[t] = kind
  BY ToldMeans
<1>2. quote' = quote /\ payment' = payment
  OBVIOUS
<1>3. ASSUME NEW row, topUp' = [topUp EXCEPT ![t] = row]
      PROVE  topUp'[t] = row /\ \A u \in TopUps \ {t} : RowGoes(u)
  BY <1>2, <1>3 DEF RowGoes
<1>4. ASSUME topUp' = topUp PROVE \A u \in TopUps : RowGoes(u)
  BY <1>2, <1>4 DEF RowGoes
<1>5. CASE topUp[t].status = "PAID" /\ kind = "REVERSED" /\ ReversePaidTopUp(t)
  <2> DEFINE row == [topUp[t] EXCEPT !.reversed = TRUE]
  <2>1. row.status = "PAID" /\ row.reversed
    BY <1>1, <1>5 DEF TopUpRows
  <2>2. CASE topUp[t].reversed /\ topUp' = topUp
    BY <1>2, <1>4, <1>5, <2>2 DEF Took, Credited
  <2>3. CASE topUp' = [topUp EXCEPT ![t] = row]
    <3> HIDE DEF row
    <3>1. topUp'[t] = row /\ \A u \in TopUps \ {t} : RowGoes(u)
      BY <1>3, <2>3
    <3>2. RowGoes(t)
      BY <1>1, <1>2, <1>5, <2>1, <3>1 DEF RowGoes
    <3> QED
      BY <1>5, <2>1, <3>1, <3>2 DEF Took, Credited
  <2> QED
    BY <1>5, <2>2, <2>3 DEF ReversePaidTopUp
<1>6. CASE /\ topUp[t].status # "PENDING"
           /\ ~(topUp[t].status = "PAID" /\ kind = "REVERSED")
           /\ topUp' = topUp
  <2>1. topUp[t].status \in {"PAID", "EXPIRED", "FAILED"}
    BY <1>1, <1>6 DEF TopUpRows
  <2>2. kind = "PAID" => topUp[t].status = "PAID" \/ payment[t] = "REVERSED"
    BY <1>1, <2>1 DEF RowTrue, Paid, Unpaid
  <2>3. kind \in {"EXPIRED", "FAILED"} => topUp[t].status # "PAID"
    BY <1>1, <2>1 DEF RowTrue, Paid
  <2>4. kind = "REVERSED" => ~Credited(t)
    BY <1>6 DEF Credited
  <2> QED
    BY <1>1, <1>2, <1>4, <1>6, <2>1, <2>2, <2>3, <2>4 DEF Took, Credited
<1>7. CASE /\ topUp[t].status = "PENDING" /\ kind = "PENDING"
           /\ topUp' = [topUp EXCEPT ![t].referenced = TRUE]
  <2> DEFINE row == [topUp[t] EXCEPT !.referenced = TRUE]
  <2>1. /\ row.status = "PENDING" /\ row.referenced
        /\ row.reversed = topUp[t].reversed
    BY <1>1, <1>7 DEF TopUpRows
  <2>2. topUp' = [topUp EXCEPT ![t] = row]
    BY <1>7
  <2> HIDE DEF row
  <2>3. topUp'[t] = row /\ \A u \in TopUps \ {t} : RowGoes(u)
    BY <1>3, <2>2
  <2>4. RowGoes(t)
    BY <1>2, <1>7, <2>1, <2>3 DEF RowGoes
  <2> QED
    BY <1>7, <2>1, <2>3, <2>4 DEF Took
<1>8. CASE topUp[t].status = "PENDING" /\ kind = "PAID" /\ CreditTopUp(t)
  <2> DEFINE row == [topUp[t] EXCEPT !.status = "PAID", !.referenced = TRUE]
  <2>1. /\ row.status = "PAID" /\ row.referenced
        /\ row.reversed = topUp[t].reversed
    BY <1>1, <1>8 DEF TopUpRows
  <2>2. topUp' = [topUp EXCEPT ![t] = row]
    BY <1>8 DEF CreditTopUp
  <2> HIDE DEF row
  <2>3. topUp'[t] = row /\ \A u \in TopUps \ {t} : RowGoes(u)
    BY <1>3, <2>2
  <2>4. RowGoes(t)
    BY <1>1, <1>2, <1>8, <2>1, <2>3 DEF RowGoes
  <2> QED
    BY <1>8, <2>1, <2>3, <2>4 DEF Took
<1>9. CASE /\ topUp[t].status = "PENDING" /\ kind \in {"EXPIRED", "FAILED", "REVERSED"}
           /\ topUp' = [topUp EXCEPT ![t] =
                 [@ EXCEPT !.status = IF kind = "EXPIRED" THEN "EXPIRED" ELSE "FAILED",
                           !.referenced = TRUE]]
  <2> DEFINE status == IF kind = "EXPIRED" THEN "EXPIRED" ELSE "FAILED"
             row == [topUp[t] EXCEPT !.status = status, !.referenced = TRUE]
  <2>1. /\ row.status = status /\ row.referenced
        /\ row.reversed = topUp[t].reversed
    BY <1>1, <1>9 DEF TopUpRows
  <2>2. topUp' = [topUp EXCEPT ![t] = row]
    BY <1>9
  <2> HIDE DEF row
  <2>3. topUp'[t] = row /\ \A u \in TopUps \ {t} : RowGoes(u)
    BY <1>3, <2>2
  <2>4. payment[t] \in Unpaid
    BY <1>1, <1>9 DEF Unpaid
  <2>5. RowGoes(t)
    BY <1>2, <1>9, <2>1, <2>3, <2>4 DEF RowGoes
  <2> QED
    BY <1>9, <2>1, <2>3, <2>5 DEF Took, Credited
<1> QED
  BY <1>1, <1>5, <1>6, <1>7, <1>8, <1>9 DEF ApplyTopUpOutcome, Kinds

\* What the inbox does without an outcome stores and settles nothing.
LEMMA InboxGoes ==
    ASSUME InboxInv, InboxStep, NEW e \in Events
    PROVE  EventGoes(e)
<1> SUFFICES /\ inbox'[e].status # "NONE" => inbox[e].status # "NONE"
             /\ inbox'[e].status = "PROCESSED" => inbox[e].status = "PROCESSED"
  BY DEF EventGoes
<1>1. inbox \in [Events -> EventRows] /\ inbox[e] \in EventRows
  BY DEF InboxInv, InboxTypeOK
<1>2. ASSUME inbox' = inbox
      PROVE  /\ inbox'[e].status # "NONE" => inbox[e].status # "NONE"
             /\ inbox'[e].status = "PROCESSED" => inbox[e].status = "PROCESSED"
  BY <1>2
<1>3. ASSUME NEW p \in Processors, ClaimEvents(p)
      PROVE  /\ inbox'[e].status # "NONE" => inbox[e].status # "NONE"
             /\ inbox'[e].status = "PROCESSED" => inbox[e].status = "PROCESSED"
  <2>1. PICK held \in SUBSET Locked(p) :
          LET chosen == Candidates(p, held)
              dead   == {f \in chosen : Exhausted(f)}
              taken  == chosen \ dead
          IN  inbox' = [f \in Events |->
                CASE f \in dead  -> [inbox[f] EXCEPT !.status = "DEAD_LETTER", !.stale = FALSE]
                  [] f \in taken -> Claimed(inbox[f])
                  [] OTHER       -> inbox[f]]
    BY <1>3 DEF ClaimEvents
  <2> DEFINE chosen == Candidates(p, held)
             dead   == {f \in chosen : Exhausted(f)}
             taken  == chosen \ dead
  <2>2. e \in chosen => inbox[e].status # "NONE"
    BY DEF Candidates, Ready
  <2>3. CASE e \in dead
    <3>1. inbox'[e] = [inbox[e] EXCEPT !.status = "DEAD_LETTER", !.stale = FALSE]
      BY <2>1, <2>3
    <3>2. inbox'[e].status = "DEAD_LETTER"
      BY <1>1, <3>1 DEF EventRows
    <3> QED
      BY <2>2, <2>3, <3>2
  <2>4. CASE e \in taken
    <3>1. inbox'[e].status = "PROCESSING"
      BY <2>1, <2>4 DEF Claimed
    <3> QED
      BY <2>2, <2>4, <3>1
  <2>5. CASE e \notin dead /\ e \notin taken
    <3>1. inbox'[e] = inbox[e]
      BY <2>1, <2>5
    <3> QED
      BY <3>1
  <2> QED
    BY <2>3, <2>4, <2>5
<1>4. ASSUME NEW p \in Processors, FailClaimedEvent(p)
      PROVE  /\ inbox'[e].status # "NONE" => inbox[e].status # "NONE"
             /\ inbox'[e].status = "PROCESSED" => inbox[e].status = "PROCESSED"
  <2> DEFINE f == processor[p].event
             status == FailedStatus(f, processor[p].error)
             row == [inbox[f] EXCEPT !.status = status, !.stale = FALSE]
  <2>1. \/ inbox' = inbox
        \/ inbox[f].status = "PROCESSING" /\ inbox' = [inbox EXCEPT ![f] = row]
    BY <1>4 DEF FailClaimedEvent
  <2>2. f \in Events
    BY <1>4 DEF FailClaimedEvent, InboxInv, FailureNamed
  <2>3. status \in {"DEAD_LETTER", "RETRYABLE"}
    BY DEF FailedStatus
  <2> HIDE DEF f, status
  <2>4. row.status = status
    BY <1>1, <2>2 DEF EventRows
  <2> HIDE DEF row
  <2> QED
    BY <1>1, <2>1, <2>2, <2>3, <2>4
<1>5. ASSUME NEW f \in Events, LeaseLapses(f) \/ RetryEvent(f)
      PROVE  /\ inbox'[e].status # "NONE" => inbox[e].status # "NONE"
             /\ inbox'[e].status = "PROCESSED" => inbox[e].status = "PROCESSED"
  <2>1. CASE LeaseLapses(f)
    BY <1>1, <2>1 DEF LeaseLapses, EventRows
  <2>2. CASE RetryEvent(f)
    <3> DEFINE row == [inbox[f] EXCEPT !.status = "RECEIVED", !.stale = FALSE]
    <3>1. row.status = "RECEIVED" /\ inbox[f].status = "RETRYABLE"
      BY <1>1, <2>2 DEF RetryEvent, EventRows
    <3>2. inbox' = [inbox EXCEPT ![f] = row]
      BY <2>2 DEF RetryEvent
    <3> HIDE DEF row
    <3> QED
      BY <1>1, <3>1, <3>2
  <2> QED
    BY <1>5, <2>1, <2>2
<1> QED
  BY <1>2, <1>3, <1>4, <1>5
     DEF InboxStep, ProcessorCrash, FindProcessed, FindUnclaimed, ApplyFails

\* Everything goes on legally.
Goes ==
    /\ \A t \in TopUps : PaymentGoes(t) /\ RowGoes(t)
    /\ \A s \in Tasks : TaskGoes(s)
    /\ \A e \in Events : EventGoes(e)

\* A step that replaces the state of one task leaves the others.
LEMMA TaskReplaced ==
    ASSUME task \in [Tasks -> TaskStates], NEW s \in Tasks, NEW state,
           task' = [task EXCEPT ![s] = state]
    PROVE  /\ task'[s] = state
           /\ TaskGoes(s) => \A u \in Tasks : TaskGoes(u)
BY DEF TaskGoes

\* Every step is legal, seen from each payment, row, task and event.
LEMMA NextGoes ==
    ASSUME NoRefundFails, TypesInv, FollowInv, [Next]_vars
    PROVE  Goes
<1>1. /\ TaskNamed /\ InboxInv
      /\ quote \in [TopUps -> {"NONE", "OPEN", "LAPSED", "CONSUMED"}]
      /\ topUp \in [TopUps -> TopUpRows] /\ task \in [Tasks -> TaskStates]
      /\ payment \in [TopUps -> PaymentStates]
  BY DEF TypesInv, TypeOK
<1>2. payment' = payment => \A t \in TopUps : PaymentGoes(t)
  BY DEF PaymentGoes
<1>3. UNCHANGED <<quote, topUp>> => \A t \in TopUps : RowGoes(t)
  BY DEF RowGoes
<1>4. task' = task => \A s \in Tasks : TaskGoes(s)
  BY DEF TaskGoes
<1>5. UNCHANGED inbox => \A e \in Events : EventGoes(e)
  BY DEF EventGoes
<1>6. \A s \in Tasks : Ends(s) => \A u \in Tasks : TaskGoes(u)
  <2> SUFFICES ASSUME NEW s \in Tasks, Ends(s) PROVE \A u \in Tasks : TaskGoes(u)
    OBVIOUS
  <2>1. task' = [task EXCEPT ![s] = NoTask]
    BY DEF Ends
  <2>2. task'[s] = NoTask /\ (TaskGoes(s) => \A u \in Tasks : TaskGoes(u))
    BY <1>1, <2>1, TaskReplaced
  <2>3. TaskGoes(s)
    BY <2>2, NoTaskTyped DEF TaskGoes
  <2> QED
    BY <2>2, <2>3
<1>7. ASSUME NEW t \in TopUps, TopUpStep(t) PROVE Goes
  <2>1. CASE CreateQuote(t) \/ LapseQuote(t)
    <3>1. UNCHANGED <<inbox, topUp, task, payment>>
      BY <2>1 DEF CreateQuote, LapseQuote, inboxVars
    <3>2. \A u \in TopUps : RowGoes(u)
      BY <1>1, <2>1 DEF CreateQuote, LapseQuote, RowGoes
    <3> QED
      BY <1>2, <1>4, <1>5, <3>1, <3>2 DEF Goes
  <2>2. CASE PaymentMoves(t)
    <3>1. UNCHANGED <<inbox, quote, topUp, task>>
      BY <2>2 DEF PaymentMoves, inboxVars
    <3>2. \A u \in TopUps : PaymentGoes(u)
      BY <1>1, <2>2 DEF PaymentMoves, PaymentGoes
    <3> QED
      BY <1>3, <1>4, <1>5, <3>1, <3>2 DEF Goes
  <2>3. ASSUME NEW s \in Tasks, PrepareTopUp(s, t) PROVE Goes
    <3> DEFINE start == [NoTask EXCEPT !.pc = "CALLING", !.topUp = t]
    <3>1. start.pc = "CALLING" /\ start.topUp = t
      BY DEF NoTask
    <3>2. task' = [task EXCEPT ![s] = start] /\ UNCHANGED <<inbox, payment>>
      BY <2>3 DEF PrepareTopUp, Starts, inboxVars
    <3> HIDE DEF start
    <3>3. topUp[t].status = "NONE" /\ ~topUp[t].reversed
      BY <1>1, <2>3 DEF PrepareTopUp, FollowInv, RowTrue, NoTopUpRow
    <3>4. topUp[t] \in TopUpRows
      BY <1>1
    <3>5. /\ topUp'[t].status = "PENDING" /\ topUp'[t].reversed = topUp[t].reversed
          /\ \A u \in TopUps \ {t} : topUp'[u] = topUp[u]
          /\ quote'[t] = "CONSUMED" /\ \A u \in TopUps \ {t} : quote'[u] = quote[u]
      BY <1>1, <2>3, <3>4 DEF PrepareTopUp, TopUpRows
    <3>6. \A u \in TopUps : RowGoes(u)
      BY <3>3, <3>5 DEF RowGoes
    <3>7. task'[s] = start /\ (TaskGoes(s) => \A u \in Tasks : TaskGoes(u))
      BY <1>1, <3>2, TaskReplaced
    <3>8. TaskGoes(s)
      BY <3>1, <3>5, <3>7 DEF TaskGoes
    <3> QED
      BY <1>2, <1>5, <3>2, <3>6, <3>7, <3>8 DEF Goes
  <2>4. ASSUME NEW s \in Tasks, RetryTopUp(s, t) PROVE Goes
    <3> DEFINE start == [NoTask EXCEPT !.pc = "CALLING", !.topUp = t]
    <3>1. start.pc = "CALLING" /\ start.topUp = t
      BY DEF NoTask
    <3>2. task' = [task EXCEPT ![s] = start] /\ UNCHANGED <<inbox, payment, quote, topUp>>
      BY <2>4 DEF RetryTopUp, Starts, inboxVars
    <3> HIDE DEF start
    <3>3. task'[s] = start /\ (TaskGoes(s) => \A u \in Tasks : TaskGoes(u))
      BY <1>1, <3>2, TaskReplaced
    <3>4. topUp'[t].status # "NONE"
      BY <2>4, <3>2 DEF RetryTopUp
    <3>5. TaskGoes(s)
      BY <3>1, <3>3, <3>4 DEF TaskGoes
    <3> QED
      BY <1>2, <1>3, <1>5, <3>2, <3>3, <3>5 DEF Goes
  <2>5. ASSUME NEW s \in Tasks, ReadStatus(s, t) PROVE Goes
    <3> DEFINE kind == KindOf(payment[t])
               read == [pc |-> "READ", topUp |-> t, reply |-> "NONE", kind |-> kind]
    <3>1. read.pc = "READ" /\ read.topUp = t /\ read.kind = kind
      OBVIOUS
    <3>2. task' = [task EXCEPT ![s] = read] /\ UNCHANGED <<inbox, payment, quote, topUp>>
      BY <2>5 DEF ReadStatus, inboxVars
    <3>3. payment[t] \in {"OPEN", "PAID", "EXPIRED", "FAILED", "REVERSED"}
      BY <1>1, <2>5 DEF ReadStatus, PaymentStates
    <3>4. Told(t, kind)
      BY <3>3 DEF Told, Reportable, KindOf
    <3> HIDE DEF kind, read
    <3>5. task'[s] = read /\ (TaskGoes(s) => \A u \in Tasks : TaskGoes(u))
      BY <1>1, <3>2, TaskReplaced
    <3>6. TaskGoes(s)
      BY <2>5, <3>1, <3>4, <3>5 DEF TaskGoes, ReadStatus
    <3> QED
      BY <1>2, <1>3, <1>5, <3>2, <3>5, <3>6 DEF Goes
  <2> QED
    BY <1>7, <2>1, <2>2, <2>3, <2>4, <2>5 DEF TopUpStep
<1>8. ASSUME NEW s \in Tasks, TaskStep(s) PROVE Goes
  <2> DEFINE t == task[s].topUp
  <2>0. task[s] \in TaskStates
    BY <1>1
  <2>1. CASE CreatePayment(s)
    <3>1. t \in TopUps /\ topUp[t].status # "NONE"
      BY <1>1, <2>1 DEF CreatePayment, TaskNamed, FollowInv, TaskTrue
    <3>2. PICK state \in RequestEffects(payment[t]) :
            /\ payment' = [payment EXCEPT ![t] = state]
            /\ \/ task' = [task EXCEPT ![s] = NoTask]
               \/ /\ state # "UNKNOWN"
                  /\ task' = [task EXCEPT ![s] =
                        [@ EXCEPT !.pc = "REPLIED",
                                  !.reply = IF state = "REFUSED" THEN "REFUSED" ELSE "ACCEPTED"]]
      BY <2>1 DEF CreatePayment
    <3>3. payment'[t] = state /\ \A u \in TopUps \ {t} : payment'[u] = payment[u]
      BY <1>1, <3>1, <3>2
    <3>4. \A u \in TopUps : PaymentGoes(u)
      BY <3>1, <3>2, <3>3 DEF PaymentGoes, RequestEffects
    <3> DEFINE answer == IF state = "REFUSED" THEN "REFUSED" ELSE "ACCEPTED"
               replied == [task[s] EXCEPT !.pc = "REPLIED", !.reply = answer]
    <3>5. replied.pc = "REPLIED" /\ replied.topUp = t /\ replied.reply = answer
      BY <2>0 DEF TaskStates
    <3>6. task' = [task EXCEPT ![s] = NoTask] \/ task' = [task EXCEPT ![s] = replied]
      BY <3>2
    <3>7. answer = "REFUSED" => payment'[t] = "REFUSED"
      BY <3>3
    <3>8. task[s].pc = "CALLING"
      BY <2>1 DEF CreatePayment
    <3> HIDE DEF replied, answer, t
    <3>9. \A u \in Tasks : TaskGoes(u)
      <4>1. CASE task' = [task EXCEPT ![s] = NoTask]
        BY <1>6, <4>1 DEF Ends
      <4>2. CASE task' = [task EXCEPT ![s] = replied]
        <5>1. task'[s] = replied /\ (TaskGoes(s) => \A u \in Tasks : TaskGoes(u))
          BY <1>1, <4>2, TaskReplaced
        <5>2. t = task[s].topUp
          BY DEF t
        <5>3. TaskGoes(s)
          BY <3>5, <3>7, <3>8, <5>1, <5>2 DEF TaskGoes
        <5> QED
          BY <5>1, <5>3
      <4> QED
        BY <3>6, <4>1, <4>2
    <3>10. UNCHANGED <<inbox, quote, topUp>>
      BY <2>1 DEF CreatePayment, inboxVars
    <3> QED
      BY <1>3, <1>5, <3>4, <3>9, <3>10 DEF Goes
  <2>2. CASE FinalizeProviderResponse(s)
    <3>1. t \in TopUps
      BY <1>1, <2>2 DEF FinalizeProviderResponse, TaskNamed
    <3> DEFINE row == [topUp[t] EXCEPT !.referenced = TRUE, !.qr = TRUE]
    <3>2. /\ row.status = topUp[t].status /\ row.reversed = topUp[t].reversed /\ row.referenced
      BY <1>1, <3>1 DEF TopUpRows
    <3>3. \/ topUp' = topUp
          \/ topUp[t].status = "PENDING" /\ topUp' = [topUp EXCEPT ![t] = row]
      BY <2>2 DEF FinalizeProviderResponse
    <3> HIDE DEF row
    <3>4. UNCHANGED <<inbox, quote, payment>> /\ Ends(s)
      BY <2>2 DEF FinalizeProviderResponse, inboxVars
    <3>5. \A u \in TopUps : RowGoes(u)
      BY <1>1, <3>1, <3>2, <3>3, <3>4 DEF RowGoes
    <3> QED
      BY <1>2, <1>5, <1>6, <3>4, <3>5 DEF Goes
  <2>3. CASE FinalizeProviderRejection(s)
    <3>1. t \in TopUps /\ payment[t] \in Unpaid
      BY <1>1, <2>3 DEF FinalizeProviderRejection, TaskNamed, FollowInv, TaskTrue, Unpaid
    <3> DEFINE row == [topUp[t] EXCEPT !.status = "FAILED"]
    <3>2. /\ row.status = "FAILED" /\ row.reversed = topUp[t].reversed
          /\ row.referenced = topUp[t].referenced
      BY <1>1, <3>1 DEF TopUpRows
    <3>3. \/ topUp' = topUp
          \/ topUp[t].status = "PENDING" /\ topUp' = [topUp EXCEPT ![t] = row]
      BY <2>3 DEF FinalizeProviderRejection
    <3> HIDE DEF row
    <3>4. UNCHANGED <<inbox, quote, payment>> /\ Ends(s)
      BY <2>3 DEF FinalizeProviderRejection, inboxVars
    <3>5. \A u \in TopUps : RowGoes(u)
      BY <1>1, <3>1, <3>2, <3>3, <3>4 DEF RowGoes
    <3> QED
      BY <1>2, <1>5, <1>6, <3>4, <3>5 DEF Goes
  <2>4. CASE ApplyStatus(s)
    <3>1. t \in TopUps /\ Told(t, task[s].kind)
      BY <1>1, <2>4 DEF ApplyStatus, TaskNamed, FollowInv, TaskTrue
    <3>2. UNCHANGED <<inbox, quote, payment>> /\ Ends(s)
      BY <2>4 DEF ApplyStatus, inboxVars
    <3>3. \A u \in TopUps : RowGoes(u)
      <4>1. CASE UNCHANGED topUp
        BY <1>3, <3>2, <4>1
      <4>2. CASE ApplyTopUpOutcome(task[s].topUp, task[s].kind)
        <5>1. RowTrue(t) /\ payment[t] \in PaymentStates
          BY <1>1, <3>1 DEF FollowInv
        <5> QED
          BY <1>1, <3>1, <3>2, <4>2, <5>1, OutcomeTrue
      <4> QED
        BY <2>4, <4>1, <4>2 DEF ApplyStatus
    <3> QED
      BY <1>2, <1>5, <1>6, <3>2, <3>3 DEF Goes
  <2>5. CASE TaskCrash(s)
    BY <1>2, <1>3, <1>5, <1>6, <2>5 DEF TaskCrash, Goes
  <2> QED
    BY <1>8, <2>1, <2>2, <2>3, <2>4, <2>5 DEF TaskStep
<1>9. ASSUME NEW p \in Processors, NEW e \in Events, ReceiveEvent(p, e) PROVE Goes
  <2> DEFINE row == Received(Cardinality({f \in Events : Known(f)}))
  <2>1. inbox' = inbox \/ inbox' = [inbox EXCEPT ![e] = row]
    BY <1>9 DEF ReceiveEvent, ReceiveWebhook, Store
  <2>2. row.status = "RECEIVED"
    BY DEF Received
  <2> HIDE DEF row
  <2>3. Told(Content[e].topUp, Content[e].kind)
    BY <1>9 DEF ReceiveEvent, Told, NoRefundFails
  <2>4. inbox \in [Events -> EventRows]
    BY <1>1 DEF InboxInv, InboxTypeOK
  <2>5. \A f \in Events : EventGoes(f)
    BY <2>1, <2>2, <2>3, <2>4 DEF EventGoes
  <2>6. UNCHANGED <<quote, topUp, task, payment>>
    BY <1>9 DEF ReceiveEvent, topUpVars
  <2> QED
    BY <1>2, <1>3, <1>4, <2>5, <2>6 DEF Goes
<1>10. ASSUME NEW p \in Processors, NEW e \in Events, ApplyEvent(p, e) PROVE Goes
  <2> DEFINE t == Content[e].topUp
             kind == Content[e].kind
             row == [inbox[e] EXCEPT !.status = "PROCESSED", !.stale = FALSE]
  <2>1. t \in TopUps /\ UNCHANGED <<quote, task, payment>>
    BY <1>10, TermsTypes DEF ApplyEvent
  <2>2. Told(t, kind) /\ RowTrue(t) /\ payment[t] \in PaymentStates
    BY <1>1, <1>10, <2>1 DEF ApplyEvent, Apply, FollowInv, EventTrue
  <2>3. ApplyTopUpOutcome(t, kind)
    BY <1>10 DEF ApplyEvent
  <2>4. (\A u \in TopUps : RowGoes(u)) /\ Took(t, kind)'
    BY <1>1, <2>1, <2>2, <2>3, OutcomeTrue
  <2>5. inbox' = [inbox EXCEPT ![e] = row] /\ inbox \in [Events -> EventRows]
    BY <1>1, <1>10 DEF ApplyEvent, Apply, InboxInv, InboxTypeOK
  <2> HIDE DEF row
  <2>6. \A f \in Events : EventGoes(f)
    BY <2>2, <2>4, <2>5 DEF EventGoes
  <2> QED
    BY <1>2, <1>4, <2>1, <2>4, <2>6 DEF Goes
<1>11. CASE InboxStep
  <2>1. UNCHANGED <<quote, topUp, task, payment>>
    BY <1>11 DEF InboxStep, topUpVars
  <2>2. \A e \in Events : EventGoes(e)
    BY <1>1, <1>11, InboxGoes
  <2> QED
    BY <1>2, <1>3, <1>4, <2>1, <2>2 DEF Goes
<1>12. ASSUME UNCHANGED <<quote, topUp, task, payment, inbox>> PROVE Goes
  BY <1>2, <1>3, <1>4, <1>5, <1>12 DEF Goes
<1> QED
  BY <1>7, <1>8, <1>9, <1>10, <1>11, <1>12
     DEF Next, OtherStep, EarnReward, FundReservation, WalletStep, vars, inboxVars, topUpVars

\* What goes on legally stays true.
LEMMA FollowStays ==
    ASSUME TypesInv, TypesInv', FollowInv, Goes
    PROVE  FollowInv'
<1>1. /\ TaskNamed /\ task \in [Tasks -> TaskStates]
      /\ \A t \in TopUps : topUp[t] \in TopUpRows /\ payment[t] \in PaymentStates
      /\ \A t \in TopUps : topUp'[t] \in TopUpRows
      /\ TaskNamed'
  BY DEF TypesInv, TypeOK
<1>2. ASSUME NEW t \in TopUps PROVE RowTrue(t)'
  BY <1>1, RowStays DEF FollowInv, Goes
<1>3. ASSUME NEW e \in Events PROVE EventTrue(e)'
  <2> DEFINE t == Content[e].topUp
             kind == Content[e].kind
  <2>1. t \in TopUps
    BY TermsTypes
  <2>2. RowTrue(t) /\ RowGoes(t) /\ PaymentGoes(t) /\ EventTrue(e) /\ EventGoes(e)
    BY <2>1 DEF FollowInv, Goes
  <2>3. Told(t, kind) => Told(t, kind)'
    BY <1>1, <2>1, <2>2, ToldStays
  <2>4. Told(t, kind) /\ Took(t, kind) => Took(t, kind)'
    BY <1>1, <2>1, <2>2, TookStays
  <2>5. inbox[e].status = "PROCESSED" => inbox[e].status # "NONE"
    OBVIOUS
  <2>6. inbox'[e].status # "NONE" => Told(t, kind)'
    BY <2>2, <2>3 DEF EventTrue, EventGoes
  <2>7. inbox'[e].status = "PROCESSED" => Took(t, kind)'
    BY <2>2, <2>4, <2>5 DEF EventTrue, EventGoes
  <2> QED
    BY <2>6, <2>7 DEF EventTrue
<1>4. ASSUME NEW s \in Tasks PROVE TaskTrue(s)'
  <2> DEFINE t == task[s].topUp
  <2>0. PICK u, kind : u = task'[s].topUp /\ kind = task'[s].kind
    OBVIOUS
  <2>1. task'[s].pc # "IDLE" => u \in TopUps
    BY <1>1, <2>0 DEF TaskNamed
  <2>2. task[s].pc # "IDLE" => t \in TopUps
    BY <1>1 DEF TaskNamed
  <2>3. \A v \in TopUps : topUp[v].status # "NONE" => topUp'[v].status # "NONE"
    BY DEF Goes, RowGoes
  <2>4. \A v \in TopUps : payment[v] = "REFUSED" => payment'[v] = "REFUSED"
    BY DEF Goes, PaymentGoes
  <2>5. ASSUME NEW v \in TopUps, Told(v, kind) PROVE Told(v, kind)'
    BY <1>1, <2>5, ToldStays DEF Goes
  <2>6. TaskTrue(s) /\ TaskGoes(s)
    BY DEF FollowInv, Goes
  <2>7. CASE task'[s] = task[s]
    <3>1. task'[s].pc # "IDLE" => topUp'[u].status # "NONE"
      BY <2>0, <2>1, <2>3, <2>6, <2>7 DEF TaskTrue
    <3>2. task'[s].pc = "REPLIED" /\ task'[s].reply = "REFUSED" => payment'[u] = "REFUSED"
      BY <2>0, <2>1, <2>4, <2>6, <2>7 DEF TaskTrue
    <3>3. task'[s].pc = "READ" => Told(u, kind)'
      BY <2>0, <2>1, <2>5, <2>6, <2>7 DEF TaskTrue
    <3> QED
      BY <2>0, <3>1, <3>2, <3>3 DEF TaskTrue, Told, Reportable
  <2>8. CASE task'[s].pc = "IDLE"
    BY <2>8 DEF TaskTrue
  <2>9. CASE task'[s].pc = "CALLING" /\ topUp'[u].status # "NONE"
    BY <2>0, <2>9 DEF TaskTrue
  <2>10. CASE /\ task[s].pc = "CALLING" /\ task'[s].pc = "REPLIED" /\ u = t
              /\ task'[s].reply = "REFUSED" => payment'[u] = "REFUSED"
    BY <2>0, <2>2, <2>3, <2>6, <2>10 DEF TaskTrue
  <2>11. CASE task'[s].pc = "READ" /\ Told(u, kind) /\ topUp[u].status # "NONE"
    <3>1. u \in TopUps /\ topUp'[u].status # "NONE"
      BY <2>1, <2>3, <2>11
    <3>2. Told(u, kind)'
      BY <2>5, <2>11, <3>1
    <3> QED
      BY <2>0, <2>11, <3>1, <3>2 DEF TaskTrue, Told, Reportable
  <2> QED
    BY <2>0, <2>6, <2>7, <2>8, <2>9, <2>10, <2>11 DEF TaskGoes
<1> QED
  BY <1>2, <1>3, <1>4 DEF FollowInv

-----------------------------------------------------------------------------
(* The theorems *)

\* The types hold in every reachable state.
LEMMA TopUpTypes == Spec => []TypesInv
BY InitTyped, NextTyped, PTL DEF Spec

\* Type correctness of Top-ups, tasks, inbox and Wallets together.
THEOREM TopUpTypeSafe == Spec => []TypeOK
<1>1. TypesInv => TypeOK
  BY DEF TypesInv
<1> QED
  BY <1>1, TopUpTypes, PTL

\* The guarantees of the inbox hold where it is used: the outcome of an event
\* takes effect once, and no stored event waits without attempts.
THEOREM TopUpEventsSafe == Spec => [](AppliedOnce /\ NoneStranded)
<1>1. TypesInv => AppliedOnce /\ NoneStranded
  BY DEF TypesInv, InboxInv
<1> QED
  BY <1>1, TopUpTypes, PTL

\* The invariant that both properties below follow from.
LEMMA FollowAlways ==
    ASSUME NoRefundFails
    PROVE  Spec => []FollowInv
<1>1. Init => FollowInv
  <2> SUFFICES ASSUME Init PROVE FollowInv
    OBVIOUS
  <2>1. \A t \in TopUps : RowTrue(t)
    BY DEF Init, RowTrue, NoTopUpRow
  <2>2. \A s \in Tasks : TaskTrue(s)
    BY DEF Init, TaskTrue, NoTask
  <2>3. \A e \in Events : EventTrue(e)
    BY DEF Init, InboxInit, NoEventRow, EventTrue
  <2> QED
    BY <2>1, <2>2, <2>3 DEF FollowInv
<1>2. TypesInv /\ TypesInv' /\ FollowInv /\ [Next]_vars => FollowInv'
  BY NextGoes, FollowStays
<1> QED
  BY <1>1, <1>2, TopUpTypes, PTL DEF Spec

\* Whatever is lost, retried, delayed or reordered between the server and the
\* Provider, a Top-up is credited only once the Provider was paid and given up
\* only when it will not be, as long as no refund is reported to have failed.
THEOREM FollowsSafe ==
    ASSUME NoRefundFails
    PROVE  Spec => []TopUpFollowsProvider
<1>1. FollowInv => TopUpFollowsProvider
  BY DEF FollowInv, RowTrue, TopUpFollowsProvider, Paid, Unpaid
<1> QED
  BY <1>1, FollowAlways, PTL

\* An event is marked PROCESSED only with its effect, and nothing undoes it.
THEOREM EffectSafe ==
    ASSUME NoRefundFails
    PROVE  Spec => []ProcessedTakesEffect
<1>1. FollowInv => ProcessedTakesEffect
  BY DEF FollowInv, EventTrue, Took, ProcessedTakesEffect
<1> QED
  BY <1>1, FollowAlways, PTL

-----------------------------------------------------------------------------
(* The money: one step moves one Top-up's credit, or somebody else's.      *)

SameTotals == \A m \in Members : WalletTotal(wallet'[m]) = WalletTotal(wallet[m])

\* n is posted to the Wallet of the owner of t, and taken from the suspense.
Posts(t, n) ==
    /\ \A m \in Members :
          WalletTotal(wallet'[m]) = WalletTotal(wallet[m]) + (IF m = Owner(t) THEN n ELSE 0)
    /\ platform'.PLATFORM_SUSPENSE = platform.PLATFORM_SUSPENSE - n

PostsNothing == SameTotals /\ platform'.PLATFORM_SUSPENSE = platform.PLATFORM_SUSPENSE

SameState(t) ==
    topUp'[t].status = topUp[t].status /\ topUp'[t].reversed = topUp[t].reversed

\* t alone goes from one status to another.
Turns(t, from, to) ==
    /\ \A u \in TopUps \ {t} : SameState(u)
    /\ topUp[t].status = from /\ topUp'[t].status \in to

\* What an outcome does to the money.
Settles(t) ==
    \/ (\A u \in TopUps : SameState(u)) /\ PostsNothing
    \/ /\ Turns(t, "PENDING", {"EXPIRED", "FAILED"}) /\ topUp'[t].reversed = topUp[t].reversed
       /\ PostsNothing
    \/ /\ Turns(t, "PENDING", {"PAID"}) /\ topUp'[t].reversed = topUp[t].reversed
       /\ Posts(t, Credit(t))
    \/ /\ Turns(t, "PAID", {"PAID"}) /\ ~topUp[t].reversed /\ topUp'[t].reversed
       /\ Posts(t, -Credit(t))

\* prepareTopUp takes up room.
Opens(t) ==
    /\ Turns(t, topUp[t].status, {"PENDING"}) /\ topUp'[t].reversed = topUp[t].reversed
    /\ quote[t] = "OPEN" /\ quote'[t] = "CONSUMED" /\ HasRoom(t) /\ PostsNothing

\* The rest of the system pays n to m.
Earns(m, n) ==
    /\ \A t \in TopUps : SameState(t)
    /\ \A x \in Members :
          /\ WalletTotal(wallet'[x]) = WalletTotal(wallet[x]) + (IF x = m THEN n ELSE 0)
          /\ earned'[x] = earned[x] + (IF x = m THEN n ELSE 0)
    /\ platform'.PLATFORM_SUSPENSE = platform.PLATFORM_SUSPENSE

\* What a step does to the money.
MoneyGoes ==
    /\ \A t \in TopUps : quote[t] = "CONSUMED" => quote'[t] = "CONSUMED"
    /\ \/ earned' = earned /\ \E t \in TopUps : Settles(t) \/ Opens(t)
       \/ earned' = earned /\ (\A t \in TopUps : SameState(t)) /\ PostsNothing
       \/ \E m \in Members, n \in Nat : Earns(m, n)

\* Only a row that was opened has a status, and only a credit is reversed.
RowOpened(t) ==
    /\ topUp[t].status # "NONE" => quote[t] = "CONSUMED"
    /\ topUp[t].reversed => topUp[t].status = "PAID"

\* The inductive invariant, beside the types.
MoneyInv == (\A t \in TopUps : RowOpened(t)) /\ CreditedOnce /\ OwnRequestsFit

\* A posting to SPENDING of n against the suspense.
LEMMA SpendingPosted ==
    ASSUME WalletTypeOK, NEW t \in TopUps, NEW n \in Int, NEW k \in Int, k = -n,
           PostToWallet(Owner(t), Posted(wallet[Owner(t)], n, 0, 0, 0)), PostToPlatform(0, k)
    PROVE  Posts(t, n)
<1> DEFINE m == Owner(t)
           w == Posted(wallet[m], n, 0, 0, 0)
<1>1. /\ m \in Members /\ wallet \in [Members -> Wallets] /\ wallet[m] \in Wallets /\ 0 \in Int
      /\ platform \in Platforms
  BY TermsTypes DEF WalletTypeOK
<1> HIDE DEF m
<1>2. w \in Wallets /\ WalletTotal(w) = WalletTotal(wallet[m]) + n + 0 + 0 + 0
  BY <1>1, PostedFacts
<1>3. PostToWallet(m, w)
  BY DEF m
<1> HIDE DEF w
<1>4. wallet'[m] = w /\ \A x \in Members \ {m} : wallet'[x] = wallet[x]
  BY <1>1, <1>2, <1>3, PostToWalletFacts
<1>5. \A x \in Members : WalletTotal(wallet[x]) \in Int
  BY <1>1, WalletFields DEF WalletTotal
<1>6. platform'.PLATFORM_SUSPENSE = platform.PLATFORM_SUSPENSE - n
  BY <1>1 DEF PostToPlatform, Platforms
<1>7. \A x \in Members :
         WalletTotal(wallet'[x]) = WalletTotal(wallet[x]) + (IF x = m THEN n ELSE 0)
  BY <1>1, <1>2, <1>4, <1>5
<1> QED
  BY <1>6, <1>7 DEF Posts, m

\* applyTopUpOutcomeInTransaction credits a PENDING Top-up, corrects a credit
\* that was not, or moves no money.
LEMMA OutcomeSettles ==
    ASSUME WalletTypeOK, topUp \in [TopUps -> TopUpRows], NEW t \in TopUps, NEW kind,
           ApplyTopUpOutcome(t, kind)
    PROVE  Settles(t)
<1>1. /\ topUp[t] \in TopUpRows
      /\ Credit(t) \in Int /\ -Credit(t) \in Int /\ Credit(t) = -(-Credit(t))
  BY TermsTypes
<1>2. ASSUME UNCHANGED walletVars PROVE PostsNothing
  BY <1>2 DEF walletVars, PostsNothing, SameTotals
<1>3. ASSUME UNCHANGED <<walletVars, topUp>> PROVE Settles(t)
  BY <1>2, <1>3 DEF Settles, SameState
<1>4. ASSUME NEW row \in TopUpRows, topUp' = [topUp EXCEPT ![t] = row]
      PROVE  topUp'[t] = row /\ \A u \in TopUps \ {t} : SameState(u)
  BY <1>4 DEF SameState
<1>5. ASSUME topUp[t].status = "PAID", ReversePaidTopUp(t) PROVE Settles(t)
  <2>1. CASE UNCHANGED <<walletVars, topUp>>
    BY <1>3, <2>1
  <2>2. CASE /\ ~topUp[t].reversed
             /\ PostToWallet(Owner(t), Posted(wallet[Owner(t)], -Credit(t), 0, 0, 0))
             /\ PostToPlatform(0, Credit(t))
             /\ topUp' = [topUp EXCEPT ![t].reversed = TRUE]
    <3> DEFINE row == [topUp[t] EXCEPT !.reversed = TRUE]
    <3>1. row \in TopUpRows /\ row.status = "PAID" /\ row.reversed
      BY <1>1, <1>5 DEF TopUpRows
    <3>2. topUp' = [topUp EXCEPT ![t] = row]
      BY <2>2
    <3> HIDE DEF row
    <3>3. topUp'[t] = row /\ \A u \in TopUps \ {t} : SameState(u)
      BY <1>4, <3>1, <3>2
    <3>4. Posts(t, -Credit(t))
      BY <1>1, <2>2, SpendingPosted
    <3> QED
      BY <1>5, <2>2, <3>1, <3>3, <3>4 DEF Settles, Turns
  <2> QED
    BY <1>5, <2>1, <2>2 DEF ReversePaidTopUp
<1>6. ASSUME topUp[t].status = "PENDING", CreditTopUp(t) PROVE Settles(t)
  <2> DEFINE row == [topUp[t] EXCEPT !.status = "PAID", !.referenced = TRUE]
  <2>1. row \in TopUpRows /\ row.status = "PAID" /\ row.reversed = topUp[t].reversed
    BY <1>1 DEF TopUpRows
  <2>2. topUp' = [topUp EXCEPT ![t] = row]
    BY <1>6 DEF CreditTopUp
  <2> HIDE DEF row
  <2>3. topUp'[t] = row /\ \A u \in TopUps \ {t} : SameState(u)
    BY <1>4, <2>1, <2>2
  <2>4. Posts(t, Credit(t))
    BY <1>1, <1>6, SpendingPosted DEF CreditTopUp
  <2> QED
    BY <1>6, <2>1, <2>3, <2>4 DEF Settles, Turns
<1>7. ASSUME topUp[t].status = "PENDING", UNCHANGED walletVars,
             topUp' = [topUp EXCEPT ![t].referenced = TRUE]
      PROVE  Settles(t)
  <2> DEFINE row == [topUp[t] EXCEPT !.referenced = TRUE]
  <2>1. row \in TopUpRows /\ row.status = topUp[t].status /\ row.reversed = topUp[t].reversed
    BY <1>1 DEF TopUpRows
  <2>2. topUp' = [topUp EXCEPT ![t] = row]
    BY <1>7
  <2> HIDE DEF row
  <2>3. \A u \in TopUps : SameState(u)
    BY <1>4, <2>1, <2>2 DEF SameState
  <2> QED
    BY <1>2, <1>7, <2>3 DEF Settles
<1>8. ASSUME NEW status \in {"EXPIRED", "FAILED"}, topUp[t].status = "PENDING",
             UNCHANGED walletVars,
             topUp' = [topUp EXCEPT ![t] =
                          [topUp[t] EXCEPT !.status = status, !.referenced = TRUE]]
      PROVE  Settles(t)
  <2> DEFINE row == [topUp[t] EXCEPT !.status = status, !.referenced = TRUE]
  <2>1. row \in TopUpRows /\ row.status = status /\ row.reversed = topUp[t].reversed
    BY <1>1 DEF TopUpRows
  <2>2. topUp' = [topUp EXCEPT ![t] = row]
    BY <1>8
  <2> HIDE DEF row
  <2>3. topUp'[t] = row /\ \A u \in TopUps \ {t} : SameState(u)
    BY <1>4, <2>1, <2>2
  <2> QED
    BY <1>2, <1>8, <2>1, <2>3 DEF Settles, Turns
<1> QED
  BY <1>3, <1>5, <1>6, <1>7, <1>8 DEF ApplyTopUpOutcome

\* Every step does one of these things to the money.
LEMMA NextMoney ==
    ASSUME TypesInv, [Next]_vars
    PROVE  MoneyGoes
<1>1. /\ WalletTypeOK /\ TaskNamed
      /\ topUp \in [TopUps -> TopUpRows] /\ earned \in [Members -> Nat]
      /\ quote \in [TopUps -> {"NONE", "OPEN", "LAPSED", "CONSUMED"}]
  BY DEF TypesInv, TypeOK
<1>2. UNCHANGED walletVars => PostsNothing
  BY DEF walletVars, PostsNothing, SameTotals
<1>3. topUp' = topUp => \A t \in TopUps : SameState(t)
  BY DEF SameState
<1>4. quote' = quote => \A t \in TopUps : quote[t] = "CONSUMED" => quote'[t] = "CONSUMED"
  OBVIOUS
<1>5. ASSUME UNCHANGED <<walletVars, topUp, earned>>,
             \A t \in TopUps : quote[t] = "CONSUMED" => quote'[t] = "CONSUMED"
      PROVE  MoneyGoes
  BY <1>2, <1>3, <1>5 DEF MoneyGoes
<1>6. ASSUME NEW t \in TopUps, CreateQuote(t) \/ LapseQuote(t) \/ PaymentMoves(t)
      PROVE  MoneyGoes
  <2>1. \A u \in TopUps : quote[u] = "CONSUMED" => quote'[u] = "CONSUMED"
    BY <1>1, <1>6 DEF CreateQuote, LapseQuote, PaymentMoves
  <2> QED
    BY <1>5, <1>6, <2>1 DEF CreateQuote, LapseQuote, PaymentMoves
<1>7. ASSUME NEW t \in TopUps, NEW s \in Tasks, RetryTopUp(s, t) \/ ReadStatus(s, t)
      PROVE  MoneyGoes
  BY <1>4, <1>5, <1>7 DEF RetryTopUp, ReadStatus
<1>8. ASSUME NEW t \in TopUps, NEW s \in Tasks, PrepareTopUp(s, t)
      PROVE  MoneyGoes
  <2> DEFINE row == [topUp[t] EXCEPT !.status = "PENDING"]
  <2>1. row.status = "PENDING" /\ row.reversed = topUp[t].reversed
    BY <1>1 DEF TopUpRows
  <2>2. topUp' = [topUp EXCEPT ![t] = row]
    BY <1>8 DEF PrepareTopUp
  <2> HIDE DEF row
  <2>3. topUp'[t] = row /\ \A u \in TopUps \ {t} : SameState(u)
    BY <1>1, <2>2 DEF SameState
  <2>4. /\ quote[t] = "OPEN" /\ quote'[t] = "CONSUMED" /\ HasRoom(t)
        /\ \A u \in TopUps : quote[u] = "CONSUMED" => quote'[u] = "CONSUMED"
        /\ UNCHANGED walletVars /\ earned' = earned
    BY <1>1, <1>8 DEF PrepareTopUp
  <2>5. Opens(t)
    BY <1>2, <2>1, <2>3, <2>4 DEF Opens, Turns
  <2> QED
    BY <2>4, <2>5 DEF MoneyGoes
<1>9. ASSUME NEW s \in Tasks, CreatePayment(s) \/ TaskCrash(s)
      PROVE  MoneyGoes
  BY <1>4, <1>5, <1>9 DEF CreatePayment, TaskCrash
<1>10. ASSUME NEW s \in Tasks, FinalizeProviderResponse(s) \/ FinalizeProviderRejection(s)
       PROVE  MoneyGoes
  <2> DEFINE t == task[s].topUp
             answered == [topUp[t] EXCEPT !.referenced = TRUE, !.qr = TRUE]
             refused  == [topUp[t] EXCEPT !.status = "FAILED"]
  <2>1. t \in TopUps /\ topUp[t] \in TopUpRows
    BY <1>1, <1>10 DEF FinalizeProviderResponse, FinalizeProviderRejection, TaskNamed
  <2>2. /\ answered.status = topUp[t].status /\ answered.reversed = topUp[t].reversed
        /\ refused.status = "FAILED" /\ refused.reversed = topUp[t].reversed
    BY <2>1 DEF TopUpRows
  <2>3. \/ topUp' = topUp
        \/ topUp[t].status = "PENDING" /\ topUp' = [topUp EXCEPT ![t] = answered]
        \/ topUp[t].status = "PENDING" /\ topUp' = [topUp EXCEPT ![t] = refused]
    BY <1>10 DEF FinalizeProviderResponse, FinalizeProviderRejection
  <2>4. UNCHANGED <<walletVars, quote, earned>>
    BY <1>10 DEF FinalizeProviderResponse, FinalizeProviderRejection
  <2> HIDE DEF answered, refused, t
  <2>5. CASE topUp' = topUp
    BY <1>4, <1>5, <2>4, <2>5
  <2>6. CASE topUp' = [topUp EXCEPT ![t] = answered]
    <3>1. \A u \in TopUps : SameState(u)
      BY <1>1, <2>1, <2>2, <2>6 DEF SameState
    <3> QED
      BY <1>2, <1>4, <2>4, <3>1 DEF MoneyGoes
  <2>7. CASE topUp[t].status = "PENDING" /\ topUp' = [topUp EXCEPT ![t] = refused]
    <3>1. topUp'[t] = refused /\ \A u \in TopUps \ {t} : SameState(u)
      BY <1>1, <2>1, <2>7 DEF SameState
    <3>2. Settles(t)
      BY <1>2, <2>2, <2>4, <2>7, <3>1 DEF Settles, Turns
    <3> QED
      BY <1>4, <2>1, <2>4, <3>2 DEF MoneyGoes
  <2> QED
    BY <2>3, <2>5, <2>6, <2>7
<1>11. ASSUME NEW s \in Tasks, ApplyStatus(s) PROVE MoneyGoes
  <2>1. task[s].topUp \in TopUps /\ UNCHANGED <<quote, earned>>
    BY <1>1, <1>11 DEF ApplyStatus, TaskNamed
  <2>2. CASE UNCHANGED <<walletVars, topUp>>
    BY <1>4, <1>5, <2>1, <2>2
  <2>3. CASE ApplyTopUpOutcome(task[s].topUp, task[s].kind)
    <3>1. Settles(task[s].topUp)
      BY <1>1, <2>1, <2>3, OutcomeSettles
    <3> QED
      BY <1>4, <2>1, <3>1 DEF MoneyGoes
  <2> QED
    BY <1>11, <2>2, <2>3 DEF ApplyStatus
<1>12. ASSUME NEW p \in Processors, NEW e \in Events, ApplyEvent(p, e) PROVE MoneyGoes
  <2>1. Content[e].topUp \in TopUps /\ UNCHANGED <<quote, earned>>
    BY <1>12, TermsTypes DEF ApplyEvent
  <2>2. Settles(Content[e].topUp)
    BY <1>1, <1>12, <2>1, OutcomeSettles DEF ApplyEvent
  <2> QED
    BY <1>4, <2>1, <2>2 DEF MoneyGoes
<1>13. ASSUME UNCHANGED <<walletVars, topUpVars>> PROVE MoneyGoes
  BY <1>4, <1>5, <1>13 DEF topUpVars
<1>14. ASSUME NEW m \in Members, NEW amount \in Rewards, EarnReward(m, amount)
       PROVE  MoneyGoes
  <2> DEFINE w == Posted(wallet[m], 0, 0, amount, 0)
  <2>1. /\ wallet \in [Members -> Wallets] /\ wallet[m] \in Wallets /\ 0 \in Int
        /\ amount \in Int /\ amount \in Nat
    BY <1>1, TopUpAssumption DEF WalletTypeOK
  <2>2. w \in Wallets /\ WalletTotal(w) = WalletTotal(wallet[m]) + 0 + 0 + amount + 0
    BY <2>1, PostedFacts
  <2>3. /\ PostToWallet(m, w) /\ earned' = [earned EXCEPT ![m] = earned[m] + amount]
        /\ UNCHANGED <<platform, quote, topUp>>
    BY <1>14 DEF EarnReward
  <2> HIDE DEF w
  <2>4. wallet'[m] = w /\ \A x \in Members \ {m} : wallet'[x] = wallet[x]
    BY <2>1, <2>2, <2>3, PostToWalletFacts
  <2>5. \A x \in Members : WalletTotal(wallet[x]) \in Int
    BY <2>1, WalletFields DEF WalletTotal
  <2>6. ASSUME NEW x \in Members
        PROVE  /\ WalletTotal(wallet'[x]) = WalletTotal(wallet[x])
                                              + (IF x = m THEN amount ELSE 0)
               /\ earned'[x] = earned[x] + (IF x = m THEN amount ELSE 0)
    BY <1>1, <2>1, <2>2, <2>3, <2>4, <2>5
  <2>7. Earns(m, amount)
    BY <1>3, <2>3, <2>6 DEF Earns
  <2> QED
    BY <1>4, <2>1, <2>3, <2>7 DEF MoneyGoes
<1>15. ASSUME NEW m \in Members, NEW amount \in Fundings, FundReservation(m, amount)
       PROVE  MoneyGoes
  <2> DEFINE w == Posted(wallet[m], -amount, amount, 0, 0)
  <2>1. /\ wallet \in [Members -> Wallets] /\ wallet[m] \in Wallets /\ 0 \in Int
        /\ amount \in Int /\ -amount \in Int
    BY <1>1, TopUpAssumption DEF WalletTypeOK
  <2>2. w \in Wallets /\ WalletTotal(w) = WalletTotal(wallet[m]) + (-amount) + amount + 0 + 0
    BY <2>1, PostedFacts
  <2>3. PostToWallet(m, w) /\ UNCHANGED <<platform, quote, topUp, earned>>
    BY <1>15 DEF FundReservation
  <2> HIDE DEF w
  <2>4. wallet'[m] = w /\ \A x \in Members \ {m} : wallet'[x] = wallet[x]
    BY <2>1, <2>2, <2>3, PostToWalletFacts
  <2>5. \A x \in Members : WalletTotal(wallet[x]) \in Int
    BY <2>1, WalletFields DEF WalletTotal
  <2>6. SameTotals
    BY <2>1, <2>2, <2>4, <2>5 DEF SameTotals
  <2> QED
    BY <1>3, <1>4, <2>3, <2>6 DEF MoneyGoes, PostsNothing
<1>16. CASE WalletStep
  <2>1. platform' = platform /\ SameTotals
    BY <1>1, <1>16, WalletAssumption, WalletCommands DEF WalletStep, SameTotals
  <2>2. UNCHANGED <<quote, topUp, earned>>
    BY <1>16 DEF WalletStep, topUpVars
  <2> QED
    BY <1>3, <1>4, <2>1, <2>2 DEF MoneyGoes, PostsNothing
<1> QED
  BY <1>6, <1>7, <1>8, <1>9, <1>10, <1>11, <1>12, <1>13, <1>14, <1>15, <1>16
     DEF Next, TopUpStep, TaskStep, ReceiveEvent, InboxStep, OtherStep, vars

-----------------------------------------------------------------------------
(* Sums of credits *)

PendingOf(m) == {t \in TopUps : Owner(t) = m /\ topUp[t].status = "PENDING"}
CreditedOf(m) == {t \in TopUps : Owner(t) = m /\ Credited(t)}
AllCredited == {t \in TopUps : Credited(t)}

\* The credits of some Top-ups: a number, and what one more or less does to it.
LEMMA CreditSums ==
    ASSUME NEW S, S \subseteq TopUps
    PROVE  /\ TotalCredit(S) \in Int
           /\ \A t \in TopUps \ S : TotalCredit(S \union {t}) = TotalCredit(S) + Credit(t)
           /\ \A t \in S : TotalCredit(S \ {t}) = TotalCredit(S) - Credit(t)
<1> DEFINE f == [t \in TopUps |-> Credit(t)]
<1>1. \A t \in TopUps : f[t] = Credit(t) /\ f[t] \in Int
  BY TermsTypes
<1>2. \A T : TotalCredit(T) = SumFunctionOnSet(f, T)
  BY DEF TotalCredit
<1> HIDE DEF f
<1>3. IsFiniteSet(S)
  BY TopUpAssumption, FS_Subset
<1>4. TotalCredit(S) \in Int
  BY <1>1, <1>2, <1>3, SumType
<1>5. ASSUME NEW t \in TopUps \ S
      PROVE  TotalCredit(S \union {t}) = TotalCredit(S) + Credit(t)
  <2>1. SumFunctionOnSet(f, S \union {t}) = SumFunctionOnSet(f, S) + f[t]
    <3>1. \A x \in S \union {t} : f[x] \in Int
      BY <1>1
    <3> QED
      BY <1>3, <3>1, SumAdd
  <2> QED
    BY <1>1, <1>2, <2>1
<1>6. ASSUME NEW t \in S
      PROVE  TotalCredit(S \ {t}) = TotalCredit(S) - Credit(t)
  <2>1. SumFunctionOnSet(f, S) = f[t] + SumFunctionOnSet(f, S \ {t})
    <3>1. \A x \in S : f[x] \in Int
      BY <1>1
    <3> QED
      BY <1>3, <3>1, SumTakeOut
  <2>2. SumFunctionOnSet(f, S \ {t}) \in Int /\ f[t] \in Int /\ f[t] = Credit(t)
    <3>1. IsFiniteSet(S \ {t}) /\ \A x \in S \ {t} : f[x] \in Int
      BY <1>1, <1>3, FS_RemoveElement
    <3> QED
      BY <1>1, <3>1, SumType
  <2>3. SumFunctionOnSet(f, S \ {t}) = SumFunctionOnSet(f, S) - f[t]
    BY <2>1, <2>2
  <2> QED
    BY <1>2, <2>2, <2>3
<1> QED
  BY <1>4, <1>5, <1>6

\* A step that changes no status changes no sum.
LEMMA SetsStay ==
    ASSUME \A t \in TopUps : SameState(t)
    PROVE  /\ \A m : PendingOf(m)' = PendingOf(m) /\ CreditedOf(m)' = CreditedOf(m)
           /\ AllCredited' = AllCredited
BY DEF SameState, PendingOf, CreditedOf, AllCredited, Credited, Owner

\* A step that changes t alone adds t to a sum or takes it out.
LEMMA SetsGo ==
    ASSUME NEW t \in TopUps, \A u \in TopUps \ {t} : SameState(u),
           topUp[t].status \in {"NONE", "PENDING", "PAID"}
    PROVE  /\ \A m \in Members \ {Owner(t)} :
                 PendingOf(m)' = PendingOf(m) /\ CreditedOf(m)' = CreditedOf(m)
           /\ PendingOf(Owner(t))' = IF topUp'[t].status = "PENDING"
                                     THEN PendingOf(Owner(t)) \union {t}
                                     ELSE PendingOf(Owner(t)) \ {t}
           /\ CreditedOf(Owner(t))' = IF Credited(t)' THEN CreditedOf(Owner(t)) \union {t}
                                      ELSE CreditedOf(Owner(t)) \ {t}
           /\ AllCredited' = IF Credited(t)' THEN AllCredited \union {t} ELSE AllCredited \ {t}
<1>1. \A m : /\ PendingOf(m)' = {u \in TopUps : Owner(u) = m /\ topUp'[u].status = "PENDING"}
             /\ CreditedOf(m)' = {u \in TopUps : Owner(u) = m /\ Credited(u)'}
  BY DEF PendingOf, CreditedOf, Owner
<1>2. AllCredited' = {u \in TopUps : Credited(u)'}
  BY DEF AllCredited
<1>3. \A u \in TopUps \ {t} :
         /\ topUp'[u].status = "PENDING" <=> topUp[u].status = "PENDING"
         /\ Credited(u)' <=> Credited(u)
  BY DEF SameState, Credited
<1>4. \A m \in Members \ {Owner(t)} : PendingOf(m)' = PendingOf(m)
  BY <1>1, <1>3 DEF PendingOf
<1>5. \A m \in Members \ {Owner(t)} : CreditedOf(m)' = CreditedOf(m)
  BY <1>1, <1>3 DEF CreditedOf
<1>6. PendingOf(Owner(t))' = IF topUp'[t].status = "PENDING"
                             THEN PendingOf(Owner(t)) \union {t} ELSE PendingOf(Owner(t)) \ {t}
  BY <1>1, <1>3 DEF PendingOf
<1>7. CreditedOf(Owner(t))' = IF Credited(t)' THEN CreditedOf(Owner(t)) \union {t}
                              ELSE CreditedOf(Owner(t)) \ {t}
  BY <1>1, <1>3 DEF CreditedOf
<1>8. AllCredited' = IF Credited(t)' THEN AllCredited \union {t} ELSE AllCredited \ {t}
  BY <1>2, <1>3 DEF AllCredited
<1> QED
  BY <1>4, <1>5, <1>6, <1>7, <1>8

\* The numbers that are compared are numbers.
LEMMA MoneyTyped ==
    ASSUME TypesInv
    PROVE  /\ \A m \in Members :
                 /\ WalletTotal(wallet[m]) \in Int /\ WalletTotal(InitialWallet[m]) \in Int
                 /\ earned[m] \in Nat
                 /\ TotalCredit(PendingOf(m)) \in Int /\ TotalCredit(CreditedOf(m)) \in Int
           /\ platform.PLATFORM_SUSPENSE \in Int /\ TotalCredit(AllCredited) \in Int
           /\ Capacity \in Int
<1>1. /\ \A m : PendingOf(m) \subseteq TopUps /\ CreditedOf(m) \subseteq TopUps
      /\ AllCredited \subseteq TopUps
  BY DEF PendingOf, CreditedOf, AllCredited
<1>2. \A m \in Members : wallet[m] \in Wallets /\ InitialWallet[m] \in Wallets
  BY WalletAssumption DEF TypesInv, TypeOK, WalletTypeOK
<1>3. \A m \in Members :
         WalletTotal(wallet[m]) \in Int /\ WalletTotal(InitialWallet[m]) \in Int
  <2>1. \A w \in Wallets : WalletTotal(w) \in Int
    BY WalletFields DEF WalletTotal
  <2> QED
    BY <1>2, <2>1
<1>4. platform.PLATFORM_SUSPENSE \in Int /\ \A m \in Members : earned[m] \in Nat
  BY DEF TypesInv, TypeOK, WalletTypeOK, Platforms
<1> QED
  BY <1>1, <1>3, <1>4, CreditSums, WalletAssumption

\* The first states.
LEMMA MoneyInitial == Init => MoneyInv
<1> SUFFICES ASSUME Init PROVE MoneyInv
  OBVIOUS
<1>1. \A t \in TopUps : topUp[t].status = "NONE" /\ ~topUp[t].reversed
  BY DEF Init, NoTopUpRow
<1>2. \A m : PendingOf(m) = {} /\ CreditedOf(m) = {}
  BY <1>1 DEF PendingOf, CreditedOf, Credited
<1>3. AllCredited = {}
  BY <1>1 DEF AllCredited, Credited
<1>4. TotalCredit({}) = 0
  BY SumEmpty DEF TotalCredit
<1>5. \A m \in Members : /\ wallet[m] = InitialWallet[m] /\ earned[m] = 0
                         /\ WalletTotal(wallet[m]) \in Int
                         /\ WalletTotal(wallet[m]) <= Capacity
  <2>1. \A w \in Wallets : WalletTotal(w) \in Int
    BY WalletFields DEF WalletTotal
  <2>2. \A m \in Members : InitialWallet[m] \in Wallets /\ ValidProjection(InitialWallet[m])
    BY WalletAssumption
  <2>3. wallet = InitialWallet /\ earned = [m \in Members |-> 0]
    BY DEF Init, WalletInit
  <2> QED
    BY <2>1, <2>2, <2>3 DEF ValidProjection
<1>6. platform.PLATFORM_SUSPENSE = 0 /\ Capacity \in Int
  BY WalletAssumption DEF Init, WalletInit
<1>7. ASSUME NEW m \in Members
      PROVE  /\ WalletTotal(wallet[m])
                   = WalletTotal(InitialWallet[m]) + earned[m] + TotalCredit(CreditedOf(m))
             /\ WalletTotal(wallet[m]) - earned[m] + TotalCredit(PendingOf(m)) <= Capacity
  <2>1. TotalCredit(CreditedOf(m)) = 0 /\ TotalCredit(PendingOf(m)) = 0
    BY <1>2, <1>4
  <2>2. /\ WalletTotal(wallet[m]) = WalletTotal(InitialWallet[m]) /\ earned[m] = 0
        /\ WalletTotal(wallet[m]) \in Int /\ WalletTotal(wallet[m]) <= Capacity
    BY <1>5
  <2> QED
    BY <1>6, <2>1, <2>2
<1>8. platform.PLATFORM_SUSPENSE = -TotalCredit(AllCredited)
  BY <1>3, <1>4, <1>6
<1>9. CreditedOnce
  BY <1>7, <1>8 DEF CreditedOnce, CreditedOf, AllCredited
<1>10. OwnRequestsFit
  BY <1>7 DEF OwnRequestsFit, PendingCredit, PendingOf
<1> QED
  BY <1>1, <1>9, <1>10 DEF MoneyInv, RowOpened

\* Every step keeps every satang accounted for and the room promised once.
LEMMA MoneyStays ==
    ASSUME TypesInv, TypesInv', MoneyInv, MoneyGoes
    PROVE  MoneyInv'
<1> DEFINE Total(m)   == WalletTotal(wallet[m])
           Pending(m) == TotalCredit(PendingOf(m))
           Paids(m)   == TotalCredit(CreditedOf(m))
           Suspense   == platform.PLATFORM_SUSPENSE
           AllPaid    == TotalCredit(AllCredited)
           Start(m)   == WalletTotal(InitialWallet[m])
           Kept(m)    ==
              /\ WalletTotal(wallet'[m]) = Start(m) + earned'[m] + TotalCredit(CreditedOf(m)')
              /\ WalletTotal(wallet'[m]) - earned'[m] + TotalCredit(PendingOf(m)') <= Capacity
           KeptAll    == platform'.PLATFORM_SUSPENSE = -TotalCredit(AllCredited')
<1>1. /\ \A m \in Members : Total(m) = Start(m) + earned[m] + Paids(m)
      /\ Suspense = -AllPaid
      /\ \A m \in Members : Total(m) - earned[m] + Pending(m) <= Capacity
  BY DEF MoneyInv, CreditedOnce, OwnRequestsFit, PendingCredit, PendingOf, CreditedOf,
         AllCredited
<1>2. /\ \A m \in Members : /\ Total(m) \in Int /\ Start(m) \in Int /\ earned[m] \in Nat
                            /\ Pending(m) \in Int /\ Paids(m) \in Int
      /\ Suspense \in Int /\ AllPaid \in Int /\ Capacity \in Int
  BY MoneyTyped
<1>3. ASSUME \A t \in TopUps : RowOpened(t)', \A m \in Members : Kept(m), KeptAll
      PROVE  MoneyInv'
  <2>1. CreditedOnce'
    BY <1>3 DEF CreditedOnce, CreditedOf, AllCredited
  <2>2. OwnRequestsFit'
    BY <1>3 DEF OwnRequestsFit, PendingCredit, PendingOf
  <2> QED
    BY <1>3, <2>1, <2>2 DEF MoneyInv
<1>4. \A t \in TopUps : /\ Credit(t) \in Nat /\ Owner(t) \in Members /\ topUp[t] \in TopUpRows
                        /\ RowOpened(t)
  BY TermsTypes DEF TypesInv, TypeOK, MoneyInv
<1>5. \A t \in TopUps : quote[t] = "CONSUMED" => quote'[t] = "CONSUMED"
  BY DEF MoneyGoes
<1>6. ASSUME NEW t \in TopUps, SameState(t) PROVE RowOpened(t)'
  BY <1>4, <1>5, <1>6 DEF SameState, RowOpened
<1>7. ASSUME \A t \in TopUps : SameState(t)
      PROVE  /\ \A m : PendingOf(m)' = PendingOf(m) /\ CreditedOf(m)' = CreditedOf(m)
             /\ AllCredited' = AllCredited
  BY <1>7, SetsStay
<1>8. ASSUME earned' = earned, \A t \in TopUps : SameState(t), PostsNothing PROVE MoneyInv'
  <2>1. ASSUME NEW m \in Members PROVE Kept(m)
    BY <1>1, <1>2, <1>7, <1>8 DEF PostsNothing, SameTotals
  <2>2. KeptAll
    BY <1>1, <1>7, <1>8 DEF PostsNothing
  <2> HIDE DEF Kept, KeptAll
  <2> QED
    BY <1>3, <1>6, <1>8, <2>1, <2>2
<1>9. ASSUME NEW m \in Members, NEW n \in Nat, Earns(m, n) PROVE MoneyInv'
  <2>1. ASSUME NEW x \in Members PROVE Kept(x)
    <3>1. /\ WalletTotal(wallet'[x]) = Total(x) + (IF x = m THEN n ELSE 0)
          /\ earned'[x] = earned[x] + (IF x = m THEN n ELSE 0)
          /\ PendingOf(x)' = PendingOf(x) /\ CreditedOf(x)' = CreditedOf(x)
      BY <1>7, <1>9 DEF Earns
    <3>2. /\ Total(x) = Start(x) + earned[x] + Paids(x)
          /\ Total(x) - earned[x] + Pending(x) <= Capacity
          /\ Total(x) \in Int /\ Start(x) \in Int /\ earned[x] \in Nat
          /\ Pending(x) \in Int /\ Paids(x) \in Int
      BY <1>1, <1>2
    <3> QED
      BY <1>2, <3>1, <3>2
  <2>2. KeptAll
    BY <1>1, <1>7, <1>9 DEF Earns
  <2>3. \A t \in TopUps : SameState(t)
    BY <1>9 DEF Earns
  <2> HIDE DEF Kept, KeptAll
  <2> QED
    BY <1>3, <1>6, <2>1, <2>2, <2>3
<1>10. ASSUME NEW t \in TopUps, \A u \in TopUps \ {t} : SameState(u), earned' = earned,
              topUp[t].status \in {"NONE", "PENDING", "PAID"},
              RowOpened(t)', NEW n \in Int, Posts(t, n),
              TotalCredit(CreditedOf(Owner(t))') = Paids(Owner(t)) + n,
              TotalCredit(AllCredited') = AllPaid + n,
              WalletTotal(wallet'[Owner(t)]) - earned[Owner(t)]
                  + TotalCredit(PendingOf(Owner(t))') <= Capacity
       PROVE  MoneyInv'
  <2>1. ASSUME NEW x \in Members PROVE Kept(x)
    <3>1. WalletTotal(wallet'[x]) = Total(x) + (IF x = Owner(t) THEN n ELSE 0)
      BY <1>10 DEF Posts
    <3>2. /\ Total(x) = Start(x) + earned[x] + Paids(x)
          /\ Total(x) - earned[x] + Pending(x) <= Capacity
          /\ Total(x) \in Int /\ Start(x) \in Int /\ earned[x] \in Nat
          /\ Pending(x) \in Int /\ Paids(x) \in Int
      BY <1>1, <1>2
    <3>3. CASE x = Owner(t)
      <4>1. /\ TotalCredit(CreditedOf(x)') = Paids(x) + n
            /\ WalletTotal(wallet'[x]) - earned[x] + TotalCredit(PendingOf(x)') <= Capacity
        BY <1>10, <3>3
      <4> QED
        BY <1>10, <3>1, <3>2, <3>3, <4>1
    <3>4. CASE x # Owner(t)
      <4>1. PendingOf(x)' = PendingOf(x) /\ CreditedOf(x)' = CreditedOf(x)
        BY <1>10, <3>4, SetsGo
      <4> QED
        BY <1>10, <3>1, <3>2, <3>4, <4>1
    <3> QED
      BY <3>3, <3>4
  <2>2. KeptAll
    BY <1>1, <1>2, <1>10 DEF Posts
  <2>3. ASSUME NEW u \in TopUps PROVE RowOpened(u)'
    BY <1>6, <1>10, <2>3
  <2> HIDE DEF Kept, KeptAll
  <2> QED
    BY <1>3, <2>1, <2>2, <2>3
<1>11. ASSUME PostsNothing, NEW t \in TopUps PROVE Posts(t, 0)
  BY <1>2, <1>11 DEF PostsNothing, SameTotals, Posts
<1>12. ASSUME NEW t \in TopUps, earned' = earned, Settles(t) PROVE MoneyInv'
  <2> DEFINE m == Owner(t)
             c == Credit(t)
  <2>0. /\ m \in Members /\ c \in Int /\ c >= 0 /\ RowOpened(t)
        /\ PendingOf(m) \subseteq TopUps /\ CreditedOf(m) \subseteq TopUps
        /\ AllCredited \subseteq TopUps
    BY <1>4 DEF PendingOf, CreditedOf, AllCredited
  <2>1. CASE (\A u \in TopUps : SameState(u)) /\ PostsNothing
    BY <1>8, <1>12, <2>1
  <2>2. ASSUME Turns(t, "PENDING", {"EXPIRED", "FAILED"}),
               topUp'[t].reversed = topUp[t].reversed, PostsNothing
        PROVE  MoneyInv'
    <3>1. /\ \A u \in TopUps \ {t} : SameState(u)
          /\ topUp[t].status = "PENDING" /\ topUp'[t].status \in {"EXPIRED", "FAILED"}
      BY <2>2 DEF Turns
    <3>2. ~Credited(t) /\ ~Credited(t)' /\ t \in PendingOf(m)
      BY <3>1 DEF Credited, PendingOf
    <3>3. /\ PendingOf(m)' = PendingOf(m) \ {t}
          /\ CreditedOf(m)' = CreditedOf(m) \ {t} /\ AllCredited' = AllCredited \ {t}
      BY <3>1, <3>2, SetsGo
    <3>4. CreditedOf(m) \ {t} = CreditedOf(m) /\ AllCredited \ {t} = AllCredited
      BY <3>2 DEF CreditedOf, AllCredited
    <3>5. TotalCredit(PendingOf(m)') = Pending(m) - c
      BY <2>0, <3>2, <3>3, CreditSums
    <3>6. RowOpened(t)'
      BY <1>5, <2>0, <2>2, <3>1 DEF RowOpened
    <3>7. Posts(t, 0)
      BY <1>11, <2>2
    <3>8. WalletTotal(wallet'[m]) = Total(m)
      BY <2>0, <2>2 DEF PostsNothing, SameTotals
    <3>9. WalletTotal(wallet'[m]) - earned[m] + TotalCredit(PendingOf(m)') <= Capacity
      <4>1. /\ Total(m) - earned[m] + Pending(m) <= Capacity
            /\ Total(m) \in Int /\ earned[m] \in Int /\ Pending(m) \in Int
        BY <1>1, <1>2, <2>0
      <4> QED
        BY <1>2, <2>0, <3>5, <3>8, <4>1
    <3>10. TotalCredit(CreditedOf(m)') = Paids(m) + 0 /\ TotalCredit(AllCredited') = AllPaid + 0
      BY <1>2, <2>0, <3>3, <3>4
    <3> QED
      BY <1>10, <1>12, <3>1, <3>6, <3>7, <3>9, <3>10
  <2>3. ASSUME Turns(t, "PENDING", {"PAID"}), topUp'[t].reversed = topUp[t].reversed,
               Posts(t, c)
        PROVE  MoneyInv'
    <3>1. /\ \A u \in TopUps \ {t} : SameState(u)
          /\ topUp[t].status = "PENDING" /\ topUp'[t].status = "PAID"
          /\ ~topUp[t].reversed
      BY <2>0, <2>3 DEF Turns, RowOpened
    <3>2. ~Credited(t) /\ Credited(t)' /\ t \in PendingOf(m)
      BY <2>3, <3>1 DEF Credited, PendingOf
    <3>3. /\ PendingOf(m)' = PendingOf(m) \ {t}
          /\ CreditedOf(m)' = CreditedOf(m) \union {t} /\ AllCredited' = AllCredited \union {t}
      BY <3>1, <3>2, SetsGo
    <3>4. t \notin CreditedOf(m) /\ t \notin AllCredited
      BY <3>2 DEF CreditedOf, AllCredited
    <3>5. TotalCredit(PendingOf(m)') = Pending(m) - c
      BY <2>0, <3>2, <3>3, CreditSums
    <3>6. TotalCredit(CreditedOf(m)') = Paids(m) + c /\ TotalCredit(AllCredited') = AllPaid + c
      BY <2>0, <3>3, <3>4, CreditSums
    <3>7. RowOpened(t)'
      BY <1>5, <2>0, <3>1 DEF RowOpened
    <3>8. WalletTotal(wallet'[m]) - earned[m] + TotalCredit(PendingOf(m)') <= Capacity
      <4>1. WalletTotal(wallet'[m]) = Total(m) + c
        BY <2>0, <2>3 DEF Posts
      <4>2. /\ Total(m) - earned[m] + Pending(m) <= Capacity
            /\ Total(m) \in Int /\ earned[m] \in Int /\ Pending(m) \in Int
        BY <1>1, <1>2, <2>0
      <4> QED
        BY <1>2, <2>0, <3>5, <4>1, <4>2
    <3> QED
      BY <1>10, <1>12, <2>0, <2>3, <3>1, <3>6, <3>7, <3>8
  <2>4. ASSUME Turns(t, "PAID", {"PAID"}), ~topUp[t].reversed, topUp'[t].reversed,
               Posts(t, -c)
        PROVE  MoneyInv'
    <3>1. /\ \A u \in TopUps \ {t} : SameState(u)
          /\ topUp[t].status = "PAID" /\ topUp'[t].status = "PAID"
      BY <2>4 DEF Turns
    <3>2. Credited(t) /\ ~Credited(t)' /\ t \notin PendingOf(m)
      BY <2>4, <3>1 DEF Credited, PendingOf
    <3>3. /\ PendingOf(m)' = PendingOf(m) \ {t}
          /\ CreditedOf(m)' = CreditedOf(m) \ {t} /\ AllCredited' = AllCredited \ {t}
      BY <3>1, <3>2, SetsGo
    <3>4. t \in CreditedOf(m) /\ t \in AllCredited /\ PendingOf(m) \ {t} = PendingOf(m)
      BY <3>2 DEF CreditedOf, AllCredited
    <3>5. /\ TotalCredit(CreditedOf(m)') = Paids(m) - c
          /\ TotalCredit(AllCredited') = AllPaid - c
      BY <2>0, <3>3, <3>4, CreditSums
    <3>6. /\ TotalCredit(CreditedOf(m)') = Paids(m) + (-c)
          /\ TotalCredit(AllCredited') = AllPaid + (-c) /\ -c \in Int
      BY <1>2, <2>0, <3>5
    <3>7. RowOpened(t)'
      BY <1>5, <2>0, <3>1 DEF RowOpened
    <3>8. WalletTotal(wallet'[m]) - earned[m] + TotalCredit(PendingOf(m)') <= Capacity
      <4>1. WalletTotal(wallet'[m]) = Total(m) + (-c)
        BY <2>0, <2>4 DEF Posts
      <4>2. /\ Total(m) - earned[m] + Pending(m) <= Capacity
            /\ Total(m) \in Int /\ earned[m] \in Int /\ Pending(m) \in Int
        BY <1>1, <1>2, <2>0
      <4>3. TotalCredit(PendingOf(m)') = Pending(m)
        BY <3>3, <3>4
      <4> QED
        BY <1>2, <2>0, <4>1, <4>2, <4>3
    <3> QED
      BY <1>10, <1>12, <2>4, <3>1, <3>6, <3>7, <3>8
  <2> QED
    BY <1>12, <2>1, <2>2, <2>3, <2>4 DEF Settles
<1>13. ASSUME NEW t \in TopUps, earned' = earned, Opens(t) PROVE MoneyInv'
  <2> DEFINE m == Owner(t)
             c == Credit(t)
  <2>0. /\ m \in Members /\ c \in Int /\ c >= 0 /\ RowOpened(t)
        /\ PendingOf(m) \subseteq TopUps /\ CreditedOf(m) \subseteq TopUps
        /\ AllCredited \subseteq TopUps
    BY <1>4 DEF PendingOf, CreditedOf, AllCredited
  <2>1. /\ \A u \in TopUps \ {t} : SameState(u)
        /\ topUp[t].status = "NONE" /\ topUp'[t].status = "PENDING"
        /\ ~topUp[t].reversed /\ ~topUp'[t].reversed
        /\ quote'[t] = "CONSUMED" /\ PostsNothing
        /\ Total(m) + Pending(m) + c <= Capacity
    BY <1>13, <2>0 DEF Opens, Turns, RowOpened, HasRoom, PendingCredit, PendingOf
  <2>2. ~Credited(t) /\ ~Credited(t)' /\ t \notin PendingOf(m)
    BY <2>1 DEF Credited, PendingOf
  <2>3. /\ PendingOf(m)' = PendingOf(m) \union {t}
        /\ CreditedOf(m)' = CreditedOf(m) \ {t} /\ AllCredited' = AllCredited \ {t}
    BY <2>1, <2>2, SetsGo
  <2>4. CreditedOf(m) \ {t} = CreditedOf(m) /\ AllCredited \ {t} = AllCredited
    BY <2>2 DEF CreditedOf, AllCredited
  <2>5. TotalCredit(PendingOf(m)') = Pending(m) + c
    BY <2>0, <2>2, <2>3, CreditSums
  <2>6. RowOpened(t)'
    BY <2>1 DEF RowOpened
  <2>7. WalletTotal(wallet'[m]) - earned[m] + TotalCredit(PendingOf(m)') <= Capacity
    <3>1. WalletTotal(wallet'[m]) = Total(m)
      BY <2>0, <2>1 DEF PostsNothing, SameTotals
    <3>2. Total(m) \in Int /\ earned[m] \in Nat /\ Pending(m) \in Int
      BY <1>2, <2>0
    <3> QED
      BY <1>2, <2>0, <2>1, <2>5, <3>1, <3>2
  <2>8. TotalCredit(CreditedOf(m)') = Paids(m) + 0 /\ TotalCredit(AllCredited') = AllPaid + 0
    <3>1. TotalCredit(CreditedOf(m)') = Paids(m) /\ TotalCredit(AllCredited') = AllPaid
      BY <2>3, <2>4
    <3>2. Paids(m) \in Int /\ AllPaid \in Int
      BY <1>2, <2>0
    <3> QED
      BY <3>1, <3>2
  <2>9. Posts(t, 0)
    BY <1>11, <2>1
  <2> QED
    BY <1>10, <1>13, <2>1, <2>6, <2>7, <2>8, <2>9
<1> QED
  BY <1>8, <1>9, <1>12, <1>13 DEF MoneyGoes

\* The inductive invariant holds in every reachable state.
LEMMA MoneyAlways == Spec => []MoneyInv
<1>1. Init => TypesInv /\ MoneyInv
  BY InitTyped, MoneyInitial
<1>2. TypesInv /\ MoneyInv /\ [Next]_vars => TypesInv' /\ MoneyInv'
  BY NextTyped, NextMoney, MoneyStays
<1> QED
  BY <1>1, <1>2, PTL DEF Spec

\* Every satang of every Wallet is accounted for: a Top-up is credited once and
\* its credit is taken back once, whatever the events, the reconciliations, the
\* retries and the crashes, and whether or not a refund fails.
THEOREM CreditSafe == Spec => []CreditedOnce
<1>1. MoneyInv => CreditedOnce
  BY DEF MoneyInv
<1> QED
  BY <1>1, MoneyAlways, PTL

\* No room of a Wallet is promised to two Top-ups of its owner.
THEOREM RoomSafe == Spec => []OwnRequestsFit
<1>1. MoneyInv => OwnRequestsFit
  BY DEF MoneyInv
<1> QED
  BY <1>1, MoneyAlways, PTL
=============================================================================
