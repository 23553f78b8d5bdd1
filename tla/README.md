# KUQuest API server: TLA+ verification project

KUQuest is a marketplace for students: a Hirer publishes a *Quest* and puts its
reward aside, Workers do it and are paid, and money enters and leaves the system
through Top-ups and Payouts at a Provider.  The server is a Bun/Elysia process
over one PostgreSQL database and one object store.  Several processes may run at
once and keep nothing in memory between two requests, so the state of the system
is the state of the database (and the bucket), and one step of a model is one
database transaction or one call to a party outside.

This project models the parts where a mistake costs somebody money, work, his
place in a Quest or his files, checks them with TLC on small instances, and
proves their properties, all but liveness, with TLAPS for every value of the
constants.

## 1. Inventory

Paths are relative to the server's `src/modules/`.

| Component | State | Operations | Hard behaviour | What makes it correct | Modules |
|---|---|---|---|---|---|
| **Wallet ledger and projection** (`wallet/wallet.service.ts`) | four balances per Member (SPENDING, FUNDING_RESERVED, EARNINGS, RESERVED_FOR_PAYOUTS), two platform accounts, the Wallet's status | post, convert Earnings, freeze/suspend/close | every other component writes it | no negative balance, capacity respected | `Wallet` |
| **Money commands** (`wallet/wallet.money-command.service.ts`) | one row per (principal, scope, key) | run once, replay | retries beside the first call | a retry never does the work again | in `Funding` |
| **Funding Reservations** (`wallet/wallet.funding.service.ts`) | a row per Reservation, its operations, settlements, dispute settlements | reserve, increase, settle, release, dispute | several Reservations share one balance; disputes before and after the release; policy changes | each row is what its history says; none spends another's escrow | `Funding`, `FundingPromise` |
| **Payouts** (`payout/`) | Quotes, Payouts, submission jobs with leases | quote, confirm, approve, cancel, claim, submit, finalize, outcome | several Workers, lapsed leases, crashes, lost and late answers | the reserve matches the active Payout; no double debit; the ledger follows the Provider | `Payout`, `PayoutPromise` |
| **Provider event inbox** (`payout/` and `top-up/…provider-event.service.ts`) | stored events: status, attempts, lease | receive, claim, apply, fail, give up, retry | duplicates, disorder, stale claims, crashes after the 202 | each outcome takes effect once; none is lost | `ProviderEventInbox` |
| **Top-ups** (`top-up/`) | Quotes, Top-ups, the payment at the Provider | quote, initiate, retry, finalize, outcome, reverse, reconcile | lost answers, events before the answer, a reversal before the payment, room in the Wallet | a paid Top-up is credited once; a row claims nothing the Provider did not do | `TopUp` |
| **Quest lifecycle, v1 and v2** (`quest/v2/core`, `assignment`, `lifecycle`, `proof`, `reward-allocation`, `quest/v1`, `quest/shared`, `quest/settlement`, `quest/admin`) | the Quest row, roster, Proofs, edit request, underfilled decision, reward allocation, Escrow, Dispute Cases | some sixty commands and sweeps | the worker of every process against Hirer, Workers and Admin; an Escrow drawn on from every side | the Escrow holds what is still owed; accepted work is paid as agreed; nothing stays behind | `QuestState`, `QuestRoster`, `QuestWork`, `QuestEdit`, `QuestEnding`, `QuestV1`, composed in `QuestLifecycle` |
| **Lifecycle worker** (`quest/lifecycle`) | lists of due work, each cut at 100 | sweep | several processes, crashes, lists that are old when they are worked through | nothing twice, nothing left | `QuestSweep` |
| **Candidates, teams, selection** (`quest/v2/candidate`, `teams`, `quest/v1/services`, `quest/shared`) | applications, Teams, invitations, rosters of all Quests of a day | apply, form, invite, join, leave, submit, select | two Quests choose one Member; the Team changes before it is selected | one Team each, no double booking, the roster that was submitted | `QuestCandidates`, `QuestRosters` |
| **Command wrapper** (`quest/shared/command`, `quest/admin`) | a row per (Quest, key); row locks | lock, claim the key, work, answer, replay | two devices, retries, lock order | work is done once; Quests never deadlock | `QuestCommands` |
| **Penalties, reviews, reports, Admin decisions** (`admin/`, `quest/v2/review`, `conduct-report`) | append-only Penalty History and its projection, reviews, reports, cases, Admin Actions | strike, remove, restore, decide, sweep ended bans | any order of confirming, removing and restoring; the Wallet that a ban freezes | the ladders are kept; a ban is what the history says | `MemberPenalties`, `QuestReviews`, `Moderation` |
| **Work chat** (`work-chat/`) | Inquiries, the Work Conversation, membership intervals, messages | ask, join, leave, write, hide, read as evidence | roster changes while messages are stored; retries | the chat follows the roster; no message twice; no file without a record | `WorkChat`, `ReportEvidence` |
| **Lists and page cursors** (`shared/cursor.ts`, `shared/keyset-page.ts` and every list) | a cursor at the client | next page | rows that change between pages; milliseconds against microseconds | every row that stays is shown | `PagedLists` |
| **Files** (`shared/object-storage.ts` and five services) | objects in the bucket, rows of `file`, manifests | upload, attach, replace, remove, recover | the bucket is in no transaction; crashes between bucket and database | nothing that is shown is deleted; nothing is forgotten silently | `ObjectStore`, `QuestImages`, `ProofFiles`, `ProfileFiles`, `ChatFiles`, composed in `MemberFiles` |
| **Push notifications** (`push/`) | outbox with leases, devices with encrypted tokens | enqueue, claim, send, record, rotate the key | two senders, lapsed leases, lost answers | repeated only for a cause; nothing stays in the outbox | `PushDeliveries` |
| **Payout Destinations, profile data, live updates, authentication, HTTP shell** | single rows; sessions; cursors | reads and single-row edits | little | – | not modelled (Section 6) |

The flow of money ties them together: a Top-up credits SPENDING; publishing a
Quest moves SPENDING into FUNDING_RESERVED; settlement moves it to a Worker's
EARNINGS and the fee to PLATFORM_REVENUE; conversion turns EARNINGS into
SPENDING; a Payout moves EARNINGS through RESERVED_FOR_PAYOUTS out of the system.
A Quest changes its chat, its alerts and its Escrow inside its own transaction.
The Providers, the bucket and the scheduled workers are the asynchrony, and they
are where the hard behaviour is.

`PROJECT.json` lists every component with its status, and every hazard at the
line where it bites with the properties that would notice it going wrong.

## 2. Plan

1. `Wallet`, `Payout`, `PayoutPromise`.  Done, checked, proved.
2. `Funding`, `FundingPromise`.  Done, checked, proved.
3. `ProviderEventInbox`, and `TopUp` over it and the Wallet.  Done, checked;
   everything but liveness proved.
4. The Quest: `QuestState` to `QuestV1` and `QuestLifecycle`.  Done, checked; all
   six properties proved, one of them under a hypothesis.
5. Rosters over many Quests, the sweep, the commands.  Done, checked; everything
   but liveness proved.
6. Push and chat.  Done, checked, proved.
7. Community, lists, files.  Done, checked, proved.

Open: lock order of the money commands (a hazard without a property); `Funding` as the ledger beneath `QuestLifecycle`.

Every module takes its parameters as CONSTANTS, has one action per operation,
and, where theorems are about it, states what it assumes of its constants as a
named ASSUME and reaches no RECURSIVE operator.

## 3. The modules

A command that holds one row's lock from its first read to its commit is one
action.  Where a command reads before it locks, calls a Provider or the bucket,
or locks rows one by one, it is cut there, and a `pc`, a task or a `step` says
which part comes next.  What makes a command throw (and roll back) is a guard.

### `Wallet`
`wallet[m]` is the projection of a Member's four ledger accounts, `platform` the
balances of PLATFORM_REVENUE and PLATFORM_SUSPENSE, `walletStatus[m]` the
status.  `Posted` is what a sealed ledger transaction makes of one Wallet,
`PostToWallet` and `PostTransfer` add the check of
`deriveWalletProjectionInTransaction`: a posting that fails it rolls its command
back, so the action is not enabled.  `ConvertEarnings` and `ChangeWalletStatus`
run beside every component.

### `Payout`
| Model | Code |
|---|---|
| `quote[q]`, `CreateQuote`, `LapseQuote` | `payment_payout_quotes`; `quotePayout`; its expiry or a retired destination |
| `payout[q]` | `payment_payouts` (named by its unique `quote_id`), its approval entry, its job, and what its settlement posted |
| `PreparePayout`, `ApprovePayout`, `CancelPayout` | `preparePayout`, `approvePayoutInTransaction`, `cancelPayoutInTransaction` |
| `worker[w]`, `SelectCandidate`, `ClaimApprovedPayout`, `CallProvider`, `Finalize…`, `CompleteSubmissionJob` | one run of `processApprovedPayouts` per `w`, cut where its transactions end |
| `LeaseExpires`, `WorkerCrash` | five minutes pass; the process dies and loses what it had not written |
| `gateway`, `reports`, `GatewayMoves`, `GatewayReports` | the Provider: external, only what the adapter relies on |
| `ApplySucceeded`, `ApplyFailure`, `ApplyPending`, `ApplyReversal` | the branches of `applyPayoutOutcomeInTransaction` that write |

`Preparation[q] = "VARIES"` means that two processes need not agree on keys and
configuration.  `ChargesComplete` says that every success report carries the fee
and the tax; the code reads an absent one as zero.  `PayoutPromise` is the
promise to the Member: money is held once, then taken once within the Quote's
limit, or returned; what was taken can come back once.

### `Funding`
| Model | Code |
|---|---|
| `reservation[r]` | the row of `wallet_funding_reservations` and the sums of its settlements (`settled`) and of its dispute settlements before and after the release (`redirected`, `late`) |
| `history` | operations, settlements and dispute settlements under their idempotency keys |
| `policy`, `PolicyTakesEffect` | the effective Money Policy revision; a Reservation keeps the one it was opened under |
| `ReserveSpending`, `IncreaseFundingReservation`, `ReleaseFundingReservation`, `SettleFundingReservation` | the functions of these names |
| `RedirectHeldFunds`, `RedirectReleasedFunds` | the two branches of `settleDisputeCase` |
| `RunOnce` | `runMoneyCommand`: only the inserter of the key row runs the command |

`FundingPromise` is the promise to the Hirer: a Reservation only commits money
until it closes; money leaves his Wallet only as a payment of one Reservation, to
one recipient and the platform, and all payments stay within the commitment.

### `ProviderEventInbox` and `TopUp`
| Model | Code |
|---|---|
| `inbox[e]` | the row of `payment_provider_event_inbox`: status, attempts, whether its lease is over (`stale`), its place in `received_at` order |
| `ReceiveWebhook`, `ReceiveReconciliation` | the webhook controller (store, 202, microtask); the insert of `reconcilePayout` |
| `processor[p]`, `ClaimEvents`, `Apply`, `ApplyFails`, `FindProcessed`, `FindUnclaimed`, `FailClaimedEvent` | one run of `process…ProviderEvents`: the batch, and the ends of `completeClaimedEvent` with the second transaction that writes a failure |
| `LeaseLapses`, `RetryEvent`, `ProcessorCrash` | five minutes; the Admin's retry; a dead process |
| `quote[t]`, `topUp[t]`, `task[s]` | the Top-up's Quote and row; one `initiateTopUp` or `reconcileTopUp`, cut at its transactions and its call |
| `PrepareTopUp`, `RetryTopUp`, `CreatePayment`, `Finalize…` | `prepareTopUp` (new and known key), `createPayment`, the two finalizations |
| `ApplyTopUpOutcome`, `ReversePaidTopUp`, `ApplyEvent`, `InboxStep` | `applyTopUpOutcomeInTransaction` and `completeClaimedEvent` around it, and every other step of the inbox |
| `ReadStatus`, `ApplyStatus` | `reconcileTopUp`, which reads outside its transaction and bypasses the inbox |
| `PaymentMoves`, `Reportable`, `RequestEffects` | the Provider: an outcome is reported once it is true, in any order and repeatedly |

The two services (Payout and Top-up) have the same inbox code, so one module
stands for both.  A processor is not named in the row: the model has no owner of
a claim either.

### The Quest
`QuestState` has the rows every command works on: `quest` (API version, kind,
status, `holdSince`), `assignment`, `rank` and `leader` (the roster), `escrow` and
`ledger` (what the Escrow holds, what each Worker was paid by settlement and by
award) and the clocks: `now`, and `sweepNow`, the time up to which the lifecycle
worker has swept.  `EnterState` is `applyQuestStateTransition`, with its allowed
predecessors; `SettleEscrow`, `ReleaseEscrow` and `ReserveEscrow` are the calls
of `quest-escrow.service.ts`; `EvenShare` and `Rewards` its division of an amount.

| Module | What it models |
|---|---|
| `QuestRoster` | draft, edit, publish, join, select, start of work, and the underfilled decision: Hirer's choice, Workers' consents, both timeouts (`quest-v2.service.ts`, `quest-assignment-v2`, `quest-underfilled-v2`, `quest-start-work`) |
| `QuestWork` | Proofs: draft, send, edit, delete, approve, reject, approve automatically; confirmation without Proof; failure at the due time; the division of a Team's reward (`quest-proof-v2`, `quest-settlement`, `quest-v2-reward-allocation`) |
| `QuestEdit` | the edit request under a roster and its answers (`quest-v2-edit`) |
| `QuestEnding` | cancellation by the Hirer, termination by an Admin, Dispute Cases with their awards, the release of the money hold (`quest-settlement`, `quest-dispute-admin`, `quest-lifecycle.worker`) |
| `QuestV1` | the same rows under the v1 API: SUBMITTED, APPROVED and REWORK, the edit that pauses the Quest until all have agreed, its own completion, failure and cancellation (`quest/v1/services`, `quest-settlement`) |
| `QuestLifecycle` | all of it, and the six properties |
| `QuestSweep` | the lists of `runQuestLifecycleWorker` over many Quests, several processes and crashes: in the order of their queries, with the rows that a query keeps showing although nothing is left to do, and with the loops that end at the first item that throws (`AfterThrow`); what one item does inside its Quest is in `QuestLifecycle` |

The model keeps the two APIs apart, as most services do; the v1 routes that do
not ask for the version are a hazard in `PROJECT.json`.

### Rosters and commands
`QuestCandidates` (v2) and `QuestRosters` (v1) are over the applications, Teams,
invitations and rosters of several Quests.  A command that puts Workers on a
roster is two steps: `Take` has the locks of Quest and Workers and has looked at
the other Quests, `CommitTake` writes (`AbortTake`: it was rolled back).
`slot[q]` are the start and due time of a Quest, `Clashes` says which slots share
time.  They change: by an edit while nobody takes part (`EditTimes`,
`EditOpenTimes`), and by the edit that the roster of a v1 Quest consents to
(`ApplyConsentedTimes`), which looks at no other Quest.  A Quest without a due
time, which v1 allows, is looked at by nobody and locks no Worker.  The history
variable `caught` remembers who was on, or being taken for, two Quests when one
of them got new times.  `QuestCommands` takes the same commands as the database sees them:
locks in the order of the code, the share locks a foreign key takes, the insert of
the Idempotency-Key, replay, deadlock and rollback.

### Community and chat
`MemberPenalties` keeps a Member's append-only records, rebuilds the projection
(`bannedUntil`, `redFlagExpiresAt`) where the code does and reconciles the Wallet
where the code does; `QuestReviews` and `Moderation` are what puts records there.
`WorkChat` counts time in messages stored, because only the order of a roster
change and a message matters; `ReportEvidence` is an Admin reading it.  A Quest
ends in three ways (`EndQuest`): completed, its Workers leave with their windows
open; cancelled, all windows close; failed, only those of the Workers who have
failed do, and the rest stay ACTIVE members of a read-only conversation, which is
not told when their work is decided (`DecideFailedWork`).
`PagedLists` has each of the program's lists as a record (`AdminActivity`,
`QuestBoardV2`, `WorkMessages`, …): by what it is ordered, what its cursor keeps
and how it finds its place again, and how its rows can change.

### Files and push
`ObjectStore` has the bucket, the rows of `file` and one request per upload, cut at
every call to the bucket.  `QuestImages`, `ProofFiles`, `ProfileFiles` and
`ChatFiles` are the flows, `MemberFiles` runs any two of them on one bucket.  A
Proof draft takes uploads, and by their ids any file rows of the Worker that are
not deleted (`LiveFiles`, which is `validateFileIds`), those of other flows
included.
`PushDeliveries` is the outbox: claims move the next attempt ahead, a result is
written by the alert's id.

### Configurations
`MC…` modules give the constants values and, where two components share a run,
put them beside each other as *scenes* that share no variable; a module without an
`MC…` module has its values in the .cfg.  Mutated forms of an action (`…Twice`,
`…Again`, `…Early`, …) stand before the definition they deviate from and are used
by no specification: they show that each property can fail.

## 4. What is checked

| Run | Question | Bounds |
|---|---|---|
| `payout` | Do reserve, Wallet and Provider agree, and is the promise kept? | one Member, two Payouts, two Workers, one crash, a charge above the Quote |
| `payout_submission` | Does an approved Payout leave the Worker's hands? | one Payout, two Workers, one crash, charges within the Quote |
| `funding` | Is a row what its history says, is nobody paid twice, does no Reservation spend another's escrow, is the promise kept? | two Reservations of one Hirer, one key per kind and Reservation, two policies, fees 0 and 1 or rounded up, a recipient one short of capacity, a Wallet frozen and thawed |
| `top_up` | Is every satang accounted for, does the row follow the Provider, has each processed event its effect, do concurrent requests fit? | two Top-ups that compete for one Wallet, one of them paid and reversed by webhooks, one request, one processor, one crash |
| `inbox` | Is an outcome applied once, with its mark; is none stranded; do webhooks that keep coming settle every event? | an event of a webhook, one of a reconciliation that is refused for good, three processors, one event per claim, two attempts, one crash |
| `member_files` | Is nothing deleted that is shown, and nothing forgotten but where the code forgets it? | two requests of any kinds, three objects, two faults |
| `quest` | Does the Escrow hold what is owed, does an ended Quest strand nothing, is accepted work paid as agreed, can a waiting Proof be paid, is a sent Proof reviewed, is an edit agreed by all? | one Quest of each of six kinds and either API, three Workers, reward 11 and fee 2 (neither divides evenly), times 0 to 4, one edit request or one Dispute Case or an Admin |
| `sweep` | Is nothing swept or announced twice, is an alert repeated only for a cause, is due work done? | two Quests, two processes and a crash, or three Quests, awards and one process; batches of one; two alerts or two devices, two senders, two attempts |
| `sweep_holds` | Is every hold released? **violated** | a sweep of its own |
| `candidates` | One Team each, no double booking, selections as submitted; work done once, Quests never deadlocked | two Quests at one time, three Members, two Teams; the same without Teams, with Quests that move between two times or have no due time; five commands of two clients with one key |
| `community` | Do strikes follow their ladders, is a ban what the history says, does it close the Wallet, do decision and record agree? | two Members, a Quest, a case, six records, two weeks |
| `chat` | Does the chat follow the roster, is nothing stored twice, does who left read nothing new, are links recorded, does a walk show every row? | two Workers, two messages, one key each; three rows, two changes, pages of one or two |

*Why these bounds are enough.*  The interesting cases need two actors on one row:
two Workers with one Payout after a lapsed lease, two Reservations of one Wallet,
two Quests that want one Member, two processes with one list; a third adds no new
pair.  Three Workers are the least roster in which some are paid, some are not and
one is left over; three Quests the least of which one waits for a Proof,
another's Proof cannot be paid, and a third is due behind them; three processors
the least in which two stale ones meet a fresh claim.  Amounts are the smallest
that tell the outcomes apart: nothing, part and all of a reserve, one above it,
and a reward that leaves a remainder.  One crash loses any unwritten step.
Where there are theorems, the bounds only matter for what is not proved.

*Fairness.*  `payout_submission` assumes weak fairness of each Worker's next step
(the scheduler ticks every fifteen seconds and a live process goes on) and of the
passing of a lease.  `inbox` assumes it of a processor that has started and of
lapsing leases; that webhooks keep arriving is the premise of
`SettledWithTraffic`, written in the formula, because nothing else looks into the
inbox.  `sweep` assumes that every process is swept again and again
(`quest-lifecycle.scheduler.ts` ticks every ten seconds), that a sender goes on
(a request to FCM is answered or given up by the runtime) and that time passes.
Nothing is assumed of Members, Admins or Providers, and no safety property depends
on fairness.

*Deadlock* is checked for the inbox, which can always receive the next webhook.
Elsewhere the system may rest when everybody is done.

*Type invariants* (`TypeOK`, `StateTypeOK`, …) are stated in every module.  They
are the first theorems of the proof modules and take no room in the runs.

### Finding
`sweep_holds`: `dueMoneyHoldReleaseIds` (`quest-lifecycle.worker.ts:361`) lists the
100 Quests with the oldest hold, released ones included, so that after 100
releases no later hold is released;
`docs/rulebook/admin/admin-dispute-case-contract.md:47` says that the hold
releases "automatically and unconditionally".  `DueWorkIsDone` therefore promises
the release of the oldest holds only.

### Seen while modelling
These are the places where a property had to be stated with an exception, or no
property denies what the code does.  Most are hazards in `PROJECT.json`.

* *Payouts.*  A create response with a debit above the reserve escapes the `try`
  that would park the Payout (`payout.service.ts:990`, no `await`;
  `payout-contract.md:58`), so it is submitted again after every lease.  A process
  that cannot build the request releases the reserve of a Payout that another
  process's request may have had accepted (`payout-contract.md:60`):
  `LedgerFollowsProvider` is checked with one configuration.  A second success
  report rewrites the charges of the row, not of the ledger; a reversal is posted
  in two ledger transactions, the first of which may be refused although their
  sum would do.
* *Inbox.*  No worker sweeps it (`docs/adr/0007` and
  `plan-essential-functions-integration.md:16` ask for one).  A processor that
  lost its claim may dead-letter an event with attempts left.
* *Top-ups.*  After a lost answer, whatever else writes the Provider's reference
  makes the retry return no instructions.  `refund.failed` is normalized like the
  failure of a payment and may end a Top-up before its payment is applied, hence
  the hypothesis `NoRefundFails` of two theorems.
* *Quest.*  An award may take the slot of a Worker whose Proof waits
  (`docs/adr/0024:35` says its payment always falls inside the hold).  A
  settlement that throws ends the sweep's loop of approvals; with
  `OthersStopApproval` the property `WaitingProofIsCovered` is violated, and in
  `QuestSweep` the Proofs sent after one that cannot be paid are not approved.  The
  loop over failures ends in the same way, and its list keeps every Quest past its due time of
  which only a review is missing (`quest-proof-v2.service.ts:2644`): a batch full of
  Quests whose Proofs are stopped like that keeps a late Quest from failing.
  `CaughtUp` excepts the two; the comment at `quest-lifecycle.worker.ts:562` says
  that one failed record does not stop the remaining ones.  A Quest
  that fails while ASSIGNED leaves the Workers who had started ACTIVE.  A pending
  edit stops neither the start of work nor the failure at the due time
  (`quest-condition-contract.md:55`).  A v1 edit may flip the need of a Proof when
  work was sent already, and leave a Quest in which nobody can act; it writes
  history rows without the new value.  An Admin cannot terminate the Quest of a v2
  Candidate Team past OPEN.  Drafts are limited by a count without a lock.  The
  v1 routes do not ask for the version of a Quest.
* *Rosters and commands.*  The new times that the roster of a v1 Quest consents to
  (`quest.service.ts:790`) are compared with no other Quest, so a Worker may come
  to have two Quests at once; `NoDoubleBooking` excepts what such an edit did
  (`caught`).  A Quest without a due time overlaps none
  (`worker-schedule-conflict.service.ts:17`).  FORMING Teams remain after a selection
  (`quest-mode-matrix-contract.md:122`).  Two commands of one Member deadlock over
  his row by the share lock of a foreign key; Quests never do.
* *Work chat.*  A failed Quest leaves Workers ACTIVE in a read-only conversation;
  the decision of their work (`quest-settlement.service.ts:1341`) does not tell the
  chat, so their windows stay open, onto a conversation nobody writes to.
* *Community.*  A ban whose end is rebuilt by a record that is no ban leaves the
  Wallet FROZEN (`admin-member-penalty-contract.md:29`).
* *Lists.*  A walk ends when its boundary row is deleted after it was checked
  (`keyset-page.ts:68`); conversations are re-sorted by milliseconds.
* *Files.*  Objects of an upload whose rejection was stored may be lost
  (`quest-v2.service.ts:1282` against 1344); the removal of an image deletes the
  object before its transaction commits; a rejected edit of a Proof draft leaves
  rows of files whose objects are deleted, and a later draft may name them.  A Proof
  may name files of other flows, which the handoff of the API intends
  (`quest-api-v2-frontend-handoff.md:2525`), but it does not keep them: an avatar
  that is replaced, or an attachment that expires, is gone from the Proof too.
  `NoFileIsLost` is about what was uploaded for the Proof and kept
  (`ProofShown`), and about every other flow whatever a Proof names.
* *Push.*  A device token that cannot be read makes the Member's other devices show
  the alert again (`push.service.ts:306`); a late sender overwrites DELIVERED
  (line 229); staleness is checked before the send only
  (`notification-audit-contract.md:38`).

## 5. What is proved

The theorems hold for every value of the constants that the named assumptions
allow: any number of Members, Workers, Reservations, Top-ups, events, processes
and crashes.  The run beside a theorem checks the same formula on a small
instance.

| Module | Theorem | Formula | Run |
|---|---|---|---|
| `PayoutProofs` | `PayoutTypeSafe` | `TypeOK` | – |
| | `ReserveSafe` | `ReserveMatchesActive` | `payout` |
| | `LedgerSafe` (if `SameConfiguration`) | `LedgerFollowsProvider` | `payout` |
| | `PayoutRefinesPromise` | `KeepsPromise` (refinement of `PayoutPromise`) | `payout` |
| `FundingProofs` | `FundingTypeSafe`, `PaidSafe` | `TypeOK`, `PaidWithinTotal` | – |
| | `HistorySafe` | `RowMatchesHistory` | `funding` |
| | `KeysSafe` | `EachKeyPaysOnce` | `funding` |
| | `EscrowSafe` | `EscrowMatchesWallet` | `funding` |
| | `FundingRefinesPromise` | `KeepsPromise` (refinement of `FundingPromise`) | `funding` |
| `TopUpProofs` | `InboxTypeSafe`, `TopUpTypeSafe` | `InboxTypeOK`, `TypeOK` | – |
| | `AppliedOnceSafe`, `NoneStrandedSafe` | `AppliedOnce`, `NoneStranded` of the inbox alone | `inbox` |
| | `TopUpEventsSafe` | both, of the inbox within the Top-ups | – |
| | `FollowsSafe` (if `NoRefundFails`) | `TopUpFollowsProvider` | `top_up` |
| | `EffectSafe` (if `NoRefundFails`) | `ProcessedTakesEffect` | `top_up` |
| | `CreditSafe` | `CreditedOnce` | `top_up` |
| | `RoomSafe` | `OwnRequestsFit` | `top_up` |
| `QuestProofs` | `QuestTypesSafe` | `Types` | – |
| | `SentProofSafe` | `SentProofIsReviewed` | `quest` |
| | `EditSafe` | `EditAppliedByAll` (action property) | `quest` |
| | `EscrowCoversSafe` | `EscrowCoversSlots` | `quest` |
| | `StrandsNothingSafe` | `EndedQuestStrandsNothing` | `quest` |
| | `PaidAsAgreedSafe` | `PaidAsAgreed` | `quest` |
| | `WaitingSafe` (if `~OthersStopApproval`) | `WaitingProofIsCovered` | `quest` |
| `QuestRosterProofs` | `RosterTypeSafe` | `TypeOK` | – |
| | `OneTeamSafe` | `OneTeamEach` | `candidates` |
| | `NoDoubleBookingSafe` | `NoDoubleBooking` | `candidates` |
| | `SelectionSafe` | `SelectionDecidesAll` | `candidates` |
| | `WorkOnceSafe` | `WorkDoneOnce` | `candidates` |
| | `QuestLocksSafe` | `QuestsNeverDeadlock` | `candidates` |
| | `WalkHolds` | `PagingInv`, the inductive invariant of a walk through a list | – |
| | `WalkCompleteSafe` | `WalkComplete` | `chat` |
| `CommunityProofs` | `DoneOnceSafe` | `DoneOnce` | `sweep` |
| | `RepeatedOnlyForCauseSafe` | `RepeatedOnlyForCause` | `sweep` |
| | `ChatTyped` | `ChatTypeOK` | – |
| | `InquiriesSafe` | `InquiriesEndWithSelection` | `chat` |
| | `RosterFollowedSafe` | `ChatFollowsRoster` | `chat` |
| | `SentOnceSafe` | `SentOnce` | `chat` |
| | `LeaversSafe` | `LeaversReadNothingNew` (action property) | `chat` |
| | `LinksAreRecordedSafe` | `LinksAreRecorded` | `chat` |
| | `StrikesSafe` | `StrikesFollowLadder` | `community` |
| | `ReadingSafe` | `BanIsWhatHistorySays` | `community` |
| | `FreezeSafe` | `BanFreezesWallet` | `community` |
| | `DecisionSafe` | `DecisionMatchesRecord` | `community` |
| | `FilesHold` | `FilesInv`, the inductive invariant of all files | – |
| | `FilesSafe` | `NoFileIsLost` | `member_files` |

`Sums`, and `Wallet` after its definitions, hold lemmas only.

### Assumptions on the constants
Each is a named ASSUME beside its constants, and TLC evaluates it in the runs.

| Assumption | What it says, and why the code justifies it |
|---|---|
| `WalletAssumption` | a capacity, and Wallets that are within it to begin with: `projection_check` of the table |
| `PayoutAssumption` | a Quote has a positive principal, its charges are not negative, and nothing is reserved for Payouts before the first: the CHECKs of the Quote, and the only writers of the column |
| `FundingAssumption` | amounts are positive, fees and policies natural numbers; there are finitely many Reservations, as rows of a table are, so that they have a sum |
| `InboxAssumption`, `TopUpAssumption` | finitely many events and Top-ups; at least one attempt, at least one event in a batch; a Top-up credits a positive amount; every event comes from a webhook |
| `ClockAssumption`, `KindsAssumption`, `DuesAssumption`, `EditAssumption`, `UnderfilledAssumption`, `WorkAssumption` | a Quest starts before it is due, and time goes on after that; windows are natural numbers, kinds are rows of the form the Quest table allows |
| `PricesAssumption` | finitely many Workers; a reward is at least one satang and the fee may be zero (`quest_reward_check`) |
| `HoldAssumption` | an award is no debt; the money hold lasts at least one unit of time, and no less than the window of a review: seven days against one |
| `LimitAssumption` | a batch holds at least one Quest |
| `PushAssumption` | an alert has one recipient, and is tried at least once, in batches of at least one |
| `WorkChatAssumptions`, `EvidenceAssumptions` | the Hirer is none of the Workers, the program none of the Members; there are Workers enough for the Quest; a reported message is of this Quest's chats |
| `PenaltyAssumptions` | a ban and a red flag last at least one unit of time, a month no less than a week; an Admin gives penalties and statuses of the kinds the routes accept |
| `ModerationAssumptions` | the author of a message is a participant of its Quest whose penalties are followed; a case decided before is none of the new ones |
| `PagingAssumptions` | ids are positive numbers in the order of the database, so that none looks like the absence of a cursor; finitely many rows; a millisecond has at least one microsecond, a page at least one row |
| `ScheduleAssumption`, `InvitationAssumption` | sharing time is mutual, and a slot that shares time with any shares it with itself (the others have no due time); an invitation has a life |
| `StoreAssumption` | finitely many objects, as the keys that were ever drawn are; the value that stands for none is no key |
| `CommandAssumption` | a command is of one of the kinds, and names its Workers in a sequence |

Four theorems rest on three hypotheses besides, which are real conditions: without
them the property fails (Section 4, "Seen while modelling").
`SameConfiguration`: all processes build the same request to the Provider.
`NoRefundFails`: the Provider reports no failed refund.  `~OthersStopApproval`:
no Proof of another Quest throws in the sweep's loop of approvals.

### The arguments
*Payouts.*  A worker that computed a request works on a row it read earlier; so
the types alone (`TypeInv`) say which Payout each worker holds.  `RowsAgree` (a row
exists only once its Quote is consumed, only a success is reversed) lets each step
be one of five things to the reserve, and with it the reserve is inductive.
`ProviderAgrees` says of each row, of each report and of each worker what the
Provider did: a row that released its reserve belongs to a request that was
refused, failed or never sent, and a worker that was told so is right.  The
refinement maps a row to its phase, what was taken for it and the Wallet's total;
each step is a step of the promise or changes none of the three.

*Funding.*  `StrongInv` is a statement about each row alone (`RowInv`: what remains
= total − settled − redirected − released, with every part in range, and what was
settled, redirected and paid late is within the total), and `HistorySafe` and the
refinement follow from it.  That the rows of a Hirer add up to his FUNDING_RESERVED
balance, and that a row is the sum of the commands in its history, are sums over
sets that grow (`SumsInv`).

*Sums.*  The module `Sums` proves what the proofs need of `SumFunctionOnSet` and
`MapThenSumSet`: one summand more or less, one that changes, sums of equal, of
added and of constant summands, a partition, even shares with their remainder.
Both are folds over a recursive function on the size of the set, so each lemma
goes by strong induction on the cardinality, with the least counterexample in
place of an induction theorem (which would need an operator as its argument).

*Inbox and Top-ups.*  `InboxInv` adds to the two properties that a processor that
failed knows which event it failed on (`FailureNamed`).  The steps of the Top-ups
are steps of the inbox or leave it alone.  `FollowInv` says of each row, of each task between two of its
transactions and of each event what its payment went through (`RowTrue`,
`TaskTrue`, `EventTrue`): answers come late, so the properties of the rows are not
inductive without what a task still knows.  `MoneyInv` adds that a row
has a status only once its Quote is consumed, and that only a credit is reversed,
so that a credit finds its room in `OwnRequestsFit`.

*The Quest.*  The proof has two layers.  For types, sent Proofs and edits a step
is seen by what it does to the row, the roster and the Proofs (`Goes`), and
`QuestInv` needs that only the Leader of a Team ever sends a Proof and that
nobody is on the roster of a draft.  For money, a step is one of eighteen *moves*
(`Moves`), and `KnownSteps` proves that each action of `Next` is one.  The moves
keep, one after the other:

1. `RosterInv`: an OPEN Quest has fewer Workers than it wants, numbered as they
   came; a complete roster is worth exactly the published pools (`Worth`), be it
   full or an incomplete one whose Workers share; an underfilled decision asks the
   very roster that it found.  Without the numbers the leftover satang of an even
   division could not be accounted for.
2. `LegacyOwned`: of a v1 Quest a Proof belongs to somebody on the roster, and is
   accepted only once work was submitted.
3. `EscrowInv`: `EscrowCoversSlots` with what it needs to be inductive: an Escrow
   that is not ACTIVE is empty, a Quest that has not ended has no hold, no award
   and no release, and a pending allocation belongs to a Team that is done.
4. `PaidInv`, from the same facts: each Worker was paid what he was owed, once.
5. `WaitInv`: a Proof that waits was sent before the hold began and the sweep has
   not passed its review window, or there was no sweep yet.  As the hold is longer
   than the window, the release of the hold comes when nothing waits: its guard
   contradicts the invariant.  That a sweep passes a due Proof only if its
   settlement fails, and that it cannot fail, is the property itself
   (`WaitingCovered`), so the step needs it as well as keeps it.  A share is at
   least one satang (`SlotWorth`), or an Escrow could be closed with a Worker
   unpaid.

*Rosters.*  `RosterInv` there has, beside the types and the two properties, what a
Team in each state looks like and what a selection between its look and its
commit may rely on (`TakingInv`); `LocksInv` is the argument for
`NoDoubleBooking`: whoever is being taken has his row locked, so no second taker
looks at him before the first one commits; an edit of the times either finds
nobody on the roster or records in `caught` whom it finds.

*The commands.*  `QuestsNeverDeadlock` needs no more than the order of the locks
(`KeyAt`): whoever holds a key waits for a Member's row, and whoever holds a Quest
for a key or a Member's row, so a circle without a Member's row cannot close.
`WorkDoneOnce` is not inductive: `ClaimsFresh` adds that a transaction which holds
the entry of the unique index is the only one, and that its key has no row yet,
and `AnswersTrue` that every answer to a v2 command is in its row.

*The sweep.*  `ReportsInv`: what was reported of a Quest is what was done to it.

*Push.*  `PushInv` keeps an account of each alert and device.  What was shown,
with the claims that are not sent yet, is at most the attempts the row has had.
And until the causes have reached their bound, what was shown is at most one more
than the causes, counting a live claim (it may still show the alert, or put it
back) as one, a blind one (a token was unreadable, so it may do both) as two, and
a row that can be claimed without anything having gone wrong as one chance.  Each
step moves a unit from one of these to another or adds a cause.

*The chat.*  `RosterInv` says who is current in the Work Conversation: while the
Quest has not ended, the Workers with an active assignment, and with any of them
the Hirer, who never leaves; when it has ended, the Workers who are still ACTIVE
are members yet.  `WorkMessagesInv`: the conversation is read-only
only after the program's last word, which nothing but the end writes, and no
window of a Member closes later than now.  Time is the number of messages, so
that a leaver reads nothing new follows from `MessagesStay`: old messages keep
their places in every step.

*The community.*  A Penalty History is append-only, so `CommunityInv` is about
its shape (`Shape`): what each row is by itself, and that two rows that stand
differ in their place on a ladder and, unless an Admin gave them, in their source.
What replaced a row has a place only because that row was reversed, which is why
the table's unique indexes never refuse one.  Then `OnLadder`: an entry more is
the last of its ladder and has the result of its place; after a reversal
`Recalculated` replaces every misplaced strike by one of the same place and
source, so that the strikes that stand have the same places as before
(`SameStrikes`), and each now the result of its own.  `Projected` says of the two dates on
the Member's row that they are the latest ends of what stands, or over, and is
kept by time because time only ends bans; `ReviewsKnown` that a strike for an
average belongs to a stored review, and `CasesOK` that a case has a row only once
it is decided, has one as long as it is hidden and none that stands once it is
restored.  The last needs the source of each replacement: a recalculation that
another case causes must not bring back a restored one.

*Files.*  `FilesInv` turns the property round: no row of a flow refers to an object
that a sweep may still delete (`Doomed`: named by a manifest or an expired
attachment) or that a request has in hand (`Holds`: it will attach it or delete
it), and no two requests have one object in hand (`StoreInv`, and `FlowInv` for
each flow).  An object has the prefix of one flow, and a step touches only its
own prefix and objects nobody has used (`OnlyFlow`), so each flow is proved alone.
What a Proof refers to is not inductive, since a new draft may name a file of an
old one; so `FilesInv` speaks of every file row that was kept for a Proof
(`ProofRows`), in a draft or not.
A step of a flow is a move of one request (it starts, it writes an object, it goes
on or ends) or a sweep.  The uploads of images add `ImageInv`, which ties the
command of a key to its request (`UploadOK`, `CommandOK`): as long as the upload
is not decided, the manifest in the command's row names every object the request
holds, which is why only a stored rejection can lose sight of one
(`LostOnlyAfterRejection`).

*Lists.*  `PagingInv` says where a walk stands.  A row that stays (`steady`) and was
not shown yet comes after the boundary of the page, and once its table was read
it is among what was read, or a full page of what was read comes before it
(`NoneMissed`); what was read for a page comes after the boundary, and what was
shown does not (`NoneTwice`).  Rows that move are the difficulty: the boundary of
a list that checks its cursor is the named row as it is now, so it must not move
(`FoundOK`), or, of conversations, only to the front, which passes nothing over.
The lemmas under it are about pages: `FirstOf` takes the first rows of a finite
order, so that a row which does not fit is preceded by a full page (`PageIsBefore`,
by the least counterexample), also of the merge of two tables (`LeftForLater`).

### What is only checked
* Liveness (`SubmissionEnds`, `SettledWithTraffic`, `DueWorkIsDone`): the prover
  has no rule for ENABLED.
* `EveryHoldReleased`, which is false.
* That the constants of a run stand for the real ones (Section 4).

## 6. What is left out

*Abstracted everywhere*: wording, layout, logging, pagination sizes beyond the
bound, request hashes and canonical JSON (two requests with one key are the same
request), encryption and masking, authentication and authorisation of the caller
(an actor is who he says he is), reads that write nothing.  Money is a whole number
without a width: every amount is bounded by the Wallet's capacity or by a Quest's pool.

*Money*: the order in which commands lock ledger accounts, Wallets and
Reservations (a hazard without a property); `ensureWallet`, which creates an empty
Wallet on first use; the wrapper around the Admin's approval and cancellation of a
Payout; saving and retiring a Payout Destination (a Quote names its own); the
Provider's OAuth token cache; the purge of raw payloads.

*Quest*: replacing a Candidate Team's composition by `updateQuestV2CandidateTeam`
and by v1's `updateTeam`;
the sweep that marks invitations expired (an expired invitation is already refused
where it is used); the seeding of tags; the v1 routes when they are called on v2
Quests (a hazard without a property).

*Community, chat, push*: read cursors of a chat, the live update stream, a push
configuration without credentials (the outbox is then left alone), the Admin's
lists, profile fields, university data.

*HTTP shell, plugins, OpenAPI, test bench, scripts and seeds*: no state of their
own.  Each of these parts is a component in `PROJECT.json` with the reason.
