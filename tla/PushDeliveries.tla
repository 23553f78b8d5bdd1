--------------------------- MODULE PushDeliveries ---------------------------
(***************************************************************************)
(* The outbox of Android push alerts (modules/push).  A command inserts an *)
(* alert within its transaction; every API process looks every fifteen     *)
(* seconds for alerts that are due, claims a batch by moving their next    *)
(* attempt two minutes ahead, sends them to FCM outside any transaction and*)
(* writes the result by the alert's id, whoever holds the alert by then.   *)
(***************************************************************************)
EXTENDS Integers, FiniteSets

CONSTANTS
    Owners,            \* Members with Android devices
    Devices,           \* device tokens, each a row of push_devices once registered
    Alerts,            \* alerts, numbered in the order they are created
    Recipient,         \* the Member an alert is for
    Underfilled,       \* the alerts that announce a state of an underfilled decision
    Senders,           \* API processes
    MaxAttempts,       \* maxDeliveryAttempts
    SendBatch,         \* batchSize
    MaxDeviceChanges, MaxSenderCrashes,   \* bounds
    NoOwner

ASSUME PushAssumption ==
    /\ Alerts \subseteq Nat
    /\ Recipient \in [Alerts -> Owners]
    /\ MaxAttempts \in Nat \ {0} /\ SendBatch \in Nat \ {0}

VARIABLES
    device,            \* push_devices
    alert,             \* push_deliveries
    moved,             \* the decisions that left the state their alert announces
    sending,           \* of each process: the statement it is at, and its claims
    shown,             \* how often FCM took an alert for a device
    causes,            \* how often something kept an attempt from being conclusive
    changes            \* counters of the bounded steps

pushVars == <<device, alert, moved, sending, shown, causes, changes>>

\* LOST: FCM took the alert, and the answer did not arrive.
Answers == {"DELIVERED", "INVALID_DESTINATION", "RETRYABLE_FAILURE", "PERMANENT_FAILURE", "LOST"}

Taken == {"DELIVERED", "LOST"}

Statuses == {"PENDING", "DELIVERED", "FAILED", "DISABLED"}

\* A claimed alert within deliverOne: the attempt it was claimed for, the
\* devices it is sent to, whether one more had an unreadable token; later the
\* devices FCM knows nothing of, and what is to be written.
Claims ==
    [step: {"CHECK"}, attempt: 1 .. MaxAttempts]
    \union [step: {"SEND"}, attempt: 1 .. MaxAttempts, to: SUBSET Devices, unreadable: BOOLEAN]
    \union [step: {"DISABLE_DEVICES"}, invalid: SUBSET Devices, result: Statuses]
    \union [step: {"RECORD"}, result: Statuses]

PushTypeOK ==
    /\ device \in [Devices -> [owner: Owners \union {NoOwner}, enabled: BOOLEAN, readable: BOOLEAN]]
    /\ alert \in [Alerts ->
           [status: {"NONE"} \union Statuses,
            attempts: 0 .. MaxAttempts, next: {"UNSET", "WAITING", "DUE"}]]
    /\ moved \subseteq Underfilled
    /\ \A p \in Senders :
          /\ sending[p].phase \in {"IDLE", "EXPIRE", "CLAIM", "DELIVER"}
          /\ DOMAIN sending[p].claim \subseteq Alerts
          /\ \A n \in DOMAIN sending[p].claim : sending[p].claim[n] \in Claims
    /\ shown \in [Alerts -> [Devices -> Nat]]
    /\ causes \in [Alerts -> 0 .. MaxAttempts - 1]
    /\ changes \in [device: 0 .. MaxDeviceChanges, crash: 0 .. MaxSenderCrashes]

NothingClaimed == [n \in {} |-> 0]
Resting == [phase |-> "IDLE", claim |-> NothingClaimed]

PushInit ==
    /\ device = [d \in Devices |-> [owner |-> NoOwner, enabled |-> FALSE, readable |-> FALSE]]
    /\ alert = [n \in Alerts |-> [status |-> "NONE", attempts |-> 0, next |-> "UNSET"]]
    /\ moved = {}
    /\ sending = [p \in Senders |-> Resting]
    /\ shown = [n \in Alerts |-> [d \in Devices |-> 0]]
    /\ causes = [n \in Alerts |-> 0]
    /\ changes = [device |-> 0, crash |-> 0]

-----------------------------------------------------------------------------
(* Devices *)

DevicesOf(m) == {d \in Devices : device[d].owner = m /\ device[d].enabled}

\* registerAndroidPushDevice: one row per token, taken over by whoever signs in
\* on the device.
RegisterDevice(m, d) ==
    /\ changes.device < MaxDeviceChanges
    /\ changes' = [changes EXCEPT !.device = @ + 1]
    /\ device' = [device EXCEPT ![d] = [owner |-> m, enabled |-> TRUE, readable |-> TRUE]]
    /\ UNCHANGED <<alert, moved, sending, shown, causes>>

\* disableAndroidPushDevice
DisableDevice(d) ==
    /\ changes.device < MaxDeviceChanges
    /\ changes' = [changes EXCEPT !.device = @ + 1]
    /\ device[d].enabled
    /\ device' = [device EXCEPT ![d].enabled = FALSE]
    /\ UNCHANGED <<alert, moved, sending, shown, causes>>

\* A new PUSH_DEVICE_ENCRYPTION_KEY_VERSION: rows of the old one cannot be
\* decrypted until their device registers again.
RotateKey ==
    /\ changes.device < MaxDeviceChanges
    /\ changes' = [changes EXCEPT !.device = @ + 1]
    /\ device' = [d \in Devices |-> [device[d] EXCEPT !.readable = FALSE]]
    /\ UNCHANGED <<alert, moved, sending, shown, causes>>

-----------------------------------------------------------------------------
(* Alerts *)

Queued == [status |-> "PENDING", attempts |-> 0, next |-> "UNSET"]

\* Mutant: an event that happens again overwrites its alert.
EnqueueAgain(n) ==
    /\ \A k \in Alerts : k < n => alert[k].status # "NONE"
    /\ alert' = [alert EXCEPT ![n] = Queued]
    /\ UNCHANGED <<device, moved, sending, shown, causes, changes>>

\* enqueuePushDeliveryInTransaction, which does nothing for a known event key.
Enqueue(n) ==
    /\ alert[n].status = "NONE"
    /\ \A k \in Alerts : k < n => alert[k].status # "NONE"
    /\ alert' = [alert EXCEPT ![n] = Queued]
    /\ UNCHANGED <<device, moved, sending, shown, causes, changes>>

\* The underfilled decision goes on.
DecisionMoves(n) ==
    /\ n \in Underfilled \ moved
    /\ alert[n].status # "NONE"
    /\ moved' = moved \union {n}
    /\ UNCHANGED <<device, alert, sending, shown, causes, changes>>

\* Counted as far as an alert can be repeated.
OneCauseMore(n) == IF causes[n] < MaxAttempts - 1 THEN causes[n] + 1 ELSE causes[n]

Holders(n) == {p \in Senders : n \in DOMAIN sending[p].claim}

\* The next attempt falls due: a retry, or a lease whose sender is still busy.
AttemptFallsDue(n) ==
    /\ alert[n].next = "WAITING"
    /\ alert' = [alert EXCEPT ![n].next = "DUE"]
    /\ causes' = [causes EXCEPT ![n] = IF Holders(n) = {} THEN @ ELSE OneCauseMore(n)]
    /\ UNCHANGED <<device, moved, sending, shown, changes>>

-----------------------------------------------------------------------------
(* One tick of a process: two statements, a claim, and the alerts in parallel *)

Due(n) == alert[n].status = "PENDING" /\ alert[n].next # "WAITING"

Ended(n, status) == [alert[n] EXCEPT !.status = status, !.next = "UNSET"]

\* disableDeliveriesWithoutDevices
DisableDeliveriesWithoutDevices(p) ==
    /\ sending[p].phase = "IDLE"
    /\ alert' = [n \in Alerts |->
                    IF Due(n) /\ DevicesOf(Recipient[n]) = {} THEN Ended(n, "DISABLED") ELSE alert[n]]
    /\ sending' = [sending EXCEPT ![p].phase = "EXPIRE"]
    /\ UNCHANGED <<device, moved, shown, causes, changes>>

\* failExpiredPushDeliveryAttempts
FailExpiredAttempts(p) ==
    /\ sending[p].phase = "EXPIRE"
    /\ alert' = [n \in Alerts |->
                    IF Due(n) /\ alert[n].next = "DUE" /\ alert[n].attempts >= MaxAttempts
                       THEN Ended(n, "FAILED") ELSE alert[n]]
    /\ sending' = [sending EXCEPT ![p].phase = "CLAIM"]
    /\ UNCHANGED <<device, moved, shown, causes, changes>>

\* Mutant: what was claimed once is not claimed again after its lease.
FirstClaims == {n \in Alerts : Due(n) /\ alert[n].next = "UNSET"}

Claimable == {n \in Alerts : Due(n) /\ alert[n].attempts < MaxAttempts}

OldestClaimable == {n \in Claimable : Cardinality({k \in Claimable : k < n}) < SendBatch}

NewClaim(n) == [step |-> "CHECK", attempt |-> alert[n].attempts + 1]

\* claimPendingPushDeliveries
ClaimDeliveries(p) ==
    /\ sending[p].phase = "CLAIM"
    /\ LET batch == OldestClaimable
       IN  /\ alert' = [n \in Alerts |->
                 IF n \in batch THEN [alert[n] EXCEPT !.attempts = @ + 1, !.next = "WAITING"]
                 ELSE alert[n]]
           /\ sending' = [sending EXCEPT ![p] =
                 IF batch = {} THEN Resting
                 ELSE [phase |-> "DELIVER", claim |-> [n \in batch |-> NewClaim(n)]]]
    /\ UNCHANGED <<device, moved, shown, causes, changes>>

-----------------------------------------------------------------------------
(* deliverOne *)

At(p, n, step) == n \in DOMAIN sending[p].claim /\ sending[p].claim[n].step = step

\* What p holds once it is done with n; the tick ends with its last alert.
Without(p, n) ==
    LET rest == DOMAIN sending[p].claim \ {n}
    IN  IF rest = {} THEN Resting
        ELSE [phase |-> "DELIVER", claim |-> [k \in rest |-> sending[p].claim[k]]]

\* updateDelivery: by the id of the row, whatever it has become.
UpdateDelivery(p, n, status) ==
    /\ alert' = [alert EXCEPT ![n].status = status,
                              ![n].next = IF status = "PENDING" THEN "WAITING" ELSE "UNSET"]
    /\ sending' = [sending EXCEPT ![p] = Without(p, n)]

\* The alert is stale, or there is no device to send it to.
NothingToSend(p, n) ==
    /\ At(p, n, "CHECK")
    /\ n \in moved \/ DevicesOf(Recipient[n]) = {}
    /\ UpdateDelivery(p, n, "DISABLED")
    /\ UNCHANGED <<device, moved, shown, causes, changes>>

Becomes(p, n, claim) == sending' = [sending EXCEPT ![p].claim[n] = claim]

\* The devices are read, and their tokens decrypted.
ReadDevices(p, n) ==
    /\ At(p, n, "CHECK")
    /\ n \notin moved
    /\ LET devices == DevicesOf(Recipient[n])
           readable == {d \in devices : device[d].readable}
       IN  /\ devices # {}
           /\ Becomes(p, n, [step |-> "SEND", attempt |-> sending[p].claim[n].attempt,
                             to |-> readable, unreadable |-> readable # devices])
           /\ causes' = [causes EXCEPT ![n] = IF readable # devices THEN OneCauseMore(n) ELSE @]
    /\ UNCHANGED <<device, alert, moved, shown, changes>>

\* Mutant: the alert counts as delivered once every device has taken it.
ResultOfAll(claim, answers) ==
    LET kinds == {answers[d] : d \in claim.to}
        again == claim.attempt < MaxAttempts
    IN  IF claim.unreadable THEN IF again THEN "PENDING" ELSE "FAILED"
        ELSE IF kinds = {"DELIVERED"} THEN "DELIVERED"
        ELSE IF kinds = {"INVALID_DESTINATION"} THEN "DISABLED"
        ELSE IF again THEN "PENDING" ELSE "FAILED"

\* What an attempt makes of its alert.  An unreadable token rejects the whole
\* Promise.all: the answers for the other devices are not looked at.
Result(claim, answers) ==
    LET kinds == {answers[d] : d \in claim.to}
        again == claim.attempt < MaxAttempts
    IN  IF claim.unreadable THEN IF again THEN "PENDING" ELSE "FAILED"
        ELSE IF "DELIVERED" \in kinds THEN "DELIVERED"
        ELSE IF again /\ kinds \intersect {"RETRYABLE_FAILURE", "LOST"} # {} THEN "PENDING"
        ELSE IF kinds = {"INVALID_DESTINATION"} THEN "DISABLED"
        ELSE "FAILED"

\* FCM answers for every device.  (Beside an unreadable token the result may be
\* written before the others are sent: nothing reads what they do.)
SendToDevices(p, n) ==
    /\ At(p, n, "SEND")
    /\ LET claim == sending[p].claim[n]
       IN  \E answers \in [claim.to -> Answers] :
              LET invalid == {d \in claim.to : answers[d] = "INVALID_DESTINATION"}
              IN  /\ shown' = [shown EXCEPT ![n] =
                        [d \in Devices |->
                            IF d \in claim.to /\ answers[d] \in Taken THEN @[d] + 1 ELSE @[d]]]
                  /\ causes' = [causes EXCEPT ![n] =
                        IF \E d \in claim.to : answers[d] = "LOST" THEN OneCauseMore(n) ELSE @]
                  /\ Becomes(p, n,
                        IF invalid = {} \/ claim.unreadable
                           THEN [step |-> "RECORD", result |-> Result(claim, answers)]
                           ELSE [step |-> "DISABLE_DEVICES", invalid |-> invalid,
                                 result |-> Result(claim, answers)])
    /\ UNCHANGED <<device, alert, moved, changes>>

\* disableDevices: by the ids of the rows, also of one registered again since.
DisableInvalidDevices(p, n) ==
    /\ At(p, n, "DISABLE_DEVICES")
    /\ device' = [d \in Devices |->
                     [device[d] EXCEPT !.enabled = @ /\ d \notin sending[p].claim[n].invalid]]
    /\ Becomes(p, n, [step |-> "RECORD", result |-> sending[p].claim[n].result])
    /\ UNCHANGED <<alert, moved, shown, causes, changes>>

RecordResult(p, n) ==
    /\ At(p, n, "RECORD")
    /\ UpdateDelivery(p, n, sending[p].claim[n].result)
    /\ UNCHANGED <<device, moved, shown, causes, changes>>

\* The process dies; the next one starts with nothing in its hands.
SenderCrashes(p) ==
    /\ changes.crash < MaxSenderCrashes
    /\ changes' = [changes EXCEPT !.crash = @ + 1]
    /\ sending[p].phase # "IDLE"
    /\ sending' = [sending EXCEPT ![p] = Resting]
    /\ causes' = [n \in Alerts |-> IF n \in DOMAIN sending[p].claim THEN OneCauseMore(n) ELSE causes[n]]
    /\ UNCHANGED <<device, alert, moved, shown>>

-----------------------------------------------------------------------------
(* Specification *)

\* processPendingPushDeliveries, and setInterval around it.
SenderGoesOn(p) ==
    \/ DisableDeliveriesWithoutDevices(p) \/ FailExpiredAttempts(p) \/ ClaimDeliveries(p)
    \/ \E n \in Alerts :
          \/ NothingToSend(p, n) \/ ReadDevices(p, n) \/ SendToDevices(p, n)
          \/ DisableInvalidDevices(p, n) \/ RecordResult(p, n)

PushNext ==
    \/ \E p \in Senders : SenderGoesOn(p) \/ SenderCrashes(p)
    \/ \E n \in Alerts : Enqueue(n) \/ DecisionMoves(n) \/ AttemptFallsDue(n)
    \/ \E d \in Devices : DisableDevice(d) \/ \E m \in Owners : RegisterDevice(m, d)
    \/ RotateKey

\* The scheduler ticks for ever, a request to FCM is answered or given up by
\* the runtime, and time passes.
PushFairness ==
    /\ \A p \in Senders : WF_pushVars(SenderGoesOn(p))
    /\ \A n \in Alerts : WF_pushVars(AttemptFallsDue(n))

PushSpec == PushInit /\ [][PushNext]_pushVars /\ PushFairness

-----------------------------------------------------------------------------
(* Properties *)

\* A device is shown an alert again only for a cause: an answer that was lost,
\* a sender that died with the alert or outlived its lease, or a device of the
\* same Member whose token cannot be read.  Two processes, retries and results
\* that overwrite one another are no cause.
RepeatedOnlyForCause ==
    \A n \in Alerts, d \in Devices : shown[n][d] <= 1 + causes[n]

\* No alert waits for its next attempt, or for a process that died with it.
OutboxEmpty == \A n \in Alerts : alert[n].status # "PENDING"
=============================================================================
