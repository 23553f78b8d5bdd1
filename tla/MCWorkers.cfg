SPECIFICATION WorkersSpec
CONSTANTS
    Quests = {1, 2, 3}
    Processes = {p1, p2}
    BatchLimit = 1
    MaxCrashes = 1
    a = a
    sweeper = p1
    Owners = {a}
    NoOwner = none
    Devices = {d1, d2}
    Alerts = {1, 2}
    Recipient <- MCRecipient
    Underfilled = {1}
    Senders = {p1, p2}
    MaxAttempts = 2
    SendBatch = 1
    MaxDeviceChanges = 3
    MaxSenderCrashes = 1
CHECK_DEADLOCK FALSE
INVARIANTS
    DoneOnce
    RepeatedOnlyForCause
PROPERTIES
    DueWorkIsDone
