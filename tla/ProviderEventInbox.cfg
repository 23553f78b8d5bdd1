SPECIFICATION FairInboxSpec
CONSTANTS
    NoEvent = NoEvent
    Events = {e1, r1}
    Webhooks = {e1}
    Refused = {r1}
    Processors = {p1, p2, p3}
    MaxAttempts = 2
    BatchLimit = 1
    MaxCrashes = 1
INVARIANTS AppliedOnce NoneStranded
PROPERTIES SettledWithTraffic
