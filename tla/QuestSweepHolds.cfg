SPECIFICATION Spec
CONSTANTS
    Quests = {q1, q2}
    Processes = {p1}
    BatchLimit = 1
    MaxCrashes = 0
CHECK_DEADLOCK FALSE
PROPERTIES
    EveryHoldReleased
