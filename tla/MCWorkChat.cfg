SPECIFICATION Spec
CONSTANTS
    h = h
    w1 = w1
    w2 = w2
    Hirer = h
    Workers = {w1, w2}
    Headcount = 2
    ClientKeys = {1}
    MaxMessages = 2
    Filer = w1
    Reported = h
    RequestKeys = {1}
    CaseMessage <- MCCaseMessage
    Rows = {1, 2, 3}
    MaxPlace = 2
    MicrosPerMilli = 2
    MaxLimit = 2
    MaxChanges = 2
INVARIANTS
    InquiriesEndWithSelection
    ChatFollowsRoster
    SentOnce
    LinksAreRecorded
    WalkComplete
PROPERTIES
    LeaversReadNothingNew
CHECK_DEADLOCK FALSE
