\* agnss_nif / internet_nif: several subscribers, list dropped on modem restart
CONSTANTS
    Subscribers = {a1, a2, a3}
    WaitForClose = {}
    EnforceSingle = FALSE
    DroppedOnRestart = TRUE
    MaxRequests = 3
    MaxReplies = 3
SPECIFICATION FairSpec
INVARIANTS TypeOK ReleasedIsEmpty GrantIsReal PendingIsServed
PROPERTIES EveryRequestAnswered
