\* wifi_nif: one subscriber at a time, closed in two steps
CONSTANTS
    Subscribers = {quipc, msapm}
    WaitForClose = {quipc, msapm}
    EnforceSingle = TRUE
    DroppedOnRestart = FALSE
    MaxRequests = 4
    MaxReplies = 4
SPECIFICATION FairSpec
INVARIANTS ClientsAgree ReleasingOnlyInactive ClosingIsServed
PROPERTIES EveryCloseCompletes
