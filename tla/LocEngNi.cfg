\* three requests and a restart: threads of older requests are still running
CONSTANTS
    MaxRequests = 3
    MaxRestarts = 1
    MaxResponses = 1
SPECIFICATION FairSpec
INVARIANTS RequestIsWatched AnsweredOnce NoRequestLost
PROPERTIES BusyEnds
CHECK_DEADLOCK FALSE
