\* two receivers and four messages: signals can be spent on the wrong receiver
CONSTANTS
    Receivers = {r1, r2}
    MaxMsgs = 4
SPECIFICATION FairSpec
INVARIANTS EveryMessageHasAWaker UnblockedNobodyWaits OldestFirst FreedStaysGone
PROPERTIES EveryMessageTaken UnblockReleasesWaiters
