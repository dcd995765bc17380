CONSTANTS
    MaxRequests = 1
    MaxRestarts = 1
    MaxResponses = 0
SPECIFICATION Spec
INVARIANT FreedNeverSent
CHECK_DEADLOCK FALSE
