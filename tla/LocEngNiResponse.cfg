CONSTANTS
    MaxRequests = 2
    MaxRestarts = 0
    MaxResponses = 1
SPECIFICATION Spec
INVARIANT ResponseMatchesRequest
CHECK_DEADLOCK FALSE
