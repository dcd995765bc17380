\* three queued messages and two crashes: reports of a dead session are still
\* queued when the next one starts
CONSTANTS
    AcceptIntermediate = TRUE
    MaxQueue = 3
    MaxRestarts = 2
SPECIFICATION FairSpec
INVARIANTS PeriodicSessionAgrees NavigatingWasTold EngineStatusCatchesUp
PROPERTIES CrashIsRecovered
