\* three calls or reports and one crash: a setting is made before, while and
\* after the modem is down, and a second loc_init follows a failed one
CONSTANTS
    Devices <- MCDevices
    Hosts = {"host", "long"}
    LongHosts = {"long"}
    MaxTries = 2
    MaxInputs = 3
    MaxCrashes = 1
SPECIFICATION FairSpec
INVARIANTS ConfigRestored SettingsInForce ConfigIsTheFiles OneRoute
PROPERTIES InitReturns
CHECK_DEADLOCK FALSE
