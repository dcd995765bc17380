\* a server, loc_init and loc_agps_init are enough
CONSTANTS
    Devices <- MCDevices
    Hosts = {"host"}
    LongHosts = {}
    MaxTries = 1
    MaxInputs = 3
    MaxCrashes = 0
SPECIFICATION Spec
INVARIANTS EarlyServerReachesModem
CHECK_DEADLOCK FALSE
