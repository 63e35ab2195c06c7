CONSTANTS
    PushDevices = {d1}  Serials = {n1}  Unbound = Unbound  maxPerDevice = 2
    MaxPushOps = 2  MaxPushStarts = 3  MaxPushFaults = 1
    SdkTerminals = {d1}  MaxDoors = 1  MaxSdkFaults = 1
    Width = 2  Loopback = 0  PublicAddresses = {3}  Written = {1, 3}  Limit = 2  Minute = 2  MaxRequests = 4
    Edited = {"lanEvents", "timeSync", "intervals"}  Added = {t1}  RestartCount = 1  MaxCommands = 3  MaxMishaps = 2
    Texts <- SmallTexts  MaxBuffer = 4  KeepTail = 1  KeepAlives <- KeepAliveSets  MaxConnections = 1
    RowIds = {"r1", "r2"}  Ports = {1, 2}  MaxEntries = 2  MaxChanges = 1
SPECIFICATION BridgeSpec
INVARIANTS
    PushAcksAreReal DoorsWereOperated InboundFollowsTheFiles
    SettingsReachTheService ChunkingIsInvisible CheckedBridgeStarts
CHECK_DEADLOCK FALSE
