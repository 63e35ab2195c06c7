CONSTANTS
    MaxTaps = 3  Unstamped = {2}  BufferLimit = 2  FlushCount = 2  PostSize = 2  Retries = 1
    Scans = {s1}  MaxPipeFaults = 1
    Terminals = {d1}  Agents = {a1}  Controllers = {}  Nil = Nil  OfflineAge = 2
    MaxRegistryEvents = 2  MaxOutages = 1
    Flows = {f1, f2}  GateCards = {1}  GatePage = 1  Capacity = 1
    DeltaMax = 2  Overlap = 1  ClockBase = 5  DoorOpen = 2  CardCooldown = 1  ExitDebounce = 1
    PinMaxAttempts = 2  PinWindow = 2  PinLockout = 3  PinEnd = 2  Passes = {v1}  MaxVisitors = 1
    PruneAge = 1  RingSize = 2  BatchSize = 1  MaxGateTime = 4  MaxGateInputs = 2  MaxGateFaults = 1
    Employees = {e1}  Pullers = {p1}  Syncers = {q1, q2}  MAX_EVENT_BATCH = 2  MAX_SYNC_USERS = 1
    Lookback = 1  MaxLogged = 3  MaxVersions = 2  MaxTunnelFaults = 1
    ClockTerminals <- TwoTerminals  Firmware <- TwoKinds  Zones <- Abroad  Transition = 1
    MaxNow = 2  MaxErr = 1  MaxDrift = 0  MaxClockFaults = 1
SPECIFICATION EdgeSpec
INVARIANTS
    EveryEventIsAccountedFor TunnelReportsAreTrue
PROPERTIES
    UnwatchedGoesOffline RelayFallsBack ClocksAreKept
CHECK_DEADLOCK FALSE
