CONSTANTS
    Terminals = {d1, d2}  Capable = {d1}  Polls = {p1}  Syncs = {s1}  Removals = {r1}  Captures = {c1}
    MaxRuns = 3  MaxFaults = 1
    AccessDesks = {a1, a2}  CardPolls = {p1, p2}  MaxCardCommands = 2  MaxCardFaults = 1
    ToolPeople = {ann, ben}  ToolCards = {ca, cb}  CardOwner <- Owners  Fingers = {1, 2}  UserIds = {1}
    ann = ann  ben = ben  ca = ca  cb = cb
    NumberBase = 10  Directory <- ByQuery  FailedJobs = {j1}  FirstRows <- Rows
    MaxToolRuns = 2  MaxToolEvents = 2
    MaxTerminalJobs = 2  MaxLostRequests = 1
    Scans = {x1, x2, x3}  Officers = {o1, o2}  VisitTimes = 1  MaxDeaths = 1
    Cards = {1, 2}  Refreshers = {q1, q2}  ShortLived = {2}  LifeEnd = 1  SnapshotPage = 1  CooldownTime = 1
    MaxKeys = 2  MaxVerifyTime = 1  MaxCardChanges = 2  MaxSyncFaults = 1
    Flows = {f1, f2}  GateCards = {1, 2}  SecondCard = 2  GatePage = 1  Capacity = 1
    DeltaMax = 2  Overlap = 1  ClockBase = 5  DoorOpen = 2  CardCooldown = 1  ExitDebounce = 1
    PinMaxAttempts = 2  PinWindow = 2  PinLockout = 3  PinEnd = 2  Passes = {v1}  MaxVisitors = 1
    PruneAge = 1  RingSize = 2  BatchSize = 1  MaxGateTime = 4  MaxGateInputs = 2  MaxGateFaults = 1
SPECIFICATION TerminalsSpec
INVARIANTS
    RemovedIsQueued SyncedIsHeld CommandsAreFaithful FinishedRunsLeaveNothing
    AppliedIsTrue VisitsAreTrue OnlyTheWindowIsMissed NoChangeIsMissed
CHECK_DEADLOCK FALSE
