SPECIFICATION Spec
CONSTANTS
    d1 = d1
    d2 = d2
    p1 = p1
    p2 = p2
    Devices = {d1,d2}
    Polls = {p1}
    Serves <- OneLinked
    Decisions = {"in"}
    SyncRuns = {"issue"}
    Sweeps = {w1}
    Faults <- AllFaults
    MaxFaults = 2
INVARIANTS
    TypeOK
    RemovedOnlyAfterEveryConfirmation
    ReleasedPassesHaveRevocations
PROPERTIES
    LifecycleSpec
CHECK_DEADLOCK FALSE
