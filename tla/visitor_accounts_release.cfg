SPECIFICATION FairSpec
CONSTANTS
    d1 = d1
    d2 = d2
    p1 = p1
    p2 = p2
    Devices = {d1}
    Polls = {p1}
    Serves <- OneLinked
    Decisions = {"in"}
    SyncRuns = {"issue", "hourly"}
    Sweeps = {w1}
    Faults <- NoFaults
    MaxFaults = 0
INVARIANTS
    RemovedSlotsAreFree
PROPERTIES
    AccountsLeaveTerminals
CHECK_DEADLOCK FALSE
