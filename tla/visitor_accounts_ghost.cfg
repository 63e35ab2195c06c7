SPECIFICATION Spec
CONSTANTS
    d1 = d1
    d2 = d2
    p1 = p1
    p2 = p2
    Devices = {d1}
    Polls = {p1}
    Serves <- OneLinked
    Decisions = {}
    SyncRuns = {"issue"}
    Sweeps = {w1}
    Faults <- LostResults
    MaxFaults = 1
INVARIANTS
    RemovedSlotsAreFree
CHECK_DEADLOCK FALSE
