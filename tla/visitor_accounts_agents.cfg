SPECIFICATION FairSpec
CONSTANTS
    d1 = d1
    d2 = d2
    p1 = p1
    p2 = p2
    Devices = {d1}
    Polls = {p1,p2}
    Serves <- TwoPolls
    Decisions = {}
    SyncRuns = {"issue"}
    Sweeps = {w1}
    Faults <- MachineFaults
    MaxFaults = 1
PROPERTIES
    CommandsAreAnswered
    EndedPassesAreReleased
CHECK_DEADLOCK FALSE
