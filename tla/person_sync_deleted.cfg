SPECIFICATION SyncSpec
CONSTANTS
    Terminals = {d1}
    Capable = {d1}
    Polls = {p1}
    Syncs = {s1}
    Removals = {r1}
    Captures = {}
    MaxRuns = 3
    MaxFaults = 0
INVARIANTS
    DeletedPeopleLeave
CHECK_DEADLOCK FALSE
