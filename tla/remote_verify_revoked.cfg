CONSTANTS
    Cards = {1}  Refreshers = {f1}  ShortLived = {}  LifeEnd = 2  SnapshotPage = 1  CooldownTime = 2  MaxKeys = 1
    MaxVerifyTime = 2  MaxCardChanges = 1  MaxSyncFaults = 0
SPECIFICATION VerifySpec
PROPERTIES RevokedLeave
CHECK_DEADLOCK FALSE
