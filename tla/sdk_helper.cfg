CONSTANTS
    SdkTerminals = {d1}  MaxDoors = 1  MaxSdkFaults = 1
SPECIFICATION SdkSpec
PROPERTY HelperIsRestarted
CHECK_DEADLOCK FALSE
