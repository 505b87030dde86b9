CONSTANTS
    Tasks = {t1, t2}
    MaxTrouble = 2
SPECIFICATION WebLiveSpec
PROPERTY
    RefusedSignsIn
CHECK_DEADLOCK FALSE
