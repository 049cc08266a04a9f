\* Does the service stop when its last job is finished?
SPECIFICATION MCSpec
CONSTANTS
    Configs <- MCConfigs
    Sites <- MCSites
    Versions = {"0.6.0"}
    MaxChanges = 0
    Instances = {i1}
    MaxRequests = 2
    MaxKills = 0
    None = None
PROPERTIES
    StopsWhenFinished
CHECK_DEADLOCK FALSE
