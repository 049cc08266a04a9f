\* Every configuration, every endpoint, two changes of the world on the way; or
\* starts, stops and kills of the service in any order: an instance may be stopped
\* while its thread is at any point of a run, and another be created in its process.
SPECIFICATION MCSpec
CONSTANTS
    Configs <- MCConfigs
    Sites <- MCSites
    Versions = {"0.6.0", "0.7.1"}
    MaxChanges = 2
    Instances = {i1, i2, i3}
    MaxRequests = 3
    MaxKills = 2
    None = None
INVARIANTS
    ServesOneNetwork
    PortIsFree
    ForegroundWhileRunning
PROPERTIES
    RunsAgainWhenKilled
CHECK_DEADLOCK FALSE
