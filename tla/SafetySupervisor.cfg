CONSTANTS
    AxisCount = 2
    GroupOf <- MCGroupOf
    CommandTimeout <- MCCommandTimeout
    WkcLimit = 2
    MaxFaultResets = 1
    SafeStopTimeout = 1
    ZeroCycles = 1
    AgeCap = 2
    Snapshots <- MCSnapshots
    BusStates <- MCBusStates
    Pdos <- MCPdos
SPECIFICATION FairSpec
INVARIANTS GroupStopsTogether ShutdownMeansDisabled
PROPERTIES ShutdownIsFinal SafetyStopStartsWithQuickStop
           ShutdownCompletes StopEndsEventually
