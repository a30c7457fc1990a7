CONSTANTS
    AxisCount = 1
    GroupOf <- MCGroupOf
    CommandTimeout <- MCCommandTimeout
    WkcLimit = 1
    MaxFaultResets = 2
    SafeStopTimeout = 1
    ZeroCycles = 1
    AgeCap = 2
    Snapshots <- MCSnapshots
    BusStates <- MCBusStates
    Pdos <- MCPdos
    Refusals <- MCRefusals
SPECIFICATION FairDriveSpec
INVARIANTS ResetEdgesArePulses RecoveryNeedsNewerCommand
PROPERTIES PowerNeedsFreshCommand EnabledDriveStarts
