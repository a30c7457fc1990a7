SPECIFICATION FairSpec
CONSTANTS
    Period = 2
    MaxTime = 6
    MaxFrames = 2
    NBuses = 2
    NSlaves = 2
    MaxDelay = 3
INVARIANTS ExitIsClean AcceptingMeansStarted ReleaseIsAhead
PROPERTIES DisabledBeforeClose StopEndsRun FramesAscend
