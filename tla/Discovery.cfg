SPECIFICATION FairSpec
CONSTANTS
    None = None
    Nodes = {1, 2}
    Self <- OwnAddress
    Modes <- AllModes
    StaticPeers = {1, 2}
    Heartbeat = 1
    Stale = 3
    Skew <- FirstAhead
    Slack = 0
    MaxAge = 4
    MaxStarts = 2
    MaxFaults = 1
INVARIANT TypeOK
INVARIANT DeadLeaveInTime
PROPERTY ListsConverge
PROPERTY DroppedForCause
