\* Four bytes, events that may overtake one another, two attaches.
SPECIFICATION FairSpec
CONSTANTS
    Total = 4
    MaxRead = 2
    MaxHold = 1
    MaxBytes = 2
    Cap = 2
    Slack = 0
    MaxScan = 1
    MaxFired = 1
    Skew = 1
    Budget = 1
    MaxMounts = 2
INVARIANTS InOrderSoFar HeldHasTimer SnapshotFits OnceAndInOrder NoSilentHole
PROPERTIES CatchesUp DeliversStream
CHECK_DEADLOCK FALSE
