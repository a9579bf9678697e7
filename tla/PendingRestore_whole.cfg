\* Any number of restores, failures, exits and crashes outside Faults.
SPECIFICATION FairSpec
CONSTANTS
    b1 = b1
    b2 = b2
    b3 = b3
    Backups <- MCBackups
    Pass <- MCPass
    First = first
    None = None
    Torn = Torn
    Faults = {}
INVARIANTS ProfileWhole NoForeignWal SidecarFits Recoverable
PROPERTIES StartsAgain
