\* Two machines, one backend, pulls from Settings and from the toast, no fault
\* beyond early failures and clean restarts.
SPECIFICATION Spec
CONSTANTS
    Machines = {m1, m2}
    Webdav = webdav
    Transports = {webdav}
    Triggers = {"ui", "toast"}
    Edits = {e1}
    Unsigned = {}
    Faults = {}
    None = None
    MaxGen = 2
    MaxFails = 1
    MaxRestarts = 1
SYMMETRY Symmetry
INVARIANTS SnapshotNotOlderThanMeta NeverFalselyAhead InSyncIsIdentical CleanIsPushed
PROPERTIES NoLostUpdate CommitsRaiseGeneration 
CHECK_DEADLOCK FALSE
