\* One machine edits what the fingerprint does not see.
SPECIFICATION Spec
CONSTANTS
    Machines = {m1}
    Webdav = webdav
    Transports = {webdav}
    Triggers = {"ui"}
    Edits = {e1, e2}
    Unsigned = {e2}
    Faults = {}
    None = None
    MaxGen = 2
    MaxFails = 0
    MaxRestarts = 0
INVARIANTS CleanIsAllPushed
CHECK_DEADLOCK FALSE
