\* The auto-sync loops of two machines over two backends, under fairness.
SPECIFICATION FairSpec
CONSTANTS
    Machines = {m1, m2}
    Webdav = webdav
    Transports = {webdav, sftp}
    Triggers = {"auto"}
    Edits = {e1}
    Unsigned = {}
    Faults = {"lateFail"}
    None = None
    MaxGen = 2
    MaxFails = 1
    MaxRestarts = 0
PROPERTIES DirtyIsResolved
CHECK_DEADLOCK FALSE
