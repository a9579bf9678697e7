\* A flush on quit over a backend other than WebDAV.
SPECIFICATION Spec
CONSTANTS
    Machines = {m1}
    Webdav = webdav
    Transports = {webdav, sftp}
    Triggers = {"ui", "quit"}
    Edits = {e1}
    Unsigned = {}
    Faults = {}
    None = None
    MaxGen = 2
    MaxFails = 0
    MaxRestarts = 1
INVARIANTS NeverFalselyAhead
CHECK_DEADLOCK FALSE
