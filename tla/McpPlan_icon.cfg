\* An edit that changes an icon.
SPECIFICATION FairSpec
CONSTANTS
    MaxCommits = 1
    Windows = {w1}
    Dir = Dir
    Host = Host
    None = None
    Icons = {"named"}
    MaxCalls = 1
PROPERTIES CallsReturn
CHECK_DEADLOCK FALSE
