\* Two commits, a window that answers again and again, a user who edits the tree.
SPECIFICATION FairSpec
CONSTANTS
    MaxCommits = 2
    Windows = {w1}
    Dir = Dir
    Host = Host
    None = None
    Icons = {}
    MaxCalls = 2
INVARIANTS WrittenAsAgreed
PROPERTIES OnlyStaleMergesLose CallsReturn
CHECK_DEADLOCK FALSE
