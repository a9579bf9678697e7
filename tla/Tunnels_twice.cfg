\* Two terminals of a connection whose forward has no fixed port.
SPECIFICATION Spec
CONSTANTS
    Sessions = {s1, s2}
    Specs = {f1}
    AutoPorts = {f1}
    ViaVPN = FALSE
    None = None
    MaxAttempts = 1
    MaxTerminals = 2
    Loops = {l1, l2}
SYMMETRY Symmetry
INVARIANTS NoOrphan
CHECK_DEADLOCK FALSE
