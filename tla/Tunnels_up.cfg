\* One tunnel and the terminals of a connection, two sessions at a time.
SPECIFICATION Spec
CONSTANTS
    Sessions = {s1, s2}
    Specs = {f1}
    AutoPorts = {}
    ViaVPN = TRUE
    None = None
    MaxAttempts = 1
    MaxTerminals = 1
    Loops = {l1, l2}
SYMMETRY Symmetry
INVARIANTS OneLoop ConnectedIsUp NoStraySession NoDeadListener ClaimsEnd
