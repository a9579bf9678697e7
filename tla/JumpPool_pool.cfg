\* Two callers of one bastion and two entries for it, of which one may be
\* listed while the other is still built, ridden or on its way out.
SPECIFICATION FairSpec
CONSTANTS
    Callers = {c1, c2}
    Keys = {k1}
    Entries = {e1, e2}
    None = None
    MaxFired = 1
INVARIANTS RefsAreRiders RiderNotCutOff OneDialPerPrefix NoBastionLeaked
PROPERTIES WaitersAnswered IdleBastionCloses
