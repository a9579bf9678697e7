\* Two dials of one tab, any number of sessions that fail or die, two at a time.
SPECIFICATION FairSpec
CONSTANTS
    Dials = {d1, d2}
    Sessions = {s1, s2}
    None = None
INVARIANTS OneConnect NoSessionLeaked LiveSessionKept HealsOnNextDial
PROPERTIES DialsReturn CloseTearsDown
