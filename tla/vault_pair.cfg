CONSTANTS
    Servers = {s1, s2}
    Paths = {a, b}
    Tokens = {t1}
    SnapIds = {i1, i2, i3}
    RingSize = 2
    MaxRequests = 2
    MaxOutside = 1
    Absent = {absent}
    None = {none}
    NoFile = {nofile}
    Torn = {torn}
SPECIFICATION Spec
SYMMETRY Symmetry
INVARIANTS RingGenuine 
PROPERTIES NothingLostSilently
\* Every request may be abandoned and the bounds exhausted: the system may stop.
CHECK_DEADLOCK FALSE
