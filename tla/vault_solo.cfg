CONSTANTS
    Servers = {s1}
    Paths = {a}
    Tokens = {t1, t2}
    SnapIds = {i1, i2, i3, i4}
    RingSize = 2
    MaxRequests = 4
    MaxOutside = 1
    Absent = {absent}
    None = {none}
    NoFile = {nofile}
    Torn = {torn}
SPECIFICATION Spec
SYMMETRY Symmetry
INVARIANTS TypeOK 
PROPERTIES RestoreGenuine
\* Every request may be abandoned and the bounds exhausted: the system may stop.
CHECK_DEADLOCK FALSE
