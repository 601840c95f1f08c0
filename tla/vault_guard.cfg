CONSTANTS
    Servers = {s1}
    Paths = {a}
    Tokens = {t1, t2}
    SnapIds = {i1, i2, i3}
    RingSize = 2
    MaxRequests = 1
    MaxOutside = 2
    Absent = {absent}
    None = {none}
    NoFile = {nofile}
    Torn = {torn}
SPECIFICATION Spec
PROPERTIES GuardedEditOfGuard
\* Every request may be abandoned and the bounds exhausted: the system may stop.
CHECK_DEADLOCK FALSE
