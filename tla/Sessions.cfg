\* Two tabs, one login at a time, one fault.
SPECIFICATION SessionsSpec
CONSTANTS
    Tabs = {t1, t2}
    SessionIds = {s1}
    Refreshes = {r1, r2, r3, r4}
    Accesses = {a1, a2}
    NoToken = NoToken
    MaxSessionFaults = 1
INVARIANTS
    OneRefreshPerToken
    
PROPERTIES
    NothingForTheRevoked
    DeactivationTakesEffect
\* The user may be deactivated and everything expired.
CHECK_DEADLOCK FALSE
