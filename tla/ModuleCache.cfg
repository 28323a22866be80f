\* A save that adds and one that removes, a reader, a publication and a restoration.
SPECIFICATION Spec
CONSTANTS
    Adders = {s1}
    Removers = {s2}
    Old = old
    Readers = {r1}
    Publishers = {p1}
    Restorers = {q1}
    Free = Free
    Miss = Miss
    MaxFaults = 1
INVARIANTS
    StaleNeedsARace
    TornNeedsARace
PROPERTIES
    BaselinesImmutable
\* Every request of the run may have been answered.
CHECK_DEADLOCK FALSE
