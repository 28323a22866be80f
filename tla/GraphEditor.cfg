\* Two modules, two edits, two saves at a time, and one failure or save of another user.
SPECIFICATION Spec
CONSTANTS
    Modules = {m1, m2}
    First = m1
    Edits = {e1, e2}
    Saves = {s1, s2}
    None = None
    MaxFaults = 1
INVARIANTS
    ConflictHasACause
PROPERTIES
    EditsSettle
\* Every edit may have been made and saved.
CHECK_DEADLOCK FALSE
