\* One server and one page, two records and a move, one fault; room for one event in
\* the channel and in a replay.
SPECIFICATION EventsSpec
CONSTANTS
    Servers = {x}
    Pages = {p1}
    Records = {c1, c2}
    Moves = {m1}
    Nothing = Nothing
    Capacity = 1
    PageSize = 1
    MaxEventFaults = 1
INVARIANTS
    ToldAfterCommit
PROPERTIES
    OwedIsShown
\* Every change may have been made and shown.
CHECK_DEADLOCK FALSE
