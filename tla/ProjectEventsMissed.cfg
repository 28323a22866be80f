\* One server and one page, and nothing fails.
SPECIFICATION EventsSpec
CONSTANTS
    Servers = {x}
    Pages = {p1}
    Records = {c1, c2}
    Moves = {m1}
    Nothing = Nothing
    Capacity = 2
    PageSize = 2
    MaxEventFaults = 0
PROPERTIES EveryPageCatchesUp
CHECK_DEADLOCK FALSE
