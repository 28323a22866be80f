\* An AI job and an API run, two workers; one call of the model fails, one fault happens.
SPECIFICATION Spec
CONSTANTS
    AiJobs = {a1}
    ApiRuns = {r1}
    Workers = {w1, w2}
    None = None
    MaxErrors = 1
    MaxFaults = 1
INVARIANTS
    AcceptedIsKept
    CallsHaveACause
PROPERTIES
    ShownResultKept
    EveryAcceptedJobEnds
CHECK_DEADLOCK FALSE
