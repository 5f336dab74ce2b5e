SPECIFICATION Spec
CONSTANTS
    MaxJobs = 2
    Workers = {w1, w2}
    MaxVersion = 2
    MaxFaults = 3
    None = None
INVARIANTS ArtifactsOfWorkingJobs
PROPERTIES JobsEnd ImplementsPromise
CHECK_DEADLOCK FALSE
