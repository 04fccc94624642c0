SPECIFICATION Spec
CONSTANTS
    ThreadsArg = 0
    Parallelism = 2
    DurationArg = 1
    Sizes <- SizeLimits
    Rates = {0}
    BATCH = 2
    MaxBatches = 2
    MaxErrors = 1
    MaxTime = 1
INVARIANT
    NeverPanics
CHECK_DEADLOCK FALSE
