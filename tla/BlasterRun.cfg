SPECIFICATION FairSpec
CONSTANTS
    ThreadsArg = 0
    Parallelism = 2
    DurationArg = 1
    Sizes = {1199, 1200, 16434}
    Rates = {0, 2}
    BATCH = 2
    MaxBatches = 2
    MaxErrors = 1
    MaxTime = 2
INVARIANTS
    TypeOK
    SummaryIsExact
    ReportsFitSummary
    RateIsKept
PROPERTY
    EveryRunEnds
CHECK_DEADLOCK FALSE
