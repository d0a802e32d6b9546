SPECIFICATION SpecHarness
CONSTANTS
    NTests = 2
    PipeCap = 1
    NSuites = 2
    parallel_jobs = 2
    MaxTests = 2
INVARIANTS SuccessIsEarned CountsExact GreenIsEarned TotalsExact
PROPERTIES ImplementsRunTest AllEnd
CHECK_DEADLOCK FALSE
