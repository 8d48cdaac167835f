CONSTANTS
    Callers = {fdc, cli}
    Jobs = {j1, j2, j3}
    QueueLen = 2
    NoJob = NoJob
SPECIFICATION LiveSpec
INVARIANTS TypeOK NoDanglingJob NoJobLeak OwnResult
PROPERTIES CallerReturns EveryJobFreed
