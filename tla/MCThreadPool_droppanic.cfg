\* ThreadPool: two workers, three jobs, panicking jobs {j1}.
CONSTANTS
    NWorkers = 2
    Jobs = {j1, j2, j3}
    PanicJobs = {j1}
    NoJob = NoJob
SPECIFICATION Spec
INVARIANT DropPropagatesPanic
\* A panicking job leaves join blocked for ever (job_count never returns to 0):
\* the program really stops there, as the hang run shows.
CHECK_DEADLOCK FALSE
