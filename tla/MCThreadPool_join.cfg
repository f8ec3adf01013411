\* ThreadPool: two workers, three jobs, panicking jobs {}.
CONSTANTS
    NWorkers = 2
    Jobs = {j1, j2, j3}
    PanicJobs = {}
    NoJob = NoJob
SPECIFICATION Spec
PROPERTY JoinWaitsForJobs
