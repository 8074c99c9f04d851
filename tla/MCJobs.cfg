SPECIFICATION Spec
CONSTANTS
    alice = alice
    JobIds = {j1, s1}
    SandboxJobs = {s1}
    Users = {alice}
    Owner <- MCOwner
    MaxParallel = 2
    MaxPerUser = 2
    MaxRepair = 1
    MaxHelps = 1
    None = None
INVARIANTS TypeOK LiveIsStoppable
PROPERTIES OutcomeStays JobsSettle
CHECK_DEADLOCK FALSE
