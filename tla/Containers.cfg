SPECIFICATION Spec
CONSTANTS
    JobIds = {j1}
    MaxFaults = 2
    MaxCrashes = 1
INVARIANTS TypeOK TokenEndsWithJob FailureIsNotCompleted
PROPERTIES ReaperSparesActive OrphansAreReaped
CHECK_DEADLOCK FALSE
