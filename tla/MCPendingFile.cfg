CONSTANTS
    Batches <- MCBatches
    Builds <- MCBuilds
SPECIFICATION Spec
INVARIANTS PushedIsSaved TablesMatchField
PROPERTIES ScheduleStable
CHECK_DEADLOCK FALSE
