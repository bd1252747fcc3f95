\* The worker, a manual job and the tool compete for cycles; one stop or reset.
SPECIFICATION FairSpec
CONSTANTS
    Worker = worker
    Loop = loop
    Jobs = {job}
    NotSet = NotSet
    LockTicks = 2
    Interval = 1
    NonSafeAllowed = TRUE
    MaxCycles = 3
    MaxStops = 1
INVARIANTS TypeOK LockNamesARunningCycle OneRunningCycle
PROPERTIES SettledCyclesStay CyclesEnd
\* With Autopilot off and the bounds reached nothing more has to happen.
CHECK_DEADLOCK FALSE
