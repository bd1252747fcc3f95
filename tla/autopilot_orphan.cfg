\* What the README says of expired locks, with a stop that races.
SPECIFICATION Spec
CONSTANTS
    Worker = worker
    Loop = loop
    Jobs = {job}
    NotSet = NotSet
    LockTicks = 2
    Interval = 1
    NonSafeAllowed = TRUE
    MaxCycles = 2
    MaxStops = 1
INVARIANTS EveryRunningCycleIsRecoverable
\* With Autopilot off and the bounds reached nothing more has to happen.
CHECK_DEADLOCK FALSE
