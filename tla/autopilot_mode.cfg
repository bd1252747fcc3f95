\* What the README says of SAFE mode, with a switch under a cycle.
SPECIFICATION Spec
CONSTANTS
    Worker = worker
    Loop = loop
    Jobs = {job}
    NotSet = NotSet
    LockTicks = 2
    Interval = 1
    NonSafeAllowed = TRUE
    MaxCycles = 1
    MaxStops = 0
PROPERTIES SafeModeNeverSends
\* With Autopilot off and the bounds reached nothing more has to happen.
CHECK_DEADLOCK FALSE
