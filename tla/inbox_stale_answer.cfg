\* What the README promises about old messages.
SPECIFICATION Spec
CONSTANTS
    Events = {e1}
    Leads = {l1}
    None = None
    NoLock = NoLock
    Lease = 2
    MaxAge = 1
    MaxAttempts = 2
    Limit = 1
    MaxDrafts = 1
    MaxRetries = 1
    MaxCrashes = 0
PROPERTIES NoStaleAnswer
\* Every message is closed, old and known: nothing more has to happen.
CHECK_DEADLOCK FALSE
