\* One message through leases, crashes, a retry, two leads and two drafts.
SPECIFICATION FairSpec
CONSTANTS
    Events = {e1}
    Leads = {l1, l2}
    None = None
    NoLock = NoLock
    Lease = 1
    MaxAge = 3
    MaxAttempts = 2
    Limit = 1
    MaxDrafts = 2
    MaxRetries = 1
    MaxCrashes = 1
INVARIANTS TypeOK DraftedLeavesQueue OneAgentReply InboundLoggedOnce TurnsAreDecisions RetryBudget
PROPERTIES ImplementsQueue LiveLeaseIsRespected QueueDrains
\* Every message is closed, old and known: nothing more has to happen.
CHECK_DEADLOCK FALSE
