\* The server, a Sheets sync in a job thread and the worker all approve; no recipient
\* is allow-listed.
SPECIFICATION Spec
CONSTANTS
    Drafts = {d1}
    WhatsAppDrafts = {d1}
    TestDrafts = {}
    Procs = {server, job, worker}
    Approvers = {server, job, worker}
    Callers = {server}
    Workers = {job, worker}
    None = None
    MaxRequests = 2
    MaxFaults = 1
INVARIANTS TypeOK SendsPaidByApprovals EveryRecordIsBacked
PROPERTIES ImplementsLedger
SYMMETRY CycleSymmetry
\* Every draft is settled, every request used: the pipeline may stop.
CHECK_DEADLOCK FALSE
