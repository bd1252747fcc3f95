\* The worker's sync and one in a job overlap; one request fails or goes unheard.
SPECIFICATION FairSpec
CONSTANTS
    Syncs = {worker, job}
    Worker = worker
    MaxDrafts = 2
    MaxEdits = 2
    MaxFaults = 1
INVARIANTS TypeOK ApproveAndSendAreTwoEdits
PROPERTIES ExactCopiesOnly CellsSettle
\* The job may never sync, the operator never type.
CHECK_DEADLOCK FALSE
