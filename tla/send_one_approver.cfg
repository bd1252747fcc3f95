\* One thread approves and runs the tool, beside two cycles that overlap (the worker's
\* and one started from the cabinet).  d2 is an e-mail draft.
SPECIFICATION FairSpec
CONSTANTS
    Drafts = {d1, d2}
    WhatsAppDrafts = {d1}
    TestDrafts = {d1}
    Procs = {server, job, worker}
    Approvers = {server}
    Callers = {server}
    Workers = {job, worker}
    None = None
    MaxRequests = 2
    MaxFaults = 1
INVARIANTS NeverSentTwice
PROPERTIES TerminalDraftsStay RequestsSettle ClaimsSettle
\* Every draft is settled, every request used: the pipeline may stop.
CHECK_DEADLOCK FALSE
