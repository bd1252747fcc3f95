\* What the claim promises, checked with two threads that approve.
SPECIFICATION Spec
CONSTANTS
    Drafts = {d1}
    WhatsAppDrafts = {d1}
    TestDrafts = {}
    Procs = {server, job}
    Approvers = {server, job}
    Callers = {server}
    Workers = {}
    None = None
    MaxRequests = 1
    MaxFaults = 0
INVARIANTS NeverSentTwice
\* Every draft is settled, every request used: the pipeline may stop.
CHECK_DEADLOCK FALSE
