----------------------------- MODULE OutreachSend -----------------------------
(***************************************************************************)
(* The life of outreach drafts from the moment they are saved until the    *)
(* message has left through the WhatsApp bridge (src/app/crm.py,           *)
(* src/app/server.py, src/app/autopilot.py, src/app/whatsapp_service.py).  *)
(*                                                                         *)
(* Several threads of control share one SQLite file: the event loop of the *)
(* MCP/admin server, its background job threads, and the worker process.   *)
(* SalesCRM.connect opens one transaction per method, but Python's sqlite3 *)
(* only takes the write lock at the first write: a method that SELECTs a   *)
(* status and then UPDATEs it without BEGIN IMMEDIATE is two steps here    *)
(* (approve, mark, queue), and one that opens with BEGIN IMMEDIATE or puts *)
(* the status in its WHERE clause is one step (claim, release, complete).  *)
(***************************************************************************)
EXTENDS Integers, Sequences, FiniteSets

CONSTANTS
    Drafts,             \* rows of outreach_drafts
    WhatsAppDrafts,     \* the drafts whose channel is "whatsapp"
    TestDrafts,         \* the drafts addressed to an allow-listed test recipient
    Procs,              \* threads of control that share the CRM
    Approvers,          \* ... that approve drafts and queue send requests
    Callers,            \* ... that run the tool sales_send_whatsapp_draft
    Workers,            \* ... that run Autopilot's _process_send_requests
    None,               \* no draft in hand
    MaxRequests,        \* bound: rows ever inserted in outreach_send_requests
    MaxFaults           \* bound: crashes and database errors

ASSUME ProcsAssumption ==
    /\ IsFiniteSet(Procs)
    /\ Approvers \subseteq Procs
    /\ Callers \subseteq Procs
    /\ Workers \subseteq Procs

ASSUME DraftsAssumption ==
    /\ WhatsAppDrafts \subseteq Drafts
    /\ TestDrafts \subseteq Drafts
    /\ None \notin Drafts

ASSUME BoundsAssumption ==
    /\ MaxRequests \in Nat
    /\ MaxFaults \in Nat

VARIABLES
    flags,      \* settings.allow_whatsapp_send and allow_autopilot_send, read at start-up
    \* the CRM
    status,     \* outreach_drafts.status
    inbox,      \* the inbox event answered by the draft, if any
    requests,   \* outreach_send_requests, in the order of their requested_at
    logged,     \* how many outbound interactions with status "sent" name the draft
    followups,  \* drafts with a follow-up created after the send
    \* the threads
    pc, cur, ok, req, todo,
    \* what happened, for the properties only
    approvals,  \* how often the draft was approved
    delivered,  \* how often WhatsApp took the message
    confirmed,  \* how often the bridge also told us so
    faults

crm == <<status, inbox, requests, logged, followups>>
threads == <<pc, cur, ok, req, todo>>
ghosts == <<approvals, delivered, confirmed>>
vars == <<flags, crm, threads, ghosts, faults>>

\* 'cancelled' is left out: no code of the program sets it on a draft.
Statuses == {"absent", "draft", "approved", "sending", "sent", "failed"}
InboxStates == {"none", "drafted", "resolved"}
Request == [draft : Drafts, status : {"pending", "completed", "failed"}]
Labels == {"idle", "approve", "queue", "claim", "call", "release", "mark", "mark_write",
           "resolve", "record", "followup", "next", "reject", "complete",
           "recover", "recover_write", "finish_failed", "abort"}

TypeOK ==
    /\ flags \in [whatsapp : BOOLEAN, autopilot : BOOLEAN]
    /\ status \in [Drafts -> Statuses]
    /\ inbox \in [Drafts -> InboxStates]
    /\ requests \in Seq(Request)
    /\ logged \in [Drafts -> Nat]
    /\ followups \subseteq Drafts
    /\ pc \in [Procs -> Labels]
    /\ cur \in [Procs -> Drafts \cup {None}]
    /\ ok \in [Procs -> BOOLEAN]
    /\ req \in [Procs -> Nat]
    /\ todo \in [Procs -> SUBSET (Nat \X BOOLEAN)]
    /\ approvals \in [Drafts -> Nat]
    /\ delivered \in [Drafts -> Nat]
    /\ confirmed \in [Drafts -> Nat]
    /\ faults \in Nat

Init ==
    /\ flags \in [whatsapp : BOOLEAN, autopilot : BOOLEAN]
    /\ status = [d \in Drafts |-> "absent"]
    /\ inbox = [d \in Drafts |-> "none"]
    /\ requests = <<>>
    /\ logged = [d \in Drafts |-> 0]
    /\ followups = {}
    /\ pc = [p \in Procs |-> "idle"]
    /\ cur = [p \in Procs |-> None]
    /\ ok = [p \in Procs |-> FALSE]
    /\ req = [p \in Procs |-> 0]
    /\ todo = [p \in Procs |-> {}]
    /\ approvals = [d \in Drafts |-> 0]
    /\ delivered = [d \in Drafts |-> 0]
    /\ confirmed = [d \in Drafts |-> 0]
    /\ faults = 0

-----------------------------------------------------------------------------
(***************************************************************************)
(* Helpers on the threads.  A thread that works on a request holds its     *)
(* number in req; the tool holds 0.                                        *)
(***************************************************************************)
FromQueue(p) == req[p] # 0

Goto(p, label) ==
    /\ pc' = [pc EXCEPT ![p] = label]
    /\ UNCHANGED <<cur, ok, req, todo>>

GotoWith(p, label, success) ==
    /\ pc' = [pc EXCEPT ![p] = label]
    /\ ok' = [ok EXCEPT ![p] = success]
    /\ UNCHANGED <<cur, req, todo>>

Begin(p, label, d) ==
    /\ pc[p] = "idle"
    /\ pc' = [pc EXCEPT ![p] = label]
    /\ cur' = [cur EXCEPT ![p] = d]
    /\ UNCHANGED <<ok, req, todo>>

\* The operation returns or raises: nothing of it survives in memory.
Return(p) ==
    /\ pc' = [pc EXCEPT ![p] = "idle"]
    /\ cur' = [cur EXCEPT ![p] = None]
    /\ ok' = [ok EXCEPT ![p] = FALSE]
    /\ req' = [req EXCEPT ![p] = 0]
    /\ todo' = [todo EXCEPT ![p] = {}]

SetStatus(d, s) == status' = [status EXCEPT ![d] = s]

Pending(r) == r \in DOMAIN requests /\ requests[r].status = "pending"
PendingRequests == {r \in DOMAIN requests : requests[r].status = "pending"}

\* complete_send_request: the conditional UPDATE of one request.
SetRequest(r, s) == requests' = [requests EXCEPT ![r].status = s]

-----------------------------------------------------------------------------
(***************************************************************************)
(* Saving, approving and queueing                                          *)
(***************************************************************************)

\* save_outreach_draft and save_agent_reply_draft; the second leaves an inbox
\* event "drafted" that points at the draft.
SaveDraft(d, answers) ==
    /\ status[d] = "absent"
    /\ SetStatus(d, "draft")
    /\ inbox' = [inbox EXCEPT ![d] = IF answers THEN "drafted" ELSE "none"]
    /\ UNCHANGED <<requests, logged, followups, threads, ghosts, faults, flags>>

\* approve_outreach_draft: the SELECT runs before the transaction begins ...
ApproveRead(p, d) ==
    /\ p \in Approvers
    /\ status[d] = "draft"
    /\ Begin(p, "approve", d)
    /\ UNCHANGED <<crm, ghosts, faults, flags>>

\* ... and the UPDATE that follows names the row by its id alone.
ApproveWrite(p) ==
    /\ pc[p] = "approve"
    /\ SetStatus(cur[p], "approved")
    /\ approvals' = [approvals EXCEPT ![cur[p]] = @ + 1]
    /\ Return(p)
    /\ UNCHANGED <<inbox, requests, logged, followups, delivered, confirmed, faults, flags>>

\* queue_outreach_send_request: get_outreach_draft in a connection of its own ...
QueueRead(p, d) ==
    /\ p \in Approvers
    /\ Len(requests) + Cardinality({q \in Procs : pc[q] = "queue"}) < MaxRequests
    /\ status[d] = "approved"
    /\ Begin(p, "queue", d)
    /\ UNCHANGED <<crm, ghosts, faults, flags>>

\* ... then INSERT OR IGNORE under idx_send_requests_pending_draft.
QueueWrite(p) ==
    /\ pc[p] = "queue"
    /\ requests' = IF \E r \in PendingRequests : requests[r].draft = cur[p]
                   THEN requests
                   ELSE Append(requests, [draft |-> cur[p], status |-> "pending"])
    /\ Return(p)
    /\ UNCHANGED <<status, inbox, logged, followups, ghosts, faults, flags>>

-----------------------------------------------------------------------------
(***************************************************************************)
(* Sending: the tool and the queue share the middle of the path            *)
(***************************************************************************)

\* sales_send_whatsapp_draft up to its early returns (confirm_send is given).
ToolStart(p, d) ==
    /\ p \in Callers
    /\ d \in WhatsAppDrafts
    /\ status[d] = "approved"
    /\ Begin(p, "claim", d)
    /\ UNCHANGED <<crm, ghosts, faults, flags>>

\* _process_send_requests in a non-SAFE mode: one snapshot of the queue that
\* remembers whether each draft was approved WhatsApp outreach at that moment.
ListRequests(p) ==
    /\ p \in Workers
    /\ flags.autopilot /\ flags.whatsapp
    /\ pc[p] = "idle"
    /\ PendingRequests # {}
    /\ pc' = [pc EXCEPT ![p] = "next"]
    /\ todo' = [todo EXCEPT ![p] =
                  {<<r, requests[r].draft \in WhatsAppDrafts
                        /\ status[requests[r].draft] = "approved">> : r \in PendingRequests}]
    /\ UNCHANGED <<cur, ok, req, crm, ghosts, faults, flags>>

\* The head of the loop over the snapshot, oldest request first.
TakeRequest(p) ==
    /\ pc[p] = "next"
    /\ \E item \in todo[p] :
         /\ \A other \in todo[p] : item[1] <= other[1]
         /\ req' = [req EXCEPT ![p] = item[1]]
         /\ cur' = [cur EXCEPT ![p] = requests[item[1]].draft]
         /\ pc' = [pc EXCEPT ![p] = IF item[2] THEN "claim" ELSE "reject"]
         /\ ok' = [ok EXCEPT ![p] = FALSE]
         /\ todo' = [todo EXCEPT ![p] = @ \ {item}]
    /\ UNCHANGED <<crm, ghosts, faults, flags>>

LoopEnds(p) ==
    /\ pc[p] = "next"
    /\ todo[p] = {}
    /\ Return(p)
    /\ UNCHANGED <<crm, ghosts, faults, flags>>

\* Mutant of Claim: the UPDATE has lost its WHERE status = 'approved'.
ClaimAnyStatus(p) ==
    /\ pc[p] = "claim"
    /\ SetStatus(cur[p], "sending")
    /\ Goto(p, "call")
    /\ UNCHANGED <<inbox, requests, logged, followups, ghosts, faults, flags>>

\* claim_outreach_draft_for_send: BEGIN IMMEDIATE, UPDATE ... WHERE status = 'approved'.
Claim(p) ==
    /\ pc[p] = "claim"
    /\ \/ /\ status[cur[p]] = "approved"
          /\ SetStatus(cur[p], "sending")
          /\ Goto(p, "call")
       \/ /\ status[cur[p]] # "approved"
          /\ IF FromQueue(p) THEN Goto(p, "reject") ELSE Return(p)
          /\ UNCHANGED status
    /\ UNCHANGED <<inbox, requests, logged, followups, ghosts, faults, flags>>

\* whatsapp_service.send_message: the policy comes before the bridge is called.
BlockedByPolicy(d) == ~flags.whatsapp /\ d \notin TestDrafts

CallBlocked(p) ==
    /\ pc[p] = "call"
    /\ BlockedByPolicy(cur[p])
    /\ Goto(p, "release")
    /\ UNCHANGED <<crm, ghosts, faults, flags>>

\* The POST to the bridge.  A refusal, an unusable recipient and an error of the
\* HTTP client all come back as "not sent"; so does a reply lost after WhatsApp
\* took the message.
CallBridge(p) ==
    /\ pc[p] = "call"
    /\ ~BlockedByPolicy(cur[p])
    /\ \E taken, success \in BOOLEAN :
         /\ success => taken
         /\ delivered' = IF taken THEN [delivered EXCEPT ![cur[p]] = @ + 1] ELSE delivered
         /\ confirmed' = IF success THEN [confirmed EXCEPT ![cur[p]] = @ + 1] ELSE confirmed
         /\ GotoWith(p, "mark", success)
    /\ UNCHANGED <<crm, approvals, faults, flags>>

\* A ValueError of the CRM ends the tool call and enters the queue's handler.
Raise(p) == IF FromQueue(p) THEN Goto(p, "recover") ELSE Return(p)

\* release_outreach_send_claim: one conditional UPDATE.
Release(p) ==
    /\ pc[p] = "release"
    /\ \/ /\ status[cur[p]] = "sending"
          /\ SetStatus(cur[p], "approved")
          /\ IF FromQueue(p) THEN GotoWith(p, "complete", FALSE) ELSE Return(p)
       \/ /\ status[cur[p]] # "sending"
          /\ Raise(p)
          /\ UNCHANGED status
    /\ UNCHANGED <<inbox, requests, logged, followups, ghosts, faults, flags>>

\* Mutant of MarkRead: a failed send returns before it is marked.
MarkSkipsFailure(p) ==
    /\ pc[p] = "mark"
    /\ IF ok[p] THEN Goto(p, "mark_write") ELSE Return(p)
    /\ UNCHANGED <<crm, ghosts, faults, flags>>

\* mark_outreach_sent: the SELECT that demands "sending" ...
MarkRead(p) ==
    /\ pc[p] = "mark"
    /\ IF status[cur[p]] = "sending" THEN Goto(p, "mark_write") ELSE Raise(p)
    /\ UNCHANGED <<crm, ghosts, faults, flags>>

\* Mutants of MarkWrite: it takes any answer of the bridge for a success ...
MarkIgnoresResult(p) ==
    /\ pc[p] = "mark_write"
    /\ SetStatus(cur[p], "sent")
    /\ IF FromQueue(p) THEN Goto(p, "complete") ELSE Return(p)
    /\ UNCHANGED <<inbox, requests, logged, followups, ghosts, faults, flags>>

\* ... or a failed send is logged like any other.
MarkLogsFailures(p) ==
    /\ pc[p] = "mark_write"
    /\ SetStatus(cur[p], IF ok[p] THEN "sent" ELSE "failed")
    /\ Goto(p, IF FromQueue(p) THEN "record" ELSE "resolve")
    /\ UNCHANGED <<inbox, requests, logged, followups, ghosts, faults, flags>>

\* ... and the UPDATE by id.
MarkWrite(p) ==
    /\ pc[p] = "mark_write"
    /\ SetStatus(cur[p], IF ok[p] THEN "sent" ELSE "failed")
    /\ CASE ok[p] /\ FromQueue(p)   -> Goto(p, "record")
         [] ok[p] /\ ~FromQueue(p)  -> Goto(p, "resolve")
         [] ~ok[p] /\ FromQueue(p)  -> Goto(p, "complete")
         [] ~ok[p] /\ ~FromQueue(p) -> Return(p)
    /\ UNCHANGED <<inbox, requests, logged, followups, ghosts, faults, flags>>

\* resolve_agent_inbox_for_draft, called by the tool only.
Resolve(p) ==
    /\ pc[p] = "resolve"
    /\ inbox' = [inbox EXCEPT ![cur[p]] = IF @ = "drafted" THEN "resolved" ELSE @]
    /\ Goto(p, "record")
    /\ UNCHANGED <<status, requests, logged, followups, ghosts, faults, flags>>

\* record_interaction with status "sent".
Record(p) ==
    /\ pc[p] = "record"
    /\ logged' = [logged EXCEPT ![cur[p]] = @ + 1]
    /\ Goto(p, IF FromQueue(p) THEN "complete" ELSE "followup")
    /\ UNCHANGED <<status, inbox, requests, followups, ghosts, faults, flags>>

\* The optional schedule_followup that ends the tool call.
Followup(p) ==
    /\ pc[p] = "followup"
    /\ followups' \in {followups, followups \cup {cur[p]}}
    /\ Return(p)
    /\ UNCHANGED <<status, inbox, requests, logged, ghosts, faults, flags>>

-----------------------------------------------------------------------------
(***************************************************************************)
(* The end of a queued request and the handler around it                   *)
(***************************************************************************)

\* Mutant of Reject: the loop continues without completing the request.
RejectSkips(p) ==
    /\ pc[p] = "reject"
    /\ Goto(p, "next")
    /\ UNCHANGED <<crm, ghosts, faults, flags>>

\* complete_send_request for a request that was never claimed: it stands outside the
\* try block, so a request that is not pending any more ends the loop.
Reject(p) ==
    /\ pc[p] = "reject"
    /\ \/ /\ Pending(req[p])
          /\ SetRequest(req[p], "failed")
          /\ Goto(p, "next")
       \/ /\ ~Pending(req[p])
          /\ Return(p)
          /\ UNCHANGED requests
    /\ UNCHANGED <<status, inbox, logged, followups, ghosts, faults, flags>>

\* Mutant of Complete: it writes a status of the drafts, not of the requests.
CompleteAsSent(p) ==
    /\ pc[p] = "complete"
    /\ Pending(req[p])
    /\ SetRequest(req[p], IF ok[p] THEN "sent" ELSE "failed")
    /\ Goto(p, "next")
    /\ UNCHANGED <<status, inbox, logged, followups, ghosts, faults, flags>>

\* complete_send_request inside the try block.
Complete(p) ==
    /\ pc[p] = "complete"
    /\ \/ /\ Pending(req[p])
          /\ SetRequest(req[p], IF ok[p] THEN "completed" ELSE "failed")
          /\ Goto(p, "next")
       \/ /\ ~Pending(req[p])
          /\ Goto(p, "recover")
          /\ UNCHANGED requests
    /\ UNCHANGED <<status, inbox, logged, followups, ghosts, faults, flags>>

\* Mutant of RecoverRead: the handler marks the draft failed whatever its status.
RecoverUnchecked(p) ==
    /\ pc[p] = "recover"
    /\ Goto(p, "recover_write")
    /\ UNCHANGED <<crm, ghosts, faults, flags>>

\* except Exception: mark_outreach_sent(claimed, success=False) ...
RecoverRead(p) ==
    /\ pc[p] = "recover"
    /\ Goto(p, IF status[cur[p]] = "sending" THEN "recover_write" ELSE "abort")
    /\ UNCHANGED <<crm, ghosts, faults, flags>>

RecoverWrite(p) ==
    /\ pc[p] = "recover_write"
    /\ SetStatus(cur[p], "failed")
    /\ Goto(p, "finish_failed")
    /\ UNCHANGED <<inbox, requests, logged, followups, ghosts, faults, flags>>

\* ... finally: complete_send_request(success=False).  When the mark has raised, or
\* the request is not pending any more, the exception leaves the loop.
FailRequest(p) ==
    /\ pc[p] \in {"finish_failed", "abort"}
    /\ IF Pending(req[p]) THEN SetRequest(req[p], "failed") ELSE UNCHANGED requests
    /\ IF pc[p] = "finish_failed" /\ Pending(req[p]) THEN Goto(p, "next") ELSE Return(p)
    /\ UNCHANGED <<status, inbox, logged, followups, ghosts, faults, flags>>

-----------------------------------------------------------------------------
(***************************************************************************)
(* Faults                                                                  *)
(***************************************************************************)

\* A database error, a lead that a reset has removed or a membership that was
\* revoked makes one of the calls after the mark raise.
DatabaseError(p) ==
    /\ faults < MaxFaults
    /\ pc[p] \in {"resolve", "record", "followup"}
    /\ Raise(p)
    /\ faults' = faults + 1
    /\ UNCHANGED <<crm, ghosts, flags>>

\* The process dies between two steps.  No code looks for what it left behind.
Crash(p) ==
    /\ faults < MaxFaults
    /\ pc[p] # "idle"
    /\ Return(p)
    /\ faults' = faults + 1
    /\ UNCHANGED <<crm, ghosts, flags>>

-----------------------------------------------------------------------------
\* Steps an operation takes on its own once it has begun.
Step(p) ==
    \/ ApproveWrite(p) \/ QueueWrite(p)
    \/ TakeRequest(p) \/ LoopEnds(p)
    \/ Claim(p) \/ CallBlocked(p) \/ CallBridge(p) \/ Release(p)
    \/ MarkRead(p) \/ MarkWrite(p) \/ Resolve(p) \/ Record(p) \/ Followup(p)
    \/ Reject(p) \/ Complete(p) \/ RecoverRead(p) \/ RecoverWrite(p) \/ FailRequest(p)

Next ==
    \/ \E d \in Drafts, answers \in BOOLEAN : SaveDraft(d, answers)
    \/ \E p \in Procs :
         \/ \E d \in Drafts : ApproveRead(p, d) \/ QueueRead(p, d) \/ ToolStart(p, d)
         \/ ListRequests(p)
         \/ Step(p)
         \/ DatabaseError(p) \/ Crash(p)

Spec == Init /\ [][Next]_vars

(***************************************************************************)
(* A begun operation runs on (it holds no lock another one waits for: each *)
(* write waits at most busy_timeout), and the worker's loop comes back to  *)
(* the queue every poll interval while Autopilot stays in a non-SAFE mode. *)
(* Nothing obliges an operator to approve, to queue or to send.            *)
(***************************************************************************)
Fairness == \A p \in Procs : WF_vars(Step(p)) /\ WF_vars(ListRequests(p))

FairSpec == Spec /\ Fairness

-----------------------------------------------------------------------------
(***************************************************************************)
(* Properties                                                              *)
(***************************************************************************)

\* WhatsApp never takes more copies of a draft than it was approved: whatever the
\* threads and their crashes do, every delivery spends one operator approval
\* (crm.py approve_outreach_draft, claim_outreach_draft_for_send).
SendsPaidByApprovals == \A d \in Drafts : delivered[d] <= approvals[d]

\* "Atomically reserve one approved draft so duplicate calls cannot send it twice"
\* (crm.py claim_outreach_draft_for_send): WhatsApp takes a draft at most once.
NeverSentTwice == \A d \in Drafts : delivered[d] <= 1

\* The thread between its claim and the end of its mark is alone with the draft, and
\* the draft says "sending" all that time.
Holding(p, d) == cur[p] = d /\ pc[p] \in {"call", "release", "mark", "mark_write"}
ClaimIsExclusive ==
    \A p \in Procs, d \in Drafts : Holding(p, d) =>
        /\ status[d] = "sending"
        /\ \A q \in Procs : Holding(q, d) => q = p

\* What the CRM tells the operator afterwards was confirmed by the bridge: a draft
\* "sent", a request "completed", an inbox event resolved by its reply, a follow-up.
EveryRecordIsBacked ==
    /\ \A d \in Drafts :
         status[d] = "sent" \/ inbox[d] = "resolved" \/ d \in followups => confirmed[d] > 0
    /\ \A r \in DOMAIN requests :
         requests[r].status = "completed" => confirmed[requests[r].draft] > 0

\* The conversation history never shows more sent messages than the bridge confirmed,
\* although the queue and the tool log in a transaction apart from the mark.
HistoryIsReal == \A d \in Drafts : logged[d] <= confirmed[d]

\* What the CRM calls sent, in whichever table it says so.
Told ==
    {d \in Drafts :
        \/ status[d] = "sent" \/ inbox[d] = "resolved" \/ d \in followups
        \/ \E r \in DOMAIN requests : requests[r].draft = d /\ requests[r].status = "completed"}

Ledger == INSTANCE DeliveryLedger WITH
    Messages <- Drafts, approved <- approvals, taken <- delivered, recorded <- logged, told <- Told

\* The send path implements DeliveryLedger: each step of a thread, a crash or a database
\* error is one entry of the ledger or none, so a delivery spends an approval, what is told
\* was confirmed, and the history grows by one confirmed delivery at a time.
ImplementsLedger == Ledger!LedgerSpec

\* A draft that was sent or failed stays so: no second approval, claim or release
\* brings it back into the pipeline.
TerminalDraftsStay ==
    [][\A d \in Drafts : status[d] \in {"sent", "failed"} => status'[d] = status[d]]_vars

\* Where sending is switched on, every pending send request is eventually settled by the
\* worker's cycles, crashes and aborted cycles included.
RequestsSettle ==
    \A r \in 1 .. MaxRequests :
        Pending(r) /\ flags.whatsapp /\ flags.autopilot ~> ~Pending(r)

\* Only a crash can leave a draft "sending" for good: without one the claim is released
\* or marked, whatever the bridge answers.
ClaimsSettle ==
    \A d \in Drafts : status[d] = "sending" ~> (status[d] # "sending" \/ faults > 0)

=============================================================================
