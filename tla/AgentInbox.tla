------------------------------ MODULE AgentInbox ------------------------------
(***************************************************************************)
(* The durable inbox of inbound WhatsApp messages (agent_inbox_events) and *)
(* the conversation agent that leases its events to ChatGPT                *)
(* (src/app/agent_inbox.py, src/app/conversation_agent.py, and the inbox   *)
(* methods of src/app/crm.py).                                             *)
(*                                                                         *)
(* Two processes write the table.  The server runs every MCP tool and      *)
(* admin request on one event loop, so its requests do not interleave with *)
(* each other, but one request makes several transactions.  The worker     *)
(* recovers leases and synchronizes the inbox in its own process, between  *)
(* any two transactions of the server.                                     *)
(*                                                                         *)
(* Time is relative: age counts the ticks since a message was received and *)
(* lock the ticks its lease still runs; both stop where they make no more  *)
(* difference, so no behaviour is cut off.                                 *)
(***************************************************************************)
EXTENDS Integers, Sequences, FiniteSets

CONSTANTS
    Events,      \* inbound messages, by their external_id
    Leads,       \* CRM leads
    None,        \* no lead
    NoLock,      \* agent_lock_until IS NULL
    Lease,       \* lease_seconds of prepare_pending, in ticks
    MaxAge,      \* max_inbound_age_hours, in ticks
    MaxAttempts, \* max_attempts of the recovery, three in the code
    Limit,       \* the most events one prepare_pending leases
    MaxDrafts,   \* bound: drafts ever saved
    MaxRetries,  \* bound: operator retries of one event
    MaxCrashes   \* bound: crashes of the server

ASSUME InboxAssumption ==
    /\ None \notin Leads
    /\ Lease \in Nat \ {0}
    /\ NoLock \notin Nat
    /\ MaxAge \in Nat
    /\ MaxAttempts \in Nat \ {0}
    /\ Limit \in Nat \ {0}
    /\ MaxDrafts \in Nat
    /\ MaxRetries \in Nat
    /\ MaxCrashes \in Nat

VARIABLES
    \* the CRM
    status,   \* agent_inbox_events.status, "absent" before the row exists
    lead,     \* ... lead_id
    lock,     \* ... agent_lock_until
    attempts, \* ... agent_attempts
    draft,    \* ... draft_id, an index of drafts or 0
    drafts,   \* reply drafts, in the order they were saved
    history,  \* inbound interactions recorded for the event
    turns,    \* what the event added to its session's turn_count
    age,      \* ticks since WhatsApp received the message, or -1
    \* the processes
    server,   \* the request the server is in
    syncing,  \* per process, the event its upsert has looked up
    \* what happened, for the bounds and the properties only
    handed,   \* times ChatGPT was given the event since the last retry
    decided,  \* decisions accepted for the event
    retries, crashes

row == <<status, lead, lock, attempts, draft>>
crm == <<row, drafts, history, turns>>
ghosts == <<handed, decided, retries, crashes>>
vars == <<crm, age, server, syncing, ghosts>>

Statuses == {"absent", "new", "processing", "drafted", "acknowledged",
             "resolved", "ignored", "needs_review"}
\* submit_decision answers these without looking further (_FINAL_EVENT_STATUSES).
Final == {"acknowledged", "drafted", "ignored", "needs_review", "resolved"}
\* resolve_agent_inbox_for_draft closes these.
Open == {"new", "acknowledged", "processing", "drafted", "needs_review"}

NoEvent == "no event"
Idle == [step |-> "idle", event |-> NoEvent, lead |-> None, to |-> "", left |-> 0]
Steps == {"idle", "claim", "reject", "session", "finish", "save", "session_after", "link"}
Processes == {"server", "worker"}

TypeOK ==
    /\ status \in [Events -> Statuses]
    /\ lead \in [Events -> Leads \cup {None}]
    /\ lock \in [Events -> (0 .. Lease) \cup {NoLock}]
    /\ attempts \in [Events -> Nat]
    /\ draft \in [Events -> 0 .. MaxDrafts]
    /\ drafts \in Seq([event : Events, lead : Leads, by : {"agent", "operator"}])
    /\ history \in [Events -> Nat]
    /\ turns \in [Events -> Nat]
    /\ age \in [Events -> -1 .. MaxAge + 1]
    /\ server \in [step : Steps, event : Events \cup {NoEvent}, lead : Leads \cup {None},
                   to : Final \cup {""}, left : 0 .. Limit]
    /\ syncing \in [Processes -> [event : Events \cup {NoEvent}, found : BOOLEAN]]
    /\ handed \in [Events -> Nat]
    /\ decided \in [Events -> Nat]
    /\ retries \in [Events -> 0 .. MaxRetries]
    /\ crashes \in 0 .. MaxCrashes

Init ==
    /\ status = [e \in Events |-> "absent"]
    /\ lead = [e \in Events |-> None]
    /\ lock = [e \in Events |-> NoLock]
    /\ attempts = [e \in Events |-> 0]
    /\ draft = [e \in Events |-> 0]
    /\ drafts = <<>>
    /\ history = [e \in Events |-> 0]
    /\ turns = [e \in Events |-> 0]
    /\ age = [e \in Events |-> -1]
    /\ server = Idle
    /\ syncing = [p \in Processes |-> [event |-> NoEvent, found |-> FALSE]]
    /\ handed = [e \in Events |-> 0]
    /\ decided = [e \in Events |-> 0]
    /\ retries = [e \in Events |-> 0]
    /\ crashes = 0

-----------------------------------------------------------------------------
(***************************************************************************)
(* Time and the outside world                                              *)
(***************************************************************************)

Stale(e) == age[e] > MaxAge
\* Mutant of Expired: only a lease that was never set has run out.
ExpiredIfNull(e) == lock[e] = NoLock

\* agent_lock_until IS NULL OR agent_lock_until <= now.
Expired(e) == lock[e] = NoLock \/ lock[e] = 0

Receive(e) ==
    /\ age[e] = -1
    /\ age' = [age EXCEPT ![e] = 0]
    /\ UNCHANGED <<crm, server, syncing, ghosts>>

Tick ==
    /\ age' = [e \in Events |-> IF age[e] \in 0 .. MaxAge THEN age[e] + 1 ELSE age[e]]
    /\ lock' = [e \in Events |-> IF lock[e] \in 1 .. Lease THEN lock[e] - 1 ELSE lock[e]]
    /\ UNCHANGED <<status, lead, attempts, draft, drafts, history, turns, server, syncing, ghosts>>

-----------------------------------------------------------------------------
(***************************************************************************)
(* The queue                                                               *)
(***************************************************************************)

\* Mutant of RecordInboundOnce: no look at the external_message_id.
RecordInboundAlways(e, l) ==
    history' = IF l # None THEN [history EXCEPT ![e] = @ + 1] ELSE history

\* _record_inbound_interaction_once, inside the transaction that sets the lead.
RecordInboundOnce(e, l) ==
    history' = IF l # None /\ history[e] = 0 THEN [history EXCEPT ![e] = 1] ELSE history

\* sync_whatsapp_inbox, one message: the SELECT of upsert_agent_inbox_event ...
SyncRead(p, e) ==
    /\ syncing[p].event = NoEvent
    /\ p = "server" => server.step = "idle"
    /\ age[e] >= 0
    /\ syncing' = [syncing EXCEPT ![p] = [event |-> e, found |-> status[e] # "absent"]]
    /\ UNCHANGED <<crm, age, server, ghosts>>

\* ... then the INSERT of a new row, which UNIQUE (workspace_id, source, external_id)
\* rejects when the other process was faster, or the UPDATE that leaves the status
\* alone and prefers the lead that was just matched.
SyncWrite(p, matched) ==
    LET e == syncing[p].event
        l == IF matched # None THEN matched ELSE lead[e] IN
    /\ e # NoEvent
    /\ syncing' = [syncing EXCEPT ![p] = [event |-> NoEvent, found |-> FALSE]]
    /\ IF ~syncing[p].found /\ status[e] # "absent"
       THEN UNCHANGED crm
       ELSE /\ status' = [status EXCEPT ![e] = IF @ = "absent" THEN "new" ELSE @]
            /\ lead' = [lead EXCEPT ![e] = l]
            /\ RecordInboundOnce(e, l)
            /\ UNCHANGED <<lock, attempts, draft, drafts, turns>>
    /\ UNCHANGED <<age, server, ghosts>>

\* Mutant of StaleWork: any old event without a live lease.
StaleAnything(e) == Stale(e) /\ (status[e] = "new" \/ Expired(e))

\* Mutant of Abandoned: the lease is not compared with the clock.
AbandonedAtOnce(e) == status[e] = "processing"

\* recover_expired_agent_inbox_leases: three UPDATEs in one BEGIN IMMEDIATE.
StaleWork(e) == Stale(e) /\ (status[e] = "new" \/ (status[e] = "processing" /\ Expired(e)))
Abandoned(e) == status[e] = "processing" /\ Expired(e)

Recover ==
    /\ status' = [e \in Events |->
                    CASE StaleWork(e) -> "needs_review"
                      [] ~StaleWork(e) /\ Abandoned(e) /\ attempts[e] >= MaxAttempts -> "needs_review"
                      [] ~StaleWork(e) /\ Abandoned(e) /\ attempts[e] < MaxAttempts -> "new"
                      [] OTHER -> status[e]]
    /\ lock' = [e \in Events |-> IF StaleWork(e) \/ Abandoned(e) THEN NoLock ELSE lock[e]]
    /\ UNCHANGED <<lead, attempts, draft, drafts, history, turns>>

WorkerRecover ==
    /\ Recover
    /\ UNCHANGED <<age, server, syncing, ghosts>>

\* The server takes its next request only when the last one is done.
ServerIdle == server = Idle /\ syncing["server"].event = NoEvent

\* Mutant of Prepare: one event more than the limit.
PrepareOneMore(n) ==
    /\ ServerIdle
    /\ Recover
    /\ server' = [Idle EXCEPT !.step = "claim", !.left = n + 1]
    /\ UNCHANGED <<age, syncing, ghosts>>

\* prepare_pending: the recovery first ...
Prepare(n) ==
    /\ ServerIdle
    /\ Recover
    /\ server' = [Idle EXCEPT !.step = "claim", !.left = n]
    /\ UNCHANGED <<age, syncing, ghosts>>

\* Mutant of OutOfBudget: the attempt that the claim adds is not counted.
OutOfBudgetLate(e) == attempts[e] > MaxAttempts

\* prepare_pending on the claimed row, whose agent_attempts counts this claim.
OutOfBudget(e) == attempts[e] + 1 > MaxAttempts

\* ... then up to n times claim_next_agent_inbox_event, the oldest message first; a
\* target chat narrows the choice to its own events.
Claimable(e) == status[e] = "new" \/ (status[e] = "processing" /\ lock[e] = 0)

ClaimNext(target) ==
    LET ready == {e \in target : Claimable(e)} IN
    /\ server.step = "claim"
    /\ IF server.left = 0 \/ ready = {}
       THEN /\ server' = Idle
            /\ UNCHANGED <<crm, handed>>
       ELSE \E e \in ready :
              /\ \A other \in ready : age[other] <= age[e]
              /\ status' = [status EXCEPT ![e] = "processing"]
              /\ attempts' = [attempts EXCEPT ![e] = @ + 1]
              /\ lock' = [lock EXCEPT ![e] = Lease]
              /\ IF OutOfBudget(e) \/ lead[e] = None
                 THEN /\ server' = [server EXCEPT !.step = "reject", !.event = e, !.left = @ - 1]
                      /\ UNCHANGED handed
                 ELSE /\ server' = [server EXCEPT !.left = @ - 1]
                      /\ handed' = [handed EXCEPT ![e] = @ + 1]
              /\ UNCHANGED <<lead, draft, drafts, history, turns>>
    /\ UNCHANGED <<age, syncing, decided, retries, crashes>>

\* finish_agent_inbox_event: the UPDATE names the row by its id alone.
FinishEvent(e, s) ==
    /\ status' = [status EXCEPT ![e] = s]
    /\ lock' = [lock EXCEPT ![e] = NoLock]
    /\ UNCHANGED <<lead, attempts, draft, drafts, history, turns>>

\* An event out of attempts, or without a lead, goes to the operator.
RejectClaim ==
    /\ server.step = "reject"
    /\ FinishEvent(server.event, "needs_review")
    /\ server' = [server EXCEPT !.step = "claim", !.event = NoEvent]
    /\ UNCHANGED <<age, syncing, ghosts>>

-----------------------------------------------------------------------------
(***************************************************************************)
(* submit_decision                                                         *)
(***************************************************************************)

\* The event is read once.  A final event is answered as before, one that is not
\* leased is refused, and a decision that fails validation or the quality check asks
\* for a revision: none of these changes anything.
SubmitNonReply(e, to) ==
    /\ ServerIdle
    /\ status[e] = "processing"
    /\ lead[e] # None
    /\ to \in {"acknowledged", "needs_review", "ignored"}
    /\ server' = [Idle EXCEPT !.step = "session", !.event = e, !.to = to]
    /\ UNCHANGED <<crm, age, syncing, ghosts>>

SubmitUnlinked(e) ==
    /\ ServerIdle
    /\ status[e] = "processing"
    /\ lead[e] = None
    /\ server' = [Idle EXCEPT !.step = "finish", !.event = e, !.to = "needs_review"]
    /\ UNCHANGED <<crm, age, syncing, ghosts>>

SubmitReply(e) ==
    /\ ServerIdle
    /\ Len(drafts) < MaxDrafts
    /\ status[e] = "processing"
    /\ lead[e] # None
    /\ server' = [Idle EXCEPT !.step = "save", !.event = e, !.lead = lead[e]]
    /\ UNCHANGED <<crm, age, syncing, ghosts>>

\* _save_session: increment_turn, before the event is finished ...
SaveSession ==
    /\ server.step = "session"
    /\ turns' = [turns EXCEPT ![server.event] = @ + 1]
    /\ server' = [server EXCEPT !.step = "finish"]
    /\ UNCHANGED <<row, drafts, history, age, syncing, ghosts>>

\* ... and the finish itself, a transaction of its own.
SubmitFinish ==
    /\ server.step = "finish"
    /\ FinishEvent(server.event, server.to)
    /\ decided' = [decided EXCEPT ![server.event] = IF lead[server.event] # None THEN @ + 1 ELSE @]
    /\ server' = Idle
    /\ UNCHANGED <<age, syncing, handed, retries, crashes>>

AddDraft(e, l, who) == drafts' = Append(drafts, [event |-> e, lead |-> l, by |-> who])

\* Mutant of SaveReplyDraft: an UPDATE that matched no row does not roll back the INSERT.
DraftKeptWhenLeaseLost ==
    LET e == server.event
        leased == status[e] = "processing" IN
    /\ server.step = "save"
    /\ AddDraft(e, server.lead, "agent")
    /\ draft' = [draft EXCEPT ![e] = IF leased THEN Len(drafts) + 1 ELSE @]
    /\ status' = [status EXCEPT ![e] = IF leased THEN "drafted" ELSE @]
    /\ lock' = [lock EXCEPT ![e] = IF leased THEN NoLock ELSE @]
    /\ decided' = [decided EXCEPT ![e] = @ + 1]
    /\ server' = [server EXCEPT !.step = "session_after"]
    /\ UNCHANGED <<lead, attempts, history, turns, age, syncing, handed, retries, crashes>>

\* Mutant of SaveReplyDraft: the turn is counted whether the draft was saved or not.
TurnWithoutDraft ==
    /\ server.step = "save"
    /\ server' = [server EXCEPT !.step = "session_after"]
    /\ UNCHANGED <<crm, age, syncing, ghosts>>

\* save_agent_reply_draft: one BEGIN IMMEDIATE that looks at the event again.
SaveReplyDraft ==
    LET e == server.event IN
    /\ server.step = "save"
    /\ IF lead[e] = server.lead /\ draft[e] = 0 /\ status[e] = "processing"
       THEN /\ AddDraft(e, lead[e], "agent")
            /\ draft' = [draft EXCEPT ![e] = Len(drafts) + 1]
            /\ status' = [status EXCEPT ![e] = "drafted"]
            /\ lock' = [lock EXCEPT ![e] = NoLock]
            /\ decided' = [decided EXCEPT ![e] = @ + 1]
            /\ server' = [server EXCEPT !.step = "session_after"]
       ELSE /\ server' = IF lead[e] = server.lead /\ draft[e] # 0
                         THEN [server EXCEPT !.step = "session_after"]
                         ELSE Idle
            /\ UNCHANGED <<draft, drafts, status, lock, decided>>
    /\ UNCHANGED <<lead, attempts, history, turns, age, syncing, handed, retries, crashes>>

\* _save_session of the reply path, after the draft is saved.
SaveSessionAfter ==
    /\ server.step = "session_after"
    /\ turns' = [turns EXCEPT ![server.event] = @ + 1]
    /\ server' = Idle
    /\ UNCHANGED <<row, drafts, history, age, syncing, ghosts>>

-----------------------------------------------------------------------------
(***************************************************************************)
(* The operator                                                            *)
(***************************************************************************)

\* sales_update_agent_inbox_status and the cabinet's PATCH, from any status.
OperatorUpdate(e, s) ==
    /\ ServerIdle
    /\ status[e] # "absent"
    /\ s \in {"acknowledged", "resolved", "ignored"}
    /\ status' = [status EXCEPT ![e] = s]
    /\ lock' = [lock EXCEPT ![e] = NoLock]
    /\ UNCHANGED <<lead, attempts, draft, drafts, history, turns, age, server, syncing, ghosts>>

\* link_agent_inbox_event, from any status.
Link(e, l) ==
    /\ ServerIdle
    /\ status[e] # "absent"
    /\ lead' = [lead EXCEPT ![e] = l]
    /\ RecordInboundOnce(e, l)
    /\ UNCHANGED <<status, lock, attempts, draft, drafts, turns, age, server, syncing, ghosts>>

\* requeue_agent_inbox_event: BEGIN IMMEDIATE; an event that is "new" already is left.
Retry(e) ==
    /\ ServerIdle
    /\ retries[e] < MaxRetries
    /\ status[e] = "needs_review"
    /\ draft[e] = 0
    /\ lead[e] # None
    /\ ~Stale(e)
    /\ status' = [status EXCEPT ![e] = "new"]
    /\ attempts' = [attempts EXCEPT ![e] = 0]
    /\ lock' = [lock EXCEPT ![e] = NoLock]
    /\ handed' = [handed EXCEPT ![e] = 0]
    /\ retries' = [retries EXCEPT ![e] = @ + 1]
    /\ UNCHANGED <<lead, draft, drafts, history, turns, age, server, syncing, decided, crashes>>

\* sales_save_whatsapp_reply_draft: the draft is one transaction ...
OperatorSave(e, l) ==
    /\ ServerIdle
    /\ status[e] # "absent"
    /\ lead[e] \in {None, l}
    /\ Len(drafts) < MaxDrafts
    /\ AddDraft(e, l, "operator")
    /\ server' = [Idle EXCEPT !.step = "link", !.event = e, !.left = 0]
    /\ UNCHANGED <<row, history, turns, age, syncing, ghosts>>

\* Mutant of OperatorLinkDraft: only the draft_id is written.
LinkKeepsStatus ==
    /\ server.step = "link"
    /\ draft' = [draft EXCEPT ![server.event] = Len(drafts)]
    /\ server' = Idle
    /\ UNCHANGED <<status, lock, lead, attempts, drafts, history, turns, age, syncing, ghosts>>

\* ... and update_agent_inbox_event with its id another; the server did nothing in
\* between, so the draft is the last one.
OperatorLinkDraft ==
    /\ server.step = "link"
    /\ status' = [status EXCEPT ![server.event] = "drafted"]
    /\ draft' = [draft EXCEPT ![server.event] = Len(drafts)]
    /\ lock' = [lock EXCEPT ![server.event] = NoLock]
    /\ server' = Idle
    /\ UNCHANGED <<lead, attempts, drafts, history, turns, age, syncing, ghosts>>

\* resolve_agent_inbox_for_draft, when the tool has sent the draft (OutreachSend).
ResolveForDraft(d) ==
    /\ ServerIdle
    /\ d \in DOMAIN drafts
    /\ status' = [e \in Events |-> IF draft[e] = d /\ status[e] \in Open
                                   THEN "resolved" ELSE status[e]]
    /\ UNCHANGED <<lead, lock, attempts, draft, drafts, history, turns, age, server, syncing, ghosts>>

-----------------------------------------------------------------------------
\* The server dies between two transactions of a request.
Crash ==
    /\ crashes < MaxCrashes
    /\ ~ServerIdle
    /\ server' = Idle
    /\ syncing' = [syncing EXCEPT !["server"] = [event |-> NoEvent, found |-> FALSE]]
    /\ crashes' = crashes + 1
    /\ UNCHANGED <<crm, age, handed, decided, retries>>

Targets == {Events} \cup {{e} : e \in Events}

\* The rest of a request that has begun.
ServerStep ==
    \/ \E target \in Targets : ClaimNext(target)
    \/ RejectClaim \/ SaveSession \/ SubmitFinish
    \/ SaveReplyDraft \/ SaveSessionAfter \/ OperatorLinkDraft
    \/ \E l \in Leads \cup {None} : SyncWrite("server", l)

WorkerSyncWrite == \E l \in Leads \cup {None} : SyncWrite("worker", l)

Next ==
    \/ Tick
    \/ WorkerRecover
    \/ WorkerSyncWrite
    \/ ServerStep
    \/ Crash
    \/ \E n \in 1 .. Limit : Prepare(n)
    \/ \E d \in 1 .. MaxDrafts : ResolveForDraft(d)
    \/ \E e \in Events :
         \/ Receive(e)
         \/ \E p \in Processes : SyncRead(p, e)
         \/ SubmitUnlinked(e) \/ SubmitReply(e) \/ Retry(e)
         \/ \E s \in Final : SubmitNonReply(e, s) \/ OperatorUpdate(e, s)
         \/ \E l \in Leads : Link(e, l) \/ OperatorSave(e, l)

Spec == Init /\ [][Next]_vars

(***************************************************************************)
(* Time passes, the worker's loop comes back to the recovery every poll    *)
(* interval, and a request that has begun goes on.  ChatGPT and the        *)
(* operator owe nothing: a chat may never submit what it was given.        *)
(***************************************************************************)
Fairness == WF_vars(Tick) /\ WF_vars(WorkerRecover) /\ WF_vars(ServerStep)

FairSpec == Spec /\ Fairness
-----------------------------------------------------------------------------
(***************************************************************************)
(* Properties                                                              *)
(***************************************************************************)

\* An event carries a lease exactly while it is being processed: claim_next never
\* matches a NULL lease and the recovery never looks at another status, so either
\* mismatch would hide the event from one of them.
LeaseIffProcessing == \A e \in Events : (status[e] = "processing") <=> (lock[e] # NoLock)

\* "Fresh events are requeued until their retry budget is exhausted" (README.md): ChatGPT
\* is given an event at most MaxAttempts times between two retries of the operator, also
\* when the last lease runs out between the recovery and the claim of one batch.
RetryBudget == \A e \in Events : handed[e] <= MaxAttempts

\* An event that has a reply draft is not in ChatGPT's queue: no recovery, retry or late
\* finish brings it back to be answered a second time.
DraftedLeavesQueue ==
    \A e \in Events : draft[e] # 0 => status[e] \notin {"new", "processing", "needs_review"}

\* "Atomically finalize one leased inbox event with exactly one reply draft" (crm.py
\* save_agent_reply_draft): the agent never drafts two replies to one message, whatever
\* crashed, expired or was retried in between.
OneAgentReply ==
    \A i, j \in DOMAIN drafts :
        drafts[i].event = drafts[j].event /\ drafts[i].by = "agent" /\ drafts[j].by = "agent"
            => i = j

\* The message is in the lead's history exactly once, from the moment a lead is known:
\* repeated and racing syncs, and linking to another lead, add nothing.
InboundLoggedOnce ==
    \A e \in Events : history[e] = IF lead[e] = None THEN 0 ELSE 1

PlaceOf(s) ==
    CASE s = "absent" -> "outside"
      [] s = "new" -> "waiting"
      [] s = "processing" -> "leased"
      [] s = "needs_review" -> "review"
      [] OTHER -> "closed"

AgentReplies(e) == {i \in DOMAIN drafts : drafts[i].event = e /\ drafts[i].by = "agent"}

Places == [e \in Events |-> PlaceOf(status[e])]
Replied == [e \in Events |-> AgentReplies(e)]
Aged == {e \in Events : Stale(e)}

Queue == INSTANCE LeasedQueue WITH
    Items <- Events, Replies <- 1 .. MaxDrafts, NoLease <- NoLock, LeaseTime <- Lease,
    MaxTries <- MaxAttempts, place <- Places, left <- lock, tries <- handed,
    replies <- Replied, old <- Aged

\* The inbox implements LeasedQueue: between the transactions of a decision, a recovery in
\* the other process, a crash or a second request, no step does to a message what a leased
\* queue would not (conversation_agent.py prepare_pending, submit_decision; crm.py).
ImplementsQueue == Queue!QueueSpec

\* What was answered or closed is never queued or escalated again by a sync, a recovery,
\* a claim or a late decision; only an event in needs_review can come back.
ClosedStaysClosed ==
    [][\A e \in Events :
         status[e] \in {"drafted", "acknowledged", "resolved", "ignored"}
             => status'[e] \in {"drafted", "acknowledged", "resolved", "ignored"}]_vars

\* While its lease runs, nothing but the server's own verdict on an event sends it back to
\* the queue or to review: neither the worker's recovery nor the one that opens another
\* prepare_pending takes it from the chat that has it.
LiveLeaseIsRespected ==
    [][\A e \in Events :
         status[e] = "processing" /\ ~Expired(e) /\ status'[e] \in {"new", "needs_review"}
             => /\ status'[e] = "needs_review"
                /\ server.step \in {"reject", "finish"}
                /\ server.event = e]_vars

\* "Inbound messages older than max_inbound_age_hours are quarantined in needs_review
\* instead of being answered out of context" (README.md): the agent drafts no reply to an
\* event whose lease has run out and whose message is that old, the recovery's own rule.
NoStaleAnswer ==
    [][\A e \in Events : server.step = "save" /\ status[e] = "processing" /\ status'[e] = "drafted"
             => ~StaleWork(e)]_vars

\* "Validate a ChatGPT decision and atomically save state or a draft"
\* (conversation_agent.py submit_decision): the session is saved before the event is
\* finished on one path and after the draft on the other, so without a crash of the
\* server the turns it counts are the decisions that were accepted.
TurnsAreDecisions ==
    ServerIdle /\ crashes = 0 => \A e \in Events : turns[e] = decided[e]

\* No message waits for ever: with or without ChatGPT, the queue lets go of it.
QueueDrains ==
    \A e \in Events :
        status[e] \in {"new", "processing"} ~> status[e] \notin {"new", "processing"}

=============================================================================
