# A TLA+ model of Ollum Sales

Ollum Sales lets ChatGPT find companies, answer WhatsApp messages and draft outreach
through MCP tools, while an operator approves and sends. This directory holds TLA+ models
of the parts where several processes work on one database, the configurations that
model-check them with TLC, and theorems about them that TLAPS checks.

All paths below are relative to `src/app/` unless they start with `src/`.

## The system

Three processes share one SQLite file in WAL mode (`crm.py`) and one WhatsApp bridge:

| process | threads of control | what it does |
| --- | --- | --- |
| MCP and admin server (`server.py`, `admin.py`) | one event loop that runs every tool to its end, and every request once its body has come; a thread pool for the cabinet's background jobs | tools of ChatGPT, requests of the operator, manual cycles and Sheets syncs |
| worker (`worker.py`) | one loop | recover leases, sync the inbox, run a cycle if Autopilot is on, sleep for at least a minute |
| WhatsApp bridge (`src/upstream/whatsapp-mcp/whatsapp-bridge/main.go`) | external | sends a message on a POST, stores inbound messages in a database of its own |

`SalesCRM.connect` gives each method a transaction, but Python's `sqlite3` begins it at the
first *write*. A method that SELECTs a status and then UPDATEs it has read outside the
transaction, unless it starts with `BEGIN IMMEDIATE` or repeats the status in the WHERE
clause of its UPDATE. This one rule decides which code is one action of a model and which
is two, and most of what is interesting follows from it.

### Inventory

| component | state | operations | hard behaviours | what makes it correct |
| --- | --- | --- | --- | --- |
| outreach drafts and send pipeline (`crm.py`, `server.py`, `autopilot.py`, `whatsapp_service.py`) | `outreach_drafts.status`, `outreach_send_requests`, outbound `interactions`, `followups` | save, approve, queue; the tool `sales_send_whatsapp_draft`; `_process_send_requests` | approvals that overlap, tool and cycles that claim the same draft, lost replies of the bridge, crash between claim and mark, errors after the mark | a delivery per approval at most; success is recorded only when confirmed; requests and claims are settled |
| agent inbox (`agent_inbox.py`, `crm.py`) | `agent_inbox_events` (status, lead, lease, attempts, draft), inbound `interactions` | sync, recover, link, retry, operator update, operator's reply draft | both processes sync and recover, leases run out under a request | one history entry per message; closed events stay closed; nothing waits for ever |
| conversation agent (`conversation_agent.py`) | sessions (`turn_count`), leases held by a chat | `prepare_pending`, `submit_decision` | late decisions, transactions in different orders, the retry budget across two definitions of it | one agent reply per message; turns count decisions |
| Autopilot (`autopilot.py`, `crm.py`) | the row of `autopilot_state`, `autopilot_cycles` | start, stop, begin, complete, reset | cycles that outlive their lock, a stop beside a beginning cycle, a mode changed under a cycle, crash in a cycle | one running cycle, named by the lock; every cycle ends; SAFE does not send |
| Google Sheets panel (`google_sheets.py`) | the sheet's control cells, `google_sheets_sync` row | pull APPROVE and SEND, replace the panel | overlapping syncs, retries, lost answers, edits between pull and overwrite | only exact copies are applied; approving and sending take two edits; every YES is wiped |
| OAuth server (`oauth_server.py`) | pending requests, codes, access and refresh tokens by family | authorize, consent, load, exchange, refresh, revoke, clean-up | a row is loaded by one call and used by another: double use, expiry, revocation and restarts in between | codes and refresh tokens are used once; a revoked family is dead; tokens stay with their client |
| cabinet sign-in (`auth.py`) | hand-offs between hosts, sessions | issue, consume, log out | double use, expiry | a hand-off is used once |
| workspace members (`crm.py`, `admin.py`) | members, invitations, roles; the role in each session's cookie | sign in, invite, accept, change role | expiry, replaced invitations, the last owner, a cookie older than the role it names, a role checked before the request's body has come | an owner remains; who decides was an owner lately when the request was taken up |
| company and onboarding (`crm.py`) | profile versions, knowledge, answers | update, archive, answer, complete | a confirmation of a summary that has changed, in four reads | sales begin only from a confirmed, current summary |
| leads and campaigns (`crm.py`, `data_quality.py`) | leads, lookup keys, campaigns, inspections | search, import, upsert, inspect, analyse | find-then-insert beside each other, keys that merges and analyses change, queue limit, stale evidence, a reset under a writer | no second lead of a company but by overtaking; the server keeps its queue limit; no prospect without its campaign |
| prospecting reset (`crm.py`) | everything about prospecting | preview, back up, commit | leads inserted and deleted between preview, backup and commit, a forced cycle alive | what was previewed is what is backed up and deleted, as far as counts can tell |
| production check (`production_check.py`) | none of its own; it runs in a process of its own | deletes the leads under its source, starts Autopilot in SAFE mode, syncs, probes the send guardrail, runs a forced cycle | its deletion beside a reset, its cycle beside the server's | the reset still deletes what it showed; one cycle runs |
| job registry (`admin.py`) | 100 jobs in memory, the audit log | create, run, list | a running job is evicted, an audit write fails, a restart | registry and log agree |
| reports, playbook, scoring and quality gates, company search, website inspector, configuration, deployment, vendored Scrapegraph-ai | none, or read only | - | - | pure functions, I/O, or third-party code |

`deploy/verify_autopilot.sh` stops the worker, runs the production check inside the server's
container and starts the worker again; the server goes on beside it.

Calls between them: tools and requests call `SalesCRM` methods and the bridge; the worker
and the cabinet's jobs call `AutopilotService.run_cycle`, which ends with
`_process_send_requests` and `GoogleSheetsSync.sync`; `sync` approves and queues drafts
through the same `SalesCRM` methods as the operator; a reply draft of the conversation
agent enters the send pipeline like any other draft and the tool closes its inbox event.

## The modules

### OutreachSend

One draft's way from `save_outreach_draft` to WhatsApp. The CRM is `status`, `inbox` (the
event a reply draft answers), `requests`, `logged` and `followups`. Each thread has a
label `pc`, the draft `cur` and request `req` in its hand, the answer `ok` of the bridge,
and the snapshot `todo` of the queue. `approvals`, `delivered` and `confirmed` only record
what happened.

| code | actions |
| --- | --- |
| `approve_outreach_draft` | `ApproveRead`, `ApproveWrite`: the SELECT is outside the transaction, the UPDATE is by id |
| `queue_outreach_send_request` | `QueueRead`, `QueueWrite`: two connections; `INSERT OR IGNORE` on the partial unique index |
| `sales_send_whatsapp_draft` | `ToolStart`, then `Claim` ... `Followup` |
| `_process_send_requests` | `ListRequests`, `TakeRequest`, then `Claim` ... `Complete`, `Reject` outside the try block, `RecoverRead`, `RecoverWrite`, `FailRequest` for `except` and `finally`, `LoopEnds` |
| `claim_outreach_draft_for_send`, `release_outreach_send_claim` | `Claim`, `Release`: one conditional UPDATE each |
| `mark_outreach_sent` | `MarkRead`, `MarkWrite` |
| `whatsapp_service.send_message` | `CallBlocked` by policy, `CallBridge` with three outcomes: not taken, taken and confirmed, taken with the answer lost |
| errors and crashes | `DatabaseError` after the mark, `Crash` between any two steps |

A thread stands for the server's event loop (which approves and runs the tool), a job of
the cabinet or the worker (which run cycles and, in the Sheets sync at their end, approve
and queue). A crash takes one thread; that of a process takes several at once, which is
several single crashes. Left out: the wording of refusals; the limit of 50 requests per
snapshot, which only delays; `leads.status`; the status
"cancelled", which no code sets on a draft; the row "failed" the tool adds to the history
after an unconfirmed send (`logged` counts "sent" rows). The send flags are read
from the environment at start-up and are chosen once, in `Init`.

`DeliveryLedger` is what the operator may rely on, as a ledger per draft: approvals,
deliveries, confirmations, what the CRM calls sent, and the history. A delivery needs an
approval not yet spent, nothing is called sent before the bridge confirmed it, and an entry
of the history stands for a confirmation of its own. The mapping reads the ledger off the
tables (`Told`) and the history variables; most steps of a thread are no entry at all.

### AgentInbox

The events of the inbox, with `age` and `lock` as relative clocks, the request the server
is in (`server`: at most one, since the event loop runs it to its end, but with the
worker's steps between its transactions), and the SELECT of a sync in each process.

| code | actions |
| --- | --- |
| `sync_whatsapp_inbox`, `upsert_agent_inbox_event` | `SyncRead`, `SyncWrite` per message and process, with any lead the phone match may return; the loser of two INSERTs gets an integrity error |
| `recover_expired_agent_inbox_leases` | `Recover`, used by `WorkerRecover` and `Prepare` |
| `prepare_pending`, `claim_next_agent_inbox_event` | `Prepare`, `ClaimNext` up to the limit, `RejectClaim` |
| `submit_decision` | `SubmitUnlinked`; `SubmitNonReply`, `SaveSession`, `SubmitFinish`; `SubmitReply`, `SaveReplyDraft`, `SaveSessionAfter` |
| `update_agent_inbox_event`, `link_agent_inbox_event`, `requeue_agent_inbox_event` | `OperatorUpdate`, `Link`, `Retry` |
| `sales_save_whatsapp_reply_draft` | `OperatorSave`, `OperatorLinkDraft` |
| `resolve_agent_inbox_for_draft` | `ResolveForDraft` |
| time and faults | `Receive`, `Tick`, `Crash` |

Left out: the payload given to ChatGPT, the facts merged into a session, the validation and
the quality gate. A decision they refuse changes nothing, so only accepted ones are steps.
`MaxAttempts` stands for the 3 of `prepare_pending` and of the recovery's default, which
the two places write down separately.

`LeasedQueue` is the queue an event goes through, without processes and requests: leased
for `Lease` ticks, taken back when the lease has run out, handed over a bounded number of
times between two retries, answered once and only out of a lease, and closed for good. The
mapping forgets requests, sessions, leads and who acts (`PlaceOf`, `Replied`, `Aged`). A
verdict without a reply may come late, when the event is in the queue again: the code allows
it and the abstract queue says so (`Decide`).

### AutopilotCycle

The row of `autopilot_state`, the rows of `autopilot_cycles`, and per runner (worker,
event loop, jobs) where it is in `run_cycle` and which cycle and mode it carries.

| code | actions |
| --- | --- |
| `AutopilotService.start`, `start_autopilot` | `Start` |
| `stop_autopilot` | `StopRead`, `StopWrite`: the SELECT is outside the transaction |
| `reset_prospecting_data` | `Reset`: its commit, as far as cycles go |
| `begin_autopilot_cycle` | `Begin`, from `WorkerBegin`, `ToolBegin`, `JobBegin` |
| `api_autopilot_run` | `QueueJob`: the mode is checked when the job is queued, not when it runs |
| `set_cycle_verticals`, discovery, `_finalize_cycle_work` | `SetVerticals`, `EnterSending`, `SendingEnds`, `WorkRaises` |
| `complete_autopilot_cycle` | `Complete`, called a second time by the handler when it raises inside the try block |
| faults, time | `Crash`, `Tick` |

`semi_auto` and `autopilot` are one mode "non_safe": `run_cycle` tells only SAFE apart.
What the sending step does is `OutreachSend`.

### SheetsPanel

The panel of one lead: its row in the tab LEADS, which shows the newest draft that is not sent,
and a row per draft in OUTREACH. Each row says which draft it shows, whether its recipient and
message are still exact, and whether APPROVE and SEND hold a YES. Each sync has a label `pc`,
the rows with a YES it has pulled (`read`), the drafts it is through with, the one it is at with
the status it read, and the snapshot it will write. `earned` and `troubled` only record what
happened.

| code | actions |
| --- | --- |
| `sync` | `Begin` ... `Clear`; `Fail` is its `except`, or the death of its process |
| `_pull_actions` | `ReadLeads`, `ReadOutreach` (one request per tab); `Action` merges the copies; `Look` reads the draft, `Apply` approves or queues, and the methods it calls check the status again |
| `_snapshot` | `TakeSnapshot` |
| `values().batchUpdate`, `batchClear` | `Write`, `Clear`; `WriteUnheard` when the answer is lost and `retry_call` writes again |
| the operator | `TypeInLeads`, `TypeInOutreach`, `EditMessage` between any two requests |
| the rest of the draft's life | `SaveDraft`, `CabinetApprove`, `Deliver` |

Nothing keeps two syncs apart: the worker, the event loop and jobs of the cabinet each run
their own. Left out: the rows of other leads and their order, tabs that are only written,
formatting. The races between two approvals are in `OutreachSend`; here `Apply` is one
step, so that what fails is the panel's fault alone.

### OAuthTokens and TokenFamilies

`OAuthTokens` is `PersistentOAuthProvider`. Rows are never updated, so a table is the set
of the numbers of its rows: a pending request and the code it becomes carry the number of
the grant, an access token and the refresh token issued with it that of the pair. A request
of the token endpoint, which belongs to the mcp library, keeps what it has loaded in `hand`;
each method of the provider is one transaction.

| code | actions |
| --- | --- |
| `authorize`, `pending_authorization`, `complete_authorization` | `Authorize`, `CleanUp`, `Approve`, `Deny` |
| `load_authorization_code`, `load_refresh_token`, `load_access_token` | `LoadCode`, `LoadRefresh`, `LoadRevoke` |
| `exchange_authorization_code`, `exchange_refresh_token` | `ExchangeCode`, `ExchangeRefresh`; `ExchangeFails` when the DELETE finds no row |
| `revoke_token` | `Revoke` |
| `_cleanup_expired`, called first by most of them | `CleanAll`, `CleanTokens` |
| the library, restarts, time | `GiveUp`, `Tick` |

`revoke_token` is modelled although `build_mcp_auth` leaves the library's revocation route
off: it is part of the provider, and switching the route on must not break the families. A
second use of a refresh token is refused; it does not end the family, in the code as here.

`TokenFamilies` is what a client may rely on: a consent is redeemed at most once, a family
has at most one live refresh token, and what lapsed does not come back. The refinement
mapping `Promise` ignores rows that have expired but are not deleted yet, so clean-up is a
stutter and the clock's tick a `Lapse`.

### WorkspaceAccess

Members, invitations and the cookie of each user's browser, over `OAuthTokens`: the
consent page of the OAuth server asks for a session of the cabinet.

| code | actions |
| --- | --- |
| `complete_login` with `authorize_workspace_identity` | `SignIn`: `Joins` by invitation or by the allowed e-mails, `Returns` |
| `auth_logout` | `SignOut` |
| `_get_user`, `_session_user` | `Fresh`, `Signed`: a session ends with the identity provider's token |
| `admin_endpoint`, `_require_owner` | `Begin`, `Admitted`: the cookie is looked at, and with it the role it names; `Abandon` when the request is refused for what it asked or breaks off |
| `_read_json` | the steps of the others between `Begin` and the action that ends the request |
| `api_invite_workspace_member`, `invite_workspace_member` | `Invite`, which replaces a pending one |
| `api_update_workspace_member`, `update_workspace_member_role` | `ChangeRole`, with `LastOwner` |
| `oauth_authorize_complete` | `Decide`: it awaits the body first and then asks whether the session, as the request brought it, has expired |

A request is two actions. `Begin` puts the cookie it came with into `held`, with the time;
the body may then take any time, in which sessions end, roles change and invitations expire;
the action that follows uses what is held, and nothing is read again but what the method of
`SalesCRM` reads in its transaction. `Begin` stands for `admin_endpoint` and for the arrival
of a consent alike, and what is held serves either. A user has one such request under way at
a time, which is a bound: each property is about one request. `Offered` are the roles an
invitation or a change gives, all three in the code. Left out: the hand-off
of a sign-in between two hosts (`issue_login_handoff`, `consume_login_handoff`: one
dictionary in memory, popped under a lock), the audit log, and the tools of MCP, which read
the role anew in each call.

### LeadDesk

Leads and campaigns as every row ever inserted with a flag `live`; three writers
(the tool the event loop runs, a cycle, the inbox synchronisation) with a label `at` and a
`job`; the cycle's row and the room left in its target; the reset.

| code | actions |
| --- | --- |
| `sales_search_companies`, `sales_import_leads` | `ToolBegins`, then `Find`, `Write` or `WriteFails` per listing |
| `find_duplicate_lead`; `upsert_lead` | `Duplicate` by host, telephone number, or name and region if these are `Cautious`; `Find` and `Write` (`Inserts`, `Merges`) are its two connections; a merge adds the numbers and, where there is none, the region |
| `sync_whatsapp_inbox` | `ContactWrites`, for a number that is not that of one lead |
| `run_cycle`, `_process_vertical`, `_inspect_candidate` | `CycleBegins`, `Vertical`, `Discover`, `Consider`, then `Find`, `Write`, `SaveInspection`; `VerticalEnds`, `CycleEnds` |
| `save_analysis`, `update_lead_status`, `sales_inspect_website` | `SaveAnalysis`, `UpdateStatus`, `Inspect` |
| `preview_prospecting_reset`, `reset_prospecting_data` | `Preview`, `BackUp`, `Commit`, `ResetFails` |
| `remove_production_safe_check_artifacts`, from `production_check.py` | `RemoveCheckArtifacts`, in a process of its own |
| time and faults | `EvidenceExpires`, `Crash` |

The server's own discovery is on. One cycle works at a time: `AutopilotCycle` shows when
that is so. A listing is what a search returns; `Site`, `Phones`, `Name` and `Location` give
the keys that `data_quality.py` computes from it, so its normalisation is a constant.
`_sync_lead_lookup_keys` follows every write of a name, a region or contacts in the same
transaction, so the keys of a lead are its own fields (`Keys`). The search for a duplicate
and the write are two connections; `overtaken` records the writers that had searched when a
lead was inserted or the keys of one changed. The production check deletes the leads whose
source is 'production-safe-check' ("check"). Nothing in the repository writes that source any
more, but an import takes any source it is given, so such leads come with an import here. The
check's forced cycle is the cycle of the module. Left out:
scores, notes, ranks, the status of a campaign, and the rows that hang on a lead. The
reset's switch is left out too: it asks that Autopilot be off, which does not end the cycle
that runs.

### CompanyMemory

The company's profile, knowledge items and explicit answers, the row's revision and what
was confirmed of it, and the settings of the agent that a confirmation fills. Each caller
has a label `step`, what it has `read`, what it was `given` and what it is `writing`.

| code | actions |
| --- | --- |
| `update_company_profile` | `UpdateProfile`: its INSERT OR IGNORE takes the lock before the row is read |
| `save_company_knowledge` | `SaveLook`, `SaveWrite`: the search for the same item precedes the transaction |
| `record_company_onboarding_answer` | `AnswerLook`, `AnswerWrite`, for the same reason |
| `archive_company_knowledge`, `update_conversation_agent_settings` | `Archive`; `UpdateSettings`, any number of fields in one UPDATE |
| `get_company_onboarding_state` | `ReadProfile`, `ReadAnswers`, `ReadCounts`, and `ShowState` with the list: four connections |
| `complete_company_onboarding` | the same reads, then `CheckState` with the revision and hash it was given, and `ConfirmWrite` |

The requests of one server do not interleave; the model lets every caller stop between any
two connections, as a second process on the file (a script, a restarted server beside the
old one) could, and what it shows holds all the more for one. The hash of a summary is the
summary. `list_company_knowledge` returns the newest `MaxListed` items, 500 in the code:
what lies beyond is confirmed unseen, but still withdraws the confirmation when it changes.

`ReviewedFacts` is the same onboarding with every review and every confirmation in one step:
what was asked is confirmed if it is the true summary now and enough to sell with, and is
otherwise refused; a refusal has no effect. A review may return a mixture that was never
true, but only under an old number. The mapping takes `Current`, which is what one
uninterrupted read would return, for the facts, and what a caller was given for what it
asked; the four reads are stutters.

`MCOutreachSend`, `MCAgentInbox`, `MCWorkspaceAccess` and `MCCompanyMemory` add symmetry
sets for TLC, `MCLeadDesk` the listings of its instance; the others need none.
`MCWorkspaceAccess` and `MCLeadDesk` also have a VIEW that leaves out what no later step
asks for: invitations, cookies and rows of tokens that have expired, whether a role other
than the owner's is operator or viewer, when a role was lost that explains no request any
more; the name of a deleted lead, which deleted campaign a job names, what was overtaken
without consequence.
Operators marked "Mutant of" are not part of a specification: they are faulty variants of
the operator that follows, used to make sure that each property can be broken.

## The runs

| run | instance | result |
| --- | --- | --- |
| `send_racing` | one draft, three threads that all approve, two of them run cycles and one the tool, 2 requests, 1 fault | `SendsPaidByApprovals`, `EveryRecordIsBacked` hold and the send path implements `DeliveryLedger` (916,021 states) |
| `send_one_approver` | a WhatsApp draft to a test recipient and an e-mail draft, one thread that approves and sends, two cycles that overlap | `NeverSentTwice`, `TerminalDraftsStay`, and under fairness `RequestsSettle`, `ClaimsSettle` hold (173,758 states) |
| `send_twice` | two threads that approve, one sends | **violated**: `NeverSentTwice` |
| `inbox_one` | one message, two leads, 2 drafts, 1 retry, 1 crash, 2 attempts | `DraftedLeavesQueue`, `OneAgentReply`, `InboundLoggedOnce`, `TurnsAreDecisions`, `RetryBudget`, `LiveLeaseIsRespected` hold, the inbox implements `LeasedQueue`, `QueueDrains` under fairness (326,855 states) |
| `inbox_stale_answer` | one message that grows old | **violated**: `NoStaleAnswer` |
| `autopilot_cycles` | worker, tool and one job, 3 cycles, 1 stop or reset, any number of crashes | `LockNamesARunningCycle`, `OneRunningCycle`, `SettledCyclesStay`, and under fairness `CyclesEnd` hold (333,268 states) |
| `autopilot_orphan` | 2 cycles, 1 stop | **violated**: `EveryRunningCycleIsRecoverable` |
| `autopilot_mode` | 1 cycle | **violated**: `SafeModeNeverSends` |
| `access` | two users and e-mails, one of them allowed, 1 invitation, 2 role changes, one request of each user under way; one client, two token requests, 1 grant, 3 pairs, 2 ticks | `OnlyNewestPairAnswers`, `RevokedFamiliesStayDead`, `AnOwnerRemains`, `OwnersDecide` hold and the server implements `TokenFamilies` (623,735 states under the view) |
| `panel` | two syncs, 2 drafts, 2 edits, 1 fault | `ApproveAndSendAreTwoEdits`, `ExactCopiesOnly`, and under fairness `CellsSettle` hold (771,000 states) |
| `desk` | two addresses of one host, one found in a region and one without; a twin of the same name in that region on another host; a third host with the number of the second address; a contact with that number; 2 leads, 2 campaigns, 1 change, expiry or crash; a queue limit below the target | `OneLeadPerCompany`, `ServerRespectsQueue`, `NoLeadWithoutCampaign`, `ResetDeletesWhatItBackedUp` hold (3,152,254 states under the view) |
| `memory` | two callers, two items, one value per field, 3 revisions, 2 reviews | `ReadyIsExact` holds and the onboarding implements `ReviewedFacts` (1,316,310 states) |

Why the bounds are enough to be interesting. Drafts do not interact except through the order of
the queue, which two requests show; every race of the pipeline is between two threads, and the
third lets a race meet a fault. Two attempts show both sides of the budget's comparison, one
retry its reset. One tick per lease lets a lease run out between any two transactions. `MaxAge`
is larger than the lease, so an event can be requeued and also quarantined. Three cycles allow a
slow runner, its successor and the successor's successor. Three pairs let a family rotate while
the second request holds its first refresh token, and the access token is shorter-lived than the
refresh token; two role changes are what two owners need to demote each other. Two edits are a
YES in each tab, in both cells of one row, or in a row whose copy was edited; two drafts make
the tabs disagree. Two leads are the least that can be duplicates, and that a reset can mistake
one for the other when the first is deleted and the second inserted behind its preview; the five
listings share a host, a number, or a name and region in turn, and a merge can bring a region or
a number. The imports of the instance are all made under the production check's name: such a
lead is like any other, but may be deleted. A queue limit of one below a target of two makes the
smaller of the two matter. Two role changes and one request per user let an owner whose request
waits be demoted before it goes on. Three revisions are the two changes that make a company
ready and one after its review.
`CHECK_DEADLOCK FALSE` in most runs: with every draft settled,
every message closed, Autopilot off, or the last tick or change reached, the system may stop. In
`memory` somebody can always act.

What the panel, access, desk and memory runs say beyond "it holds":

* `ApproveAndSendAreTwoEdits` is stated for syncs that neither overlap nor break off. Without
  `troubled` it fails: a YES in both cells that two syncs read is approved by the first and
  sent by the second, and so is one whose sync failed before the overwrite.
* `OwnersDecide` is about the user whose request it is. It gives the delay, not its absence:
  the cabinet reads the role from the cookie, so a demoted owner's requests are still
  admitted until the session ends. And it bounds when a request is admitted, not when it
  acts: the role and the session are not read again when the body has come. Stated of the
  time of the write, it is violated by a request whose body comes later than a session
  lasts. Nothing in the code limits that wait. `AnOwnerRemains` holds nevertheless, because
  the check counts the rows.
* `OneLeadPerCompany` is about inserts. What the two connections of `upsert_lead` allow is
  the exception it names: a search that was overtaken, by an insert, a merge or an analysis.
  The UNIQUE address is all that stands then. Of leads that are there it says nothing,
  because a merge that brings a region and an analysis write keys without looking for
  another lead that has them: that gives two leads a common key without any race.
* `ResetDeletesWhatItBackedUp` allows one unseen lead for each lead of the production check
  among those shown, and TLC shows that the bound is reached: such a lead is shown and
  backed up, the check removes it, an import brings another company, the counts are equal
  again, and the commit deletes a lead that nobody was shown and no backup holds. Without
  leads of that source in the preview the reset deletes what it showed and backed up.
* `ServerRespectsQueue` counts what a cycle accepted. The whole queue may exceed the limit:
  tools of ChatGPT do not ask for it, and a lead whose evidence is refused after the insert
  stays in the queue without counting.
* `ReadyIsExact` is about what comes between a review and its confirmation, two calls of one
  operator with any number of others between them. It would hold for a second process on the
  file as well: the UPDATE of `complete_company_onboarding` asks for the revision, so a
  state put together from two moments carries an old one and matches no row.

### What the violated runs show

* `send_twice`: two approvals of one draft overlap (the cabinet, and a Sheets sync in the
  worker or a job). The first is written, the draft is claimed and sent, and then the
  second UPDATE, by id, makes it "approved" again. The docstring of
  `claim_outreach_draft_for_send` promises that duplicate calls cannot send a draft twice.
  `SendsPaidByApprovals` is what does hold: each delivery had an approval of its own.
* `inbox_stale_answer`: `src/README.md` says that messages older than
  `max_inbound_age_hours` are quarantined instead of being answered. Neither
  `submit_decision` nor `save_agent_reply_draft` looks at the age or at the lease, so a
  decision that comes after both have run out, but before the next recovery, is taken.
* `autopilot_orphan`: a cycle begins between the SELECT and the UPDATE of `stop_autopilot`.
  The stop clears the lock and the current cycle of the new one; if its runner then dies,
  the row says "running" for ever, while `src/README.md` says such cycles are recovered.
* `autopilot_mode`: `_finalize_cycle_work` uses the mode the cycle began in. After the
  operator has switched to SAFE that cycle still processes the send queue, which SAFE
  "never" does by `src/README.md`.

## Fairness

* `OutreachSend`: a begun operation goes on (SQLite writers wait at most `busy_timeout`, the
  bridge call has a timeout), and a worker comes back to the queue every poll interval.
  Nothing is assumed of the operator, the tool or the bridge's answer.
* `AgentInbox`: time passes, the worker's loop comes back to the recovery, and a request of
  the server goes on. ChatGPT may never submit and the operator may never act.
* `AutopilotCycle`: time passes, a stop that began writes, the worker keeps coming back to
  `run_cycle` (docker restarts it), and the work of a cycle ends or raises, since every
  request it makes has a timeout. `CyclesEnd` holds with any number of crashes.
* `SheetsPanel`: a running Autopilot syncs again and again at the end of its cycles, and a
  sync that began goes on, since each request to Google is answered, retried a few times or
  fails. Nothing is assumed of the operator or of syncs on demand.

`RequestsSettle` speaks only of deployments with both send flags on, where the worker's
mode is not SAFE; `ClaimsSettle` only of runs without a fault, because no code looks for
drafts a crash left "sending"; `CyclesEnd` and `OneRunningCycle` exclude the race of
`autopilot_orphan` by the history variable `raced`.

## What is proved

`OutreachSendProofs` proves the following for every set of drafts, every finite set of
threads and every bound, from `ProcsAssumption` and `DraftsAssumption` only.

| theorem | statement |
| --- | --- |
| `TypeCorrect` | `Spec => []TypeOK` |
| `PaidByApprovals` | `Spec => []SendsPaidByApprovals` |
| `OneApproverSendsOnce` | `SingleApprover => (Spec => []NeverSentTwice)` |
| `OneApproverClaimsAlone` | `SingleApprover => (Spec => []ClaimIsExclusive)`, which no run checks alone |
| `OneApproverTerminal` | `SingleApprover => (Spec => TerminalDraftsStay)` |
| `RecordsAreBacked` | `Spec => []EveryRecordIsBacked` |
| `HistoryIsConfirmed` | `Spec => []HistoryIsReal`, now part of the refinement |
| `OneCopyPerApprover` | `Spec => [](\A d \in Drafts : delivered[d] <= Cardinality(Approvers))`, without `SingleApprover` |
| `OutreachImplementsLedger` | `Spec => ImplementsLedger`, the refinement of `DeliveryLedger` |

* `TypeInv` adds to `TypeOK` that a thread inside an operation has a draft in hand
  (`InHand`) and that a snapshot names existing requests (`Snapshots`); without them
  `status[cur[p]]` is not typed.
* `PaidInv` is an accounting: deliveries, plus the threads that hold a claim and have not
  called the bridge, plus one if the draft is "approved", never exceed the approvals. An
  approval buys one coin, a claim takes it, the call spends it, a release gives it back.
  `SendsPaidByApprovals` alone is not inductive: it forgets the coins not yet spent. A
  second approval may overwrite a claim, and the accounting still holds; it makes the
  theorem true without any assumption on the number of approvers. The lemmas on
  `Cardinality` of the set of claiming threads need the set of threads finite.
* `OnceInv` is for one approving thread. It says that a draft is approved at most once,
  that a thread about to write an approval still finds a "draft", that a claim is
  exclusive, that queue labels belong to threads of the queue, and that the error handler
  never finds the draft "sending": after the mark, the draft is settled. With
  `PaidInv`, one approval then means one delivery.
* `Answers` says what a thread holds between the call and the tables it writes: a success
  names a draft the bridge confirmed, and a request in hand is for the draft in hand. With it
  `EveryRecordIsBacked` is inductive. `LogInv` counts the threads that heard a confirmation
  and have not logged it: with the rows of the history they never exceed the confirmations,
  which `HistoryIsReal` alone would not keep.
* `ApproversInv` bounds the damage of approvals that overlap: the approvals of a draft, plus
  the threads that have read "draft" and not written yet, never exceed the threads that may
  approve, because once one has written no other can read "draft". With `PaidInv`, WhatsApp
  takes a draft at most once per approving thread, and `OneApproverSendsOnce` is the case of
  one. TLC's `send_twice` shows that the bound is reached.
* The refinement needs the three invariants together. A call of the bridge is a `Deliver`
  because `PaidInv` leaves an approval unspent while a claim is in hand; a mark, a completed
  request, a resolved event or a follow-up is a `Tell` because of `Answers`, or none if
  another table said so before; an entry of the history is an `Enter` because of `LogInv`.
  An approval that overwrites "sent" is an `Approve` that takes the word back.

`SingleApprover` is not met by a deployment whose Sheets panel is on: syncs run in the
worker and in jobs. The three theorems say what a serialized approval would give, and
`send_twice` shows that the assumption is needed. `PaidInv` and `OnceInv` were checked
by TLC before they were proved.

`AutopilotCycleProofs` proves the safety of the cycles for every set of jobs, every lock
time and interval, any number of cycles, stops, resets and crashes, from `CycleAssumption`
only.

| theorem | statement |
| --- | --- |
| `CycleTypes` | `Spec => []TypeOK` |
| `LockIsNamed` | `Spec => []LockNamesARunningCycle` |
| `CyclesApart` | `Spec => []OneRunningCycle` |
| `SettledForGood` | `Spec => SettledCyclesStay` |
| `RunnersApart` | `Spec => []OneRunnerAtWork`, which no run checks |
| `LocksReleasedByOwner` | `Spec => OwnLockReleased`, which no run checks |

* `LockInv`, the conjunction of the two invariants, is inductive beside `TypeOK`, which
  keeps the cycles' ids apart from "no cycle": every transaction that writes
  `autopilot_cycles` also writes the state row, and either clears it or points it at the
  row just inserted. That a step clears the row is enough for `LockNamesARunningCycle`
  (`ClearedLock`), but for `OneRunningCycle` it must also have settled the cycle that ran.
  `complete_autopilot_cycle` clears the row whichever cycle it names, and the argument is
  that the cycle it found running is then the only one; the recovery in
  `begin_autopilot_cycle` fails the cycle the row names, and the argument is that no other
  can run. `StopWrite` fails the cycle it saw before its transaction: where another one
  has begun since, `raced` is set and `OneRunningCycle` says nothing more, while
  `LockIsNamed` still holds.
* `NextGrows` says of every step that no row of `autopilot_cycles` is lost and that a
  settled one is kept or deleted: `complete_autopilot_cycle` and the recovery ask for
  `status='running'` in their UPDATE. `SettledForGood` follows.
* The lock is never compared again by the thread that took it, so a runner that outlives it
  goes on beside its successor. `HeldInv` says that no two runners hold one row; with
  `LockInv` at most one of them holds a row that still counts (`RunnersApart`), and the only
  lock a completion can clear is then its own (`LocksReleasedByOwner`).

`OAuthTokensProofs` is about the OAuth server alone, for any users, clients, requests,
lifetimes and bounds, from the assumptions of `OAuthTokens` only; `WorkspaceAccessProofs`
is about its composition with members, invitations and sessions.

| theorem | statement |
| --- | --- |
| `TablesTyped` | `OAuthSpec => []TypeOK` |
| `OnlyTheNewestPairAnswers` | `OAuthSpec => []OnlyNewestPairAnswers` |
| `RevokedStaysDead` | `OAuthSpec => []RevokedFamiliesStayDead` |
| `ClientsKeepTheirTokens` | `OAuthSpec => []TokensStayWithClient`, which no run checks |
| `OAuthImplementsFamilies` | `OAuthSpec => ImplementsFamilies`, the refinement of `TokenFamilies` |
| `ServerInWorkspace` | `Spec => OAuthSpec`: the cabinet leaves the server a behaviour of its own |
| `WorkspaceTokens` | the four facts about tokens, of the workspace's `Spec` |
| `AccessTypes` | `Spec => []AccessTypeOK` |
| `SomeOwnerRemains` | `Spec => []AnOwnerRemains` |
| `OnlyOwnersDecide` | `Spec => OwnersDecide` |

* `StepTokens` sorts the steps into those that issue, rotate, revoke and only take away.
  `OnlyNewestPairAnswers` is inductive because a rotation looks for the row of the token
  it was given once more, in the transaction that deletes the family's rows: what a
  request loaded earlier plays no part. `ConsentsOK` is the strengthening for clients: what
  a request holds, and what a row of tokens says, is what the consented grant says.
* The refinement maps codes and rows of tokens to `TokenFamilies`; its invariant is
  `ImplInv`, and `StepMaps` maps each step to one of the families or to none. Clean-up is a
  stutter, since it takes only what has expired.
* `AccessInv` adds to the owner's property that nobody is invited into an empty workspace,
  that a session which says "owner" began while its user was one (`OwnersSignedIn`), that no
  session and no request began in the future, and that a request which was admitted as an
  owner's is explained by its user's role or by its loss (`OwnersAdmitted`). `Begin` gives
  the last from the two before it and the lifetime of the session; a demotion while the body
  is awaited keeps it, because it is the loss that explains. The last owner stays because
  `update_workspace_member_role` counts owners in its own transaction.

`LeadDeskProofs` proves all of `LeadDesk`, for any listings, keys, results of searches,
limits and bounds, from `DeskAssumption` only.

| theorem | statement |
| --- | --- |
| `DeskTypes` | `Spec => []TypeOK` |
| `OneLead` | `Spec => OneLeadPerCompany` |
| `QueueRespected` | `Spec => []ServerRespectsQueue` |
| `NoProspectWithoutCampaign` | `Spec => []NoLeadWithoutCampaign` |
| `ResetIsWhatWasShown` | `Spec => ResetDeletesWhatItBackedUp` |

* `JobsOK` makes the types inductive: a writer between its search and its save has a
  listing in hand and a place for its leads, and a cycle has room left.
* For `OneLead`, `SearchOK` says that a writer which found nothing and was not overtaken is
  still right: no live lead shares a key with its candidate. The search gives it
  (`DuplicateFound`); another writer's insert, merge or analysis either leaves every key as it
  is (`KeysKept`) or takes its premise away; deletions only help. The step that inserts is
  one writer's (`OneWriter`), and its newcomer differs from every lead that is there
  (`NewcomerDiffers`). Addresses need none of this: the INSERT refuses one that is taken.
* For `QueueRespected`, `RoomOK` counts the leads accepted and untouched together with the
  room of the vertical at work. Only the count of the queue makes room, only a saved
  inspection uses it, and nothing else adds to either: what ChatGPT imports while the
  vertical runs is not part of the sum.
* For `ResetIsWhatWasShown`, `ResetOK` says that what the preview showed is still there and
  in the backup, unless it was a lead of the production check. Of two finite sets of one
  size neither has more of its own than the other (`EqualRests`): the prospects that were not
  shown are as many as the shown that are gone, and these are leads of the check.

`AgentInboxProofs` proves every safety property of `AgentInbox`, for any messages, leads,
leases, ages, limits and bounds, from `InboxAssumption` only.

| theorem | statement |
| --- | --- |
| `InboxTypes` | `Spec => []TypeOK` |
| `LeasesAndProcessing` | `Spec => []LeaseIffProcessing`, which no run checks alone |
| `DraftedStaysOut` | `Spec => []DraftedLeavesQueue` |
| `ClosedStays` | `Spec => ClosedStaysClosed`, now part of the refinement |
| `InboxImplementsQueue` | `Spec => ImplementsQueue`, the refinement of `LeasedQueue` |
| `LiveLeases` | `Spec => LiveLeaseIsRespected` |
| `OneReply` | `Spec => []OneAgentReply` |
| `LoggedOnce` | `Spec => []InboundLoggedOnce` |
| `BudgetIsKept` | `Spec => []RetryBudget` |
| `TurnsCounted` | `Spec => []TurnsAreDecisions` |

* `InHand` makes the types inductive: a request past its first transaction has an event, a
  decision has a verdict, a draft about to be saved has its place.
* `StepMoves` reduces all actions to what they do to the row of one event: it is kept,
  arrives, is released by a recovery, claimed, finished, answered or handled by the
  operator. The theorems on the queue are then about these seven moves.
* `QueueInv` is the strengthening: `finish_agent_inbox_event` names the row by its id alone,
  so the proof must show that nobody drafted or closed the event since the server read it.
  `Returnable` says so: the decisions are the server's own, one request at a time, and all
  the worker may do to an event between two transactions of one is to give it back or
  escalate it.
* For `OneReply`, an event the agent drafted for keeps a draft (`AgentDraftsLinked`): it is
  linked by the transaction that inserts it, which looks for one first, and the operator
  can only replace it. For `BudgetIsKept`, an event is never handed over more often than
  it was claimed (`Budget`).
* For `TurnsCounted`, the two counts differ by the transaction a decision is short of
  (`TurnsCount`). A decision on an event without a lead would count no turn, and
  `LeadlessRejected` shows that there is none unless the server crashed: the claim that
  meets such an event rejects it before its request ends.
* The refinement of `LeasedQueue` takes the actions one by one; every recovery is one
  `TakeBack`, also the one at the head of a batch, and the claims of the batch are a `Take`
  each. A reply goes out of a lease because the transaction that links the draft asks for the
  status once more, and is the only one because a draft of the agent belongs to a row that
  names a draft (`ReplyInv`); a hand-over stays in the budget by `Budget`. `LinkedRow` is
  the one new invariant: the event the operator's second transaction links is still there.

`CompanyMemoryProofs` proves all of `CompanyMemory`, for any fields, items, answers, callers
and bounds, from `MemoryAssumption` only.

| theorem | statement |
| --- | --- |
| `MemoryTypes` | `Spec => [](TypeOK /\ FactsKnown)` |
| `ReadyMeansConfirmed` | `Spec => []ReadyIsExact` |
| `ReviewsAreTrue` | `Spec => []FreshReviewsAreTrue`: a shown summary that bears the current revision is true |
| `SettingsFromConfirmed` | `Spec => AgentGetsWhatWasConfirmed` |
| `MemoryImplementsReviewedFacts` | `Spec => ImplementsReviewedFacts`, the refinement of `ReviewedFacts` |

* `FactsKnown` makes the types inductive: an item that is active says something, and so does
  one that is about to be written.
* `ReadyIsExact` is inductive beside `CallersInv`: as long as the revision is the one a
  caller read first, all it has read since is what the CRM says now (`StillSo`), and a
  caller that is about to confirm holds what it was given, which was shown before it began
  to read (`MayConfirm`).
  `StepsSorted` divides the steps into those that change a fact, all of which count and
  withdraw the confirmation (`FactStep`), those that change none (`QuietStep`), and the
  reads. `StillSo` needs every writer to count in the transaction that writes; nothing is
  needed of the order of the four reads.
* In the refinement a confirmation takes effect at its last step. If the UPDATE matches, the
  revision is the caller's and `StillSo` makes what it holds the true summary
  (`ConfirmedAtOnce`). A refusal must be right as well: under the caller's own revision it
  has read what is so, so the comparison did not fail by accident; under a later one, what it
  was given is older than what is so, because no summary is from the future (`ShownBefore`,
  `RefusedRightly`). So no operator is refused because a review was badly timed.

`SheetsPanelProofs` proves the safety of `SheetsPanel`, for any number of syncs, drafts, edits
and faults, from `PanelAssumption` only.

| theorem | statement |
| --- | --- |
| `PanelTypes` | `Spec => []TypeOK` |
| `ExactOnly` | `Spec => ExactCopiesOnly` |
| `TwoEdits` | `Spec => []ApproveAndSendAreTwoEdits` |

* `TypeInv` is inductive because rows are bounded by the drafts there are, not by the bound
  of the model: a sheet, a snapshot and what a sync has read show only drafts that were saved,
  and never more rows than drafts.
* `Unearned` are the drafts that were approved by a cell of the panel and had no SEND typed
  since. `Calm` keeps them away from the syncs, as long as these neither overlap nor break
  off: only a sync that has read all of its cells and is through with the draft makes one
  (`ApplyCalm`), no other sync is reading then (`OneSync`), and it wipes the cells before it
  ends (`WriteCalm`). That needs the snapshot to be as long as the sheet (`SnapLong`): rows
  below it would keep their SEND until the next request.
* `ExactInv`: a sync that is about to apply an action has found all copies of it exact, and
  reads no cell again until it has applied it.

Only model-checked: liveness, which is beyond the prover.

## Not modelled, and why

Pure functions of text (scoring, quality gates, parsing), reports, the playbook, search and
inspection of web sites (I/O), token cryptography, client registration, scopes and PKCE,
shell and deployment scripts, the vendored libraries and the inside of the WhatsApp bridge.
What the models need of them is a nondeterministic choice.

Two parts with a state of their own are left for later. The interview of onboarding (which
questions are open, three of them at a time, and the two chats that are sent from setup to
sales): `CompanyMemory` takes any answer at any time and models only the rule of readiness.
The registry of the cabinet's jobs, which drops the oldest of more than 100 jobs although it
may still run: it only loses the job's status page, and what the jobs do is in
`AutopilotCycle` and `SheetsPanel`.

## Plan

Done: `OutreachSend` as a refinement of `DeliveryLedger`, `AgentInbox` of `LeasedQueue`,
`OAuthTokens` of `TokenFamilies`, `CompanyMemory` of `ReviewedFacts`, `AutopilotCycle`,
`SheetsPanel`, `WorkspaceAccess`, `LeadDesk`, and the eight modules of proofs.

1. The inbox and the send pipeline in one module: a reply that leaves through the queue
   does not resolve the event it answers (`autopilot.py:237`).
2. The interview with the two chats, and the job registry with its audit log.
3. Proofs that go with items 1 and 2.
