----------------------------- MODULE SheetsPanel ------------------------------
(***************************************************************************)
(* The Google Sheets panel (src/app/google_sheets.py): the operator types   *)
(* YES in the cells APPROVE and SEND, a sync pulls them, applies them to    *)
(* the CRM and then replaces what the sheet shows.                         *)
(*                                                                         *)
(* Syncs run at the end of each cycle and on demand, in the worker, on the *)
(* event loop and in background jobs; nothing keeps two of them apart.     *)
(* Every request to Google is a step of its own: the operator types, and   *)
(* other syncs run, between any two.                                       *)
(*                                                                         *)
(* One lead with its drafts, numbered in the order they were saved, is     *)
(* shown in two tabs: LEADS, whose row shows the newest draft that is not   *)
(* sent, and OUTREACH, with a row per draft, the newest first.  A row's     *)
(* recipient and message are "exact" or have been edited.  The other tabs  *)
(* and columns are only written.  A draft's life outside the panel is that *)
(* of OutreachSend, in steps of one transaction.                           *)
(***************************************************************************)
EXTENDS Integers, Sequences, FiniteSets

CONSTANTS
    Syncs,       \* threads that run a sync
    Worker,      \* the one that comes back by itself
    MaxDrafts,   \* bound: drafts saved
    MaxEdits,    \* bound: edits of cells by the operator
    MaxFaults    \* bound: requests that fail for good, answers that are lost

ASSUME PanelAssumption ==
    /\ Worker \in Syncs
    /\ MaxDrafts \in Nat \ {0} /\ {MaxEdits, MaxFaults} \subseteq Nat

VARIABLES
    status,    \* outreach_drafts.status, by the number of the draft
    queued,    \* drafts with a send request made through the panel
    leads,     \* the lead's row in LEADS
    outreach,  \* the rows of OUTREACH
    pc,        \* where each sync is
    read,      \* the rows with a YES it has pulled
    handled,   \* the drafts it is through with
    cur,       \* the draft it is at, with the status it read
    snap,      \* the snapshot it will write
    \* what happened, for the bounds and the properties only
    edits, faults,
    earned,    \* approved in the cabinet, or SEND was typed after the approval
    troubled   \* syncs overlapped, or one did not end

crm == <<status, queued>>
sheet == <<leads, outreach>>
threads == <<pc, read, handled, cur, snap>>
history == <<edits, faults, earned, troubled>>
vars == <<crm, sheet, threads, history>>

Drafts == DOMAIN status
Statuses == {"draft", "approved", "sent"}
Labels == {"idle", "leads", "outreach", "act", "apply", "write", "clear"}

Row(d) == [draft |-> d, exact |-> TRUE, approve |-> FALSE, send |-> FALSE]
Blank == Row(0)
Rows == [draft : 0 .. MaxDrafts, exact : BOOLEAN, approve : BOOLEAN, send : BOOLEAN]
NoSnapshot == [leads |-> Blank, outreach |-> <<>>]
NoDraft == [draft |-> 0, before |-> "none"]

\* _snapshot: the control cells are always empty.
Unsent == {d \in Drafts : status[d] \in {"draft", "approved"}}
Newest(S) == CHOOSE d \in S : \A e \in S : e <= d
Snapshot ==
    [leads |-> IF Unsent = {} THEN Blank ELSE Row(Newest(Unsent)),
     outreach |-> [i \in Drafts |-> Row(Len(status) + 1 - i)]]

TypeOK ==
    /\ status \in Seq(Statuses) /\ Len(status) <= MaxDrafts
    /\ queued \subseteq Drafts /\ earned \subseteq Drafts
    /\ leads \in Rows /\ outreach \in Seq(Rows)
    /\ pc \in [Syncs -> Labels]
    /\ read \in [Syncs -> SUBSET Rows]
    /\ snap \in [Syncs -> [leads : Rows, outreach : Seq(Rows)]]
    /\ handled \in [Syncs -> SUBSET Drafts]
    /\ \A s \in Syncs : pc[s] = "apply" => cur[s].draft \in Drafts /\ cur[s].before \in Statuses
    /\ edits \in 0 .. MaxEdits /\ faults \in 0 .. MaxFaults
    /\ troubled \in BOOLEAN

\* One draft is shown; the operator may have edited a copy of its message.
Init ==
    /\ status = <<"draft">>
    /\ queued = {} /\ earned = {}
    /\ leads = Row(1)
    /\ outreach \in {<<[Row(1) EXCEPT !.exact = e]>> : e \in BOOLEAN}
    /\ pc = [s \in Syncs |-> "idle"]
    /\ read = [s \in Syncs |-> {}]
    /\ snap = [s \in Syncs |-> NoSnapshot]
    /\ handled = [s \in Syncs |-> {}]
    /\ cur = [s \in Syncs |-> NoDraft]
    /\ edits = 0 /\ faults = 0 /\ troubled = FALSE

-------------------------------------------------------------------------------
\* The operator

Type(row, cell) ==
    /\ row.draft # 0 /\ ~ row[cell]
    /\ edits < MaxEdits
    /\ edits' = edits + 1
    /\ earned' = IF cell = "send" /\ status[row.draft] = "approved"
                 THEN earned \cup {row.draft} ELSE earned
    /\ UNCHANGED <<crm, threads, faults, troubled>>

TypeInLeads(cell) ==
    /\ Type(leads, cell)
    /\ leads' = [leads EXCEPT ![cell] = TRUE]
    /\ UNCHANGED outreach

TypeInOutreach(i, cell) ==
    /\ Type(outreach[i], cell)
    /\ outreach' = [outreach EXCEPT ![i][cell] = TRUE]
    /\ UNCHANGED leads

EditMessage(i) ==
    /\ outreach[i].exact
    /\ edits < MaxEdits
    /\ edits' = edits + 1
    /\ outreach' = [outreach EXCEPT ![i].exact = FALSE]
    /\ UNCHANGED <<crm, leads, threads, faults, earned, troubled>>

\* approve_outreach_draft in the cabinet
CabinetApprove(d) ==
    /\ status[d] = "draft"
    /\ status' = [status EXCEPT ![d] = "approved"]
    /\ earned' = earned \cup {d}
    /\ UNCHANGED <<queued, sheet, threads, edits, faults, troubled>>

\* save_outreach_draft, by ChatGPT
SaveDraft ==
    /\ Len(status) < MaxDrafts
    /\ status' = Append(status, "draft")
    /\ UNCHANGED <<queued, sheet, threads, history>>

\* _process_send_requests
Deliver(d) ==
    /\ d \in queued /\ status[d] = "approved"
    /\ status' = [status EXCEPT ![d] = "sent"]
    /\ UNCHANGED <<queued, sheet, threads, history>>

-------------------------------------------------------------------------------
\* A sync

Idle(s) ==
    /\ pc' = [pc EXCEPT ![s] = "idle"]
    /\ read' = [read EXCEPT ![s] = {}]
    /\ snap' = [snap EXCEPT ![s] = NoSnapshot]
    /\ handled' = [handled EXCEPT ![s] = {}]
    /\ cur' = [cur EXCEPT ![s] = NoDraft]

Goto(s, label) == pc' = [pc EXCEPT ![s] = label]

Begin(s) ==
    /\ pc[s] = "idle"
    /\ Goto(s, "leads")
    /\ troubled' = (troubled \/ \E t \in Syncs : pc[t] # "idle")
    /\ UNCHANGED <<crm, sheet, read, handled, cur, snap, edits, faults, earned>>

\* parse_action_rows: the rows with a YES
Yes(rows) == {r \in rows : r.approve \/ r.send}
OutreachRows == {outreach[i] : i \in DOMAIN outreach}

\* _pull_actions: one request per tab
ReadLeads(s) ==
    /\ pc[s] = "leads"
    /\ read' = [read EXCEPT ![s] = Yes({leads})]
    /\ Goto(s, "outreach")
    /\ UNCHANGED <<crm, sheet, handled, cur, snap, history>>

ReadOutreach(s) ==
    /\ pc[s] = "outreach"
    /\ read' = [read EXCEPT ![s] = @ \cup Yes(OutreachRows)]
    /\ Goto(s, "act")
    /\ UNCHANGED <<crm, sheet, handled, cur, snap, history>>

CopiesOf(s, d) == {r \in read[s] : r.draft = d}

\* Mutant of Action: the copies are merged by "or" throughout.
ActionOfAnyCopy(s, d) ==
    [exact |-> \E r \in CopiesOf(s, d) : r.exact,
     approve |-> \E r \in CopiesOf(s, d) : r.approve,
     send |-> \E r \in CopiesOf(s, d) : r.send]

\* The copies of a draft are merged; copies that differ fail the exact-draft check.
Action(s, d) ==
    [exact |-> \A r \in CopiesOf(s, d) : r.exact,
     approve |-> \E r \in CopiesOf(s, d) : r.approve,
     send |-> \E r \in CopiesOf(s, d) : r.send]

ToDo(s) == {r.draft : r \in read[s]} \ handled[s]

\* The loop reads the draft; an action that does not match it is rejected.
Look(s, d) ==
    /\ pc[s] = "act"
    /\ d \in ToDo(s)
    /\ handled' = [handled EXCEPT ![s] = @ \cup {d}]
    /\ IF Action(s, d).exact
       THEN /\ cur' = [cur EXCEPT ![s] = [draft |-> d, before |-> status[d]]]
            /\ Goto(s, "apply")
       ELSE UNCHANGED <<pc, cur>>
    /\ UNCHANGED <<crm, sheet, read, snap, history>>

Approves(s) == Action(s, cur[s].draft).approve /\ cur[s].before = "draft"
Sends(s) == Action(s, cur[s].draft).send /\ cur[s].before = "approved"

\* Mutants of Apply: a draft that was just approved is queued by the same action ...
ApplyBoth(s) ==
    /\ pc[s] = "apply"
    /\ LET d == cur[s].draft
       IN  /\ status' = IF Approves(s) /\ status[d] = "draft"
                        THEN [status EXCEPT ![d] = "approved"] ELSE status
           /\ queued' = IF Action(s, d).send /\ status'[d] = "approved"
                        THEN queued \cup {d} ELSE queued
    /\ cur' = [cur EXCEPT ![s] = NoDraft]
    /\ Goto(s, "act")
    /\ UNCHANGED <<sheet, read, handled, snap, history>>

\* ... or the status of the request is written to the draft.
ApplyToDraft(s) ==
    /\ pc[s] = "apply"
    /\ LET d == cur[s].draft
       IN  status' = CASE Approves(s) -> [status EXCEPT ![d] = "approved"]
                       [] Sends(s) -> [status EXCEPT ![d] = "pending"]
                       [] OTHER -> status
    /\ cur' = [cur EXCEPT ![s] = NoDraft]
    /\ Goto(s, "act")
    /\ UNCHANGED <<queued, sheet, read, handled, snap, history>>

\* approve_outreach_draft or queue_outreach_send_request; each checks the status
\* again and rejects the action when it has changed.
Apply(s) ==
    /\ pc[s] = "apply"
    /\ LET d == cur[s].draft
       IN  /\ status' = IF Approves(s) /\ status[d] = "draft"
                        THEN [status EXCEPT ![d] = "approved"] ELSE status
           /\ queued' = IF Sends(s) /\ status[d] = "approved"
                        THEN queued \cup {d} ELSE queued
    /\ cur' = [cur EXCEPT ![s] = NoDraft]
    /\ Goto(s, "act")
    /\ UNCHANGED <<sheet, read, handled, snap, history>>

TakeSnapshot(s) ==
    /\ pc[s] = "act"
    /\ ToDo(s) = {}
    /\ snap' = [snap EXCEPT ![s] = Snapshot]
    /\ read' = [read EXCEPT ![s] = {}]
    /\ handled' = [handled EXCEPT ![s] = {}]
    /\ Goto(s, "write")
    /\ UNCHANGED <<crm, sheet, cur, history>>

\* Mutant of Overwrite: the control cells of LEADS are outside the range.
OverwriteSparesCells(s) ==
    LET new == snap[s].outreach
    IN  /\ pc[s] = "write"
        /\ leads' = [snap[s].leads EXCEPT !.approve = leads.approve, !.send = leads.send]
        /\ outreach' = new \o SubSeq(outreach, Len(new) + 1, Len(outreach))

\* values().batchUpdate, from the first row; rows below stay
Overwrite(s) ==
    LET new == snap[s].outreach
    IN  /\ pc[s] = "write"
        /\ leads' = snap[s].leads
        /\ outreach' = new \o SubSeq(outreach, Len(new) + 1, Len(outreach))

Write(s) ==
    /\ Overwrite(s)
    /\ Goto(s, "clear")
    /\ UNCHANGED <<crm, read, handled, cur, snap, history>>

\* The answer is lost, so retry_call will write the same snapshot again.
WriteUnheard(s) ==
    /\ Overwrite(s)
    /\ faults < MaxFaults
    /\ faults' = faults + 1
    /\ UNCHANGED <<crm, threads, edits, earned, troubled>>

\* values().batchClear of the rows below, then the sync has succeeded
Clear(s) ==
    /\ pc[s] = "clear"
    /\ LET kept == {Len(snap[s].outreach), Len(outreach)}
       IN  outreach' = SubSeq(outreach, 1, CHOOSE n \in kept : \A m \in kept : n <= m)
    /\ Idle(s)
    /\ UNCHANGED <<crm, leads, history>>

\* A request fails for good, or the process dies.
Fail(s) ==
    /\ pc[s] # "idle"
    /\ faults < MaxFaults
    /\ faults' = faults + 1
    /\ troubled' = TRUE
    /\ Idle(s)
    /\ UNCHANGED <<crm, sheet, edits, earned>>

Step(s) ==
    \/ ReadLeads(s) \/ ReadOutreach(s)
    \/ \E d \in Drafts : Look(s, d)
    \/ Apply(s) \/ TakeSnapshot(s) \/ Write(s) \/ Clear(s)

Next ==
    \/ \E cell \in {"approve", "send"} :
         \/ TypeInLeads(cell)
         \/ \E i \in DOMAIN outreach : TypeInOutreach(i, cell)
    \/ \E i \in DOMAIN outreach : EditMessage(i)
    \/ SaveDraft
    \/ \E d \in Drafts : CabinetApprove(d) \/ Deliver(d)
    \/ \E s \in Syncs : Begin(s) \/ Step(s) \/ WriteUnheard(s) \/ Fail(s)

Spec == Init /\ [][Next]_vars

\* A running Autopilot syncs again and again, and a request to Google is answered or
\* fails: it has a timeout.
Fairness ==
    /\ WF_vars(Begin(Worker))
    /\ \A s \in Syncs : WF_vars(Step(s))

FairSpec == Spec /\ Fairness

-------------------------------------------------------------------------------
\* One edit of the operator does not both approve a draft and send it: unless syncs
\* overlap or break off, a draft is queued through the panel only if SEND was typed
\* after the approval, or the cabinet approved it (_pull_actions).
ApproveAndSendAreTwoEdits == troubled \/ queued \subseteq earned

\* The panel never approves or queues a draft while one of the flagged copies it read
\* shows another text, whichever tab the YES stands in (the merge of _pull_actions).
ExactCopiesOnly ==
    [][ \A s \in Syncs :
          pc[s] = "apply" /\ pc'[s] = "act" /\ crm' # crm =>
              \A r \in CopiesOf(s, cur[s].draft) : r.exact ]_vars

\* A YES does not stay in the panel for ever, to be applied by some later sync: it is
\* wiped, honoured or not, once the requests to Google succeed again (_snapshot, sync).
Marked == Yes({leads} \cup OutreachRows) # {}
CellsSettle == Marked ~> ~ Marked

===============================================================================
