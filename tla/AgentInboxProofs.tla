--------------------------- MODULE AgentInboxProofs ---------------------------
(***************************************************************************)
(* What TLAPS proves of AgentInbox, for any messages, leads, leases, ages, *)
(* limits and bounds: its types, that a lease and the status of its event  *)
(* go together, that what has a draft or was closed stays out of the       *)
(* queue, that the agent replies once, that a message is logged once, the  *)
(* budget of retries, and that the turns of a session are its decisions.   *)
(***************************************************************************)
EXTENDS AgentInbox, SequenceTheorems, TLAPS

Request == [step : Steps, event : Events \cup {NoEvent}, lead : Leads \cup {None},
            to : Final \cup {""}, left : 0 .. Limit]
ReplyDraft == [event : Events, lead : Leads, by : {"agent", "operator"}]
Verdicts == {"acknowledged", "needs_review", "ignored"}

\* The type invariant in parts.
RowsTyped ==
    /\ status \in [Events -> Statuses]
    /\ lead \in [Events -> Leads \cup {None}]
    /\ lock \in [Events -> (0 .. Lease) \cup {NoLock}]
    /\ attempts \in [Events -> Nat]
    /\ draft \in [Events -> 0 .. MaxDrafts]
    /\ history \in [Events -> Nat]
    /\ turns \in [Events -> Nat]
DraftsTyped == drafts \in Seq(ReplyDraft)
ProcessesTyped ==
    /\ age \in [Events -> -1 .. MaxAge + 1]
    /\ server \in Request
    /\ syncing \in [Processes -> [event : Events \cup {NoEvent}, found : BOOLEAN]]
GhostsTyped ==
    /\ handed \in [Events -> Nat]
    /\ decided \in [Events -> Nat]
    /\ retries \in [Events -> 0 .. MaxRetries]
    /\ crashes \in 0 .. MaxCrashes

\* A request past its first transaction has an event in hand, a decision has a verdict,
\* and a draft about to be saved has its place.
InHand ==
    /\ server.step = "idle" => server = Idle
    /\ server.step \notin {"idle", "claim"} => server.event \in Events
    /\ server.step \in {"session", "finish"} => server.to \in Verdicts
    /\ server.step = "save" => server.lead \in Leads /\ Len(drafts) < MaxDrafts
    /\ server.step = "link" => Len(drafts) > 0
    /\ Len(drafts) <= MaxDrafts

InboxTyped == TypeOK /\ InHand

LEMMA TypeParts == TypeOK <=> RowsTyped /\ DraftsTyped /\ ProcessesTyped /\ GhostsTyped
  BY DEF TypeOK, RowsTyped, DraftsTyped, ProcessesTyped, GhostsTyped, Request, ReplyDraft

LEMMA TypePartsNext == TypeOK' <=> RowsTyped' /\ DraftsTyped' /\ ProcessesTyped' /\ GhostsTyped'
  BY TypeParts, PTL

LEMMA Bounds ==
  /\ None \notin Leads /\ NoLock \notin Nat
  /\ Lease \in Nat /\ Lease > 0 /\ MaxAge \in Nat
  /\ MaxAttempts \in Nat /\ MaxAttempts > 0 /\ Limit \in Nat /\ Limit > 0
  /\ MaxDrafts \in Nat /\ MaxRetries \in Nat /\ MaxCrashes \in Nat
  BY InboxAssumption

-------------------------------------------------------------------------------
\* Requests, one field after the other

LEMMA Fields ==
  ASSUME NEW r \in Request
  PROVE  r = [step |-> r.step, event |-> r.event, lead |-> r.lead, to |-> r.to, left |-> r.left]
  BY DEF Request

LEMMA Requests ==
  ASSUME NEW r \in Request, NEW a, NEW c
  PROVE  /\ [r EXCEPT !.step = a]
              = [step |-> a, event |-> r.event, lead |-> r.lead, to |-> r.to, left |-> r.left]
         /\ [r EXCEPT !.left = c]
              = [step |-> r.step, event |-> r.event, lead |-> r.lead, to |-> r.to, left |-> c]
         /\ [r EXCEPT !.step = a, !.left = c]
              = [step |-> a, event |-> r.event, lead |-> r.lead, to |-> r.to, left |-> c]
  <1>1. PICK q : q = [step |-> a, event |-> r.event, lead |-> r.lead, to |-> r.to, left |-> r.left]
    OBVIOUS
  <1>2. [r EXCEPT !.step = a] = q
    BY <1>1, Fields
  <1>3. [r EXCEPT !.step = a, !.left = c] = [q EXCEPT !.left = c]
    BY <1>2
  <1>4. [q EXCEPT !.left = c]
          = [step |-> a, event |-> r.event, lead |-> r.lead, to |-> r.to, left |-> c]
    BY <1>1
  <1>5. [r EXCEPT !.left = c]
          = [step |-> r.step, event |-> r.event, lead |-> r.lead, to |-> r.to, left |-> c]
    BY Fields
  <1> QED
    BY <1>1, <1>2, <1>3, <1>4, <1>5, Zenon

LEMMA EventRequest ==
  ASSUME NEW r \in Request, NEW a, NEW b
  PROVE  [r EXCEPT !.step = a, !.event = b]
           = [step |-> a, event |-> b, lead |-> r.lead, to |-> r.to, left |-> r.left]
  <1>1. PICK q : q = [step |-> a, event |-> r.event, lead |-> r.lead, to |-> r.to, left |-> r.left]
    OBVIOUS
  <1>2. [r EXCEPT !.step = a] = q
    BY <1>1, Fields
  <1>3. [r EXCEPT !.step = a, !.event = b] = [q EXCEPT !.event = b]
    BY <1>2
  <1>4. [q EXCEPT !.event = b]
          = [step |-> a, event |-> b, lead |-> r.lead, to |-> r.to, left |-> r.left]
    BY <1>1
  <1> QED
    BY <1>3, <1>4, Zenon

LEMMA LeadRequest ==
  ASSUME NEW r \in Request, NEW a, NEW b, NEW c
  PROVE  [r EXCEPT !.step = a, !.event = b, !.lead = c]
           = [step |-> a, event |-> b, lead |-> c, to |-> r.to, left |-> r.left]
  <1>1. PICK t : t = [step |-> a, event |-> b, lead |-> r.lead, to |-> r.to, left |-> r.left]
    OBVIOUS
  <1>2. [r EXCEPT !.step = a, !.event = b, !.lead = c] = [t EXCEPT !.lead = c]
    BY <1>1, EventRequest
  <1>3. [t EXCEPT !.lead = c]
          = [step |-> a, event |-> b, lead |-> c, to |-> r.to, left |-> r.left]
    BY <1>1
  <1> QED
    BY <1>2, <1>3, Zenon

LEMMA VerdictRequest ==
  ASSUME NEW r \in Request, NEW a, NEW b, NEW c
  PROVE  [r EXCEPT !.step = a, !.event = b, !.to = c]
           = [step |-> a, event |-> b, lead |-> r.lead, to |-> c, left |-> r.left]
  <1>1. PICK t : t = [step |-> a, event |-> b, lead |-> r.lead, to |-> r.to, left |-> r.left]
    OBVIOUS
  <1>2. [r EXCEPT !.step = a, !.event = b, !.to = c] = [t EXCEPT !.to = c]
    BY <1>1, EventRequest
  <1>3. [t EXCEPT !.to = c]
          = [step |-> a, event |-> b, lead |-> r.lead, to |-> c, left |-> r.left]
    BY <1>1
  <1> QED
    BY <1>2, <1>3, Zenon

LEMMA LeftRequest ==
  ASSUME NEW r \in Request, NEW a, NEW b, NEW c
  PROVE  [r EXCEPT !.step = a, !.event = b, !.left = c]
           = [step |-> a, event |-> b, lead |-> r.lead, to |-> r.to, left |-> c]
  <1>1. PICK t : t = [step |-> a, event |-> b, lead |-> r.lead, to |-> r.to, left |-> r.left]
    OBVIOUS
  <1>2. [r EXCEPT !.step = a, !.event = b, !.left = c] = [t EXCEPT !.left = c]
    BY <1>1, EventRequest
  <1>3. [t EXCEPT !.left = c]
          = [step |-> a, event |-> b, lead |-> r.lead, to |-> r.to, left |-> c]
    BY <1>1
  <1> QED
    BY <1>2, <1>3, Zenon

LEMMA IdleRequest ==
  /\ Idle \in Request /\ Idle.step = "idle" /\ Idle.event = NoEvent /\ Idle.lead = None
  /\ Idle.to = "" /\ Idle.left = 0
  BY Bounds DEF Idle, Request, Steps

-------------------------------------------------------------------------------
\* The types

LEMMA ServerTyped ==
  ASSUME InboxTyped
  PROVE  /\ server \in Request /\ drafts \in Seq(ReplyDraft) /\ Len(drafts) \in Nat
         /\ Len(drafts) <= MaxDrafts
         /\ server.step \notin {"idle", "claim"} => server.event \in Events
         /\ server.step \in {"session", "finish"} => server.to \in Verdicts
         /\ server.step = "save" => server.lead \in Leads /\ Len(drafts) < MaxDrafts
         /\ server.step = "link" => Len(drafts) > 0
  <1>1. server \in Request /\ drafts \in Seq(ReplyDraft)
    BY TypeParts DEF InboxTyped, ProcessesTyped, DraftsTyped
  <1>2. Len(drafts) \in Nat
    BY <1>1
  <1> QED
    BY <1>1, <1>2 DEF InboxTyped, InHand

\* What the next request may be, whatever happens to the drafts.
LEMMA HandKept ==
  ASSUME InboxTyped, drafts' = drafts, server' \in Request,
         server'.step = "idle" => server' = Idle,
         server'.step \notin {"idle", "claim"} => server'.event \in Events,
         server'.step \in {"session", "finish"} => server'.to \in Verdicts,
         server'.step = "save" => server'.lead \in Leads /\ Len(drafts) < MaxDrafts,
         server'.step # "link"
  PROVE  InHand'
  BY ServerTyped DEF InHand

LEMMA RequestDone ==
  ASSUME InboxTyped, drafts' = drafts, server' = Idle
  PROVE  server' \in Request /\ InHand'
  BY IdleRequest, HandKept

LEMMA RequestKept ==
  ASSUME InboxTyped, drafts' = drafts, server' = server
  PROVE  server' \in Request /\ InHand'
  BY ServerTyped DEF InHand, InboxTyped

LEMMA PrepareRequest ==
  ASSUME InboxTyped, NEW n \in 1 .. Limit, Prepare(n)
  PROVE  server' \in Request /\ server'.step = "claim" /\ InHand'
  <1>1. drafts' = drafts /\ server' = [Idle EXCEPT !.step = "claim", !.left = n]
    BY DEF Prepare, Recover
  <1>2. server' = [step |-> "claim", event |-> Idle.event, lead |-> Idle.lead,
                   to |-> Idle.to, left |-> n]
    BY <1>1, IdleRequest, Requests, Zenon
  <1>3. server' \in Request /\ server'.step = "claim"
    <2>1. n \in 0 .. Limit /\ "claim" \in Steps
      BY Bounds DEF Steps
    <2>2. Idle.event \in Events \cup {NoEvent} /\ Idle.lead \in Leads \cup {None} /\ Idle.to \in Final \cup {""}
      BY IdleRequest DEF Request
    <2> QED
      BY <1>2, <2>1, <2>2 DEF Request
  <1> QED
    BY <1>1, <1>3, HandKept

LEMMA ClaimRequest ==
  ASSUME InboxTyped, NEW target \in SUBSET Events, ClaimNext(target)
  PROVE  /\ server' \in Request /\ InHand' /\ server.step = "claim"
         /\ \/ server' = Idle /\ UNCHANGED <<crm, handed>>
            \/ \E e \in target :
                 /\ Claimable(e)
                 /\ status' = [status EXCEPT ![e] = "processing"]
                 /\ attempts' = [attempts EXCEPT ![e] = @ + 1]
                 /\ lock' = [lock EXCEPT ![e] = Lease]
                 /\ \/ server'.step = "reject" /\ server'.event = e /\ handed' = handed
                    \/ /\ ~ OutOfBudget(e) /\ lead[e] # None
                       /\ server'.step = "claim" /\ handed' = [handed EXCEPT ![e] = @ + 1]
                 /\ UNCHANGED <<lead, draft, drafts, history, turns>>
  <1>1. server.step = "claim"
    BY DEF ClaimNext
  <1>2. CASE server' = Idle /\ UNCHANGED <<crm, handed>>
    <2>1. drafts' = drafts
      BY <1>2 DEF crm
    <2> QED
      BY <1>1, <1>2, <2>1, RequestDone
  <1>3. CASE ~ (server' = Idle /\ UNCHANGED <<crm, handed>>)
    <2>1. server.left # 0
      BY <1>3 DEF ClaimNext
    <2>2. PICK e \in target :
            /\ Claimable(e)
            /\ status' = [status EXCEPT ![e] = "processing"]
            /\ attempts' = [attempts EXCEPT ![e] = @ + 1]
            /\ lock' = [lock EXCEPT ![e] = Lease]
            /\ IF OutOfBudget(e) \/ lead[e] = None
               THEN /\ server' = [server EXCEPT !.step = "reject", !.event = e, !.left = @ - 1]
                    /\ UNCHANGED handed
               ELSE /\ server' = [server EXCEPT !.left = @ - 1]
                    /\ handed' = [handed EXCEPT ![e] = @ + 1]
            /\ UNCHANGED <<lead, draft, drafts, history, turns>>
      BY <1>3 DEF ClaimNext
    <2>6. server \in Request /\ server.left \in 0 .. Limit
      BY ServerTyped DEF Request
    <2>3. PICK k \in 0 .. Limit : k = server.left - 1
      BY <2>1, <2>6, Bounds
    <2>4. CASE OutOfBudget(e) \/ lead[e] = None
      <3>1. server' = [server EXCEPT !.step = "reject", !.event = e, !.left = k]
        BY <2>2, <2>3, <2>4
      <3>2. server' = [step |-> "reject", event |-> e, lead |-> server.lead, to |-> server.to,
                       left |-> k]
        BY <2>6, <3>1, LeftRequest, Zenon
      <3>3. server' \in Request /\ server'.step = "reject" /\ server'.event = e
        BY <2>6, <3>2 DEF Request, Steps
      <3> QED
        BY <1>1, <2>2, <2>4, <3>3, HandKept
    <2>5. CASE ~ (OutOfBudget(e) \/ lead[e] = None)
      <3>1. server' = [server EXCEPT !.left = k]
        BY <2>2, <2>3, <2>5
      <3>2. server' = [step |-> server.step, event |-> server.event, lead |-> server.lead,
                       to |-> server.to, left |-> k]
        BY <2>6, <3>1, Requests, Zenon
      <3>3. server' \in Request /\ server'.step = "claim"
        BY <1>1, <2>6, <3>2 DEF Request, Steps
      <3> QED
        BY <1>1, <2>2, <2>5, <3>3, HandKept
    <2> QED
      BY <2>4, <2>5
  <1> QED
    BY <1>2, <1>3

LEMMA RejectRequest ==
  ASSUME InboxTyped, RejectClaim
  PROVE  server' \in Request /\ server'.step = "claim" /\ InHand' /\ drafts' = drafts
  <1>1. /\ server' = [server EXCEPT !.step = "claim", !.event = NoEvent]
        /\ drafts' = drafts
    BY DEF RejectClaim, FinishEvent
  <1>2. server' = [step |-> "claim", event |-> NoEvent, lead |-> server.lead, to |-> server.to,
                   left |-> server.left]
    BY <1>1, ServerTyped, EventRequest, Zenon
  <1>3. server' \in Request /\ server'.step = "claim"
    BY <1>2, ServerTyped DEF Request, Steps
  <1> QED
    BY <1>1, <1>3, HandKept

LEMMA SubmitRequest ==
  ASSUME InboxTyped, NEW e \in Events, NEW s,
         SubmitNonReply(e, s) \/ SubmitUnlinked(e) \/ SubmitReply(e)
  PROVE  /\ server' \in Request /\ InHand' /\ server = Idle /\ UNCHANGED crm
         /\ server'.event = e /\ status[e] = "processing"
         /\ \/ server'.step \in {"session", "save"} /\ lead[e] # None
            \/ server'.step = "finish" /\ lead[e] = None
         /\ server'.step = "save" => SubmitReply(e) /\ server'.lead = lead[e]
  <1>1. server = Idle /\ drafts' = drafts /\ UNCHANGED crm /\ status[e] = "processing"
    BY DEF SubmitNonReply, SubmitUnlinked, SubmitReply, ServerIdle, crm
  <1>6. 0 \in 0 .. Limit
    BY Bounds
  <1>2. Idle \in Request /\ Idle.lead = None /\ Idle.to = "" /\ Idle.left = 0 /\ 0 \in 0 .. Limit
    BY <1>6, IdleRequest
  <1>7. Idle \in Request
    BY IdleRequest
  <1>3. CASE SubmitNonReply(e, s)
    <2>1. s \in Verdicts /\ s \in Final /\ lead[e] # None
      BY <1>3 DEF SubmitNonReply, Verdicts, Final
    <2>2. server' = [Idle EXCEPT !.step = "session", !.event = e, !.to = s]
      BY <1>3 DEF SubmitNonReply
    <2>3. server' = [step |-> "session", event |-> e, lead |-> None, to |-> s, left |-> 0]
      <3>1. server' = [step |-> "session", event |-> e, lead |-> Idle.lead, to |-> s,
                       left |-> Idle.left]
        BY <1>7, <2>2, VerdictRequest, Zenon
      <3> QED
        BY <1>2, <3>1
    <2>4. server' \in Request /\ server'.step = "session" /\ server'.event = e /\ server'.to = s
      BY <1>2, <2>1, <2>3 DEF Request, Steps
    <2> QED
      BY <1>1, <2>1, <2>4, HandKept
  <1>4. CASE SubmitUnlinked(e)
    <2>1. lead[e] = None /\ "needs_review" \in Verdicts /\ "needs_review" \in Final
      BY <1>4 DEF SubmitUnlinked, Verdicts, Final
    <2>2. server' = [Idle EXCEPT !.step = "finish", !.event = e, !.to = "needs_review"]
      BY <1>4 DEF SubmitUnlinked
    <2>3. server' = [step |-> "finish", event |-> e, lead |-> None, to |-> "needs_review", left |-> 0]
      <3>1. server' = [step |-> "finish", event |-> e, lead |-> Idle.lead, to |-> "needs_review",
                       left |-> Idle.left]
        BY <1>7, <2>2, VerdictRequest, Zenon
      <3> QED
        BY <1>2, <3>1
    <2>4. /\ server' \in Request /\ server'.step = "finish" /\ server'.event = e
          /\ server'.to = "needs_review"
      BY <1>2, <2>1, <2>3 DEF Request, Steps
    <2> QED
      BY <1>1, <2>1, <2>4, HandKept
  <1>5. CASE SubmitReply(e)
    <2>1. lead[e] # None /\ lead[e] \in Leads \cup {None} /\ Len(drafts) < MaxDrafts
      BY <1>5, TypeParts DEF SubmitReply, InboxTyped, RowsTyped
    <2>2. server' = [Idle EXCEPT !.step = "save", !.event = e, !.lead = lead[e]]
      BY <1>5 DEF SubmitReply
    <2>3. server' = [step |-> "save", event |-> e, lead |-> lead[e], to |-> "", left |-> 0]
      <3>1. PICK l : l = lead[e]
        OBVIOUS
      <3>2. server' = [Idle EXCEPT !.step = "save", !.event = e, !.lead = l]
        BY <2>2, <3>1
      <3>3. server' = [step |-> "save", event |-> e, lead |-> l, to |-> Idle.to, left |-> Idle.left]
        BY <1>7, <3>2, LeadRequest, Zenon
      <3> QED
        BY <1>2, <3>1, <3>3
    <2>4. /\ server' \in Request /\ server'.step = "save" /\ server'.event = e
          /\ server'.lead = lead[e]
      BY <1>2, <2>1, <2>3 DEF Request, Steps
    <2> QED
      BY <1>1, <1>5, <2>1, <2>4, HandKept
  <1> QED
    BY <1>3, <1>4, <1>5

LEMMA SessionRequest ==
  ASSUME InboxTyped, SaveSession
  PROVE  /\ server' \in Request /\ InHand' /\ UNCHANGED <<row, drafts, history>>
         /\ server.step = "session" /\ server'.step = "finish" /\ server'.event = server.event
  <1>1. /\ server.step = "session" /\ drafts' = drafts /\ UNCHANGED <<row, drafts, history>>
        /\ server' = [server EXCEPT !.step = "finish"]
    BY DEF SaveSession
  <1>2. server' = [step |-> "finish", event |-> server.event, lead |-> server.lead,
                   to |-> server.to, left |-> server.left]
    BY <1>1, ServerTyped, Requests, Zenon
  <1>3. /\ server' \in Request /\ server'.step = "finish" /\ server'.event = server.event
        /\ server'.to = server.to
    BY <1>2, ServerTyped DEF Request, Steps
  <1> QED
    BY <1>1, <1>3, ServerTyped, HandKept

\* One draft more.
LEMMA DraftAdded ==
  ASSUME InboxTyped, NEW e \in Events, NEW l \in Leads, NEW who \in {"agent", "operator"},
         Len(drafts) < MaxDrafts, AddDraft(e, l, who)
  PROVE  /\ drafts' \in Seq(ReplyDraft) /\ Len(drafts') = Len(drafts) + 1
         /\ Len(drafts') <= MaxDrafts /\ Len(drafts') > 0
         /\ DOMAIN drafts = 1 .. Len(drafts) /\ DOMAIN drafts' = 1 .. Len(drafts) + 1
         /\ \A i \in DOMAIN drafts : drafts'[i] = drafts[i]
         /\ drafts'[Len(drafts) + 1].event = e /\ drafts'[Len(drafts) + 1].by = who
  <1>1. PICK d : d = [event |-> e, lead |-> l, by |-> who]
    OBVIOUS
  <1>2. d \in ReplyDraft /\ d.event = e /\ d.by = who
    BY <1>1 DEF ReplyDraft
  <1>3. drafts' = Append(drafts, d) /\ drafts \in Seq(ReplyDraft) /\ Len(drafts) \in Nat
    BY <1>1, ServerTyped DEF AddDraft
  <1>4. /\ drafts' \in Seq(ReplyDraft) /\ Len(drafts') = Len(drafts) + 1
        /\ \A i \in 1 .. Len(drafts) : drafts'[i] = drafts[i]
        /\ drafts'[Len(drafts) + 1] = d
    BY <1>2, <1>3
  <1> QED
    BY <1>2, <1>3, <1>4, Bounds

LEMMA ReplyRequest ==
  ASSUME InboxTyped, SaveReplyDraft
  PROVE  /\ server' \in Request /\ InHand' /\ DraftsTyped'
         /\ server.step = "save" /\ server.event \in Events
         /\ \/ /\ draft[server.event] = 0 /\ status[server.event] = "processing"
               /\ lead[server.event] \in Leads /\ Len(drafts) < MaxDrafts
               /\ AddDraft(server.event, lead[server.event], "agent")
               /\ draft' = [draft EXCEPT ![server.event] = Len(drafts) + 1]
               /\ status' = [status EXCEPT ![server.event] = "drafted"]
               /\ lock' = [lock EXCEPT ![server.event] = NoLock]
               /\ decided' = [decided EXCEPT ![server.event] = @ + 1]
               /\ server'.step = "session_after" /\ server'.event = server.event
            \/ /\ UNCHANGED <<draft, drafts, status, lock, decided>>
               /\ server'.step = "session_after" => draft[server.event] # 0
               /\ server'.step \in {"idle", "session_after"}
  <1>1. server.step = "save"
    BY DEF SaveReplyDraft
  <1>2. server.event \in Events /\ Len(drafts) < MaxDrafts /\ server.lead \in Leads
    BY <1>1, ServerTyped
  <1>3. PICK e \in Events : e = server.event
    BY <1>2
  <1>4. [server EXCEPT !.step = "session_after"]
          = [step |-> "session_after", event |-> e, lead |-> server.lead,
             to |-> server.to, left |-> server.left]
    BY <1>3, ServerTyped, Requests
  <1>5. CASE lead[e] = server.lead /\ draft[e] = 0 /\ status[e] = "processing"
    <2>1. /\ AddDraft(e, lead[e], "agent") /\ lead[e] \in Leads
          /\ draft' = [draft EXCEPT ![e] = Len(drafts) + 1]
          /\ status' = [status EXCEPT ![e] = "drafted"]
          /\ lock' = [lock EXCEPT ![e] = NoLock]
          /\ decided' = [decided EXCEPT ![e] = @ + 1]
          /\ server' = [server EXCEPT !.step = "session_after"]
      BY <1>2, <1>3, <1>5 DEF SaveReplyDraft
    <2>2. server' \in Request /\ server'.step = "session_after" /\ server'.event = e
      BY <1>4, <2>1, ServerTyped DEF Request, Steps
    <2>3. drafts' \in Seq(ReplyDraft) /\ Len(drafts') <= MaxDrafts
      BY <1>2, <2>1, DraftAdded
    <2>4. InHand'
      BY <2>2, <2>3 DEF InHand
    <2> QED
      BY <1>1, <1>2, <1>3, <1>5, <2>1, <2>2, <2>3, <2>4 DEF DraftsTyped
  <1>6. CASE ~ (lead[e] = server.lead /\ draft[e] = 0 /\ status[e] = "processing")
    <2>1. /\ UNCHANGED <<draft, drafts, status, lock, decided>>
          /\ server' = IF lead[e] = server.lead /\ draft[e] # 0
                       THEN [server EXCEPT !.step = "session_after"] ELSE Idle
      BY <1>3, <1>6 DEF SaveReplyDraft
    <2>2. DraftsTyped'
      BY <2>1, ServerTyped DEF DraftsTyped
    <2>3. CASE server' = Idle
      BY <1>1, <1>2, <2>1, <2>2, <2>3, RequestDone, IdleRequest
    <2>4. CASE server' # Idle
      <3>1. server' = [server EXCEPT !.step = "session_after"] /\ draft[e] # 0
        BY <2>1, <2>4
      <3>2. server' \in Request /\ server'.step = "session_after" /\ server'.event = e
        BY <1>4, <3>1, ServerTyped DEF Request, Steps
      <3> QED
        BY <1>1, <1>2, <1>3, <2>1, <2>2, <3>1, <3>2, HandKept
    <2> QED
      BY <2>3, <2>4
  <1> QED
    BY <1>5, <1>6

LEMMA OperatorRequest ==
  ASSUME InboxTyped, NEW e \in Events, NEW l \in Leads, OperatorSave(e, l)
  PROVE  /\ server' \in Request /\ InHand' /\ DraftsTyped'
         /\ server = Idle /\ UNCHANGED <<row, history, turns>>
         /\ server'.step = "link" /\ server'.event = e
         /\ Len(drafts) < MaxDrafts /\ AddDraft(e, l, "operator")
  <1>1. /\ server = Idle /\ UNCHANGED <<row, history, turns>>
        /\ Len(drafts) < MaxDrafts /\ AddDraft(e, l, "operator")
        /\ server' = [Idle EXCEPT !.step = "link", !.event = e, !.left = 0]
    BY DEF OperatorSave, ServerIdle
  <1>2. server' = [step |-> "link", event |-> e, lead |-> None, to |-> "", left |-> 0]
    <2>1. server' = [step |-> "link", event |-> e, lead |-> Idle.lead, to |-> Idle.to, left |-> 0]
      BY <1>1, IdleRequest, LeftRequest, Zenon
    <2> QED
      BY <2>1, IdleRequest
  <1>6. 0 \in 0 .. Limit
    BY Bounds
  <1>3. server' \in Request /\ server'.step = "link" /\ server'.event = e
    BY <1>2, <1>6 DEF Request, Steps
  <1>4. drafts' \in Seq(ReplyDraft) /\ Len(drafts') <= MaxDrafts /\ Len(drafts') > 0
    BY <1>1, DraftAdded
  <1>5. InHand'
    BY <1>3, <1>4 DEF InHand
  <1> QED
    BY <1>1, <1>3, <1>4, <1>5 DEF DraftsTyped

LEMMA TargetsOfEvents == \A target \in Targets : target \in SUBSET Events
  BY DEF Targets

\* The steps that leave the server's request and the drafts alone.
Quiet ==
    \/ Tick \/ WorkerRecover \/ (\E d \in 1 .. MaxDrafts : ResolveForDraft(d))
    \/ \E p \in Processes, l \in Leads \cup {None} : SyncWrite(p, l)
    \/ \E e \in Events :
         \/ Receive(e) \/ Retry(e)
         \/ \E p \in Processes : SyncRead(p, e)
         \/ \E s \in Final : OperatorUpdate(e, s)
         \/ \E l \in Leads : Link(e, l)
    \/ UNCHANGED vars

\* The others, with the request they are a step of.
Requesting ==
    \/ \E target \in SUBSET Events : ClaimNext(target)
    \/ RejectClaim \/ SaveSession \/ SubmitFinish
    \/ SaveReplyDraft \/ SaveSessionAfter \/ OperatorLinkDraft \/ Crash
    \/ \E n \in 1 .. Limit : Prepare(n)
    \/ \E e \in Events :
         \/ \E s \in Final : SubmitNonReply(e, s)
         \/ SubmitUnlinked(e) \/ SubmitReply(e)
         \/ \E l \in Leads : OperatorSave(e, l)

LEMMA StepKinds == [Next]_vars => Quiet \/ Requesting
  <1> SUFFICES ASSUME [Next]_vars PROVE Quiet \/ Requesting
    OBVIOUS
  <1>1. "server" \in Processes /\ "worker" \in Processes
    BY DEF Processes
  <1>2. CASE ServerStep \/ WorkerSyncWrite
    BY <1>1, <1>2, TargetsOfEvents DEF ServerStep, WorkerSyncWrite, Quiet, Requesting
  <1>3. CASE ~ (ServerStep \/ WorkerSyncWrite)
    BY <1>3 DEF Next, Quiet, Requesting
  <1> QED
    BY <1>2, <1>3

LEMMA QuietServer ==
  ASSUME Quiet
  PROVE  server' = server /\ drafts' = drafts
  <1>1. CASE UNCHANGED vars
    BY <1>1 DEF vars, crm
  <1>2. CASE \/ Tick \/ WorkerRecover \/ (\E d \in 1 .. MaxDrafts : ResolveForDraft(d))
             \/ \E p \in Processes, l \in Leads \cup {None} : SyncWrite(p, l)
    BY <1>2 DEF Tick, WorkerRecover, Recover, ResolveForDraft, SyncWrite, crm
  <1>3. CASE \E e \in Events :
               \/ Receive(e) \/ Retry(e)
               \/ \E p \in Processes : SyncRead(p, e)
               \/ \E s \in Final : OperatorUpdate(e, s)
               \/ \E l \in Leads : Link(e, l)
    BY <1>3 DEF Receive, Retry, SyncRead, OperatorUpdate, Link, crm
  <1> QED
    BY <1>1, <1>2, <1>3 DEF Quiet

LEMMA HandStep ==
  ASSUME InboxTyped, [Next]_vars
  PROVE  server' \in Request /\ InHand' /\ DraftsTyped'
  <1>1. DraftsTyped
    BY TypeParts DEF InboxTyped
  <1>2. CASE Quiet
    BY <1>1, <1>2, QuietServer, RequestKept DEF DraftsTyped
  <1>3. CASE SubmitFinish \/ SaveSessionAfter \/ OperatorLinkDraft \/ Crash
    <2>1. server' = Idle /\ drafts' = drafts
      BY <1>3 DEF SubmitFinish, SaveSessionAfter, OperatorLinkDraft, Crash, FinishEvent, crm
    <2> QED
      BY <1>1, <2>1, RequestDone DEF DraftsTyped
  <1>4. CASE \E target \in SUBSET Events : ClaimNext(target)
    <2>1. drafts' = drafts
      BY <1>4, ClaimRequest DEF crm
    <2> QED
      BY <1>1, <1>4, <2>1, ClaimRequest DEF DraftsTyped
  <1>5. CASE RejectClaim \/ SaveSession
    BY <1>1, <1>5, RejectRequest, SessionRequest DEF DraftsTyped
  <1>6. CASE SaveReplyDraft
    BY <1>6, ReplyRequest
  <1>7. CASE \E n \in 1 .. Limit : Prepare(n)
    <2>1. drafts' = drafts
      BY <1>7 DEF Prepare, Recover
    <2> QED
      BY <1>1, <1>7, <2>1, PrepareRequest DEF DraftsTyped
  <1>8. ASSUME NEW e \in Events, NEW s,
               SubmitNonReply(e, s) \/ SubmitUnlinked(e) \/ SubmitReply(e)
        PROVE  server' \in Request /\ InHand' /\ DraftsTyped'
    BY <1>1, <1>8, SubmitRequest DEF DraftsTyped, crm
  <1>9. CASE \E e \in Events, l \in Leads : OperatorSave(e, l)
    BY <1>9, OperatorRequest
  <1> QED
    BY <1>2, <1>3, <1>4, <1>5, <1>6, <1>7, <1>8, <1>9, StepKinds DEF Requesting

LEMMA Lease0 ==
  /\ NoLock \in (0 .. Lease) \cup {NoLock} /\ Lease \in (0 .. Lease) \cup {NoLock}
  /\ \A k \in 1 .. Lease : k - 1 \in 0 .. Lease
  /\ \A k \in 0 .. Lease : k # NoLock
  BY Bounds

LEMMA StatusNames ==
  /\ {"absent", "new", "processing", "drafted", "resolved", "needs_review"} \subseteq Statuses
  /\ Final \subseteq Statuses /\ Verdicts \subseteq Final
  BY DEF Statuses, Final, Verdicts

LEMMA QuietRows ==
  ASSUME InboxTyped, Quiet
  PROVE  RowsTyped'
  <1>1. RowsTyped
    BY TypeParts DEF InboxTyped
  <1>2. CASE UNCHANGED crm
    BY <1>1, <1>2 DEF RowsTyped, crm, row
  <1>3. CASE Tick
    <2>1. /\ UNCHANGED <<status, lead, attempts, draft, history, turns>>
          /\ lock' = [e \in Events |-> IF lock[e] \in 1 .. Lease THEN lock[e] - 1 ELSE lock[e]]
      BY <1>3 DEF Tick
    <2>2. lock' \in [Events -> (0 .. Lease) \cup {NoLock}]
      BY <1>1, <2>1, Lease0 DEF RowsTyped
    <2> QED
      BY <1>1, <2>1, <2>2 DEF RowsTyped
  <1>4. CASE WorkerRecover
    BY <1>1, <1>4, StatusNames, Lease0 DEF WorkerRecover, Recover, RowsTyped
  <1>5. ASSUME NEW d, ResolveForDraft(d)
        PROVE  RowsTyped'
    BY <1>1, <1>5, StatusNames DEF ResolveForDraft, RowsTyped
  <1>6. ASSUME NEW p \in Processes, NEW l \in Leads \cup {None}, SyncWrite(p, l)
        PROVE  RowsTyped'
    <2>1. syncing[p].event \in Events
      BY <1>6, TypeParts DEF SyncWrite, InboxTyped, ProcessesTyped
    <2>2. CASE UNCHANGED crm
      BY <1>2, <2>2
    <2>3. CASE ~ UNCHANGED crm
      <3>1. PICK e \in Events : e = syncing[p].event
        BY <2>1
      <3>2. PICK m \in Leads \cup {None} : m = IF l # None THEN l ELSE lead[e]
        BY <1>1 DEF RowsTyped
      <3>3. /\ status' = [status EXCEPT ![e] = IF @ = "absent" THEN "new" ELSE @]
            /\ lead' = [lead EXCEPT ![e] = m]
            /\ RecordInboundOnce(e, m)
            /\ UNCHANGED <<lock, attempts, draft, turns>>
        BY <1>6, <2>3, <3>1, <3>2 DEF SyncWrite
      <3> QED
        BY <1>1, <3>3, StatusNames DEF RowsTyped, RecordInboundOnce
    <2> QED
      BY <2>2, <2>3
  <1>7. ASSUME NEW e \in Events,
               \/ Receive(e) \/ \E p \in Processes : SyncRead(p, e)
        PROVE  UNCHANGED crm
    BY <1>7 DEF Receive, SyncRead
  <1>8. ASSUME NEW e \in Events, Retry(e)
        PROVE  RowsTyped'
    BY <1>1, <1>8, StatusNames, Lease0 DEF Retry, RowsTyped
  <1>9. ASSUME NEW e \in Events, NEW s \in Final, OperatorUpdate(e, s)
        PROVE  RowsTyped'
    BY <1>1, <1>9, StatusNames, Lease0 DEF OperatorUpdate, RowsTyped
  <1>10. ASSUME NEW e \in Events, NEW l \in Leads, Link(e, l)
         PROVE  RowsTyped'
    BY <1>1, <1>10 DEF Link, RecordInboundOnce, RowsTyped
  <1>11. UNCHANGED vars => UNCHANGED crm
    BY DEF vars
  <1> QED
    BY <1>2, <1>3, <1>4, <1>5, <1>6, <1>7, <1>8, <1>9, <1>10, <1>11 DEF Quiet

LEMMA RequestingRows ==
  ASSUME InboxTyped, Requesting
  PROVE  RowsTyped'
  <1>1. RowsTyped
    BY TypeParts DEF InboxTyped
  <1>2. CASE UNCHANGED crm
    BY <1>1, <1>2 DEF RowsTyped, crm, row
  <1>3. ASSUME NEW target \in SUBSET Events, ClaimNext(target)
        PROVE  RowsTyped'
    <2>1. CASE UNCHANGED crm
      BY <1>2, <2>1
    <2>2. CASE ~ UNCHANGED crm
      <3>1. PICK e \in target :
              /\ status' = [status EXCEPT ![e] = "processing"]
              /\ attempts' = [attempts EXCEPT ![e] = @ + 1]
              /\ lock' = [lock EXCEPT ![e] = Lease]
              /\ UNCHANGED <<lead, draft, history, turns>>
        BY <1>3, <2>2, ClaimRequest
      <3> QED
        BY <1>1, <3>1, StatusNames, Lease0 DEF RowsTyped
    <2> QED
      BY <2>1, <2>2
  <1>4. ASSUME NEW e \in Events, NEW s \in Statuses, FinishEvent(e, s)
        PROVE  RowsTyped'
    BY <1>1, <1>4, Lease0 DEF FinishEvent, RowsTyped
  <1>5. CASE RejectClaim
    BY <1>4, <1>5, ServerTyped, StatusNames DEF RejectClaim
  <1>6. CASE SubmitFinish
    BY <1>4, <1>6, ServerTyped, StatusNames DEF SubmitFinish
  <1>7. CASE SaveSession
    BY <1>1, <1>7, ServerTyped DEF SaveSession, RowsTyped, row
  <1>8. CASE SaveSessionAfter
    BY <1>1, <1>8, ServerTyped DEF SaveSessionAfter, RowsTyped, row
  <1>9. CASE SaveReplyDraft
    <2>1. UNCHANGED <<lead, attempts, history, turns>>
      BY <1>9 DEF SaveReplyDraft
    <2>2. CASE UNCHANGED <<draft, drafts, status, lock, decided>>
      BY <1>1, <2>1, <2>2 DEF RowsTyped
    <2>3. CASE ~ UNCHANGED <<draft, drafts, status, lock, decided>>
      <3>1. PICK e \in Events : e = server.event
        BY <1>9, ReplyRequest
      <3>2. /\ Len(drafts) < MaxDrafts
            /\ draft' = [draft EXCEPT ![e] = Len(drafts) + 1]
            /\ status' = [status EXCEPT ![e] = "drafted"]
            /\ lock' = [lock EXCEPT ![e] = NoLock]
        BY <1>9, <2>3, <3>1, ReplyRequest
      <3>3. Len(drafts) + 1 \in 0 .. MaxDrafts
        BY <3>2, ServerTyped, Bounds
      <3> QED
        BY <1>1, <2>1, <3>2, <3>3, StatusNames, Lease0 DEF RowsTyped
    <2> QED
      BY <2>2, <2>3
  <1>10. CASE OperatorLinkDraft
    <2>1. PICK e \in Events : e = server.event
      BY <1>10, ServerTyped DEF OperatorLinkDraft
    <2>2. Len(drafts) \in 0 .. MaxDrafts
      BY ServerTyped, Bounds
    <2>3. /\ status' = [status EXCEPT ![e] = "drafted"]
          /\ draft' = [draft EXCEPT ![e] = Len(drafts)]
          /\ lock' = [lock EXCEPT ![e] = NoLock]
          /\ UNCHANGED <<lead, attempts, history, turns>>
      BY <1>10, <2>1 DEF OperatorLinkDraft
    <2> QED
      BY <1>1, <2>2, <2>3, StatusNames, Lease0 DEF RowsTyped
  <1>11. CASE \E n \in 1 .. Limit : Prepare(n)
    BY <1>1, <1>11, StatusNames, Lease0 DEF Prepare, Recover, RowsTyped
  <1>12. CASE \E e \in Events, l \in Leads : OperatorSave(e, l)
    BY <1>1, <1>12 DEF OperatorSave, row, RowsTyped
  <1>13. CASE Crash \/ \E e \in Events : \/ \E s \in Final : SubmitNonReply(e, s)
                                         \/ SubmitUnlinked(e) \/ SubmitReply(e)
    BY <1>2, <1>13, SubmitRequest DEF Crash
  <1> QED
    BY <1>3, <1>5, <1>6, <1>7, <1>8, <1>9, <1>10, <1>11, <1>12, <1>13 DEF Requesting

LEMMA OutsideStep ==
  ASSUME InboxTyped, [Next]_vars
  PROVE  /\ age' \in [Events -> -1 .. MaxAge + 1]
         /\ syncing' \in [Processes -> [event : Events \cup {NoEvent}, found : BOOLEAN]]
  <1>1. ProcessesTyped
    BY TypeParts DEF InboxTyped
  <1>2. CASE age' = age /\ syncing' = syncing
    BY <1>1, <1>2 DEF ProcessesTyped
  <1>3. CASE Tick
    <2>1. /\ age' = [e \in Events |-> IF age[e] \in 0 .. MaxAge THEN age[e] + 1 ELSE age[e]]
          /\ syncing' = syncing
      BY <1>3 DEF Tick
    <2>2. \A k \in 0 .. MaxAge : k + 1 \in -1 .. MaxAge + 1
      BY Bounds
    <2> QED
      BY <1>1, <2>1, <2>2 DEF ProcessesTyped
  <1>4. ASSUME NEW e \in Events, Receive(e)
        PROVE  age' \in [Events -> -1 .. MaxAge + 1] /\ syncing' = syncing
    <2>1. 0 \in -1 .. MaxAge + 1
      BY Bounds
    <2> QED
      BY <1>1, <1>4, <2>1 DEF Receive, ProcessesTyped
  <1>5. ASSUME NEW p \in Processes, NEW f \in [event : Events \cup {NoEvent}, found : BOOLEAN],
               syncing' = [syncing EXCEPT ![p] = f]
        PROVE  syncing' \in [Processes -> [event : Events \cup {NoEvent}, found : BOOLEAN]]
    BY <1>1, <1>5 DEF ProcessesTyped
  <1>6. [event |-> NoEvent, found |-> FALSE] \in [event : Events \cup {NoEvent}, found : BOOLEAN]
    OBVIOUS
  <1>7. ASSUME NEW p \in Processes, NEW e \in Events, SyncRead(p, e)
        PROVE  /\ age' = age
               /\ syncing' \in [Processes -> [event : Events \cup {NoEvent}, found : BOOLEAN]]
    <2>1. PICK b \in BOOLEAN : b = (status[e] # "absent")
      OBVIOUS
    <2>2. syncing' = [syncing EXCEPT ![p] = [event |-> e, found |-> b]] /\ age' = age
      BY <1>7, <2>1 DEF SyncRead
    <2> QED
      BY <1>5, <2>2
  <1>8. ASSUME NEW p \in Processes, NEW l, SyncWrite(p, l)
        PROVE  /\ age' = age
               /\ syncing' \in [Processes -> [event : Events \cup {NoEvent}, found : BOOLEAN]]
    BY <1>5, <1>6, <1>8 DEF SyncWrite
  <1>9. CASE Crash
    <2>1. "server" \in Processes
      BY DEF Processes
    <2> QED
      BY <1>1, <1>5, <1>6, <1>9, <2>1 DEF Crash, ProcessesTyped
  <1>10. CASE \/ WorkerRecover \/ (\E d \in 1 .. MaxDrafts : ResolveForDraft(d))
              \/ \E e \in Events : \/ Retry(e)
                                   \/ \E s \in Final : OperatorUpdate(e, s)
                                   \/ \E l \in Leads : Link(e, l)
              \/ UNCHANGED vars
    BY <1>2, <1>10 DEF WorkerRecover, ResolveForDraft, Retry, OperatorUpdate, Link, vars
  <1>11. CASE \/ \E target \in SUBSET Events : ClaimNext(target)
              \/ RejectClaim \/ SaveSession \/ SubmitFinish
              \/ SaveReplyDraft \/ SaveSessionAfter \/ OperatorLinkDraft
              \/ \E n \in 1 .. Limit : Prepare(n)
              \/ \E e \in Events :
                   \/ \E s \in Final : SubmitNonReply(e, s)
                   \/ SubmitUnlinked(e) \/ SubmitReply(e)
                   \/ \E l \in Leads : OperatorSave(e, l)
    BY <1>2, <1>11 DEF ClaimNext, RejectClaim, SaveSession, SubmitFinish, SaveReplyDraft,
       SaveSessionAfter, OperatorLinkDraft, Prepare, SubmitNonReply, SubmitUnlinked, SubmitReply,
       OperatorSave
  <1> QED
    BY <1>1, <1>3, <1>4, <1>7, <1>8, <1>9, <1>10, <1>11, StepKinds DEF Quiet, Requesting, ProcessesTyped

LEMMA GhostsStep ==
  ASSUME InboxTyped, [Next]_vars
  PROVE  GhostsTyped'
  <1>1. GhostsTyped
    BY TypeParts DEF InboxTyped
  <1>2. CASE UNCHANGED ghosts
    BY <1>1, <1>2 DEF GhostsTyped, ghosts
  <1>3. ASSUME NEW target \in SUBSET Events, ClaimNext(target)
        PROVE  GhostsTyped'
    <2>1. UNCHANGED <<decided, retries, crashes>>
      BY <1>3 DEF ClaimNext
    <2>2. handed' = handed \/ \E e \in Events : handed' = [handed EXCEPT ![e] = @ + 1]
      BY <1>3, ClaimRequest
    <2> QED
      BY <1>1, <2>1, <2>2 DEF GhostsTyped
  <1>4. CASE SubmitFinish
    <2>1. PICK e \in Events : e = server.event
      BY <1>4, ServerTyped DEF SubmitFinish
    <2>2. /\ decided' = [decided EXCEPT ![e] = IF lead[e] # None THEN @ + 1 ELSE @]
          /\ UNCHANGED <<handed, retries, crashes>>
      BY <1>4, <2>1 DEF SubmitFinish
    <2> QED
      BY <1>1, <2>2 DEF GhostsTyped
  <1>5. CASE SaveReplyDraft
    <2>1. UNCHANGED <<handed, retries, crashes>>
      BY <1>5 DEF SaveReplyDraft
    <2>2. decided' = decided \/ \E e \in Events : decided' = [decided EXCEPT ![e] = @ + 1]
      BY <1>5, ReplyRequest
    <2> QED
      BY <1>1, <2>1, <2>2 DEF GhostsTyped
  <1>6. ASSUME NEW e \in Events, Retry(e)
        PROVE  GhostsTyped'
    BY <1>1, <1>6, Bounds DEF Retry, GhostsTyped
  <1>7. CASE Crash
    BY <1>1, <1>7, Bounds DEF Crash, GhostsTyped
  <1>8. CASE \/ Tick \/ WorkerRecover \/ (\E d \in 1 .. MaxDrafts : ResolveForDraft(d))
             \/ \E p \in Processes, l \in Leads \cup {None} : SyncWrite(p, l)
             \/ \E e \in Events :
                  \/ Receive(e)
                  \/ \E p \in Processes : SyncRead(p, e)
                  \/ \E s \in Final : OperatorUpdate(e, s)
                  \/ \E l \in Leads : Link(e, l)
             \/ UNCHANGED vars
    BY <1>2, <1>8 DEF Tick, WorkerRecover, ResolveForDraft, SyncWrite, Receive, SyncRead,
       OperatorUpdate, Link, vars, ghosts
  <1>9. CASE \/ RejectClaim \/ SaveSession \/ SaveSessionAfter \/ OperatorLinkDraft
             \/ \E n \in 1 .. Limit : Prepare(n)
             \/ \E e \in Events :
                  \/ \E s \in Final : SubmitNonReply(e, s)
                  \/ SubmitUnlinked(e) \/ SubmitReply(e)
                  \/ \E l \in Leads : OperatorSave(e, l)
    BY <1>2, <1>9 DEF RejectClaim, SaveSession, SaveSessionAfter, OperatorLinkDraft, Prepare,
       SubmitNonReply, SubmitUnlinked, SubmitReply, OperatorSave, ghosts
  <1> QED
    BY <1>3, <1>4, <1>5, <1>6, <1>7, <1>8, <1>9, StepKinds DEF Quiet, Requesting

LEMMA StartTyped == Init => InboxTyped
  <1> SUFFICES ASSUME Init PROVE InboxTyped
    OBVIOUS
  <1>1. RowsTyped
    <2>1. 0 \in 0 .. MaxDrafts
      BY Bounds
    <2> QED
      BY <2>1, StatusNames DEF Init, RowsTyped
  <1>2. DraftsTyped /\ Len(drafts) = 0
    BY DEF Init, DraftsTyped
  <1>3. ProcessesTyped
    <2>1. -1 \in -1 .. MaxAge + 1
      BY Bounds
    <2> QED
      BY <2>1, IdleRequest DEF Init, ProcessesTyped
  <1>4. GhostsTyped
    BY Bounds DEF Init, GhostsTyped
  <1>5. InHand
    <2>1. server = Idle /\ server.step = "idle"
      BY IdleRequest DEF Init
    <2>2. Len(drafts) <= MaxDrafts
      BY <1>2, Bounds
    <2> QED
      BY <2>1, <2>2 DEF InHand
  <1> QED
    BY <1>1, <1>2, <1>3, <1>4, <1>5, TypeParts DEF InboxTyped

LEMMA StepTyped == InboxTyped /\ [Next]_vars => InboxTyped'
  <1> SUFFICES ASSUME InboxTyped, [Next]_vars PROVE InboxTyped'
    OBVIOUS
  <1>1. RowsTyped'
    BY QuietRows, RequestingRows, StepKinds
  <1>2. ProcessesTyped'
    BY HandStep, OutsideStep DEF ProcessesTyped
  <1> QED
    BY <1>1, <1>2, HandStep, GhostsStep, TypePartsNext DEF InboxTyped

LEMMA InboxTypedHolds == Spec => []InboxTyped
  BY StartTyped, StepTyped, PTL DEF Spec

\* Every reachable state of the inbox is well typed.
THEOREM InboxTypes == Spec => []TypeOK
  BY InboxTypedHolds, PTL DEF InboxTyped

-------------------------------------------------------------------------------
(***************************************************************************)
(* What a step does to the row of one event, and to the request.           *)
(***************************************************************************)

Closed == {"drafted", "acknowledged", "resolved", "ignored"}
Returned == {"new", "processing", "needs_review"}

\* The status stays; a running lease may have become shorter.
Kept(e) ==
    /\ status'[e] = status[e] /\ draft'[e] = draft[e]
    /\ lock'[e] = NoLock <=> lock[e] = NoLock
\* A sync inserted it.
Arrived(e) ==
    /\ status[e] = "absent" /\ status'[e] = "new"
    /\ lock'[e] = lock[e] /\ draft'[e] = draft[e]
\* The recovery took it back.
Released(e) ==
    /\ StaleWork(e) \/ Abandoned(e)
    /\ status'[e] \in {"new", "needs_review"}
    /\ lock'[e] = NoLock /\ draft'[e] = draft[e]
\* prepare_pending leased it.
Claimed(e) ==
    /\ server.step = "claim" /\ Claimable(e)
    /\ status'[e] = "processing" /\ lock'[e] = Lease /\ draft'[e] = draft[e]
    /\ \/ server'.step = "claim" /\ lead[e] # None
       \/ server'.step = "reject" /\ server'.event = e
\* The server's verdict.
Finished(e) ==
    /\ server.step \in {"reject", "finish"} /\ server.event = e
    /\ server.step = "reject" => status'[e] = "needs_review"
    /\ status'[e] \in Verdicts /\ lock'[e] = NoLock /\ draft'[e] = draft[e]
    /\ server'.step \in {"idle", "claim"}
\* The agent's reply was saved.
Answered(e) ==
    /\ status[e] = "processing" /\ status'[e] = "drafted" /\ lock'[e] = NoLock
    /\ server.step = "save" /\ server'.step = "session_after"
\* The operator acted on it: a draft linked, a status set, another attempt, a draft sent.
Handled(e) ==
    /\ server.step \in {"idle", "link"} /\ server' = Idle
    /\ \/ status'[e] \in Closed /\ lock'[e] = NoLock
       \/ /\ status[e] = "needs_review" /\ draft[e] = 0 /\ status'[e] = "new"
          /\ lock'[e] = NoLock /\ draft'[e] = 0
       \/ /\ status[e] \in Open /\ draft[e] # 0 /\ status'[e] = "resolved"
          /\ lock'[e] = lock[e]

RowMoves(e) == \/ Kept(e) \/ Arrived(e) \/ Released(e) \/ Claimed(e) \/ Finished(e)
               \/ Answered(e) \/ Handled(e)

LEMMA Unmoved ==
  ASSUME NEW e \in Events, status' = status, lock' = lock, draft' = draft
  PROVE  RowMoves(e)
  BY DEF RowMoves, Kept

LEMMA FinishMoves ==
  ASSUME InboxTyped, NEW e \in Events, NEW f \in Events, NEW s \in Verdicts,
         FinishEvent(f, s), server.event = f, server.step \in {"reject", "finish"},
         server.step = "reject" => s = "needs_review", server'.step \in {"idle", "claim"}
  PROVE  RowMoves(e)
  <1>1. RowsTyped
    BY TypeParts DEF InboxTyped
  <1>2. /\ status' = [status EXCEPT ![f] = s] /\ lock' = [lock EXCEPT ![f] = NoLock]
        /\ draft' = draft
    BY DEF FinishEvent
  <1>3. CASE e = f
    BY <1>1, <1>2, <1>3 DEF Finished, RowMoves, RowsTyped
  <1>4. CASE e # f
    BY <1>1, <1>2, <1>4 DEF Kept, RowMoves, RowsTyped
  <1> QED
    BY <1>3, <1>4

LEMMA RecoverMoves ==
  ASSUME InboxTyped, NEW e \in Events, Recover
  PROVE  RowMoves(e)
  <1>1. RowsTyped
    BY TypeParts DEF InboxTyped
  <1>2. /\ draft' = draft
        /\ lock'[e] = IF StaleWork(e) \/ Abandoned(e) THEN NoLock ELSE lock[e]
        /\ status'[e] = CASE StaleWork(e) -> "needs_review"
                          [] ~StaleWork(e) /\ Abandoned(e) /\ attempts[e] >= MaxAttempts -> "needs_review"
                          [] ~StaleWork(e) /\ Abandoned(e) /\ attempts[e] < MaxAttempts -> "new"
                          [] OTHER -> status[e]
    BY DEF Recover
  <1>3. attempts[e] >= MaxAttempts \/ attempts[e] < MaxAttempts
    BY <1>1, Bounds DEF RowsTyped
  <1>4. CASE StaleWork(e) \/ Abandoned(e)
    BY <1>2, <1>3, <1>4 DEF Released, RowMoves
  <1>5. CASE ~ (StaleWork(e) \/ Abandoned(e))
    BY <1>2, <1>5 DEF Kept, RowMoves
  <1> QED
    BY <1>4, <1>5

LEMMA QuietMoves ==
  ASSUME InboxTyped, Quiet, NEW e \in Events
  PROVE  RowMoves(e)
  <1>1. RowsTyped
    BY TypeParts DEF InboxTyped
  <1>2. CASE UNCHANGED <<status, lock, draft>>
    BY <1>2, Unmoved
  <1>3. CASE Tick
    <2>1. /\ status' = status /\ draft' = draft
          /\ lock'[e] = IF lock[e] \in 1 .. Lease THEN lock[e] - 1 ELSE lock[e]
      BY <1>3 DEF Tick
    <2>2. \A k \in 1 .. Lease : k - 1 # NoLock /\ k # NoLock
      BY Lease0, Bounds
    <2>3. lock'[e] = NoLock <=> lock[e] = NoLock
      BY <2>1, <2>2
    <2> QED
      BY <2>1, <2>3 DEF Kept, RowMoves
  <1>4. CASE WorkerRecover
    BY <1>4, RecoverMoves DEF WorkerRecover
  <1>5. ASSUME NEW d \in 1 .. MaxDrafts, ResolveForDraft(d)
        PROVE  RowMoves(e)
    <2>1. /\ server = Idle /\ server' = Idle /\ server.step = "idle" /\ lock' = lock /\ draft' = draft
          /\ status'[e] = IF draft[e] = d /\ status[e] \in Open THEN "resolved" ELSE status[e]
      BY <1>5, IdleRequest DEF ResolveForDraft, ServerIdle
    <2>2. d # 0
      BY Bounds
    <2>3. CASE draft[e] = d /\ status[e] \in Open
      BY <2>1, <2>2, <2>3 DEF Handled, RowMoves
    <2>4. CASE ~ (draft[e] = d /\ status[e] \in Open)
      BY <2>1, <2>4 DEF Kept, RowMoves
    <2> QED
      BY <2>3, <2>4
  <1>6. ASSUME NEW p \in Processes, NEW l \in Leads \cup {None}, SyncWrite(p, l)
        PROVE  RowMoves(e)
    <2>1. CASE UNCHANGED crm
      BY <1>2, <2>1 DEF crm, row
    <2>2. CASE ~ UNCHANGED crm
      <3>1. PICK f \in Events : f = syncing[p].event
        BY <1>6, TypeParts DEF SyncWrite, InboxTyped, ProcessesTyped
      <3>2. /\ status' = [status EXCEPT ![f] = IF @ = "absent" THEN "new" ELSE @]
            /\ UNCHANGED <<lock, draft>>
        BY <1>6, <2>2, <3>1 DEF SyncWrite
      <3> QED
        BY <1>1, <3>2 DEF RowsTyped, RowMoves, Kept, Arrived
    <2> QED
      BY <2>1, <2>2
  <1>7. ASSUME NEW f \in Events, Retry(f)
        PROVE  RowMoves(e)
    <2>1. /\ server = Idle /\ server' = Idle /\ server.step = "idle" /\ draft' = draft
          /\ status[f] = "needs_review" /\ draft[f] = 0
          /\ status' = [status EXCEPT ![f] = "new"] /\ lock' = [lock EXCEPT ![f] = NoLock]
      BY <1>7, IdleRequest DEF Retry, ServerIdle
    <2>2. CASE e = f
      BY <1>1, <2>1, <2>2 DEF Handled, RowMoves, RowsTyped
    <2>3. CASE e # f
      BY <1>1, <2>1, <2>3 DEF Kept, RowMoves, RowsTyped
    <2> QED
      BY <2>2, <2>3
  <1>8. ASSUME NEW f \in Events, NEW s \in Final, OperatorUpdate(f, s)
        PROVE  RowMoves(e)
    <2>1. /\ server = Idle /\ server' = Idle /\ server.step = "idle" /\ draft' = draft /\ s \in Closed
          /\ status' = [status EXCEPT ![f] = s] /\ lock' = [lock EXCEPT ![f] = NoLock]
      BY <1>8, IdleRequest DEF OperatorUpdate, ServerIdle, Closed
    <2>2. CASE e = f
      BY <1>1, <2>1, <2>2 DEF Handled, RowMoves, RowsTyped
    <2>3. CASE e # f
      BY <1>1, <2>1, <2>3 DEF Kept, RowMoves, RowsTyped
    <2> QED
      BY <2>2, <2>3
  <1>9. CASE \/ UNCHANGED vars
             \/ \E f \in Events :
                  \/ Receive(f)
                  \/ \E p \in Processes : SyncRead(p, f)
                  \/ \E l \in Leads : Link(f, l)
    BY <1>2, <1>9 DEF vars, crm, row, Receive, SyncRead, Link
  <1> QED
    BY <1>3, <1>4, <1>5, <1>6, <1>7, <1>8, <1>9 DEF Quiet

LEMMA RequestingMoves ==
  ASSUME InboxTyped, Requesting, NEW e \in Events
  PROVE  RowMoves(e)
  <1>1. RowsTyped
    BY TypeParts DEF InboxTyped
  <1>2. CASE UNCHANGED <<status, lock, draft>>
    BY <1>2, Unmoved
  <1>3. ASSUME NEW target \in SUBSET Events, ClaimNext(target)
        PROVE  RowMoves(e)
    <2>1. CASE UNCHANGED crm
      BY <1>2, <2>1 DEF crm, row
    <2>2. CASE ~ UNCHANGED crm
      <3>1. PICK f \in target :
              /\ Claimable(f)
              /\ status' = [status EXCEPT ![f] = "processing"]
              /\ lock' = [lock EXCEPT ![f] = Lease]
              /\ \/ server'.step = "reject" /\ server'.event = f
                 \/ lead[f] # None /\ server'.step = "claim"
              /\ draft' = draft /\ server.step = "claim" /\ f \in Events
        BY <1>3, <2>2, ClaimRequest
      <3>2. CASE e = f
        BY <1>1, <3>1, <3>2 DEF Claimed, RowMoves, RowsTyped
      <3>3. CASE e # f
        BY <1>1, <3>1, <3>3 DEF Kept, RowMoves, RowsTyped
      <3> QED
        BY <3>2, <3>3
    <2> QED
      BY <2>1, <2>2
  <1>4. CASE RejectClaim
    <2>1. /\ server.step = "reject" /\ server.event \in Events /\ "needs_review" \in Verdicts
          /\ FinishEvent(server.event, "needs_review") /\ server'.step \in {"idle", "claim"}
      BY <1>4, ServerTyped, RejectRequest DEF RejectClaim, Verdicts
    <2> QED
      BY <2>1, FinishMoves
  <1>5. CASE SubmitFinish
    <2>1. /\ server.step = "finish" /\ server.event \in Events /\ server.to \in Verdicts
          /\ FinishEvent(server.event, server.to) /\ server'.step \in {"idle", "claim"}
      BY <1>5, ServerTyped, IdleRequest DEF SubmitFinish
    <2> QED
      BY <2>1, FinishMoves
  <1>6. CASE SaveReplyDraft
    <2>1. CASE UNCHANGED <<draft, drafts, status, lock, decided>>
      BY <1>2, <2>1
    <2>2. CASE ~ UNCHANGED <<draft, drafts, status, lock, decided>>
      <3>1. PICK f \in Events : f = server.event
        BY <1>6, ReplyRequest
      <3>2. /\ server.step = "save" /\ status[f] = "processing"
            /\ draft' = [draft EXCEPT ![f] = Len(drafts) + 1]
            /\ status' = [status EXCEPT ![f] = "drafted"]
            /\ lock' = [lock EXCEPT ![f] = NoLock]
            /\ server'.step = "session_after"
        BY <1>6, <2>2, <3>1, ReplyRequest
      <3>3. CASE e = f
        BY <1>1, <3>2, <3>3 DEF Answered, RowMoves, RowsTyped
      <3>4. CASE e # f
        BY <1>1, <3>2, <3>4 DEF Kept, RowMoves, RowsTyped
      <3> QED
        BY <3>3, <3>4
    <2> QED
      BY <2>1, <2>2
  <1>7. CASE OperatorLinkDraft
    <2>1. PICK f \in Events : f = server.event
      BY <1>7, ServerTyped DEF OperatorLinkDraft
    <2>2. /\ server.step = "link" /\ server' = Idle
          /\ status' = [status EXCEPT ![f] = "drafted"]
          /\ draft' = [draft EXCEPT ![f] = Len(drafts)]
          /\ lock' = [lock EXCEPT ![f] = NoLock]
      BY <1>7, <2>1 DEF OperatorLinkDraft
    <2>3. CASE e = f
      BY <1>1, <2>2, <2>3 DEF Handled, RowMoves, RowsTyped, Closed
    <2>4. CASE e # f
      BY <1>1, <2>2, <2>4 DEF Kept, RowMoves, RowsTyped
    <2> QED
      BY <2>3, <2>4
  <1>8. CASE \E n \in 1 .. Limit : Prepare(n)
    BY <1>8, RecoverMoves DEF Prepare
  <1>9. CASE \/ SaveSession \/ SaveSessionAfter \/ Crash
             \/ \E f \in Events :
                  \/ \E s \in Final : SubmitNonReply(f, s)
                  \/ SubmitUnlinked(f) \/ SubmitReply(f)
                  \/ \E l \in Leads : OperatorSave(f, l)
    BY <1>2, <1>9 DEF SaveSession, SaveSessionAfter, Crash, SubmitNonReply, SubmitUnlinked,
       SubmitReply, OperatorSave, crm, row
  <1> QED
    BY <1>3, <1>4, <1>5, <1>6, <1>7, <1>8, <1>9 DEF Requesting

LEMMA StepMoves ==
  ASSUME InboxTyped, [Next]_vars, NEW e \in Events
  PROVE  RowMoves(e)
  BY QuietMoves, RequestingMoves, StepKinds

\* A request that has a verdict or a reply to write has it of a leased event.
Writing == {"reject", "session", "finish", "save"}

LEMMA RequestMoves ==
  ASSUME InboxTyped, [Next]_vars
  PROVE  \/ server' = server
         \/ server'.step \notin Writing
         \/ server'.event \in Events /\ status'[server'.event] = "processing"
         \/ /\ server.step = "session" /\ server'.step = "finish" /\ server'.event = server.event
            /\ status' = status
  <1>1. RowsTyped
    BY TypeParts DEF InboxTyped
  <1>2. CASE Quiet
    BY <1>2, QuietServer
  <1>3. CASE SubmitFinish \/ SaveSessionAfter \/ OperatorLinkDraft \/ Crash
    BY <1>3, IdleRequest DEF SubmitFinish, SaveSessionAfter, OperatorLinkDraft, Crash, Writing
  <1>4. ASSUME NEW target \in SUBSET Events, ClaimNext(target), server'.step \in Writing
        PROVE  server'.event \in Events /\ status'[server'.event] = "processing"
    <2>1. server' # Idle /\ server'.step # "claim"
      BY <1>4, IdleRequest DEF Writing
    <2>2. PICK f \in target : f \in Events /\ server'.event = f
                              /\ status' = [status EXCEPT ![f] = "processing"]
      BY <1>4, <2>1, ClaimRequest
    <2> QED
      BY <1>1, <2>2 DEF RowsTyped
  <1>5. CASE RejectClaim \/ SaveReplyDraft \/ (\E n \in 1 .. Limit : Prepare(n))
             \/ (\E e \in Events : \E l \in Leads : OperatorSave(e, l))
    BY <1>5, RejectRequest, ReplyRequest, PrepareRequest, OperatorRequest DEF Writing
  <1>6. CASE SaveSession
    BY <1>6, SessionRequest DEF row
  <1>7. ASSUME NEW e \in Events, NEW s,
               SubmitNonReply(e, s) \/ SubmitUnlinked(e) \/ SubmitReply(e)
        PROVE  server'.event \in Events /\ status'[server'.event] = "processing"
    BY <1>7, SubmitRequest DEF crm, row
  <1> QED
    BY <1>2, <1>3, <1>4, <1>5, <1>6, <1>7, StepKinds DEF Requesting

-------------------------------------------------------------------------------
(***************************************************************************)
(* Leases and the queue.  That a late decision cannot touch what was       *)
(* drafted in the meantime rests on Returnable: the server is alone with   *)
(* the decisions, and what the worker may do to an event between two       *)
(* transactions of one is to give it back or escalate it.                  *)
(***************************************************************************)
Untouched == \A e \in Events : status[e] = "absent" => draft[e] = 0
Returnable == server.step \in Writing => status[server.event] \in Returned
QueueInv == LeaseIffProcessing /\ DraftedLeavesQueue /\ Untouched /\ Returnable

LEMMA StartQueue == Init => QueueInv
  BY IdleRequest DEF Init, QueueInv, LeaseIffProcessing, DraftedLeavesQueue, Untouched, Returnable, Writing

LEMMA RowQueue ==
  ASSUME InboxTyped, QueueInv, NEW e \in Events, RowMoves(e)
  PROVE  /\ status'[e] = "processing" <=> lock'[e] # NoLock
         /\ draft'[e] # 0 => status'[e] \notin Returned
         /\ status'[e] = "absent" => draft'[e] = 0
  <1>1. /\ status[e] = "processing" <=> lock[e] # NoLock
        /\ draft[e] # 0 => status[e] \notin Returned
        /\ status[e] = "absent" => draft[e] = 0
    BY DEF QueueInv, LeaseIffProcessing, DraftedLeavesQueue, Untouched, Returned
  <1>2. CASE Kept(e)
    BY <1>1, <1>2 DEF Kept
  <1>3. CASE Arrived(e)
    BY <1>1, <1>3 DEF Arrived, Returned
  <1>4. CASE Released(e)
    BY <1>1, <1>4 DEF Released, StaleWork, Abandoned, Returned
  <1>5. CASE Claimed(e)
    <2>1. Lease # NoLock
      BY Bounds
    <2> QED
      BY <1>1, <1>5, <2>1 DEF Claimed, Claimable, Returned
  <1>6. CASE Finished(e)
    <2>1. draft[e] = 0
      BY <1>1, <1>6 DEF Finished, QueueInv, Returnable, Writing
    <2> QED
      BY <1>6, <2>1 DEF Finished, Verdicts
  <1>7. CASE Answered(e)
    BY <1>7 DEF Answered, Returned
  <1>8. CASE Handled(e)
    BY <1>1, <1>8 DEF Handled, Returned, Closed, Open
  <1> QED
    BY <1>2, <1>3, <1>4, <1>5, <1>6, <1>7, <1>8 DEF RowMoves

LEMMA ReturnableStep ==
  ASSUME InboxTyped, QueueInv, [Next]_vars
  PROVE  Returnable'
  <1>1. CASE server'.step \notin Writing
    BY <1>1 DEF Returnable
  <1>2. CASE status'[server'.event] = "processing"
    BY <1>2 DEF Returnable, Returned
  <1>3. CASE /\ server.step = "session" /\ server'.event = server.event
             /\ status' = status
    BY <1>3 DEF Returnable, QueueInv, Writing
  <1>4. CASE server' = server /\ server.step \in Writing
    <2>1. server.event \in Events /\ server.step \notin {"idle", "claim", "link"}
      BY <1>4, ServerTyped DEF Writing
    <2>2. PICK e \in Events : e = server.event
      BY <2>1
    <2>3. RowMoves(e) /\ status[e] \in Returned
      BY <1>4, <2>2, StepMoves DEF QueueInv, Returnable
    <2>4. ~ Handled(e) /\ ~ Claimed(e) /\ ~ Finished(e) /\ ~ Answered(e)
      <3>1. server'.step # "session_after" /\ server'.step \notin {"idle", "claim"}
        BY <1>4 DEF Writing
      <3> QED
        BY <2>1, <3>1 DEF Handled, Claimed, Finished, Answered
    <2>5. status'[e] \in Returned
      BY <2>3, <2>4 DEF RowMoves, Kept, Arrived, Released, Returned
    <2> QED
      BY <1>4, <2>2, <2>5 DEF Returnable
  <1> QED
    BY <1>1, <1>2, <1>3, <1>4, RequestMoves

LEMMA StepQueue == InboxTyped /\ QueueInv /\ [Next]_vars => QueueInv'
  <1> SUFFICES ASSUME InboxTyped, QueueInv, [Next]_vars PROVE QueueInv'
    OBVIOUS
  <1>1. \A e \in Events :
          /\ status'[e] = "processing" <=> lock'[e] # NoLock
          /\ draft'[e] # 0 => status'[e] \notin Returned
          /\ status'[e] = "absent" => draft'[e] = 0
    BY RowQueue, StepMoves
  <1>2. LeaseIffProcessing' /\ DraftedLeavesQueue' /\ Untouched'
    BY <1>1 DEF LeaseIffProcessing, DraftedLeavesQueue, Untouched, Returned
  <1> QED
    BY <1>2, ReturnableStep DEF QueueInv

LEMMA QueueHolds == Spec => []QueueInv
  BY InboxTypedHolds, StartQueue, StepQueue, PTL DEF Spec

\* claim_next, the recovery, the verdicts and the operator keep a lease and the status
\* "processing" together.
THEOREM LeasesAndProcessing == Spec => []LeaseIffProcessing
  BY QueueHolds, PTL DEF QueueInv

\* What has a reply draft is never again in ChatGPT's queue, whatever the worker or a
\* late decision does between two transactions.
THEOREM DraftedStaysOut == Spec => []DraftedLeavesQueue
  BY QueueHolds, PTL DEF QueueInv

LEMMA ClosedStep ==
  ASSUME InboxTyped, QueueInv, [Next]_vars, NEW e \in Events, status[e] \in Closed
  PROVE  status'[e] \in Closed
  <1>1. RowMoves(e)
    BY StepMoves
  <1>2. ~ Arrived(e) /\ ~ Released(e) /\ ~ Claimed(e) /\ ~ Answered(e)
    BY DEF Arrived, Released, Claimed, Answered, Closed, StaleWork, Abandoned, Claimable
  <1>3. ~ Finished(e)
    BY DEF Finished, QueueInv, Returnable, Writing, Closed, Returned
  <1>4. Handled(e) => status'[e] \in Closed
    BY DEF Handled, Closed
  <1> QED
    BY <1>1, <1>2, <1>3, <1>4 DEF RowMoves, Kept

\* A sync, a recovery, a claim or a late decision never reopens what was answered or
\* closed.
THEOREM ClosedStays == Spec => ClosedStaysClosed
  <1>1. InboxTyped /\ QueueInv /\ [Next]_vars =>
          [\A e \in Events :
             status[e] \in {"drafted", "acknowledged", "resolved", "ignored"}
                 => status'[e] \in {"drafted", "acknowledged", "resolved", "ignored"}]_vars
    BY ClosedStep DEF Closed
  <1> QED
    BY <1>1, InboxTypedHolds, QueueHolds, PTL DEF Spec, ClosedStaysClosed

LEMMA LeaseStep ==
  ASSUME InboxTyped, [Next]_vars, NEW e \in Events,
         status[e] = "processing", ~ Expired(e), status'[e] \in {"new", "needs_review"}
  PROVE  status'[e] = "needs_review" /\ server.step \in {"reject", "finish"} /\ server.event = e
  <1>1. RowMoves(e)
    BY StepMoves
  <1>2. ~ Kept(e) /\ ~ Arrived(e) /\ ~ Claimed(e) /\ ~ Answered(e)
    BY DEF Kept, Arrived, Claimed, Answered
  <1>3. ~ Released(e)
    BY DEF Released, StaleWork, Abandoned
  <1>4. ~ Handled(e)
    BY DEF Handled, Closed
  <1>5. Finished(e) => status'[e] \in Verdicts
    BY DEF Finished
  <1> QED
    BY <1>1, <1>2, <1>3, <1>4, <1>5 DEF RowMoves, Finished, Verdicts

\* While a lease runs, neither recovery takes the event from the chat that has it.
THEOREM LiveLeases == Spec => LiveLeaseIsRespected
  <1>1. InboxTyped /\ [Next]_vars =>
          [\A e \in Events :
             status[e] = "processing" /\ ~Expired(e) /\ status'[e] \in {"new", "needs_review"}
                 => /\ status'[e] = "needs_review"
                    /\ server.step \in {"reject", "finish"}
                    /\ server.event = e]_vars
    BY LeaseStep
  <1> QED
    BY <1>1, InboxTypedHolds, PTL DEF Spec, LiveLeaseIsRespected

-------------------------------------------------------------------------------
(***************************************************************************)
(* One reply of the agent, one line of history.                            *)
(***************************************************************************)

\* An event the agent drafted for keeps a draft: it is linked with the INSERT, and only
\* another draft ever replaces it.
AgentDraftsLinked == \A i \in DOMAIN drafts : drafts[i].by = "agent" => draft[drafts[i].event] # 0
ReplyInv == OneAgentReply /\ AgentDraftsLinked

LEMMA StartReply == Init => ReplyInv
  BY DEF Init, ReplyInv, OneAgentReply, AgentDraftsLinked

LEMMA DraftEvents ==
  ASSUME drafts \in Seq(ReplyDraft)
  PROVE  \A i \in DOMAIN drafts : drafts[i].event \in Events
  <1>1. \A i \in DOMAIN drafts : drafts[i] \in ReplyDraft
    BY ElementOfSeq
  <1>2. \A d \in ReplyDraft : d.event \in Events
    BY DEF ReplyDraft
  <1> QED
    BY <1>1, <1>2

LEMMA SameReply ==
  ASSUME ReplyInv, drafts' = drafts, \A e \in Events : draft[e] # 0 => draft'[e] # 0,
         drafts \in Seq(ReplyDraft)
  PROVE  ReplyInv'
  <1>1. \A i \in DOMAIN drafts : drafts[i].event \in Events
    BY DraftEvents
  <1> QED
    BY <1>1 DEF ReplyInv, OneAgentReply, AgentDraftsLinked

\* A new draft: the operator's, or the agent's for an event it has not drafted for.
LEMMA NewReply ==
  ASSUME InboxTyped, ReplyInv, NEW e \in Events, NEW l \in Leads, NEW who \in {"agent", "operator"},
         Len(drafts) < MaxDrafts, AddDraft(e, l, who),
         \A f \in Events : draft[f] # 0 => draft'[f] # 0,
         who = "agent" => draft[e] = 0 /\ draft'[e] # 0
  PROVE  ReplyInv'
  <1>1. /\ DOMAIN drafts = 1 .. Len(drafts) /\ DOMAIN drafts' = 1 .. Len(drafts) + 1
        /\ \A i \in DOMAIN drafts : drafts'[i] = drafts[i]
        /\ drafts'[Len(drafts) + 1].event = e /\ drafts'[Len(drafts) + 1].by = who
        /\ Len(drafts) \in Nat
    BY DraftAdded, ServerTyped
  <1>2. \A i \in DOMAIN drafts' : i \in DOMAIN drafts \/ i = Len(drafts) + 1
    BY <1>1
  <1>3. \A i \in DOMAIN drafts : drafts[i].event \in Events
    BY ServerTyped, DraftEvents
  <1>4. AgentDraftsLinked'
    <2> SUFFICES ASSUME NEW i \in DOMAIN drafts', drafts'[i].by = "agent"
                 PROVE  draft'[drafts'[i].event] # 0
      BY DEF AgentDraftsLinked
    <2>1. CASE i \in DOMAIN drafts
      BY <1>1, <1>3, <2>1 DEF ReplyInv, AgentDraftsLinked
    <2>2. CASE i = Len(drafts) + 1
      BY <1>1, <2>2
    <2> QED
      BY <1>2, <2>1, <2>2
  <1>5. ASSUME NEW i \in DOMAIN drafts, drafts[i].by = "agent", drafts[i].event = e, who = "agent"
        PROVE  FALSE
    BY <1>5 DEF ReplyInv, AgentDraftsLinked
  <1>6. OneAgentReply'
    <2> SUFFICES ASSUME NEW i \in DOMAIN drafts', NEW j \in DOMAIN drafts',
                        drafts'[i].event = drafts'[j].event,
                        drafts'[i].by = "agent", drafts'[j].by = "agent"
                 PROVE  i = j
      BY DEF OneAgentReply
    <2>1. CASE i \in DOMAIN drafts /\ j \in DOMAIN drafts
      BY <1>1, <2>1 DEF ReplyInv, OneAgentReply
    <2>2. CASE i = Len(drafts) + 1 /\ j \in DOMAIN drafts
      BY <1>1, <1>5, <2>2
    <2>3. CASE i \in DOMAIN drafts /\ j = Len(drafts) + 1
      BY <1>1, <1>5, <2>3
    <2> QED
      BY <1>2, <2>1, <2>2, <2>3
  <1> QED
    BY <1>4, <1>6 DEF ReplyInv

LEMMA StepReply == InboxTyped /\ ReplyInv /\ [Next]_vars => ReplyInv'
  <1> SUFFICES ASSUME InboxTyped, ReplyInv, [Next]_vars PROVE ReplyInv'
    OBVIOUS
  <1>1. RowsTyped /\ drafts \in Seq(ReplyDraft) /\ Len(drafts) \in Nat
    BY TypeParts, ServerTyped DEF InboxTyped
  <1>2. CASE draft' = draft /\ drafts' = drafts
    BY <1>1, <1>2, SameReply
  <1>3. CASE SaveReplyDraft
    <2>1. CASE UNCHANGED <<draft, drafts, status, lock, decided>>
      BY <1>2, <2>1
    <2>2. CASE ~ UNCHANGED <<draft, drafts, status, lock, decided>>
      <3>1. PICK e \in Events : e = server.event
        BY <1>3, ReplyRequest
      <3>2. /\ lead[e] \in Leads /\ Len(drafts) < MaxDrafts /\ draft[e] = 0
            /\ AddDraft(e, lead[e], "agent")
            /\ draft' = [draft EXCEPT ![e] = Len(drafts) + 1]
        BY <1>3, <2>2, <3>1, ReplyRequest
      <3>3. draft'[e] # 0 /\ \A f \in Events : draft[f] # 0 => draft'[f] # 0
        BY <1>1, <3>2 DEF RowsTyped
      <3> QED
        BY <3>2, <3>3, NewReply
    <2> QED
      BY <2>1, <2>2
  <1>4. ASSUME NEW e \in Events, NEW l \in Leads, OperatorSave(e, l)
        PROVE  ReplyInv'
    <2>1. draft' = draft /\ Len(drafts) < MaxDrafts /\ AddDraft(e, l, "operator")
      BY <1>4, OperatorRequest DEF row
    <2> QED
      BY <2>1, NewReply
  <1>5. CASE OperatorLinkDraft
    <2>1. PICK e \in Events : e = server.event
      BY <1>5, ServerTyped DEF OperatorLinkDraft
    <2>2. /\ draft' = [draft EXCEPT ![e] = Len(drafts)] /\ drafts' = drafts /\ Len(drafts) > 0
      BY <1>5, <2>1, ServerTyped DEF OperatorLinkDraft
    <2>3. \A f \in Events : draft[f] # 0 => draft'[f] # 0
      BY <1>1, <2>2 DEF RowsTyped
    <2> QED
      BY <1>1, <2>2, <2>3, SameReply
  <1>6. CASE Quiet
    <2>1. draft' = draft
      BY <1>6 DEF Quiet, Tick, WorkerRecover, Recover, ResolveForDraft, SyncWrite, Receive, Retry,
         SyncRead, OperatorUpdate, Link, vars, crm, row
    <2> QED
      BY <1>2, <1>6, <2>1, QuietServer
  <1>7. CASE \/ \E target \in SUBSET Events : ClaimNext(target)
             \/ RejectClaim \/ SaveSession \/ SubmitFinish \/ SaveSessionAfter \/ Crash
             \/ \E n \in 1 .. Limit : Prepare(n)
             \/ \E e \in Events :
                  \/ \E s \in Final : SubmitNonReply(e, s)
                  \/ SubmitUnlinked(e) \/ SubmitReply(e)
    <2>1. draft' = draft /\ drafts' = drafts
      BY <1>7 DEF ClaimNext, RejectClaim, SaveSession, SubmitFinish, SaveSessionAfter, Crash,
         Prepare, Recover, FinishEvent, SubmitNonReply, SubmitUnlinked, SubmitReply, crm, row
    <2> QED
      BY <1>2, <2>1
  <1> QED
    BY <1>3, <1>4, <1>5, <1>6, <1>7, StepKinds DEF Requesting

LEMMA RepliesHold == Spec => []ReplyInv
  BY InboxTypedHolds, StartReply, StepReply, PTL DEF Spec

\* "Exactly one reply draft": the agent never drafts twice for one message, whatever
\* crashed, expired or was retried.
THEOREM OneReply == Spec => []OneAgentReply
  BY RepliesHold, PTL DEF ReplyInv

\* What a step does to the lead of an event and to its line in the lead's history.
LeadMoves(e) ==
    \/ lead'[e] = lead[e] /\ history'[e] = history[e]
    \/ lead'[e] # None /\ history'[e] = IF history[e] = 0 THEN 1 ELSE history[e]

LEMMA StepLeads ==
  ASSUME InboxTyped, [Next]_vars, NEW e \in Events
  PROVE  LeadMoves(e)
  <1>1. RowsTyped
    BY TypeParts DEF InboxTyped
  <1>2. CASE UNCHANGED <<lead, history>>
    BY <1>2 DEF LeadMoves
  <1>3. ASSUME NEW f \in Events, NEW m \in Leads \cup {None}, m = None => lead[f] = None,
               lead' = [lead EXCEPT ![f] = m], RecordInboundOnce(f, m)
        PROVE  LeadMoves(e)
    <2>1. CASE m = None
      BY <1>1, <1>3, <2>1 DEF LeadMoves, RecordInboundOnce, RowsTyped
    <2>2. CASE m # None
      BY <1>1, <1>3, <2>2 DEF LeadMoves, RecordInboundOnce, RowsTyped
    <2> QED
      BY <2>1, <2>2
  <1>4. ASSUME NEW p \in Processes, NEW l \in Leads \cup {None}, SyncWrite(p, l)
        PROVE  LeadMoves(e)
    <2>1. CASE UNCHANGED crm
      BY <1>2, <2>1 DEF crm, row
    <2>2. CASE ~ UNCHANGED crm
      <3>1. PICK f \in Events : f = syncing[p].event
        BY <1>4, TypeParts DEF SyncWrite, InboxTyped, ProcessesTyped
      <3>2. PICK m \in Leads \cup {None} : m = IF l # None THEN l ELSE lead[f]
        BY <1>1 DEF RowsTyped
      <3>3. lead' = [lead EXCEPT ![f] = m] /\ RecordInboundOnce(f, m)
        BY <1>4, <2>2, <3>1, <3>2 DEF SyncWrite
      <3> QED
        BY <1>3, <3>2, <3>3
    <2> QED
      BY <2>1, <2>2
  <1>5. ASSUME NEW f \in Events, NEW l \in Leads, Link(f, l)
        PROVE  LeadMoves(e)
    BY <1>3, <1>5, Bounds DEF Link
  <1>6. CASE \/ Tick \/ WorkerRecover \/ (\E d \in 1 .. MaxDrafts : ResolveForDraft(d))
             \/ UNCHANGED vars
             \/ \E f \in Events :
                  \/ Receive(f) \/ Retry(f)
                  \/ \E p \in Processes : SyncRead(p, f)
                  \/ \E s \in Final : OperatorUpdate(f, s)
    BY <1>2, <1>6 DEF Tick, WorkerRecover, Recover, ResolveForDraft, vars, Receive, Retry, SyncRead,
       OperatorUpdate, crm, row
  <1>7. CASE \E target \in SUBSET Events : ClaimNext(target)
    BY <1>2, <1>7, ClaimRequest DEF crm, row
  <1>8. CASE \/ RejectClaim \/ SaveSession \/ SubmitFinish \/ SaveReplyDraft \/ SaveSessionAfter
             \/ OperatorLinkDraft \/ Crash \/ \E n \in 1 .. Limit : Prepare(n)
             \/ \E f \in Events :
                  \/ \E s \in Final : SubmitNonReply(f, s)
                  \/ SubmitUnlinked(f) \/ SubmitReply(f)
                  \/ \E l \in Leads : OperatorSave(f, l)
    BY <1>2, <1>8 DEF RejectClaim, SaveSession, SubmitFinish, SaveReplyDraft, SaveSessionAfter,
       OperatorLinkDraft, Crash, Prepare, Recover, FinishEvent, SubmitNonReply, SubmitUnlinked,
       SubmitReply, OperatorSave, crm, row
  <1> QED
    BY <1>4, <1>5, <1>6, <1>7, <1>8, StepKinds DEF Quiet, Requesting

\* A message is in the history of a lead once, from the moment it has one.
THEOREM LoggedOnce == Spec => []InboundLoggedOnce
  <1>1. Init => InboundLoggedOnce
    BY DEF Init, InboundLoggedOnce
  <1>2. InboxTyped /\ InboundLoggedOnce /\ [Next]_vars => InboundLoggedOnce'
    <2> SUFFICES ASSUME InboxTyped, InboundLoggedOnce, [Next]_vars, NEW e \in Events
                 PROVE  history'[e] = IF lead'[e] = None THEN 0 ELSE 1
      BY DEF InboundLoggedOnce
    <2>1. history[e] = IF lead[e] = None THEN 0 ELSE 1
      BY DEF InboundLoggedOnce
    <2> QED
      BY <2>1, StepLeads DEF LeadMoves
  <1> QED
    BY <1>1, <1>2, InboxTypedHolds, PTL DEF Spec

-------------------------------------------------------------------------------
(***************************************************************************)
(* The budget: an event is never handed over more often than it was        *)
(* claimed since its last retry, and only a claim within the budget is.    *)
(***************************************************************************)
Budget == \A e \in Events : handed[e] <= attempts[e] /\ handed[e] <= MaxAttempts

BudgetMoves(e) ==
    \/ attempts'[e] = attempts[e] /\ handed'[e] = handed[e]
    \/ attempts'[e] = attempts[e] + 1 /\ handed'[e] = handed[e]
    \/ ~ OutOfBudget(e) /\ attempts'[e] = attempts[e] + 1 /\ handed'[e] = handed[e] + 1
    \/ attempts'[e] = 0 /\ handed'[e] = 0

LEMMA StepBudgets ==
  ASSUME InboxTyped, [Next]_vars, NEW e \in Events
  PROVE  BudgetMoves(e)
  <1>1. RowsTyped /\ GhostsTyped
    BY TypeParts DEF InboxTyped
  <1>2. CASE UNCHANGED <<attempts, handed>>
    BY <1>2 DEF BudgetMoves
  <1>3. ASSUME NEW target \in SUBSET Events, ClaimNext(target)
        PROVE  BudgetMoves(e)
    <2>1. CASE UNCHANGED <<crm, handed>>
      BY <1>2, <2>1 DEF crm, row
    <2>2. CASE ~ UNCHANGED <<crm, handed>>
      <3>1. PICK f \in target :
              /\ attempts' = [attempts EXCEPT ![f] = @ + 1]
              /\ \/ handed' = handed
                 \/ ~ OutOfBudget(f) /\ handed' = [handed EXCEPT ![f] = @ + 1]
        BY <1>3, <2>2, ClaimRequest
      <3> QED
        BY <1>1, <3>1 DEF BudgetMoves, RowsTyped, GhostsTyped
    <2> QED
      BY <2>1, <2>2
  <1>4. ASSUME NEW f \in Events, Retry(f)
        PROVE  BudgetMoves(e)
    BY <1>1, <1>4 DEF Retry, BudgetMoves, RowsTyped, GhostsTyped
  <1>5. CASE \/ Tick \/ WorkerRecover \/ (\E d \in 1 .. MaxDrafts : ResolveForDraft(d))
             \/ UNCHANGED vars
             \/ \E p \in Processes, l \in Leads \cup {None} : SyncWrite(p, l)
             \/ \E f \in Events :
                  \/ Receive(f)
                  \/ \E p \in Processes : SyncRead(p, f)
                  \/ \E s \in Final : OperatorUpdate(f, s)
                  \/ \E l \in Leads : Link(f, l)
    BY <1>2, <1>5 DEF Tick, WorkerRecover, Recover, ResolveForDraft, SyncWrite, vars, Receive,
       SyncRead, OperatorUpdate, Link, crm, row, ghosts
  <1>6. CASE \/ RejectClaim \/ SaveSession \/ SubmitFinish \/ SaveReplyDraft \/ SaveSessionAfter
             \/ OperatorLinkDraft \/ Crash \/ \E n \in 1 .. Limit : Prepare(n)
             \/ \E f \in Events :
                  \/ \E s \in Final : SubmitNonReply(f, s)
                  \/ SubmitUnlinked(f) \/ SubmitReply(f)
                  \/ \E l \in Leads : OperatorSave(f, l)
    BY <1>2, <1>6 DEF RejectClaim, SaveSession, SubmitFinish, SaveReplyDraft, SaveSessionAfter,
       OperatorLinkDraft, Crash, Prepare, Recover, FinishEvent, SubmitNonReply, SubmitUnlinked,
       SubmitReply, OperatorSave, crm, row, ghosts
  <1> QED
    BY <1>3, <1>4, <1>5, <1>6, StepKinds DEF Quiet, Requesting

LEMMA BudgetHolds == Spec => []Budget
  <1>1. Init => Budget
    BY Bounds DEF Init, Budget
  <1>2. InboxTyped /\ Budget /\ [Next]_vars => Budget'
    <2> SUFFICES ASSUME InboxTyped, Budget, [Next]_vars, NEW e \in Events
                 PROVE  handed'[e] <= attempts'[e] /\ handed'[e] <= MaxAttempts
      BY DEF Budget
    <2>1. /\ handed[e] \in Nat /\ attempts[e] \in Nat /\ MaxAttempts \in Nat
          /\ handed[e] <= attempts[e] /\ handed[e] <= MaxAttempts
      BY TypeParts, Bounds DEF InboxTyped, RowsTyped, GhostsTyped, Budget
    <2>2. BudgetMoves(e)
      BY StepBudgets
    <2> QED
      BY <2>1, <2>2 DEF BudgetMoves, OutOfBudget
  <1> QED
    BY <1>1, <1>2, InboxTypedHolds, PTL DEF Spec

\* ChatGPT is given a message at most MaxAttempts times between two retries of the
\* operator.
THEOREM BudgetIsKept == Spec => []RetryBudget
  <1>1. Budget => RetryBudget
    BY DEF Budget, RetryBudget
  <1> QED
    BY <1>1, BudgetHolds, PTL

-------------------------------------------------------------------------------
(***************************************************************************)
(* Turns and decisions.  Between the two transactions of a decision one of *)
(* the two counts is ahead; a message without a lead never comes that far, *)
(* because the claim that met it rejects it within its own request.        *)
(***************************************************************************)
At(r, e, s) == IF r.step = s /\ r.event = e THEN 1 ELSE 0

LeadlessRejected ==
    \A e \in Events : status[e] = "processing" /\ lead[e] = None
                          => server.step = "reject" /\ server.event = e
DecidedHasLead == server.step \in {"session", "finish"} => lead[server.event] # None
TurnsCount == \A e \in Events : turns[e] + At(server, e, "session_after")
                                    = decided[e] + At(server, e, "finish")
TurnsInv == crashes = 0 => LeadlessRejected /\ DecidedHasLead /\ TurnsCount

\* A request that has begun goes on where it is.
LEMMA GoesOn ==
  ASSUME InboxTyped, Requesting
  PROVE  /\ server.step = "reject" => RejectClaim \/ Crash
         /\ server.step = "session" => SaveSession \/ Crash
         /\ server.step = "finish" => SubmitFinish \/ Crash
         /\ server.step = "session_after" => SaveSessionAfter \/ Crash
  <1>1. CASE \E n \in 1 .. Limit : Prepare(n)
    BY <1>1, IdleRequest DEF Prepare, ServerIdle
  <1>2. CASE \E e \in Events :
               \/ \E s \in Final : SubmitNonReply(e, s)
               \/ SubmitUnlinked(e) \/ SubmitReply(e)
               \/ \E l \in Leads : OperatorSave(e, l)
    BY <1>2, IdleRequest DEF SubmitNonReply, SubmitUnlinked, SubmitReply, OperatorSave, ServerIdle
  <1>3. CASE (\E target \in SUBSET Events : ClaimNext(target)) \/ SaveReplyDraft \/ OperatorLinkDraft
    BY <1>3 DEF ClaimNext, SaveReplyDraft, OperatorLinkDraft
  <1> QED
    BY <1>1, <1>2, <1>3 DEF Requesting, RejectClaim, SaveSession, SubmitFinish, SaveSessionAfter

LEMMA NoCrash ==
  ASSUME InboxTyped, [Next]_vars, crashes' = 0
  PROVE  crashes = 0 /\ ~ Crash
  <1>1. crashes \in Nat
    BY TypeParts, Bounds DEF InboxTyped, GhostsTyped
  <1>2. ~ Crash
    BY <1>1 DEF Crash
  <1>3. CASE Quiet
    BY <1>2, <1>3 DEF Quiet, Tick, WorkerRecover, ResolveForDraft, SyncWrite, vars, Receive, Retry,
       SyncRead, OperatorUpdate, Link, ghosts
  <1>4. CASE Requesting
    BY <1>2, <1>4 DEF Requesting, ClaimNext, RejectClaim, SaveSession, SubmitFinish, SaveReplyDraft,
       SaveSessionAfter, OperatorLinkDraft, Prepare, SubmitNonReply, SubmitUnlinked,
       SubmitReply, OperatorSave, ghosts
  <1> QED
    BY <1>2, <1>3, <1>4, StepKinds

LEMMA LeadStays ==
  ASSUME InboxTyped, [Next]_vars, NEW e \in Events, lead[e] # None
  PROVE  lead'[e] # None
  BY StepLeads DEF LeadMoves

LEMMA LeadlessStep ==
  ASSUME InboxTyped, LeadlessRejected, [Next]_vars, ~ Crash
  PROVE  LeadlessRejected'
  <1> SUFFICES ASSUME NEW e \in Events, status'[e] = "processing", lead'[e] = None
               PROVE  server'.step = "reject" /\ server'.event = e
    BY DEF LeadlessRejected
  <1>1. lead[e] = None /\ RowMoves(e)
    BY LeadStays, StepMoves
  <1>2. CASE Kept(e)
    <2>1. server.step = "reject" /\ server.event = e
      BY <1>1, <1>2 DEF Kept, LeadlessRejected
    <2>2. CASE Quiet
      BY <2>1, <2>2, QuietServer
    <2>3. CASE Requesting
      <3>1. RejectClaim /\ status \in [Events -> Statuses]
        BY <2>1, <2>3, GoesOn, TypeParts DEF InboxTyped, RowsTyped
      <3>2. status' = [status EXCEPT ![e] = "needs_review"]
        BY <2>1, <3>1 DEF RejectClaim, FinishEvent
      <3> QED
        BY <3>1, <3>2
    <2> QED
      BY <2>2, <2>3, StepKinds
  <1>3. CASE Claimed(e)
    BY <1>1, <1>3 DEF Claimed
  <1>4. ~ Arrived(e) /\ ~ Released(e) /\ ~ Finished(e) /\ ~ Answered(e) /\ ~ Handled(e)
    BY DEF Arrived, Released, Finished, Verdicts, Answered, Handled, Closed
  <1> QED
    BY <1>1, <1>2, <1>3, <1>4 DEF RowMoves

LEMMA DecidedStep ==
  ASSUME InboxTyped, LeadlessRejected, DecidedHasLead, [Next]_vars
  PROVE  DecidedHasLead'
  <1> SUFFICES ASSUME server'.step \in {"session", "finish"}
               PROVE  lead'[server'.event] # None
    BY DEF DecidedHasLead
  <1>1. CASE server' = server
    <2>1. server.event \in Events /\ lead[server.event] # None
      BY <1>1, ServerTyped DEF DecidedHasLead
    <2> QED
      BY <1>1, <2>1, LeadStays
  <1>2. CASE SaveSession
    <2>1. /\ server.event \in Events /\ lead[server.event] # None /\ lead' = lead
          /\ server'.event = server.event
      BY <1>2, ServerTyped, SessionRequest DEF DecidedHasLead, row
    <2> QED
      BY <2>1
  <1>3. ASSUME NEW e \in Events, NEW s,
               SubmitNonReply(e, s) \/ SubmitUnlinked(e) \/ SubmitReply(e)
        PROVE  lead'[server'.event] # None
    <2>1. /\ server = Idle /\ lead' = lead /\ server'.event = e /\ status[e] = "processing"
          /\ server'.step = "finish" => lead[e] = None
          /\ server'.step = "session" => lead[e] # None
      BY <1>3, SubmitRequest DEF crm, row
    <2>2. server.step # "reject"
      BY <2>1, IdleRequest
    <2> QED
      BY <2>1, <2>2 DEF LeadlessRejected
  <1>4. CASE SubmitFinish \/ SaveSessionAfter \/ OperatorLinkDraft \/ Crash
    <2>1. server' = Idle
      BY <1>4 DEF SubmitFinish, SaveSessionAfter, OperatorLinkDraft, Crash
    <2> QED
      BY <2>1, IdleRequest
  <1>5. ASSUME NEW target \in SUBSET Events, ClaimNext(target)
        PROVE  FALSE
    <2>1. server'.step \in {"idle", "claim", "reject"}
      BY <1>5, ClaimRequest, IdleRequest
    <2> QED
      BY <2>1
  <1>6. CASE RejectClaim \/ SaveReplyDraft \/ (\E n \in 1 .. Limit : Prepare(n))
             \/ (\E e \in Events : \E l \in Leads : OperatorSave(e, l))
    BY <1>6, RejectRequest, ReplyRequest, PrepareRequest, OperatorRequest
  <1> QED
    BY <1>1, <1>2, <1>3, <1>4, <1>5, <1>6, StepKinds, QuietServer DEF Requesting

\* A reply that was not saved counts no turn.
LEMMA SaveUnsaved ==
  ASSUME InboxTyped, SaveReplyDraft, draft[server.event] = 0, UNCHANGED drafts
  PROVE  server'.step # "session_after"
  <1>1. PICK e \in Events : e = server.event
    BY ServerTyped DEF SaveReplyDraft
  <1>2. CASE lead[e] = server.lead /\ draft[e] = 0 /\ status[e] = "processing"
    <2>1. lead[e] \in Leads /\ Len(drafts) < MaxDrafts /\ AddDraft(e, lead[e], "agent")
      BY <1>1, <1>2, ServerTyped DEF SaveReplyDraft
    <2>2. Len(drafts') = Len(drafts) + 1 /\ Len(drafts) \in Nat
      BY <2>1, DraftAdded, ServerTyped
    <2> QED
      BY <2>2
  <1>3. CASE ~ (lead[e] = server.lead /\ draft[e] = 0 /\ status[e] = "processing")
    <2>1. server' = Idle
      BY <1>1, <1>3 DEF SaveReplyDraft
    <2> QED
      BY <2>1, IdleRequest
  <1> QED
    BY <1>2, <1>3

LEMMA CountStep ==
  ASSUME InboxTyped, QueueInv, LeadlessRejected, DecidedHasLead, TurnsCount, [Next]_vars, ~ Crash
  PROVE  TurnsCount'
  <1> SUFFICES ASSUME NEW e \in Events
               PROVE  turns'[e] + At(server', e, "session_after")
                          = decided'[e] + At(server', e, "finish")
    BY DEF TurnsCount
  <1>1. /\ turns \in [Events -> Nat] /\ decided \in [Events -> Nat]
        /\ turns[e] + At(server, e, "session_after") = decided[e] + At(server, e, "finish")
    BY TypeParts DEF InboxTyped, RowsTyped, GhostsTyped, TurnsCount
  <1>2. ASSUME turns' = turns, decided' = decided,
               server.step \notin {"session_after", "finish"},
               server'.step \notin {"session_after", "finish"}
        PROVE  turns'[e] + At(server', e, "session_after") = decided'[e] + At(server', e, "finish")
    BY <1>1, <1>2 DEF At
  <1>3. CASE Quiet
    <2>1. turns' = turns /\ decided' = decided
      BY <1>3 DEF Quiet, Tick, WorkerRecover, Recover, ResolveForDraft, SyncWrite, vars, Receive,
         Retry, SyncRead, OperatorUpdate, Link, ghosts, crm
    <2> QED
      BY <1>1, <1>3, <2>1, QuietServer
  <1>4. CASE SaveSession
    <2>1. PICK f \in Events : f = server.event
      BY <1>4, ServerTyped DEF SaveSession
    <2>2. /\ server.step = "session" /\ server'.step = "finish" /\ server'.event = f
          /\ turns' = [turns EXCEPT ![f] = @ + 1] /\ decided' = decided
      BY <1>4, <2>1, SessionRequest DEF SaveSession, ghosts
    <2> QED
      BY <1>1, <2>2 DEF At
  <1>5. CASE SubmitFinish
    <2>1. PICK f \in Events : f = server.event
      BY <1>5, ServerTyped DEF SubmitFinish
    <2>2. /\ server.step = "finish" /\ server.event = f /\ server'.step = "idle" /\ turns' = turns
          /\ lead[f] # None /\ decided' = [decided EXCEPT ![f] = @ + 1]
      BY <1>5, <2>1, IdleRequest DEF SubmitFinish, FinishEvent, DecidedHasLead
    <2> QED
      BY <1>1, <2>2 DEF At
  <1>6. CASE SaveReplyDraft
    <2>1. PICK f \in Events : f = server.event
      BY <1>6, ReplyRequest
    <2>2. server.step = "save" /\ turns' = turns /\ draft[f] = 0
      BY <1>6, <2>1 DEF SaveReplyDraft, QueueInv, Returnable, Writing, Returned, DraftedLeavesQueue
    <2>3. CASE UNCHANGED <<draft, drafts, status, lock, decided>>
      <3>1. server'.step # "session_after"
        BY <1>6, <2>1, <2>2, SaveUnsaved, <2>3
      <3> QED
        BY <1>2, <1>6, <2>2, <2>3, <3>1, ReplyRequest
    <2>4. CASE ~ UNCHANGED <<draft, drafts, status, lock, decided>>
      <3>1. /\ decided' = [decided EXCEPT ![f] = @ + 1]
            /\ server'.step = "session_after" /\ server'.event = f
        BY <1>6, <2>1, <2>4, ReplyRequest
      <3> QED
        BY <1>1, <2>2, <3>1 DEF At
    <2> QED
      BY <2>3, <2>4
  <1>7. CASE SaveSessionAfter
    <2>1. PICK f \in Events : f = server.event
      BY <1>7, ServerTyped DEF SaveSessionAfter
    <2>2. /\ server.step = "session_after" /\ server.event = f /\ server'.step = "idle"
          /\ turns' = [turns EXCEPT ![f] = @ + 1] /\ decided' = decided
      BY <1>7, <2>1, IdleRequest DEF SaveSessionAfter, ghosts
    <2> QED
      BY <1>1, <2>2 DEF At
  <1>8. ASSUME NEW f \in Events, NEW s,
               SubmitNonReply(f, s) \/ SubmitUnlinked(f) \/ SubmitReply(f)
        PROVE  turns'[e] + At(server', e, "session_after") = decided'[e] + At(server', e, "finish")
    <2>1. /\ server = Idle /\ turns' = turns /\ decided' = decided /\ status[f] = "processing"
          /\ server'.step \in {"session", "save"} \/ (server'.step = "finish" /\ lead[f] = None)
      BY <1>8, SubmitRequest DEF crm, SubmitNonReply, SubmitUnlinked, SubmitReply, ghosts
    <2>2. server.step = "idle"
      BY <2>1, IdleRequest
    <2>3. ~ (server'.step = "finish" /\ lead[f] = None)
      BY <2>1, <2>2 DEF LeadlessRejected
    <2> QED
      BY <1>2, <2>1, <2>2, <2>3
  <1>9. ASSUME NEW target \in SUBSET Events, ClaimNext(target)
        PROVE  turns'[e] + At(server', e, "session_after") = decided'[e] + At(server', e, "finish")
    <2>1. server.step = "claim" /\ server'.step \in {"idle", "claim", "reject"}
      BY <1>9, ClaimRequest, IdleRequest
    <2>2. turns' = turns /\ decided' = decided
      BY <1>9, ClaimRequest DEF ClaimNext, crm
    <2> QED
      BY <1>2, <2>1, <2>2
  <1>10. CASE RejectClaim
    <2>1. server.step = "reject" /\ server'.step = "claim" /\ turns' = turns /\ decided' = decided
      BY <1>10, RejectRequest DEF RejectClaim, FinishEvent, ghosts
    <2> QED
      BY <1>2, <2>1
  <1>11. ASSUME NEW n \in 1 .. Limit, Prepare(n)
         PROVE  turns'[e] + At(server', e, "session_after") = decided'[e] + At(server', e, "finish")
    <2>1. server.step = "idle" /\ server'.step = "claim" /\ turns' = turns /\ decided' = decided
      BY <1>11, PrepareRequest, IdleRequest DEF Prepare, Recover, ServerIdle, ghosts
    <2> QED
      BY <1>2, <2>1
  <1>12. CASE OperatorLinkDraft
    <2>1. server.step = "link" /\ server'.step = "idle" /\ turns' = turns /\ decided' = decided
      BY <1>12, IdleRequest DEF OperatorLinkDraft, ghosts
    <2> QED
      BY <1>2, <2>1
  <1>13. ASSUME NEW f \in Events, NEW l \in Leads, OperatorSave(f, l)
         PROVE  turns'[e] + At(server', e, "session_after") = decided'[e] + At(server', e, "finish")
    <2>1. server.step = "idle" /\ server'.step = "link" /\ turns' = turns /\ decided' = decided
      BY <1>13, OperatorRequest, IdleRequest DEF OperatorSave, ghosts
    <2> QED
      BY <1>2, <2>1
  <1> QED
    BY <1>3, <1>4, <1>5, <1>6, <1>7, <1>8, <1>9, <1>10, <1>11, <1>12, <1>13, StepKinds DEF Requesting

LEMMA StepTurns == InboxTyped /\ QueueInv /\ TurnsInv /\ [Next]_vars => TurnsInv'
  <1> SUFFICES ASSUME InboxTyped, QueueInv, TurnsInv, [Next]_vars, crashes' = 0
               PROVE  LeadlessRejected' /\ DecidedHasLead' /\ TurnsCount'
    BY DEF TurnsInv
  <1>1. LeadlessRejected /\ DecidedHasLead /\ TurnsCount /\ ~ Crash
    BY NoCrash DEF TurnsInv
  <1> QED
    BY <1>1, LeadlessStep, DecidedStep, CountStep

\* Without a crash, the turns of a session are the decisions that were accepted, although
\* each decision is two transactions.
THEOREM TurnsCounted == Spec => []TurnsAreDecisions
  <1>1. Init => TurnsInv
    <2> SUFFICES ASSUME Init PROVE TurnsInv
      OBVIOUS
    <2>1. server.step = "idle"
      BY IdleRequest DEF Init
    <2> QED
      BY <2>1 DEF Init, TurnsInv, LeadlessRejected, DecidedHasLead, TurnsCount, At
  <1>2. InboxTyped /\ TurnsInv => TurnsAreDecisions
    <2> SUFFICES ASSUME InboxTyped, TurnsInv, ServerIdle, crashes = 0, NEW e \in Events
                 PROVE  turns[e] = decided[e]
      BY DEF TurnsAreDecisions
    <2>1. server.step = "idle" /\ turns[e] \in Nat /\ decided[e] \in Nat
      BY IdleRequest, TypeParts DEF ServerIdle, InboxTyped, RowsTyped, GhostsTyped
    <2>2. turns[e] + At(server, e, "session_after") = decided[e] + At(server, e, "finish")
      BY DEF TurnsInv, TurnsCount
    <2> QED
      BY <2>1, <2>2 DEF At
  <1> QED
    BY <1>1, <1>2, InboxTypedHolds, QueueHolds, StepTurns, PTL DEF Spec

-------------------------------------------------------------------------------
(***************************************************************************)
(* The leased queue.  AgentInbox implements LeasedQueue: the recovery is a *)
(* TakeBack, a claim a Take, the reply an Answer, the verdicts a Decide    *)
(* (Returnable: what the worker did meanwhile left the event in the queue  *)
(* or in review), and all that a request does besides is a stutter.        *)
(***************************************************************************)
LinkedRow == server.step = "link" => status[server.event] # "absent"

LEMMA RowStays ==
  ASSUME InboxTyped, [Next]_vars, NEW e \in Events, status[e] # "absent"
  PROVE  status'[e] # "absent"
  <1>1. RowMoves(e)
    BY StepMoves
  <1>2. Finished(e) => status'[e] \in Verdicts
    BY DEF Finished
  <1> QED
    BY <1>1, <1>2 DEF RowMoves, Kept, Arrived, Released, Claimed, Answered, Handled, Verdicts, Closed

LEMMA LinkStep ==
  ASSUME InboxTyped, [Next]_vars
  PROVE  server'.step # "link" \/ server' = server \/ \E e \in Events, l \in Leads : OperatorSave(e, l)
  <1>1. CASE Quiet
    BY <1>1, QuietServer
  <1>2. CASE SubmitFinish \/ SaveSessionAfter \/ OperatorLinkDraft \/ Crash
    BY <1>2, IdleRequest DEF SubmitFinish, SaveSessionAfter, OperatorLinkDraft, Crash
  <1>3. CASE \E target \in SUBSET Events : ClaimNext(target)
    <2>1. server' = Idle \/ server'.step \in {"reject", "claim"}
      BY <1>3, ClaimRequest
    <2> QED
      BY <2>1, IdleRequest
  <1>4. CASE RejectClaim \/ SaveSession \/ SaveReplyDraft \/ \E n \in 1 .. Limit : Prepare(n)
    BY <1>4, RejectRequest, SessionRequest, ReplyRequest, PrepareRequest
  <1>5. ASSUME NEW e \in Events, NEW s, SubmitNonReply(e, s) \/ SubmitUnlinked(e) \/ SubmitReply(e)
        PROVE  server'.step # "link"
    BY <1>5, SubmitRequest
  <1> QED
    BY <1>1, <1>2, <1>3, <1>4, <1>5, StepKinds DEF Requesting

LEMMA LinkedStep == InboxTyped /\ LinkedRow /\ [Next]_vars => LinkedRow'
  <1> SUFFICES ASSUME InboxTyped, LinkedRow, [Next]_vars, server'.step = "link"
               PROVE  status'[server'.event] # "absent"
    BY DEF LinkedRow
  <1>1. CASE server' = server
    <2>1. server.event \in Events
      BY <1>1, ServerTyped
    <2> QED
      BY <1>1, <2>1, RowStays DEF LinkedRow
  <1>2. ASSUME NEW e \in Events, NEW l \in Leads, OperatorSave(e, l)
        PROVE  status'[server'.event] # "absent"
    BY <1>2, OperatorRequest DEF OperatorSave, row
  <1> QED
    BY <1>1, <1>2, LinkStep

\* The parts of the mapping, one table at a time.
LEMMA PlaceMoves ==
  ASSUME InboxTyped, NEW e \in Events, NEW s, status' = [status EXCEPT ![e] = s]
  PROVE  Places' = [Places EXCEPT ![e] = PlaceOf(s)]
  BY TypeParts DEF InboxTyped, RowsTyped, Places

LEMMA RepliesStay ==
  ASSUME drafts' = drafts
  PROVE  Replied' = Replied
  BY DEF Replied, AgentReplies

LEMMA RepliesGrow ==
  ASSUME InboxTyped, NEW e \in Events, NEW l \in Leads, NEW who \in {"agent", "operator"},
         Len(drafts) < MaxDrafts, AddDraft(e, l, who)
  PROVE  \A f \in Events :
           AgentReplies(f)' = IF f = e /\ who = "agent" THEN AgentReplies(f) \cup {Len(drafts) + 1}
                                                        ELSE AgentReplies(f)
  <1>1. /\ DOMAIN drafts = 1 .. Len(drafts) /\ DOMAIN drafts' = 1 .. Len(drafts) + 1
        /\ \A i \in DOMAIN drafts : drafts'[i] = drafts[i]
        /\ drafts'[Len(drafts) + 1].event = e /\ drafts'[Len(drafts) + 1].by = who
        /\ Len(drafts) \in Nat
    BY DraftAdded, ServerTyped
  <1>2. \A i : i \in DOMAIN drafts' <=> (i \in DOMAIN drafts \/ i = Len(drafts) + 1)
    BY <1>1
  <1>3. Len(drafts) + 1 \notin DOMAIN drafts
    BY <1>1
  <1> QED
    BY <1>1, <1>2, <1>3 DEF AgentReplies

LEMMA QueueStutters ==
  ASSUME UNCHANGED <<status, lock, handed, age>>, Replied' = Replied
  PROVE  [Queue!QueueNext]_(Queue!queue)
  BY DEF Queue!queue, Places, Aged, Stale

LEMMA QueueTakesBack ==
  ASSUME InboxTyped, QueueInv, Recover, UNCHANGED <<age, handed>>
  PROVE  [Queue!QueueNext]_(Queue!queue)
  <1> DEFINE back == {e \in Events : ~StaleWork(e) /\ Abandoned(e) /\ attempts[e] < MaxAttempts}
             up == {e \in Events : StaleWork(e) \/ (Abandoned(e) /\ ~ (attempts[e] < MaxAttempts))}
  <1>1. /\ status' = [e \in Events |->
                    CASE StaleWork(e) -> "needs_review"
                      [] ~StaleWork(e) /\ Abandoned(e) /\ attempts[e] >= MaxAttempts -> "needs_review"
                      [] ~StaleWork(e) /\ Abandoned(e) /\ attempts[e] < MaxAttempts -> "new"
                      [] OTHER -> status[e]]
        /\ lock' = [e \in Events |-> IF StaleWork(e) \/ Abandoned(e) THEN NoLock ELSE lock[e]]
        /\ drafts' = drafts
    BY DEF Recover
  <1>2. \A e \in Events : attempts[e] >= MaxAttempts <=> ~ (attempts[e] < MaxAttempts)
    BY TypeParts, Bounds DEF InboxTyped, RowsTyped
  <1>3. \A e \in Events : Abandoned(e) => Queue!LeaseOver(e)
    BY DEF Abandoned, Expired, Queue!LeaseOver, Places, PlaceOf, QueueInv, LeaseIffProcessing
  <1>4. \A e \in Events : StaleWork(e) => e \in Aged /\ (Abandoned(e) \/ Places[e] = "waiting")
    BY DEF StaleWork, Abandoned, Aged, Places, PlaceOf
  <1>5. \A e \in back : Queue!LeaseOver(e) /\ e \notin Aged
    BY <1>3 DEF Aged, StaleWork, Abandoned
  <1>6. \A e \in up : Queue!LeaseOver(e) \/ (Places[e] = "waiting" /\ e \in Aged)
    BY <1>3, <1>4
  <1>7. \A e \in Events :
          status'[e] = IF e \in back THEN "new" ELSE IF e \in up THEN "needs_review" ELSE status[e]
    BY <1>1, <1>2
  <1>8. Places' = [e \in Events |-> IF e \in back THEN "waiting" ELSE IF e \in up THEN "review" ELSE Places[e]]
    BY <1>7 DEF Places, PlaceOf
  <1>9. lock' = [e \in Events |-> IF e \in back \cup up THEN NoLock ELSE lock[e]]
    BY <1>1
  <1>10. Replied' = Replied /\ Aged' = Aged
    BY <1>1, RepliesStay DEF Aged, Stale
  <1>11. Queue!TakeBack(back, up)
    BY <1>5, <1>6, <1>8, <1>9, <1>10 DEF Queue!TakeBack
  <1>12. back \in SUBSET Events /\ up \in SUBSET Events
    OBVIOUS
  <1> HIDE DEF back, up
  <1> QED
    BY <1>11, <1>12 DEF Queue!QueueNext

\* A verdict, or the operator's word, on one message.
LEMMA QueueDecides ==
  ASSUME InboxTyped, QueueInv, NEW e \in Events, NEW s \in Verdicts, FinishEvent(e, s),
         server.event = e, server.step \in Writing, UNCHANGED <<age, handed>>
  PROVE  [Queue!QueueNext]_(Queue!queue)
  <1>1. Places' = [Places EXCEPT ![e] = PlaceOf(s)] /\ lock' = [lock EXCEPT ![e] = NoLock]
    BY PlaceMoves DEF FinishEvent
  <1>2. Places[e] \in {"waiting", "leased", "review"}
    BY DEF QueueInv, Returnable, Returned, Places, PlaceOf
  <1>3. PlaceOf(s) \in {"closed", "review"}
    BY DEF PlaceOf, Verdicts
  <1>4. Replied' = Replied /\ Aged' = Aged
    BY RepliesStay DEF FinishEvent, Aged, Stale
  <1> QED
    BY <1>1, <1>2, <1>3, <1>4 DEF Queue!QueueNext, Queue!Decide

LEMMA QueueCloses ==
  ASSUME InboxTyped, NEW e \in Events, NEW s \in Closed, status[e] # "absent",
         status' = [status EXCEPT ![e] = s], lock' = [lock EXCEPT ![e] = NoLock],
         UNCHANGED <<age, handed, drafts>>
  PROVE  [Queue!QueueNext]_(Queue!queue)
  <1>1. Places' = [Places EXCEPT ![e] = "closed"]
    BY PlaceMoves DEF PlaceOf, Closed
  <1>2. Places[e] # "outside"
    BY DEF Places, PlaceOf
  <1>3. Replied' = Replied /\ Aged' = Aged
    BY RepliesStay DEF Aged, Stale
  <1> QED
    BY <1>1, <1>2, <1>3 DEF Queue!QueueNext, Queue!Close

LEMMA QueueQuiet ==
  ASSUME InboxTyped, QueueInv, ReplyInv, Quiet
  PROVE  [Queue!QueueNext]_(Queue!queue)
  <1>1. RowsTyped /\ ProcessesTyped /\ GhostsTyped /\ drafts' = drafts /\ Replied' = Replied
    BY TypeParts, QuietServer, RepliesStay DEF InboxTyped
  <1>2. CASE Tick
    <2>1. lock' = [i \in Events |-> IF lock[i] \in 1 .. Lease THEN lock[i] - 1 ELSE lock[i]]
      BY <1>2 DEF Tick
    <2>2. Places' = Places /\ handed' = handed
      BY <1>2 DEF Tick, Places, ghosts
    <2>3. Aged \subseteq Aged' /\ Aged' \in SUBSET Events
      BY <1>1, <1>2, Bounds DEF Tick, Aged, Stale, ProcessesTyped
    <2> QED
      BY <1>1, <2>1, <2>2, <2>3 DEF Queue!QueueNext, Queue!Pass
  <1>3. CASE WorkerRecover
    BY <1>3, QueueTakesBack DEF WorkerRecover, ghosts
  <1>4. ASSUME NEW d \in 1 .. MaxDrafts, ResolveForDraft(d)
        PROVE  [Queue!QueueNext]_(Queue!queue)
    <2>1. /\ UNCHANGED <<lock, handed, age>>
          /\ status' = [e \in Events |-> IF draft[e] = d /\ status[e] \in Open THEN "resolved" ELSE status[e]]
      BY <1>4 DEF ResolveForDraft, ghosts
    <2>2. d # 0
      BY Bounds
    <2>3. ASSUME NEW e \in Events
          PROVE  PlaceOf(status'[e]) = PlaceOf(status[e])
      <3>1. CASE draft[e] = d /\ status[e] \in Open
        <4>1. status[e] \in {"acknowledged", "drafted"} /\ status'[e] = "resolved"
          BY <2>1, <2>2, <3>1 DEF QueueInv, DraftedLeavesQueue, Open
        <4> QED
          BY <4>1 DEF PlaceOf
      <3>2. CASE ~ (draft[e] = d /\ status[e] \in Open)
        BY <2>1, <3>2
      <3> QED
        BY <3>1, <3>2
    <2>4. Places' = Places
      BY <2>3 DEF Places
    <2> QED
      BY <1>1, <2>1, <2>4 DEF Queue!queue, Aged, Stale
  <1>5. ASSUME NEW p \in Processes, NEW l \in Leads \cup {None}, SyncWrite(p, l)
        PROVE  [Queue!QueueNext]_(Queue!queue)
    <2>1. CASE UNCHANGED crm
      BY <1>1, <1>5, <2>1, QueueStutters DEF SyncWrite, crm, row, ghosts
    <2>2. CASE ~ UNCHANGED crm
      <3>1. PICK f \in Events : f = syncing[p].event
        BY <1>1, <1>5 DEF SyncWrite, ProcessesTyped
      <3>2. /\ status' = [status EXCEPT ![f] = IF @ = "absent" THEN "new" ELSE @]
            /\ UNCHANGED <<lock, handed, age>>
        BY <1>5, <2>2, <3>1 DEF SyncWrite, ghosts
      <3>3. CASE status[f] = "absent"
        <4>1. status' = [status EXCEPT ![f] = "new"]
          BY <3>2, <3>3
        <4>2. Places' = [Places EXCEPT ![f] = "waiting"] /\ Places[f] = "outside"
          BY <3>3, <4>1, PlaceMoves DEF PlaceOf, Places
        <4>3. Aged' = Aged
          BY <3>2 DEF Aged, Stale
        <4> QED
          BY <1>1, <3>2, <4>2, <4>3 DEF Queue!QueueNext, Queue!Arrive
      <3>4. CASE status[f] # "absent"
        <4>1. status' = status
          BY <1>1, <3>2, <3>4 DEF RowsTyped
        <4> QED
          BY <1>1, <3>2, <4>1, QueueStutters
      <3> QED
        BY <3>3, <3>4
    <2> QED
      BY <2>1, <2>2
  <1>6. ASSUME NEW f \in Events, Retry(f)
        PROVE  [Queue!QueueNext]_(Queue!queue)
    <2>1. /\ status[f] = "needs_review" /\ draft[f] = 0 /\ ~ Stale(f)
          /\ status' = [status EXCEPT ![f] = "new"] /\ lock' = [lock EXCEPT ![f] = NoLock]
          /\ handed' = [handed EXCEPT ![f] = 0] /\ age' = age
      BY <1>6 DEF Retry
    <2>2. lock' = lock
      BY <1>1, <2>1 DEF QueueInv, LeaseIffProcessing, RowsTyped
    <2>3. Places' = [Places EXCEPT ![f] = "waiting"] /\ Places[f] = "review"
      BY <2>1, PlaceMoves DEF PlaceOf, Places
    <2>4. Replied[f] = {}
      BY <2>1 DEF Replied, AgentReplies, ReplyInv, AgentDraftsLinked
    <2>5. f \notin Aged /\ Aged' = Aged
      BY <2>1 DEF Aged, Stale
    <2> QED
      BY <1>1, <2>1, <2>2, <2>3, <2>4, <2>5 DEF Queue!QueueNext, Queue!Retry
  <1>7. ASSUME NEW f \in Events, NEW s \in Final, OperatorUpdate(f, s)
        PROVE  [Queue!QueueNext]_(Queue!queue)
    <2>1. /\ status[f] # "absent" /\ s \in Closed /\ UNCHANGED <<age, handed>>
          /\ status' = [status EXCEPT ![f] = s] /\ lock' = [lock EXCEPT ![f] = NoLock]
      BY <1>7 DEF OperatorUpdate, Closed, ghosts
    <2> QED
      BY <1>1, <2>1, QueueCloses
  <1>8. ASSUME NEW f \in Events, Receive(f)
        PROVE  [Queue!QueueNext]_(Queue!queue)
    <2>1. UNCHANGED <<status, lock, handed>> /\ age[f] = -1 /\ age' = [age EXCEPT ![f] = 0]
      BY <1>8 DEF Receive, crm, row, ghosts
    <2>2. Aged' = Aged /\ Places' = Places
      BY <1>1, <2>1, Bounds DEF Aged, Stale, ProcessesTyped, Places
    <2> QED
      BY <1>1, <2>1, <2>2 DEF Queue!queue
  <1>9. CASE \/ UNCHANGED vars
             \/ \E f \in Events :
                  \/ \E p \in Processes : SyncRead(p, f)
                  \/ \E l \in Leads : Link(f, l)
    BY <1>1, <1>9, QueueStutters DEF vars, crm, row, ghosts, SyncRead, Link
  <1> QED
    BY <1>2, <1>3, <1>4, <1>5, <1>6, <1>7, <1>8, <1>9 DEF Quiet

LEMMA QueueRequesting ==
  ASSUME InboxTyped, QueueInv, Budget, ReplyInv, LinkedRow, Requesting
  PROVE  [Queue!QueueNext]_(Queue!queue)
  <1>1. RowsTyped /\ GhostsTyped
    BY TypeParts DEF InboxTyped
  <1>2. ASSUME NEW target \in SUBSET Events, ClaimNext(target)
        PROVE  [Queue!QueueNext]_(Queue!queue)
    <2>0. age' = age
      BY <1>2 DEF ClaimNext
    <2>1. CASE UNCHANGED <<crm, handed>>
      BY <2>0, <2>1, RepliesStay, QueueStutters DEF crm, row
    <2>2. CASE ~ UNCHANGED <<crm, handed>>
      <3>1. PICK e \in target :
              /\ Claimable(e) /\ e \in Events
              /\ status' = [status EXCEPT ![e] = "processing"]
              /\ attempts' = [attempts EXCEPT ![e] = @ + 1]
              /\ lock' = [lock EXCEPT ![e] = Lease]
              /\ \/ handed' = handed
                 \/ ~ OutOfBudget(e) /\ handed' = [handed EXCEPT ![e] = @ + 1]
              /\ drafts' = drafts
        BY <1>2, <2>2, ClaimRequest
      <3>2. Places' = [Places EXCEPT ![e] = "leased"]
        BY <3>1, PlaceMoves DEF PlaceOf
      <3>3. Places[e] = "waiting" \/ Queue!LeaseOver(e)
        BY <3>1 DEF Claimable, Queue!LeaseOver, Places, PlaceOf
      <3>4. Replied' = Replied /\ Aged' = Aged
        BY <2>0, <3>1, RepliesStay DEF Aged, Stale
      <3>5. CASE handed' = handed
        <4>1. handed' = [handed EXCEPT ![e] = IF FALSE THEN @ + 1 ELSE @]
          BY <1>1, <3>5 DEF GhostsTyped
        <4>2. Queue!Take(e, FALSE)
          BY <3>1, <3>2, <3>3, <3>4, <4>1 DEF Queue!Take
        <4> QED
          BY <3>1, <4>2 DEF Queue!QueueNext
      <3>6. CASE ~ OutOfBudget(e) /\ handed' = [handed EXCEPT ![e] = @ + 1]
        <4>1. handed[e] < MaxAttempts
          BY <1>1, <3>1, <3>6, Bounds DEF Budget, OutOfBudget, RowsTyped, GhostsTyped
        <4>2. Queue!Take(e, TRUE)
          BY <3>1, <3>2, <3>3, <3>4, <3>6, <4>1 DEF Queue!Take
        <4> QED
          BY <3>1, <4>2 DEF Queue!QueueNext
      <3> QED
        BY <3>1, <3>5, <3>6
    <2> QED
      BY <2>1, <2>2
  <1>3. CASE RejectClaim
    <2>1. /\ server.step = "reject" /\ server.event \in Events /\ "needs_review" \in Verdicts
          /\ FinishEvent(server.event, "needs_review") /\ UNCHANGED <<age, handed>>
      BY <1>3, ServerTyped DEF RejectClaim, Verdicts, ghosts
    <2> QED
      BY <2>1, QueueDecides DEF Writing
  <1>4. CASE SubmitFinish
    <2>1. /\ server.step = "finish" /\ server.event \in Events /\ server.to \in Verdicts
          /\ FinishEvent(server.event, server.to) /\ UNCHANGED <<age, handed>>
      BY <1>4, ServerTyped DEF SubmitFinish
    <2> QED
      BY <2>1, QueueDecides DEF Writing
  <1>5. CASE SaveReplyDraft
    <2>0. age' = age /\ handed' = handed
      BY <1>5 DEF SaveReplyDraft
    <2>1. CASE UNCHANGED <<draft, drafts, status, lock, decided>>
      BY <2>0, <2>1, RepliesStay, QueueStutters
    <2>2. CASE ~ UNCHANGED <<draft, drafts, status, lock, decided>>
      <3>1. PICK e \in Events : e = server.event
        BY <1>5, ReplyRequest
      <3>2. /\ draft[e] = 0 /\ status[e] = "processing"
            /\ lead[e] \in Leads /\ Len(drafts) < MaxDrafts
            /\ AddDraft(e, lead[e], "agent")
            /\ status' = [status EXCEPT ![e] = "drafted"]
            /\ lock' = [lock EXCEPT ![e] = NoLock]
        BY <1>5, <2>2, <3>1, ReplyRequest
      <3>3. Places' = [Places EXCEPT ![e] = "closed"] /\ Places[e] = "leased"
        <4>1. Places' = [Places EXCEPT ![e] = PlaceOf("drafted")]
          BY <3>2, PlaceMoves
        <4>2. PlaceOf("drafted") = "closed" /\ Places[e] = "leased"
          BY <3>2 DEF PlaceOf, Places
        <4> QED
          BY <4>1, <4>2
      <3>4. AgentReplies(e) = {}
        BY <3>2 DEF AgentReplies, ReplyInv, AgentDraftsLinked
      <3>5. Replied' = [Replied EXCEPT ![e] = {Len(drafts) + 1}] /\ Replied[e] = {}
        BY <3>2, <3>4, RepliesGrow DEF Replied
      <3>6. Len(drafts) + 1 \in 1 .. MaxDrafts
        BY <3>2, ServerTyped, Bounds
      <3>7. Aged' = Aged
        BY <2>0 DEF Aged, Stale
      <3> QED
        BY <2>0, <3>2, <3>3, <3>5, <3>6, <3>7 DEF Queue!QueueNext, Queue!Answer
    <2> QED
      BY <2>1, <2>2
  <1>6. CASE OperatorLinkDraft
    <2>1. PICK f \in Events : f = server.event
      BY <1>6, ServerTyped DEF OperatorLinkDraft
    <2>2. /\ status[f] # "absent" /\ "drafted" \in Closed
          /\ status' = [status EXCEPT ![f] = "drafted"] /\ lock' = [lock EXCEPT ![f] = NoLock]
          /\ UNCHANGED <<age, handed, drafts>>
      BY <1>6, <2>1 DEF OperatorLinkDraft, LinkedRow, Closed, ghosts
    <2> QED
      BY <2>2, QueueCloses
  <1>7. CASE \E n \in 1 .. Limit : Prepare(n)
    BY <1>7, QueueTakesBack DEF Prepare, ghosts
  <1>8. ASSUME NEW e \in Events, NEW l \in Leads, OperatorSave(e, l)
        PROVE  [Queue!QueueNext]_(Queue!queue)
    <2>1. /\ UNCHANGED <<status, lock, handed, age>>
          /\ Len(drafts) < MaxDrafts /\ AddDraft(e, l, "operator")
      BY <1>8, OperatorRequest DEF OperatorSave, row, ghosts
    <2>2. Replied' = Replied
      BY <2>1, RepliesGrow DEF Replied
    <2> QED
      BY <2>1, <2>2, QueueStutters
  <1>9. CASE \/ SaveSession \/ SaveSessionAfter \/ Crash
             \/ \E f \in Events :
                  \/ \E s \in Final : SubmitNonReply(f, s)
                  \/ SubmitUnlinked(f) \/ SubmitReply(f)
    <2>1. UNCHANGED <<status, lock, handed, age, drafts>>
      BY <1>9 DEF SaveSession, SaveSessionAfter, Crash, SubmitNonReply, SubmitUnlinked, SubmitReply,
         crm, row, ghosts
    <2> QED
      BY <2>1, RepliesStay, QueueStutters
  <1> QED
    BY <1>2, <1>3, <1>4, <1>5, <1>6, <1>7, <1>8, <1>9 DEF Requesting

LEMMA LinkedHolds == Spec => []LinkedRow
  <1>1. Init => LinkedRow
    BY IdleRequest DEF Init, LinkedRow
  <1> QED
    BY <1>1, LinkedStep, InboxTypedHolds, PTL DEF Spec

\* The inbox implements LeasedQueue for any messages, leads, leases, budgets and limits,
\* with the worker's recovery, crashes and late verdicts between any two transactions
\* (crm.py claim_next_agent_inbox_event, recover_expired_agent_inbox_leases,
\* finish_agent_inbox_event, save_agent_reply_draft; conversation_agent.py).
THEOREM InboxImplementsQueue == Spec => ImplementsQueue
  <1>1. Init => Queue!QueueInit
    <2> SUFFICES ASSUME Init PROVE Queue!QueueInit
      OBVIOUS
    <2>1. Places = [e \in Events |-> "outside"]
      BY DEF Init, Places, PlaceOf
    <2>2. Replied = [e \in Events |-> {}]
      BY DEF Init, Replied, AgentReplies
    <2>3. Aged = {}
      BY Bounds DEF Init, Aged, Stale
    <2> QED
      BY <2>1, <2>2, <2>3 DEF Init, Queue!QueueInit
  <1>2. InboxTyped /\ QueueInv /\ Budget /\ ReplyInv /\ LinkedRow /\ [Next]_vars
          => [Queue!QueueNext]_(Queue!queue)
    BY StepKinds, QueueQuiet, QueueRequesting
  <1> QED
    BY <1>1, <1>2, InboxTypedHolds, QueueHolds, BudgetHolds, RepliesHold, LinkedHolds, PTL
       DEF Spec, ImplementsQueue, Queue!QueueSpec

===============================================================================
