-------------------------- MODULE OutreachSendProofs --------------------------
(***************************************************************************)
(* What holds of OutreachSend for every set of drafts and of threads.      *)
(***************************************************************************)
EXTENDS OutreachSend, FiniteSetTheorems, TLAPS

-----------------------------------------------------------------------------
(***************************************************************************)
(* Types                                                                   *)
(***************************************************************************)

\* A thread that is in an operation has its draft in hand.
InHand == \A p \in Procs : pc[p] \notin {"idle", "next"} => cur[p] \in Drafts

\* A snapshot of the queue names rows of the table, which never shrinks.
Snapshots == \A p \in Procs : todo[p] \subseteq (DOMAIN requests) \X BOOLEAN

TypeInv == TypeOK /\ InHand /\ Snapshots

LEMMA InitTypeInv == Init => TypeInv
  BY DraftsAssumption DEF Init, TypeInv, TypeOK, InHand, Snapshots, Statuses, InboxStates, Labels

\* What a step leaves of the threads: their types, and no request that was not in hand.
ThreadTypes ==
    /\ pc \in [Procs -> Labels]
    /\ cur \in [Procs -> Drafts \cup {None}]
    /\ ok \in [Procs -> BOOLEAN]
    /\ req \in [Procs -> Nat]
    /\ todo \in [Procs -> SUBSET (Nat \X BOOLEAN)]
    /\ InHand

TodoShrinks == \A q \in Procs : todo'[q] \subseteq todo[q]

\* Every helper that moves a thread keeps the types of all of them.
LEMMA GotoTypes ==
  ASSUME TypeInv, NEW p \in Procs, NEW label \in Labels, Goto(p, label),
         label \notin {"idle", "next"} => cur[p] \in Drafts
  PROVE  ThreadTypes' /\ TodoShrinks
  BY DEF TypeInv, TypeOK, Goto, InHand, ThreadTypes, TodoShrinks

LEMMA GotoWithTypes ==
  ASSUME TypeInv, NEW p \in Procs, NEW label \in Labels, NEW s \in BOOLEAN, GotoWith(p, label, s),
         cur[p] \in Drafts
  PROVE  ThreadTypes' /\ TodoShrinks
  BY DEF TypeInv, TypeOK, GotoWith, InHand, ThreadTypes, TodoShrinks

LEMMA ReturnTypes ==
  ASSUME TypeInv, NEW p \in Procs, Return(p)
  PROVE  ThreadTypes' /\ TodoShrinks
  BY DEF TypeInv, TypeOK, Return, InHand, Labels, ThreadTypes, TodoShrinks

LEMMA RaiseTypes ==
  ASSUME TypeInv, NEW p \in Procs, Raise(p), cur[p] \in Drafts
  PROVE  ThreadTypes' /\ TodoShrinks
  <1>1. "recover" \in Labels
    BY DEF Labels
  <1> QED
    BY <1>1, GotoTypes, ReturnTypes DEF Raise

LEMMA BeginTypes ==
  ASSUME TypeInv, NEW p \in Procs, NEW label \in Labels, NEW d \in Drafts, Begin(p, label, d)
  PROVE  ThreadTypes' /\ TodoShrinks
  BY DEF TypeInv, TypeOK, Begin, InHand, ThreadTypes, TodoShrinks

LEMMA SetStatusTypes ==
  ASSUME TypeInv, NEW d, NEW s \in Statuses, SetStatus(d, s)
  PROVE  status' \in [Drafts -> Statuses]
  BY DEF TypeInv, TypeOK, SetStatus

LEMMA SetRequestTypes ==
  ASSUME TypeInv, NEW r, Pending(r), NEW s \in {"pending", "completed", "failed"},
         SetRequest(r, s)
  PROVE  requests' \in Seq(Request) /\ DOMAIN requests' = DOMAIN requests
  <1>1. requests \in Seq(Request) /\ r \in 1 .. Len(requests)
    BY DEF TypeInv, TypeOK, Pending
  <1>2. requests[r] \in Request
    BY <1>1
  <1>3. [requests[r] EXCEPT !.status = s] \in Request
    BY <1>2 DEF Request
  <1> QED
    BY <1>1, <1>3 DEF SetRequest

\* What a step leaves of the tables and the history variables: their types, and every row.
TableTypes ==
    /\ flags \in [whatsapp : BOOLEAN, autopilot : BOOLEAN]
    /\ status \in [Drafts -> Statuses]
    /\ inbox \in [Drafts -> InboxStates]
    /\ requests \in Seq(Request)
    /\ logged \in [Drafts -> Nat]
    /\ followups \subseteq Drafts
    /\ approvals \in [Drafts -> Nat]
    /\ delivered \in [Drafts -> Nat]
    /\ confirmed \in [Drafts -> Nat]
    /\ faults \in Nat

RequestsKept == DOMAIN requests \subseteq DOMAIN requests'

LEMMA TypesCompose ==
  ASSUME TypeInv, ThreadTypes', TodoShrinks, TableTypes', RequestsKept
  PROVE  TypeInv'
  <1>1. TypeOK' /\ InHand'
    BY DEF ThreadTypes, TableTypes, TypeOK
  <1>2. Snapshots'
    BY DEF TypeInv, Snapshots, TodoShrinks, RequestsKept
  <1> QED
    BY <1>1, <1>2 DEF TypeInv

LEMMA TablesStay ==
  ASSUME TypeInv, UNCHANGED <<crm, ghosts, flags>>, faults' \in Nat
  PROVE  TableTypes' /\ RequestsKept
  BY DEF TypeInv, TypeOK, TableTypes, RequestsKept, crm, ghosts

\* Every action keeps the types: first the threads, then the tables.
LEMMA NextTypeInv == TypeInv /\ [Next]_vars => TypeInv'
  <1> SUFFICES ASSUME TypeInv, [Next]_vars
               PROVE  TypeInv'
    OBVIOUS
  <1>0. TypeOK /\ InHand /\ TableTypes /\ faults \in Nat /\ \A p \in Procs : pc[p] \in Labels
    BY DEF TypeInv, TypeOK, TableTypes
  <1>1. ASSUME NEW d \in Drafts, NEW answers \in BOOLEAN, SaveDraft(d, answers)
        PROVE  TypeInv'
    <2>1. ThreadTypes' /\ TodoShrinks
      BY <1>0, <1>1 DEF SaveDraft, threads, TypeOK, InHand, ThreadTypes, TodoShrinks
    <2>2. status' \in [Drafts -> Statuses] /\ inbox' \in [Drafts -> InboxStates]
      BY <1>0, <1>1 DEF SaveDraft, SetStatus, TypeOK, Statuses, InboxStates
    <2>3. TableTypes' /\ RequestsKept
      BY <1>0, <1>1, <2>2 DEF SaveDraft, ghosts, TableTypes, RequestsKept
    <2> QED
      BY <2>1, <2>3, TypesCompose
  <1>2. ASSUME NEW p \in Procs, NEW d \in Drafts, ApproveRead(p, d)
        PROVE  TypeInv'
    <2>1. ThreadTypes' /\ TodoShrinks
      BY <1>2, BeginTypes DEF ApproveRead, Labels
    <2>2. TableTypes' /\ RequestsKept
      BY <1>0, <1>2, TablesStay DEF ApproveRead
    <2> QED
      BY <2>1, <2>2, TypesCompose
  <1>3. ASSUME NEW p \in Procs, NEW d \in Drafts, QueueRead(p, d)
        PROVE  TypeInv'
    <2>1. ThreadTypes' /\ TodoShrinks
      BY <1>3, BeginTypes DEF QueueRead, Labels
    <2>2. TableTypes' /\ RequestsKept
      BY <1>0, <1>3, TablesStay DEF QueueRead
    <2> QED
      BY <2>1, <2>2, TypesCompose
  <1>4. ASSUME NEW p \in Procs, NEW d \in Drafts, ToolStart(p, d)
        PROVE  TypeInv'
    <2>1. ThreadTypes' /\ TodoShrinks
      BY <1>4, BeginTypes DEF ToolStart, Labels
    <2>2. TableTypes' /\ RequestsKept
      BY <1>0, <1>4, TablesStay DEF ToolStart
    <2> QED
      BY <2>1, <2>2, TypesCompose
  <1>5. ASSUME NEW p \in Procs, ListRequests(p)
        PROVE  TypeInv'
    <2> DEFINE good(r) == /\ requests[r].draft \in WhatsAppDrafts
                          /\ status[requests[r].draft] = "approved"
               snap == {<<r, good(r)>> : r \in PendingRequests}
    <2>1. snap \subseteq (DOMAIN requests) \X BOOLEAN
      <3>1. PendingRequests \subseteq DOMAIN requests
        BY DEF PendingRequests
      <3>2. \A r : good(r) \in BOOLEAN
        OBVIOUS
      <3> HIDE DEF good
      <3> QED
        BY <3>1, <3>2
    <2>2. DOMAIN requests \subseteq Nat
      BY <1>0 DEF TypeOK
    <2>3. /\ pc' = [pc EXCEPT ![p] = "next"]
          /\ todo' = [todo EXCEPT ![p] = snap]
          /\ UNCHANGED <<cur, ok, req>>
      BY <1>5 DEF ListRequests
    <2> HIDE DEF snap
    <2>4. ThreadTypes'
      BY <1>0, <2>1, <2>2, <2>3 DEF TypeOK, ThreadTypes, Labels, InHand
    <2>5. TableTypes' /\ RequestsKept
      BY <1>0, <1>5, TablesStay DEF ListRequests
    <2>6. Snapshots'
      BY <1>0, <2>1, <2>3, <2>5 DEF TypeInv, TypeOK, Snapshots, RequestsKept
    <2> QED
      BY <2>4, <2>5, <2>6 DEF TypeInv, TypeOK, ThreadTypes, TableTypes
  <1>6. ASSUME NEW p \in Procs, ApproveWrite(p)
        PROVE  TypeInv'
    <2>1. ThreadTypes' /\ TodoShrinks
      BY <1>6, ReturnTypes DEF ApproveWrite
    <2>2. cur[p] \in Drafts
      BY <1>0, <1>6 DEF ApproveWrite, InHand
    <2>3. approvals' \in [Drafts -> Nat]
      BY <1>0, <1>6, <2>2 DEF ApproveWrite, TypeOK
    <2>4. status' \in [Drafts -> Statuses]
      BY <1>6, SetStatusTypes DEF ApproveWrite, Statuses
    <2>5. TableTypes' /\ RequestsKept
      BY <1>0, <1>6, <2>3, <2>4 DEF ApproveWrite, TableTypes, RequestsKept
    <2> QED
      BY <2>1, <2>5, TypesCompose
  <1>7. ASSUME NEW p \in Procs, QueueWrite(p)
        PROVE  TypeInv'
    <2>1. ThreadTypes' /\ TodoShrinks
      BY <1>7, ReturnTypes DEF QueueWrite
    <2>2. [draft |-> cur[p], status |-> "pending"] \in Request
      BY <1>0, <1>7 DEF QueueWrite, InHand, Request
    <2>3. requests' \in Seq(Request) /\ RequestsKept
      BY <1>0, <1>7, <2>2 DEF QueueWrite, TypeOK, RequestsKept
    <2>4. TableTypes'
      BY <1>0, <1>7, <2>3 DEF QueueWrite, ghosts, TableTypes
    <2> QED
      BY <2>1, <2>3, <2>4, TypesCompose
  <1>8. ASSUME NEW p \in Procs, TakeRequest(p)
        PROVE  TypeInv'
    <2>1. PICK item \in todo[p] :
            /\ req' = [req EXCEPT ![p] = item[1]]
            /\ cur' = [cur EXCEPT ![p] = requests[item[1]].draft]
            /\ pc' = [pc EXCEPT ![p] = IF item[2] THEN "claim" ELSE "reject"]
            /\ ok' = [ok EXCEPT ![p] = FALSE]
            /\ todo' = [todo EXCEPT ![p] = @ \ {item}]
      BY <1>8 DEF TakeRequest
    <2>2. item[1] \in Nat /\ item[1] \in DOMAIN requests
      BY <1>0, <2>1 DEF TypeInv, TypeOK, Snapshots
    <2>3. requests[item[1]] \in Request
      BY <1>0, <2>2 DEF TypeOK
    <2>4. requests[item[1]].draft \in Drafts
      BY <2>3 DEF Request
    <2>5. cur' \in [Procs -> Drafts \cup {None}] /\ pc' \in [Procs -> Labels] /\ InHand'
      BY <1>0, <2>1, <2>4 DEF TypeOK, Labels, InHand
    <2>6. /\ req' \in [Procs -> Nat] /\ ok' \in [Procs -> BOOLEAN]
          /\ todo' \in [Procs -> SUBSET (Nat \X BOOLEAN)]
          /\ TodoShrinks
      BY <1>0, <2>1, <2>2 DEF TypeOK, TodoShrinks
    <2>7. TableTypes' /\ RequestsKept
      BY <1>0, <1>8, TablesStay DEF TakeRequest
    <2> QED
      BY <2>5, <2>6, <2>7, TypesCompose DEF ThreadTypes
  <1>9. ASSUME NEW p \in Procs, LoopEnds(p)
         PROVE  TypeInv'
    <2>1. ThreadTypes' /\ TodoShrinks
      BY <1>0, <1>9, ReturnTypes DEF LoopEnds
    <2>2. TableTypes' /\ RequestsKept
      BY <1>0, <1>9, TablesStay DEF LoopEnds
    <2> QED
      BY <2>1, <2>2, TypesCompose
  <1>10. ASSUME NEW p \in Procs, Claim(p)
         PROVE  TypeInv'
    <2>1. cur[p] \in Drafts
      BY <1>0, <1>10 DEF Claim, InHand
    <2>2. ThreadTypes' /\ TodoShrinks
      BY <1>0, <1>10, <2>1, GotoTypes, ReturnTypes DEF Claim, Labels
    <2>3. status' \in [Drafts -> Statuses]
      BY <1>0, <1>10, <2>1, SetStatusTypes DEF Claim, TypeOK, Statuses
    <2>4. TableTypes' /\ RequestsKept
      BY <1>0, <1>10, <2>3 DEF Claim, ghosts, TableTypes, RequestsKept
    <2> QED
      BY <2>2, <2>4, TypesCompose
  <1>11. ASSUME NEW p \in Procs, CallBlocked(p)
         PROVE  TypeInv'
    <2>1. cur[p] \in Drafts
      BY <1>0, <1>11 DEF CallBlocked, InHand
    <2>2. ThreadTypes' /\ TodoShrinks
      BY <1>0, <1>11, <2>1, GotoTypes DEF CallBlocked, Labels
    <2>3. TableTypes' /\ RequestsKept
      BY <1>0, <1>11, TablesStay DEF CallBlocked
    <2> QED
      BY <2>2, <2>3, TypesCompose
  <1>12. ASSUME NEW p \in Procs, CallBridge(p)
         PROVE  TypeInv'
    <2>1. PICK taken \in BOOLEAN, success \in BOOLEAN :
            /\ delivered' = IF taken THEN [delivered EXCEPT ![cur[p]] = @ + 1] ELSE delivered
            /\ confirmed' = IF success THEN [confirmed EXCEPT ![cur[p]] = @ + 1] ELSE confirmed
            /\ GotoWith(p, "mark", success)
      BY <1>12 DEF CallBridge
    <2>2. cur[p] \in Drafts
      BY <1>0, <1>12 DEF CallBridge, InHand
    <2>3. ThreadTypes' /\ TodoShrinks
      BY <2>1, <2>2, GotoWithTypes DEF Labels
    <2>4. delivered' \in [Drafts -> Nat] /\ confirmed' \in [Drafts -> Nat]
      BY <1>0, <2>1, <2>2 DEF TypeOK
    <2>5. TableTypes' /\ RequestsKept
      BY <1>0, <1>12, <2>4 DEF CallBridge, crm, TableTypes, RequestsKept
    <2> QED
      BY <2>3, <2>5, TypesCompose
  <1>13. ASSUME NEW p \in Procs, Release(p)
         PROVE  TypeInv'
    <2>1. cur[p] \in Drafts
      BY <1>0, <1>13 DEF Release, InHand
    <2>2. ThreadTypes' /\ TodoShrinks
      BY <1>0, <1>13, <2>1, GotoWithTypes, ReturnTypes, RaiseTypes DEF Release, Labels
    <2>3. status' \in [Drafts -> Statuses]
      BY <1>0, <1>13, <2>1, SetStatusTypes DEF Release, TypeOK, Statuses
    <2>4. TableTypes' /\ RequestsKept
      BY <1>0, <1>13, <2>3 DEF Release, ghosts, TableTypes, RequestsKept
    <2> QED
      BY <2>2, <2>4, TypesCompose
  <1>14. ASSUME NEW p \in Procs, MarkRead(p)
         PROVE  TypeInv'
    <2>1. cur[p] \in Drafts
      BY <1>0, <1>14 DEF MarkRead, InHand
    <2>2. ThreadTypes' /\ TodoShrinks
      BY <1>0, <1>14, <2>1, GotoTypes, RaiseTypes DEF MarkRead, Labels
    <2>3. TableTypes' /\ RequestsKept
      BY <1>0, <1>14, TablesStay DEF MarkRead
    <2> QED
      BY <2>2, <2>3, TypesCompose
  <1>15. ASSUME NEW p \in Procs, MarkWrite(p)
         PROVE  TypeInv'
    <2>1. cur[p] \in Drafts
      BY <1>0, <1>15 DEF MarkWrite, InHand
    <2>2. ThreadTypes' /\ TodoShrinks
      BY <1>0, <1>15, <2>1, GotoTypes, ReturnTypes DEF MarkWrite, Labels
    <2>3. status' \in [Drafts -> Statuses]
      BY <1>0, <1>15, <2>1, SetStatusTypes DEF MarkWrite, Statuses
    <2>4. TableTypes' /\ RequestsKept
      BY <1>0, <1>15, <2>3 DEF MarkWrite, ghosts, TableTypes, RequestsKept
    <2> QED
      BY <2>2, <2>4, TypesCompose
  <1>16. ASSUME NEW p \in Procs, Resolve(p)
         PROVE  TypeInv'
    <2>1. cur[p] \in Drafts
      BY <1>0, <1>16 DEF Resolve, InHand
    <2>2. ThreadTypes' /\ TodoShrinks
      BY <1>0, <1>16, <2>1, GotoTypes DEF Resolve, Labels
    <2>3. inbox' \in [Drafts -> InboxStates]
      BY <1>0, <1>16, <2>1 DEF Resolve, TypeOK, InboxStates
    <2>4. TableTypes' /\ RequestsKept
      BY <1>0, <1>16, <2>3 DEF Resolve, ghosts, TableTypes, RequestsKept
    <2> QED
      BY <2>2, <2>4, TypesCompose
  <1>17. ASSUME NEW p \in Procs, Record(p)
         PROVE  TypeInv'
    <2>1. cur[p] \in Drafts
      BY <1>0, <1>17 DEF Record, InHand
    <2>2. ThreadTypes' /\ TodoShrinks
      BY <1>0, <1>17, <2>1, GotoTypes DEF Record, Labels
    <2>3. logged' \in [Drafts -> Nat]
      BY <1>0, <1>17, <2>1 DEF Record, TypeOK
    <2>4. TableTypes' /\ RequestsKept
      BY <1>0, <1>17, <2>3 DEF Record, ghosts, TableTypes, RequestsKept
    <2> QED
      BY <2>2, <2>4, TypesCompose
  <1>18. ASSUME NEW p \in Procs, Followup(p)
         PROVE  TypeInv'
    <2>1. cur[p] \in Drafts
      BY <1>0, <1>18 DEF Followup, InHand
    <2>2. ThreadTypes' /\ TodoShrinks
      BY <1>0, <1>18, <2>1, ReturnTypes DEF Followup
    <2>3. followups' \subseteq Drafts
      BY <1>0, <1>18, <2>1 DEF Followup, TypeOK
    <2>4. TableTypes' /\ RequestsKept
      BY <1>0, <1>18, <2>3 DEF Followup, ghosts, TableTypes, RequestsKept
    <2> QED
      BY <2>2, <2>4, TypesCompose
  <1>19. ASSUME NEW p \in Procs, Reject(p)
         PROVE  TypeInv'
    <2>1. cur[p] \in Drafts
      BY <1>0, <1>19 DEF Reject, InHand
    <2>2. ThreadTypes' /\ TodoShrinks
      BY <1>0, <1>19, <2>1, GotoTypes, ReturnTypes DEF Reject, Labels
    <2>3. requests' \in Seq(Request) /\ DOMAIN requests' = DOMAIN requests
      BY <1>0, <1>19, <2>1, SetRequestTypes DEF Reject, TypeOK
    <2>4. TableTypes' /\ RequestsKept
      BY <1>0, <1>19, <2>3 DEF Reject, ghosts, TableTypes, RequestsKept
    <2> QED
      BY <2>2, <2>4, TypesCompose
  <1>20. ASSUME NEW p \in Procs, Complete(p)
         PROVE  TypeInv'
    <2>1. cur[p] \in Drafts
      BY <1>0, <1>20 DEF Complete, InHand
    <2>2. ThreadTypes' /\ TodoShrinks
      BY <1>0, <1>20, <2>1, GotoTypes DEF Complete, Labels
    <2>3. requests' \in Seq(Request) /\ DOMAIN requests' = DOMAIN requests
      BY <1>0, <1>20, <2>1, SetRequestTypes DEF Complete, TypeOK
    <2>4. TableTypes' /\ RequestsKept
      BY <1>0, <1>20, <2>3 DEF Complete, ghosts, TableTypes, RequestsKept
    <2> QED
      BY <2>2, <2>4, TypesCompose
  <1>21. ASSUME NEW p \in Procs, RecoverRead(p)
         PROVE  TypeInv'
    <2>1. cur[p] \in Drafts
      BY <1>0, <1>21 DEF RecoverRead, InHand
    <2>2. ThreadTypes' /\ TodoShrinks
      BY <1>0, <1>21, <2>1, GotoTypes DEF RecoverRead, Labels
    <2>3. TableTypes' /\ RequestsKept
      BY <1>0, <1>21, TablesStay DEF RecoverRead
    <2> QED
      BY <2>2, <2>3, TypesCompose
  <1>22. ASSUME NEW p \in Procs, RecoverWrite(p)
         PROVE  TypeInv'
    <2>1. cur[p] \in Drafts
      BY <1>0, <1>22 DEF RecoverWrite, InHand
    <2>2. ThreadTypes' /\ TodoShrinks
      BY <1>0, <1>22, <2>1, GotoTypes DEF RecoverWrite, Labels
    <2>3. status' \in [Drafts -> Statuses]
      BY <1>0, <1>22, <2>1, SetStatusTypes DEF RecoverWrite, Statuses
    <2>4. TableTypes' /\ RequestsKept
      BY <1>0, <1>22, <2>3 DEF RecoverWrite, ghosts, TableTypes, RequestsKept
    <2> QED
      BY <2>2, <2>4, TypesCompose
  <1>23. ASSUME NEW p \in Procs, FailRequest(p)
         PROVE  TypeInv'
    <2>1. cur[p] \in Drafts
      BY <1>0, <1>23 DEF FailRequest, InHand
    <2>2. ThreadTypes' /\ TodoShrinks
      BY <1>0, <1>23, <2>1, GotoTypes, ReturnTypes DEF FailRequest, Labels
    <2>3. requests' \in Seq(Request) /\ DOMAIN requests' = DOMAIN requests
      BY <1>0, <1>23, <2>1, SetRequestTypes DEF FailRequest, TypeOK
    <2>4. TableTypes' /\ RequestsKept
      BY <1>0, <1>23, <2>3 DEF FailRequest, ghosts, TableTypes, RequestsKept
    <2> QED
      BY <2>2, <2>4, TypesCompose
  <1>24. ASSUME NEW p \in Procs, DatabaseError(p)
         PROVE  TypeInv'
    <2>1. cur[p] \in Drafts
      BY <1>0, <1>24 DEF DatabaseError, InHand
    <2>2. ThreadTypes' /\ TodoShrinks
      BY <1>0, <1>24, <2>1, RaiseTypes DEF DatabaseError
    <2>3. TableTypes' /\ RequestsKept
      BY <1>0, <1>24, TablesStay DEF DatabaseError
    <2> QED
      BY <2>2, <2>3, TypesCompose
  <1>25. ASSUME NEW p \in Procs, Crash(p)
         PROVE  TypeInv'
    <2>1. ThreadTypes' /\ TodoShrinks
      BY <1>0, <1>25, ReturnTypes DEF Crash
    <2>2. TableTypes' /\ RequestsKept
      BY <1>0, <1>25, TablesStay DEF Crash
    <2> QED
      BY <2>1, <2>2, TypesCompose
  <1>26. CASE UNCHANGED vars
    <2>1. ThreadTypes' /\ TodoShrinks
      BY <1>0, <1>26 DEF vars, threads, TypeOK, InHand, ThreadTypes, TodoShrinks
    <2>2. TableTypes' /\ RequestsKept
      BY <1>0, <1>26, TablesStay DEF vars
    <2> QED
      BY <2>1, <2>2, TypesCompose
  <1> QED
    BY <1>1, <1>2, <1>3, <1>4, <1>5, <1>6, <1>7, <1>8, <1>9, <1>10, <1>11, <1>12, <1>13,
       <1>14, <1>15, <1>16, <1>17, <1>18, <1>19, <1>20, <1>21, <1>22, <1>23, <1>24, <1>25, <1>26
       DEF Next, Step

\* TypeOK of the runs, for every set of drafts and threads.
THEOREM TypeCorrect == Spec => []TypeOK
  <1>1. TypeInv => TypeOK
    BY DEF TypeInv
  <1> QED
    BY <1>1, InitTypeInv, NextTypeInv, PTL DEF Spec

-----------------------------------------------------------------------------
(***************************************************************************)
(* Every delivery is paid by an approval                                   *)
(*                                                                         *)
(* An approval is a coin: it lies on the draft while the draft is          *)
(* "approved", a claim takes it, a release puts it back, the call spends   *)
(* it.  SendsPaidByApprovals is not inductive alone, because a claimed     *)
(* draft is not delivered yet; the coins under way make it so.             *)
(***************************************************************************)
Claiming == {"call", "release"}
Claimed(d) == {p \in Procs : pc[p] \in Claiming /\ cur[p] = d}
Credit(d) == IF status[d] = "approved" THEN 1 ELSE 0

PaidInv ==
    \A d \in Drafts : delivered[d] + Cardinality(Claimed(d)) + Credit(d) <= approvals[d]

\* The rest of the threads stay where they are.
OthersStay(p) == \A q \in Procs \ {p} : pc'[q] = pc[q] /\ cur'[q] = cur[q]

LEMMA ClaimedFinite ==
  ASSUME NEW d
  PROVE  /\ IsFiniteSet(Claimed(d)) /\ Cardinality(Claimed(d)) \in Nat
         /\ IsFiniteSet(Claimed(d)') /\ Cardinality(Claimed(d)') \in Nat
  <1>1. Claimed(d) \subseteq Procs /\ Claimed(d)' \subseteq Procs
    BY DEF Claimed
  <1> QED
    BY <1>1, ProcsAssumption, FS_Subset, FS_CardinalityType

\* A thread that is not claiming afterwards adds nothing to what is claimed ...
LEMMA ClaimedShrinks ==
  ASSUME NEW p \in Procs, OthersStay(p), pc'[p] \notin Claiming, NEW d
  PROVE  Cardinality(Claimed(d)') <= Cardinality(Claimed(d))
  <1>1. Claimed(d)' \subseteq Claimed(d)
    BY DEF Claimed, OthersStay
  <1> QED
    BY <1>1, ClaimedFinite, FS_Subset

\* ... and one that was claiming takes its own claim with it.
LEMMA ClaimedLoses ==
  ASSUME NEW p \in Procs, OthersStay(p), pc[p] \in Claiming, pc'[p] \notin Claiming,
         NEW d, cur[p] = d
  PROVE  Cardinality(Claimed(d)') = Cardinality(Claimed(d)) - 1
  <1>1. Claimed(d)' = Claimed(d) \ {p} /\ p \in Claimed(d)
    BY DEF Claimed, OthersStay
  <1> QED
    BY <1>1, ClaimedFinite, FS_RemoveElement

\* What most steps do: no delivery, no approval, no new credit, no new claim.
LEMMA QuietStep ==
  ASSUME TypeInv, PaidInv, NEW p \in Procs, OthersStay(p), pc'[p] \notin Claiming,
         UNCHANGED <<delivered, approvals>>,
         \A d \in Drafts : status'[d] = "approved" => status[d] = "approved"
  PROVE  PaidInv'
  <1> SUFFICES ASSUME NEW d \in Drafts
               PROVE  (delivered[d] + Cardinality(Claimed(d)) + Credit(d) <= approvals[d])'
    BY DEF PaidInv
  <1>1. Cardinality(Claimed(d)') <= Cardinality(Claimed(d))
    BY ClaimedShrinks
  <1>2. Credit(d)' <= Credit(d) /\ Credit(d) \in Nat /\ Credit(d)' \in Nat
    BY DEF Credit
  <1>3. delivered[d] \in Nat /\ approvals[d] \in Nat
    BY DEF TypeInv, TypeOK
  <1>4. delivered[d] + Cardinality(Claimed(d)) + Credit(d) <= approvals[d]
    BY DEF PaidInv
  <1>5. delivered'[d] = delivered[d] /\ approvals'[d] = approvals[d]
    OBVIOUS
  <1>6. Cardinality(Claimed(d)) \in Nat /\ Cardinality(Claimed(d)') \in Nat
    BY ClaimedFinite
  <1> QED
    BY <1>1, <1>2, <1>3, <1>4, <1>5, <1>6

LEMMA InitPaidInv == Init => PaidInv
  <1> SUFFICES ASSUME Init, NEW d \in Drafts
               PROVE  delivered[d] + Cardinality(Claimed(d)) + Credit(d) <= approvals[d]
    BY DEF PaidInv
  <1>1. Claimed(d) = {}
    BY DEF Init, Claimed, Claiming
  <1>2. Credit(d) = 0
    BY DEF Init, Credit
  <1> QED
    BY <1>1, <1>2, FS_EmptySet DEF Init

\* One step per action; those in which a coin moves are looked at draft by draft.
LEMMA NextPaidInv == TypeInv /\ PaidInv /\ [Next]_vars => PaidInv'
  <1> SUFFICES ASSUME TypeInv, PaidInv, [Next]_vars
               PROVE  PaidInv'
    OBVIOUS
  <1>0. \A p \in Procs : pc[p] \notin {"idle", "next"} => cur[p] \in Drafts
    BY DEF TypeInv, InHand
  <1>t. /\ status \in [Drafts -> Statuses] /\ pc \in [Procs -> Labels]
        /\ cur \in [Procs -> Drafts \cup {None}]
        /\ delivered \in [Drafts -> Nat] /\ approvals \in [Drafts -> Nat]
    BY DEF TypeInv, TypeOK
  <1>c. \A d \in Drafts :
          /\ delivered[d] + Cardinality(Claimed(d)) + Credit(d) <= approvals[d]
          /\ delivered[d] \in Nat /\ approvals[d] \in Nat
          /\ Cardinality(Claimed(d)) \in Nat /\ Cardinality(Claimed(d)') \in Nat
    BY <1>t, ClaimedFinite DEF PaidInv
  <1>1. ASSUME NEW d \in Drafts, NEW answers \in BOOLEAN, SaveDraft(d, answers)
        PROVE  PaidInv'
    <2>1. \A e : Claimed(e)' = Claimed(e)
      BY <1>1 DEF SaveDraft, threads, Claimed
    <2>2. \A e \in Drafts : status'[e] = "approved" => status[e] = "approved"
      BY <1>1, <1>t DEF SaveDraft, SetStatus
    <2>3. UNCHANGED <<delivered, approvals>>
      BY <1>1 DEF SaveDraft, ghosts
    <2>4. ASSUME NEW e \in Drafts
          PROVE  (delivered[e] + Cardinality(Claimed(e)) + Credit(e) <= approvals[e])'
      BY <2>1, <2>2, <2>3, <1>c DEF Credit
    <2> QED
      BY <2>4 DEF PaidInv
  <1>2. ASSUME NEW p \in Procs,
               \/ \E d \in Drafts : ApproveRead(p, d) \/ QueueRead(p, d) \/ ToolStart(p, d)
               \/ ListRequests(p) \/ TakeRequest(p)
        PROVE  PaidInv'
    <2>1. /\ OthersStay(p) /\ pc'[p] \notin Claiming
          /\ UNCHANGED <<status, delivered, approvals>>
      BY <1>2, <1>t DEF ApproveRead, QueueRead, ToolStart, ListRequests, TakeRequest, Begin, crm,
                        ghosts, OthersStay, Claiming
    <2> QED
      BY <2>1, QuietStep
  <1>3. ASSUME NEW p \in Procs, ApproveWrite(p)
        PROVE  PaidInv'
    <2> DEFINE a == cur[p]
    <2>1. /\ OthersStay(p) /\ pc'[p] \notin Claiming /\ a \in Drafts
          /\ status' = [status EXCEPT ![a] = "approved"]
          /\ approvals' = [approvals EXCEPT ![a] = @ + 1]
          /\ UNCHANGED delivered
      BY <1>0, <1>3, <1>t DEF ApproveWrite, SetStatus, Return, OthersStay, Claiming
    <2>2. ASSUME NEW d \in Drafts
          PROVE  (delivered[d] + Cardinality(Claimed(d)) + Credit(d) <= approvals[d])'
      <3>1. Cardinality(Claimed(d)') <= Cardinality(Claimed(d))
        BY <2>1, ClaimedShrinks
      <3>2. CASE d = a
        <4>1. approvals'[d] = approvals[d] + 1
          BY <2>1, <3>2, <1>t
        <4> QED
          BY <2>1, <3>1, <4>1, <1>c DEF Credit
      <3>3. CASE d # a
        <4>1. approvals'[d] = approvals[d] /\ status'[d] = status[d]
          BY <2>1, <3>3, <1>t
        <4> QED
          BY <2>1, <3>1, <4>1, <1>c DEF Credit
      <3> QED
        BY <3>2, <3>3
    <2> QED
      BY <2>2 DEF PaidInv
  <1>4. ASSUME NEW p \in Procs, QueueWrite(p) \/ LoopEnds(p)
        PROVE  PaidInv'
    <2>1. /\ OthersStay(p) /\ pc'[p] \notin Claiming
          /\ UNCHANGED <<status, delivered, approvals>>
      BY <1>4, <1>t DEF QueueWrite, LoopEnds, Return, crm, ghosts, OthersStay, Claiming
    <2> QED
      BY <2>1, QuietStep
  <1>5. ASSUME NEW p \in Procs, Claim(p)
        PROVE  PaidInv'
    <2>1. CASE status[cur[p]] = "approved"
      <3> DEFINE a == cur[p]
      <3>1. /\ a \in Drafts /\ pc[p] = "claim" /\ pc' = [pc EXCEPT ![p] = "call"] /\ cur' = cur
            /\ status' = [status EXCEPT ![a] = "sending"]
            /\ UNCHANGED <<delivered, approvals>>
        BY <1>0, <1>5, <2>1 DEF Claim, SetStatus, Goto, ghosts
      <3>2. ASSUME NEW d \in Drafts
            PROVE  (delivered[d] + Cardinality(Claimed(d)) + Credit(d) <= approvals[d])'
        <4>1. CASE d = a
          <5>1. Claimed(d)' = Claimed(d) \cup {p} /\ p \notin Claimed(d)
            BY <3>1, <4>1, <1>t DEF Claimed, Claiming
          <5>2. Cardinality(Claimed(d)') = Cardinality(Claimed(d)) + 1
            BY <5>1, ClaimedFinite, FS_AddElement
          <5>3. Credit(d) = 1 /\ Credit(d)' = 0
            BY <2>1, <3>1, <4>1, <1>t DEF Credit
          <5> QED
            BY <3>1, <5>2, <5>3, <1>c
        <4>2. CASE d # a
          <5>1. Claimed(d)' = Claimed(d) /\ status'[d] = status[d]
            BY <3>1, <4>2, <1>t DEF Claimed, Claiming
          <5> QED
            BY <3>1, <5>1, <1>c DEF Credit
        <4> QED
          BY <4>1, <4>2
      <3> QED
        BY <3>2 DEF PaidInv
    <2>2. CASE status[cur[p]] # "approved"
      <3>1. /\ OthersStay(p) /\ pc'[p] \notin Claiming
            /\ UNCHANGED <<status, delivered, approvals>>
        BY <1>5, <2>2, <1>t DEF Claim, Goto, Return, ghosts, OthersStay, Claiming
      <3> QED
        BY <3>1, QuietStep
    <2> QED
      BY <2>1, <2>2
  <1>6. ASSUME NEW p \in Procs, CallBlocked(p)
        PROVE  PaidInv'
    <2>1. \A d : Claimed(d)' = Claimed(d)
      BY <1>6, <1>t DEF CallBlocked, Goto, Claimed, Claiming
    <2>2. UNCHANGED <<status, delivered, approvals>>
      BY <1>6 DEF CallBlocked, crm, ghosts
    <2> QED
      BY <2>1, <2>2 DEF PaidInv, Credit
  <1>7. ASSUME NEW p \in Procs, CallBridge(p)
        PROVE  PaidInv'
    <2> DEFINE a == cur[p]
    <2>1. /\ a \in Drafts /\ OthersStay(p) /\ pc[p] \in Claiming /\ pc'[p] \notin Claiming
          /\ UNCHANGED <<status, approvals>>
          /\ delivered' \in {delivered, [delivered EXCEPT ![a] = @ + 1]}
      BY <1>0, <1>7, <1>t DEF CallBridge, GotoWith, crm, OthersStay, Claiming
    <2>2. ASSUME NEW d \in Drafts
          PROVE  (delivered[d] + Cardinality(Claimed(d)) + Credit(d) <= approvals[d])'
      <3>1. CASE d = a
        <4>1. Cardinality(Claimed(d)') = Cardinality(Claimed(d)) - 1
          BY <2>1, <3>1, ClaimedLoses
        <4>2. delivered'[d] \in {delivered[d], delivered[d] + 1}
          BY <2>1, <3>1, <1>t
        <4> QED
          BY <2>1, <4>1, <4>2, <1>c DEF Credit
      <3>2. CASE d # a
        <4>1. Cardinality(Claimed(d)') <= Cardinality(Claimed(d))
          BY <2>1, ClaimedShrinks
        <4>2. delivered'[d] = delivered[d]
          BY <2>1, <3>2, <1>t
        <4> QED
          BY <2>1, <4>1, <4>2, <1>c DEF Credit
      <3> QED
        BY <3>1, <3>2
    <2> QED
      BY <2>2 DEF PaidInv
  <1>8. ASSUME NEW p \in Procs, Release(p)
        PROVE  PaidInv'
    <2> DEFINE a == cur[p]
    <2>1. /\ a \in Drafts /\ OthersStay(p) /\ pc[p] \in Claiming /\ pc'[p] \notin Claiming
          /\ UNCHANGED <<delivered, approvals>>
          /\ status' \in {status, [status EXCEPT ![a] = "approved"]}
      BY <1>0, <1>8, <1>t DEF Release, SetStatus, Goto, GotoWith, Return, Raise, ghosts,
                              OthersStay, Claiming
    <2>2. ASSUME NEW d \in Drafts
          PROVE  (delivered[d] + Cardinality(Claimed(d)) + Credit(d) <= approvals[d])'
      <3>1. CASE d = a
        <4>1. Cardinality(Claimed(d)') = Cardinality(Claimed(d)) - 1
          BY <2>1, <3>1, ClaimedLoses
        <4>2. Credit(d)' \in {0, 1} /\ Credit(d) \in {0, 1}
          BY DEF Credit
        <4> QED
          BY <2>1, <4>1, <4>2, <1>c
      <3>2. CASE d # a
        <4>1. Cardinality(Claimed(d)') <= Cardinality(Claimed(d))
          BY <2>1, ClaimedShrinks
        <4>2. status'[d] = status[d]
          BY <2>1, <3>2, <1>t
        <4> QED
          BY <2>1, <4>1, <4>2, <1>c DEF Credit
      <3> QED
        BY <3>1, <3>2
    <2> QED
      BY <2>2 DEF PaidInv
  <1>9. ASSUME NEW p \in Procs, MarkWrite(p) \/ RecoverWrite(p)
        PROVE  PaidInv'
    <2>1. /\ OthersStay(p) /\ pc'[p] \notin Claiming
          /\ UNCHANGED <<delivered, approvals>>
      BY <1>9, <1>t DEF MarkWrite, RecoverWrite, Goto, Return, ghosts, OthersStay, Claiming
    <2>2. \E s \in {"sent", "failed"} : status' = [status EXCEPT ![cur[p]] = s]
      BY <1>9 DEF MarkWrite, RecoverWrite, SetStatus
    <2>3. \A d \in Drafts : status'[d] = "approved" => status[d] = "approved"
      BY <2>2, <1>t
    <2> QED
      BY <2>1, <2>3, QuietStep
  <1>10. ASSUME NEW p \in Procs,
                \/ MarkRead(p) \/ Resolve(p) \/ Record(p) \/ Followup(p) \/ Reject(p)
                \/ Complete(p) \/ RecoverRead(p) \/ FailRequest(p)
         PROVE  PaidInv'
    <2>1. /\ OthersStay(p) /\ pc'[p] \notin Claiming
          /\ UNCHANGED <<status, delivered, approvals>>
      BY <1>10, <1>t DEF MarkRead, Resolve, Record, Followup, Reject, Complete, RecoverRead,
                         FailRequest, Goto, Return, Raise, crm, ghosts, OthersStay, Claiming
    <2> QED
      BY <2>1, QuietStep
  <1>11. ASSUME NEW p \in Procs, DatabaseError(p) \/ Crash(p)
         PROVE  PaidInv'
    <2>1. /\ OthersStay(p) /\ pc'[p] \notin Claiming
          /\ UNCHANGED <<status, delivered, approvals>>
      BY <1>11, <1>t DEF DatabaseError, Crash, Goto, Return, Raise, crm, ghosts, OthersStay, Claiming
    <2> QED
      BY <2>1, QuietStep
  <1>12. CASE UNCHANGED vars
    BY <1>12 DEF vars, crm, threads, ghosts, PaidInv, Credit, Claimed
  <1> QED
    BY <1>1, <1>2, <1>3, <1>4, <1>5, <1>6, <1>7, <1>8, <1>9, <1>10, <1>11, <1>12 DEF Next, Step

\* Whatever the threads do, and whatever crashes or fails between two steps, WhatsApp takes
\* no more copies of a draft than it was approved (crm.py approve_outreach_draft,
\* claim_outreach_draft_for_send, release_outreach_send_claim).
THEOREM PaidByApprovals == Spec => []SendsPaidByApprovals
  <1>1. TypeInv /\ PaidInv => SendsPaidByApprovals
    <2> SUFFICES ASSUME TypeInv, PaidInv, NEW d \in Drafts
                 PROVE  delivered[d] <= approvals[d]
      BY DEF SendsPaidByApprovals
    <2>1. delivered[d] \in Nat /\ approvals[d] \in Nat /\ Cardinality(Claimed(d)) \in Nat
      BY ClaimedFinite DEF TypeInv, TypeOK
    <2>2. Credit(d) \in Nat
      BY DEF Credit
    <2>3. delivered[d] + Cardinality(Claimed(d)) + Credit(d) <= approvals[d]
      BY DEF PaidInv
    <2> QED
      BY <2>1, <2>2, <2>3
  <1> QED
    BY <1>1, InitTypeInv, NextTypeInv, InitPaidInv, NextPaidInv, PTL DEF Spec

-----------------------------------------------------------------------------
(***************************************************************************)
(* At most once, with one thread that approves                             *)
(*                                                                         *)
(* approve_outreach_draft reads the status and writes it by the id alone,  *)
(* so two threads that approve can both spend the status "draft" (the run  *)
(* send_twice).  With one, the status is still "draft" when it writes, a   *)
(* draft is approved once, and what the claim promises follows.            *)
(***************************************************************************)
SingleApprover == \A a, b \in Approvers : a = b

Undecided == {"absent", "draft"}
Settled == {"sent", "failed"}
Afterwards == {"resolve", "record", "followup", "complete", "recover"}

ApprovedOnce ==
    /\ \A d \in Drafts : approvals[d] <= 1
    /\ \A d \in Drafts : status[d] \in Undecided => approvals[d] = 0
ApprovingADraft ==
    \A p \in Procs : pc[p] = "approve" => p \in Approvers /\ status[cur[p]] = "draft"
\* A queue is only processed where nothing is blocked, so nothing of it is released.
QueueLabels == {"next", "reject", "complete"}
QueueNeedsSending ==
    \A p \in Procs :
        /\ pc[p] \in QueueLabels \/ req[p] # 0 => flags.whatsapp
        /\ pc[p] = "release" => ~flags.whatsapp
\* The handler of the queue never finds a claim to take back.
NothingToRecover ==
    \A p \in Procs :
        /\ pc[p] \in Afterwards => status[cur[p]] \in Settled
        /\ pc[p] \notin {"recover_write", "finish_failed"}

OnceInv ==
    ApprovedOnce /\ ApprovingADraft /\ ClaimIsExclusive /\ QueueNeedsSending /\ NothingToRecover

LEMMA InitOnceInv == Init => OnceInv
  BY DEF Init, OnceInv, ApprovedOnce, ApprovingADraft, ClaimIsExclusive, Holding,
         QueueNeedsSending, NothingToRecover, Undecided, Afterwards, QueueLabels

HoldLabels == {"call", "release", "mark", "mark_write"}

\* A step of one thread after which its own part of OnceInv holds and no claim is new.
Moves(p) ==
    /\ \A q \in Procs \ {p} : pc'[q] = pc[q] /\ cur'[q] = cur[q] /\ req'[q] = req[q]
    /\ pc'[p] = "approve" => p \in Approvers /\ status'[cur'[p]] = "draft"
    /\ pc'[p] \in HoldLabels => pc[p] \in HoldLabels /\ cur'[p] = cur[p]
    /\ pc'[p] \in QueueLabels \/ req'[p] # 0 => flags.whatsapp
    /\ pc'[p] = "release" => ~flags.whatsapp
    /\ pc'[p] \in Afterwards => status'[cur'[p]] \in Settled
    /\ pc'[p] \notin {"recover_write", "finish_failed"}

LEMMA MovesKeepOnce ==
  ASSUME OnceInv, NEW p \in Procs, Moves(p), UNCHANGED <<status, approvals, flags>>
  PROVE  OnceInv'
  <1>1. ApprovedOnce' /\ ApprovingADraft' /\ QueueNeedsSending' /\ NothingToRecover'
    BY DEF OnceInv, ApprovedOnce, ApprovingADraft, QueueNeedsSending, NothingToRecover, Moves
  <1>2. \A q \in Procs, d \in Drafts : Holding(q, d)' => Holding(q, d)
    BY DEF Holding, Moves, HoldLabels
  <1>3. ClaimIsExclusive'
    BY <1>2 DEF OnceInv, ClaimIsExclusive
  <1> QED
    BY <1>1, <1>3 DEF OnceInv

\* The steps that leave every status alone, one group per guard they rely on.
LEMMA QuietStepsMove ==
  ASSUME TypeInv, OnceInv, NEW p \in Procs, UNCHANGED <<status, approvals, flags>>,
         \/ \E d \in Drafts : ApproveRead(p, d) \/ QueueRead(p, d) \/ ToolStart(p, d)
         \/ ListRequests(p) \/ QueueWrite(p) \/ TakeRequest(p) \/ LoopEnds(p)
         \/ Claim(p) \/ CallBlocked(p) \/ CallBridge(p) \/ Release(p)
         \/ MarkRead(p) \/ Resolve(p) \/ Record(p) \/ Followup(p)
         \/ Reject(p) \/ Complete(p) \/ RecoverRead(p) \/ FailRequest(p)
         \/ DatabaseError(p) \/ Crash(p)
  PROVE  Moves(p)
  <1>t. /\ status \in [Drafts -> Statuses] /\ pc \in [Procs -> Labels]
        /\ cur \in [Procs -> Drafts \cup {None}] /\ req \in [Procs -> Nat]
        /\ pc[p] \notin {"idle", "next"} => cur[p] \in Drafts
    BY DEF TypeInv, TypeOK, InHand
  <1>o. /\ pc[p] \in QueueLabels \/ req[p] # 0 => flags.whatsapp
        /\ pc[p] = "release" => ~flags.whatsapp
        /\ pc[p] \in Afterwards => status[cur[p]] \in Settled
        /\ pc[p] \notin {"recover_write", "finish_failed"}
        /\ pc[p] = "approve" => p \in Approvers /\ status[cur[p]] = "draft"
    BY DEF OnceInv, QueueNeedsSending, NothingToRecover, ApprovingADraft
  <1>h. pc[p] \in HoldLabels => status[cur[p]] = "sending"
    BY <1>t DEF OnceInv, ClaimIsExclusive, Holding, HoldLabels
  <1> USE DEF Moves, HoldLabels, Afterwards, Settled, QueueLabels, FromQueue
  <1>1. CASE \E d \in Drafts : ApproveRead(p, d) \/ QueueRead(p, d) \/ ToolStart(p, d)
    BY <1>1, <1>t, <1>o DEF ApproveRead, QueueRead, ToolStart, Begin
  <1>2. CASE ListRequests(p) \/ TakeRequest(p)
    BY <1>2, <1>t, <1>o DEF ListRequests, TakeRequest
  <1>3. CASE QueueWrite(p) \/ LoopEnds(p) \/ Followup(p) \/ Crash(p)
    BY <1>3, <1>t, <1>o DEF QueueWrite, LoopEnds, Followup, Crash, Return
  <1>4. CASE Claim(p)
    <2>1. status[cur[p]] # "approved"
      BY <1>4, <1>t DEF Claim, SetStatus
    <2> QED
      BY <1>4, <2>1, <1>t, <1>o DEF Claim, Goto, Return
  <1>5. CASE CallBlocked(p)
    BY <1>5, <1>t, <1>o DEF CallBlocked, BlockedByPolicy, Goto
  <1>6. CASE CallBridge(p)
    BY <1>6, <1>t, <1>o DEF CallBridge, GotoWith
  <1>7. CASE Release(p)
    <2>1. status[cur[p]] = "sending" /\ cur[p] \in Drafts
      BY <1>7, <1>t, <1>h DEF Release
    <2> QED
      BY <1>7, <2>1, <1>t DEF Release, SetStatus
  <1>8. CASE MarkRead(p)
    BY <1>8, <1>t, <1>o, <1>h DEF MarkRead, Goto
  <1>9. CASE Resolve(p) \/ Record(p) \/ Complete(p) \/ DatabaseError(p)
    BY <1>9, <1>t, <1>o DEF Resolve, Record, Complete, DatabaseError, Raise, Goto, Return
  <1>10. CASE Reject(p) \/ FailRequest(p) \/ RecoverRead(p)
    BY <1>10, <1>t, <1>o DEF Reject, FailRequest, RecoverRead, Goto, Return
  <1> QED
    BY <1>1, <1>2, <1>3, <1>4, <1>5, <1>6, <1>7, <1>8, <1>9, <1>10

LEMMA NextOnceInv == SingleApprover /\ TypeInv /\ OnceInv /\ [Next]_vars => OnceInv'
  <1> SUFFICES ASSUME SingleApprover, TypeInv, OnceInv, [Next]_vars
               PROVE  OnceInv'
    OBVIOUS
  <1>t. /\ status \in [Drafts -> Statuses] /\ pc \in [Procs -> Labels]
        /\ cur \in [Procs -> Drafts \cup {None}] /\ req \in [Procs -> Nat]
        /\ approvals \in [Drafts -> Nat]
        /\ \A p \in Procs : pc[p] \notin {"idle", "next"} => cur[p] \in Drafts
    BY DEF TypeInv, TypeOK, InHand
  <1>o. ApprovedOnce /\ ApprovingADraft /\ ClaimIsExclusive /\ QueueNeedsSending /\ NothingToRecover
    BY DEF OnceInv
  <1>h. \A p \in Procs : pc[p] \in HoldLabels =>
          /\ status[cur[p]] = "sending"
          /\ \A q \in Procs : pc[q] \in HoldLabels /\ cur[q] = cur[p] => q = p
    BY <1>t, <1>o DEF ClaimIsExclusive, Holding, HoldLabels
  \* What a step must show that moves thread p and sets the status of its draft.
  <1>s. ASSUME NEW p \in Procs, NEW s \in {"approved", "sending", "sent", "failed"},
               cur[p] \in Drafts,
               status' = [status EXCEPT ![cur[p]] = s],
               \A q \in Procs \ {p} : pc'[q] = pc[q] /\ cur'[q] = cur[q] /\ req'[q] = req[q],
               UNCHANGED <<approvals, flags>>,
               status[cur[p]] \in {"approved", "sending"},
               pc'[p] \in HoldLabels =>
                   cur'[p] = cur[p] /\ s = "sending" /\ status[cur[p]] = "approved",
               pc'[p] \notin HoldLabels => pc[p] \in HoldLabels,
               pc'[p] # "approve",
               pc'[p] \in QueueLabels \/ req'[p] # 0 => flags.whatsapp,
               pc'[p] # "release",
               pc'[p] \in Afterwards => s \in Settled /\ cur'[p] = cur[p],
               pc'[p] \notin {"recover_write", "finish_failed"}
        PROVE  OnceInv'
    <2>1. \A q \in Procs \ {p} : pc[q] \in HoldLabels => cur[q] # cur[p]
      <3>1. CASE pc[p] \in HoldLabels
        BY <3>1, <1>h
      <3>2. CASE pc[p] \notin HoldLabels
        BY <1>s, <3>2, <1>h
      <3> QED
        BY <3>1, <3>2
    <2>2. ApprovedOnce'
      BY <1>s, <1>t, <1>o DEF ApprovedOnce, Undecided
    <2>3. ApprovingADraft'
      <3>1. ASSUME NEW q \in Procs, pc'[q] = "approve"
            PROVE  q \in Approvers /\ status'[cur'[q]] = "draft"
        <4>1. q # p /\ pc[q] = "approve" /\ cur'[q] = cur[q] /\ cur[q] \in Drafts
          BY <1>s, <1>t, <3>1
        <4>2. q \in Approvers /\ status[cur[q]] = "draft"
          BY <4>1, <1>o DEF ApprovingADraft
        <4> QED
          BY <1>s, <4>1, <4>2, <1>t
      <3> QED
        BY <3>1 DEF ApprovingADraft
    <2>4. ClaimIsExclusive'
      <3>1. ASSUME NEW q \in Procs, pc'[q] \in HoldLabels, cur'[q] \in Drafts
            PROVE  /\ status'[cur'[q]] = "sending"
                   /\ \A r \in Procs : pc'[r] \in HoldLabels /\ cur'[r] = cur'[q] => r = q
        <4>1. CASE q = p
          BY <1>s, <1>t, <2>1, <3>1, <4>1
        <4>2. CASE q # p
          <5>1. pc[q] \in HoldLabels /\ cur'[q] = cur[q] /\ cur[q] # cur[p] /\ cur[q] \in Drafts
            BY <1>s, <2>1, <3>1, <4>2
          <5> QED
            BY <1>s, <1>t, <1>h, <5>1, <4>2
        <4> QED
          BY <4>1, <4>2
      <3> QED
        BY <3>1 DEF ClaimIsExclusive, Holding, HoldLabels
    <2>5. QueueNeedsSending'
      BY <1>s, <1>o DEF QueueNeedsSending
    <2>6. NothingToRecover'
      <3>1. ASSUME NEW q \in Procs
            PROVE  /\ pc'[q] \in Afterwards => status'[cur'[q]] \in Settled
                   /\ pc'[q] \notin {"recover_write", "finish_failed"}
        <4>1. CASE q = p
          BY <1>s, <4>1, <1>t
        <4>2. CASE q # p
          <5>1. /\ pc'[q] = pc[q] /\ cur'[q] = cur[q]
                /\ pc[q] \in Afterwards => status[cur[q]] \in Settled /\ cur[q] \in Drafts
                /\ pc[q] \notin {"recover_write", "finish_failed"}
            BY <1>s, <4>2, <1>t, <1>o DEF NothingToRecover, Afterwards
          <5> QED
            BY <1>s, <5>1, <1>t DEF Settled
        <4> QED
          BY <4>1, <4>2
      <3> QED
        BY <3>1 DEF NothingToRecover
    <2> QED
      BY <2>2, <2>3, <2>4, <2>5, <2>6 DEF OnceInv
  <1>1. ASSUME NEW d \in Drafts, NEW answers \in BOOLEAN, SaveDraft(d, answers)
        PROVE  OnceInv'
    <2>1. /\ status[d] = "absent" /\ status' = [status EXCEPT ![d] = "draft"]
          /\ UNCHANGED <<pc, cur, req, approvals, flags>>
      BY <1>1 DEF SaveDraft, SetStatus, threads, ghosts
    <2>2. ApprovedOnce' /\ QueueNeedsSending'
      BY <2>1, <1>t, <1>o DEF ApprovedOnce, QueueNeedsSending, Undecided
    <2>3. ApprovingADraft' /\ NothingToRecover'
      BY <2>1, <1>t, <1>o DEF ApprovingADraft, NothingToRecover, Settled, Afterwards
    <2>4. ClaimIsExclusive'
      BY <2>1, <1>t, <1>o DEF ClaimIsExclusive, Holding
    <2> QED
      BY <2>2, <2>3, <2>4 DEF OnceInv
  <1>2. ASSUME NEW p \in Procs, ApproveWrite(p)
        PROVE  OnceInv'
    <2> DEFINE a == cur[p]
    <2>1. /\ a \in Drafts /\ pc[p] = "approve" /\ status[a] = "draft" /\ p \in Approvers
          /\ status' = [status EXCEPT ![a] = "approved"]
          /\ approvals' = [approvals EXCEPT ![a] = @ + 1] /\ approvals[a] = 0
          /\ pc' = [pc EXCEPT ![p] = "idle"] /\ req' = [req EXCEPT ![p] = 0]
          /\ \A q \in Procs \ {p} : cur'[q] = cur[q]
          /\ UNCHANGED flags
      BY <1>2, <1>t, <1>o
         DEF ApproveWrite, SetStatus, Return, ApprovingADraft, ApprovedOnce, Undecided
    <2>2. ApprovedOnce'
      BY <2>1, <1>t, <1>o DEF ApprovedOnce, Undecided
    <2>3. ApprovingADraft'
      <3>1. \A q \in Procs : pc'[q] # "approve"
        BY <2>1, <1>t, <1>o DEF ApprovingADraft, SingleApprover
      <3> QED
        BY <3>1 DEF ApprovingADraft
    <2>4. ClaimIsExclusive'
      <3>1. \A q \in Procs : pc[q] \in HoldLabels => cur[q] # a
        BY <2>1, <1>h
      <3>2. \A q \in Procs, d \in Drafts : Holding(q, d)' => Holding(q, d) /\ d # a
        BY <2>1, <3>1, <1>t DEF Holding, HoldLabels
      <3> QED
        BY <2>1, <3>2, <1>t, <1>o DEF ClaimIsExclusive
    <2>5. QueueNeedsSending'
      BY <2>1, <1>t, <1>o DEF QueueNeedsSending, QueueLabels
    <2>6. NothingToRecover'
      BY <2>1, <1>t, <1>o DEF NothingToRecover, Afterwards, Settled
    <2> QED
      BY <2>2, <2>3, <2>4, <2>5, <2>6 DEF OnceInv
  <1>3. ASSUME NEW p \in Procs, Claim(p), ~UNCHANGED status
        PROVE  OnceInv'
    BY <1>3, <1>t, <1>o, <1>s
       DEF Claim, SetStatus, Goto, ghosts, HoldLabels, QueueLabels, Afterwards, QueueNeedsSending
  <1>4. ASSUME NEW p \in Procs, Release(p), ~UNCHANGED status
        PROVE  OnceInv'
    <2>1. req[p] = 0
      BY <1>4, <1>t, <1>o DEF Release, QueueNeedsSending
    <2>2. /\ pc[p] = "release" /\ status[cur[p]] = "sending"
          /\ status' = [status EXCEPT ![cur[p]] = "approved"]
          /\ Return(p) /\ UNCHANGED <<approvals, flags>>
      BY <1>4, <2>1 DEF Release, SetStatus, FromQueue, ghosts
    <2> QED
      BY <2>2, <1>t, <1>s DEF Return, HoldLabels, QueueLabels, Afterwards
  <1>5. ASSUME NEW p \in Procs, MarkWrite(p)
        PROVE  OnceInv'
    <2>1. pc[p] = "mark_write" /\ cur[p] \in Drafts /\ status[cur[p]] = "sending"
      BY <1>5, <1>t, <1>h DEF MarkWrite, HoldLabels
    <2>2. /\ status' = [status EXCEPT ![cur[p]] = IF ok[p] THEN "sent" ELSE "failed"]
          /\ UNCHANGED <<approvals, flags>>
      BY <1>5 DEF MarkWrite, SetStatus, ghosts
    <2>3. \/ Goto(p, "record") /\ req[p] # 0
          \/ Goto(p, "resolve") /\ req[p] = 0
          \/ Goto(p, "complete") /\ req[p] # 0
          \/ Return(p)
      BY <1>5 DEF MarkWrite, FromQueue
    <2>4. req[p] # 0 => flags.whatsapp
      BY <1>o DEF QueueNeedsSending
    <2>5. /\ \A q \in Procs \ {p} : pc'[q] = pc[q] /\ cur'[q] = cur[q] /\ req'[q] = req[q]
          /\ \/ /\ pc'[p] \in {"record", "resolve", "complete"}
                /\ cur'[p] = cur[p] /\ req'[p] = req[p]
                /\ pc'[p] = "complete" => req[p] # 0
             \/ pc'[p] = "idle" /\ req'[p] = 0
      BY <2>3, <1>t DEF Goto, Return
    <2>6. PICK s \in {"sent", "failed"} : status' = [status EXCEPT ![cur[p]] = s]
      BY <2>2
    <2> QED
      BY <2>1, <2>2, <2>4, <2>5, <2>6, <1>s DEF HoldLabels, QueueLabels, Afterwards, Settled
  <1>6. ASSUME NEW p \in Procs, RecoverWrite(p)
        PROVE  OnceInv'
    BY <1>6, <1>o DEF RecoverWrite, NothingToRecover
  <1>7. ASSUME NEW p \in Procs, UNCHANGED status,
               \/ \E d \in Drafts : ApproveRead(p, d) \/ QueueRead(p, d) \/ ToolStart(p, d)
               \/ ListRequests(p) \/ QueueWrite(p) \/ TakeRequest(p) \/ LoopEnds(p)
               \/ Claim(p) \/ CallBlocked(p) \/ CallBridge(p) \/ Release(p)
               \/ MarkRead(p) \/ Resolve(p) \/ Record(p) \/ Followup(p)
               \/ Reject(p) \/ Complete(p) \/ RecoverRead(p) \/ FailRequest(p)
               \/ DatabaseError(p) \/ Crash(p)
        PROVE  OnceInv'
    <2>1. UNCHANGED <<approvals, flags>>
      BY <1>7 DEF ApproveRead, QueueRead, ToolStart, ListRequests, QueueWrite, TakeRequest,
                  LoopEnds, Claim, CallBlocked, CallBridge, Release, MarkRead, Resolve, Record,
                  Followup, Reject, Complete, RecoverRead, FailRequest, DatabaseError, Crash, ghosts
    <2> QED
      BY <1>7, <2>1, QuietStepsMove, MovesKeepOnce
  <1>8. CASE UNCHANGED vars
    BY <1>8, <1>o DEF vars, crm, threads, ghosts, OnceInv, ApprovedOnce, ApprovingADraft,
                      ClaimIsExclusive, Holding, QueueNeedsSending, NothingToRecover
  <1>9. ASSUME NEW p \in Procs,
               \/ \E d \in Drafts : ApproveRead(p, d) \/ QueueRead(p, d) \/ ToolStart(p, d)
               \/ ListRequests(p) \/ QueueWrite(p) \/ TakeRequest(p) \/ LoopEnds(p)
               \/ CallBlocked(p) \/ CallBridge(p)
               \/ MarkRead(p) \/ Resolve(p) \/ Record(p) \/ Followup(p)
               \/ Reject(p) \/ Complete(p) \/ RecoverRead(p) \/ FailRequest(p)
               \/ DatabaseError(p) \/ Crash(p)
        PROVE  UNCHANGED status
    BY <1>9 DEF ApproveRead, QueueRead, ToolStart, ListRequests, QueueWrite, TakeRequest,
                LoopEnds, CallBlocked, CallBridge, MarkRead, Resolve, Record, Followup, Reject,
                Complete, RecoverRead, FailRequest, DatabaseError, Crash, crm
  <1> QED
    BY <1>1, <1>2, <1>3, <1>4, <1>5, <1>6, <1>7, <1>8, <1>9 DEF Next, Step

LEMMA OnceInvariant == SingleApprover => (Spec => [](TypeInv /\ PaidInv /\ OnceInv))
  <1> SUFFICES ASSUME SingleApprover
               PROVE  Spec => [](TypeInv /\ PaidInv /\ OnceInv)
    OBVIOUS
  <1>1. Init => TypeInv /\ PaidInv /\ OnceInv
    BY InitTypeInv, InitPaidInv, InitOnceInv
  <1>2. TypeInv /\ PaidInv /\ OnceInv /\ [Next]_vars => (TypeInv /\ PaidInv /\ OnceInv)'
    BY NextTypeInv, NextPaidInv, NextOnceInv
  <1> QED
    BY <1>1, <1>2, PTL DEF Spec

\* "Atomically reserve one approved draft so duplicate calls cannot send it twice" (crm.py
\* claim_outreach_draft_for_send) holds with any number of callers, workers, crashes and
\* errors as long as one thread approves: each draft is approved once, and paid once.
THEOREM OneApproverSendsOnce == SingleApprover => (Spec => []NeverSentTwice)
  <1> SUFFICES ASSUME SingleApprover
               PROVE  Spec => []NeverSentTwice
    OBVIOUS
  <1>1. TypeInv /\ PaidInv /\ OnceInv => NeverSentTwice
    <2> SUFFICES ASSUME TypeInv, PaidInv, OnceInv, NEW d \in Drafts
                 PROVE  delivered[d] <= 1
      BY DEF NeverSentTwice
    <2>1. /\ delivered[d] \in Nat /\ approvals[d] \in Nat /\ Cardinality(Claimed(d)) \in Nat
          /\ Credit(d) \in Nat
      BY ClaimedFinite DEF TypeInv, TypeOK, Credit
    <2>2. delivered[d] + Cardinality(Claimed(d)) + Credit(d) <= approvals[d]
      BY DEF PaidInv
    <2>3. approvals[d] <= 1
      BY DEF OnceInv, ApprovedOnce
    <2> QED
      BY <2>1, <2>2, <2>3
  <1> QED
    BY <1>1, OnceInvariant, PTL

\* Under the same condition the thread that has claimed a draft is alone with it until its
\* mark is written (crm.py claim_outreach_draft_for_send, mark_outreach_sent).
THEOREM OneApproverClaimsAlone == SingleApprover => (Spec => []ClaimIsExclusive)
  <1> SUFFICES ASSUME SingleApprover
               PROVE  Spec => []ClaimIsExclusive
    OBVIOUS
  <1>1. TypeInv /\ PaidInv /\ OnceInv => ClaimIsExclusive
    BY DEF OnceInv
  <1> QED
    BY <1>1, OnceInvariant, PTL

\* ... and a draft that was sent or has failed stays so: no approval, release, mark or
\* handler of an exception rewrites it.
THEOREM OneApproverTerminal == SingleApprover => (Spec => TerminalDraftsStay)
  <1> SUFFICES ASSUME SingleApprover
               PROVE  Spec => TerminalDraftsStay
    OBVIOUS
  <1> DEFINE Stays == \A d \in Drafts : status[d] \in {"sent", "failed"} => status'[d] = status[d]
  <1>1. TypeInv /\ PaidInv /\ OnceInv /\ [Next]_vars => [Stays]_vars
    <2> SUFFICES ASSUME TypeInv, OnceInv, Next
                 PROVE  Stays
      BY DEF vars
    <2>t. /\ status \in [Drafts -> Statuses]
          /\ \A p \in Procs : pc[p] \notin {"idle", "next"} => cur[p] \in Drafts
      BY DEF TypeInv, TypeOK, InHand
    <2>1. ASSUME NEW d \in Drafts, NEW answers \in BOOLEAN, SaveDraft(d, answers)
          PROVE  Stays
      BY <2>1, <2>t DEF SaveDraft, SetStatus
    <2>2. ASSUME NEW p \in Procs, ApproveWrite(p)
          PROVE  Stays
      BY <2>2, <2>t DEF ApproveWrite, SetStatus, OnceInv, ApprovingADraft
    <2>3. ASSUME NEW p \in Procs, Claim(p) \/ Release(p)
          PROVE  Stays
      BY <2>3, <2>t DEF Claim, Release, SetStatus
    <2>4. ASSUME NEW p \in Procs, MarkWrite(p)
          PROVE  Stays
      BY <2>4, <2>t DEF MarkWrite, SetStatus, OnceInv, ClaimIsExclusive, Holding
    <2>5. ASSUME NEW p \in Procs, RecoverWrite(p)
          PROVE  Stays
      BY <2>5 DEF RecoverWrite, OnceInv, NothingToRecover
    <2>6. ASSUME NEW p \in Procs,
                 \/ \E d \in Drafts : ApproveRead(p, d) \/ QueueRead(p, d) \/ ToolStart(p, d)
                 \/ ListRequests(p) \/ QueueWrite(p) \/ TakeRequest(p) \/ LoopEnds(p)
                 \/ CallBlocked(p) \/ CallBridge(p)
                 \/ MarkRead(p) \/ Resolve(p) \/ Record(p) \/ Followup(p)
                 \/ Reject(p) \/ Complete(p) \/ RecoverRead(p) \/ FailRequest(p)
                 \/ DatabaseError(p) \/ Crash(p)
          PROVE  Stays
      BY <2>6 DEF ApproveRead, QueueRead, ToolStart, ListRequests, QueueWrite, TakeRequest,
                  LoopEnds, CallBlocked, CallBridge, MarkRead, Resolve, Record, Followup, Reject,
                  Complete, RecoverRead, FailRequest, DatabaseError, Crash, crm
    <2> QED
      BY <2>1, <2>2, <2>3, <2>4, <2>5, <2>6 DEF Next, Step
  <1> QED
    BY <1>1, OnceInvariant, PTL DEF Spec, TerminalDraftsStay

-----------------------------------------------------------------------------
(***************************************************************************)
(* What the CRM says of a delivery was confirmed                           *)
(*                                                                         *)
(* A thread keeps the answer of the bridge while it writes three tables    *)
(* one after the other.  What it holds is backed: a success names a draft  *)
(* the bridge confirmed, and a request in hand is a request for the draft  *)
(* in hand.                                                                *)
(***************************************************************************)
AnswerOf(p) ==
    /\ pc[p] = "idle" => ~ok[p] /\ req[p] = 0
    /\ ok[p] => cur[p] \in Drafts /\ confirmed[cur[p]] > 0
    /\ pc[p] \in {"resolve", "record", "followup"} => ok[p]
    /\ req[p] # 0 => req[p] \in DOMAIN requests /\ requests[req[p]].draft = cur[p]
Answers == \A p \in Procs : AnswerOf(p)

\* What no step takes back.
RowsKept ==
    /\ DOMAIN requests \subseteq DOMAIN requests'
    /\ \A r \in DOMAIN requests : requests'[r].draft = requests[r].draft
ConfirmedKept == \A d \in Drafts : confirmed[d] > 0 => confirmed'[d] > 0

\* One thread moves; the others hold what they held.
Alone(p) ==
    \A q \in Procs \ {p} : pc'[q] = pc[q] /\ cur'[q] = cur[q] /\ ok'[q] = ok[q] /\ req'[q] = req[q]

LEMMA OneMoves ==
  ASSUME TypeInv, NEW p \in Procs,
         \/ \E d \in Drafts : ApproveRead(p, d) \/ QueueRead(p, d) \/ ToolStart(p, d)
         \/ ListRequests(p) \/ Step(p) \/ DatabaseError(p) \/ Crash(p)
  PROVE  Alone(p)
  <1>t. /\ pc \in [Procs -> Labels] /\ cur \in [Procs -> Drafts \cup {None}]
        /\ ok \in [Procs -> BOOLEAN] /\ req \in [Procs -> Nat]
    BY DEF TypeInv, TypeOK
  <1>1. CASE \E d \in Drafts : ApproveRead(p, d) \/ QueueRead(p, d) \/ ToolStart(p, d)
    BY <1>1, <1>t DEF ApproveRead, QueueRead, ToolStart, Begin, Alone
  <1>2. CASE ListRequests(p) \/ TakeRequest(p)
    BY <1>2, <1>t DEF ListRequests, TakeRequest, Alone
  <1>3. CASE ApproveWrite(p) \/ QueueWrite(p) \/ LoopEnds(p) \/ Claim(p) \/ CallBlocked(p)
             \/ CallBridge(p) \/ Release(p)
    BY <1>3, <1>t DEF ApproveWrite, QueueWrite, LoopEnds, Claim, CallBlocked, CallBridge, Release,
                      Goto, GotoWith, Return, Raise, Alone
  <1>4. CASE MarkRead(p) \/ MarkWrite(p) \/ Resolve(p) \/ Record(p) \/ Followup(p)
    BY <1>4, <1>t DEF MarkRead, MarkWrite, Resolve, Record, Followup, Goto, Return, Raise, Alone
  <1>5. CASE Reject(p) \/ Complete(p) \/ RecoverRead(p) \/ RecoverWrite(p) \/ FailRequest(p)
             \/ DatabaseError(p) \/ Crash(p)
    BY <1>5, <1>t DEF Reject, Complete, RecoverRead, RecoverWrite, FailRequest, DatabaseError,
                      Crash, Goto, Return, Raise, Alone
  <1> QED
    BY <1>1, <1>2, <1>3, <1>4, <1>5 DEF Step

LEMMA SetRequestKeeps ==
  ASSUME TypeInv, NEW r, NEW s, Pending(r), SetRequest(r, s)
  PROVE  /\ RowsKept
         /\ \A q \in DOMAIN requests' : requests'[q].status = "completed" =>
              q \in DOMAIN requests /\ ((s = "completed" /\ q = r) \/ requests[q].status = "completed")
  <1>1. requests \in Seq(Request) /\ r \in DOMAIN requests
    BY DEF TypeInv, TypeOK, Pending
  <1>2. DOMAIN requests' = DOMAIN requests
    BY <1>1 DEF SetRequest
  <1>3. ASSUME NEW q \in DOMAIN requests
        PROVE  /\ requests'[q].draft = requests[q].draft
               /\ requests'[q].status = IF q = r THEN s ELSE requests[q].status
    <2>1. requests[q] \in Request
      BY <1>1, <1>3
    <2> QED
      BY <1>1, <1>3, <2>1 DEF SetRequest, Request
  <1> QED
    BY <1>2, <1>3 DEF RowsKept

LEMMA QueueWriteKeeps ==
  ASSUME TypeInv, NEW p \in Procs, QueueWrite(p)
  PROVE  /\ RowsKept
         /\ \A q \in DOMAIN requests' : requests'[q].status = "completed" =>
              q \in DOMAIN requests /\ requests[q].status = "completed"
  <1>1. requests \in Seq(Request)
    BY DEF TypeInv, TypeOK
  <1> DEFINE new == [draft |-> cur[p], status |-> "pending"]
  <1>2. CASE requests' = requests
    BY <1>2 DEF RowsKept
  <1>3. CASE requests' = Append(requests, new)
    <2>1. cur[p] \in Drafts
      BY DEF QueueWrite, TypeInv, InHand
    <2>2. new \in Request
      BY <2>1 DEF Request
    <2>3. /\ DOMAIN requests' = 1 .. (Len(requests) + 1) /\ DOMAIN requests = 1 .. Len(requests)
          /\ Len(requests) \in Nat
          /\ \A q \in 1 .. Len(requests) : requests'[q] = requests[q]
          /\ requests'[Len(requests) + 1] = new
      BY <1>1, <1>3, <2>2
    <2> QED
      BY <2>3 DEF RowsKept
  <1> QED
    BY <1>2, <1>3 DEF QueueWrite

LEMMA NothingLost ==
  ASSUME TypeInv, [Next]_vars
  PROVE  RowsKept /\ ConfirmedKept
  <1>1. CASE UNCHANGED <<requests, confirmed>>
    BY <1>1 DEF RowsKept, ConfirmedKept
  <1>2. ASSUME NEW p \in Procs, QueueWrite(p)
        PROVE  RowsKept /\ ConfirmedKept
    BY <1>2, QueueWriteKeeps DEF QueueWrite, ghosts, ConfirmedKept
  <1>3. ASSUME NEW p \in Procs, Reject(p) \/ Complete(p) \/ FailRequest(p)
        PROVE  RowsKept /\ ConfirmedKept
    <2>1. confirmed' = confirmed
      BY <1>3 DEF Reject, Complete, FailRequest, ghosts
    <2>2. requests' = requests \/ \E s : Pending(req[p]) /\ SetRequest(req[p], s)
      BY <1>3 DEF Reject, Complete, FailRequest
    <2> QED
      BY <2>1, <2>2, SetRequestKeeps DEF RowsKept, ConfirmedKept
  <1>4. ASSUME NEW p \in Procs, CallBridge(p)
        PROVE  RowsKept /\ ConfirmedKept
    <2>1. requests' = requests /\ confirmed \in [Drafts -> Nat]
          /\ confirmed' \in {confirmed, [confirmed EXCEPT ![cur[p]] = @ + 1]}
      BY <1>4 DEF CallBridge, crm, TypeInv, TypeOK
    <2> QED
      BY <2>1 DEF RowsKept, ConfirmedKept
  <1>5. CASE UNCHANGED vars
    BY <1>1, <1>5 DEF vars, crm, ghosts
  <1>6. ASSUME NEW d \in Drafts, NEW answers \in BOOLEAN, SaveDraft(d, answers)
        PROVE  RowsKept /\ ConfirmedKept
    BY <1>1, <1>6 DEF SaveDraft, ghosts
  <1>7. ASSUME NEW p \in Procs,
               \/ \E d \in Drafts : ApproveRead(p, d) \/ QueueRead(p, d) \/ ToolStart(p, d)
               \/ ListRequests(p) \/ TakeRequest(p) \/ LoopEnds(p) \/ CallBlocked(p)
               \/ MarkRead(p) \/ RecoverRead(p) \/ DatabaseError(p) \/ Crash(p)
        PROVE  RowsKept /\ ConfirmedKept
    BY <1>1, <1>7 DEF ApproveRead, QueueRead, ToolStart, ListRequests, TakeRequest, LoopEnds,
                      CallBlocked, MarkRead, RecoverRead, DatabaseError, Crash, crm, ghosts
  <1>8. ASSUME NEW p \in Procs,
               \/ ApproveWrite(p) \/ Claim(p) \/ Release(p) \/ MarkWrite(p) \/ Resolve(p)
               \/ Record(p) \/ Followup(p) \/ RecoverWrite(p)
        PROVE  RowsKept /\ ConfirmedKept
    BY <1>1, <1>8 DEF ApproveWrite, Claim, Release, MarkWrite, Resolve, Record, Followup,
                      RecoverWrite, ghosts
  <1> QED
    BY <1>2, <1>3, <1>4, <1>5, <1>6, <1>7, <1>8 DEF Next, Step

\* What the thread that moves holds afterwards.
LEMMA MoverAnswers ==
  ASSUME TypeInv, NEW p \in Procs, AnswerOf(p), RowsKept, ConfirmedKept,
         \/ \E d \in Drafts : ApproveRead(p, d) \/ QueueRead(p, d) \/ ToolStart(p, d)
         \/ ListRequests(p) \/ Step(p) \/ DatabaseError(p) \/ Crash(p)
  PROVE  AnswerOf(p)'
  <1>t. /\ pc \in [Procs -> Labels] /\ cur \in [Procs -> Drafts \cup {None}]
        /\ ok \in [Procs -> BOOLEAN] /\ req \in [Procs -> Nat]
        /\ confirmed \in [Drafts -> Nat]
        /\ (pc[p] \notin {"idle", "next"} => cur[p] \in Drafts)
    BY DEF TypeInv, TypeOK, InHand
  <1>1. CASE \E d \in Drafts : ApproveRead(p, d) \/ QueueRead(p, d) \/ ToolStart(p, d)
    <2>1. /\ pc[p] = "idle" /\ pc'[p] \in {"approve", "queue", "claim"}
          /\ ok'[p] = ok[p] /\ req'[p] = req[p]
      BY <1>1, <1>t DEF ApproveRead, QueueRead, ToolStart, Begin
    <2> QED
      BY <2>1, <1>t DEF AnswerOf
  <1>2. CASE ListRequests(p)
    <2>1. pc[p] = "idle" /\ pc'[p] = "next" /\ ok'[p] = ok[p] /\ req'[p] = req[p]
      BY <1>2, <1>t DEF ListRequests
    <2> QED
      BY <2>1, <1>t DEF AnswerOf
  <1>3. CASE TakeRequest(p)
    <2>1. PICK item \in todo[p] :
            /\ req'[p] = item[1] /\ cur'[p] = requests[item[1]].draft
            /\ pc'[p] \in {"claim", "reject"} /\ ok'[p] = FALSE
      BY <1>3, <1>t DEF TakeRequest
    <2>2. item[1] \in DOMAIN requests
      BY <2>1 DEF TypeInv, Snapshots
    <2> QED
      BY <2>1, <2>2 DEF AnswerOf, RowsKept
  <1>4. ASSUME Return(p)
        PROVE  AnswerOf(p)'
    BY <1>4, <1>t DEF Return, AnswerOf
  <1>5. ASSUME NEW label, Goto(p, label), label # "idle",
               label \in {"resolve", "record", "followup"} => ok[p]
        PROVE  AnswerOf(p)'
    <2>1. pc'[p] = label /\ cur'[p] = cur[p] /\ ok'[p] = ok[p] /\ req'[p] = req[p]
      BY <1>5, <1>t DEF Goto
    <2> QED
      BY <1>5, <2>1 DEF AnswerOf, RowsKept, ConfirmedKept
  <1>6. ASSUME Raise(p)
        PROVE  AnswerOf(p)'
    BY <1>4, <1>5, <1>6 DEF Raise
  <1>7. CASE CallBridge(p)
    <2>1. PICK success \in BOOLEAN :
            /\ success => confirmed' = [confirmed EXCEPT ![cur[p]] = @ + 1]
            /\ pc'[p] = "mark" /\ cur'[p] = cur[p] /\ ok'[p] = success /\ req'[p] = req[p]
            /\ cur[p] \in Drafts
      BY <1>7, <1>t DEF CallBridge, GotoWith
    <2>2. success => confirmed'[cur[p]] > 0
      BY <2>1, <1>t
    <2> QED
      BY <2>1, <2>2 DEF AnswerOf, RowsKept
  <1>8. CASE Release(p)
    <2>1. CASE GotoWith(p, "complete", FALSE)
      <3>1. pc'[p] = "complete" /\ cur'[p] = cur[p] /\ ok'[p] = FALSE /\ req'[p] = req[p]
        BY <2>1, <1>t DEF GotoWith
      <3> QED
        BY <3>1 DEF AnswerOf, RowsKept
    <2> QED
      BY <1>4, <1>6, <1>8, <2>1 DEF Release
  <1>9. CASE ApproveWrite(p) \/ QueueWrite(p) \/ LoopEnds(p) \/ Followup(p) \/ Crash(p)
    BY <1>4, <1>9 DEF ApproveWrite, QueueWrite, LoopEnds, Followup, Crash
  <1>10. CASE Claim(p) \/ CallBlocked(p) \/ MarkRead(p)
    BY <1>4, <1>5, <1>6, <1>10 DEF Claim, CallBlocked, MarkRead
  <1>11. CASE MarkWrite(p)
    BY <1>4, <1>5, <1>11, <1>t DEF MarkWrite
  <1>12. CASE Resolve(p) \/ Record(p)
    <2>1. ok[p]
      BY <1>12 DEF Resolve, Record, AnswerOf
    <2>2. Goto(p, "record") \/ Goto(p, "complete") \/ Goto(p, "followup")
      BY <1>12 DEF Resolve, Record
    <2> QED
      BY <1>5, <2>1, <2>2
  <1>13. CASE Reject(p) \/ Complete(p)
    BY <1>4, <1>5, <1>13 DEF Reject, Complete
  <1>14. CASE RecoverRead(p) \/ RecoverWrite(p)
    <2>1. Goto(p, "recover_write") \/ Goto(p, "abort") \/ Goto(p, "finish_failed")
      BY <1>14 DEF RecoverRead, RecoverWrite
    <2> QED
      BY <1>5, <2>1
  <1>15. CASE FailRequest(p)
    BY <1>4, <1>5, <1>15 DEF FailRequest
  <1>16. CASE DatabaseError(p)
    BY <1>6, <1>16 DEF DatabaseError
  <1> QED
    BY <1>1, <1>2, <1>3, <1>7, <1>8, <1>9, <1>10, <1>11, <1>12, <1>13, <1>14, <1>15, <1>16 DEF Step

LEMMA AnswersKept == TypeInv /\ Answers /\ [Next]_vars => Answers'
  <1> SUFFICES ASSUME TypeInv, Answers, [Next]_vars, NEW q \in Procs
               PROVE  AnswerOf(q)'
    BY DEF Answers
  <1>0. AnswerOf(q) /\ RowsKept /\ ConfirmedKept
    BY NothingLost DEF Answers
  <1>1. ASSUME pc'[q] = pc[q], cur'[q] = cur[q], ok'[q] = ok[q], req'[q] = req[q]
        PROVE  AnswerOf(q)'
    BY <1>0, <1>1 DEF AnswerOf, RowsKept, ConfirmedKept
  <1>2. CASE UNCHANGED vars
    BY <1>1, <1>2 DEF vars, threads
  <1>3. CASE \E d \in Drafts, answers \in BOOLEAN : SaveDraft(d, answers)
    BY <1>1, <1>3 DEF SaveDraft, threads
  <1>4. ASSUME NEW p \in Procs,
               \/ \E d \in Drafts : ApproveRead(p, d) \/ QueueRead(p, d) \/ ToolStart(p, d)
               \/ ListRequests(p) \/ Step(p) \/ DatabaseError(p) \/ Crash(p)
        PROVE  AnswerOf(q)'
    <2>1. CASE p = q
      BY <1>0, <1>4, <2>1, MoverAnswers
    <2>2. CASE p # q
      BY <1>1, <1>4, <2>2, OneMoves DEF Alone
    <2> QED
      BY <2>1, <2>2
  <1> QED
    BY <1>2, <1>3, <1>4 DEF Next

LEMMA BackedKept == TypeInv /\ Answers /\ EveryRecordIsBacked /\ [Next]_vars => EveryRecordIsBacked'
  <1> SUFFICES ASSUME TypeInv, Answers, EveryRecordIsBacked, [Next]_vars
               PROVE  EveryRecordIsBacked'
    OBVIOUS
  <1> DEFINE Shown(d) == status[d] = "sent" \/ inbox[d] = "resolved" \/ d \in followups
             DraftsBacked == \A d \in Drafts : Shown(d)' => Shown(d) \/ confirmed'[d] > 0
             RequestsBacked ==
                 \A r \in DOMAIN requests' : requests'[r].status = "completed" =>
                    \/ r \in DOMAIN requests /\ requests[r].status = "completed"
                    \/ r \in DOMAIN requests /\ confirmed'[requests[r].draft] > 0
  <1>0. RowsKept /\ ConfirmedKept
    BY NothingLost
  <1>t. /\ status \in [Drafts -> Statuses] /\ inbox \in [Drafts -> InboxStates]
        /\ requests \in Seq(Request)
        /\ \A r \in DOMAIN requests : requests[r] \in Request
        /\ \A p \in Procs : pc[p] \notin {"idle", "next"} => cur[p] \in Drafts
        /\ \A p \in Procs : AnswerOf(p)
    BY DEF TypeInv, TypeOK, InHand, Answers
  <1>1. ASSUME DraftsBacked, RequestsBacked
        PROVE  EveryRecordIsBacked'
    <2>1. \A d \in Drafts : Shown(d)' => confirmed'[d] > 0
      BY <1>0, <1>1 DEF EveryRecordIsBacked, ConfirmedKept
    <2>2. \A r \in DOMAIN requests : requests[r].draft \in Drafts
      BY <1>t DEF Request
    <2>3. \A r \in DOMAIN requests' : requests'[r].status = "completed" =>
            confirmed'[requests'[r].draft] > 0
      BY <1>0, <1>1, <2>2 DEF EveryRecordIsBacked, RowsKept, ConfirmedKept
    <2> QED
      BY <2>1, <2>3 DEF EveryRecordIsBacked
  <1>2. CASE UNCHANGED <<status, inbox, followups, requests>>
    BY <1>1, <1>2
  <1>3. CASE UNCHANGED vars
    BY <1>2, <1>3 DEF vars, crm
  <1>4. ASSUME NEW d \in Drafts, NEW answers \in BOOLEAN, SaveDraft(d, answers)
        PROVE  EveryRecordIsBacked'
    <2>1. DraftsBacked /\ RequestsBacked
      BY <1>4, <1>t DEF SaveDraft, SetStatus
    <2> QED
      BY <1>1, <2>1
  <1>5. ASSUME NEW p \in Procs,
               \/ \E d \in Drafts : ApproveRead(p, d) \/ QueueRead(p, d) \/ ToolStart(p, d)
               \/ ListRequests(p) \/ TakeRequest(p) \/ LoopEnds(p) \/ CallBlocked(p)
               \/ CallBridge(p) \/ MarkRead(p) \/ Record(p) \/ RecoverRead(p)
               \/ DatabaseError(p) \/ Crash(p)
        PROVE  EveryRecordIsBacked'
    BY <1>2, <1>5 DEF ApproveRead, QueueRead, ToolStart, ListRequests, TakeRequest, LoopEnds,
                      CallBlocked, CallBridge, MarkRead, Record, RecoverRead, DatabaseError, Crash, crm
  <1>6. ASSUME NEW p \in Procs, ApproveWrite(p) \/ Claim(p) \/ Release(p) \/ RecoverWrite(p)
        PROVE  EveryRecordIsBacked'
    <2>1. status' = status \/ \E s \in {"approved", "sending", "failed"} : status' = [status EXCEPT ![cur[p]] = s]
      BY <1>6 DEF ApproveWrite, Claim, Release, RecoverWrite, SetStatus
    <2>2. UNCHANGED <<inbox, followups, requests>>
      BY <1>6 DEF ApproveWrite, Claim, Release, RecoverWrite
    <2>3. DraftsBacked /\ RequestsBacked
      BY <2>1, <2>2, <1>t
    <2> QED
      BY <1>1, <2>3
  <1>7. ASSUME NEW p \in Procs, MarkWrite(p)
        PROVE  EveryRecordIsBacked'
    <2>1. ok[p] => confirmed[cur[p]] > 0
      BY <1>t DEF AnswerOf
    <2>2. /\ status' = [status EXCEPT ![cur[p]] = IF ok[p] THEN "sent" ELSE "failed"]
          /\ UNCHANGED <<inbox, followups, requests, confirmed>>
      BY <1>7 DEF MarkWrite, SetStatus, ghosts
    <2>3. DraftsBacked /\ RequestsBacked
      BY <2>1, <2>2, <1>t
    <2> QED
      BY <1>1, <2>3
  <1>8. ASSUME NEW p \in Procs, Resolve(p) \/ Followup(p)
        PROVE  EveryRecordIsBacked'
    <2>1. cur[p] \in Drafts /\ confirmed[cur[p]] > 0
      BY <1>8, <1>t DEF AnswerOf, Resolve, Followup
    <2>2. /\ UNCHANGED <<status, requests, confirmed>>
          /\ \A d \in Drafts \ {cur[p]} : inbox'[d] = inbox[d] /\ (d \in followups' => d \in followups)
      BY <1>8, <1>t DEF Resolve, Followup, ghosts
    <2>3. DraftsBacked /\ RequestsBacked
      BY <2>1, <2>2
    <2> QED
      BY <1>1, <2>3
  <1>9. ASSUME NEW p \in Procs, QueueWrite(p)
        PROVE  EveryRecordIsBacked'
    <2>1. DraftsBacked
      BY <1>9 DEF QueueWrite
    <2>2. RequestsBacked
      BY <1>9, QueueWriteKeeps
    <2> QED
      BY <1>1, <2>1, <2>2
  <1>10. ASSUME NEW p \in Procs, Reject(p) \/ Complete(p) \/ FailRequest(p)
         PROVE  EveryRecordIsBacked'
    <2>1. UNCHANGED <<status, inbox, followups, confirmed>>
      BY <1>10 DEF Reject, Complete, FailRequest, ghosts
    <2>2. \/ requests' = requests
          \/ Pending(req[p]) /\ SetRequest(req[p], "failed")
          \/ Pending(req[p]) /\ SetRequest(req[p], "completed") /\ ok[p]
      BY <1>10 DEF Reject, Complete, FailRequest
    <2>3. ASSUME ok[p], Pending(req[p])
          PROVE  req[p] \in DOMAIN requests /\ confirmed[requests[req[p]].draft] > 0
      <3>1. req[p] # 0
        BY <1>t, <2>3 DEF Pending
      <3> QED
        BY <1>t, <2>3, <3>1 DEF AnswerOf, Pending
    <2>4. DraftsBacked /\ RequestsBacked
      BY <2>1, <2>2, <2>3, SetRequestKeeps
    <2> QED
      BY <1>1, <2>4
  <1> QED
    BY <1>3, <1>4, <1>5, <1>6, <1>7, <1>8, <1>9, <1>10 DEF Next, Step

LEMMA AnswersInvariant == Spec => [](TypeInv /\ Answers)
  <1>1. Init => Answers
    BY DEF Init, Answers, AnswerOf
  <1> QED
    BY <1>1, InitTypeInv, NextTypeInv, AnswersKept, PTL DEF Spec

\* Whatever is lost, raised or overtaken between the bridge's answer and the tables that
\* repeat it, a draft "sent", a request "completed", a resolved event and a follow-up stand
\* for a delivery the bridge confirmed (crm.py mark_outreach_sent, complete_send_request).
THEOREM RecordsAreBacked == Spec => []EveryRecordIsBacked
  <1>1. Init => EveryRecordIsBacked
    BY DEF Init, EveryRecordIsBacked
  <1> QED
    BY <1>1, AnswersInvariant, BackedKept, PTL DEF Spec

-----------------------------------------------------------------------------
(***************************************************************************)
(* The history                                                             *)
(*                                                                         *)
(* A confirmed delivery may be logged once: by the thread that heard the   *)
(* confirmation, on its way from the call to the history.                  *)
(***************************************************************************)
OnTheWay == {"mark", "mark_write", "resolve", "record"}
ToLog(d) == {p \in Procs : ok[p] /\ pc[p] \in OnTheWay /\ cur[p] = d}

LogInv == \A d \in Drafts : logged[d] + Cardinality(ToLog(d)) <= confirmed[d]

LEMMA ToLogFinite ==
  ASSUME NEW d
  PROVE  /\ IsFiniteSet(ToLog(d)) /\ Cardinality(ToLog(d)) \in Nat
         /\ IsFiniteSet(ToLog(d)') /\ Cardinality(ToLog(d)') \in Nat
  <1>1. ToLog(d) \subseteq Procs /\ ToLog(d)' \subseteq Procs
    BY DEF ToLog
  <1> QED
    BY <1>1, ProcsAssumption, FS_Subset, FS_CardinalityType

\* Most steps bring nobody on the way: whoever is there afterwards was there before.
LEMMA NobodyNew ==
  ASSUME TypeInv, LogInv, UNCHANGED <<logged, confirmed>>,
         \A d \in Drafts : ToLog(d)' \subseteq ToLog(d)
  PROVE  LogInv'
  <1> SUFFICES ASSUME NEW d \in Drafts
               PROVE  (logged[d] + Cardinality(ToLog(d)) <= confirmed[d])'
    BY DEF LogInv
  <1>1. Cardinality(ToLog(d)') <= Cardinality(ToLog(d))
    BY ToLogFinite, FS_Subset
  <1>2. logged[d] \in Nat /\ confirmed[d] \in Nat /\ logged[d] + Cardinality(ToLog(d)) <= confirmed[d]
    BY DEF TypeInv, TypeOK, LogInv
  <1>3. logged'[d] = logged[d] /\ confirmed'[d] = confirmed[d]
    OBVIOUS
  <1> QED
    BY <1>1, <1>2, <1>3, ToLogFinite

LEMMA LogKept == TypeInv /\ Answers /\ LogInv /\ [Next]_vars => LogInv'
  <1> SUFFICES ASSUME TypeInv, Answers, LogInv, [Next]_vars
               PROVE  LogInv'
    OBVIOUS
  <1>t. /\ pc \in [Procs -> Labels] /\ cur \in [Procs -> Drafts \cup {None}]
        /\ ok \in [Procs -> BOOLEAN] /\ req \in [Procs -> Nat]
        /\ confirmed \in [Drafts -> Nat] /\ logged \in [Drafts -> Nat]
        /\ \A p \in Procs : pc[p] \notin {"idle", "next"} => cur[p] \in Drafts
    BY DEF TypeInv, TypeOK, InHand
  <1>c. \A d \in Drafts :
          /\ logged[d] + Cardinality(ToLog(d)) <= confirmed[d]
          /\ logged[d] \in Nat /\ confirmed[d] \in Nat
          /\ Cardinality(ToLog(d)) \in Nat /\ Cardinality(ToLog(d)') \in Nat
    BY <1>t, ToLogFinite DEF LogInv
  <1>1. CASE UNCHANGED vars
    BY <1>1, NobodyNew DEF vars, crm, threads, ghosts, ToLog
  <1>2. ASSUME NEW d \in Drafts, NEW answers \in BOOLEAN, SaveDraft(d, answers)
        PROVE  LogInv'
    BY <1>2, NobodyNew DEF SaveDraft, threads, ghosts, ToLog
  <1>3. ASSUME NEW p \in Procs, Alone(p), UNCHANGED <<logged, confirmed>>,
               \/ pc'[p] \notin OnTheWay
               \/ pc[p] \in OnTheWay /\ cur'[p] = cur[p] /\ ok'[p] = ok[p]
        PROVE  LogInv'
    <2>1. \A d \in Drafts : ToLog(d)' \subseteq ToLog(d)
      BY <1>3 DEF Alone, ToLog
    <2> QED
      BY <1>3, <2>1, NobodyNew
  <1>4. ASSUME NEW p \in Procs,
               \/ \E d \in Drafts : ApproveRead(p, d) \/ QueueRead(p, d) \/ ToolStart(p, d)
               \/ ListRequests(p) \/ TakeRequest(p)
        PROVE  LogInv'
    <2>1. pc'[p] \notin OnTheWay /\ UNCHANGED <<logged, confirmed>>
      BY <1>4, <1>t DEF ApproveRead, QueueRead, ToolStart, ListRequests, TakeRequest, Begin,
                        OnTheWay, crm, ghosts
    <2> QED
      BY <1>3, <1>4, <2>1, OneMoves DEF Step
  <1>5. ASSUME NEW p \in Procs,
               \/ ApproveWrite(p) \/ QueueWrite(p) \/ LoopEnds(p) \/ Claim(p) \/ CallBlocked(p)
               \/ Release(p)
        PROVE  LogInv'
    <2>1. pc'[p] \notin OnTheWay /\ UNCHANGED <<logged, confirmed>>
      BY <1>5, <1>t DEF ApproveWrite, QueueWrite, LoopEnds, Claim, CallBlocked, Release,
                        Goto, GotoWith, Return, Raise, OnTheWay, crm, ghosts
    <2> QED
      BY <1>3, <1>5, <2>1, OneMoves DEF Step
  <1>6. ASSUME NEW p \in Procs, MarkRead(p) \/ MarkWrite(p) \/ Resolve(p)
        PROVE  LogInv'
    <2>1. /\ UNCHANGED <<logged, confirmed>>
          /\ \/ pc'[p] \notin OnTheWay
             \/ pc[p] \in OnTheWay /\ cur'[p] = cur[p] /\ ok'[p] = ok[p]
      BY <1>6, <1>t DEF MarkRead, MarkWrite, Resolve, Goto, Return, Raise, OnTheWay, crm, ghosts
    <2> QED
      BY <1>3, <1>6, <2>1, OneMoves DEF Step
  <1>7. ASSUME NEW p \in Procs,
               \/ Followup(p) \/ Reject(p) \/ Complete(p) \/ RecoverRead(p) \/ RecoverWrite(p)
               \/ FailRequest(p) \/ DatabaseError(p) \/ Crash(p)
        PROVE  LogInv'
    <2>1. pc'[p] \notin OnTheWay /\ UNCHANGED <<logged, confirmed>>
      BY <1>7, <1>t DEF Followup, Reject, Complete, RecoverRead, RecoverWrite, FailRequest,
                        DatabaseError, Crash, Goto, Return, Raise, OnTheWay, crm, ghosts
    <2> QED
      BY <1>3, <1>7, <2>1, OneMoves DEF Step
  <1>8. ASSUME NEW p \in Procs, CallBridge(p)
        PROVE  LogInv'
    <2> DEFINE a == cur[p]
    <2>1. PICK success \in BOOLEAN :
            /\ confirmed' = IF success THEN [confirmed EXCEPT ![a] = @ + 1] ELSE confirmed
            /\ pc[p] = "call" /\ pc'[p] = "mark" /\ cur'[p] = a /\ ok'[p] = success
            /\ logged' = logged /\ a \in Drafts
      BY <1>8, <1>t DEF CallBridge, GotoWith, crm
    <2>2. Alone(p)
      BY <1>8, OneMoves DEF Step
    <2>3. ASSUME NEW d \in Drafts
          PROVE  (logged[d] + Cardinality(ToLog(d)) <= confirmed[d])'
      <3>1. CASE success /\ d = a
        <4>1. ToLog(d)' = ToLog(d) \cup {p} /\ p \notin ToLog(d)
          BY <2>1, <2>2, <3>1 DEF ToLog, Alone, OnTheWay
        <4>2. Cardinality(ToLog(d)') = Cardinality(ToLog(d)) + 1
          BY <4>1, ToLogFinite, FS_AddElement
        <4>3. confirmed'[d] = confirmed[d] + 1 /\ logged'[d] = logged[d]
          BY <2>1, <3>1, <1>t
        <4> QED
          BY <4>2, <4>3, <1>c
      <3>2. CASE ~ (success /\ d = a)
        <4>1. ToLog(d)' = ToLog(d)
          BY <2>1, <2>2, <3>2 DEF ToLog, Alone, OnTheWay
        <4>2. confirmed'[d] = confirmed[d] /\ logged'[d] = logged[d]
          BY <2>1, <3>2, <1>t
        <4> QED
          BY <4>1, <4>2, <1>c
      <3> QED
        BY <3>1, <3>2
    <2> QED
      BY <2>3 DEF LogInv
  <1>9. ASSUME NEW p \in Procs, Record(p)
        PROVE  LogInv'
    <2> DEFINE a == cur[p]
    <2>1. /\ logged' = [logged EXCEPT ![a] = @ + 1] /\ confirmed' = confirmed
          /\ pc[p] = "record" /\ pc'[p] \notin OnTheWay /\ a \in Drafts /\ ok[p]
      BY <1>9, <1>t DEF Record, Goto, ghosts, OnTheWay, Answers, AnswerOf
    <2>2. Alone(p)
      BY <1>9, OneMoves DEF Step
    <2>3. ASSUME NEW d \in Drafts
          PROVE  (logged[d] + Cardinality(ToLog(d)) <= confirmed[d])'
      <3>1. CASE d = a
        <4>1. ToLog(d)' = ToLog(d) \ {p} /\ p \in ToLog(d)
          BY <2>1, <2>2, <3>1 DEF ToLog, Alone, OnTheWay
        <4>2. Cardinality(ToLog(d)') = Cardinality(ToLog(d)) - 1
          BY <4>1, ToLogFinite, FS_RemoveElement
        <4>3. confirmed'[d] = confirmed[d] /\ logged'[d] = logged[d] + 1
          BY <2>1, <3>1, <1>t
        <4> QED
          BY <4>2, <4>3, <1>c
      <3>2. CASE d # a
        <4>1. ToLog(d)' = ToLog(d)
          BY <2>1, <2>2, <3>2 DEF ToLog, Alone, OnTheWay
        <4>2. confirmed'[d] = confirmed[d] /\ logged'[d] = logged[d]
          BY <2>1, <3>2, <1>t
        <4> QED
          BY <4>1, <4>2, <1>c
      <3> QED
        BY <3>1, <3>2
    <2> QED
      BY <2>3 DEF LogInv
  <1> QED
    BY <1>1, <1>2, <1>4, <1>5, <1>6, <1>7, <1>8, <1>9 DEF Next, Step

LEMMA LogInvariant == Spec => [](TypeInv /\ LogInv)
  <1>1. Init => LogInv
    <2> SUFFICES ASSUME Init, NEW d \in Drafts
                 PROVE  logged[d] + Cardinality(ToLog(d)) <= confirmed[d]
      BY DEF LogInv
    <2>1. ToLog(d) = {}
      BY DEF Init, ToLog
    <2> QED
      BY <2>1, FS_EmptySet DEF Init
  <1> QED
    BY <1>1, AnswersInvariant, LogKept, PTL DEF Spec

\* The history of a lead never shows more sent messages than the bridge confirmed, although
\* the message is logged in a transaction of its own, which may never come or come late
\* (crm.py record_interaction).
THEOREM HistoryIsConfirmed == Spec => []HistoryIsReal
  <1>1. TypeInv /\ LogInv => HistoryIsReal
    <2> SUFFICES ASSUME TypeInv, LogInv, NEW d \in Drafts
                 PROVE  logged[d] <= confirmed[d]
      BY DEF HistoryIsReal
    <2>1. /\ logged[d] \in Nat /\ confirmed[d] \in Nat /\ Cardinality(ToLog(d)) \in Nat
          /\ logged[d] + Cardinality(ToLog(d)) <= confirmed[d]
      BY ToLogFinite DEF TypeInv, TypeOK, LogInv
    <2> QED
      BY <2>1
  <1> QED
    BY <1>1, LogInvariant, PTL

-----------------------------------------------------------------------------
(***************************************************************************)
(* How many copies several approvers can cause                             *)
(*                                                                         *)
(* approve_outreach_draft reads "draft" before its transaction begins, so  *)
(* every approver that has read it may still write.  Once one has written, *)
(* nobody reads "draft" again: those under way and those that have written *)
(* are never more than the approvers.                                      *)
(***************************************************************************)
Approving(d) == {p \in Approvers : pc[p] = "approve" /\ cur[p] = d}

Unapproved(d) == status[d] \in {"absent", "draft"}

OnlyApprovers == \A p \in Procs : pc[p] = "approve" => p \in Approvers

ApproversInv ==
    /\ OnlyApprovers
    /\ \A d \in Drafts :
         /\ approvals[d] + Cardinality(Approving(d)) <= Cardinality(Approvers)
         /\ Unapproved(d) => approvals[d] = 0

LEMMA ApprovingFinite ==
  ASSUME NEW d
  PROVE  /\ IsFiniteSet(Approving(d)) /\ Cardinality(Approving(d)) \in Nat
         /\ IsFiniteSet(Approving(d)') /\ Cardinality(Approving(d)') \in Nat
         /\ Cardinality(Approving(d)') <= Cardinality(Approvers)
         /\ IsFiniteSet(Approvers) /\ Cardinality(Approvers) \in Nat
  <1>1. Approving(d) \subseteq Approvers /\ Approving(d)' \subseteq Approvers
    BY DEF Approving
  <1> QED
    BY <1>1, ProcsAssumption, FS_Subset, FS_CardinalityType

\* What most steps do: nobody new is about to approve, and no draft loses its status for "draft".
NoNewApproval ==
    /\ UNCHANGED approvals
    /\ \A d \in Drafts : Unapproved(d)' => Unapproved(d)
    /\ \A p \in Procs : pc'[p] = "approve" => pc[p] = "approve" /\ cur'[p] = cur[p]

LEMMA NoNewApprovalKeeps ==
  ASSUME TypeInv, ApproversInv, NoNewApproval
  PROVE  ApproversInv'
  <1>0. OnlyApprovers'
    BY DEF ApproversInv, OnlyApprovers, NoNewApproval
  <1> SUFFICES ASSUME NEW d \in Drafts
               PROVE  /\ approvals'[d] + Cardinality(Approving(d)') <= Cardinality(Approvers)
                      /\ Unapproved(d)' => approvals'[d] = 0
    BY <1>0 DEF ApproversInv
  <1>1. Approving(d)' \subseteq Approving(d)
    BY ProcsAssumption DEF NoNewApproval, Approving
  <1>2. Cardinality(Approving(d)') <= Cardinality(Approving(d))
    BY <1>1, ApprovingFinite, FS_Subset
  <1>3. /\ approvals[d] \in Nat /\ approvals'[d] = approvals[d]
        /\ approvals[d] + Cardinality(Approving(d)) <= Cardinality(Approvers)
        /\ Unapproved(d)' => approvals[d] = 0
    BY DEF TypeInv, TypeOK, ApproversInv, NoNewApproval
  <1> QED
    BY <1>2, <1>3, ApprovingFinite

LEMMA ApproversKept == TypeInv /\ ApproversInv /\ [Next]_vars => ApproversInv'
  <1> SUFFICES ASSUME TypeInv, ApproversInv, [Next]_vars
               PROVE  ApproversInv'
    OBVIOUS
  <1>t. /\ pc \in [Procs -> Labels] /\ cur \in [Procs -> Drafts \cup {None}]
        /\ status \in [Drafts -> Statuses] /\ approvals \in [Drafts -> Nat]
        /\ Approvers \subseteq Procs /\ OnlyApprovers
        /\ \A p \in Procs : pc[p] \notin {"idle", "next"} => cur[p] \in Drafts
    BY ProcsAssumption DEF TypeInv, TypeOK, InHand, ApproversInv
  <1>c. \A d \in Drafts :
          /\ approvals[d] \in Nat /\ (Unapproved(d) => approvals[d] = 0)
          /\ approvals[d] + Cardinality(Approving(d)) <= Cardinality(Approvers)
          /\ Cardinality(Approving(d)) \in Nat /\ Cardinality(Approving(d)') \in Nat
          /\ Cardinality(Approvers) \in Nat /\ Cardinality(Approving(d)') <= Cardinality(Approvers)
    BY <1>t, ApprovingFinite DEF ApproversInv
  <1>1. CASE UNCHANGED vars
    BY <1>1, NoNewApprovalKeeps DEF NoNewApproval, vars, crm, threads, ghosts, Unapproved
  <1>2. ASSUME NEW d \in Drafts, NEW answers \in BOOLEAN, SaveDraft(d, answers)
        PROVE  ApproversInv'
    <2>1. NoNewApproval
      BY <1>2, <1>t DEF SaveDraft, SetStatus, NoNewApproval, threads, ghosts, Unapproved
    <2> QED
      BY <2>1, NoNewApprovalKeeps
  <1>3. ASSUME NEW p \in Procs, NEW d \in Drafts, ApproveRead(p, d)
        PROVE  ApproversInv'
    <2>1. /\ UNCHANGED <<status, approvals>> /\ approvals[d] = 0
          /\ pc[p] = "idle" /\ cur' = [cur EXCEPT ![p] = d] /\ pc' = [pc EXCEPT ![p] = "approve"]
      BY <1>3, <1>c DEF ApproveRead, Begin, crm, ghosts, Unapproved
    <2>2. ASSUME NEW e \in Drafts
          PROVE  (/\ approvals[e] + Cardinality(Approving(e)) <= Cardinality(Approvers)
                  /\ Unapproved(e) => approvals[e] = 0)'
      <3>1. CASE e = d
        BY <2>1, <3>1, <1>c DEF Unapproved
      <3>2. CASE e # d
        <4>1. Approving(e)' = Approving(e)
          BY <2>1, <3>2, <1>t DEF Approving
        <4> QED
          BY <2>1, <4>1, <1>c DEF Unapproved
      <3> QED
        BY <3>1, <3>2
    <2>3. OnlyApprovers'
      BY <1>3, <2>1, <1>t DEF ApproveRead, OnlyApprovers
    <2> QED
      BY <2>2, <2>3 DEF ApproversInv
  <1>4. ASSUME NEW p \in Procs, ApproveWrite(p)
        PROVE  ApproversInv'
    <2> DEFINE a == cur[p]
    <2>1. /\ a \in Drafts /\ pc[p] = "approve" /\ pc' = [pc EXCEPT ![p] = "idle"]
          /\ cur' = [cur EXCEPT ![p] = None]
          /\ status' = [status EXCEPT ![a] = "approved"]
          /\ approvals' = [approvals EXCEPT ![a] = @ + 1]
      BY <1>4, <1>t DEF ApproveWrite, Return, SetStatus
    <2>2. p \in Approvers /\ OnlyApprovers'
      BY <2>1, <1>t DEF OnlyApprovers
    <2>3. ASSUME NEW e \in Drafts
          PROVE  (/\ approvals[e] + Cardinality(Approving(e)) <= Cardinality(Approvers)
                  /\ Unapproved(e) => approvals[e] = 0)'
      <3>1. CASE e = a
        <4>1. Approving(e)' = Approving(e) \ {p} /\ p \in Approving(e)
          BY <2>1, <2>2, <3>1, <1>t DEF Approving
        <4>2. Cardinality(Approving(e)') = Cardinality(Approving(e)) - 1
          BY <4>1, ApprovingFinite, FS_RemoveElement
        <4>3. approvals'[e] = approvals[e] + 1 /\ ~ Unapproved(e)'
          BY <2>1, <3>1, <1>t DEF Unapproved
        <4> QED
          BY <4>2, <4>3, <1>c
      <3>2. CASE e # a
        <4>1. Approving(e)' = Approving(e)
          BY <2>1, <3>2, <1>t DEF Approving
        <4> QED
          BY <2>1, <3>2, <4>1, <1>c, <1>t DEF Unapproved
      <3> QED
        BY <3>1, <3>2
    <2> QED
      BY <2>2, <2>3 DEF ApproversInv
  <1>5. ASSUME NEW p \in Procs,
               \/ \E d \in Drafts : QueueRead(p, d) \/ ToolStart(p, d)
               \/ ListRequests(p) \/ TakeRequest(p)
        PROVE  ApproversInv'
    <2>1. NoNewApproval
      BY <1>5, <1>t DEF QueueRead, ToolStart, ListRequests, TakeRequest, Begin, crm, ghosts,
                        NoNewApproval, Unapproved
    <2> QED
      BY <2>1, NoNewApprovalKeeps
  <1>6. ASSUME NEW p \in Procs,
               \/ QueueWrite(p) \/ LoopEnds(p) \/ CallBlocked(p) \/ CallBridge(p) \/ MarkRead(p)
               \/ Resolve(p) \/ Record(p) \/ Followup(p)
        PROVE  ApproversInv'
    <2>1. NoNewApproval
      BY <1>6, <1>t DEF QueueWrite, LoopEnds, CallBlocked, CallBridge, MarkRead, Resolve, Record,
                        Followup, Goto, GotoWith, Return, Raise, crm, ghosts, NoNewApproval, Unapproved
    <2> QED
      BY <2>1, NoNewApprovalKeeps
  <1>7. ASSUME NEW p \in Procs, Claim(p) \/ Release(p) \/ MarkWrite(p) \/ RecoverWrite(p)
        PROVE  ApproversInv'
    <2>1. UNCHANGED approvals /\ \A q \in Procs : pc'[q] = "approve" => pc[q] = "approve" /\ cur'[q] = cur[q]
      BY <1>7, <1>t DEF Claim, Release, MarkWrite, RecoverWrite, Goto, GotoWith, Return, Raise, ghosts
    <2>2. status' = status \/ \E s \in {"approved", "sending", "sent", "failed"} : status' = [status EXCEPT ![cur[p]] = s]
      BY <1>7 DEF Claim, Release, MarkWrite, RecoverWrite, SetStatus
    <2>3. NoNewApproval
      BY <2>1, <2>2, <1>t DEF NoNewApproval, Unapproved
    <2> QED
      BY <2>3, NoNewApprovalKeeps
  <1>8. ASSUME NEW p \in Procs,
               \/ Reject(p) \/ Complete(p) \/ RecoverRead(p) \/ FailRequest(p)
               \/ DatabaseError(p) \/ Crash(p)
        PROVE  ApproversInv'
    <2>1. NoNewApproval
      BY <1>8, <1>t DEF Reject, Complete, RecoverRead, FailRequest, DatabaseError, Crash, Goto,
                        Return, Raise, crm, ghosts, NoNewApproval, Unapproved
    <2> QED
      BY <2>1, NoNewApprovalKeeps
  <1> QED
    BY <1>1, <1>2, <1>3, <1>4, <1>5, <1>6, <1>7, <1>8 DEF Next, Step

LEMMA InitApprovers == Init => ApproversInv
  <1> SUFFICES ASSUME Init, NEW d \in Drafts
               PROVE  /\ approvals[d] + Cardinality(Approving(d)) <= Cardinality(Approvers)
                      /\ approvals[d] = 0
    BY DEF ApproversInv, OnlyApprovers, Init
  <1>1. Approving(d) = {}
    BY ProcsAssumption DEF Init, Approving
  <1> QED
    BY <1>1, ApprovingFinite, FS_EmptySet DEF Init

\* The read that demands "draft" stands outside the transaction that approves it, so a draft
\* can be approved again, but not without end: WhatsApp takes at most one copy per thread
\* that approves, over any retries, releases and crashes (crm.py approve_outreach_draft).
THEOREM OneCopyPerApprover ==
    Spec => [](\A d \in Drafts : delivered[d] <= Cardinality(Approvers))
  <1>1. TypeInv /\ PaidInv /\ ApproversInv => \A d \in Drafts : delivered[d] <= Cardinality(Approvers)
    <2> SUFFICES ASSUME TypeInv, PaidInv, ApproversInv, NEW d \in Drafts
                 PROVE  delivered[d] <= Cardinality(Approvers)
      OBVIOUS
    <2>1. /\ delivered[d] + Cardinality(Claimed(d)) + Credit(d) <= approvals[d]
          /\ approvals[d] + Cardinality(Approving(d)) <= Cardinality(Approvers)
          /\ delivered[d] \in Nat /\ approvals[d] \in Nat /\ Credit(d) \in Nat
      BY DEF PaidInv, ApproversInv, TypeInv, TypeOK, Credit
    <2> QED
      BY <2>1, ClaimedFinite, ApprovingFinite
  <1> QED
    BY <1>1, InitTypeInv, InitPaidInv, InitApprovers, NextTypeInv, NextPaidInv, ApproversKept, PTL
       DEF Spec

-----------------------------------------------------------------------------
(***************************************************************************)
(* The ledger                                                              *)
(*                                                                         *)
(* OutreachSend implements DeliveryLedger.  A step that leaves the four    *)
(* counters alone disturbs what is told of one draft at most, and what is  *)
(* told afterwards is backed (EveryRecordIsBacked): it tells, retracts or  *)
(* stutters.  The counters move in ApproveWrite, in CallBridge, where      *)
(* PaidInv leaves an unspent approval, and in Record, where LogInv leaves  *)
(* an unlogged confirmation.                                               *)
(***************************************************************************)
CompletedFor(d) == \E r \in DOMAIN requests : requests[r].draft = d /\ requests[r].status = "completed"

\* Nothing is told or taken back, but of one draft.
ToldBut(a) == \A d \in Drafts \ {a} : d \in Told' <=> d \in Told

CountersStay == UNCHANGED <<approvals, delivered, confirmed, logged>>

LEMMA SetRequestTells ==
  ASSUME TypeInv, NEW r, NEW s, Pending(r), SetRequest(r, s)
  PROVE  \A d \in Drafts \ {requests[r].draft} : CompletedFor(d)' <=> CompletedFor(d)
  <1>1. requests \in Seq(Request) /\ r \in DOMAIN requests
    BY DEF TypeInv, TypeOK, Pending
  <1>2. DOMAIN requests' = DOMAIN requests
    BY <1>1 DEF SetRequest
  <1>3. \A q \in DOMAIN requests \ {r} : requests'[q] = requests[q]
    BY <1>1 DEF SetRequest
  <1>4. requests'[r].draft = requests[r].draft
    BY <1>1, SetRequestKeeps DEF RowsKept
  <1> QED
    BY <1>2, <1>3, <1>4 DEF CompletedFor

LEMMA QueueWriteTells ==
  ASSUME TypeInv, NEW p \in Procs, QueueWrite(p)
  PROVE  \A d \in Drafts : CompletedFor(d)' <=> CompletedFor(d)
  <1>1. requests \in Seq(Request) /\ cur[p] \in Drafts
    BY DEF TypeInv, TypeOK, InHand, QueueWrite
  <1>2. \A q \in DOMAIN requests : q \in DOMAIN requests' /\ requests'[q] = requests[q]
    BY <1>1 DEF QueueWrite
  <1>3. \A q \in DOMAIN requests' : requests'[q].status = "completed" =>
          q \in DOMAIN requests /\ requests[q].status = "completed"
    BY QueueWriteKeeps
  <1> QED
    BY <1>2, <1>3 DEF CompletedFor

\* Who reads Told reads four tables.
LEMMA ToldOf ==
  ASSUME NEW d \in Drafts
  PROVE  /\ d \in Told <=> (status[d] = "sent" \/ inbox[d] = "resolved" \/ d \in followups \/ CompletedFor(d))
         /\ d \in Told' <=> (status'[d] = "sent" \/ inbox'[d] = "resolved" \/ d \in followups' \/ CompletedFor(d)')
  BY DEF Told, CompletedFor

LEMMA TellsOrRetracts ==
  ASSUME CountersStay, EveryRecordIsBacked', NEW a \in Drafts, ToldBut(a)
  PROVE  [Ledger!LedgerNext]_(Ledger!ledger)
  <1>1. Told \subseteq Drafts /\ Told' \subseteq Drafts
    BY DEF Told
  <1>2. a \in Told' => confirmed[a] > 0
    BY DEF Told, EveryRecordIsBacked, CountersStay
  <1>3. CASE a \in Told'
    <2>1. Told' = Told \cup {a}
      BY <1>1, <1>3 DEF ToldBut
    <2> QED
      BY <1>2, <1>3, <2>1 DEF CountersStay, Ledger!LedgerNext, Ledger!Tell
  <1>4. CASE a \notin Told'
    <2>1. Told' = Told \ {a}
      BY <1>1, <1>4 DEF ToldBut
    <2> QED
      BY <2>1 DEF CountersStay, Ledger!LedgerNext, Ledger!Retract
  <1> QED
    BY <1>3, <1>4

LEMMA NothingTold ==
  ASSUME CountersStay, UNCHANGED <<status, inbox, followups, requests>>
  PROVE  [Ledger!LedgerNext]_(Ledger!ledger)
  BY DEF CountersStay, Told, Ledger!ledger

LEMMA LedgerStep ==
  ASSUME TypeInv, PaidInv, Answers, LogInv, EveryRecordIsBacked, EveryRecordIsBacked', [Next]_vars
  PROVE  [Ledger!LedgerNext]_(Ledger!ledger)
  <1>t. /\ pc \in [Procs -> Labels] /\ cur \in [Procs -> Drafts \cup {None}]
        /\ status \in [Drafts -> Statuses] /\ inbox \in [Drafts -> InboxStates]
        /\ requests \in Seq(Request) /\ \A r \in DOMAIN requests : requests[r].draft \in Drafts
        /\ approvals \in [Drafts -> Nat] /\ delivered \in [Drafts -> Nat]
        /\ confirmed \in [Drafts -> Nat] /\ logged \in [Drafts -> Nat]
        /\ \A p \in Procs : pc[p] \notin {"idle", "next"} => cur[p] \in Drafts
    <2>1. requests \in Seq(Request) /\ TypeOK /\ InHand
      BY DEF TypeInv, TypeOK
    <2>2. \A r \in DOMAIN requests : requests[r] \in Request
      BY <2>1
    <2> QED
      BY <2>1, <2>2 DEF TypeOK, InHand, Request
  <1>1. CASE UNCHANGED vars
    BY <1>1, NothingTold DEF vars, crm, ghosts, CountersStay
  <1>2. ASSUME NEW d \in Drafts, NEW answers \in BOOLEAN, SaveDraft(d, answers)
        PROVE  [Ledger!LedgerNext]_(Ledger!ledger)
    <2>1. CountersStay
      BY <1>2 DEF SaveDraft, ghosts, CountersStay
    <2>2. \A e \in Drafts \ {d} : status'[e] = status[e] /\ inbox'[e] = inbox[e]
      BY <1>2, <1>t DEF SaveDraft, SetStatus
    <2>3. ToldBut(d)
      BY <1>2, <2>2, ToldOf DEF ToldBut, SaveDraft, CompletedFor
    <2> QED
      BY <2>1, <2>3, TellsOrRetracts
  <1>3. ASSUME NEW p \in Procs,
               \/ \E d \in Drafts : ApproveRead(p, d) \/ QueueRead(p, d) \/ ToolStart(p, d)
               \/ ListRequests(p) \/ TakeRequest(p) \/ LoopEnds(p) \/ CallBlocked(p) \/ MarkRead(p)
               \/ RecoverRead(p) \/ DatabaseError(p) \/ Crash(p)
        PROVE  [Ledger!LedgerNext]_(Ledger!ledger)
    <2>1. CountersStay /\ UNCHANGED <<status, inbox, followups, requests>>
      BY <1>3 DEF ApproveRead, QueueRead, ToolStart, ListRequests, TakeRequest, LoopEnds,
                  CallBlocked, MarkRead, RecoverRead, DatabaseError, Crash, crm, ghosts, CountersStay
    <2> QED
      BY <2>1, NothingTold
  <1>4. ASSUME NEW p \in Procs, Claim(p) \/ Release(p) \/ MarkWrite(p) \/ RecoverWrite(p)
        PROVE  [Ledger!LedgerNext]_(Ledger!ledger)
    <2>1. /\ CountersStay /\ UNCHANGED <<inbox, followups, requests>> /\ cur[p] \in Drafts
          /\ status' = status \/ \E s \in Statuses : status' = [status EXCEPT ![cur[p]] = s]
      BY <1>4, <1>t DEF Claim, Release, MarkWrite, RecoverWrite, SetStatus, ghosts, CountersStay, Statuses
    <2>2. ToldBut(cur[p])
      BY <2>1, <1>t, ToldOf DEF ToldBut, CompletedFor
    <2> QED
      BY <2>1, <2>2, TellsOrRetracts
  <1>5. ASSUME NEW p \in Procs, Resolve(p) \/ Followup(p)
        PROVE  [Ledger!LedgerNext]_(Ledger!ledger)
    <2>1. /\ CountersStay /\ UNCHANGED <<status, requests>> /\ cur[p] \in Drafts
          /\ \A d \in Drafts \ {cur[p]} : inbox'[d] = inbox[d] /\ (d \in followups' <=> d \in followups)
      BY <1>5, <1>t DEF Resolve, Followup, ghosts, CountersStay
    <2>2. ToldBut(cur[p])
      BY <2>1, ToldOf DEF ToldBut, CompletedFor
    <2> QED
      BY <2>1, <2>2, TellsOrRetracts
  <1>6. ASSUME NEW p \in Procs, QueueWrite(p)
        PROVE  [Ledger!LedgerNext]_(Ledger!ledger)
    <2>1. CountersStay /\ UNCHANGED <<status, inbox, followups>> /\ cur[p] \in Drafts
      BY <1>6, <1>t DEF QueueWrite, ghosts, CountersStay
    <2>2. ToldBut(cur[p])
      BY <1>6, <2>1, ToldOf, QueueWriteTells DEF ToldBut
    <2> QED
      BY <2>1, <2>2, TellsOrRetracts
  <1>7. ASSUME NEW p \in Procs, Reject(p) \/ Complete(p) \/ FailRequest(p)
        PROVE  [Ledger!LedgerNext]_(Ledger!ledger)
    <2>1. CountersStay /\ UNCHANGED <<status, inbox, followups>>
      BY <1>7 DEF Reject, Complete, FailRequest, ghosts, CountersStay
    <2>2. requests' = requests \/ \E s : Pending(req[p]) /\ SetRequest(req[p], s)
      BY <1>7 DEF Reject, Complete, FailRequest
    <2>3. CASE requests' = requests
      BY <2>1, <2>3, NothingTold
    <2>4. ASSUME NEW s, Pending(req[p]), SetRequest(req[p], s)
          PROVE  [Ledger!LedgerNext]_(Ledger!ledger)
      <3>1. requests[req[p]].draft \in Drafts
        BY <2>4, <1>t DEF Pending
      <3>2. ToldBut(requests[req[p]].draft)
        BY <2>1, <2>4, ToldOf, SetRequestTells DEF ToldBut
      <3> QED
        BY <2>1, <3>1, <3>2, TellsOrRetracts
    <2> QED
      BY <2>2, <2>3, <2>4
  <1>8. ASSUME NEW p \in Procs, ApproveWrite(p)
        PROVE  [Ledger!LedgerNext]_(Ledger!ledger)
    <2> DEFINE a == cur[p]
    <2>1. /\ a \in Drafts /\ approvals' = [approvals EXCEPT ![a] = @ + 1]
          /\ UNCHANGED <<delivered, confirmed, logged, inbox, followups, requests>>
          /\ status' = [status EXCEPT ![a] = "approved"]
      BY <1>8, <1>t DEF ApproveWrite, SetStatus
    <2>2. ToldBut(a) /\ (a \in Told' => a \in Told)
      BY <2>1, <1>t, ToldOf DEF ToldBut, CompletedFor
    <2>3. Told' \in {Told, Told \ {a}}
      BY <2>2 DEF ToldBut, Told
    <2> QED
      BY <2>1, <2>3 DEF Ledger!LedgerNext, Ledger!Approve
  <1>9. ASSUME NEW p \in Procs, CallBridge(p)
        PROVE  [Ledger!LedgerNext]_(Ledger!ledger)
    <2> DEFINE a == cur[p]
    <2>1. PICK taken \in BOOLEAN, success \in BOOLEAN :
            /\ success => taken
            /\ delivered' = IF taken THEN [delivered EXCEPT ![a] = @ + 1] ELSE delivered
            /\ confirmed' = IF success THEN [confirmed EXCEPT ![a] = @ + 1] ELSE confirmed
      BY <1>9 DEF CallBridge
    <2>2. a \in Drafts /\ pc[p] = "call" /\ UNCHANGED <<approvals, logged, status, inbox, followups, requests>>
      BY <1>9, <1>t DEF CallBridge, crm
    <2>3. Told' = Told
      BY <2>2 DEF Told
    <2>4. delivered[a] < approvals[a]
      <3>1. p \in Claimed(a) /\ Cardinality(Claimed(a)) \in Nat /\ IsFiniteSet(Claimed(a))
        BY <2>2, ClaimedFinite DEF Claimed, Claiming
      <3>2. Cardinality(Claimed(a)) # 0
        BY <3>1, FS_EmptySet
      <3>3. /\ delivered[a] + Cardinality(Claimed(a)) + Credit(a) <= approvals[a]
            /\ delivered[a] \in Nat /\ approvals[a] \in Nat /\ Credit(a) \in Nat
        BY <2>2, <1>t DEF PaidInv, Credit
      <3> QED
        BY <3>1, <3>2, <3>3
    <2>5. CASE taken
      BY <2>1, <2>2, <2>3, <2>4, <2>5 DEF Ledger!LedgerNext, Ledger!Deliver
    <2>6. CASE ~ taken
      BY <2>1, <2>2, <2>3, <2>6 DEF Ledger!ledger
    <2> QED
      BY <2>5, <2>6
  <1>10. ASSUME NEW p \in Procs, Record(p)
         PROVE  [Ledger!LedgerNext]_(Ledger!ledger)
    <2> DEFINE a == cur[p]
    <2>1. /\ a \in Drafts /\ logged' = [logged EXCEPT ![a] = @ + 1]
          /\ UNCHANGED <<approvals, delivered, confirmed, status, inbox, followups, requests>>
          /\ p \in ToLog(a)
      BY <1>10, <1>t DEF Record, ghosts, ToLog, OnTheWay, Answers, AnswerOf
    <2>2. Told' = Told
      BY <2>1 DEF Told
    <2>3. logged[a] < confirmed[a]
      <3>1. Cardinality(ToLog(a)) \in Nat /\ Cardinality(ToLog(a)) # 0
        BY <2>1, ToLogFinite, FS_EmptySet
      <3>2. /\ logged[a] + Cardinality(ToLog(a)) <= confirmed[a]
            /\ logged[a] \in Nat /\ confirmed[a] \in Nat
        BY <2>1, <1>t DEF LogInv
      <3> QED
        BY <3>1, <3>2
    <2> QED
      BY <2>1, <2>2, <2>3 DEF Ledger!LedgerNext, Ledger!Enter
  <1> QED
    BY <1>1, <1>2, <1>3, <1>4, <1>5, <1>6, <1>7, <1>8, <1>9, <1>10 DEF Next, Step

\* The send path implements DeliveryLedger for any drafts, threads and bounds: however steps
\* of several threads, crashes and errors are interleaved, each is one entry of the ledger or
\* none (crm.py, autopilot.py _process_send_requests, server.py sales_send_whatsapp_draft).
THEOREM OutreachImplementsLedger == Spec => ImplementsLedger
  <1>1. Init => Ledger!LedgerInit
    BY DEF Init, Told, Ledger!LedgerInit
  <1>2. Spec => [](TypeInv /\ PaidInv)
    BY InitTypeInv, InitPaidInv, NextTypeInv, NextPaidInv, PTL DEF Spec
  <1>3. Spec => [](Answers /\ LogInv)
    BY LogInvariant, AnswersInvariant, PTL
  <1> QED
    BY <1>1, <1>2, <1>3, RecordsAreBacked, LedgerStep, PTL DEF Spec, ImplementsLedger, Ledger!LedgerSpec

=============================================================================
