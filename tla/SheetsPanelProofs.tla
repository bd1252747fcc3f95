--------------------------- MODULE SheetsPanelProofs ---------------------------
(***************************************************************************)
(* What TLAPS proves of SheetsPanel, for any number of syncs, drafts,      *)
(* edits and faults: its types, that no single edit both approves a draft  *)
(* and sends it, and that an edited copy is never acted on.                *)
(***************************************************************************)
EXTENDS SheetsPanel, SequenceTheorems, WellFoundedInduction, TLAPS

\* Rows that show a draft there is, or none.
Known == [draft : 0 .. Len(status), exact : BOOLEAN, approve : BOOLEAN, send : BOOLEAN]
Cursor == [draft : 0 .. Len(status), before : Statuses \cup {"none"}]

\* The types in parts.  The sheet never has more rows than there are drafts.
CrmOK ==
    /\ status \in Seq(Statuses) /\ Len(status) \in Nat /\ Len(status) <= MaxDrafts
    /\ queued \subseteq Drafts /\ earned \subseteq Drafts
SheetOK ==
    /\ leads \in Known
    /\ outreach \in Seq(Known) /\ Len(outreach) <= Len(status)
ThreadsOK ==
    /\ pc \in [Syncs -> Labels]
    /\ read \in [Syncs -> SUBSET Known]
    /\ snap \in [Syncs -> [leads : Known, outreach : Seq(Known)]]
    /\ \A s \in Syncs : Len(snap[s].outreach) <= Len(status)
    /\ handled \in [Syncs -> SUBSET Drafts]
    /\ cur \in [Syncs -> Cursor]
    /\ \A s \in Syncs : pc[s] = "apply" => cur[s].draft \in Drafts /\ cur[s].before \in Statuses
BoundsOK == edits \in 0 .. MaxEdits /\ faults \in 0 .. MaxFaults /\ troubled \in BOOLEAN
TypeInv == CrmOK /\ SheetOK /\ ThreadsOK /\ BoundsOK

LEMMA TypeInvImplies == TypeInv => TypeOK
  <1> SUFFICES ASSUME TypeInv
               PROVE  TypeOK
    OBVIOUS
  <1>1. Known \subseteq Rows
    BY PanelAssumption DEF Known, Rows, TypeInv, CrmOK
  <1>2. Seq(Known) \subseteq Seq(Rows)
    BY <1>1, SeqMonotonic
  <1>3. [leads : Known, outreach : Seq(Known)] \subseteq [leads : Rows, outreach : Seq(Rows)]
    BY <1>1, <1>2
  <1>4. read \in [Syncs -> SUBSET Rows] /\ snap \in [Syncs -> [leads : Rows, outreach : Seq(Rows)]]
    BY <1>1, <1>3 DEF TypeInv, ThreadsOK
  <1> QED
    BY <1>1, <1>2, <1>4 DEF TypeInv, CrmOK, SheetOK, ThreadsOK, BoundsOK, TypeOK

\* Drafts are only added, and what was well typed stays so.
LEMMA Grown ==
  ASSUME status \in Seq(Statuses), status' \in Seq(Statuses), Len(status) <= Len(status')
  PROVE  /\ Known \subseteq Known' /\ Seq(Known) \subseteq Seq(Known')
         /\ Cursor \subseteq Cursor' /\ Drafts \subseteq Drafts'
         /\ [leads : Known, outreach : Seq(Known)] \subseteq ([leads : Known, outreach : Seq(Known)])'
  <1>0. Len(status) \in Nat /\ Len(status') \in Nat
        /\ Drafts = 1 .. Len(status) /\ Drafts' = 1 .. Len(status')
    BY LenProperties DEF Drafts
  <1>1. Known \subseteq Known' /\ Cursor \subseteq Cursor' /\ Drafts \subseteq Drafts'
    BY <1>0 DEF Known, Cursor
  <1>2. Seq(Known) \subseteq Seq(Known')
    BY <1>1, SeqMonotonic
  <1> QED
    BY <1>1, <1>2

\* The newest of some drafts is one of them.
LEMMA NewestIn ==
  ASSUME NEW n \in Nat, NEW S, S \subseteq 1 .. n, S # {}
  PROVE  Newest(S) \in S
  <1> DEFINE T == {n - d : d \in S}
             Less == OpToRel(<, Nat)
  <1>1. T \subseteq Nat /\ T # {}
    <2>1. ASSUME NEW d \in S
          PROVE  n - d \in Nat
      <3>1. d \in Nat /\ d <= n
        OBVIOUS
      <3> QED
        BY <3>1
    <2>2. PICK d \in S : TRUE
      OBVIOUS
    <2>3. n - d \in T
      OBVIOUS
    <2> QED
      BY <2>1, <2>3
  <1>2. PICK x \in T : \A y \in T : ~ (<<y, x>> \in Less)
    BY <1>1, NatLessThanWellFounded, WFMin
  <1>3. \A y \in T : x <= y
    <2> SUFFICES ASSUME NEW y \in T, y < x
                 PROVE  FALSE
      BY <1>1
    <2>1. x \in Nat /\ y \in Nat
      BY <1>1
    <2>2. <<y, x>> \in Less
      BY <2>1 DEF OpToRel
    <2> QED
      BY <1>2, <2>2
  <1>4. PICK d \in S : x = n - d
    OBVIOUS
  <1>5. \A e \in S : e <= d
    BY <1>3, <1>4
  <1> QED
    BY <1>5 DEF Newest

LEMMA SnapshotTyped ==
  ASSUME CrmOK
  PROVE  /\ Snapshot \in [leads : Known, outreach : Seq(Known)]
         /\ Len(Snapshot.outreach) = Len(status)
         /\ ~ Snapshot.leads.send /\ \A i \in DOMAIN Snapshot.outreach : ~ Snapshot.outreach[i].send
  <1>0. Len(status) \in Nat /\ Drafts = 1 .. Len(status)
    BY LenProperties DEF CrmOK, Drafts
  <1>1. ASSUME NEW d \in 0 .. Len(status)
        PROVE  Row(d) \in Known /\ ~ Row(d).send
    BY <1>1 DEF Row, Known
  <1>2. Snapshot.leads \in Known /\ ~ Snapshot.leads.send
    <2>1. CASE Unsent = {}
      BY <1>0, <1>1, <2>1 DEF Snapshot, Blank
    <2>2. CASE Unsent # {}
      <3>1. Newest(Unsent) \in Drafts
        BY <1>0, <2>2, NewestIn DEF Unsent
      <3> QED
        BY <1>0, <1>1, <2>2, <3>1 DEF Snapshot
    <2> QED
      BY <2>1, <2>2
  <1> DEFINE rows == [i \in Drafts |-> Row(Len(status) + 1 - i)]
  <1>3. rows \in [1 .. Len(status) -> Known]
    BY <1>0, <1>1
  <1>4. rows \in Seq(Known) /\ Len(rows) = Len(status) /\ DOMAIN rows = 1 .. Len(status)
    BY <1>0, <1>3
  <1>5. \A i \in 1 .. Len(status) : ~ rows[i].send
    BY <1>0, <1>1
  <1>6. Snapshot.outreach = rows /\ Snapshot = [leads |-> Snapshot.leads, outreach |-> rows]
    BY DEF Snapshot
  <1> QED
    BY <1>2, <1>4, <1>5, <1>6

-------------------------------------------------------------------------------
(* The types *)

LEMMA InitTyped == Init => TypeInv
  <1> SUFFICES ASSUME Init
               PROVE  TypeInv
    OBVIOUS
  <1>1. status \in Seq(Statuses) /\ Len(status) = 1 /\ Drafts = {1}
    BY DEF Init, Statuses, Drafts
  <1>2. Row(1) \in Known /\ Blank \in Known
    BY <1>1 DEF Known, Row, Blank
  <1>3. outreach \in Seq(Known) /\ Len(outreach) = 1
    <2>1. PICK e \in BOOLEAN : outreach = <<[Row(1) EXCEPT !.exact = e]>>
      BY DEF Init
    <2>2. [Row(1) EXCEPT !.exact = e] \in Known
      BY <1>2 DEF Known
    <2> QED
      BY <2>1, <2>2
  <1>4. NoSnapshot \in [leads : Known, outreach : Seq(Known)] /\ Len(NoSnapshot.outreach) = 0
    BY <1>2 DEF NoSnapshot
  <1>5. NoDraft \in Cursor
    BY <1>1 DEF NoDraft, Cursor
  <1>6. CrmOK
    BY <1>1, PanelAssumption DEF Init, CrmOK
  <1>7. SheetOK
    BY <1>1, <1>2, <1>3 DEF Init, SheetOK
  <1>8. ThreadsOK
    BY <1>1, <1>4, <1>5 DEF Init, ThreadsOK, Labels
  <1>9. BoundsOK
    <2>1. MaxEdits \in Nat /\ MaxFaults \in Nat
      BY PanelAssumption
    <2>2. edits = 0 /\ faults = 0 /\ troubled = FALSE
      BY DEF Init
    <2>3. edits \in 0 .. MaxEdits /\ faults \in 0 .. MaxFaults
      BY <2>1, <2>2
    <2> QED
      BY <2>2, <2>3 DEF BoundsOK
  <1> QED
    BY <1>6, <1>7, <1>8, <1>9 DEF TypeInv

\* A step that only saves, approves or delivers leaves the panel well typed.
LEMMA PanelKept ==
  ASSUME CrmOK, SheetOK, ThreadsOK, status' \in Seq(Statuses), Len(status) <= Len(status')
  PROVE  /\ UNCHANGED sheet => SheetOK'
         /\ UNCHANGED threads => ThreadsOK'
  <1>0. Len(status) \in Nat /\ Len(status') \in Nat
    BY LenProperties DEF CrmOK
  <1>1. /\ Known \subseteq Known' /\ Seq(Known) \subseteq Seq(Known')
        /\ Cursor \subseteq Cursor' /\ Drafts \subseteq Drafts'
        /\ [leads : Known, outreach : Seq(Known)] \subseteq ([leads : Known, outreach : Seq(Known)])'
    BY Grown DEF CrmOK
  <1>2. ASSUME UNCHANGED sheet
        PROVE  SheetOK'
    <2>1. leads' = leads /\ outreach' = outreach /\ Len(outreach) \in Nat
      BY <1>2, LenProperties DEF sheet, SheetOK
    <2> QED
      BY <1>0, <1>1, <2>1 DEF SheetOK
  <1>3. ASSUME UNCHANGED threads
        PROVE  ThreadsOK'
    <2>1. UNCHANGED <<pc, read, handled, cur, snap>>
      BY <1>3 DEF threads
    <2>2. \A s \in Syncs : Len(snap[s].outreach) \in Nat
      BY LenProperties DEF ThreadsOK
    <2>3. read' \in [Syncs -> SUBSET Known'] /\ handled' \in [Syncs -> SUBSET Drafts'] /\ cur' \in [Syncs -> Cursor']
      BY <1>1, <2>1 DEF ThreadsOK
    <2>4. snap' \in ([Syncs -> [leads : Known, outreach : Seq(Known)]])'
      BY <1>1, <2>1 DEF ThreadsOK
    <2> QED
      BY <1>0, <1>1, <2>1, <2>2, <2>3, <2>4 DEF ThreadsOK
  <1> QED
    BY <1>2, <1>3

\* One step of each action keeps the CRM well typed and loses no draft.
LEMMA CrmStep ==
  ASSUME TypeInv, [Next]_vars
  PROVE  CrmOK' /\ Len(status) <= Len(status')
  <1>0. /\ status \in Seq(Statuses) /\ Len(status) \in Nat /\ Drafts = 1 .. Len(status)
        /\ queued \subseteq Drafts /\ earned \subseteq Drafts
        /\ leads \in Known /\ outreach \in Seq(Known) /\ DOMAIN outreach = 1 .. Len(outreach)
    BY LenProperties DEF TypeInv, CrmOK, SheetOK, Drafts
  <1>1. ASSUME UNCHANGED <<status, queued, earned>>
        PROVE  CrmOK' /\ Len(status) <= Len(status')
    BY <1>0, <1>1 DEF TypeInv, CrmOK, Drafts
  <1>2. ASSUME NEW row \in Known, NEW cell, Type(row, cell)
        PROVE  CrmOK' /\ Len(status) <= Len(status')
    <2>1. row.draft \in Drafts
      BY <1>0, <1>2 DEF Known, Type
    <2>2. UNCHANGED <<status, queued>> /\ earned' \subseteq earned \cup {row.draft}
      BY <1>2 DEF Type, crm
    <2> QED
      BY <1>0, <2>1, <2>2 DEF TypeInv, CrmOK, Drafts
  <1>3. ASSUME NEW d \in Drafts, NEW v \in Statuses, status' = [status EXCEPT ![d] = v],
               queued' \subseteq queued \cup {d}, earned' \subseteq earned \cup {d}
        PROVE  CrmOK' /\ Len(status) <= Len(status')
    <2>1. status' \in Seq(Statuses) /\ Len(status') = Len(status)
      BY <1>0, <1>3, ExceptSeq
    <2> QED
      BY <1>0, <1>3, <2>1, LenProperties DEF TypeInv, CrmOK, Drafts
  <1>4. CASE UNCHANGED vars
    BY <1>1, <1>4 DEF vars, crm, history
  <1>5. ASSUME NEW cell \in {"approve", "send"}, TypeInLeads(cell) \/ \E i \in DOMAIN outreach : TypeInOutreach(i, cell)
        PROVE  CrmOK' /\ Len(status) <= Len(status')
    <2>1. CASE TypeInLeads(cell)
      BY <1>0, <1>2, <2>1 DEF TypeInLeads
    <2>2. ASSUME NEW i \in DOMAIN outreach, TypeInOutreach(i, cell)
          PROVE  CrmOK' /\ Len(status) <= Len(status')
      <3>1. outreach[i] \in Known
        BY <1>0, ElementOfSeq
      <3> QED
        BY <1>2, <2>2, <3>1 DEF TypeInOutreach
    <2> QED
      BY <1>5, <2>1, <2>2
  <1>6. ASSUME NEW i \in DOMAIN outreach, EditMessage(i)
        PROVE  CrmOK' /\ Len(status) <= Len(status')
    BY <1>1, <1>6 DEF EditMessage, crm
  <1>7. ASSUME SaveDraft
        PROVE  CrmOK' /\ Len(status) <= Len(status')
    <2>1. "draft" \in Statuses /\ status' = Append(status, "draft") /\ Len(status) < MaxDrafts
      BY <1>7 DEF SaveDraft, Statuses
    <2>2. status' \in Seq(Statuses) /\ Len(status') = Len(status) + 1
      BY <1>0, <2>1, AppendProperties
    <2>3. UNCHANGED <<queued, earned>>
      BY <1>7 DEF SaveDraft, history
    <2> QED
      BY <1>0, <2>1, <2>2, <2>3, PanelAssumption, LenProperties DEF CrmOK, Drafts
  <1>8. ASSUME NEW d \in Drafts, CabinetApprove(d) \/ Deliver(d)
        PROVE  CrmOK' /\ Len(status) <= Len(status')
    BY <1>3, <1>8 DEF CabinetApprove, Deliver, Statuses, history
  <1>9. ASSUME NEW s \in Syncs, Apply(s)
        PROVE  CrmOK' /\ Len(status) <= Len(status')
    <2> DEFINE d == cur[s].draft
    <2>1. d \in Drafts
      BY <1>9 DEF Apply, TypeInv, ThreadsOK
    <2>2. earned' = earned /\ queued' \subseteq queued \cup {d}
      BY <1>9 DEF Apply, history
    <2>3. status' = status \/ status' = [status EXCEPT ![d] = "approved"]
      BY <1>9 DEF Apply
    <2>4. CASE status' = status
      BY <1>0, <2>1, <2>2, <2>4 DEF TypeInv, CrmOK, Drafts
    <2> HIDE DEF d
    <2>5. CASE status' = [status EXCEPT ![d] = "approved"]
      BY <1>3, <2>1, <2>2, <2>5 DEF Statuses
    <2> QED
      BY <2>3, <2>4, <2>5
  <1>10. ASSUME NEW s \in Syncs, Begin(s) \/ (Step(s) /\ ~ Apply(s)) \/ WriteUnheard(s) \/ Fail(s)
         PROVE  CrmOK' /\ Len(status) <= Len(status')
    BY <1>1, <1>10 DEF Begin, Step, WriteUnheard, Fail, ReadLeads, ReadOutreach, Look, TakeSnapshot,
                       Write, Clear, crm, history
  <1> QED
    BY <1>4, <1>5, <1>6, <1>7, <1>8, <1>9, <1>10 DEF Next, Step

\* What a sync reads, looks up and takes along is well typed.
LEMMA ThreadsStep ==
  ASSUME TypeInv, NEW s \in Syncs, Begin(s) \/ Step(s) \/ WriteUnheard(s) \/ Fail(s), CrmOK', Len(status) <= Len(status')
  PROVE  ThreadsOK'
  <1>0. /\ status \in Seq(Statuses) /\ Len(status) \in Nat /\ Drafts = 1 .. Len(status)
        /\ leads \in Known /\ outreach \in Seq(Known) /\ DOMAIN outreach = 1 .. Len(outreach)
        /\ ThreadsOK /\ CrmOK /\ SheetOK
    BY LenProperties DEF TypeInv, CrmOK, SheetOK, Drafts
  <1>1. ASSUME status' = status, NEW r \in SUBSET Known, read' = [read EXCEPT ![s] = r],
               NEW l \in Labels \ {"apply"}, pc' = [pc EXCEPT ![s] = l], UNCHANGED <<handled, cur, snap>>
        PROVE  ThreadsOK'
    BY <1>0, <1>1 DEF ThreadsOK, Known, Drafts, Cursor
  <1>2. CASE Begin(s)
    <2>1. pc' = [pc EXCEPT ![s] = "leads"] /\ UNCHANGED <<status, read, handled, cur, snap>>
      BY <1>2 DEF Begin, Goto, crm
    <2> QED
      BY <1>0, <2>1 DEF ThreadsOK, Known, Drafts, Cursor, Labels
  <1>3. CASE ReadLeads(s)
    <2>1. Yes({leads}) \in SUBSET Known
      BY <1>0 DEF Yes
    <2> QED
      BY <1>1, <1>3, <2>1 DEF ReadLeads, Goto, crm, Labels
  <1>4. CASE ReadOutreach(s)
    <2>1. OutreachRows \subseteq Known
      BY <1>0 DEF OutreachRows
    <2>2. read[s] \cup Yes(OutreachRows) \in SUBSET Known
      BY <1>0, <2>1 DEF Yes, ThreadsOK
    <2>3. read' = [read EXCEPT ![s] = read[s] \cup Yes(OutreachRows)]
      BY <1>4 DEF ReadOutreach
    <2> QED
      BY <1>1, <1>4, <2>2, <2>3 DEF ReadOutreach, Goto, crm, Labels
  <1>5. ASSUME NEW d \in Drafts, Look(s, d)
        PROVE  ThreadsOK'
    <2>1. UNCHANGED <<status, read, snap>> /\ handled' = [handled EXCEPT ![s] = handled[s] \cup {d}]
      BY <1>5 DEF Look, crm
    <2>2. \/ UNCHANGED <<pc, cur>>
          \/ /\ cur' = [cur EXCEPT ![s] = [draft |-> d, before |-> status[d]]]
             /\ pc' = [pc EXCEPT ![s] = "apply"]
      BY <1>5 DEF Look, Goto
    <2>3. status[d] \in Statuses
      BY <1>0, ElementOfSeq
    <2>4. handled[s] \cup {d} \in SUBSET Drafts
      BY <1>0 DEF ThreadsOK
    <2>5. handled' \in [Syncs -> SUBSET Drafts']
      BY <1>0, <2>1, <2>4 DEF ThreadsOK, Drafts
    <2>6. [draft |-> d, before |-> status[d]] \in Cursor
      BY <1>0, <2>3 DEF Cursor
    <2>7. pc' \in [Syncs -> Labels] /\ cur' \in [Syncs -> Cursor']
      <3>1. Cursor' = Cursor
        BY <2>1 DEF Cursor
      <3>2. pc \in [Syncs -> Labels] /\ cur \in [Syncs -> Cursor] /\ "apply" \in Labels
        BY <1>0 DEF ThreadsOK, Labels
      <3> QED
        BY <2>2, <2>6, <3>1, <3>2
    <2>8. \A t \in Syncs : pc'[t] = "apply" => cur'[t].draft \in Drafts' /\ cur'[t].before \in Statuses
      BY <1>0, <2>1, <2>2, <2>3 DEF ThreadsOK, Drafts
    <2> QED
      BY <1>0, <2>1, <2>5, <2>7, <2>8 DEF ThreadsOK, Known
  <1>6. CASE Apply(s)
    <2>1. UNCHANGED <<read, handled, snap>> /\ pc' = [pc EXCEPT ![s] = "act"] /\ cur' = [cur EXCEPT ![s] = NoDraft]
      BY <1>6 DEF Apply, Goto
    <2>2. UNCHANGED <<leads, outreach>>
      BY <1>6 DEF Apply, sheet
    <2>3. /\ Known \subseteq Known' /\ Cursor \subseteq Cursor' /\ Drafts \subseteq Drafts'
          /\ [leads : Known, outreach : Seq(Known)] \subseteq ([leads : Known, outreach : Seq(Known)])'
      BY <1>0, Grown DEF CrmOK
    <2>4. NoDraft \in Cursor
      BY <1>0 DEF NoDraft, Cursor
    <2>5. read' \in [Syncs -> SUBSET Known'] /\ handled' \in [Syncs -> SUBSET Drafts'] /\ cur' \in [Syncs -> Cursor']
      BY <1>0, <2>1, <2>3, <2>4 DEF ThreadsOK
    <2>6. snap' \in ([Syncs -> [leads : Known, outreach : Seq(Known)]])'
      BY <1>0, <2>1, <2>3 DEF ThreadsOK
    <2>7. \A t \in Syncs : Len(snap'[t].outreach) <= Len(status')
      <3>1. \A t \in Syncs : Len(snap[t].outreach) \in Nat
        BY <1>0, LenProperties DEF ThreadsOK
      <3>2. Len(status') \in Nat
        BY LenProperties DEF CrmOK
      <3> QED
        BY <1>0, <2>1, <3>1, <3>2 DEF ThreadsOK
    <2>8. /\ pc' \in [Syncs -> Labels]
          /\ \A t \in Syncs : pc'[t] = "apply" => cur'[t].draft \in Drafts' /\ cur'[t].before \in Statuses
      BY <1>0, <2>1, <2>3 DEF ThreadsOK, Labels
    <2> QED
      BY <2>5, <2>6, <2>7, <2>8 DEF ThreadsOK
  <1>7. ASSUME NEW n \in [leads : Known, outreach : Seq(Known)], Len(n.outreach) <= Len(status), status' = status,
               snap' = [snap EXCEPT ![s] = n], read' = [read EXCEPT ![s] = {}], handled' = [handled EXCEPT ![s] = {}],
               NEW c \in Cursor, cur' = [cur EXCEPT ![s] = c], NEW l \in Labels \ {"apply"}, pc' = [pc EXCEPT ![s] = l]
        PROVE  ThreadsOK'
    BY <1>0, <1>7 DEF ThreadsOK, Known, Drafts, Cursor
  <1>8. CASE TakeSnapshot(s)
    <2>1. Snapshot \in [leads : Known, outreach : Seq(Known)] /\ Len(Snapshot.outreach) = Len(status)
      BY <1>0, SnapshotTyped
    <2>2. cur[s] \in Cursor /\ cur' = [cur EXCEPT ![s] = cur[s]]
      BY <1>0, <1>8 DEF TakeSnapshot, ThreadsOK
    <2> QED
      BY <1>0, <1>7, <1>8, <2>1, <2>2 DEF TakeSnapshot, Goto, crm, Labels
  <1>9. CASE Write(s) \/ WriteUnheard(s)
    <2>1. UNCHANGED <<status, read, handled, cur, snap>>
      BY <1>9 DEF Write, WriteUnheard, crm, threads
    <2>2. pc' = pc \/ pc' = [pc EXCEPT ![s] = "clear"]
      BY <1>9 DEF Write, WriteUnheard, Goto, threads
    <2> QED
      BY <1>0, <2>1, <2>2 DEF ThreadsOK, Known, Drafts, Cursor, Labels
  <1>10. CASE Clear(s) \/ Fail(s)
    <2>1. Idle(s) /\ UNCHANGED status
      BY <1>10 DEF Clear, Fail, crm
    <2>2. NoSnapshot \in [leads : Known, outreach : Seq(Known)] /\ Len(NoSnapshot.outreach) = 0
      BY <1>0 DEF NoSnapshot, Blank, Row, Known
    <2>3. NoDraft \in Cursor
      BY <1>0 DEF NoDraft, Cursor
    <2>4. /\ snap' = [snap EXCEPT ![s] = NoSnapshot] /\ read' = [read EXCEPT ![s] = {}]
          /\ handled' = [handled EXCEPT ![s] = {}] /\ cur' = [cur EXCEPT ![s] = NoDraft]
          /\ pc' = [pc EXCEPT ![s] = "idle"] /\ "idle" \in Labels \ {"apply"}
      BY <2>1 DEF Idle, Labels
    <2>5. Len(NoSnapshot.outreach) <= Len(status)
      BY <1>0, <2>2
    <2> QED
      BY <1>7, <2>1, <2>2, <2>3, <2>4, <2>5
  <1> QED
    BY <1>2, <1>3, <1>4, <1>5, <1>6, <1>8, <1>9, <1>10 DEF Step

\* So is what stands in the sheet, whoever writes or types.
LEMMA SheetStep ==
  ASSUME TypeInv, NEW s \in Syncs, Step(s) \/ WriteUnheard(s), Len(status) <= Len(status'), CrmOK'
  PROVE  SheetOK'
  <1>0. /\ Len(status) \in Nat
        /\ leads \in Known /\ outreach \in Seq(Known) /\ Len(outreach) \in Nat /\ Len(outreach) <= Len(status)
        /\ ThreadsOK /\ CrmOK /\ SheetOK
    BY LenProperties DEF TypeInv, CrmOK, SheetOK
  <1>1. CASE Overwrite(s) /\ status' = status
    <2> DEFINE new == snap[s].outreach
               rest == SubSeq(outreach, Len(new) + 1, Len(outreach))
    <2>1. snap[s].leads \in Known /\ new \in Seq(Known) /\ Len(new) \in Nat /\ Len(new) <= Len(status)
      BY <1>0, LenProperties DEF ThreadsOK
    <2>2. /\ rest \in Seq(Known)
          /\ Len(rest) = IF Len(new) + 1 <= Len(outreach) THEN Len(outreach) - Len(new) ELSE 0
      <3>1. \A i \in Len(new) + 1 .. Len(outreach) : outreach[i] \in Known
        BY <1>0, <2>1, ElementOfSeq
      <3>2. Len(new) + 1 \in Int /\ Len(outreach) \in Int
        BY <1>0, <2>1
      <3> HIDE DEF new
      <3>3. /\ rest \in Seq(Known)
            /\ Len(rest) = IF Len(new) + 1 <= Len(outreach) THEN Len(outreach) - (Len(new) + 1) + 1 ELSE 0
        BY <3>1, <3>2, SubSeqProperties
      <3> HIDE DEF rest
      <3> QED
        BY <1>0, <2>1, <3>3
    <2>3. new \o rest \in Seq(Known) /\ Len(new \o rest) = Len(new) + Len(rest)
      BY <2>1, <2>2, ConcatProperties
    <2>4. leads' = snap[s].leads /\ outreach' = new \o rest
      BY <1>1 DEF Overwrite
    <2>5. Len(new \o rest) <= Len(status)
      <3> HIDE DEF new, rest
      <3> QED
        BY <1>0, <2>1, <2>2, <2>3
    <2>6. Known' = Known
      BY <1>1 DEF Known
    <2> QED
      BY <1>1, <2>1, <2>3, <2>4, <2>5, <2>6 DEF SheetOK
  <1>2. CASE Clear(s)
    <2> DEFINE kept == {Len(snap[s].outreach), Len(outreach)}
               m == CHOOSE n \in kept : \A k \in kept : n <= k
    <2>1. Len(snap[s].outreach) \in Nat
      BY <1>0, LenProperties DEF ThreadsOK
    <2>2. \E n \in kept : \A k \in kept : n <= k
      BY <1>0, <2>1
    <2>3. m \in kept /\ \A k \in kept : m <= k
      BY <2>2
    <2>4. m \in Nat /\ m <= Len(outreach)
      BY <1>0, <2>1, <2>3
    <2>5. outreach' = SubSeq(outreach, 1, m) /\ UNCHANGED <<status, leads>>
      BY <1>2 DEF Clear, crm
    <2> HIDE DEF m
    <2>6. SubSeq(outreach, 1, m) \in Seq(Known) /\ Len(SubSeq(outreach, 1, m)) = m
      BY <1>0, <2>4, SubSeqProperties
    <2>7. Known' = Known
      BY <2>5 DEF Known
    <2> QED
      BY <1>0, <2>4, <2>5, <2>6, <2>7 DEF SheetOK
  <1>3. CASE UNCHANGED sheet
    BY <1>0, <1>3, PanelKept DEF CrmOK
  <1> QED
    BY <1>1, <1>2, <1>3 DEF Step, WriteUnheard, ReadLeads, ReadOutreach, Look, Apply, TakeSnapshot, Write, crm

LEMMA BoundsStep ==
  ASSUME TypeInv, [Next]_vars
  PROVE  BoundsOK'
  <1>0. edits \in Nat /\ edits <= MaxEdits /\ faults \in Nat /\ faults <= MaxFaults /\ MaxEdits \in Nat /\ MaxFaults \in Nat
    BY PanelAssumption DEF TypeInv, BoundsOK
  <1>1. edits' = edits \/ (edits < MaxEdits /\ edits' = edits + 1)
    BY DEF Next, Type, TypeInLeads, TypeInOutreach, EditMessage, CabinetApprove, SaveDraft, Deliver, Begin, Step,
           ReadLeads, ReadOutreach, Look, Apply, TakeSnapshot, Write, WriteUnheard, Clear, Fail, vars, history
  <1>2. faults' = faults \/ (faults < MaxFaults /\ faults' = faults + 1)
    BY DEF Next, Type, TypeInLeads, TypeInOutreach, EditMessage, CabinetApprove, SaveDraft, Deliver, Begin, Step,
           ReadLeads, ReadOutreach, Look, Apply, TakeSnapshot, Write, WriteUnheard, Clear, Fail, vars, history
  <1>3. \/ troubled' = troubled \/ troubled' = TRUE
        \/ troubled' = (troubled \/ \E s \in Syncs : pc[s] # "idle")
    BY DEF Next, Type, TypeInLeads, TypeInOutreach, EditMessage, CabinetApprove, SaveDraft, Deliver, Begin, Step,
           ReadLeads, ReadOutreach, Look, Apply, TakeSnapshot, Write, WriteUnheard, Clear, Fail, vars, history
  <1>4. troubled' \in BOOLEAN
    BY <1>3 DEF TypeInv, BoundsOK
  <1>5. edits' \in 0 .. MaxEdits /\ faults' \in 0 .. MaxFaults
    BY <1>0, <1>1, <1>2
  <1> QED
    BY <1>4, <1>5 DEF BoundsOK

\* The rest of Next: typing, editing, the cabinet, ChatGPT and delivery.
LEMMA OutsideStep ==
  ASSUME TypeInv, CrmOK', Len(status) <= Len(status'),
         \/ \E cell \in {"approve", "send"} :
              TypeInLeads(cell) \/ \E i \in DOMAIN outreach : TypeInOutreach(i, cell)
         \/ \E i \in DOMAIN outreach : EditMessage(i)
         \/ SaveDraft
         \/ \E d \in Drafts : CabinetApprove(d) \/ Deliver(d)
  PROVE  SheetOK' /\ ThreadsOK'
  <1>0. /\ CrmOK /\ SheetOK /\ ThreadsOK /\ status' \in Seq(Statuses)
        /\ leads \in Known /\ outreach \in Seq(Known) /\ Len(outreach) <= Len(status)
        /\ DOMAIN outreach = 1 .. Len(outreach)
    BY LenProperties DEF TypeInv, CrmOK, SheetOK
  <1>1. UNCHANGED threads
    BY DEF TypeInLeads, TypeInOutreach, Type, EditMessage, SaveDraft, CabinetApprove, Deliver
  <1>2. ThreadsOK'
    BY <1>0, <1>1, PanelKept
  <1>3. CASE UNCHANGED sheet
    BY <1>0, <1>2, <1>3, PanelKept
  <1>4. ASSUME UNCHANGED <<status, leads>>, NEW i \in DOMAIN outreach, NEW r \in Known, outreach' = [outreach EXCEPT ![i] = r]
        PROVE  SheetOK'
    <2>1. outreach' \in Seq(Known) /\ Len(outreach') = Len(outreach)
      BY <1>0, <1>4, ExceptSeq
    <2>2. Known' = Known
      BY <1>4 DEF Known
    <2> QED
      BY <1>0, <1>4, <2>1, <2>2 DEF SheetOK
  <1>5. ASSUME NEW cell \in {"approve", "send"}, TypeInLeads(cell)
        PROVE  SheetOK'
    <2>1. [leads EXCEPT ![cell] = TRUE] \in Known
      BY <1>0 DEF Known
    <2>2. UNCHANGED <<status, outreach>> /\ leads' = [leads EXCEPT ![cell] = TRUE]
      BY <1>5 DEF TypeInLeads, Type, crm
    <2>3. Known' = Known
      BY <2>2 DEF Known
    <2> QED
      BY <1>0, <2>1, <2>2, <2>3 DEF SheetOK
  <1>6. ASSUME NEW cell \in {"approve", "send"}, NEW i \in DOMAIN outreach, TypeInOutreach(i, cell)
        PROVE  SheetOK'
    <2>1. outreach[i] \in Known
      BY <1>0, ElementOfSeq
    <2>2. [outreach[i] EXCEPT ![cell] = TRUE] \in Known
      BY <2>1 DEF Known
    <2>3. outreach' = [outreach EXCEPT ![i] = [outreach[i] EXCEPT ![cell] = TRUE]] /\ UNCHANGED <<status, leads>>
      BY <1>6 DEF TypeInOutreach, Type, crm
    <2> QED
      BY <1>4, <2>2, <2>3
  <1>7. ASSUME NEW i \in DOMAIN outreach, EditMessage(i)
        PROVE  SheetOK'
    <2>1. outreach[i] \in Known
      BY <1>0, ElementOfSeq
    <2>2. [outreach[i] EXCEPT !.exact = FALSE] \in Known
      BY <2>1 DEF Known
    <2>3. outreach' = [outreach EXCEPT ![i] = [outreach[i] EXCEPT !.exact = FALSE]] /\ UNCHANGED <<status, leads>>
      BY <1>7 DEF EditMessage, crm
    <2> QED
      BY <1>4, <2>2, <2>3
  <1> QED
    BY <1>2, <1>3, <1>5, <1>6, <1>7 DEF SaveDraft, CabinetApprove, Deliver

LEMMA TypesKept == TypeInv /\ [Next]_vars => TypeInv'
  <1> SUFFICES ASSUME TypeInv, [Next]_vars
               PROVE  TypeInv'
    OBVIOUS
  <1>1. CrmOK' /\ Len(status) <= Len(status') /\ BoundsOK'
    BY CrmStep, BoundsStep
  <1>2. CrmOK /\ SheetOK /\ ThreadsOK /\ status' \in Seq(Statuses)
    BY <1>1 DEF TypeInv, CrmOK
  <1>3. CASE UNCHANGED vars
    BY <1>1, <1>2, <1>3, PanelKept DEF vars, TypeInv
  <1>4. ASSUME NEW s \in Syncs, Begin(s) \/ Fail(s)
        PROVE  TypeInv'
    <2>1. UNCHANGED sheet
      BY <1>4 DEF Begin, Fail
    <2> QED
      BY <1>1, <1>2, <1>4, <2>1, PanelKept, ThreadsStep DEF TypeInv
  <1>5. ASSUME NEW s \in Syncs, Step(s) \/ WriteUnheard(s)
        PROVE  TypeInv'
    BY <1>1, <1>5, ThreadsStep, SheetStep DEF TypeInv
  <1> QED
    BY <1>1, <1>3, <1>4, <1>5, OutsideStep DEF Next, TypeInv

\* Every variable stays in its type: a row never shows, nor a sync holds, a draft
\* that was never saved (_snapshot, _pull_actions).
THEOREM PanelTypes == Spec => []TypeOK
  <1>1. TypeInv => TypeOK
    BY TypeInvImplies
  <1> QED
    BY <1>1, InitTyped, TypesKept, PTL DEF Spec

-------------------------------------------------------------------------------
(* Approving and sending take two edits *)

\* Approved by a cell of the panel, with no SEND typed since.
Unearned == {d \in Drafts : status[d] = "approved" /\ d \notin earned}

Clean(rows) == \A r \in rows : r.send => r.draft \notin Unearned

\* A snapshot sends nothing, whatever happens.
SnapClean ==
    \A s \in Syncs :
        /\ ~ snap[s].leads.send
        /\ \A i \in DOMAIN snap[s].outreach : ~ snap[s].outreach[i].send

\* While syncs neither overlap nor break off: a sync that has approved a draft has
\* read all of its cells before, and wipes them before the next sync reads.
OneSync == \A s, t \in Syncs : pc[s] # "idle" /\ pc[t] # "idle" => s = t
SheetClean ==
    \/ \E s \in Syncs : pc[s] \in {"act", "apply", "write"}
    \/ Clean({leads} \cup OutreachRows)
ReadClean ==
    \A s \in Syncs :
        pc[s] \in {"outreach", "act", "apply"} =>
            Clean({r \in read[s] : r.draft \notin handled[s]})
ApplyClean ==
    \A s \in Syncs :
        pc[s] = "apply" => cur[s].draft \in handled[s] /\ (Sends(s) => cur[s].draft \in earned)
SnapLong ==
    \A s \in Syncs : pc[s] = "write" => Len(outreach) <= Len(snap[s].outreach)

Calm ==
    /\ queued \subseteq earned
    /\ OneSync /\ SheetClean /\ ReadClean /\ ApplyClean /\ SnapLong

EditsInv == SnapClean /\ (troubled \/ Calm)

\* A sync applies only what it has found exact.
ExactInv == \A s \in Syncs : pc[s] = "apply" => Action(s, cur[s].draft).exact

\* Of each sync, a step is its own or leaves it alone.
LEMMA OwnSteps ==
  ASSUME TypeInv, [Next]_vars, NEW t \in Syncs
  PROVE  \/ Begin(t) \/ Step(t) \/ Fail(t)
         \/ /\ pc'[t] = pc[t] /\ read'[t] = read[t] /\ handled'[t] = handled[t]
            /\ cur'[t] = cur[t] /\ snap'[t] = snap[t]
  <1>0. /\ pc \in [Syncs -> Labels] /\ DOMAIN read = Syncs /\ DOMAIN handled = Syncs
        /\ DOMAIN cur = Syncs /\ DOMAIN snap = Syncs
    BY DEF TypeInv, ThreadsOK
  <1>1. CASE UNCHANGED threads
    BY <1>1 DEF threads
  <1>2. ASSUME NEW s \in Syncs, s # t, Begin(s) \/ Step(s) \/ Fail(s)
        PROVE  /\ pc'[t] = pc[t] /\ read'[t] = read[t] /\ handled'[t] = handled[t]
               /\ cur'[t] = cur[t] /\ snap'[t] = snap[t]
    BY <1>0, <1>2 DEF Begin, Step, Fail, ReadLeads, ReadOutreach, Look, Apply, TakeSnapshot, Write, Clear, Goto, Idle
  <1> QED
    BY <1>1, <1>2 DEF Next, TypeInLeads, TypeInOutreach, Type, EditMessage, SaveDraft, CabinetApprove, Deliver,
                      WriteUnheard, vars

\* Only a sync that approves a draft makes one unearned.
LEMMA UnearnedStep ==
  ASSUME TypeInv, [Next]_vars
  PROVE  /\ earned \subseteq earned'
         /\ (\A s \in Syncs : ~ Apply(s)) => Unearned' \subseteq Unearned
         /\ \A s \in Syncs : Apply(s) => Unearned' \subseteq Unearned \cup {cur[s].draft}
  <1>0. status \in Seq(Statuses) /\ Len(status) \in Nat /\ Drafts = 1 .. Len(status) /\ Drafts = DOMAIN status
    BY LenProperties DEF TypeInv, CrmOK, Drafts
  <1>1. ASSUME status' = status, earned \subseteq earned'
        PROVE  Unearned' \subseteq Unearned
    BY <1>1 DEF Unearned, Drafts
  <1>2. ASSUME NEW d \in Drafts, NEW v, status' = [status EXCEPT ![d] = v], earned \subseteq earned'
        PROVE  /\ Unearned' \subseteq Unearned \cup {d}
               /\ (v # "approved" \/ d \in earned') => Unearned' \subseteq Unearned
    BY <1>0, <1>2 DEF Unearned, Drafts
  <1>3. CASE UNCHANGED <<status, earned>>
    BY <1>1, <1>3
  <1>4. ASSUME NEW row, NEW cell, Type(row, cell)
        PROVE  status' = status /\ earned \subseteq earned'
    BY <1>4 DEF Type, crm
  <1>5. CASE SaveDraft
    <2>1. status' = Append(status, "draft") /\ earned' = earned
      BY <1>5 DEF SaveDraft, history
    <2>2. "draft" \in Statuses
      BY DEF Statuses
    <2>3. /\ Len(status') = Len(status) + 1 /\ status'[Len(status) + 1] = "draft"
          /\ \A i \in 1 .. Len(status) : status'[i] = status[i]
          /\ Drafts' = 1 .. Len(status) + 1
      BY <1>0, <2>1, <2>2, AppendProperties, LenProperties DEF Drafts
    <2>4. \A d \in Drafts' : d \in Drafts \/ d = Len(status) + 1
      BY <1>0, <2>3
    <2>5. Unearned' \subseteq Unearned
      BY <1>0, <2>1, <2>3, <2>4 DEF Unearned
    <2> QED
      BY <2>1, <2>5
  <1>6. ASSUME NEW d \in Drafts, CabinetApprove(d) \/ Deliver(d)
        PROVE  Unearned' \subseteq Unearned /\ earned \subseteq earned'
    BY <1>2, <1>6 DEF CabinetApprove, Deliver, history
  <1>7. ASSUME NEW s \in Syncs, Apply(s)
        PROVE  Unearned' \subseteq Unearned \cup {cur[s].draft} /\ earned' = earned
    <2> DEFINE d == cur[s].draft
    <2>1. d \in Drafts /\ earned' = earned
      BY <1>7 DEF Apply, TypeInv, ThreadsOK, history
    <2>2. status' = status \/ status' = [status EXCEPT ![d] = "approved"]
      BY <1>7 DEF Apply
    <2> HIDE DEF d
    <2>3. Unearned' \subseteq Unearned \cup {d}
      BY <1>1, <1>2, <2>1, <2>2
    <2> QED
      BY <2>1, <2>3 DEF d
  <1>8. ASSUME NEW s \in Syncs, Begin(s) \/ (Step(s) /\ ~ Apply(s)) \/ WriteUnheard(s) \/ Fail(s)
        PROVE  UNCHANGED <<status, earned>>
    BY <1>8 DEF Begin, Step, Fail, ReadLeads, ReadOutreach, Look, TakeSnapshot, Write, WriteUnheard, Clear, crm, history
  <1>9. CASE UNCHANGED vars
    BY <1>3, <1>9 DEF vars, crm, history
  <1>10. ASSUME NEW cell, \/ TypeInLeads(cell) \/ \E i \in DOMAIN outreach : TypeInOutreach(i, cell)
                          \/ \E i \in DOMAIN outreach : EditMessage(i)
         PROVE  Unearned' \subseteq Unearned /\ earned \subseteq earned'
    BY <1>1, <1>4, <1>10 DEF TypeInLeads, TypeInOutreach, EditMessage, crm
  <1> QED
    <2>1. CASE \E s \in Syncs : Apply(s)
      <3>1. earned' = earned
        BY <1>7, <2>1
      <3> QED
        BY <1>7, <2>1, <3>1
    <2>2. CASE ~ \E s \in Syncs : Apply(s)
      <3>1. Unearned' \subseteq Unearned /\ earned \subseteq earned'
        BY <1>1, <1>5, <1>6, <1>8, <1>9, <1>10, <2>2, <1>3 DEF Next, SaveDraft
      <3> QED
        BY <2>2, <3>1
    <2> QED
      BY <2>1, <2>2

LEMMA ExactStep ==
  ASSUME TypeInv, ExactInv, [Next]_vars
  PROVE  ExactInv'
  <1> SUFFICES ASSUME NEW t \in Syncs, pc'[t] = "apply"
               PROVE  Action(t, cur[t].draft)'.exact
    BY DEF ExactInv
  <1>0. /\ pc \in [Syncs -> Labels] /\ DOMAIN cur = Syncs
    BY DEF TypeInv, ThreadsOK
  <1>1. CASE pc[t] = "apply" /\ read'[t] = read[t] /\ cur'[t] = cur[t]
    <2>1. Action(t, cur[t].draft).exact
      BY <1>1 DEF ExactInv
    <2> QED
      BY <1>1, <2>1 DEF Action, CopiesOf
  <1>2. ASSUME NEW d \in Drafts, Look(t, d)
        PROVE  Action(t, cur[t].draft)'.exact
    <2>1. CASE Action(t, d).exact
      <3>1. cur'[t].draft = d /\ read' = read
        BY <1>0, <1>2, <2>1 DEF Look
      <3> QED
        BY <2>1, <3>1 DEF Action, CopiesOf
    <2>2. CASE ~ Action(t, d).exact
      <3>1. pc'[t] = "act"
        BY <1>2, <2>2 DEF Look
      <3> QED
        BY <3>1
    <2> QED
      BY <2>1, <2>2
  <1>3. CASE Begin(t) \/ Step(t) \/ Fail(t)
    BY <1>0, <1>2, <1>3 DEF Begin, Step, Fail, ReadLeads, ReadOutreach, Apply, TakeSnapshot, Write, Clear, Goto, Idle
  <1> QED
    BY <1>1, <1>3, OwnSteps

\* An edited copy of a draft's message is never acted on, in whichever tab the YES
\* stands (the merge of _pull_actions): a sync at a draft has found all copies exact.
THEOREM ExactOnly == Spec => ExactCopiesOnly
  <1>1. Init => ExactInv
    BY DEF Init, ExactInv
  <1>2. TypeInv /\ ExactInv /\ [Next]_vars => ExactInv'
    BY ExactStep
  <1>3. ExactInv /\ [Next]_vars =>
          [\A s \in Syncs :
             pc[s] = "apply" /\ pc'[s] = "act" /\ crm' # crm =>
                 \A r \in CopiesOf(s, cur[s].draft) : r.exact]_vars
    BY DEF ExactInv, Action
  <1> QED
    BY <1>1, <1>2, <1>3, InitTyped, TypesKept, PTL DEF Spec, ExactCopiesOnly

\* What a sync writes never sends.
LEMMA SnapshotsClean ==
  ASSUME TypeInv, SnapClean, [Next]_vars
  PROVE  SnapClean'
  <1> DEFINE Good(n) == ~ n.leads.send /\ \A i \in DOMAIN n.outreach : ~ n.outreach[i].send
  <1>1. Good(NoSnapshot)
    BY DEF NoSnapshot, Blank, Row
  <1>2. Good(Snapshot)
    BY SnapshotTyped DEF TypeInv
  <1>3. ASSUME NEW t \in Syncs
        PROVE  snap'[t] \in {snap[t], NoSnapshot, Snapshot}
    <2>1. DOMAIN snap = Syncs
      BY DEF TypeInv, ThreadsOK
    <2>2. CASE Begin(t) \/ Step(t) \/ Fail(t)
      BY <2>1, <2>2 DEF Begin, Step, Fail, ReadLeads, ReadOutreach, Look, Apply, TakeSnapshot, Write, Clear, Idle
    <2> QED
      BY <2>2, OwnSteps
  <1>4. \A t \in Syncs : Good(snap[t])
    BY DEF SnapClean
  <1> HIDE DEF Good
  <1>5. \A t \in Syncs : Good(snap'[t])
    BY <1>1, <1>2, <1>3, <1>4
  <1> QED
    BY <1>5 DEF SnapClean, Good

\* Trouble is never forgotten; without it, one sync runs at a time and the others wait.
LEMMA OneRuns ==
  ASSUME TypeInv, OneSync, NEW s \in Syncs, pc[s] # "idle", Step(s) \/ WriteUnheard(s)
  PROVE  /\ OneSync'
         /\ \A t \in Syncs : t # s => pc[t] = "idle" /\ pc'[t] = "idle"
  <1>1. \A t \in Syncs : t # s => pc[t] = "idle"
    BY DEF OneSync
  <1>2. pc \in [Syncs -> Labels]
    BY DEF TypeInv, ThreadsOK
  <1>3. \A t \in Syncs : t # s => pc'[t] = pc[t]
    BY <1>2 DEF Step, ReadLeads, ReadOutreach, Look, Apply, TakeSnapshot, Write, WriteUnheard, Clear, Goto, Idle, threads
  <1> QED
    BY <1>1, <1>3 DEF OneSync

\* The steps of a sync that leave the sheet and the CRM alone.
LEMMA ReadCalm ==
  ASSUME TypeInv, Calm, NEW s \in Syncs, ReadLeads(s) \/ ReadOutreach(s), [Next]_vars
  PROVE  Calm'
  <1>0. /\ pc \in [Syncs -> Labels] /\ DOMAIN read = Syncs /\ pc[s] \in {"leads", "outreach"}
        /\ UNCHANGED <<status, queued, earned, leads, outreach, handled, cur, snap>>
        /\ Unearned' = Unearned
    BY DEF TypeInv, ThreadsOK, ReadLeads, ReadOutreach, crm, sheet, history, Unearned, Drafts
  <1>1. OneSync' /\ \A t \in Syncs : t # s => pc[t] = "idle" /\ pc'[t] = "idle"
    BY <1>0, OneRuns DEF Calm, Step
  <1>2. Clean({leads} \cup OutreachRows)
    BY <1>0, <1>1 DEF Calm, SheetClean
  <1>3. SheetClean'
    <2>1. OutreachRows' = OutreachRows
      BY <1>0 DEF OutreachRows
    <2> QED
      BY <1>0, <1>2, <2>1 DEF SheetClean, Clean
  <1>4. ASSUME NEW r \in read'[s], r.draft \notin handled[s], r.send
        PROVE  r.draft \notin Unearned
    <2>1. CASE ReadLeads(s)
      <3>1. read'[s] = Yes({leads})
        BY <1>0, <2>1 DEF ReadLeads
      <3> QED
        BY <1>2, <1>4, <3>1 DEF Yes, Clean
    <2>2. CASE ReadOutreach(s)
      <3>1. read'[s] = read[s] \cup Yes(OutreachRows) /\ pc[s] = "outreach"
        BY <1>0, <2>2 DEF ReadOutreach
      <3>2. CASE r \in read[s]
        BY <1>4, <3>1, <3>2 DEF Calm, ReadClean, Clean
      <3>3. CASE r \in OutreachRows
        BY <1>2, <1>4, <3>3 DEF Clean
      <3> QED
        BY <3>1, <3>2, <3>3 DEF Yes
    <2> QED
      BY <2>1, <2>2
  <1>5. ReadClean'
    BY <1>0, <1>1, <1>4 DEF ReadClean, Clean
  <1>6. ApplyClean' /\ SnapLong'
    <2>1. pc'[s] \in {"outreach", "act"}
      BY <1>0 DEF ReadLeads, ReadOutreach, Goto
    <2> QED
      BY <1>1, <2>1 DEF ApplyClean, SnapLong
  <1> QED
    BY <1>0, <1>1, <1>3, <1>5, <1>6 DEF Calm

LEMMA LookCalm ==
  ASSUME TypeInv, Calm, NEW s \in Syncs, NEW d \in Drafts, Look(s, d), [Next]_vars
  PROVE  Calm'
  <1>0. /\ pc \in [Syncs -> Labels] /\ DOMAIN handled = Syncs /\ DOMAIN cur = Syncs /\ pc[s] = "act"
        /\ UNCHANGED <<status, queued, earned, leads, outreach, read, snap>>
        /\ Unearned' = Unearned
        /\ handled'[s] = handled[s] \cup {d}
        /\ d \in ToDo(s) /\ d \in Drafts
    BY DEF TypeInv, ThreadsOK, Look, crm, sheet, history, Unearned, Drafts
  <1>1. OneSync' /\ \A t \in Syncs : t # s => pc[t] = "idle" /\ pc'[t] = "idle"
    BY <1>0, OneRuns DEF Calm, Step
  <1>2. pc'[s] \in {"act", "apply"} /\ (pc'[s] = "apply" => cur'[s] = [draft |-> d, before |-> status[d]])
    BY <1>0 DEF Look, Goto
  <1>3. SheetClean' /\ SnapLong'
    BY <1>1, <1>2 DEF SheetClean, SnapLong
  <1>4. ReadClean'
    BY <1>0, <1>1 DEF Calm, ReadClean, Clean
  <1>5. ASSUME pc'[s] = "apply", Sends(s)'
        PROVE  d \in earned
    <2>1. status[d] = "approved" /\ \E r \in read[s] : r.draft = d /\ r.send
      BY <1>0, <1>2, <1>5 DEF Sends, Action, CopiesOf
    <2>2. PICK r \in read[s] : r.draft = d /\ r.send
      BY <2>1
    <2>3. d \notin handled[s]
      BY <1>0 DEF ToDo
    <2>4. d \notin Unearned
      BY <1>0, <2>2, <2>3 DEF Calm, ReadClean, Clean
    <2> QED
      BY <1>0, <2>1, <2>4 DEF Unearned
  <1>6. ApplyClean'
    <2> SUFFICES ASSUME NEW t \in Syncs, pc'[t] = "apply"
                 PROVE  cur'[t].draft \in handled'[t] /\ (Sends(t)' => cur'[t].draft \in earned')
      BY DEF ApplyClean
    <2>1. t = s
      BY <1>1
    <2> QED
      BY <1>0, <1>2, <1>5, <2>1
  <1> QED
    BY <1>0, <1>1, <1>3, <1>4, <1>6 DEF Calm

\* A sync approves only drafts it is through with, and queues only earned ones.
LEMMA ApplyCalm ==
  ASSUME TypeInv, Calm, NEW s \in Syncs, Apply(s), [Next]_vars
  PROVE  Calm'
  <1>0. /\ pc \in [Syncs -> Labels] /\ pc[s] = "apply" /\ pc'[s] = "act"
        /\ UNCHANGED <<earned, leads, outreach, read, snap, handled>>
        /\ Unearned' \subseteq Unearned \cup {cur[s].draft}
        /\ cur[s].draft \in handled[s]
    BY UnearnedStep DEF TypeInv, ThreadsOK, Apply, Goto, sheet, history, Calm, ApplyClean
  <1>1. OneSync' /\ \A t \in Syncs : t # s => pc[t] = "idle" /\ pc'[t] = "idle"
    BY <1>0, OneRuns DEF Calm, Step
  <1>2. SheetClean' /\ SnapLong' /\ ApplyClean'
    BY <1>0, <1>1 DEF SheetClean, SnapLong, ApplyClean
  <1>3. ReadClean'
    <2> SUFFICES ASSUME NEW r \in read'[s], r.draft \notin handled'[s], r.send
                 PROVE  r.draft \notin Unearned'
      BY <1>1 DEF ReadClean, Clean
    <2>1. r.draft \notin Unearned
      BY <1>0 DEF Calm, ReadClean, Clean
    <2> QED
      BY <1>0, <2>1
  <1>4. queued' \subseteq earned'
    <2>1. queued' = queued \/ (Sends(s) /\ queued' = queued \cup {cur[s].draft})
      BY DEF Apply
    <2>2. Sends(s) => cur[s].draft \in earned
      BY <1>0 DEF Calm, ApplyClean
    <2> QED
      BY <1>0, <2>1, <2>2 DEF Calm
  <1> QED
    BY <1>1, <1>2, <1>3, <1>4 DEF Calm

LEMMA SnapshotCalm ==
  ASSUME TypeInv, Calm, NEW s \in Syncs, TakeSnapshot(s), [Next]_vars
  PROVE  Calm'
  <1>0. /\ pc \in [Syncs -> Labels] /\ DOMAIN snap = Syncs /\ pc[s] = "act" /\ pc'[s] = "write"
        /\ UNCHANGED <<status, queued, earned, leads, outreach>> /\ snap'[s] = Snapshot
    BY DEF TypeInv, ThreadsOK, TakeSnapshot, Goto, crm, sheet, history
  <1>1. OneSync' /\ \A t \in Syncs : t # s => pc[t] = "idle" /\ pc'[t] = "idle"
    BY <1>0, OneRuns DEF Calm, Step
  <1>2. Len(outreach) <= Len(Snapshot.outreach)
    BY SnapshotTyped DEF TypeInv, SheetOK
  <1>3. SheetClean' /\ ReadClean' /\ ApplyClean' /\ SnapLong'
    BY <1>0, <1>1, <1>2 DEF SheetClean, ReadClean, ApplyClean, SnapLong
  <1> QED
    BY <1>0, <1>1, <1>3 DEF Calm

\* The snapshot is as long as the sheet, so what is written is all that stays.
LEMMA Overwritten ==
  ASSUME TypeInv, Calm, SnapClean, NEW s \in Syncs, Overwrite(s)
  PROVE  /\ outreach' = snap[s].outreach /\ leads' = snap[s].leads
         /\ \A r \in {leads'} \cup {outreach'[i] : i \in DOMAIN outreach'} : ~ r.send
  <1> DEFINE new == snap[s].outreach
  <1>1. new \in Seq(Known) /\ Len(new) \in Nat /\ Len(outreach) \in Nat /\ Len(outreach) <= Len(new)
    BY LenProperties DEF TypeInv, ThreadsOK, SheetOK, Overwrite, Calm, SnapLong
  <1>2. outreach' = new \o SubSeq(outreach, Len(new) + 1, Len(outreach)) /\ leads' = snap[s].leads
    BY DEF Overwrite
  <1> HIDE DEF new
  <1>3. SubSeq(outreach, Len(new) + 1, Len(outreach)) = <<>>
    BY <1>1, SubSeqEmpty
  <1>4. outreach' = new
    BY <1>1, <1>2, <1>3, ConcatEmptySeq
  <1>5. ~ leads'.send /\ \A i \in DOMAIN outreach' : ~ outreach'[i].send
    BY <1>2, <1>4 DEF new, SnapClean
  <1> QED
    BY <1>2, <1>4, <1>5 DEF new

LEMMA WriteCalm ==
  ASSUME TypeInv, Calm, SnapClean, NEW s \in Syncs, Write(s) \/ WriteUnheard(s), [Next]_vars
  PROVE  Calm'
  <1>0. /\ pc \in [Syncs -> Labels] /\ Overwrite(s) /\ pc[s] = "write" /\ pc'[s] \in {"write", "clear"}
        /\ UNCHANGED <<queued, earned, snap>>
    BY DEF TypeInv, ThreadsOK, Write, WriteUnheard, Overwrite, Goto, crm, threads, history
  <1>1. OneSync' /\ \A t \in Syncs : t # s => pc[t] = "idle" /\ pc'[t] = "idle"
    BY <1>0, OneRuns DEF Calm, Step
  <1>2. /\ outreach' = snap[s].outreach
        /\ \A r \in ({leads} \cup OutreachRows)' : ~ r.send
    BY <1>0, Overwritten DEF OutreachRows
  <1>3. Len(outreach') <= Len(snap'[s].outreach)
    <2>1. snap[s].outreach \in Seq(Known)
      BY DEF TypeInv, ThreadsOK
    <2> QED
      BY <1>0, <1>2, <2>1, LenProperties
  <1>4. SheetClean' /\ ReadClean' /\ ApplyClean' /\ SnapLong'
    BY <1>0, <1>1, <1>2, <1>3 DEF SheetClean, Clean, ReadClean, ApplyClean, SnapLong
  <1> QED
    BY <1>0, <1>1, <1>4 DEF Calm

LEMMA ClearCalm ==
  ASSUME TypeInv, Calm, NEW s \in Syncs, Clear(s), [Next]_vars
  PROVE  Calm'
  <1>0. /\ pc \in [Syncs -> Labels] /\ pc[s] = "clear" /\ pc'[s] = "idle"
        /\ UNCHANGED <<status, queued, earned, leads>> /\ Unearned' = Unearned
    BY DEF TypeInv, ThreadsOK, Clear, Idle, crm, history, Unearned, Drafts
  <1>1. OneSync' /\ \A t \in Syncs : t # s => pc[t] = "idle" /\ pc'[t] = "idle"
    BY <1>0, OneRuns DEF Calm, Step
  <1>2. Clean({leads} \cup OutreachRows)
    BY <1>0, <1>1 DEF Calm, SheetClean
  <1>3. OutreachRows' \subseteq OutreachRows
    <2> DEFINE kept == {Len(snap[s].outreach), Len(outreach)}
               m == CHOOSE n \in kept : \A k \in kept : n <= k
    <2>1. Len(snap[s].outreach) \in Nat /\ outreach \in Seq(Known) /\ Len(outreach) \in Nat
          /\ DOMAIN outreach = 1 .. Len(outreach)
      BY LenProperties DEF TypeInv, ThreadsOK, SheetOK
    <2>2. \E n \in kept : \A k \in kept : n <= k
      BY <2>1
    <2>3. m \in Nat /\ m <= Len(outreach)
      <3>1. m \in kept /\ \A k \in kept : m <= k
        BY <2>2
      <3> QED
        BY <2>1, <3>1
    <2>4. outreach' = SubSeq(outreach, 1, m)
      BY DEF Clear
    <2> HIDE DEF m
    <2>5. \A i \in 1 .. Len(outreach) : outreach[i] \in Known
      BY <2>1, ElementOfSeq
    <2>6. /\ SubSeq(outreach, 1, m) \in Seq(Known)
          /\ Len(SubSeq(outreach, 1, m)) = m
          /\ \A i \in 1 .. m : SubSeq(outreach, 1, m)[i] = outreach[i]
      BY <2>1, <2>3, <2>5, SubSeqProperties
    <2>7. DOMAIN outreach' = 1 .. m /\ \A i \in 1 .. m : outreach'[i] = outreach[i] /\ i \in DOMAIN outreach
      BY <2>1, <2>3, <2>4, <2>6, LenProperties
    <2> QED
      BY <2>7 DEF OutreachRows
  <1>4. SheetClean' /\ ReadClean' /\ ApplyClean' /\ SnapLong'
    BY <1>0, <1>1, <1>2, <1>3 DEF SheetClean, Clean, ReadClean, ApplyClean, SnapLong
  <1> QED
    BY <1>0, <1>1, <1>4 DEF Calm

LEMMA BeginCalm ==
  ASSUME TypeInv, Calm, NEW s \in Syncs, Begin(s), ~ troubled'
  PROVE  Calm'
  <1>0. /\ pc \in [Syncs -> Labels] /\ pc' = [pc EXCEPT ![s] = "leads"]
        /\ UNCHANGED <<status, queued, earned, leads, outreach>> /\ Unearned' = Unearned
    BY DEF TypeInv, ThreadsOK, Begin, Goto, crm, sheet, Unearned, Drafts
  <1>1. \A t \in Syncs : pc[t] = "idle"
    BY DEF Begin
  <1>2. OneSync'
    BY <1>0, <1>1 DEF OneSync
  <1>3. SheetClean'
    BY <1>0, <1>1 DEF Calm, SheetClean, Clean, OutreachRows
  <1>4. ReadClean' /\ ApplyClean' /\ SnapLong'
    BY <1>0, <1>1 DEF ReadClean, ApplyClean, SnapLong
  <1> QED
    BY <1>0, <1>2, <1>3, <1>4 DEF Calm

\* A SEND typed on an approved draft earns it; on another it may, once the draft is approved.
LEMMA TypedClean ==
  ASSUME TypeInv, [Next]_vars, NEW row \in Known, NEW cell \in {"approve", "send"}, Type(row, cell),
         Unearned' \subseteq Unearned, row.send => row.draft \notin Unearned,
         NEW new, new = [row EXCEPT ![cell] = TRUE]
  PROVE  new.send => new.draft \notin Unearned'
  <1>1. CASE cell = "approve"
    <2>1. new.send = row.send /\ new.draft = row.draft
      BY <1>1 DEF Known
    <2> QED
      BY <2>1
  <1>2. CASE cell = "send"
    <2>1. new.draft = row.draft
      BY <1>2 DEF Known
    <2>2. status' = status
      BY DEF Type, crm
    <2>3. status[row.draft] = "approved" => row.draft \in earned'
      BY <1>2 DEF Type
    <2> QED
      BY <2>1, <2>2, <2>3 DEF Unearned
  <1> QED
    BY <1>1, <1>2

LEMMA OutsideCalm ==
  ASSUME TypeInv, Calm, [Next]_vars,
         \/ \E cell \in {"approve", "send"} :
              TypeInLeads(cell) \/ \E i \in DOMAIN outreach : TypeInOutreach(i, cell)
         \/ \E i \in DOMAIN outreach : EditMessage(i)
         \/ SaveDraft
         \/ \E d \in Drafts : CabinetApprove(d) \/ Deliver(d)
         \/ UNCHANGED vars
  PROVE  Calm'
  <1>0. /\ leads \in Known /\ outreach \in Seq(Known) /\ DOMAIN outreach = 1 .. Len(outreach)
        /\ \A i \in DOMAIN outreach : outreach[i] \in Known
    <2>1. leads \in Known /\ outreach \in Seq(Known) /\ DOMAIN outreach = 1 .. Len(outreach)
      BY LenProperties DEF TypeInv, SheetOK
    <2> QED
      BY <2>1, ElementOfSeq
  <1>1. UNCHANGED <<queued, pc, read, handled, cur, snap>>
    BY DEF TypeInLeads, TypeInOutreach, Type, EditMessage, SaveDraft, CabinetApprove, Deliver, crm, threads, vars
  <1>2. earned \subseteq earned' /\ Unearned' \subseteq Unearned
    <2>1. \A s \in Syncs : ~ Apply(s)
      <3>1. SUFFICES ASSUME NEW s \in Syncs, Apply(s)
                     PROVE  FALSE
        OBVIOUS
      <3>2. pc[s] = "apply" /\ pc' = [pc EXCEPT ![s] = "act"] /\ pc \in [Syncs -> Labels]
        BY <3>1 DEF Apply, Goto, TypeInv, ThreadsOK
      <3> QED
        BY <1>1, <3>2
    <2> QED
      BY <2>1, UnearnedStep
  <1>3. queued' \subseteq earned' /\ OneSync' /\ ReadClean'
    BY <1>1, <1>2 DEF Calm, OneSync, ReadClean, Clean
  <1>4. ApplyClean'
    <2>1. \A s \in Syncs : pc[s] = "apply" /\ Sends(s)' => Sends(s)
      BY <1>1 DEF Sends, Action, CopiesOf
    <2> QED
      BY <1>1, <1>2, <2>1 DEF Calm, ApplyClean
  <1>5. Len(outreach') = Len(outreach) /\ (Clean({leads} \cup OutreachRows) => Clean({leads} \cup OutreachRows)')
    <2>1. CASE UNCHANGED sheet
      BY <1>2, <2>1 DEF sheet, OutreachRows, Clean
    <2>2. ASSUME NEW cell \in {"approve", "send"}, TypeInLeads(cell)
          PROVE  Len(outreach') = Len(outreach)
                 /\ (Clean({leads} \cup OutreachRows) => Clean({leads} \cup OutreachRows)')
      <3>1. outreach' = outreach /\ leads' = [leads EXCEPT ![cell] = TRUE] /\ Type(leads, cell)
        BY <2>2 DEF TypeInLeads
      <3>2. (leads.send => leads.draft \notin Unearned) => (leads'.send => leads'.draft \notin Unearned')
        BY <1>0, <1>2, <3>1, TypedClean
      <3> QED
        BY <1>2, <3>1, <3>2 DEF OutreachRows, Clean
    <2>3. ASSUME NEW i \in DOMAIN outreach, NEW new, outreach' = [outreach EXCEPT ![i] = new], leads' = leads, new \in Known,
                 (outreach[i].send => outreach[i].draft \notin Unearned) => (new.send => new.draft \notin Unearned')
          PROVE  Len(outreach') = Len(outreach)
                 /\ (Clean({leads} \cup OutreachRows) => Clean({leads} \cup OutreachRows)')
      <3>1. /\ Len(outreach') = Len(outreach) /\ DOMAIN outreach' = DOMAIN outreach
            /\ \A j \in DOMAIN outreach : outreach'[j] = IF j = i THEN new ELSE outreach[j]
        BY <1>0, <2>3, ExceptSeq
      <3>2. OutreachRows' \subseteq OutreachRows \cup {new}
        BY <3>1 DEF OutreachRows
      <3>3. outreach[i] \in OutreachRows
        BY DEF OutreachRows
      <3> QED
        BY <1>2, <2>3, <3>1, <3>2, <3>3 DEF Clean
    <2>4. ASSUME NEW cell \in {"approve", "send"}, NEW i \in DOMAIN outreach, TypeInOutreach(i, cell)
          PROVE  Len(outreach') = Len(outreach)
                 /\ (Clean({leads} \cup OutreachRows) => Clean({leads} \cup OutreachRows)')
      <3> DEFINE row == outreach[i]
                 new == [row EXCEPT ![cell] = TRUE]
      <3>1. row \in Known /\ new \in Known
        BY <1>0 DEF Known
      <3>2. outreach' = [outreach EXCEPT ![i] = new] /\ leads' = leads /\ Type(row, cell)
        BY <2>4 DEF TypeInOutreach
      <3>3. (row.send => row.draft \notin Unearned) => (new.send => new.draft \notin Unearned')
        BY <1>2, <3>1, <3>2, TypedClean
      <3> HIDE DEF new
      <3> QED
        BY <2>3, <3>1, <3>2, <3>3
    <2>5. ASSUME NEW i \in DOMAIN outreach, EditMessage(i)
          PROVE  Len(outreach') = Len(outreach)
                 /\ (Clean({leads} \cup OutreachRows) => Clean({leads} \cup OutreachRows)')
      <3> DEFINE row == outreach[i]
                 new == [row EXCEPT !.exact = FALSE]
      <3>1. new \in Known /\ new.send = row.send /\ new.draft = row.draft
        BY <1>0 DEF Known
      <3>2. outreach' = [outreach EXCEPT ![i] = new] /\ leads' = leads
        BY <2>5 DEF EditMessage
      <3>3. (row.send => row.draft \notin Unearned) => (new.send => new.draft \notin Unearned')
        BY <1>2, <3>1
      <3> HIDE DEF new
      <3> QED
        BY <2>3, <3>1, <3>2, <3>3
    <2> QED
      BY <2>1, <2>2, <2>4, <2>5 DEF SaveDraft, CabinetApprove, Deliver, vars
  <1>6. SheetClean' /\ SnapLong'
    BY <1>1, <1>5 DEF Calm, SheetClean, SnapLong
  <1> QED
    BY <1>3, <1>4, <1>6 DEF Calm

LEMMA EditsStep ==
  ASSUME TypeInv, EditsInv, [Next]_vars
  PROVE  EditsInv'
  <1>1. SnapClean /\ SnapClean'
    BY SnapshotsClean DEF EditsInv
  <1>2. SUFFICES ASSUME ~ troubled'
                 PROVE  Calm'
    BY <1>1 DEF EditsInv
  <1>3. ~ troubled
    BY <1>2 DEF Next, Type, TypeInLeads, TypeInOutreach, EditMessage, CabinetApprove, SaveDraft, Deliver, Begin, Step,
           ReadLeads, ReadOutreach, Look, Apply, TakeSnapshot, Write, WriteUnheard, Clear, Fail, vars, history
  <1>4. Calm
    BY <1>3 DEF EditsInv
  <1>5. ASSUME NEW s \in Syncs, Step(s) \/ WriteUnheard(s)
        PROVE  Calm'
    BY <1>1, <1>4, <1>5, ReadCalm, LookCalm, ApplyCalm, SnapshotCalm, WriteCalm, ClearCalm DEF Step
  <1>6. ASSUME NEW s \in Syncs, Begin(s)
        PROVE  Calm'
    BY <1>2, <1>4, <1>6, BeginCalm
  <1>7. ASSUME NEW s \in Syncs, Fail(s)
        PROVE  FALSE
    BY <1>2, <1>7 DEF Fail
  <1> QED
    BY <1>4, <1>5, <1>6, <1>7, OutsideCalm DEF Next

\* One edit does not both approve a draft and send it: unless syncs overlap or break
\* off, a draft is queued through the panel only if SEND was typed after the approval
\* or the cabinet approved it (_pull_actions, _snapshot).
THEOREM TwoEdits == Spec => []ApproveAndSendAreTwoEdits
  <1>1. Init => EditsInv
    BY DEF Init, EditsInv, SnapClean, NoSnapshot, Blank, Row, Calm, OneSync, SheetClean, ReadClean, ApplyClean,
           SnapLong, Clean, Unearned, Drafts
  <1>2. TypeInv /\ EditsInv /\ [Next]_vars => EditsInv'
    BY EditsStep
  <1>3. EditsInv => ApproveAndSendAreTwoEdits
    BY DEF EditsInv, Calm, ApproveAndSendAreTwoEdits
  <1> QED
    BY <1>1, <1>2, <1>3, InitTyped, TypesKept, PTL DEF Spec

===============================================================================
