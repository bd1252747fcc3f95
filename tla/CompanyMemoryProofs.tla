-------------------------- MODULE CompanyMemoryProofs --------------------------
(***************************************************************************)
(* What TLAPS proves of CompanyMemory, for any fields, items, answers,     *)
(* callers and bounds: its types, that a company counts as ready only with *)
(* exactly what was shown and confirmed, what a confirmation hands to the  *)
(* agent, and that reviews and confirmations are as good as atomic.        *)
(***************************************************************************)
EXTENDS CompanyMemory, FiniteSetTheorems, TLAPS

Items0 == Items \cup {None}
Read == [revision : Nat, profile : Profiles, answers : AnswerSheets,
         categories : SUBSET Categories, facts : Bags]
Writing == [item : Items0, fact : Facts \cup {None},
            question : Questions \cup {None}, answer : Answers \cup {None}]

\* The type invariant in parts: what is stored, and what callers hold.
StoreTyped ==
    /\ profile \in Profiles
    /\ status \in {"not_started", "in_progress", "ready"}
    /\ revision \in Nat
    /\ confirmed \in Summaries \cup {None}
    /\ knowledge \in [Items -> [state : {"absent", "active", "archived"},
                                fact : Facts \cup {None}, at : Nat]]
    /\ answers \in AnswerSheets
    /\ settings \in [CopiedFields -> Values \cup {None}]
    /\ shown \subseteq Summaries
CallsTyped ==
    /\ step \in [Callers -> Steps]
    /\ read \in [Callers -> Read]
    /\ given \in [Callers -> Summaries \cup {None}]
    /\ writing \in [Callers -> Writing]

\* What is active says something, and so does what is about to be written.
FactsKnown ==
    /\ \A i \in Active : knowledge[i].fact \in Facts
    /\ \A c \in Callers : step[c] = "save" => writing[c].fact \in Facts

LEMMA TypeParts == TypeOK <=> StoreTyped /\ CallsTyped
  BY DEF TypeOK, StoreTyped, CallsTyped, Read, Writing, Items0

LEMMA TypePartsNext == TypeOK' <=> StoreTyped' /\ CallsTyped'
  BY TypeParts, PTL

-------------------------------------------------------------------------------
\* What is listed, and what becomes of what was read

LEMMA ListedTyped == ListedFacts \in Bags
  <1>1. ASSUME NEW f \in Facts
        PROVE  Cardinality({i \in Listed : knowledge[i].fact = f}) \in Nat
    <2>1. {i \in Listed : knowledge[i].fact = f} \subseteq Items
      BY DEF Listed, Active
    <2> QED
      BY <2>1, MemoryAssumption, FS_Subset, FS_CardinalityType
  <1> QED
    BY <1>1 DEF ListedFacts, Bags

LEMMA NothingTyped == NothingRead \in Read /\ NothingToWrite \in Writing
  <1>1. NoProfile \in Profiles /\ NoAnswers \in AnswerSheets /\ NoBag \in Bags
    BY DEF NoProfile, NoAnswers, NoBag, Profiles, AnswerSheets, Bags
  <1> QED
    BY <1>1 DEF NothingRead, Read, NothingToWrite, Writing, Items0

LEMMA SummaryTyped ==
  ASSUME NEW r \in Read
  PROVE  SummaryOf(r) \in Summaries
  BY DEF SummaryOf, Summaries, Read

LEMMA SeenTyped ==
  ASSUME NEW r \in Read
  PROVE  [r EXCEPT !.facts = ListedFacts] \in Read
  BY ListedTyped DEF Read

LEMMA FilledTyped ==
  ASSUME settings \in [CopiedFields -> Values \cup {None}], NEW p \in Profiles
  PROVE  Filled(p) \in [CopiedFields -> Values \cup {None}]
  BY MemoryAssumption DEF Filled, Profiles

-------------------------------------------------------------------------------
\* Types

LEMMA InitTyped == Init => TypeOK
  <1> SUFFICES ASSUME Init
               PROVE  StoreTyped /\ CallsTyped
    BY TypeParts
  <1>1. NoProfile \in Profiles /\ NoAnswers \in AnswerSheets
    BY DEF NoProfile, NoAnswers, Profiles, AnswerSheets
  <1>2. StoreTyped
    BY <1>1 DEF Init, StoreTyped
  <1>3. CallsTyped
    BY NothingTyped DEF Init, CallsTyped, Steps
  <1> QED
    BY <1>2, <1>3

LEMMA TouchTyped ==
  ASSUME StoreTyped, Touch
  PROVE  /\ revision' \in Nat
         /\ status' \in {"not_started", "in_progress", "ready"}
         /\ confirmed' \in Summaries \cup {None}
  BY DEF Touch, StoreTyped

LEMMA WritesTyped ==
  ASSUME TypeOK, NEW c \in Callers,
         \/ \E p \in Profiles : UpdateProfile(c, p)
         \/ \E i \in Items0, f \in Facts : SaveLook(c, i, f)
         \/ \E i \in Items : SaveWrite(c, i) \/ Archive(c, i)
         \/ \E q \in Questions, a \in Answers : AnswerLook(c, q, a)
         \/ AnswerWrite(c)
  PROVE  TypeOK'
  <1> SUFFICES StoreTyped' /\ CallsTyped'
    BY TypePartsNext
  <1>0. StoreTyped /\ CallsTyped
    BY TypeParts
  <1>1. ASSUME NEW p \in Profiles, UpdateProfile(c, p)
        PROVE  StoreTyped' /\ CallsTyped'
    <2>1. StoreTyped'
      BY <1>0, <1>1, TouchTyped DEF UpdateProfile, StoreTyped
    <2>2. CallsTyped'
      BY <1>0, <1>1 DEF UpdateProfile, CallsTyped, calls
    <2> QED
      BY <2>1, <2>2
  <1>2. ASSUME NEW i \in Items0, NEW f \in Facts, SaveLook(c, i, f)
        PROVE  StoreTyped' /\ CallsTyped'
    <2>1. StoreTyped'
      BY <1>0, <1>2 DEF SaveLook, StoreTyped, memory
    <2>2. [NothingToWrite EXCEPT !.item = i, !.fact = f] \in Writing
      BY NothingTyped DEF Writing
    <2>3. CallsTyped'
      BY <1>0, <1>2, <2>2 DEF SaveLook, CallsTyped, Steps
    <2> QED
      BY <2>1, <2>3
  <1>3. ASSUME NEW i \in Items, SaveWrite(c, i)
        PROVE  StoreTyped' /\ CallsTyped'
    <2>1. writing[c].fact \in Facts \cup {None}
      BY <1>0 DEF CallsTyped, Writing
    <2>2. StoreTyped'
      BY <1>0, <1>3, <2>1, TouchTyped DEF SaveWrite, StoreTyped
    <2>3. CallsTyped'
      BY <1>0, <1>3, NothingTyped DEF SaveWrite, CallsTyped, Steps
    <2> QED
      BY <2>2, <2>3
  <1>4. ASSUME NEW i \in Items, Archive(c, i)
        PROVE  StoreTyped' /\ CallsTyped'
    <2>1. StoreTyped'
      BY <1>0, <1>4, TouchTyped DEF Archive, StoreTyped
    <2>2. CallsTyped'
      BY <1>0, <1>4 DEF Archive, CallsTyped, calls
    <2> QED
      BY <2>1, <2>2
  <1>5. ASSUME NEW q \in Questions, NEW a \in Answers, AnswerLook(c, q, a)
        PROVE  StoreTyped' /\ CallsTyped'
    <2>1. StoreTyped'
      BY <1>0, <1>5 DEF AnswerLook, StoreTyped, memory
    <2>2. [NothingToWrite EXCEPT !.question = q, !.answer = a] \in Writing
      BY NothingTyped DEF Writing
    <2>3. CallsTyped'
      BY <1>0, <1>5, <2>2 DEF AnswerLook, CallsTyped, Steps
    <2> QED
      BY <2>1, <2>3
  <1>6. ASSUME AnswerWrite(c)
        PROVE  StoreTyped' /\ CallsTyped'
    <2>1. writing[c].answer \in Answers \cup {None}
      BY <1>0 DEF CallsTyped, Writing
    <2>2. answers' \in AnswerSheets
      BY <1>0, <1>6, <2>1 DEF AnswerWrite, StoreTyped, AnswerSheets
    <2>3. StoreTyped'
      BY <1>0, <1>6, <2>2, TouchTyped DEF AnswerWrite, StoreTyped
    <2>4. CallsTyped'
      BY <1>0, <1>6, NothingTyped DEF AnswerWrite, CallsTyped, Steps
    <2> QED
      BY <2>3, <2>4
  <1> QED
    BY <1>1, <1>2, <1>3, <1>4, <1>5, <1>6

LEMMA ReadsTyped ==
  ASSUME TypeOK, FactsKnown, NEW c \in Callers,
         \/ \E g \in shown \cup {None} : ReadProfile(c, g)
         \/ ReadAnswers(c) \/ ReadCounts(c) \/ ShowState(c) \/ CheckState(c)
  PROVE  TypeOK'
  <1> SUFFICES StoreTyped' /\ CallsTyped'
    BY TypePartsNext
  <1>0. StoreTyped /\ CallsTyped
    BY TypeParts
  <1>r. read[c] \in Read
    BY <1>0 DEF CallsTyped
  <1>1. ASSUME NEW g \in shown \cup {None}, ReadProfile(c, g)
        PROVE  StoreTyped' /\ CallsTyped'
    <2>1. StoreTyped'
      BY <1>0, <1>1 DEF ReadProfile, StoreTyped, memory
    <2>2. [NothingRead EXCEPT !.revision = revision, !.profile = profile] \in Read
      BY <1>0, NothingTyped DEF Read, StoreTyped
    <2>3. g \in Summaries \cup {None}
      BY <1>0 DEF StoreTyped
    <2>4. CallsTyped'
      BY <1>0, <1>1, <2>2, <2>3 DEF ReadProfile, CallsTyped, Steps
    <2> QED
      BY <2>1, <2>4
  <1>2. ASSUME ReadAnswers(c)
        PROVE  StoreTyped' /\ CallsTyped'
    <2>1. StoreTyped'
      BY <1>0, <1>2 DEF ReadAnswers, StoreTyped, memory
    <2>2. [read[c] EXCEPT !.answers = answers] \in Read
      BY <1>0, <1>r DEF Read, StoreTyped
    <2>3. read' = [read EXCEPT ![c] = [read[c] EXCEPT !.answers = answers]]
      BY <1>2 DEF ReadAnswers
    <2>4. CallsTyped'
      BY <1>0, <1>2, <2>2, <2>3 DEF ReadAnswers, CallsTyped, Steps
    <2> QED
      BY <2>1, <2>4
  <1>3. ASSUME ReadCounts(c)
        PROVE  StoreTyped' /\ CallsTyped'
    <2>1. StoreTyped'
      BY <1>0, <1>3 DEF ReadCounts, StoreTyped, memory
    <2>2. ActiveCategories \subseteq Categories
      BY DEF ActiveCategories, FactsKnown, Facts
    <2>3. [read[c] EXCEPT !.categories = ActiveCategories] \in Read
      BY <2>2, <1>r DEF Read
    <2>4. read' = [read EXCEPT ![c] = [read[c] EXCEPT !.categories = ActiveCategories]]
      BY <1>3 DEF ReadCounts
    <2>5. CallsTyped'
      BY <1>0, <1>3, <2>3, <2>4 DEF ReadCounts, CallsTyped, Steps
    <2> QED
      BY <2>1, <2>5
  <1>4. ASSUME ShowState(c)
        PROVE  StoreTyped' /\ CallsTyped'
    <2>1. SummaryOf([read[c] EXCEPT !.facts = ListedFacts]) \in Summaries
      BY <1>r, SeenTyped, SummaryTyped
    <2>2. StoreTyped'
      BY <1>0, <1>4, <2>1 DEF ShowState, StoreTyped, memory
    <2>3. CallsTyped'
      BY <1>0, <1>4, NothingTyped DEF ShowState, Return, CallsTyped, Steps
    <2> QED
      BY <2>2, <2>3
  <1>5. ASSUME CheckState(c)
        PROVE  StoreTyped' /\ CallsTyped'
    <2>1. StoreTyped'
      BY <1>0, <1>5 DEF CheckState, StoreTyped, memory
    <2>2. [read[c] EXCEPT !.facts = ListedFacts] \in Read
      BY <1>r, SeenTyped
    <2>3. CallsTyped'
      BY <1>0, <1>5, <2>2, NothingTyped DEF CheckState, Return, CallsTyped, Steps
    <2> QED
      BY <2>1, <2>3
  <1> QED
    BY <1>1, <1>2, <1>3, <1>4, <1>5

LEMMA ConfirmTyped ==
  ASSUME TypeOK, NEW c \in Callers, ConfirmWrite(c)
  PROVE  TypeOK'
  <1> SUFFICES StoreTyped' /\ CallsTyped'
    BY TypePartsNext
  <1>0. StoreTyped /\ CallsTyped
    BY TypeParts
  <1>r. read[c] \in Read /\ read[c].profile \in Profiles
    BY <1>0 DEF CallsTyped, Read
  <1>1. CallsTyped'
    BY <1>0, NothingTyped DEF ConfirmWrite, Return, CallsTyped, Steps
  <1>2. SummaryOf(read[c]) \in Summaries
    BY <1>r, SummaryTyped
  <1>3. Filled(read[c].profile) \in [CopiedFields -> Values \cup {None}]
    BY <1>0, <1>r, FilledTyped DEF StoreTyped
  <1>4. StoreTyped'
    BY <1>0, <1>2, <1>3 DEF ConfirmWrite, StoreTyped
  <1> QED
    BY <1>1, <1>4

LEMMA SettingsTyped ==
  ASSUME TypeOK, NEW c \in Callers,
         NEW chosen \in [CopiedFields -> Values \cup {None}], UpdateSettings(c, chosen)
  PROVE  TypeOK'
  <1> SUFFICES StoreTyped' /\ CallsTyped'
    BY TypePartsNext
  <1>0. StoreTyped /\ CallsTyped
    BY TypeParts
  <1>1. StoreTyped'
    BY <1>0 DEF UpdateSettings, StoreTyped, memory
  <1>2. CallsTyped'
    BY <1>0 DEF UpdateSettings, CallsTyped, calls
  <1> QED
    BY <1>1, <1>2

LEMMA StepFacts ==
  ASSUME TypeOK, FactsKnown, [Next]_vars
  PROVE  FactsKnown'
  <1>0. StoreTyped /\ CallsTyped
    BY TypeParts
  <1>1. CASE UNCHANGED vars
    BY <1>1 DEF vars, memory, calls, FactsKnown, Active
  <1>2. ASSUME NEW c \in Callers, NEW p \in Profiles, UpdateProfile(c, p)
        PROVE  FactsKnown'
    BY <1>2 DEF UpdateProfile, FactsKnown, Active, calls
  <1>3. ASSUME NEW c \in Callers, NEW i \in Items \cup {None}, NEW f \in Facts, SaveLook(c, i, f)
        PROVE  FactsKnown'
    <2>1. writing'[c].fact = f /\ \A d \in Callers \ {c} : writing'[d] = writing[d] /\ step'[d] = step[d]
      BY <1>0, <1>3, NothingTyped DEF SaveLook, CallsTyped, Writing
    <2> QED
      BY <1>3, <2>1 DEF SaveLook, FactsKnown, Active, memory
  <1>4. ASSUME NEW c \in Callers, NEW i \in Items, SaveWrite(c, i)
        PROVE  FactsKnown'
    <2>1. writing[c].fact \in Facts
      BY <1>4 DEF SaveWrite, FactsKnown
    <2>2. \A j \in Items : knowledge'[j] = IF j = i THEN [state |-> "active", fact |-> writing[c].fact, at |-> revision + 1]
                                           ELSE knowledge[j]
      BY <1>0, <1>4 DEF SaveWrite, StoreTyped
    <2>3. \A d \in Callers : step'[d] = "save" => step[d] = "save" /\ writing'[d] = writing[d]
      BY <1>0, <1>4 DEF SaveWrite, CallsTyped
    <2> QED
      BY <2>1, <2>2, <2>3 DEF FactsKnown, Active
  <1>5. ASSUME NEW c \in Callers, NEW i \in Items, Archive(c, i)
        PROVE  FactsKnown'
    <2>1. \A j \in Items : knowledge'[j].fact = knowledge[j].fact
                           /\ (knowledge'[j].state = "active" => knowledge[j].state = "active")
      BY <1>0, <1>5 DEF Archive, StoreTyped
    <2> QED
      BY <1>5, <2>1 DEF Archive, FactsKnown, Active, calls
  <1>6. ASSUME NEW c \in Callers, NEW q \in Questions, NEW a \in Answers, AnswerLook(c, q, a)
        PROVE  FactsKnown'
    <2>1. \A d \in Callers : step'[d] = "save" => step[d] = "save" /\ writing'[d] = writing[d]
      BY <1>0, <1>6 DEF AnswerLook, CallsTyped
    <2> QED
      BY <1>6, <2>1 DEF AnswerLook, FactsKnown, Active, memory
  <1>7. ASSUME NEW c \in Callers, AnswerWrite(c)
        PROVE  FactsKnown'
    <2>1. \A d \in Callers : step'[d] = "save" => step[d] = "save" /\ writing'[d] = writing[d]
      BY <1>0, <1>7 DEF AnswerWrite, CallsTyped
    <2> QED
      BY <1>7, <2>1 DEF AnswerWrite, FactsKnown, Active
  <1>8. ASSUME NEW c \in Callers,
               \/ \E g \in shown \cup {None} : ReadProfile(c, g)
               \/ ReadAnswers(c) \/ ReadCounts(c) \/ ShowState(c) \/ CheckState(c)
               \/ ConfirmWrite(c)
        PROVE  FactsKnown'
    <2>1. knowledge' = knowledge /\ writing' = writing
      BY <1>8 DEF ReadProfile, ReadAnswers, ReadCounts, ShowState, CheckState, ConfirmWrite, memory
    <2>2. \A d \in Callers : step'[d] = "save" => step[d] = "save"
      BY <1>0, <1>8 DEF ReadProfile, ReadAnswers, ReadCounts, ShowState, CheckState, ConfirmWrite,
                        Return, CallsTyped
    <2> QED
      BY <2>1, <2>2 DEF FactsKnown, Active
  <1>9. ASSUME NEW c \in Callers, NEW chosen \in [CopiedFields -> Values \cup {None}],
               UpdateSettings(c, chosen)
        PROVE  FactsKnown'
    BY <1>9 DEF UpdateSettings, FactsKnown, Active, memory, calls
  <1> QED
    BY <1>1, <1>2, <1>3, <1>4, <1>5, <1>6, <1>7, <1>8, <1>9 DEF Next

LEMMA StepTyped == TypeOK /\ FactsKnown /\ [Next]_vars => TypeOK'
  <1> SUFFICES ASSUME TypeOK, FactsKnown, [Next]_vars
               PROVE  TypeOK'
    OBVIOUS
  <1>1. CASE UNCHANGED vars
    BY <1>1 DEF vars, memory, calls, TypeOK
  <1>2. CASE Next
    <2>1. PICK c \in Callers :
             \/ \E p \in Profiles : UpdateProfile(c, p)
             \/ \E i \in Items \cup {None}, f \in Facts : SaveLook(c, i, f)
             \/ \E i \in Items : SaveWrite(c, i) \/ Archive(c, i)
             \/ \E q \in Questions, a \in Answers : AnswerLook(c, q, a)
             \/ AnswerWrite(c)
             \/ \E g \in shown \cup {None} : ReadProfile(c, g)
             \/ ReadAnswers(c) \/ ReadCounts(c) \/ ShowState(c) \/ CheckState(c)
             \/ ConfirmWrite(c)
             \/ \E chosen \in [CopiedFields -> Values \cup {None}] : UpdateSettings(c, chosen)
      BY <1>2, Zenon DEF Next
    <2> QED
      BY <2>1, WritesTyped, ReadsTyped, ConfirmTyped, SettingsTyped DEF Items0
  <1> QED
    BY <1>1, <1>2

\* Every reachable state of the company's memory and of the methods that are at work on it
\* is well typed; what is active says something.
THEOREM MemoryTypes == Spec => [](TypeOK /\ FactsKnown)
  <1>1. Init => TypeOK /\ FactsKnown
    BY InitTyped DEF Init, FactsKnown, Active
  <1>2. TypeOK /\ FactsKnown /\ [Next]_vars => (TypeOK /\ FactsKnown)'
    BY StepTyped, StepFacts
  <1> QED
    BY <1>1, <1>2, PTL DEF Spec

-------------------------------------------------------------------------------
(***************************************************************************)
(* What was read and is still so                                           *)
(*                                                                         *)
(* A caller's reads are of different moments, but every change counts: as  *)
(* long as the revision is the one it read first, all it has read since is *)
(* what the CRM says now.                                                  *)
(***************************************************************************)

Reading == {"answers", "counts", "list", "confirm"}

StillSo(c) ==
    /\ step[c] \in Reading => read[c].revision <= revision
    /\ step[c] \in Reading /\ read[c].revision = revision =>
         /\ read[c].profile = profile
         /\ step[c] # "answers" => read[c].answers = answers
         /\ step[c] \in {"list", "confirm"} => read[c].categories = ActiveCategories
         /\ step[c] = "confirm" => read[c].facts = ListedFacts

\* What a caller asks to confirm was shown before it began to read, and when it is about to
\* write it has found exactly that.
MayConfirm(c) ==
    /\ given[c] # None =>
         given[c] \in shown /\ step[c] \in Reading /\ given[c].revision <= read[c].revision
    /\ step[c] = "confirm" =>
         /\ given[c] # None /\ given[c] = SummaryOf(read[c])
         /\ Ready(read[c].profile, read[c].categories)

CallersInv == \A c \in Callers : StillSo(c) /\ MayConfirm(c)

\* No summary is from the future.
ShownBefore == \A s \in shown : s.revision <= revision

\* A step leaves a caller where it is, or was none of its reads.
Unread(c) == step'[c] = step[c] \/ (step[c] \notin Reading /\ step'[c] \notin Reading)

\* The steps that change a fact of the company: they count, and callers keep what they hold.
FactStep ==
    /\ Touch
    /\ UNCHANGED <<read, given, shown, settings>>
    /\ \A c \in Callers : Unread(c)

\* The steps that only prepare a write, or fill in the agent's settings.
QuietStep ==
    /\ UNCHANGED <<memory, read, given, shown>>
    /\ \A c \in Callers : Unread(c)
    /\ \/ settings' = settings
       \/ settings' \in [CopiedFields -> Values \cup {None}]

LEMMA StepsSorted ==
  ASSUME TypeOK, [Next]_vars
  PROVE  \/ FactStep \/ QuietStep
         \/ \E c \in Callers :
              \/ \E g \in shown \cup {None} : ReadProfile(c, g)
              \/ ReadAnswers(c) \/ ReadCounts(c) \/ ShowState(c) \/ CheckState(c)
              \/ ConfirmWrite(c)
  <1>0. StoreTyped /\ CallsTyped
    BY TypeParts
  <1>1. CASE UNCHANGED vars
    BY <1>1 DEF vars, calls, QuietStep, Unread
  <1>2. ASSUME NEW c \in Callers, NEW p \in Profiles, UpdateProfile(c, p)
        PROVE  FactStep
    BY <1>2 DEF UpdateProfile, FactStep, Unread, calls
  <1>3. ASSUME NEW c \in Callers, NEW i \in Items \cup {None}, NEW f \in Facts, SaveLook(c, i, f)
        PROVE  QuietStep
    BY <1>0, <1>3 DEF SaveLook, QuietStep, Unread, Reading, CallsTyped
  <1>4. ASSUME NEW c \in Callers, NEW i \in Items, SaveWrite(c, i)
        PROVE  FactStep
    BY <1>0, <1>4 DEF SaveWrite, FactStep, Unread, Reading, CallsTyped
  <1>5. ASSUME NEW c \in Callers, NEW i \in Items, Archive(c, i)
        PROVE  FactStep
    BY <1>5 DEF Archive, FactStep, Unread, calls
  <1>6. ASSUME NEW c \in Callers, NEW q \in Questions, NEW a \in Answers, AnswerLook(c, q, a)
        PROVE  QuietStep
    BY <1>0, <1>6 DEF AnswerLook, QuietStep, Unread, Reading, CallsTyped
  <1>7. ASSUME NEW c \in Callers, AnswerWrite(c)
        PROVE  FactStep
    BY <1>0, <1>7 DEF AnswerWrite, FactStep, Unread, Reading, CallsTyped
  <1>8. ASSUME NEW c \in Callers, NEW chosen \in [CopiedFields -> Values \cup {None}],
               UpdateSettings(c, chosen)
        PROVE  QuietStep
    BY <1>8 DEF UpdateSettings, QuietStep, Unread, calls
  <1> QED
    BY <1>1, <1>2, <1>3, <1>4, <1>5, <1>6, <1>7, <1>8 DEF Next

\* What is listed and which categories are active is a matter of the items alone.
LEMMA ListedNow ==
  ASSUME UNCHANGED knowledge
  PROVE  ListedFacts' = ListedFacts /\ ActiveCategories' = ActiveCategories
  BY DEF ListedFacts, Listed, ActiveCategories, Active

\* A caller that is left alone keeps what is said of it.
LEMMA OthersKeep ==
  ASSUME UNCHANGED <<profile, revision, knowledge, answers>>, shown \subseteq shown',
         NEW d \in Callers, StillSo(d), MayConfirm(d),
         read'[d] = read[d], given'[d] = given[d], Unread(d)
  PROVE  StillSo(d)' /\ MayConfirm(d)'
  BY ListedNow DEF StillSo, MayConfirm, Unread, Reading, Ready, SummaryOf

LEMMA FactStepKeeps ==
  ASSUME TypeOK, CallersInv, FactStep
  PROVE  CallersInv'
  <1> SUFFICES ASSUME NEW d \in Callers
               PROVE  StillSo(d)' /\ MayConfirm(d)'
    BY DEF CallersInv
  <1>0. StillSo(d) /\ MayConfirm(d) /\ revision \in Nat /\ read[d].revision \in Nat
    BY DEF CallersInv, TypeOK
  <1>1. StillSo(d)'
    BY <1>0 DEF StillSo, FactStep, Touch, Unread, Reading
  <1>2. MayConfirm(d)'
    BY <1>0 DEF MayConfirm, FactStep, Unread, Reading, Ready, SummaryOf
  <1> QED
    BY <1>1, <1>2

LEMMA ReadersKeep ==
  ASSUME TypeOK, CallersInv, ShownBefore, NEW c \in Callers,
         \/ \E g \in shown \cup {None} : ReadProfile(c, g)
         \/ ReadAnswers(c) \/ ReadCounts(c) \/ ShowState(c) \/ CheckState(c)
         \/ ConfirmWrite(c)
  PROVE  CallersInv'
  <1>0. StoreTyped /\ CallsTyped /\ StillSo(c) /\ MayConfirm(c)
    BY TypeParts DEF CallersInv
  <1>1. UNCHANGED <<profile, revision, knowledge, answers>> /\ shown \subseteq shown'
    BY DEF ReadProfile, ReadAnswers, ReadCounts, ShowState, CheckState, ConfirmWrite, memory
  <1>2. ASSUME NEW d \in Callers, d # c
        PROVE  StillSo(d)' /\ MayConfirm(d)'
    <2>1. read'[d] = read[d] /\ given'[d] = given[d] /\ step'[d] = step[d]
      BY <1>0, <1>2 DEF ReadProfile, ReadAnswers, ReadCounts, ShowState, CheckState, ConfirmWrite,
                        Return, CallsTyped
    <2> QED
      BY <1>1, <2>1, OthersKeep DEF CallersInv, Unread
  <1>3. ASSUME step'[c] = "idle", given'[c] = None
        PROVE  StillSo(c)' /\ MayConfirm(c)'
    BY <1>0, <1>1, <1>3 DEF StillSo, MayConfirm, Reading
  <1>4. ASSUME NEW g \in shown \cup {None}, ReadProfile(c, g)
        PROVE  StillSo(c)' /\ MayConfirm(c)'
    <2>1. /\ step'[c] = "answers" /\ given'[c] = g
          /\ read'[c] = [NothingRead EXCEPT !.revision = revision, !.profile = profile]
      BY <1>0, <1>4 DEF ReadProfile, CallsTyped
    <2>2. read'[c].revision = revision /\ read'[c].profile = profile /\ revision \in Nat
      BY <1>0, <2>1 DEF NothingRead, StoreTyped
    <2> QED
      BY <1>0, <1>1, <2>1, <2>2 DEF StillSo, MayConfirm, ShownBefore, Reading
  <1>5. ASSUME ReadAnswers(c)
        PROVE  StillSo(c)' /\ MayConfirm(c)'
    <2>1. /\ step'[c] = "counts" /\ given'[c] = given[c]
          /\ read'[c].revision = read[c].revision /\ read'[c].profile = read[c].profile
          /\ read'[c].answers = answers
      BY <1>0, <1>5 DEF ReadAnswers, CallsTyped, Read
    <2> QED
      BY <1>0, <1>1, <1>5, <2>1 DEF StillSo, MayConfirm, Reading, ReadAnswers
  <1>6. ASSUME ReadCounts(c)
        PROVE  StillSo(c)' /\ MayConfirm(c)'
    <2>1. /\ step'[c] = "list" /\ given'[c] = given[c]
          /\ read'[c].revision = read[c].revision /\ read'[c].profile = read[c].profile
          /\ read'[c].answers = read[c].answers /\ read'[c].categories = ActiveCategories
      BY <1>0, <1>6 DEF ReadCounts, CallsTyped, Read
    <2> QED
      BY <1>0, <1>1, <1>6, <2>1, ListedNow DEF StillSo, MayConfirm, Reading, ReadCounts
  <1>7. CASE ShowState(c)
    BY <1>0, <1>2, <1>3, <1>7 DEF ShowState, Return, CallsTyped, CallersInv
  <1>8. ASSUME CheckState(c)
        PROVE  StillSo(c)' /\ MayConfirm(c)'
    <2> DEFINE seen == [read[c] EXCEPT !.facts = ListedFacts]
    <2>1. CASE Ready(seen.profile, seen.categories) /\ SummaryOf(seen) = given[c]
      <3>1. step'[c] = "confirm" /\ given'[c] = given[c] /\ read'[c] = seen
        BY <1>0, <1>8, <2>1 DEF CheckState, CallsTyped
      <3>2. /\ seen.revision = read[c].revision /\ seen.profile = read[c].profile
            /\ seen.answers = read[c].answers /\ seen.categories = read[c].categories
            /\ seen.facts = ListedFacts
        BY <1>0 DEF CallsTyped, Read
      <3>3. StillSo(c)'
        BY <1>0, <1>1, <1>8, <3>1, <3>2, ListedNow DEF StillSo, Reading, CheckState
      <3>4. given[c] # None /\ SummaryOf(seen) = given[c]
        BY <1>8, <2>1 DEF CheckState
      <3>5. MayConfirm(c)'
        BY <1>0, <1>1, <2>1, <3>1, <3>2, <3>4 DEF MayConfirm, SummaryOf, Ready, Reading
      <3> QED
        BY <3>3, <3>5
    <2>2. CASE ~ (Ready(seen.profile, seen.categories) /\ SummaryOf(seen) = given[c])
      BY <1>0, <1>3, <1>8, <2>2 DEF CheckState, Return, CallsTyped
    <2> QED
      BY <2>1, <2>2
  <1>9. CASE ConfirmWrite(c)
    BY <1>0, <1>2, <1>3, <1>9 DEF ConfirmWrite, Return, CallsTyped, CallersInv
  <1> QED
    BY <1>2, <1>4, <1>5, <1>6, <1>7, <1>8, <1>9 DEF CallersInv

-------------------------------------------------------------------------------
\* The confirmation

LEMMA ReadyKept ==
  ASSUME TypeOK, CallersInv, ReadyIsExact, [Next]_vars
  PROVE  ReadyIsExact'
  <1>1. CASE FactStep
    BY <1>1 DEF FactStep, Touch, ReadyIsExact
  <1>2. ASSUME UNCHANGED memory, shown \subseteq shown'
        PROVE  ReadyIsExact'
    BY <1>2, ListedNow DEF memory, ReadyIsExact, Current, Ready
  <1>3. CASE QuietStep
    BY <1>2, <1>3 DEF QuietStep
  <1>4. ASSUME NEW c \in Callers,
               \/ \E g \in shown \cup {None} : ReadProfile(c, g)
               \/ ReadAnswers(c) \/ ReadCounts(c) \/ ShowState(c) \/ CheckState(c)
        PROVE  ReadyIsExact'
    BY <1>2, <1>4 DEF ReadProfile, ReadAnswers, ReadCounts, ShowState, CheckState
  <1>5. ASSUME NEW c \in Callers, ConfirmWrite(c)
        PROVE  ReadyIsExact'
    <2>1. CASE revision # read[c].revision
      BY <1>2, <1>5, <2>1 DEF ConfirmWrite, memory
    <2>2. CASE revision = read[c].revision
      <3>1. StillSo(c) /\ MayConfirm(c) /\ step[c] = "confirm"
        BY <1>5 DEF CallersInv, ConfirmWrite
      <3>2. /\ read[c].profile = profile /\ read[c].answers = answers
            /\ read[c].categories = ActiveCategories /\ read[c].facts = ListedFacts
        BY <2>2, <3>1 DEF StillSo, Reading
      <3>3. SummaryOf(read[c]) = Current
        BY <2>2, <3>2 DEF SummaryOf, Current
      <3>4. Current' = Current /\ ActiveCategories' = ActiveCategories
        BY <1>5, ListedNow DEF ConfirmWrite, Current
      <3>5. confirmed' = Current /\ Current \in shown /\ Ready(profile, ActiveCategories)
        BY <1>5, <2>2, <3>1, <3>2, <3>3 DEF ConfirmWrite, MayConfirm
      <3> QED
        BY <1>5, <3>4, <3>5 DEF ConfirmWrite, ReadyIsExact, Ready
    <2> QED
      BY <2>1, <2>2
  <1> QED
    BY <1>1, <1>3, <1>4, <1>5, StepsSorted

LEMMA ShownKept ==
  ASSUME TypeOK, CallersInv, ShownBefore, [Next]_vars
  PROVE  ShownBefore'
  <1>0. StoreTyped /\ CallsTyped
    BY TypeParts
  <1>1. CASE FactStep
    BY <1>0, <1>1 DEF FactStep, Touch, ShownBefore, StoreTyped, Summaries
  <1>2. CASE QuietStep
    BY <1>2 DEF QuietStep, memory, ShownBefore
  <1>3. ASSUME NEW c \in Callers, ShowState(c)
        PROVE  ShownBefore'
    <2>1. read[c].revision <= revision
      BY <1>3 DEF CallersInv, StillSo, Reading, ShowState
    <2>2. SummaryOf([read[c] EXCEPT !.facts = ListedFacts]).revision = read[c].revision
      BY <1>0 DEF SummaryOf, CallsTyped, Read
    <2>3. revision' = revision
          /\ shown' = shown \cup {SummaryOf([read[c] EXCEPT !.facts = ListedFacts])}
      BY <1>3 DEF ShowState, memory
    <2> QED
      BY <2>1, <2>2, <2>3 DEF ShownBefore
  <1>4. ASSUME NEW c \in Callers,
               \/ \E g \in shown \cup {None} : ReadProfile(c, g)
               \/ ReadAnswers(c) \/ ReadCounts(c) \/ CheckState(c) \/ ConfirmWrite(c)
        PROVE  ShownBefore'
    BY <1>4 DEF ReadProfile, ReadAnswers, ReadCounts, CheckState, ConfirmWrite, memory, ShownBefore
  <1> QED
    BY <1>1, <1>2, <1>3, <1>4, StepsSorted

MemoryInv == TypeOK /\ FactsKnown /\ CallersInv /\ ShownBefore

LEMMA CallersKept ==
  ASSUME MemoryInv, [Next]_vars
  PROVE  CallersInv'
  <1> USE DEF MemoryInv
  <1>1. CASE FactStep
    BY <1>1, FactStepKeeps
  <1>2. CASE QuietStep
    <2>1. UNCHANGED <<profile, revision, knowledge, answers>> /\ shown' = shown
          /\ read' = read /\ given' = given
      BY <1>2 DEF QuietStep, memory
    <2> QED
      BY <1>2, <2>1, OthersKeep DEF QuietStep, CallersInv
  <1> QED
    BY <1>1, <1>2, ReadersKeep, StepsSorted

LEMMA MemoryInvariant == Spec => []MemoryInv
  <1>1. Init => CallersInv /\ ShownBefore
    BY DEF Init, CallersInv, StillSo, MayConfirm, ShownBefore, Reading
  <1>2. TypeOK /\ FactsKnown /\ CallersInv /\ ShownBefore /\ [Next]_vars
          => (CallersInv /\ ShownBefore)'
    BY CallersKept, ShownKept DEF MemoryInv
  <1> QED
    BY <1>1, <1>2, MemoryTypes, PTL DEF Spec, MemoryInv

\* While a company counts as ready, exactly what the CRM says of it now was shown to
\* somebody and confirmed, whoever wrote between the four reads of the confirmation.
THEOREM ReadyMeansConfirmed == Spec => []ReadyIsExact
  <1>1. Init => ReadyIsExact
    BY DEF Init, ReadyIsExact
  <1>2. MemoryInv /\ ReadyIsExact /\ [Next]_vars => ReadyIsExact'
    BY ReadyKept DEF MemoryInv
  <1> QED
    BY <1>1, <1>2, MemoryInvariant, PTL DEF Spec

\* A confirmation hands over values of the profile it confirms, only where the operator has
\* chosen none, and nothing if its UPDATE matches no row.
THEOREM SettingsFromConfirmed == Spec => AgentGetsWhatWasConfirmed
  <1>1. ASSUME TypeOK, [Next]_vars, settings' # settings, step' # step
        PROVE  /\ status' = "ready"
               /\ \A f \in CopiedFields : settings'[f] # settings[f] =>
                    settings[f] = None /\ settings'[f] = confirmed'.profile[f]
    <2>1. PICK c \in Callers : ConfirmWrite(c)
      BY <1>1 DEF Next, vars, UpdateProfile, SaveLook, SaveWrite, Archive, AnswerLook, AnswerWrite,
                  ReadProfile, ReadAnswers, ReadCounts, ShowState, CheckState, UpdateSettings, calls
    <2>2. /\ status' = "ready" /\ confirmed' = SummaryOf(read[c])
          /\ settings' = Filled(read[c].profile)
      BY <1>1, <2>1 DEF ConfirmWrite
    <2>3. \A f \in CopiedFields :
            settings'[f] = IF settings[f] = None THEN read[c].profile[f] ELSE settings[f]
      BY <2>2 DEF Filled
    <2> QED
      BY <2>2, <2>3 DEF SummaryOf
  <1> QED
    BY <1>1, MemoryTypes, PTL DEF Spec, AgentGetsWhatWasConfirmed
-------------------------------------------------------------------------------
(***************************************************************************)
(* As good as atomic                                                       *)
(*                                                                         *)
(* A confirmation takes effect, or is refused, at its last step: the       *)
(* UPDATE, or the list that differs from what it was given.                *)
(***************************************************************************)

LEMMA SellableKept ==
  ASSUME UNCHANGED <<profile, knowledge>>
  PROVE  Sellable' = Sellable
  BY ListedNow DEF Sellable, Ready

LEMMA FactsKept ==
  ASSUME UNCHANGED <<profile, revision, knowledge, answers>>
  PROVE  Current' = Current /\ Sellable' = Sellable
  BY ListedNow, SellableKept DEF Current

LEMMA FactStepChanges ==
  ASSUME TypeOK, FactStep
  PROVE  Review!Change
  <1>1. Current'.revision = Current.revision + 1
    BY DEF FactStep, Touch, Current
  <1>2. Sellable' \in BOOLEAN
    BY DEF Sellable, Ready
  <1>3. IsReady' = FALSE
    BY DEF FactStep, Touch, IsReady
  <1> QED
    BY <1>1, <1>2, <1>3 DEF FactStep, Touch, Review!Change

LEMMA QuietStepTells ==
  ASSUME QuietStep
  PROVE  [Review!FactsNext]_(Review!promises)
  <1>1. UNCHANGED Review!facts /\ shown' = shown /\ given' = given
    BY FactsKept DEF QuietStep, memory, Review!facts, IsReady
  <1>2. CASE settings' = settings
    BY <1>1, <1>2 DEF Review!promises
  <1>3. CASE settings' \in [CopiedFields -> Values \cup {None}]
    BY <1>1, <1>3 DEF Review!FactsNext, Review!Tell
  <1> QED
    BY <1>2, <1>3 DEF QuietStep, Review!FactsNext

\* A review that nothing has overtaken shows what is so.
LEMMA ReviewShows ==
  ASSUME MemoryInv, NEW c \in Callers, ShowState(c)
  PROVE  Review!Show
  <1>0. StoreTyped /\ CallsTyped /\ StillSo(c) /\ step[c] = "list" /\ given[c] = None
    BY TypeParts DEF MemoryInv, CallersInv, ShowState
  <1> DEFINE seen == [read[c] EXCEPT !.facts = ListedFacts]
  <1>1. UNCHANGED Review!facts /\ UNCHANGED settings
    BY FactsKept DEF ShowState, memory, Review!facts, IsReady
  <1>2. given' = given
    BY <1>0 DEF ShowState, Return, CallsTyped
  <1>3. /\ seen.revision = read[c].revision /\ seen.profile = read[c].profile
        /\ seen.answers = read[c].answers /\ seen.facts = ListedFacts
    BY <1>0 DEF CallsTyped, Read
  <1>4. SummaryOf(seen) = Current \/ SummaryOf(seen).revision < Current.revision
    <2>1. CASE read[c].revision = revision
      BY <1>0, <1>3, <2>1 DEF StillSo, Reading, SummaryOf, Current
    <2>2. CASE read[c].revision # revision
      <3>1. read[c].revision <= revision /\ read[c].revision \in Nat /\ revision \in Nat
        BY <1>0 DEF StillSo, Reading, StoreTyped, CallsTyped, Read
      <3>2. read[c].revision < revision
        BY <2>2, <3>1
      <3> QED
        BY <1>3, <3>2 DEF SummaryOf, Current
    <2> QED
      BY <2>1, <2>2
  <1>5. shown' = shown \cup {SummaryOf(seen)}
    BY DEF ShowState
  <1> QED
    BY <1>1, <1>2, <1>4, <1>5 DEF Review!Show

\* A caller that finds something else than it was given, or too little, is refused rightly:
\* if the revision is still its own it has read what is so, and otherwise what it was given
\* is older than what is so.
LEMMA RefusedRightly ==
  ASSUME MemoryInv, NEW c \in Callers, CheckState(c), given'[c] = None
  PROVE  Review!Refuse(c)
  <1>0. /\ StoreTyped /\ CallsTyped /\ StillSo(c) /\ MayConfirm(c)
        /\ step[c] = "list" /\ given[c] # None
    BY TypeParts DEF MemoryInv, CallersInv, CheckState
  <1> DEFINE seen == [read[c] EXCEPT !.facts = ListedFacts]
  <1>1. ~ (Ready(seen.profile, seen.categories) /\ SummaryOf(seen) = given[c])
    BY <1>0 DEF CheckState
  <1>2. UNCHANGED Review!facts /\ UNCHANGED <<settings, shown>>
    BY FactsKept DEF CheckState, memory, Review!facts, IsReady
  <1>3. given' = [given EXCEPT ![c] = None]
    BY <1>1 DEF CheckState, Return
  <1>4. /\ seen.revision = read[c].revision /\ seen.profile = read[c].profile
        /\ seen.answers = read[c].answers /\ seen.categories = read[c].categories
        /\ seen.facts = ListedFacts
    BY <1>0 DEF CallsTyped, Read
  <1>5. ~ (given[c] = Current /\ Sellable)
    <2>1. CASE read[c].revision = revision
      <3>1. /\ read[c].profile = profile /\ read[c].answers = answers
            /\ read[c].categories = ActiveCategories
        BY <1>0, <2>1 DEF StillSo, Reading
      <3>2. SummaryOf(seen) = Current
        BY <1>4, <2>1, <3>1 DEF SummaryOf, Current
      <3> QED
        BY <1>1, <1>4, <3>1, <3>2 DEF Sellable
    <2>2. CASE read[c].revision # revision
      <3>1. /\ given[c].revision <= read[c].revision /\ read[c].revision <= revision
            /\ given[c].revision \in Nat /\ read[c].revision \in Nat /\ revision \in Nat
        BY <1>0 DEF MayConfirm, StillSo, Reading, StoreTyped, CallsTyped, Read, Summaries
      <3>2. given[c].revision # revision
        BY <2>2, <3>1
      <3> QED
        BY <3>2 DEF Current
    <2> QED
      BY <2>1, <2>2
  <1> QED
    BY <1>0, <1>2, <1>3, <1>5 DEF Review!Refuse, Review!May

LEMMA ConfirmedAtOnce ==
  ASSUME MemoryInv, NEW c \in Callers, ConfirmWrite(c)
  PROVE  Review!Confirm(c) \/ Review!Refuse(c)
  <1>0. /\ StoreTyped /\ CallsTyped /\ StillSo(c) /\ MayConfirm(c) /\ step[c] = "confirm"
    BY TypeParts DEF MemoryInv, CallersInv, ConfirmWrite
  <1>1. Current' = Current /\ Sellable' = Sellable
    BY FactsKept DEF ConfirmWrite
  <1>2. given' = [given EXCEPT ![c] = None] /\ shown' = shown
    BY DEF ConfirmWrite, Return
  <1>3. CASE revision = read[c].revision
    <2>1. /\ read[c].profile = profile /\ read[c].answers = answers
          /\ read[c].categories = ActiveCategories /\ read[c].facts = ListedFacts
      BY <1>0, <1>3 DEF StillSo, Reading
    <2>2. SummaryOf(read[c]) = Current
      BY <1>3, <2>1 DEF SummaryOf, Current
    <2>3. given[c] = Current /\ Sellable
      BY <1>0, <2>1, <2>2 DEF MayConfirm, Sellable
    <2>4. IsReady' = TRUE /\ confirmed' = Current
      BY <1>3, <2>2 DEF ConfirmWrite, IsReady
    <2>5. settings' = [f \in CopiedFields |->
                         IF settings[f] = None THEN Current.profile[f] ELSE settings[f]]
      BY <1>3, <2>1 DEF ConfirmWrite, Filled, Current
    <2> QED
      BY <1>1, <1>2, <2>3, <2>4, <2>5 DEF Review!Confirm, Review!May
  <1>4. CASE revision # read[c].revision
    <2>1. UNCHANGED Review!facts /\ settings' = settings
      BY <1>1, <1>4 DEF ConfirmWrite, Review!facts, IsReady
    <2>2. given[c] # None /\ given[c] # Current
      BY <1>0, <1>4 DEF MayConfirm, SummaryOf, Current
    <2> QED
      BY <1>2, <2>1, <2>2 DEF Review!Refuse, Review!May
  <1> QED
    BY <1>3, <1>4

LEMMA ReadStepsPromised ==
  ASSUME MemoryInv, NEW c \in Callers,
         \/ \E g \in shown \cup {None} : ReadProfile(c, g)
         \/ ReadAnswers(c) \/ ReadCounts(c) \/ ShowState(c) \/ CheckState(c)
         \/ ConfirmWrite(c)
  PROVE  [Review!FactsNext]_(Review!promises)
  <1>0. CallsTyped
    BY TypeParts DEF MemoryInv
  <1>1. ASSUME NEW g \in shown \cup {None}, ReadProfile(c, g)
        PROVE  [Review!FactsNext]_(Review!promises)
    <2>1. UNCHANGED Review!facts /\ UNCHANGED <<settings, shown>>
      BY <1>1, FactsKept DEF ReadProfile, memory, Review!facts, IsReady
    <2>2. given[c] = None /\ given' = [given EXCEPT ![c] = g]
      BY <1>1 DEF ReadProfile, MemoryInv, CallersInv, MayConfirm, Reading
    <2>3. CASE g \in shown
      BY <2>1, <2>2, <2>3 DEF Review!FactsNext, Review!Ask
    <2>4. CASE g = None
      <3>1. given' = given
        BY <1>0, <2>2, <2>4 DEF CallsTyped
      <3> QED
        BY <2>1, <3>1 DEF Review!promises
    <2> QED
      BY <2>3, <2>4
  <1>2. CASE ReadAnswers(c) \/ ReadCounts(c)
    BY <1>2, FactsKept DEF ReadAnswers, ReadCounts, memory, Review!promises, Review!facts, IsReady
  <1>3. CASE ShowState(c)
    BY <1>3, ReviewShows DEF Review!FactsNext
  <1>4. CASE CheckState(c)
    <2>1. CASE given'[c] = None
      BY <1>4, <2>1, RefusedRightly DEF Review!FactsNext
    <2>2. CASE given'[c] # None
      <3>1. given' = given
        BY <1>0, <1>4, <2>2 DEF CheckState, Return, CallsTyped
      <3> QED
        BY <1>4, <3>1, FactsKept DEF CheckState, memory, Review!promises, Review!facts, IsReady
    <2> QED
      BY <2>1, <2>2
  <1>5. CASE ConfirmWrite(c)
    BY <1>5, ConfirmedAtOnce DEF Review!FactsNext
  <1> QED
    BY <1>1, <1>2, <1>3, <1>4, <1>5

\* Reviews and confirmations are as good as one instant each, for any number of callers that
\* read and write between their steps, and a confirmation is refused only when it must be.
THEOREM MemoryImplementsReviewedFacts == Spec => ImplementsReviewedFacts
  <1>1. Init => Review!FactsInit
    <2> SUFFICES ASSUME Init
                 PROVE  Review!FactsInit
      OBVIOUS
    <2>1. Current.revision = 0
      BY DEF Init, Current
    <2>2. Sellable \in BOOLEAN
      BY DEF Sellable, Ready
    <2>3. IsReady = FALSE
      BY DEF Init, IsReady
    <2> QED
      BY <2>1, <2>2, <2>3 DEF Init, Review!FactsInit
  <1>2. MemoryInv /\ [Next]_vars => [Review!FactsNext]_(Review!promises)
    BY FactStepChanges, QuietStepTells, ReadStepsPromised, StepsSorted DEF MemoryInv, Review!FactsNext
  <1> QED
    BY <1>1, <1>2, MemoryInvariant, PTL DEF Spec, ImplementsReviewedFacts, Review!FactsSpec
\* What an operator was shown last is true as long as nothing has changed since: a summary
\* that bears the current revision is the current one, although a review reads four times
\* and others write in between (get_company_onboarding_state).
FreshReviewsAreTrue == \A s \in shown : s.revision = revision => s = Current

\* A review that mixes two moments never bears the revision of the later one.
THEOREM ReviewsAreTrue == Spec => []FreshReviewsAreTrue
  <1>1. Init => FreshReviewsAreTrue
    BY DEF Init, FreshReviewsAreTrue
  <1>2. MemoryInv /\ FreshReviewsAreTrue /\ [Next]_vars => FreshReviewsAreTrue'
    <2> SUFFICES ASSUME MemoryInv, FreshReviewsAreTrue, [Next]_vars
                 PROVE  FreshReviewsAreTrue'
      OBVIOUS
    <2>1. CASE FactStep
      <3>1. revision' = revision + 1 /\ shown' = shown
        BY <2>1 DEF FactStep, Touch
      <3>2. \A s \in shown : s.revision \in Nat /\ s.revision <= revision /\ revision \in Nat
        BY DEF MemoryInv, TypeOK, Summaries, ShownBefore
      <3> QED
        BY <3>1, <3>2 DEF FreshReviewsAreTrue
    <2>2. ASSUME UNCHANGED <<profile, revision, knowledge, answers, shown>>
          PROVE  FreshReviewsAreTrue'
      BY <2>2, FactsKept DEF FreshReviewsAreTrue
    <2>3. ASSUME NEW c \in Callers, ShowState(c)
          PROVE  FreshReviewsAreTrue'
      <3>1. UNCHANGED <<profile, revision, knowledge, answers>>
        BY <2>3 DEF ShowState, memory
      <3>2. PICK s : shown' = shown \cup {s} /\ (s = Current \/ s.revision < Current.revision)
        BY <2>3, ReviewShows DEF Review!Show
      <3>3. Current.revision = revision /\ revision \in Nat
        BY DEF Current, MemoryInv, TypeOK
      <3>4. ~ (revision < revision)
        BY <3>3
      <3>5. s.revision = revision => s = Current
        BY <3>2, <3>3, <3>4
      <3> QED
        BY <3>1, <3>2, <3>5, FactsKept DEF FreshReviewsAreTrue
    <2> QED
      BY <2>1, <2>2, <2>3, StepsSorted
         DEF MemoryInv, QuietStep, memory, ReadProfile, ReadAnswers, ReadCounts, CheckState, ConfirmWrite
  <1> QED
    BY <1>1, <1>2, MemoryInvariant, PTL DEF Spec
===============================================================================
