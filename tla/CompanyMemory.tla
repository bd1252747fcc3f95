----------------------------- MODULE CompanyMemory -----------------------------
(***************************************************************************)
(* What a workspace knows of its own company, and the onboarding that ends *)
(* with an operator confirming a factual summary of it: the profile, the   *)
(* knowledge items, the explicit answers, and the settings of the          *)
(* conversation agent that the confirmation fills in (company methods of   *)
(* src/app/crm.py).                                                        *)
(*                                                                         *)
(* Every method opens a connection of its own and any number of callers    *)
(* uses the file: the model interleaves them transaction by transaction,   *)
(* and a SELECT before the first write of a method is a step of its own,   *)
(* since the connection takes no lock until it writes.  A confirmation     *)
(* reads the state in four connections and writes in a fifth.              *)
(* The state it returns at its end is a review like any other.              *)
(*                                                                         *)
(* The SHA-256 of the revision and the summary is the pair of both: two    *)
(* summaries have one hash only if they are equal. updated_at is the       *)
(* number of the change, as if no two changes shared a second.             *)
(***************************************************************************)
EXTENDS Naturals, FiniteSets

CONSTANTS
    Fields,             \* fields of company_profiles
    RequiredFields,     \* those without which nobody may sell
    CopiedFields,       \* those the confirmation offers to the agent's settings
    Values,             \* what a field may say
    None,               \* NULL, or a niche that is 'auto': nothing given
    Categories,         \* knowledge categories
    RequiredCategories, \* a service and a price
    Texts,              \* title, content and source of a knowledge item
    Items,              \* ids of knowledge items
    Questions, Answers, \* explicit onboarding answers
    Callers,            \* threads and processes that use the CRM
    MaxListed,          \* the most items list_company_knowledge returns
    MaxRevision,        \* bound: revisions of the profile
    MaxShown            \* bound: no further review begins after so many summaries

ASSUME MemoryAssumption ==
    /\ RequiredFields \subseteq Fields /\ CopiedFields \subseteq Fields
    /\ RequiredCategories \subseteq Categories
    /\ None \notin Values
    /\ None \notin Answers /\ None \notin Items
    /\ IsFiniteSet(Items)
    /\ MaxListed \in Nat \ {0}
    /\ MaxRevision \in Nat /\ MaxShown \in Nat

VARIABLES
    profile,   \* company_profiles: its fields
    status,    \* ... onboarding_status
    revision,  \* ... revision, 0 also before the row exists
    confirmed, \* ... confirmed_revision and confirmed_summary_hash
    knowledge, \* company_knowledge_items
    answers,   \* company_onboarding_answers
    settings,  \* conversation_agent_settings that a confirmation may fill
    step,      \* where a caller is in its method
    read,      \* what it has read of the state
    given,     \* the revision and hash it was called with
    writing,   \* the item or answer it is about to write
    shown      \* summaries returned to anybody, for review

memory == <<profile, status, revision, confirmed, knowledge, answers>>
calls == <<step, read, given, writing>>
vars == <<memory, settings, calls, shown>>

Profiles == [Fields -> Values \cup {None}]
Facts == [category : Categories, text : Texts]
Bags == [Facts -> Nat]
AnswerSheets == [Questions -> Answers \cup {None}]
Summaries == [revision : Nat, profile : Profiles, answers : AnswerSheets, facts : Bags]
Steps == {"idle", "answers", "counts", "list", "confirm", "save", "answer"}
NoBag == [f \in Facts |-> 0]
NoAnswers == [q \in Questions |-> None]
NoProfile == [f \in Fields |-> None]
NothingRead == [revision |-> 0, profile |-> NoProfile, answers |-> NoAnswers,
                categories |-> {}, facts |-> NoBag]
NothingToWrite == [item |-> None, fact |-> None, question |-> None, answer |-> None]

TypeOK ==
    /\ profile \in Profiles
    /\ status \in {"not_started", "in_progress", "ready"}
    /\ revision \in Nat
    /\ confirmed \in Summaries \cup {None}
    /\ knowledge \in [Items -> [state : {"absent", "active", "archived"},
                                fact : Facts \cup {None}, at : Nat]]
    /\ answers \in AnswerSheets
    /\ settings \in [CopiedFields -> Values \cup {None}]
    /\ step \in [Callers -> Steps]
    /\ read \in [Callers -> [revision : Nat, profile : Profiles, answers : AnswerSheets,
                             categories : SUBSET Categories, facts : Bags]]
    /\ given \in [Callers -> Summaries \cup {None}]
    /\ writing \in [Callers -> [item : Items \cup {None}, fact : Facts \cup {None},
                                question : Questions \cup {None}, answer : Answers \cup {None}]]
    /\ shown \subseteq Summaries

Init ==
    /\ profile = NoProfile
    /\ status = "not_started"
    /\ revision = 0
    /\ confirmed = None
    /\ knowledge = [i \in Items |-> [state |-> "absent", fact |-> None, at |-> 0]]
    /\ answers = NoAnswers
    /\ settings = [f \in CopiedFields |-> None]
    /\ step = [c \in Callers |-> "idle"]
    /\ read = [c \in Callers |-> NothingRead]
    /\ given = [c \in Callers |-> None]
    /\ writing = [c \in Callers |-> NothingToWrite]
    /\ shown = {}

-----------------------------------------------------------------------------
(***************************************************************************)
(* Writing facts                                                           *)
(***************************************************************************)

\* The bound: a change begins only if it can still be counted.
Room == revision + Cardinality({c \in Callers : step[c] \in {"save", "answer"}}) < MaxRevision

\* Every change of a fact counts and withdraws the confirmation, in its own transaction.
Touch ==
    /\ revision' = revision + 1
    /\ status' = "in_progress"
    /\ confirmed' = None

\* The bound on Items: rows that may still be inserted.
NewItems == Cardinality({i \in Items : knowledge[i].state = "absent"})

\* update_company_profile: INSERT OR IGNORE takes the lock before the row is compared.
UpdateProfile(c, p) ==
    /\ step[c] = "idle" /\ Room
    /\ p # profile
    /\ profile' = p
    /\ Touch
    /\ UNCHANGED <<knowledge, answers, settings, calls, shown>>

Active == {i \in Items : knowledge[i].state = "active"}

\* save_company_knowledge: it looks for the item, or for an active one that says the
\* same, and returns what it finds if there is nothing to change ...
SaveLook(c, i, f) ==
    /\ step[c] = "idle" /\ Room
    /\ IF i = None
       THEN /\ \A j \in Active : knowledge[j].fact # f
            /\ NewItems > Cardinality({d \in Callers : step[d] = "save" /\ writing[d].item = None})
       ELSE /\ knowledge[i].state # "absent"
            /\ ~ (knowledge[i].state = "active" /\ knowledge[i].fact = f)
    /\ step' = [step EXCEPT ![c] = "save"]
    /\ writing' = [writing EXCEPT ![c] = [NothingToWrite EXCEPT !.item = i, !.fact = f]]
    /\ UNCHANGED <<memory, settings, read, given, shown>>

\* ... and then inserts a new item or overwrites the one it was given, archived or not.
SaveWrite(c, i) ==
    /\ step[c] = "save"
    /\ IF writing[c].item = None THEN knowledge[i].state = "absent" ELSE i = writing[c].item
    /\ knowledge' = [knowledge EXCEPT ![i] = [state |-> "active", fact |-> writing[c].fact,
                                              at |-> revision + 1]]
    /\ Touch
    /\ step' = [step EXCEPT ![c] = "idle"]
    /\ writing' = [writing EXCEPT ![c] = NothingToWrite]
    /\ UNCHANGED <<profile, answers, settings, read, given, shown>>

\* archive_company_knowledge
Archive(c, i) ==
    /\ step[c] = "idle" /\ Room
    /\ i \in Active
    /\ knowledge' = [knowledge EXCEPT ![i].state = "archived"]
    /\ Touch
    /\ UNCHANGED <<profile, answers, settings, calls, shown>>

\* record_company_onboarding_answer: a look for the same answer, then the upsert.
AnswerLook(c, q, a) ==
    /\ step[c] = "idle" /\ Room
    /\ answers[q] # a
    /\ step' = [step EXCEPT ![c] = "answer"]
    /\ writing' = [writing EXCEPT ![c] = [NothingToWrite EXCEPT !.question = q, !.answer = a]]
    /\ UNCHANGED <<memory, settings, read, given, shown>>

AnswerWrite(c) ==
    /\ step[c] = "answer"
    /\ answers' = [answers EXCEPT ![writing[c].question] = writing[c].answer]
    /\ Touch
    /\ step' = [step EXCEPT ![c] = "idle"]
    /\ writing' = [writing EXCEPT ![c] = NothingToWrite]
    /\ UNCHANGED <<profile, knowledge, settings, read, given, shown>>

-----------------------------------------------------------------------------
(***************************************************************************)
(* Reading the state, for a review or for the confirmation                 *)
(***************************************************************************)

\* The items that are listed: the latest ones, by updated_at.
Listed == {i \in Active : Cardinality({j \in Active : knowledge[j].at > knowledge[i].at}) < MaxListed}

\* The summary names no ids.
ListedFacts == [f \in Facts |-> Cardinality({i \in Listed : knowledge[i].fact = f})]

ActiveCategories == {knowledge[i].fact.category : i \in Active}

Ready(p, categories) ==
    /\ \A f \in RequiredFields : p[f] # None
    /\ RequiredCategories \subseteq categories

\* Mutant of SummaryOf: the counts are part of the hash.
SummaryWithCounts(r) == r

SummaryOf(r) == [revision |-> r.revision, profile |-> r.profile, answers |-> r.answers,
                 facts |-> r.facts]

\* get_company_onboarding_state, called on its own or, with a revision and a hash, by
\* complete_company_onboarding: the profile first ...
ReadProfile(c, g) ==
    /\ step[c] = "idle"
    /\ g = None => Cardinality(shown) < MaxShown
    /\ given' = [given EXCEPT ![c] = g]
    /\ read' = [read EXCEPT ![c] = [NothingRead EXCEPT !.revision = revision, !.profile = profile]]
    /\ step' = [step EXCEPT ![c] = "answers"]
    /\ UNCHANGED <<memory, settings, writing, shown>>

\* ... then the answers, the counts by category, and the list.
ReadAnswers(c) ==
    /\ step[c] = "answers"
    /\ read' = [read EXCEPT ![c].answers = answers]
    /\ step' = [step EXCEPT ![c] = "counts"]
    /\ UNCHANGED <<memory, settings, given, writing, shown>>

ReadCounts(c) ==
    /\ step[c] = "counts"
    /\ read' = [read EXCEPT ![c].categories = ActiveCategories]
    /\ step' = [step EXCEPT ![c] = "list"]
    /\ UNCHANGED <<memory, settings, given, writing, shown>>

Return(c) ==
    /\ step' = [step EXCEPT ![c] = "idle"]
    /\ read' = [read EXCEPT ![c] = NothingRead]
    /\ given' = [given EXCEPT ![c] = None]

\* The list completes a review ...
ShowState(c) ==
    /\ step[c] = "list"
    /\ given[c] = None
    /\ shown' = shown \cup {SummaryOf([read[c] EXCEPT !.facts = ListedFacts])}
    /\ Return(c)
    /\ UNCHANGED <<memory, settings, writing>>

\* ... or is compared, with the rest, to what the caller was shown.
CheckState(c) ==
    LET seen == [read[c] EXCEPT !.facts = ListedFacts] IN
    /\ step[c] = "list"
    /\ given[c] # None
    /\ IF Ready(seen.profile, seen.categories) /\ SummaryOf(seen) = given[c]
       THEN /\ read' = [read EXCEPT ![c] = seen]
            /\ step' = [step EXCEPT ![c] = "confirm"]
            /\ UNCHANGED given
       ELSE Return(c)
    /\ UNCHANGED <<memory, settings, writing, shown>>

-----------------------------------------------------------------------------
(***************************************************************************)
(* The confirmation                                                        *)
(***************************************************************************)

\* What the agent's settings become: 'auto' and NULL give way to the profile.
Filled(p) == [f \in CopiedFields |-> IF settings[f] = None THEN p[f] ELSE settings[f]]

\* Mutant of ConfirmWrite: the UPDATE names the workspace only.
ConfirmAnyRevision(c) ==
    /\ step[c] = "confirm"
    /\ status' = "ready"
    /\ confirmed' = SummaryOf(read[c])
    /\ settings' = Filled(read[c].profile)
    /\ Return(c)
    /\ UNCHANGED <<profile, revision, knowledge, answers, writing, shown>>

\* Mutant of ConfirmWrite: the settings are written whether the UPDATE matched or not.
SettingsAnyway(c) ==
    /\ step[c] = "confirm"
    /\ IF revision = read[c].revision
       THEN status' = "ready" /\ confirmed' = SummaryOf(read[c])
       ELSE UNCHANGED <<status, confirmed>>
    /\ settings' = Filled(read[c].profile)
    /\ Return(c)
    /\ UNCHANGED <<profile, revision, knowledge, answers, writing, shown>>

\* The UPDATE names the revision that was read; when it matches no row, nothing of the
\* transaction is kept.
ConfirmWrite(c) ==
    /\ step[c] = "confirm"
    /\ IF revision = read[c].revision
       THEN /\ status' = "ready"
            /\ confirmed' = SummaryOf(read[c])
            /\ settings' = Filled(read[c].profile)
       ELSE UNCHANGED <<status, confirmed, settings>>
    /\ Return(c)
    /\ UNCHANGED <<profile, revision, knowledge, answers, writing, shown>>

\* update_conversation_agent_settings: one UPDATE of as many fields as are given; an empty
\* text is NULL. The niche may not be NULL and is returned to the profile as 'auto'.
UpdateSettings(c, chosen) ==
    /\ step[c] = "idle"
    /\ settings' = chosen
    /\ UNCHANGED <<memory, calls, shown>>

Next ==
    \E c \in Callers :
        \/ \E p \in Profiles : UpdateProfile(c, p)
        \/ \E i \in Items \cup {None}, f \in Facts : SaveLook(c, i, f)
        \/ \E i \in Items : SaveWrite(c, i) \/ Archive(c, i)
        \/ \E q \in Questions, a \in Answers : AnswerLook(c, q, a)
        \/ AnswerWrite(c)
        \/ \E g \in shown \cup {None} : ReadProfile(c, g)
        \/ ReadAnswers(c) \/ ReadCounts(c) \/ ShowState(c) \/ CheckState(c)
        \/ ConfirmWrite(c)
        \/ \E chosen \in [CopiedFields -> Values \cup {None}] : UpdateSettings(c, chosen)

Spec == Init /\ [][Next]_vars

-----------------------------------------------------------------------------
(***************************************************************************)
(* Properties                                                              *)
(***************************************************************************)

Current == [revision |-> revision, profile |-> profile, answers |-> answers,
            facts |-> ListedFacts]

\* "Confirm the exact current onboarding summary revision after operator review" (server.py
\* sales_complete_company_onboarding): while a company counts as ready, what was confirmed
\* is what the CRM says now, somebody was shown exactly that, and it has what selling
\* needs, although a summary is put together from four reads.
ReadyIsExact ==
    status = "ready" => /\ confirmed = Current
                        /\ confirmed \in shown
                        /\ Ready(profile, ActiveCategories)

\* A confirmation hands the agent values of the profile it confirms and no others, keeps
\* what the operator chose, and one that is refused hands over nothing.
AgentGetsWhatWasConfirmed ==
    [][settings' # settings /\ step' # step =>
         /\ status' = "ready"
         /\ \A f \in CopiedFields :
              settings'[f] # settings[f] => settings[f] = None /\ settings'[f] = confirmed'.profile[f]]_vars

Sellable == Ready(profile, ActiveCategories)

IsReady == status = "ready"

\* A review that reads four times, and a confirmation that reads four times and then writes,
\* are as good as one instant each, whoever writes in between: a confirmation is refused only
\* if, when it returns, the summary it was called with is not the true one or not enough to
\* sell with, and otherwise it confirms that summary and tells the agent of it; a review that
\* mixes two moments bears a revision nobody can confirm (complete_company_onboarding).
Review == INSTANCE ReviewedFacts WITH
    Fields <- CopiedFields, current <- Current, sellable <- Sellable, ready <- IsReady, asked <- given
ImplementsReviewedFacts == Review!FactsSpec

=============================================================================
