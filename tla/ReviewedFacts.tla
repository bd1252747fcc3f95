----------------------------- MODULE ReviewedFacts -----------------------------
(***************************************************************************)
(* What the onboarding promises of a company's facts, with everything in   *)
(* one place and every step of one instant: the facts are numbered, a      *)
(* review returns a summary of them, and an operator who asks to confirm a *)
(* summary is obeyed if it is the true one at that instant, and otherwise  *)
(* refused.  A review may be overtaken by changes while it reads, and then *)
(* it is a mixture that was perhaps never true; but it bears an old        *)
(* number, and can no longer be confirmed.                                 *)
(***************************************************************************)
EXTENDS Naturals

CONSTANTS
    Callers,               \* who asks for a confirmation
    Fields, Values, None   \* what the agent may be told, and nothing

VARIABLES
    current,   \* the summary of the facts as they are
    sellable,  \* whether they are enough to sell with
    ready,     \* the company counts as ready to sell
    confirmed, \* the summary that was confirmed
    shown,     \* every summary anybody was shown
    asked,     \* what a caller has asked to confirm
    settings   \* what the agent was told

facts == <<current, sellable, ready, confirmed>>
promises == <<facts, shown, asked, settings>>

FactsInit ==
    /\ current.revision = 0
    /\ sellable \in BOOLEAN
    /\ ready = FALSE
    /\ confirmed = None
    /\ shown = {}
    /\ asked = [c \in Callers |-> None]
    /\ settings = [f \in Fields |-> None]

\* The facts become others, under the next number, and nothing is confirmed any more.
Change ==
    /\ current'.revision = current.revision + 1
    /\ sellable' \in BOOLEAN
    /\ ready' = FALSE
    /\ confirmed' = None
    /\ UNCHANGED <<shown, asked, settings>>

\* Somebody is shown what is so, or a mixture with an old number.
Show ==
    /\ \E s \in shown' : /\ shown' = shown \cup {s}
                         /\ s = current \/ s.revision < current.revision
    /\ UNCHANGED <<facts, asked, settings>>

\* A caller asks to confirm something that was shown.
Ask(c) ==
    /\ asked[c] = None
    /\ \E s \in shown : asked' = [asked EXCEPT ![c] = s]
    /\ UNCHANGED <<facts, shown, settings>>

May(c) == asked[c] = current /\ sellable

\* What it asked for is so: it is confirmed, and the agent is told what it was not told yet.
Confirm(c) ==
    /\ May(c)
    /\ ready' = TRUE
    /\ confirmed' = current
    /\ settings' = [f \in Fields |-> IF settings[f] = None THEN current.profile[f] ELSE settings[f]]
    /\ asked' = [asked EXCEPT ![c] = None]
    /\ UNCHANGED <<current, sellable, shown>>

\* Only what is not so is refused, and a refusal has no effect.
Refuse(c) ==
    /\ asked[c] # None
    /\ ~ May(c)
    /\ asked' = [asked EXCEPT ![c] = None]
    /\ UNCHANGED <<facts, shown, settings>>

\* An operator tells the agent something.
Tell ==
    /\ settings' \in [Fields -> Values \cup {None}]
    /\ UNCHANGED <<facts, shown, asked>>

FactsNext == \/ Change \/ Show \/ Tell
             \/ \E c \in Callers : Ask(c) \/ Confirm(c) \/ Refuse(c)

FactsSpec == FactsInit /\ [][FactsNext]_promises
=============================================================================
