---------------------------- MODULE TokenFamilies -----------------------------
(***************************************************************************)
(* What the OAuth server promises a client about its grants, without       *)
(* requests, tables, clocks or clean-up: a consent is redeemed at most     *)
(* once, each redemption starts a family, a family rotates through refresh *)
(* tokens one at a time, and what has lapsed never comes back.  OAuthTokens *)
(* implements it.                                                          *)
(***************************************************************************)
EXTENDS Naturals, Sequences, FiniteSets

CONSTANT Consents  \* the names of consents

VARIABLES
    open,     \* consents that can still be redeemed
    spent,    \* consents that were redeemed or have lapsed
    holders,  \* per family, in the order they began: its live refresh tokens
    issued    \* refresh tokens ever issued, which are numbered

famVars == <<open, spent, holders, issued>>

Families == 1 .. Len(holders)

FamInit ==
    /\ open = {}
    /\ spent = {}
    /\ holders = <<>>
    /\ issued = 0

Consent(g) ==
    /\ g \notin open \cup spent
    /\ open' = open \cup {g}
    /\ UNCHANGED <<spent, holders, issued>>

Redeem(g) ==
    /\ g \in open
    /\ open' = open \ {g}
    /\ spent' = spent \cup {g}
    /\ issued' = issued + 1
    /\ holders' = Append(holders, {issued + 1})

Rotate(f) ==
    /\ holders[f] # {}
    /\ issued' = issued + 1
    /\ holders' = [holders EXCEPT ![f] = {issued + 1}]
    /\ UNCHANGED <<open, spent>>

\* Time, or a revocation, ends consents and families.
Lapse(gone, dead) ==
    /\ open' = open \ gone
    /\ spent' = spent \cup gone
    /\ holders' = [f \in Families |-> IF f \in dead THEN {} ELSE holders[f]]
    /\ UNCHANGED issued

FamNext ==
    \/ \E g \in Consents : Consent(g) \/ Redeem(g)
    \/ \E f \in Families : Rotate(f)
    \/ \E gone \in SUBSET open, dead \in SUBSET Families : Lapse(gone, dead)

FamSpec == FamInit /\ [][FamNext]_famVars

===============================================================================
