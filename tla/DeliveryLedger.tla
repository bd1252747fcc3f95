---------------------------- MODULE DeliveryLedger ----------------------------
(***************************************************************************)
(* What the send path promises the operator, without threads, queue and    *)
(* statuses: a delivery spends an approval, only what the bridge confirmed *)
(* is told as sent, and each confirmation enters the history once at most. *)
(* OutreachSend implements it, whatever its threads and crashes do.        *)
(***************************************************************************)
EXTENDS Naturals

CONSTANT Messages

VARIABLES
    approved,   \* per message: how often the operator approved it
    taken,      \* how often WhatsApp took it
    confirmed,  \* how often the bridge also said so
    recorded,   \* how often the history of the lead shows it as sent
    told        \* the messages the CRM calls sent

ledger == <<approved, taken, confirmed, recorded, told>>

LedgerInit ==
    /\ approved = [m \in Messages |-> 0]
    /\ taken = [m \in Messages |-> 0]
    /\ confirmed = [m \in Messages |-> 0]
    /\ recorded = [m \in Messages |-> 0]
    /\ told = {}

\* A late approval may take back what was told of the same message.
Approve(m) ==
    /\ approved' = [approved EXCEPT ![m] = @ + 1]
    /\ told' \in {told, told \ {m}}
    /\ UNCHANGED <<taken, confirmed, recorded>>

Deliver(m, heard) ==
    /\ taken[m] < approved[m]
    /\ taken' = [taken EXCEPT ![m] = @ + 1]
    /\ confirmed' = IF heard THEN [confirmed EXCEPT ![m] = @ + 1] ELSE confirmed
    /\ UNCHANGED <<approved, recorded, told>>

Tell(m) ==
    /\ confirmed[m] > 0
    /\ told' = told \cup {m}
    /\ UNCHANGED <<approved, taken, confirmed, recorded>>

Retract(m) ==
    /\ told' = told \ {m}
    /\ UNCHANGED <<approved, taken, confirmed, recorded>>

Enter(m) ==
    /\ recorded[m] < confirmed[m]
    /\ recorded' = [recorded EXCEPT ![m] = @ + 1]
    /\ UNCHANGED <<approved, taken, confirmed, told>>

LedgerNext ==
    \E m \in Messages :
        \/ Approve(m) \/ Tell(m) \/ Retract(m) \/ Enter(m)
        \/ \E heard \in BOOLEAN : Deliver(m, heard)

LedgerSpec == LedgerInit /\ [][LedgerNext]_ledger

===============================================================================
