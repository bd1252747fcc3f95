----------------------------- MODULE LeasedQueue ------------------------------
(***************************************************************************)
(* What the agent inbox promises of a message, without processes, requests *)
(* and sessions: it is leased for a while and comes back when the lease    *)
(* has run out, it is handed over a bounded number of times between two    *)
(* retries, it is answered once and only out of a lease, and what is       *)
(* closed stays closed.  AgentInbox implements it.                         *)
(***************************************************************************)
EXTENDS Naturals

CONSTANTS
    Items,
    Replies,    \* what a reply can be
    NoLease,
    LeaseTime,  \* ticks a lease runs
    MaxTries    \* how often an item is handed over between two retries

VARIABLES
    place,    \* per item: outside, waiting, leased, review or closed
    left,     \* ticks its lease still runs
    tries,    \* how often it was handed over since the last retry
    replies,  \* the agent's replies to it
    old       \* the items too old to be queued

queue == <<place, left, tries, replies, old>>

QueueInit ==
    /\ place = [i \in Items |-> "outside"]
    /\ left = [i \in Items |-> NoLease]
    /\ tries = [i \in Items |-> 0]
    /\ replies = [i \in Items |-> {}]
    /\ old = {}

LeaseOver(i) == place[i] = "leased" /\ left[i] = 0

Arrive(i) ==
    /\ place[i] = "outside"
    /\ place' = [place EXCEPT ![i] = "waiting"]
    /\ UNCHANGED <<left, tries, replies, old>>

Pass ==
    /\ left' = [i \in Items |-> IF left[i] \in 1 .. LeaseTime THEN left[i] - 1 ELSE left[i]]
    /\ old' \in SUBSET Items /\ old \subseteq old'
    /\ UNCHANGED <<place, tries, replies>>

\* An item beyond its budget is leased to be rejected, and not handed over.
Take(i, given) ==
    /\ place[i] = "waiting" \/ LeaseOver(i)
    /\ given => tries[i] < MaxTries
    /\ place' = [place EXCEPT ![i] = "leased"]
    /\ left' = [left EXCEPT ![i] = LeaseTime]
    /\ tries' = [tries EXCEPT ![i] = IF given THEN @ + 1 ELSE @]
    /\ UNCHANGED <<replies, old>>

\* The recovery looks at all items at once.
TakeBack(back, up) ==
    /\ \A i \in back : LeaseOver(i) /\ i \notin old
    /\ \A i \in up : LeaseOver(i) \/ (place[i] = "waiting" /\ i \in old)
    /\ place' = [i \in Items |-> IF i \in back THEN "waiting"
                                 ELSE IF i \in up THEN "review" ELSE place[i]]
    /\ left' = [i \in Items |-> IF i \in back \cup up THEN NoLease ELSE left[i]]
    /\ UNCHANGED <<tries, replies, old>>

Answer(i) ==
    /\ place[i] = "leased"
    /\ replies[i] = {}
    /\ \E k \in Replies : replies' = [replies EXCEPT ![i] = {k}]
    /\ place' = [place EXCEPT ![i] = "closed"]
    /\ left' = [left EXCEPT ![i] = NoLease]
    /\ UNCHANGED <<tries, old>>

\* A verdict without a reply may come after the lease was taken back.
Decide(i, verdict) ==
    /\ place[i] \in {"waiting", "leased", "review"}
    /\ place' = [place EXCEPT ![i] = verdict]
    /\ left' = [left EXCEPT ![i] = NoLease]
    /\ UNCHANGED <<tries, replies, old>>

\* The operator may close anything ...
Close(i) ==
    /\ place[i] # "outside"
    /\ place' = [place EXCEPT ![i] = "closed"]
    /\ left' = [left EXCEPT ![i] = NoLease]
    /\ UNCHANGED <<tries, replies, old>>

\* ... and retry what waits for review, was never answered and is not too old.
Retry(i) ==
    /\ place[i] = "review"
    /\ replies[i] = {}
    /\ i \notin old
    /\ place' = [place EXCEPT ![i] = "waiting"]
    /\ tries' = [tries EXCEPT ![i] = 0]
    /\ UNCHANGED <<left, replies, old>>

QueueNext ==
    \/ Pass
    \/ \E back, up \in SUBSET Items : TakeBack(back, up)
    \/ \E i \in Items :
         \/ Arrive(i) \/ Answer(i) \/ Close(i) \/ Retry(i)
         \/ \E given \in BOOLEAN : Take(i, given)
         \/ \E verdict \in {"closed", "review"} : Decide(i, verdict)

QueueSpec == QueueInit /\ [][QueueNext]_queue

===============================================================================
