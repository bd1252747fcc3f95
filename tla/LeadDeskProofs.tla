---------------------------- MODULE LeadDeskProofs ----------------------------
(***************************************************************************)
(* What TLAPS proves of LeadDesk, for any listings, keys, results, limits  *)
(* and bounds: its types, that an upsert which was not overtaken inserts   *)
(* no second lead of a company, the queue limit of the server's cycles,    *)
(* that no prospect outlives its campaign, and that a reset deletes what   *)
(* it showed and backed up but for what the production check took away.    *)
(***************************************************************************)
EXTENDS LeadDesk, SequenceTheorems, FiniteSetTheorems, WellFoundedInduction, TLAPS

Campaign == [vertical : 0 .. Verticals, live : BOOLEAN]
Job == [source : Sources \cup {"none"}, todo : Seq(Listings),
        campaign : 0 .. MaxCampaigns, found : 0 .. MaxLeads]
Steps == {"idle", "vertical", "register", "next", "find", "write", "save"}
Busy == {"register", "next", "find", "write", "save"}

\* The type invariant in parts.
TableTyped ==
    /\ leads \in Seq(Lead) /\ Len(leads) <= MaxLeads
    /\ campaigns \in Seq(Campaign) /\ Len(campaigns) <= MaxCampaigns
WorkTyped ==
    /\ at \in [Writers -> Steps]
    /\ job \in [Writers -> Job]
    /\ cycle \in [row : BOOLEAN, vertical : 0 .. Verticals + 1, room : 0 .. Target]
ResetTyped ==
    reset \in [at : {"idle", "shown", "backed"}, leads : Nat, campaigns : Nat,
               shown : SUBSET Leads, backup : SUBSET Leads]
HistoryTyped ==
    /\ events \in 0 .. MaxEvents
    /\ overtaken \subseteq Writers /\ queued \subseteq Leads

\* A writer between find and save has a listing in hand, it knows where its leads belong,
\* and a cycle at work has a vertical and, for the listing in hand, room in its target.
JobsOK ==
    /\ \A w \in Writers :
         /\ at[w] \in {"find", "write", "save"} => job[w].todo # <<>>
         /\ at[w] \in Busy => /\ job[w].source \in Sources
                              /\ job[w].source # "inbound" => job[w].campaign # 0
    /\ at["cycle"] \in Busy => cycle.vertical <= Verticals
    /\ at["cycle"] \in {"find", "write", "save"} => cycle.room > 0

DeskTyped == TypeOK /\ JobsOK

LEMMA TypeParts == TypeOK <=> TableTyped /\ WorkTyped /\ ResetTyped /\ HistoryTyped
  BY DEF TypeOK, TableTyped, WorkTyped, ResetTyped, HistoryTyped, Campaign, Job, Steps

LEMMA TypePartsNext == TypeOK' <=> TableTyped' /\ WorkTyped' /\ ResetTyped' /\ HistoryTyped'
  BY TypeParts, PTL

LEMMA Bounds ==
  /\ MaxLeads \in Nat /\ MaxCampaigns \in Nat /\ MaxEvents \in Nat
  /\ QueueLimit \in Nat /\ Target \in Nat /\ Verticals \in Nat
  /\ QueueLimit > 0 /\ Target > 0 /\ Verticals > 0
  /\ Contact \in Listings
  /\ \A x \in Listings : /\ Name[x] \in AllNames /\ Location[x] \in AllLocations
                         /\ Phones[x] \subseteq AllPhones
  BY DeskAssumption DEF AllNames, AllLocations, AllPhones

-------------------------------------------------------------------------------
\* Sets of rows, and the search for the oldest of them

LEMMA Least ==
  ASSUME NEW S \in SUBSET Nat, S # {}
  PROVE  \E l \in S : \A m \in S : l <= m
  <1> DEFINE R == {ss \in Nat \X Nat : ss[1] < ss[2]}
  <1>1. IsWellFoundedOn(R, Nat)
    BY NatLessThanWellFounded, Zenon DEF OpToRel
  <1> HIDE DEF R
  <1>2. PICK x \in S : \A y \in S : ~ (<<y, x>> \in R)
    BY <1>1, WFMin
  <1>3. \A y \in S : ~ (y < x)
    BY <1>2 DEF R
  <1> QED
    BY <1>3

LEMMA OldestFound ==
  ASSUME NEW S \in SUBSET Nat
  PROVE  (S = {} /\ Oldest(S) = 0) \/ Oldest(S) \in S
  BY Least DEF Oldest

LEMMA Rows ==
  ASSUME TypeOK
  PROVE  /\ Leads = 1 .. Len(leads) /\ Len(leads) \in Nat /\ Len(leads) <= MaxLeads
         /\ Live \subseteq Leads /\ Leads \subseteq Nat \ {0} /\ IsFiniteSet(Leads)
         /\ DOMAIN campaigns = 1 .. Len(campaigns) /\ Len(campaigns) \in Nat
         /\ Len(campaigns) <= MaxCampaigns
         /\ LiveCampaigns \subseteq 1 .. Len(campaigns)
         /\ \A l \in Leads : leads[l] \in Lead
         /\ \A c \in DOMAIN campaigns : campaigns[c] \in Campaign
         /\ Prospects \subseteq Live /\ Queue \subseteq Prospects
  <1>1. /\ leads \in Seq(Lead) /\ Len(leads) <= MaxLeads
        /\ campaigns \in Seq(Campaign) /\ Len(campaigns) <= MaxCampaigns
    BY TypeParts DEF TableTyped
  <1>2. Leads = 1 .. Len(leads) /\ Len(leads) \in Nat
    BY <1>1 DEF Leads
  <1>3. DOMAIN campaigns = 1 .. Len(campaigns) /\ Len(campaigns) \in Nat
    BY <1>1
  <1>4. IsFiniteSet(Leads)
    BY <1>2, FS_Interval
  <1>5. LiveCampaigns \subseteq 1 .. Len(campaigns)
    BY <1>3 DEF LiveCampaigns
  <1>6. \A c \in DOMAIN campaigns : campaigns[c] \in Campaign
    BY <1>1
  <1>7. \A l \in Leads : leads[l] \in Lead
    BY <1>1, <1>2
  <1>8. Live \subseteq Leads /\ Prospects \subseteq Live /\ Queue \subseteq Prospects
    BY DEF Live, Prospects, Queue
  <1> QED
    BY <1>1, <1>2, <1>3, <1>4, <1>5, <1>6, <1>7, <1>8

\* The search finds a live lead or nothing, and nothing only if no key matches.
LEMMA DuplicateFound ==
  ASSUME TypeOK, NEW x, NEW phones
  PROVE  LET d == Duplicate(x, phones)
         IN  \/ d \in Live
             \/ /\ d = 0
                /\ \A l \in Live : /\ Site[leads[l].listing] # Site[x]
                                   /\ leads[l].phones \cap phones = {}
                                   /\ ~ /\ Cautious(Name[x], Location[x])
                                        /\ leads[l].name = Name[x]
                                        /\ leads[l].location = Location[x]
  <1> DEFINE bySite == {l \in Live : Site[leads[l].listing] = Site[x]}
             byPhone == {l \in Live : leads[l].phones \cap phones # {}}
             byName == {l \in Live : /\ Cautious(Name[x], Location[x])
                                     /\ leads[l].name = Name[x]
                                     /\ leads[l].location = Location[x]}
             S == IF bySite # {} THEN bySite ELSE IF byPhone # {} THEN byPhone ELSE byName
  <1>1. Duplicate(x, phones) = Oldest(S)
    BY DEF Duplicate
  <1>2. S \subseteq Live /\ 0 \notin Live /\ Live \subseteq Nat
    BY Rows
  <1>3. (S = {} /\ Oldest(S) = 0) \/ Oldest(S) \in S
    BY <1>2, OldestFound
  <1>4. S = {} => bySite = {} /\ byPhone = {} /\ byName = {}
    OBVIOUS
  <1> QED
    BY <1>1, <1>2, <1>3, <1>4

-------------------------------------------------------------------------------
\* The types: what the writers do

LEMMA WriterFacts ==
  ASSUME DeskTyped, NEW w \in Writers
  PROVE  /\ at[w] \in Steps /\ job[w] \in Job
         /\ at[w] \in {"find", "write", "save"} =>
              job[w].todo \in Seq(Listings) /\ job[w].todo # <<>> /\ Candidate(w) \in Listings
         /\ at[w] \in Busy => job[w].source \in Sources
         /\ at[w] \in Busy /\ job[w].source # "inbound" => job[w].campaign # 0
  <1>1. at[w] \in Steps /\ job[w] \in Job
    BY TypeParts DEF DeskTyped, WorkTyped
  <1>2. job[w].todo \in Seq(Listings)
    BY <1>1 DEF Job
  <1>3. job[w].todo # <<>> => Head(job[w].todo) \in Listings
    BY <1>2, HeadTailProperties
  <1> QED
    BY <1>1, <1>2, <1>3 DEF DeskTyped, JobsOK, Candidate

\* Setting one writer's label and job, and perhaps the cycle, keeps the types.
LEMMA WriterSet ==
  ASSUME DeskTyped, NEW w \in Writers, NEW a \in Steps, NEW j \in Job,
         at' = [at EXCEPT ![w] = a], job' = [job EXCEPT ![w] = j],
         cycle' \in [row : BOOLEAN, vertical : 0 .. Verticals + 1, room : 0 .. Target],
         w # "cycle" => cycle' = cycle,
         a \in {"find", "write", "save"} => j.todo # <<>>,
         a \in Busy => j.source \in Sources /\ (j.source # "inbound" => j.campaign # 0),
         w = "cycle" /\ a \in Busy => cycle'.vertical <= Verticals,
         w = "cycle" /\ a \in {"find", "write", "save"} => cycle'.room > 0
  PROVE  WorkTyped' /\ JobsOK'
  <1>1. WorkTyped /\ JobsOK
    BY TypeParts DEF DeskTyped
  <1>2. WorkTyped'
    BY <1>1 DEF WorkTyped
  <1>3. at'[w] = a /\ job'[w] = j /\ \A v \in Writers : v # w => at'[v] = at[v] /\ job'[v] = job[v]
    BY <1>1 DEF WorkTyped
  <1>4. ASSUME NEW v \in Writers
        PROVE  /\ at'[v] \in {"find", "write", "save"} => job'[v].todo # <<>>
               /\ at'[v] \in Busy => /\ job'[v].source \in Sources
                                     /\ job'[v].source # "inbound" => job'[v].campaign # 0
    BY <1>1, <1>3 DEF JobsOK
  <1>5. "cycle" \in Writers
    BY DEF Writers
  <1>6. /\ at'["cycle"] \in Busy => cycle'.vertical <= Verticals
        /\ at'["cycle"] \in {"find", "write", "save"} => cycle'.room > 0
    BY <1>1, <1>3, <1>5 DEF JobsOK
  <1> QED
    BY <1>2, <1>4, <1>6 DEF JobsOK

LEMMA Constants ==
  /\ NoJob \in Job /\ NoJob.todo = <<>>
  /\ NoCycle \in [row : BOOLEAN, vertical : 0 .. Verticals + 1, room : 0 .. Target]
  /\ "cycle" \in Writers /\ "tool" \in Writers /\ "inbox" \in Writers
  BY Bounds DEF NoJob, Job, NoCycle, Writers

LEMMA CycleTyped ==
  ASSUME DeskTyped
  PROVE  cycle \in [row : BOOLEAN, vertical : 0 .. Verticals + 1, room : 0 .. Target]
  BY TypeParts DEF DeskTyped, WorkTyped

LEMMA RestKeeps ==
  ASSUME DeskTyped, NEW w \in Writers, Rest(w)
  PROVE  WorkTyped' /\ JobsOK'
  <1>1. /\ at' = [at EXCEPT ![w] = "idle"] /\ job' = [job EXCEPT ![w] = NoJob]
        /\ cycle' = IF w = "cycle" THEN NoCycle ELSE cycle
    BY DEF Rest
  <1>2. "idle" \in Steps /\ "idle" \notin Busy
    BY DEF Steps, Busy
  <1> QED
    BY <1>1, <1>2, Constants, CycleTyped, WriterSet

LEMMA JobFound ==
  ASSUME NEW r \in Job, NEW d
  PROVE  [r EXCEPT !.found = d]
           = [source |-> r.source, todo |-> r.todo, campaign |-> r.campaign, found |-> d]
  BY DEF Job

LEMMA JobMoved ==
  ASSUME NEW r \in Job, NEW t, NEW d
  PROVE  [r EXCEPT !.todo = t, !.found = d]
           = [source |-> r.source, todo |-> t, campaign |-> r.campaign, found |-> d]
  <1>1. PICK q : q = [source |-> r.source, todo |-> t, campaign |-> r.campaign, found |-> r.found]
    OBVIOUS
  <1>2. [r EXCEPT !.todo = t] = q
    BY <1>1 DEF Job
  <1>3. [r EXCEPT !.todo = t, !.found = d] = [q EXCEPT !.found = d]
    BY <1>2
  <1>4. [q EXCEPT !.found = d]
          = [source |-> r.source, todo |-> t, campaign |-> r.campaign, found |-> d]
    BY <1>1
  <1> QED
    BY <1>3, <1>4

LEMMA OnwardKeeps ==
  ASSUME DeskTyped, NEW w \in Writers, at[w] \in Busy, job[w].todo # <<>>, Onward(w)
  PROVE  WorkTyped' /\ JobsOK'
  <1> DEFINE rest == Tail(job[w].todo)
             j == [source |-> job[w].source, todo |-> rest,
                   campaign |-> job[w].campaign, found |-> 0]
             a == IF w = "cycle" THEN "next" ELSE "find"
  <1>1. CASE w # "cycle" /\ rest = <<>>
    BY <1>1, RestKeeps DEF Onward
  <1>2. CASE ~ (w # "cycle" /\ rest = <<>>)
    <2>1. /\ job' = [job EXCEPT ![w].todo = rest, ![w].found = 0]
          /\ at' = [at EXCEPT ![w] = a] /\ cycle' = cycle
      BY <1>2 DEF Onward
    <2>3. job[w] \in Job /\ job[w].todo \in Seq(Listings)
      BY WriterFacts DEF Job
    <2>9. [job[w] EXCEPT !.todo = rest, !.found = 0] = j
      BY <2>3, JobMoved, Zenon
    <2>2. job' = [job EXCEPT ![w] = j]
      BY <2>1, <2>9
    <2>4. rest \in Seq(Listings)
      BY <2>3, HeadTailProperties
    <2>5. j \in Job /\ j.todo = rest /\ j.source = job[w].source /\ j.campaign = job[w].campaign
      BY <2>3, <2>4, Bounds DEF Job
    <2>6. /\ job[w].source \in Sources
          /\ job[w].source # "inbound" => job[w].campaign # 0
      BY WriterFacts
    <2>7. a \in Steps /\ ("next" \notin {"find", "write", "save"})
      BY DEF Steps
    <2>8. w = "cycle" => cycle.vertical <= Verticals
      BY DEF DeskTyped, JobsOK
    <2>10. a = "find" => w # "cycle" /\ j.todo # <<>>
      BY <1>2, <2>5
    <2>11. a \in Busy /\ a \notin {"write", "save"}
      BY DEF Busy
    <2>12. cycle' \in [row : BOOLEAN, vertical : 0 .. Verticals + 1, room : 0 .. Target]
      BY <2>1, CycleTyped
    <2> HIDE DEF j, rest, a
    <2>13. /\ a \in {"find", "write", "save"} => j.todo # <<>>
           /\ a \in Busy => j.source \in Sources /\ (j.source # "inbound" => j.campaign # 0)
           /\ w = "cycle" /\ a \in Busy => cycle'.vertical <= Verticals
           /\ w = "cycle" /\ a \in {"find", "write", "save"} => cycle'.room > 0
      BY <2>1, <2>5, <2>6, <2>8, <2>10, <2>11
    <2> QED
      BY <2>1, <2>2, <2>5, <2>7, <2>12, <2>13, WriterSet
  <1> QED
    BY <1>1, <1>2

LEMMA WorkKept ==
  ASSUME DeskTyped, UNCHANGED work
  PROVE  WorkTyped' /\ JobsOK'
  BY TypeParts DEF DeskTyped, WorkTyped, JobsOK, work

LEMMA ResultsTyped ==
  ASSUME NEW source \in {"search", "import", "check", "autopilot"}, NEW results \in Results[source]
  PROVE  results \in Seq(Listings) /\ results # <<>>
  <1>1. results \in Seq(Listings \ {Contact}) /\ results # <<>>
    BY DeskAssumption
  <1> QED
    BY <1>1

LEMMA ToolWorks ==
  ASSUME DeskTyped, NEW source \in {"search", "import", "check"}, NEW results \in Results[source],
         ToolBegins(source, results)
  PROVE  WorkTyped' /\ JobsOK'
  <1>1. PICK c \in 1 .. MaxCampaigns :
          job' = [job EXCEPT !["tool"] =
                    [source |-> source, todo |-> results, campaign |-> c, found |-> 0]]
    BY DEF ToolBegins
  <1>2. at' = [at EXCEPT !["tool"] = "find"] /\ cycle' = cycle /\ "find" \in Steps
    BY DEF ToolBegins, Steps
  <1>3. results \in Seq(Listings) /\ results # <<>>
    BY ResultsTyped
  <1>4. PICK j : j = [source |-> source, todo |-> results, campaign |-> c, found |-> 0]
    OBVIOUS
  <1>5. j \in Job /\ j.source \in Sources /\ j.campaign # 0 /\ j.todo # <<>>
    BY <1>1, <1>3, <1>4, Bounds DEF Job, Sources
  <1>6. cycle' \in [row : BOOLEAN, vertical : 0 .. Verticals + 1, room : 0 .. Target]
    BY <1>2, CycleTyped
  <1> QED
    BY <1>1, <1>2, <1>4, <1>5, <1>6, Constants, WriterSet

\* Two fields of a new job, one after the other.
LEMMA NewJob ==
  ASSUME NEW v, NEW t
  PROVE  /\ [NoJob EXCEPT !.source = v, !.todo = t]
              = [source |-> v, todo |-> t, campaign |-> 0, found |-> 0]
         /\ [NoJob EXCEPT !.source = v, !.campaign = t]
              = [source |-> v, todo |-> <<>>, campaign |-> t, found |-> 0]
  <1>1. PICK n : n = [source |-> "none", todo |-> <<>>, campaign |-> 0, found |-> 0]
    OBVIOUS
  <1>2. PICK q : q = [source |-> v, todo |-> <<>>, campaign |-> 0, found |-> 0]
    OBVIOUS
  <1>3. [n EXCEPT !.source = v] = q
    BY <1>1, <1>2
  <1>4. [n EXCEPT !.source = v, !.todo = t] = [q EXCEPT !.todo = t]
    BY <1>3
  <1>5. [n EXCEPT !.source = v, !.campaign = t] = [q EXCEPT !.campaign = t]
    BY <1>3
  <1>6. [q EXCEPT !.todo = t] = [source |-> v, todo |-> t, campaign |-> 0, found |-> 0]
    BY <1>2
  <1>7. [q EXCEPT !.campaign = t] = [source |-> v, todo |-> <<>>, campaign |-> t, found |-> 0]
    BY <1>2
  <1>8. NoJob = n
    BY <1>1 DEF NoJob
  <1> QED
    BY <1>4, <1>5, <1>6, <1>7, <1>8, Zenon

LEMMA ContactWorks ==
  ASSUME DeskTyped, ContactWrites
  PROVE  WorkTyped' /\ JobsOK'
  <1> DEFINE j == [source |-> "inbound", todo |-> <<Contact>>, campaign |-> 0, found |-> 0]
  <1>1. [NoJob EXCEPT !.source = "inbound", !.todo = <<Contact>>] = j
    BY NewJob, Zenon
  <1>2. /\ job' = [job EXCEPT !["inbox"] = j] /\ at' = [at EXCEPT !["inbox"] = "find"]
        /\ cycle' = cycle /\ "find" \in Steps
    BY <1>1 DEF ContactWrites, Steps
  <1>3. <<Contact>> \in Seq(Listings) /\ <<Contact>> # <<>>
    BY Bounds
  <1>4. j \in Job /\ j.source = "inbound" /\ j.source \in Sources /\ j.todo # <<>>
    BY <1>3, Bounds DEF Job, Sources
  <1>5. cycle' \in [row : BOOLEAN, vertical : 0 .. Verticals + 1, room : 0 .. Target]
    BY <1>2, CycleTyped
  <1> HIDE DEF j
  <1> QED
    BY <1>2, <1>4, <1>5, Constants, WriterSet

LEMMA FindWorks ==
  ASSUME DeskTyped, NEW w \in Writers, Find(w)
  PROVE  WorkTyped' /\ JobsOK'
  <1>1. PICK d : d = Duplicate(Candidate(w), Given(Candidate(w), job[w].source))
    OBVIOUS
  <1>2. /\ at[w] = "find" /\ job' = [job EXCEPT ![w].found = d]
        /\ at' = [at EXCEPT ![w] = "write"] /\ cycle' = cycle
    BY <1>1 DEF Find
  <1>3. d \in 0 .. MaxLeads
    BY <1>1, DuplicateFound, Rows, Bounds DEF DeskTyped
  <1>4. PICK j : j = [source |-> job[w].source, todo |-> job[w].todo,
                      campaign |-> job[w].campaign, found |-> d]
    OBVIOUS
  <1>5. job[w] \in Job /\ [job[w] EXCEPT !.found = d] = j
    BY <1>4, WriterFacts, JobFound
  <1>6. job' = [job EXCEPT ![w] = j]
    BY <1>2, <1>5
  <1>7. /\ job[w].todo # <<>> /\ job[w].source \in Sources
        /\ job[w].source # "inbound" => job[w].campaign # 0
    BY <1>2, WriterFacts DEF Busy
  <1>8. j \in Job /\ j.todo # <<>> /\ j.source \in Sources /\ (j.source # "inbound" => j.campaign # 0)
    BY <1>3, <1>4, <1>5, <1>7 DEF Job
  <1>9. cycle' \in [row : BOOLEAN, vertical : 0 .. Verticals + 1, room : 0 .. Target]
    BY <1>2, CycleTyped
  <1>10. w = "cycle" => cycle'.vertical <= Verticals /\ cycle'.room > 0
    BY <1>2 DEF DeskTyped, JobsOK, Busy
  <1>11. "write" \in Steps
    BY DEF Steps
  <1> QED
    BY <1>2, <1>6, <1>8, <1>9, <1>10, <1>11, WriterSet

LEMMA WriteWorks ==
  ASSUME DeskTyped, NEW w \in Writers, Write(w)
  PROVE  WorkTyped' /\ JobsOK'
  <1>0. at[w] = "write" /\ at[w] \in Busy
    BY DEF Write, Busy
  <1>1. CASE w # "cycle"
    BY <1>0, <1>1, WriterFacts, OnwardKeeps DEF Write
  <1>2. CASE w = "cycle"
    <2>1. PICK d : d = IF job[w].found = 0 THEN Len(leads) + 1 ELSE job[w].found
      OBVIOUS
    <2>2. /\ at' = [at EXCEPT ![w] = "save"] /\ cycle' = cycle
          /\ job' = [job EXCEPT ![w].found = IF @ = 0 THEN Len(leads) + 1 ELSE @]
      BY <1>2 DEF Write
    <2>3. job[w] \in Job /\ job[w].found \in 0 .. MaxLeads
      BY WriterFacts DEF Job
    <2>4. job[w].found = 0 => Len(leads) < MaxLeads
      <3>1. Inserts(w) \/ Merges(w)
        BY DEF Write
      <3>2. 0 \notin Live
        BY Rows DEF DeskTyped
      <3> QED
        BY <3>1, <3>2 DEF Inserts, Merges
    <2>5. d \in 0 .. MaxLeads
      BY <2>1, <2>3, <2>4, Rows, Bounds DEF DeskTyped
    <2>6. PICK j : j = [source |-> job[w].source, todo |-> job[w].todo,
                        campaign |-> job[w].campaign, found |-> d]
      OBVIOUS
    <2>7. [job[w] EXCEPT !.found = d] = j
      BY <2>3, <2>6, JobFound
    <2>8. job' = [job EXCEPT ![w] = j]
      BY <2>1, <2>2, <2>7
    <2>9. /\ job[w].todo # <<>> /\ job[w].source \in Sources
          /\ job[w].source # "inbound" => job[w].campaign # 0
      BY <1>0, WriterFacts
    <2>10. /\ j \in Job /\ j.todo # <<>> /\ j.source \in Sources
           /\ j.source # "inbound" => j.campaign # 0
      BY <2>3, <2>5, <2>6, <2>9 DEF Job
    <2>11. cycle' \in [row : BOOLEAN, vertical : 0 .. Verticals + 1, room : 0 .. Target]
      BY <2>2, CycleTyped
    <2>12. cycle'.vertical <= Verticals /\ cycle'.room > 0 /\ "save" \in Steps
      BY <1>0, <1>2, <2>2 DEF DeskTyped, JobsOK, Steps
    <2> QED
      BY <1>2, <2>2, <2>8, <2>10, <2>11, <2>12, WriterSet
  <1> QED
    BY <1>1, <1>2

LEMMA WriteFailsWorks ==
  ASSUME DeskTyped, NEW w \in Writers, WriteFails(w)
  PROVE  WorkTyped' /\ JobsOK'
  <1>1. at[w] = "write" /\ at[w] \in Busy
    BY DEF WriteFails, Busy
  <1>2. Onward(w) \/ Rest(w)
    BY DEF WriteFails
  <1> QED
    BY <1>1, <1>2, WriterFacts, OnwardKeeps, RestKeeps

LEMMA CycleBeginsWorks ==
  ASSUME DeskTyped, CycleBegins
  PROVE  WorkTyped' /\ JobsOK'
  <1>1. /\ at' = [at EXCEPT !["cycle"] = "vertical"] /\ job' = job
        /\ cycle' = [row |-> TRUE, vertical |-> 1, room |-> 0]
        /\ "vertical" \in Steps /\ "vertical" \notin Busy
    BY DEF CycleBegins, Steps, Busy
  <1>2. job["cycle"] \in Job /\ job' = [job EXCEPT !["cycle"] = job["cycle"]]
    BY <1>1, Constants, WriterFacts, TypeParts DEF DeskTyped, WorkTyped
  <1>3. cycle' \in [row : BOOLEAN, vertical : 0 .. Verticals + 1, room : 0 .. Target]
    BY <1>1, Bounds
  <1> QED
    BY <1>1, <1>2, <1>3, Constants, WriterSet

LEMMA CampaignAdded ==
  ASSUME TypeOK, NEW v \in 0 .. Verticals, CreateCampaign(v)
  PROVE  /\ campaigns' \in Seq(Campaign) /\ Len(campaigns') <= MaxCampaigns
         /\ Len(campaigns) + 1 \in 1 .. MaxCampaigns
         /\ LiveCampaigns' = LiveCampaigns \cup {Len(campaigns) + 1}
         /\ Len(campaigns') = Len(campaigns) + 1
  <1>1. campaigns \in Seq(Campaign) /\ Len(campaigns) < MaxCampaigns /\ Len(campaigns) \in Nat
    BY TypeParts, Rows DEF TableTyped, CreateCampaign
  <1>2. PICK e \in Campaign : e = [vertical |-> v, live |-> TRUE]
    BY DEF Campaign
  <1>3. campaigns' = Append(campaigns, e) /\ e.live
    BY <1>2 DEF CreateCampaign
  <1>4. /\ campaigns' \in Seq(Campaign) /\ Len(campaigns') = Len(campaigns) + 1
        /\ \A c \in 1 .. Len(campaigns) : campaigns'[c] = campaigns[c]
        /\ campaigns'[Len(campaigns) + 1] = e
    BY <1>1, <1>3
  <1>5. DOMAIN campaigns = 1 .. Len(campaigns) /\ DOMAIN campaigns' = 1 .. Len(campaigns) + 1
    BY <1>1, <1>4
  <1>6. LiveCampaigns' = LiveCampaigns \cup {Len(campaigns) + 1}
    BY <1>1, <1>3, <1>4, <1>5 DEF LiveCampaigns
  <1> QED
    BY <1>1, <1>4, <1>6, Bounds

LEMMA VerticalWorks ==
  ASSUME DeskTyped, Vertical
  PROVE  WorkTyped' /\ JobsOK'
  <1> DEFINE slots == QueueLimit - Cardinality(Queue)
             same == {c \in LiveCampaigns : campaigns[c].vertical = cycle.vertical}
             own == IF same = {} THEN Len(campaigns) + 1 ELSE Oldest(same)
             j == [source |-> "autopilot", todo |-> <<>>, campaign |-> own, found |-> 0]
  <1>1. /\ at' = [at EXCEPT !["cycle"] = "register"]
        /\ job' = [job EXCEPT !["cycle"] = [NoJob EXCEPT !.source = "autopilot", !.campaign = own]]
        /\ cycle' = [cycle EXCEPT !.room = Smaller(Target, slots)]
        /\ slots > 0 /\ cycle.vertical <= Verticals
        /\ same = {} => CreateCampaign(cycle.vertical)
    BY DEF Vertical
  <1>2. cycle.vertical \in 0 .. Verticals
    BY <1>1, CycleTyped, Bounds
  <1>3. own \in 1 .. MaxCampaigns
    <2>1. same \subseteq 1 .. Len(campaigns) /\ Len(campaigns) \in Nat /\ Len(campaigns) <= MaxCampaigns
      BY Rows DEF DeskTyped
    <2>2. same = {} => Len(campaigns) + 1 \in 1 .. MaxCampaigns
      BY <1>1, <1>2, CampaignAdded DEF DeskTyped
    <2>3. same # {} => Oldest(same) \in same
      BY <2>1, OldestFound
    <2>4. 1 .. Len(campaigns) \subseteq 1 .. MaxCampaigns
      BY <2>1, Bounds
    <2>5. same # {} => Oldest(same) \in 1 .. MaxCampaigns
      BY <2>1, <2>3, <2>4, Zenon
    <2> QED
      BY <2>2, <2>5
  <1>4. job' = [job EXCEPT !["cycle"] = j]
    BY <1>1, NewJob
  <1>5. /\ j \in Job /\ j.source \in Sources /\ j.campaign # 0
    BY <1>3, Bounds DEF Job, Sources
  <1>6. Cardinality(Queue) \in Nat
    BY Rows, FS_Subset, FS_CardinalityType DEF DeskTyped
  <1>7. Smaller(Target, slots) \in 0 .. Target
    BY <1>1, <1>6, Bounds DEF Smaller
  <1>8. /\ cycle' \in [row : BOOLEAN, vertical : 0 .. Verticals + 1, room : 0 .. Target]
        /\ cycle'.vertical = cycle.vertical
    BY <1>1, <1>7, CycleTyped
  <1>9. "register" \in Steps /\ "register" \notin {"find", "write", "save"}
    BY DEF Steps
  <1> HIDE DEF j
  <1> QED
    BY <1>1, <1>4, <1>5, <1>8, <1>9, Constants, WriterSet

LEMMA DiscoverWorks ==
  ASSUME DeskTyped, NEW results \in Results["autopilot"], Discover(results)
  PROVE  WorkTyped' /\ JobsOK'
  <1>1. CASE Rest("cycle")
    BY <1>1, Constants, RestKeeps
  <1>2. CASE ~ Rest("cycle")
    <2>1. /\ at["cycle"] = "register" /\ job' = [job EXCEPT !["cycle"].todo = results]
          /\ at' = [at EXCEPT !["cycle"] = "next"] /\ cycle' = cycle
      BY <1>2 DEF Discover
    <2>2. job["cycle"] \in Job
      BY Constants, WriterFacts
    <2>3. PICK j : j = [source |-> job["cycle"].source, todo |-> results,
                        campaign |-> job["cycle"].campaign, found |-> job["cycle"].found]
      OBVIOUS
    <2>4. [job["cycle"] EXCEPT !.todo = results] = j
      BY <2>2, <2>3 DEF Job
    <2>5. job' = [job EXCEPT !["cycle"] = j]
      BY <2>1, <2>4
    <2>6. results \in Seq(Listings)
      BY ResultsTyped
    <2>7. /\ job["cycle"].source \in Sources
          /\ job["cycle"].source # "inbound" => job["cycle"].campaign # 0
      BY <2>1, Constants, WriterFacts DEF Busy
    <2>8. j \in Job /\ j.source \in Sources /\ (j.source # "inbound" => j.campaign # 0)
      BY <2>2, <2>3, <2>6, <2>7 DEF Job
    <2>9. cycle' \in [row : BOOLEAN, vertical : 0 .. Verticals + 1, room : 0 .. Target]
      BY <2>1, CycleTyped
    <2>10. cycle'.vertical <= Verticals /\ "next" \in Steps /\ "next" \notin {"find", "write", "save"}
      BY <2>1 DEF DeskTyped, JobsOK, Busy, Steps
    <2> QED
      BY <2>1, <2>5, <2>8, <2>9, <2>10, Constants, WriterSet
  <1> QED
    BY <1>1, <1>2

LEMMA ConsiderWorks ==
  ASSUME DeskTyped, Consider
  PROVE  WorkTyped' /\ JobsOK'
  <1>1. at["cycle"] = "next" /\ cycle.room > 0 /\ job["cycle"].todo # <<>>
    BY DEF Consider
  <1>2. CASE Onward("cycle")
    BY <1>1, <1>2, Constants, OnwardKeeps DEF Busy
  <1>3. CASE ~ Onward("cycle")
    <2>1. at' = [at EXCEPT !["cycle"] = "find"] /\ job' = job /\ cycle' = cycle
      BY <1>3 DEF Consider
    <2>2. job["cycle"] \in Job /\ job' = [job EXCEPT !["cycle"] = job["cycle"]]
      BY <2>1, Constants, WriterFacts, TypeParts DEF DeskTyped, WorkTyped
    <2>3. /\ job["cycle"].source \in Sources
          /\ job["cycle"].source # "inbound" => job["cycle"].campaign # 0
      BY <1>1, Constants, WriterFacts DEF Busy
    <2>4. cycle' \in [row : BOOLEAN, vertical : 0 .. Verticals + 1, room : 0 .. Target]
      BY <2>1, CycleTyped
    <2>5. cycle'.vertical <= Verticals /\ cycle'.room > 0 /\ "find" \in Steps
      BY <1>1, <2>1 DEF DeskTyped, JobsOK, Busy, Steps
    <2> QED
      BY <1>1, <2>1, <2>2, <2>3, <2>4, <2>5, Constants, WriterSet
  <1> QED
    BY <1>2, <1>3

LEMMA SaveInspectionWorks ==
  ASSUME DeskTyped, NEW sameHost, SaveInspection(sameHost)
  PROVE  WorkTyped' /\ JobsOK'
  <1>1. PICK j : j = [source |-> job["cycle"].source, todo |-> Tail(job["cycle"].todo),
                      campaign |-> job["cycle"].campaign, found |-> 0]
    OBVIOUS
  <1>2. /\ at["cycle"] = "save" /\ at' = [at EXCEPT !["cycle"] = "next"]
        /\ job' = [job EXCEPT !["cycle"].todo = Tail(@), !["cycle"].found = 0]
        /\ cycle' = cycle \/ cycle' = [cycle EXCEPT !.room = @ - 1]
    BY DEF SaveInspection
  <1>3. /\ job["cycle"] \in Job /\ job["cycle"].todo \in Seq(Listings) /\ job["cycle"].todo # <<>>
        /\ job["cycle"].source \in Sources
        /\ job["cycle"].source # "inbound" => job["cycle"].campaign # 0
    BY <1>2, Constants, WriterFacts DEF Busy
  <1>4. Tail(job["cycle"].todo) \in Seq(Listings)
    BY <1>3, HeadTailProperties
  <1>5. [job["cycle"] EXCEPT !.todo = Tail(job["cycle"].todo), !.found = 0] = j
    BY <1>1, <1>3, JobMoved, Zenon
  <1>6. job' = [job EXCEPT !["cycle"] = [job["cycle"] EXCEPT !.todo = Tail(job["cycle"].todo), !.found = 0]]
    BY <1>2, TypeParts, Constants DEF DeskTyped, WorkTyped
  <1>7. job' = [job EXCEPT !["cycle"] = j]
    BY <1>5, <1>6
  <1>8. j \in Job /\ j.source \in Sources /\ (j.source # "inbound" => j.campaign # 0)
    BY <1>1, <1>3, <1>4, Bounds DEF Job
  <1>9. cycle.room > 0 /\ cycle.vertical <= Verticals
    BY <1>2 DEF DeskTyped, JobsOK, Busy
  <1>10. /\ cycle' \in [row : BOOLEAN, vertical : 0 .. Verticals + 1, room : 0 .. Target]
         /\ cycle'.vertical = cycle.vertical
    BY <1>2, <1>9, CycleTyped, Bounds
  <1>11. "next" \in Steps /\ "next" \notin {"find", "write", "save"}
    BY DEF Steps
  <1> QED
    BY <1>2, <1>7, <1>8, <1>9, <1>10, <1>11, Constants, WriterSet

LEMMA VerticalEndsWorks ==
  ASSUME DeskTyped, VerticalEnds
  PROVE  WorkTyped' /\ JobsOK'
  <1>1. CASE Rest("cycle")
    BY <1>1, Constants, RestKeeps
  <1>2. CASE ~ Rest("cycle")
    <2>1. /\ at["cycle"] = "next" /\ at' = [at EXCEPT !["cycle"] = "vertical"]
          /\ job' = [job EXCEPT !["cycle"] = NoJob]
          /\ cycle' = [cycle EXCEPT !.vertical = @ + 1, !.room = 0]
      BY <1>2 DEF VerticalEnds
    <2>2. cycle.vertical <= Verticals /\ cycle.vertical \in Nat
      BY <2>1, CycleTyped, Bounds DEF DeskTyped, JobsOK, Busy
    <2>5. PICK q : q = [row |-> cycle.row, vertical |-> cycle.vertical + 1, room |-> cycle.room]
      OBVIOUS
    <2>6. [cycle EXCEPT !.vertical = @ + 1] = q
      BY <2>5, CycleTyped
    <2>7. cycle' = [q EXCEPT !.room = 0]
      BY <2>1, <2>6
    <2>8. q \in [row : BOOLEAN, vertical : 0 .. Verticals + 1, room : 0 .. Target]
      BY <2>2, <2>5, CycleTyped, Bounds
    <2>3. cycle' \in [row : BOOLEAN, vertical : 0 .. Verticals + 1, room : 0 .. Target]
      BY <2>7, <2>8, Bounds
    <2>4. "vertical" \in Steps /\ "vertical" \notin Busy /\ "vertical" \notin {"find", "write", "save"}
      BY DEF Steps, Busy
    <2> QED
      BY <2>1, <2>3, <2>4, Constants, WriterSet
  <1> QED
    BY <1>1, <1>2

LEMMA CommitWorks ==
  ASSUME DeskTyped, Commit
  PROVE  WorkTyped' /\ JobsOK'
  <1>1. at' = at /\ job' = job /\ cycle' = [cycle EXCEPT !.row = FALSE]
    BY DEF Commit
  <1>2. /\ cycle' \in [row : BOOLEAN, vertical : 0 .. Verticals + 1, room : 0 .. Target]
        /\ cycle'.vertical = cycle.vertical /\ cycle'.room = cycle.room
    BY <1>1, CycleTyped
  <1> QED
    BY <1>1, <1>2, TypeParts DEF DeskTyped, WorkTyped, JobsOK

\* The labels, jobs and the cycle stay typed in every step.
LEMMA WorkStep ==
  ASSUME DeskTyped, [Next]_vars
  PROVE  WorkTyped' /\ JobsOK'
  <1>1. CASE \E source \in {"search", "import", "check"} : \E results \in Results[source] :
               ToolBegins(source, results)
    BY <1>1, ToolWorks
  <1>2. CASE \E results \in Results["autopilot"] : Discover(results)
    BY <1>2, DiscoverWorks
  <1>3. CASE ContactWrites
    BY <1>3, ContactWorks
  <1>4. CASE \E w \in Writers : Find(w) \/ Write(w) \/ WriteFails(w) \/ Crash(w)
    BY <1>4, FindWorks, WriteWorks, WriteFailsWorks, RestKeeps DEF Crash
  <1>5. CASE CycleBegins \/ Vertical \/ CycleEnds \/ Consider \/ VerticalEnds
    BY <1>5, CycleBeginsWorks, VerticalWorks, ConsiderWorks, VerticalEndsWorks, RestKeeps,
       Constants DEF CycleEnds
  <1>6. CASE \E sameHost \in BOOLEAN : SaveInspection(sameHost)
    BY <1>6, SaveInspectionWorks
  <1>7. CASE \E l \in Leads :
               \/ \E phones \in SUBSET AllPhones, name \in AllNames \ {Name[Contact]},
                    location \in AllLocations : SaveAnalysis(l, phones, name, location)
               \/ UpdateStatus(l) \/ Inspect(l) \/ EvidenceExpires(l)
    <2>1. UNCHANGED work
      BY <1>7 DEF SaveAnalysis, UpdateStatus, Inspect, EvidenceExpires, Change
    <2> QED
      BY <2>1, WorkKept
  <1>8. CASE Preview \/ BackUp \/ ResetFails \/ RemoveCheckArtifacts \/ UNCHANGED vars
    <2>1. UNCHANGED work
      BY <1>8 DEF Preview, BackUp, ResetFails, RemoveCheckArtifacts, vars
    <2> QED
      BY <2>1, WorkKept
  <1>9. CASE Commit
    BY <1>9, CommitWorks
  <1> QED
    BY <1>1, <1>2, <1>3, <1>4, <1>5, <1>6, <1>7, <1>8, <1>9 DEF Next

-------------------------------------------------------------------------------
\* The types: what happens to leads

\* r is q after an update: it is still the same company, found by the same source.
StillLead(r, q) ==
    /\ r \in Lead
    /\ r.listing = q.listing /\ r.source = q.source
    /\ r.campaign = q.campaign /\ r.live = q.live

LEMMA LeadSet ==
  ASSUME NEW s \in Seq(Lead), NEW d \in 1 .. Len(s), NEW r \in Lead
  PROVE  /\ [s EXCEPT ![d] = r] \in Seq(Lead) /\ Len([s EXCEPT ![d] = r]) = Len(s)
         /\ [s EXCEPT ![d] = r][d] = r
         /\ \A l \in 1 .. Len(s) : l # d => [s EXCEPT ![d] = r][l] = s[l]
  OBVIOUS

LEMMA LeadPhones ==
  ASSUME NEW q \in Lead, NEW v \in SUBSET AllPhones
  PROVE  /\ StillLead([q EXCEPT !.phones = v], q)
         /\ [q EXCEPT !.phones = v].pending = q.pending
  BY DEF Lead, StillLead

LEMMA LeadName ==
  ASSUME NEW q \in Lead, NEW v \in AllNames
  PROVE  /\ StillLead([q EXCEPT !.name = v], q)
         /\ [q EXCEPT !.name = v].pending = q.pending
  BY DEF Lead, StillLead

LEMMA LeadLocation ==
  ASSUME NEW q \in Lead, NEW v \in AllLocations
  PROVE  /\ StillLead([q EXCEPT !.location = v], q)
         /\ [q EXCEPT !.location = v].pending = q.pending
  BY DEF Lead, StillLead

LEMMA LeadPending ==
  ASSUME NEW q \in Lead, NEW v \in BOOLEAN
  PROVE  /\ StillLead([q EXCEPT !.pending = v], q)
         /\ [q EXCEPT !.pending = v].phones = q.phones
         /\ [q EXCEPT !.pending = v].name = q.name
         /\ [q EXCEPT !.pending = v].location = q.location
  BY DEF Lead, StillLead

LEMMA LeadEvidence ==
  ASSUME NEW q \in Lead, NEW v \in {"none", "fresh", "stale"}
  PROVE  /\ StillLead([q EXCEPT !.evidence = v], q)
         /\ [q EXCEPT !.evidence = v].phones = q.phones
         /\ [q EXCEPT !.evidence = v].name = q.name
         /\ [q EXCEPT !.evidence = v].location = q.location
         /\ [q EXCEPT !.evidence = v].pending = q.pending
  BY DEF Lead, StillLead

LEMMA DeletedTyped ==
  ASSUME TypeOK, NEW l \in Leads
  PROVE  /\ Deleted(l) \in Lead /\ ~ Deleted(l).live
         /\ Deleted(l).listing = leads[l].listing /\ Deleted(l).source = leads[l].source
         /\ Deleted(l).campaign = leads[l].campaign
  <1>1. PICK q0 \in Lead : q0 = leads[l]
    BY Rows
  <1>2. PICK q1 : q1 = [q0 EXCEPT !.live = FALSE]
    OBVIOUS
  <1>3. PICK q2 : q2 = [q1 EXCEPT !.phones = {}]
    OBVIOUS
  <1>4. PICK q3 : q3 = [q2 EXCEPT !.evidence = "none"]
    OBVIOUS
  <1>5. PICK q4 : q4 = [q3 EXCEPT !.pending = FALSE]
    OBVIOUS
  <1>6. Deleted(l) = q4
    BY <1>1, <1>2, <1>3, <1>4, <1>5 DEF Deleted
  <1>7. /\ q1 \in Lead /\ ~ q1.live
        /\ q1.listing = q0.listing /\ q1.source = q0.source /\ q1.campaign = q0.campaign
    BY <1>1, <1>2 DEF Lead
  <1>8. StillLead(q2, q1)
    BY <1>3, <1>7, LeadPhones
  <1>9. StillLead(q3, q2)
    BY <1>4, <1>8, LeadEvidence DEF StillLead
  <1>10. StillLead(q4, q3)
    BY <1>5, <1>9, LeadPending DEF StillLead
  <1> QED
    BY <1>1, <1>6, <1>7, <1>8, <1>9, <1>10 DEF StillLead

LEMMA InsertAdds ==
  ASSUME DeskTyped, NEW w \in Writers, at[w] = "write", Inserts(w)
  PROVE  /\ NewLead(w) \in Lead /\ leads' = Append(leads, NewLead(w)) /\ Len(leads) < MaxLeads
         /\ leads' \in Seq(Lead) /\ Len(leads') = Len(leads) + 1
         /\ Leads' = Leads \cup {Len(leads) + 1} /\ Len(leads) + 1 \notin Leads
         /\ \A l \in Leads : leads'[l] = leads[l]
         /\ leads'[Len(leads) + 1] = NewLead(w)
  <1>1. leads' = Append(leads, NewLead(w)) /\ Len(leads) < MaxLeads
    BY DEF Inserts
  <1>2. /\ Candidate(w) \in Listings /\ job[w].source \in Sources
        /\ job[w].campaign \in 0 .. MaxCampaigns
    BY WriterFacts DEF Busy, Job
  <1>3. /\ Given(Candidate(w), job[w].source) \in SUBSET AllPhones
        /\ Name[Candidate(w)] \in AllNames /\ Location[Candidate(w)] \in AllLocations
    BY <1>2, Bounds DEF Given
  <1>4. NewLead(w) \in Lead
    BY <1>2, <1>3 DEF NewLead, Lead
  <1>5. leads \in Seq(Lead)
    BY TypeParts DEF DeskTyped, TableTyped
  <1>6. Leads = 1 .. Len(leads) /\ Len(leads) \in Nat
    BY Rows DEF DeskTyped
  <1>7. /\ leads' \in Seq(Lead) /\ Len(leads') = Len(leads) + 1
        /\ \A l \in 1 .. Len(leads) : leads'[l] = leads[l]
        /\ leads'[Len(leads) + 1] = NewLead(w)
    BY <1>1, <1>4, <1>5, <1>6
  <1>8. Leads' = 1 .. Len(leads) + 1
    BY <1>6, <1>7 DEF Leads
  <1> QED
    BY <1>1, <1>4, <1>6, <1>7, <1>8

\* Updating one lead leaves the others alone.
LEMMA LeadUpdated ==
  ASSUME TypeOK, NEW d \in Leads, NEW r, StillLead(r, leads[d]), leads' = [leads EXCEPT ![d] = r]
  PROVE  /\ leads' \in Seq(Lead) /\ Len(leads') = Len(leads) /\ Leads' = Leads
         /\ leads'[d] = r /\ \A l \in Leads : l # d => leads'[l] = leads[l]
         /\ \A l \in Leads : StillLead(leads'[l], leads[l])
  <1>1. leads \in Seq(Lead) /\ r \in Lead
    BY TypeParts DEF TableTyped, StillLead
  <1>2. Leads = 1 .. Len(leads)
    BY Rows
  <1>3. /\ leads' \in Seq(Lead) /\ Len(leads') = Len(leads)
        /\ leads'[d] = r /\ \A l \in Leads : l # d => leads'[l] = leads[l]
    BY <1>1, <1>2, LeadSet
  <1>4. Leads' = Leads
    BY <1>2, <1>3 DEF Leads
  <1>5. \A l \in Leads : leads[l] \in Lead
    BY Rows
  <1> QED
    BY <1>3, <1>4, <1>5 DEF StillLead

LEMMA MergeUpdates ==
  ASSUME DeskTyped, NEW w \in Writers, at[w] = "write", Merges(w)
  PROVE  /\ job[w].found \in Live
         /\ \E r : /\ StillLead(r, leads[job[w].found])
                   /\ leads' = [leads EXCEPT ![job[w].found] = r]
                   /\ r.pending = leads[job[w].found].pending
  <1>1. PICK d : d = job[w].found
    OBVIOUS
  <1>2. PICK g : g = Given(Candidate(w), job[w].source)
    OBVIOUS
  <1>3. /\ d \in Live
        /\ leads' = [leads EXCEPT ![d].phones = @ \cup g,
                                 ![d].location = IF @ = None THEN Location[Candidate(w)] ELSE @]
    BY <1>1, <1>2 DEF Merges
  <1>4. d \in Leads /\ leads[d] \in Lead
    BY <1>3, Rows DEF DeskTyped
  <1>5. Candidate(w) \in Listings
    BY WriterFacts
  <1>6. g \in SUBSET AllPhones /\ Location[Candidate(w)] \in AllLocations
    BY <1>2, <1>5, Bounds DEF Given
  <1>7. PICK p \in SUBSET AllPhones : p = leads[d].phones \cup g
    BY <1>4, <1>6 DEF Lead
  <1>8. PICK q : q = [leads[d] EXCEPT !.phones = p]
    OBVIOUS
  <1>9. StillLead(q, leads[d]) /\ q.pending = leads[d].pending /\ q.location = leads[d].location
    BY <1>4, <1>7, <1>8, LeadPhones DEF Lead
  <1>10. PICK z \in AllLocations : z = IF q.location = None THEN Location[Candidate(w)] ELSE q.location
    BY <1>4, <1>6, <1>9 DEF Lead
  <1>11. PICK r : r = [q EXCEPT !.location = z]
    OBVIOUS
  <1>12. PICK s : s = [leads EXCEPT ![d] = q]
    OBVIOUS
  <1>13. [leads EXCEPT ![d].phones = leads[d].phones \cup g] = s
    BY <1>7, <1>8, <1>12
  <1>14. leads' = [s EXCEPT ![d].location = IF @ = None THEN Location[Candidate(w)] ELSE @]
    BY <1>3, <1>13
  <1>15. s[d] = q /\ DOMAIN s = Leads
    BY <1>4, <1>12 DEF Leads
  <1>16. leads' = [s EXCEPT ![d] = r]
    BY <1>10, <1>11, <1>14, <1>15
  <1>17. leads' = [leads EXCEPT ![d] = r]
    BY <1>12, <1>16
  <1>18. StillLead(r, q) /\ r.pending = q.pending
    BY <1>9, <1>10, <1>11, LeadLocation DEF StillLead
  <1> QED
    BY <1>1, <1>3, <1>9, <1>17, <1>18 DEF StillLead

LEMMA AnalysisUpdates ==
  ASSUME DeskTyped, NEW l \in Leads, NEW phones \in SUBSET AllPhones, NEW name \in AllNames,
         NEW location \in AllLocations, SaveAnalysis(l, phones, name, location)
  PROVE  \E r : StillLead(r, leads[l]) /\ leads' = [leads EXCEPT ![l] = r]
  <1>1. leads[l] \in Lead
    BY Rows DEF DeskTyped
  <1>2. PICK z \in AllLocations : z = IF location = None THEN leads[l].location ELSE location
    BY <1>1 DEF Lead
  <1>3. PICK r : r = [leads[l] EXCEPT !.phones = phones, !.name = name, !.pending = FALSE,
                                      !.location = z]
    OBVIOUS
  <1>4. leads' = [leads EXCEPT ![l].phones = phones, ![l].name = name, ![l].pending = FALSE,
                               ![l].location = IF location = None THEN @ ELSE location]
    BY DEF SaveAnalysis
  <1>5. leads' = [leads EXCEPT ![l] = r]
    BY <1>1, <1>2, <1>3, <1>4 DEF Leads
  <1>6. PICK q1 : q1 = [leads[l] EXCEPT !.phones = phones]
    OBVIOUS
  <1>7. PICK q2 : q2 = [q1 EXCEPT !.name = name]
    OBVIOUS
  <1>8. PICK q3 : q3 = [q2 EXCEPT !.pending = FALSE]
    OBVIOUS
  <1>9. r = [q3 EXCEPT !.location = z]
    BY <1>3, <1>6, <1>7, <1>8
  <1>10. StillLead(q1, leads[l])
    BY <1>1, <1>6, LeadPhones
  <1>11. StillLead(q2, q1)
    BY <1>7, <1>10, LeadName DEF StillLead
  <1>12. StillLead(q3, q2)
    BY <1>8, <1>11, LeadPending DEF StillLead
  <1>13. StillLead(r, q3)
    BY <1>2, <1>9, <1>12, LeadLocation DEF StillLead
  <1> QED
    BY <1>5, <1>10, <1>11, <1>12, <1>13 DEF StillLead

LEMMA StatusUpdates ==
  ASSUME DeskTyped, NEW l \in Leads, UpdateStatus(l)
  PROVE  \E r : /\ StillLead(r, leads[l]) /\ leads' = [leads EXCEPT ![l] = r]
                /\ r.phones = leads[l].phones /\ r.name = leads[l].name
                /\ r.location = leads[l].location
  <1>1. leads[l] \in Lead /\ leads' = [leads EXCEPT ![l].pending = ~ @]
    BY Rows DEF DeskTyped, UpdateStatus
  <1>2. PICK v \in BOOLEAN : v = ~ leads[l].pending
    OBVIOUS
  <1>3. leads' = [leads EXCEPT ![l] = [leads[l] EXCEPT !.pending = v]]
    BY <1>1, <1>2
  <1> QED
    BY <1>1, <1>3, LeadPending

LEMMA EvidenceUpdates ==
  ASSUME DeskTyped, NEW l \in Leads, NEW v \in {"none", "fresh", "stale"},
         leads' = [leads EXCEPT ![l].evidence = v]
  PROVE  \E r : /\ StillLead(r, leads[l]) /\ leads' = [leads EXCEPT ![l] = r]
                /\ r.phones = leads[l].phones /\ r.name = leads[l].name
                /\ r.location = leads[l].location /\ r.pending = leads[l].pending
  <1>1. leads[l] \in Lead
    BY Rows DEF DeskTyped
  <1>2. leads' = [leads EXCEPT ![l] = [leads[l] EXCEPT !.evidence = v]]
    BY <1>1
  <1> QED
    BY <1>1, <1>2, LeadEvidence

LEMMA InspectionUpdates ==
  ASSUME DeskTyped, NEW sameHost, SaveInspection(sameHost)
  PROVE  LET l == job["cycle"].found
         IN  \/ leads' = leads /\ queued' = queued /\ cycle' = cycle
             \/ /\ l \in Live /\ leads' = [leads EXCEPT ![l].evidence = "fresh"]
                /\ queued' = queued \/ queued' = queued \cup {l}
                /\ cycle' = [cycle EXCEPT !.room = @ - 1] /\ at["cycle"] = "save"
  BY DEF SaveInspection

\* What any step does to leads.
LEMMA LeadsStep ==
  ASSUME DeskTyped, [Next]_vars
  PROVE  \/ leads' = leads
         \/ \E w \in Writers : at[w] = "write" /\ Write(w) /\ Inserts(w)
         \/ \E d \in Live : \E r : StillLead(r, leads[d]) /\ leads' = [leads EXCEPT ![d] = r]
         \/ Commit \/ RemoveCheckArtifacts
  <1>0. Live \subseteq Leads
    BY Rows DEF DeskTyped
  <1>1. CASE \/ \E source \in {"search", "import", "check"} : \E results \in Results[source] :
                  ToolBegins(source, results)
             \/ \E results \in Results["autopilot"] : Discover(results)
             \/ ContactWrites
             \/ \E w \in Writers : Find(w) \/ WriteFails(w) \/ Crash(w)
             \/ CycleBegins \/ Vertical \/ CycleEnds \/ Consider \/ VerticalEnds
             \/ Preview \/ BackUp \/ ResetFails \/ UNCHANGED vars
    BY <1>1 DEF ToolBegins, Discover, ContactWrites, Find, WriteFails, Crash, CycleBegins, Vertical,
       CycleEnds, Consider, VerticalEnds, Preview, BackUp, ResetFails, vars, table
  <1>2. ASSUME NEW w \in Writers, Write(w)
        PROVE  \/ at[w] = "write" /\ Inserts(w)
               \/ \E d \in Live : \E r : StillLead(r, leads[d]) /\ leads' = [leads EXCEPT ![d] = r]
    BY <1>2, MergeUpdates DEF Write
  <1>3. ASSUME NEW sameHost, SaveInspection(sameHost)
        PROVE  \/ leads' = leads
               \/ \E d \in Live : \E r : StillLead(r, leads[d]) /\ leads' = [leads EXCEPT ![d] = r]
    <2>1. CASE leads' = leads
      BY <2>1
    <2>2. CASE leads' # leads
      <3>1. PICK l \in Live : leads' = [leads EXCEPT ![l].evidence = "fresh"]
        BY <1>3, <2>2, InspectionUpdates
      <3> QED
        BY <1>0, <3>1, EvidenceUpdates
    <2> QED
      BY <2>1, <2>2
  <1>4. ASSUME NEW l \in Leads,
               \/ \E phones \in SUBSET AllPhones, name \in AllNames \ {Name[Contact]},
                    location \in AllLocations : SaveAnalysis(l, phones, name, location)
               \/ UpdateStatus(l) \/ Inspect(l) \/ EvidenceExpires(l)
        PROVE  \E r : l \in Live /\ StillLead(r, leads[l]) /\ leads' = [leads EXCEPT ![l] = r]
    <2>1. l \in Live
      BY <1>4 DEF SaveAnalysis, UpdateStatus, Inspect, EvidenceExpires, Change
    <2>2. CASE \E phones \in SUBSET AllPhones, name \in AllNames \ {Name[Contact]},
                 location \in AllLocations : SaveAnalysis(l, phones, name, location)
      BY <2>1, <2>2, AnalysisUpdates
    <2>3. CASE UpdateStatus(l)
      BY <2>1, <2>3, StatusUpdates
    <2>4. CASE Inspect(l) \/ EvidenceExpires(l)
      <3>1. \E v \in {"fresh", "stale"} : leads' = [leads EXCEPT ![l].evidence = v]
        BY <2>4 DEF Inspect, EvidenceExpires
      <3> QED
        BY <2>1, <3>1, EvidenceUpdates
    <2> QED
      BY <1>4, <2>2, <2>3, <2>4
  <1> QED
    BY <1>1, <1>2, <1>3, <1>4 DEF Next, Write

\* What deleting some leads leaves.
LEMMA DeletesLeads ==
  ASSUME DeskTyped, NEW S \in SUBSET Live,
         leads' = [l \in Leads |-> IF l \in S THEN Deleted(l) ELSE leads[l]]
  PROVE  /\ leads' \in Seq(Lead) /\ Len(leads') = Len(leads) /\ Leads' = Leads
         /\ \A l \in Leads : leads'[l] = IF l \in S THEN Deleted(l) ELSE leads[l]
         /\ \A l \in Leads : /\ leads'[l].listing = leads[l].listing
                             /\ leads'[l].source = leads[l].source
                             /\ leads'[l].campaign = leads[l].campaign
         /\ Live' = Live \ S /\ Prospects' = Prospects \ S /\ Queue' = Queue \ S
  <1>1. Leads = 1 .. Len(leads) /\ Len(leads) \in Nat
    BY Rows DEF DeskTyped
  <1>2. \A l \in Leads : (IF l \in S THEN Deleted(l) ELSE leads[l]) \in Lead
    BY DeletedTyped, Rows DEF DeskTyped
  <1>3. leads' \in [1 .. Len(leads) -> Lead]
    BY <1>1, <1>2, Zenon
  <1>4. leads' \in Seq(Lead) /\ Len(leads') = Len(leads)
    BY <1>1, <1>3
  <1>5. Leads' = Leads
    BY <1>1, <1>4 DEF Leads
  <1>6. \A l \in Leads : leads'[l] = IF l \in S THEN Deleted(l) ELSE leads[l]
    OBVIOUS
  <1>7. \A l \in S : ~ Deleted(l).live
    BY DeletedTyped, Rows DEF DeskTyped
  <1>8. Live' = Live \ S
    BY <1>5, <1>6, <1>7, Zenon DEF Live
  <1>9. \A l \in Leads : /\ leads'[l].listing = leads[l].listing
                         /\ leads'[l].source = leads[l].source
                         /\ leads'[l].campaign = leads[l].campaign
    BY <1>6, DeletedTyped DEF DeskTyped
  <1>10. Live \subseteq Leads /\ Prospects \subseteq Live
    BY Rows DEF DeskTyped
  <1>11. Prospects' = Prospects \ S
    BY <1>8, <1>9, <1>10 DEF Prospects
  <1>12. \A l \in Live \ S : leads'[l] = leads[l]
    BY <1>6, <1>10
  <1>13. Queue' = Queue \ S
    BY <1>10, <1>11, <1>12 DEF Queue
  <1> QED
    BY <1>4, <1>5, <1>6, <1>8, <1>9, <1>11, <1>13

LEMMA CommitLeads ==
  ASSUME DeskTyped, Commit
  PROVE  /\ leads' \in Seq(Lead) /\ Len(leads') = Len(leads) /\ Leads' = Leads
         /\ \A l \in Leads : /\ leads'[l].listing = leads[l].listing
                             /\ leads'[l].source = leads[l].source
                             /\ leads'[l].campaign = leads[l].campaign
         /\ \A l \in Live' : l \in Live /\ leads'[l] = leads[l]
         /\ Prospects' = {} /\ Queue' = {}
  <1>1. leads' = [l \in Leads |-> IF l \in Prospects THEN Deleted(l) ELSE leads[l]]
    BY DEF Commit
  <1>2. Prospects \in SUBSET Live /\ Queue \subseteq Prospects /\ Live \subseteq Leads
    BY Rows DEF DeskTyped
  <1> QED
    BY <1>1, <1>2, DeletesLeads

LEMMA ArtifactsLeave ==
  ASSUME DeskTyped, RemoveCheckArtifacts
  PROVE  /\ leads' \in Seq(Lead) /\ Len(leads') = Len(leads) /\ Leads' = Leads
         /\ \A l \in Leads : /\ leads'[l].listing = leads[l].listing
                             /\ leads'[l].source = leads[l].source
                             /\ leads'[l].campaign = leads[l].campaign
         /\ \A l \in Live' : l \in Live /\ leads'[l] = leads[l]
         /\ \A l \in Live \ Live' : leads[l].source = "check"
         /\ Prospects' \subseteq Prospects /\ Queue' \subseteq Queue
         /\ \A l \in Prospects \ Prospects' : leads[l].source = "check"
  <1>1. leads' = [l \in Leads |-> IF l \in Artifacts THEN Deleted(l) ELSE leads[l]]
    BY DEF RemoveCheckArtifacts
  <1>2. Artifacts \in SUBSET Live /\ Live \subseteq Leads
    BY Rows DEF DeskTyped, Artifacts
  <1>3. \A l \in Artifacts : leads[l].source = "check"
    BY DEF Artifacts
  <1>4. /\ leads' \in Seq(Lead) /\ Len(leads') = Len(leads) /\ Leads' = Leads
        /\ \A l \in Leads : leads'[l] = IF l \in Artifacts THEN Deleted(l) ELSE leads[l]
        /\ \A l \in Leads : /\ leads'[l].listing = leads[l].listing
                            /\ leads'[l].source = leads[l].source
                            /\ leads'[l].campaign = leads[l].campaign
        /\ Live' = Live \ Artifacts /\ Prospects' = Prospects \ Artifacts
        /\ Queue' = Queue \ Artifacts
    BY <1>1, <1>2, DeletesLeads
  <1>5. \A l \in Live' : l \in Live /\ leads'[l] = leads[l]
    BY <1>2, <1>4
  <1> QED
    BY <1>3, <1>4, <1>5

\* Leads are only added, and only a reset and the production check take any away.
LEMMA LeadsKept ==
  ASSUME DeskTyped, [Next]_vars
  PROVE  /\ leads' \in Seq(Lead) /\ Len(leads') <= MaxLeads
         /\ Leads \subseteq Leads'
         /\ \A l \in Leads : /\ leads'[l].listing = leads[l].listing
                             /\ leads'[l].source = leads[l].source
                             /\ leads'[l].campaign = leads[l].campaign
         /\ Live' \cap Leads \subseteq Live /\ Prospects' \cap Leads \subseteq Prospects
         /\ ~ Commit => /\ \A l \in Live \ Live' : leads[l].source = "check"
                        /\ \A l \in Prospects \ Prospects' : leads[l].source = "check"
         /\ \/ Leads' = Leads /\ Live' \subseteq Live /\ Prospects' \subseteq Prospects
            \/ \E w \in Writers : at[w] = "write" /\ Write(w) /\ Inserts(w)
  <1>1. leads \in Seq(Lead) /\ Len(leads) <= MaxLeads
    BY TypeParts DEF DeskTyped, TableTyped
  <1>2. CASE leads' = leads
    <2>1. Leads' = Leads /\ Live' = Live /\ Prospects' = Prospects
      BY <1>2 DEF Leads, Live, Prospects
    <2> QED
      BY <1>1, <1>2, <2>1
  <1>3. ASSUME NEW w \in Writers, at[w] = "write", Write(w), Inserts(w)
        PROVE  /\ leads' \in Seq(Lead) /\ Len(leads') <= MaxLeads
               /\ Leads \subseteq Leads'
               /\ \A l \in Leads : leads'[l] = leads[l]
               /\ Live' \cap Leads = Live /\ Prospects' \cap Leads = Prospects
    <2>1. /\ leads' \in Seq(Lead) /\ Len(leads') = Len(leads) + 1 /\ Len(leads) < MaxLeads
          /\ Leads \subseteq Leads' /\ \A l \in Leads : leads'[l] = leads[l]
      BY <1>3, InsertAdds
    <2>2. Live' \cap Leads = Live
      BY <2>1 DEF Live
    <2>3. Prospects' \cap Leads = Prospects
      BY <2>1, <2>2, Rows DEF Prospects, DeskTyped
    <2> QED
      BY <2>1, <2>2, <2>3, Rows, Bounds DEF DeskTyped
  <1>4. ASSUME NEW d \in Live, NEW r, StillLead(r, leads[d]), leads' = [leads EXCEPT ![d] = r]
        PROVE  /\ leads' \in Seq(Lead) /\ Len(leads') <= MaxLeads /\ Leads' = Leads
               /\ \A l \in Leads : /\ leads'[l].listing = leads[l].listing
                                   /\ leads'[l].source = leads[l].source
                                   /\ leads'[l].campaign = leads[l].campaign
               /\ Live' = Live /\ Prospects' = Prospects
    <2>1. d \in Leads
      BY Rows DEF DeskTyped
    <2>2. /\ leads' \in Seq(Lead) /\ Len(leads') = Len(leads) /\ Leads' = Leads
          /\ \A l \in Leads : StillLead(leads'[l], leads[l])
      BY <1>4, <2>1, LeadUpdated DEF DeskTyped
    <2>3. Live' = Live
      BY <2>2 DEF Live, StillLead
    <2>4. Prospects' = Prospects
      BY <2>2, <2>3, Rows DEF Prospects, StillLead, DeskTyped
    <2> QED
      BY <1>1, <2>2, <2>3, <2>4 DEF StillLead
  <1>5. CASE Commit
    BY <1>1, <1>5, CommitLeads
  <1>6. CASE RemoveCheckArtifacts
    BY <1>1, <1>6, ArtifactsLeave
  <1>7. Live \subseteq Leads /\ Prospects \subseteq Live
    BY Rows DEF DeskTyped
  <1> QED
    BY <1>2, <1>3, <1>4, <1>5, <1>6, <1>7, LeadsStep

\* Campaigns are only added, and only a reset takes them away.
LEMMA CampaignsKept ==
  ASSUME DeskTyped, [Next]_vars
  PROVE  /\ campaigns' \in Seq(Campaign) /\ Len(campaigns') <= MaxCampaigns
         /\ Commit \/ LiveCampaigns \subseteq LiveCampaigns'
  <1>1. campaigns \in Seq(Campaign) /\ Len(campaigns) <= MaxCampaigns
    BY TypeParts DEF DeskTyped, TableTyped
  <1>2. CASE campaigns' = campaigns
    BY <1>1, <1>2 DEF LiveCampaigns
  <1>3. CASE \E v \in 0 .. Verticals : CreateCampaign(v)
    BY <1>3, CampaignAdded DEF DeskTyped
  <1>4. CASE Commit
    <2>1. campaigns' = [c \in DOMAIN campaigns |-> [campaigns[c] EXCEPT !.live = FALSE]]
      BY <1>4 DEF Commit
    <2>2. DOMAIN campaigns = 1 .. Len(campaigns) /\ Len(campaigns) \in Nat
      BY <1>1
    <2>3. \A c \in DOMAIN campaigns : [campaigns[c] EXCEPT !.live = FALSE] \in Campaign
      BY Rows DEF Campaign, DeskTyped
    <2>4. campaigns' \in [1 .. Len(campaigns) -> Campaign]
      BY <2>1, <2>2, <2>3
    <2> QED
      BY <1>1, <1>4, <2>2, <2>4
  <1>5. campaigns' = campaigns \/ Commit \/ \E v \in 0 .. Verticals : CreateCampaign(v)
    <2>1. ASSUME NEW source, NEW results, ToolBegins(source, results)
          PROVE  campaigns' = campaigns \/ CreateCampaign(0)
      BY <2>1 DEF ToolBegins
    <2>2. ASSUME Vertical
          PROVE  campaigns' = campaigns \/ \E v \in 0 .. Verticals : CreateCampaign(v)
      <3>1. cycle.vertical \in 0 .. Verticals
        BY <2>2, CycleTyped, Bounds DEF Vertical
      <3> QED
        BY <2>2, <3>1 DEF Vertical
    <2>3. 0 \in 0 .. Verticals
      BY Bounds
    <2>4. CASE \/ \E results \in Results["autopilot"] : Discover(results)
               \/ ContactWrites
               \/ \E w \in Writers : Find(w) \/ Write(w) \/ WriteFails(w) \/ Crash(w)
               \/ CycleBegins \/ CycleEnds \/ Consider \/ VerticalEnds
               \/ \E sameHost \in BOOLEAN : SaveInspection(sameHost)
               \/ Preview \/ BackUp \/ ResetFails \/ RemoveCheckArtifacts \/ UNCHANGED vars
      BY <2>4 DEF Discover, ContactWrites, Find, Write, WriteFails, Crash, CycleBegins, CycleEnds,
         Consider, VerticalEnds, SaveInspection, Preview, BackUp, ResetFails, RemoveCheckArtifacts,
         vars, table
    <2>5. CASE \E l \in Leads :
                 \/ \E phones \in SUBSET AllPhones, name \in AllNames \ {Name[Contact]},
                      location \in AllLocations : SaveAnalysis(l, phones, name, location)
                 \/ UpdateStatus(l) \/ Inspect(l) \/ EvidenceExpires(l)
      BY <2>5 DEF SaveAnalysis, UpdateStatus, Inspect, EvidenceExpires, Change
    <2> QED
      BY <2>1, <2>2, <2>3, <2>4, <2>5 DEF Next
  <1> QED
    BY <1>2, <1>3, <1>4, <1>5

LEMMA ResetStep ==
  ASSUME DeskTyped, [Next]_vars
  PROVE  ResetTyped'
  <1>1. ResetTyped /\ Leads \subseteq Leads'
    BY TypeParts, LeadsKept DEF DeskTyped
  <1>2. CASE reset' = reset
    BY <1>1, <1>2 DEF ResetTyped
  <1>3. CASE Preview
    <2>1. /\ Prospects \subseteq Leads /\ Cardinality(Prospects) \in Nat
      BY Rows, FS_Subset, FS_CardinalityType DEF DeskTyped
    <2>2. Cardinality(LiveCampaigns) \in Nat
      <3>1. IsFiniteSet(1 .. Len(campaigns)) /\ LiveCampaigns \subseteq 1 .. Len(campaigns)
        BY Rows, FS_Interval DEF DeskTyped
      <3> QED
        BY <3>1, FS_Subset, FS_CardinalityType
    <2>3. reset' = [at |-> "shown", leads |-> Cardinality(Prospects),
                    campaigns |-> Cardinality(LiveCampaigns), shown |-> Prospects, backup |-> {}]
      BY <1>3 DEF Preview
    <2> QED
      BY <1>1, <2>1, <2>2, <2>3 DEF ResetTyped
  <1>4. CASE BackUp
    <2>1. PICK q : q = [reset EXCEPT !.at = "backed"]
      OBVIOUS
    <2>2. reset' = [q EXCEPT !.backup = Live]
      BY <1>4, <2>1 DEF BackUp
    <2>3. q \in [at : {"idle", "shown", "backed"}, leads : Nat, campaigns : Nat,
                 shown : SUBSET Leads, backup : SUBSET Leads]
      BY <1>1, <2>1 DEF ResetTyped
    <2>4. Live \subseteq Leads
      BY Rows DEF DeskTyped
    <2> QED
      BY <1>1, <2>2, <2>3, <2>4 DEF ResetTyped
  <1>5. CASE reset' = NoReset
    BY <1>5 DEF NoReset, ResetTyped
  <1>6. CASE \/ \E source \in {"search", "import", "check"} : \E results \in Results[source] :
                  ToolBegins(source, results)
             \/ \E results \in Results["autopilot"] : Discover(results)
             \/ ContactWrites
             \/ \E w \in Writers : Find(w) \/ Write(w) \/ WriteFails(w) \/ Crash(w)
             \/ CycleBegins \/ Vertical \/ CycleEnds \/ Consider \/ VerticalEnds
             \/ \E sameHost \in BOOLEAN : SaveInspection(sameHost)
             \/ \E l \in Leads :
                  \/ \E phones \in SUBSET AllPhones, name \in AllNames \ {Name[Contact]},
                       location \in AllLocations : SaveAnalysis(l, phones, name, location)
                  \/ UpdateStatus(l) \/ Inspect(l) \/ EvidenceExpires(l)
             \/ RemoveCheckArtifacts \/ UNCHANGED vars
    <2>1. reset' = reset
      BY <1>6 DEF ToolBegins, Discover, ContactWrites, Find, Write, WriteFails, Crash, CycleBegins,
         Vertical, CycleEnds, Consider, VerticalEnds, SaveInspection, SaveAnalysis, UpdateStatus,
         Inspect, EvidenceExpires, Change, RemoveCheckArtifacts, vars
    <2> QED
      BY <1>2, <2>1
  <1> QED
    BY <1>3, <1>4, <1>5, <1>6 DEF Next, Commit, ResetFails

LEMMA HistoryStep ==
  ASSUME DeskTyped, [Next]_vars
  PROVE  HistoryTyped'
  <1>1. HistoryTyped /\ Leads \subseteq Leads' /\ Live \subseteq Leads /\ MaxEvents \in Nat
    BY TypeParts, LeadsKept, Rows, Bounds DEF DeskTyped
  <1>2. CASE UNCHANGED history
    BY <1>1, <1>2 DEF HistoryTyped, history
  <1>3. CASE \/ \E source \in {"search", "import", "check"} : \E results \in Results[source] :
                  ToolBegins(source, results)
             \/ \E results \in Results["autopilot"] : Discover(results)
             \/ ContactWrites \/ (\E w \in Writers : Find(w))
             \/ CycleBegins \/ Vertical \/ CycleEnds \/ Consider \/ VerticalEnds
             \/ Preview \/ BackUp \/ ResetFails \/ UNCHANGED vars
    <2>1. UNCHANGED history
      BY <1>3 DEF ToolBegins, Discover, ContactWrites, Find, CycleBegins, Vertical, CycleEnds,
         Consider, VerticalEnds, Preview, BackUp, ResetFails, vars
    <2> QED
      BY <1>2, <2>1
  <1>4. ASSUME NEW w \in Writers, Write(w) \/ WriteFails(w) \/ Crash(w)
        PROVE  HistoryTyped'
    <2>1. queued' = queued /\ overtaken' \subseteq Writers
      BY <1>1, <1>4 DEF Write, WriteFails, Crash, Overtaken, HistoryTyped
    <2>2. events' \in 0 .. MaxEvents
      BY <1>1, <1>4 DEF Write, WriteFails, Crash, Event, HistoryTyped
    <2> QED
      BY <1>1, <2>1, <2>2 DEF HistoryTyped
  <1>5. ASSUME NEW sameHost, SaveInspection(sameHost)
        PROVE  HistoryTyped'
    <2>1. events' = events /\ overtaken' = overtaken
      BY <1>5 DEF SaveInspection
    <2>2. queued' \subseteq queued \cup Live
      BY <1>5 DEF SaveInspection
    <2> QED
      BY <1>1, <2>1, <2>2 DEF HistoryTyped
  <1>6. ASSUME NEW l \in Leads,
               \/ \E phones \in SUBSET AllPhones, name \in AllNames \ {Name[Contact]},
                    location \in AllLocations : SaveAnalysis(l, phones, name, location)
               \/ UpdateStatus(l) \/ Inspect(l) \/ EvidenceExpires(l)
        PROVE  HistoryTyped'
    <2>1. overtaken' \in {overtaken, Overtaken} /\ queued' \subseteq queued /\ Event
      BY <1>6 DEF SaveAnalysis, UpdateStatus, Inspect, EvidenceExpires, Change
    <2> QED
      BY <1>1, <2>1 DEF HistoryTyped, Overtaken, Event
  <1>7. CASE Commit \/ RemoveCheckArtifacts
    BY <1>1, <1>7 DEF Commit, RemoveCheckArtifacts, HistoryTyped
  <1> QED
    BY <1>3, <1>4, <1>5, <1>6, <1>7 DEF Next

LEMMA StartTyped == Init => DeskTyped
  <1> SUFFICES ASSUME Init PROVE DeskTyped
    OBVIOUS
  <1>1. TableTyped
    BY Bounds DEF Init, TableTyped
  <1>2. WorkTyped
    BY Constants DEF Init, WorkTyped, Steps
  <1>3. ResetTyped
    BY DEF Init, NoReset, ResetTyped
  <1>4. HistoryTyped
    BY Bounds DEF Init, HistoryTyped
  <1>5. JobsOK
    BY Constants DEF Init, JobsOK, Busy
  <1> QED
    BY <1>1, <1>2, <1>3, <1>4, <1>5, TypeParts DEF DeskTyped

LEMMA StepTyped == DeskTyped /\ [Next]_vars => DeskTyped'
  <1> SUFFICES ASSUME DeskTyped, [Next]_vars PROVE DeskTyped'
    OBVIOUS
  <1>1. TableTyped'
    BY LeadsKept, CampaignsKept DEF TableTyped
  <1> QED
    BY <1>1, WorkStep, ResetStep, HistoryStep, TypePartsNext DEF DeskTyped

LEMMA DeskTypedHolds == Spec => []DeskTyped
  BY StartTyped, StepTyped, PTL DEF Spec

\* Every reachable state of the desk is well typed.
THEOREM DeskTypes == Spec => []TypeOK
  BY DeskTypedHolds, PTL DEF DeskTyped

-------------------------------------------------------------------------------
\* No prospect outlives its campaign.

LEMMA InsertHasCampaign ==
  ASSUME DeskTyped, NEW w \in Writers, at[w] = "write", Write(w), Inserts(w),
         job[w].source # "inbound"
  PROVE  leads'[Len(leads) + 1].campaign \in LiveCampaigns'
  <1>1. job[w].campaign \in {0} \cup LiveCampaigns
    BY DEF Inserts, CampaignStands
  <1>2. job[w].campaign # 0
    BY WriterFacts DEF Busy
  <1>3. leads'[Len(leads) + 1] = NewLead(w) /\ NewLead(w).campaign = job[w].campaign
    BY InsertAdds DEF NewLead
  <1>4. campaigns' = campaigns
    BY DEF Write
  <1> QED
    BY <1>1, <1>2, <1>3, <1>4 DEF LiveCampaigns

LEMMA CampaignsStep ==
  DeskTyped /\ NoLeadWithoutCampaign /\ [Next]_vars => NoLeadWithoutCampaign'
  <1> SUFFICES ASSUME DeskTyped, NoLeadWithoutCampaign, [Next]_vars,
                      NEW l \in Prospects'
               PROVE  leads'[l].campaign \in LiveCampaigns'
    BY DEF NoLeadWithoutCampaign
  <1>1. ~ Commit
    BY CommitLeads
  <1>2. LiveCampaigns \subseteq LiveCampaigns'
    BY <1>1, CampaignsKept
  <1>3. CASE l \in Leads
    BY <1>2, <1>3, LeadsKept DEF NoLeadWithoutCampaign
  <1>4. CASE l \notin Leads
    <2>1. PICK w \in Writers : at[w] = "write" /\ Write(w) /\ Inserts(w)
      <3>1. Prospects \subseteq Leads
        BY Rows DEF DeskTyped
      <3> QED
        BY <1>4, <3>1, LeadsKept
    <2>2. l \in Live' /\ leads'[l].source # "inbound"
      BY DEF Prospects
    <2>3. l = Len(leads) + 1
      BY <1>4, <2>1, <2>2, InsertAdds DEF Live
    <2>5. leads'[l] = NewLead(w)
      BY <2>1, <2>3, InsertAdds
    <2>4. leads'[l].source = job[w].source
      BY <2>5 DEF NewLead
    <2> QED
      BY <2>1, <2>2, <2>3, <2>4, InsertHasCampaign
  <1> QED
    BY <1>3, <1>4

\* Every prospect belongs to a campaign that is there, whatever outlives a reset.
THEOREM NoProspectWithoutCampaign == Spec => []NoLeadWithoutCampaign
  <1>1. Init => NoLeadWithoutCampaign
    BY DEF Init, NoLeadWithoutCampaign, Prospects, Live, Leads
  <1> QED
    BY <1>1, CampaignsStep, DeskTypedHolds, PTL DEF Spec

-------------------------------------------------------------------------------
\* A reset deletes what its preview counted, but for the artifacts of the production check.

\* What was shown was counted; it is still there, unless it is such an artifact, and what
\* is there of it is in the backup.
ResetOK ==
    /\ reset.at # "idle" => /\ reset.leads = Cardinality(reset.shown)
                            /\ \A l \in reset.shown \ Prospects : leads[l].source = "check"
    /\ reset.at = "backed" => reset.shown \cap Prospects \subseteq reset.backup

LEMMA ResetUntouched ==
  ASSUME DeskTyped, ResetOK, [Next]_vars, reset' = reset
  PROVE  ResetOK'
  <1>1. CASE Commit
    BY <1>1 DEF Commit, NoReset, ResetOK
  <1>2. CASE ~ Commit
    <2>1. /\ Prospects' \cap Leads \subseteq Prospects
          /\ \A l \in Prospects \ Prospects' : leads[l].source = "check"
          /\ \A l \in Leads : leads'[l].source = leads[l].source
      BY <1>2, LeadsKept
    <2>2. reset.shown \subseteq Leads
      BY TypeParts DEF DeskTyped, ResetTyped
    <2> QED
      BY <2>1, <2>2 DEF ResetOK
  <1> QED
    BY <1>1, <1>2

LEMMA ResetKept == DeskTyped /\ ResetOK /\ [Next]_vars => ResetOK'
  <1> SUFFICES ASSUME DeskTyped, ResetOK, [Next]_vars PROVE ResetOK'
    OBVIOUS
  <1>1. CASE Preview
    <2>1. leads' = leads /\ Prospects' = Prospects
      BY <1>1 DEF Preview, table, Prospects, Live, Leads
    <2>2. /\ reset'.at = "shown" /\ reset'.shown = Prospects /\ reset'.leads = Cardinality(Prospects)
      BY <1>1 DEF Preview
    <2> QED
      BY <2>1, <2>2 DEF ResetOK
  <1>2. CASE BackUp
    <2>1. leads' = leads /\ Prospects' = Prospects /\ Prospects \subseteq Live /\ reset.at = "shown"
      BY <1>2 DEF BackUp, table, Prospects, Live, Leads
    <2>2. ResetTyped
      BY TypeParts DEF DeskTyped
    <2>3. /\ reset'.at = "backed" /\ reset'.backup = Live
          /\ reset'.shown = reset.shown /\ reset'.leads = reset.leads
      <3>1. PICK q : q = [reset EXCEPT !.at = "backed"]
        OBVIOUS
      <3>2. reset' = [q EXCEPT !.backup = Live]
        BY <1>2, <3>1 DEF BackUp
      <3> QED
        BY <2>2, <3>1, <3>2 DEF ResetTyped
    <2> QED
      BY <2>1, <2>3 DEF ResetOK
  <1>3. CASE Commit \/ ResetFails
    BY <1>3 DEF Commit, ResetFails, NoReset, ResetOK
  <1>4. CASE reset' = reset
    BY <1>4, ResetUntouched
  <1>5. Preview \/ BackUp \/ Commit \/ ResetFails \/ reset' = reset
    BY DEF Next, ToolBegins, Discover, ContactWrites, Find, Write, WriteFails, Crash, CycleBegins,
       Vertical, CycleEnds, Consider, VerticalEnds, SaveInspection, SaveAnalysis, UpdateStatus,
       Inspect, EvidenceExpires, Change, RemoveCheckArtifacts, vars
  <1> QED
    BY <1>1, <1>2, <1>3, <1>4, <1>5

\* Of two finite sets of one size, neither has more of its own than the other.
LEMMA EqualRests ==
  ASSUME NEW P, NEW S, IsFiniteSet(P), IsFiniteSet(S), Cardinality(P) = Cardinality(S)
  PROVE  Cardinality(P \ S) = Cardinality(S \ P)
  <1>1. P \cap S = S \cap P
    OBVIOUS
  <1>2. /\ Cardinality(P \ S) = Cardinality(P) - Cardinality(P \cap S)
        /\ Cardinality(S \ P) = Cardinality(S) - Cardinality(S \cap P)
    BY FS_Difference
  <1> QED
    BY <1>1, <1>2

LEMMA CommitMatches ==
  ASSUME DeskTyped, ResetOK, Commit
  PROVE  Cardinality(Prospects \ (reset.shown \cap reset.backup))
           <= Cardinality({l \in reset.shown : leads[l].source = "check"})
  <1> DEFINE checks == {l \in reset.shown : leads[l].source = "check"}
  <1>1. IsFiniteSet(Prospects) /\ IsFiniteSet(reset.shown)
    <2>1. Prospects \in SUBSET Leads /\ reset.shown \in SUBSET Leads /\ IsFiniteSet(Leads)
      BY Rows, TypeParts DEF DeskTyped, ResetTyped
    <2> QED
      BY <2>1, FS_Subset
  <1>2. /\ Cardinality(Prospects) = Cardinality(reset.shown)
        /\ reset.shown \ Prospects \subseteq checks
        /\ reset.shown \cap Prospects \subseteq reset.backup
    BY DEF Commit, AsExpected, ResetOK
  <1>3. Prospects \ (reset.shown \cap reset.backup) = Prospects \ reset.shown
    BY <1>2
  <1>4. Cardinality(Prospects \ reset.shown) = Cardinality(reset.shown \ Prospects)
    BY <1>1, <1>2, EqualRests
  <1>5. checks \in SUBSET reset.shown
    OBVIOUS
  <1>6. IsFiniteSet(checks)
    BY <1>1, <1>5, FS_Subset
  <1>7. Cardinality(reset.shown \ Prospects) <= Cardinality(checks)
    BY <1>2, <1>6, FS_Subset
  <1> QED
    BY <1>3, <1>4, <1>7

\* A reset that finds the counts it showed deletes at most one lead it did not show, or did
\* not back up, for each artifact of the production check that it showed.
THEOREM ResetIsWhatWasShown == Spec => ResetDeletesWhatItBackedUp
  <1>1. Init => ResetOK
    BY DEF Init, NoReset, ResetOK
  <1>2. DeskTyped /\ ResetOK /\ [Next]_vars
          => [Commit => Cardinality(Prospects \ (reset.shown \cap reset.backup))
                          <= Cardinality({l \in reset.shown : leads[l].source = "check"})]_vars
    BY CommitMatches
  <1> QED
    BY <1>1, <1>2, ResetKept, DeskTypedHolds, PTL DEF Spec, ResetDeletesWhatItBackedUp

-------------------------------------------------------------------------------
\* The server's cycles respect the queue.

\* What the cycle may still add is kept free.
RoomOK == Cardinality(queued \cap Queue) + cycle.room <= QueueLimit

LEMMA QueueUpdated ==
  ASSUME TypeOK, NEW d \in Leads, NEW r, StillLead(r, leads[d]), leads' = [leads EXCEPT ![d] = r]
  PROVE  Queue' \ {d} \subseteq Queue /\ (r.pending = leads[d].pending => Queue' = Queue)
  <1>1. /\ Leads' = Leads /\ leads'[d] = r /\ \A l \in Leads : l # d => leads'[l] = leads[l]
        /\ \A l \in Leads : StillLead(leads'[l], leads[l])
    BY LeadUpdated
  <1>2. Live' = Live /\ Live \subseteq Leads
    BY <1>1, Rows DEF Live, StillLead
  <1>3. Prospects' = Prospects
    BY <1>1, <1>2 DEF Prospects, StillLead
  <1>4. Prospects \subseteq Leads
    BY Rows
  <1> QED
    BY <1>1, <1>3, <1>4 DEF Queue

\* Nothing but a saved inspection adds to the leads the cycle answers for.
LEMMA QueueKept ==
  ASSUME DeskTyped, [Next]_vars, ~ \E sameHost \in BOOLEAN : SaveInspection(sameHost)
  PROVE  queued' \cap Queue' \subseteq queued \cap Queue
  <1>1. CASE leads' = leads /\ queued' = queued
    <2>1. Queue' = Queue
      BY <1>1 DEF Queue, Prospects, Live, Leads
    <2> QED
      BY <1>1, <2>1
  <1>2. ASSUME NEW w \in Writers, Write(w)
        PROVE  queued' \cap Queue' \subseteq queued \cap Queue
    <2>1. queued' = queued /\ queued \subseteq Leads /\ at[w] = "write"
      BY <1>2, TypeParts DEF Write, DeskTyped, HistoryTyped
    <2>2. CASE Inserts(w)
      <3>1. Leads' = Leads \cup {Len(leads) + 1} /\ \A l \in Leads : leads'[l] = leads[l]
        BY <2>1, <2>2, InsertAdds
      <3>2. Queue' \cap Leads \subseteq Queue
        BY <3>1 DEF Queue, Prospects, Live
      <3> QED
        BY <2>1, <3>2
    <2>3. CASE Merges(w)
      <3>1. PICK d, r : /\ d \in Live /\ StillLead(r, leads[d]) /\ leads' = [leads EXCEPT ![d] = r]
                        /\ r.pending = leads[d].pending
        BY <2>1, <2>3, MergeUpdates
      <3>2. Queue' = Queue
        BY <3>1, QueueUpdated, Rows DEF DeskTyped
      <3> QED
        BY <2>1, <3>2
    <2> QED
      BY <1>2, <2>2, <2>3 DEF Write
  <1>3. ASSUME NEW l \in Leads,
               \/ \E phones \in SUBSET AllPhones, name \in AllNames \ {Name[Contact]},
                    location \in AllLocations : SaveAnalysis(l, phones, name, location)
               \/ UpdateStatus(l) \/ Inspect(l)
        PROVE  queued' \cap Queue' \subseteq queued \cap Queue
    <2>1. queued' = queued \ {l}
      BY <1>3 DEF SaveAnalysis, UpdateStatus, Inspect, Change
    <2>2. PICK r : StillLead(r, leads[l]) /\ leads' = [leads EXCEPT ![l] = r]
      <3>1. CASE \E phones \in SUBSET AllPhones, name \in AllNames \ {Name[Contact]},
                   location \in AllLocations : SaveAnalysis(l, phones, name, location)
        BY <3>1, AnalysisUpdates
      <3>2. CASE UpdateStatus(l)
        BY <3>2, StatusUpdates
      <3>3. CASE Inspect(l)
        <4>1. leads' = [leads EXCEPT ![l].evidence = "fresh"]
          BY <3>3 DEF Inspect
        <4> QED
          BY <4>1, EvidenceUpdates
      <3> QED
        BY <1>3, <3>1, <3>2, <3>3
    <2>3. Queue' \ {l} \subseteq Queue
      BY <2>2, QueueUpdated DEF DeskTyped
    <2> QED
      BY <2>1, <2>3
  <1>4. ASSUME NEW l \in Leads, EvidenceExpires(l)
        PROVE  queued' \cap Queue' \subseteq queued \cap Queue
    <2>1. queued' = queued /\ leads' = [leads EXCEPT ![l].evidence = "stale"]
      BY <1>4 DEF EvidenceExpires
    <2>2. PICK r : /\ StillLead(r, leads[l]) /\ leads' = [leads EXCEPT ![l] = r]
                   /\ r.pending = leads[l].pending
      BY <2>1, EvidenceUpdates
    <2>3. Queue' = Queue
      BY <2>2, QueueUpdated DEF DeskTyped
    <2> QED
      BY <2>1, <2>3
  <1>5. CASE Commit
    BY <1>5, CommitLeads
  <1>6. CASE \/ \E source \in {"search", "import", "check"} : \E results \in Results[source] :
                  ToolBegins(source, results)
             \/ \E results \in Results["autopilot"] : Discover(results)
             \/ ContactWrites
             \/ \E w \in Writers : Find(w) \/ WriteFails(w) \/ Crash(w)
             \/ CycleBegins \/ Vertical \/ CycleEnds \/ Consider \/ VerticalEnds
             \/ Preview \/ BackUp \/ ResetFails \/ UNCHANGED vars
    <2>1. leads' = leads /\ queued' = queued
      BY <1>6 DEF ToolBegins, Discover, ContactWrites, Find, WriteFails, Crash, CycleBegins, Vertical,
         CycleEnds, Consider, VerticalEnds, Preview, BackUp, ResetFails, vars, table, history
    <2> QED
      BY <1>1, <2>1
  <1>7. CASE RemoveCheckArtifacts
    BY <1>7, ArtifactsLeave DEF RemoveCheckArtifacts
  <1> QED
    BY <1>2, <1>3, <1>4, <1>5, <1>6, <1>7 DEF Next

\* Only the count at the beginning of a vertical makes room.
LEMMA RoomKept ==
  ASSUME DeskTyped, [Next]_vars, ~ Vertical, ~ \E sameHost \in BOOLEAN : SaveInspection(sameHost)
  PROVE  cycle'.room <= cycle.room
  <1>1. cycle.room \in Nat /\ cycle \in [row : BOOLEAN, vertical : 0 .. Verticals + 1, room : 0 .. Target]
    BY CycleTyped, Bounds
  <1>2. CASE cycle' = cycle
    BY <1>1, <1>2
  <1>3. CASE cycle'.room = 0
    BY <1>1, <1>3
  <1>4. ASSUME NEW w, Rest(w) PROVE cycle' = cycle \/ cycle'.room = 0
    BY <1>4 DEF Rest, NoCycle
  <1>5. ASSUME NEW w, Onward(w) PROVE cycle' = cycle \/ cycle'.room = 0
    BY <1>4, <1>5 DEF Onward
  <1>6. ASSUME NEW w, Write(w) \/ WriteFails(w) \/ Crash(w)
        PROVE  cycle' = cycle \/ cycle'.room = 0
    BY <1>4, <1>5, <1>6 DEF Write, WriteFails, Crash
  <1>7. ASSUME NEW results, Discover(results) PROVE cycle' = cycle \/ cycle'.room = 0
    BY <1>4, <1>7 DEF Discover
  <1>8. CycleBegins \/ CycleEnds \/ Consider => cycle' = cycle \/ cycle'.room = 0
    BY <1>4, <1>5 DEF CycleBegins, CycleEnds, Consider
  <1>9. CASE VerticalEnds
    <2>1. CASE Rest("cycle")
      BY <1>2, <1>3, <1>4, <2>1
    <2>2. CASE cycle' = [cycle EXCEPT !.vertical = @ + 1, !.room = 0]
      <3>1. PICK q : q = [cycle EXCEPT !.vertical = @ + 1]
        OBVIOUS
      <3>2. cycle' = [q EXCEPT !.room = 0]
        BY <2>2, <3>1
      <3>3. cycle'.room = 0
        BY <1>1, <3>1, <3>2
      <3> QED
        BY <1>3, <3>3
    <2> QED
      BY <1>9, <2>1, <2>2 DEF VerticalEnds
  <1>10. CASE Commit
    BY <1>1, <1>10 DEF Commit
  <1>11. CASE \/ \E source \in {"search", "import", "check"} : \E results \in Results[source] :
                   ToolBegins(source, results)
              \/ ContactWrites \/ (\E w \in Writers : Find(w))
              \/ \E l \in Leads :
                   \/ \E phones \in SUBSET AllPhones, name \in AllNames \ {Name[Contact]},
                        location \in AllLocations : SaveAnalysis(l, phones, name, location)
                   \/ UpdateStatus(l) \/ Inspect(l) \/ EvidenceExpires(l)
              \/ Preview \/ BackUp \/ ResetFails \/ RemoveCheckArtifacts \/ UNCHANGED vars
    <2>1. cycle' = cycle
      BY <1>11 DEF ToolBegins, ContactWrites, Find, SaveAnalysis, UpdateStatus, Inspect,
         EvidenceExpires, Change, Preview, BackUp, ResetFails, RemoveCheckArtifacts, vars, work
    <2> QED
      BY <1>2, <2>1
  <1> QED
    BY <1>2, <1>3, <1>6, <1>7, <1>8, <1>9, <1>10, <1>11 DEF Next

LEMMA QueueCounts ==
  ASSUME TypeOK
  PROVE  /\ IsFiniteSet(Queue) /\ Cardinality(Queue) \in Nat
         /\ IsFiniteSet(queued \cap Queue) /\ Cardinality(queued \cap Queue) \in Nat
         /\ Cardinality(queued \cap Queue) <= Cardinality(Queue)
  <1>1. IsFiniteSet(Leads) /\ Queue \in SUBSET Leads
    BY Rows
  <1>2. IsFiniteSet(Queue)
    BY <1>1, FS_Subset
  <1>3. queued \cap Queue \in SUBSET Queue
    OBVIOUS
  <1> QED
    BY <1>2, <1>3, FS_Subset, FS_CardinalityType

LEMMA VerticalLeavesRoom ==
  ASSUME DeskTyped, Vertical
  PROVE  RoomOK'
  <1>1. Queue' = Queue /\ queued' = queued
    BY DEF Vertical, history, Queue, Prospects, Live, Leads
  <1>2. cycle'.room = Smaller(Target, QueueLimit - Cardinality(Queue))
    BY CycleTyped DEF Vertical
  <1>3. cycle'.room <= QueueLimit - Cardinality(Queue)
    BY <1>2, Bounds, QueueCounts DEF Smaller, DeskTyped
  <1>4. cycle'.room \in Int
    BY <1>2, Bounds, QueueCounts DEF Smaller, DeskTyped
  <1> QED
    BY <1>1, <1>3, <1>4, QueueCounts, Bounds DEF RoomOK, DeskTyped

LEMMA InspectionUsesRoom ==
  ASSUME DeskTyped, RoomOK, NEW sameHost, SaveInspection(sameHost)
  PROVE  RoomOK'
  <1> DEFINE l == job["cycle"].found
  <1>1. CASE leads' = leads /\ queued' = queued /\ cycle' = cycle
    <2>1. Queue' = Queue
      BY <1>1 DEF Queue, Prospects, Live, Leads
    <2> QED
      BY <1>1, <2>1 DEF RoomOK
  <1>2. CASE /\ l \in Live /\ leads' = [leads EXCEPT ![l].evidence = "fresh"]
             /\ queued' = queued \/ queued' = queued \cup {l}
             /\ cycle' = [cycle EXCEPT !.room = @ - 1] /\ at["cycle"] = "save"
    <2>1. l \in Leads
      BY <1>2, Rows DEF DeskTyped
    <2>2. PICK r : /\ StillLead(r, leads[l]) /\ leads' = [leads EXCEPT ![l] = r]
                   /\ r.pending = leads[l].pending
      BY <1>2, <2>1, EvidenceUpdates
    <2>3. Queue' = Queue
      BY <2>1, <2>2, QueueUpdated DEF DeskTyped
    <2>4. queued' \cap Queue' \subseteq (queued \cap Queue) \cup {l}
      BY <1>2, <2>3
    <2>5. /\ IsFiniteSet((queued \cap Queue) \cup {l})
          /\ Cardinality((queued \cap Queue) \cup {l}) <= Cardinality(queued \cap Queue) + 1
      BY QueueCounts, FS_AddElement DEF DeskTyped
    <2>6. /\ Cardinality(queued' \cap Queue') <= Cardinality((queued \cap Queue) \cup {l})
          /\ Cardinality(queued' \cap Queue') \in Nat
          /\ Cardinality((queued \cap Queue) \cup {l}) \in Nat
      BY <2>4, <2>5, FS_Subset, FS_CardinalityType
    <2>7. cycle.room \in Nat /\ cycle'.room = cycle.room - 1
      BY <1>2, CycleTyped, Bounds
    <2> QED
      BY <2>5, <2>6, <2>7, QueueCounts, Bounds DEF RoomOK, DeskTyped
  <1> QED
    BY <1>1, <1>2, InspectionUpdates

LEMMA RoomStep == DeskTyped /\ RoomOK /\ [Next]_vars => RoomOK'
  <1> SUFFICES ASSUME DeskTyped, RoomOK, [Next]_vars PROVE RoomOK'
    OBVIOUS
  <1>1. CASE Vertical
    BY <1>1, VerticalLeavesRoom
  <1>2. CASE \E sameHost \in BOOLEAN : SaveInspection(sameHost)
    BY <1>2, InspectionUsesRoom
  <1>3. CASE ~ Vertical /\ ~ \E sameHost \in BOOLEAN : SaveInspection(sameHost)
    <2>1. queued' \cap Queue' \subseteq queued \cap Queue /\ cycle'.room <= cycle.room
      BY <1>3, QueueKept, RoomKept
    <2>2. /\ Cardinality(queued' \cap Queue') <= Cardinality(queued \cap Queue)
          /\ Cardinality(queued' \cap Queue') \in Nat
      BY <2>1, QueueCounts, FS_Subset, FS_CardinalityType DEF DeskTyped
    <2>3. WorkTyped'
      BY StepTyped, TypePartsNext DEF DeskTyped
    <2>4. cycle.room \in Nat /\ cycle'.room \in Nat
      BY <2>3, CycleTyped, Bounds DEF WorkTyped
    <2> QED
      BY <2>1, <2>2, <2>4, QueueCounts, Bounds DEF RoomOK, DeskTyped
  <1> QED
    BY <1>1, <1>2, <1>3

\* Counting at the start of a vertical is enough: the server never overfills the queue.
THEOREM QueueRespected == Spec => []ServerRespectsQueue
  <1>1. Init => RoomOK
    <2> SUFFICES ASSUME Init PROVE RoomOK
      OBVIOUS
    <2>1. queued \cap Queue = {} /\ cycle.room = 0
      BY DEF Init, NoCycle
    <2> QED
      BY <2>1, FS_EmptySet, Bounds DEF RoomOK
  <1>2. DeskTyped /\ RoomOK => ServerRespectsQueue
    <2> SUFFICES ASSUME DeskTyped, RoomOK PROVE ServerRespectsQueue
      OBVIOUS
    <2>1. cycle.room \in Nat
      BY CycleTyped, Bounds
    <2> QED
      BY <2>1, QueueCounts, Bounds DEF RoomOK, ServerRespectsQueue, DeskTyped
  <1> QED
    BY <1>1, <1>2, RoomStep, DeskTypedHolds, PTL DEF Spec

-------------------------------------------------------------------------------
\* A company gets one lead.

\* The lead l has a key of the listing x.
Shares(l, x, phones) ==
    \/ Site[leads[l].listing] = Site[x]
    \/ leads[l].phones \cap phones # {}
    \/ /\ Cautious(Name[x], Location[x])
       /\ leads[l].name = Name[x] /\ leads[l].location = Location[x]

\* A writer that is about to insert and was not overtaken is right that the company is new.
SearchOK ==
    \A w \in Writers :
        at[w] = "write" /\ job[w].found = 0 /\ w \notin overtaken =>
            \A l \in Live : ~ Shares(l, Candidate(w), Given(Candidate(w), job[w].source))

\* The step is w's, and does not take it to its write.
Moves(w) ==
    /\ at'[w] # "write"
    /\ \A v \in Writers \ {w} : at'[v] = at[v] /\ job'[v] = job[v]

LEMMA RestMoves ==
  ASSUME DeskTyped, NEW w \in Writers, Rest(w)
  PROVE  Moves(w)
  BY TypeParts DEF DeskTyped, WorkTyped, Rest, Moves

LEMMA OnwardMoves ==
  ASSUME DeskTyped, NEW w \in Writers, Onward(w)
  PROVE  Moves(w)
  <1>1. CASE Rest(w)
    BY <1>1, RestMoves
  <1>2. CASE ~ Rest(w)
    <2>1. /\ job' = [job EXCEPT ![w].todo = Tail(job[w].todo), ![w].found = 0]
          /\ at' = [at EXCEPT ![w] = IF w = "cycle" THEN "next" ELSE "find"]
      BY <1>2 DEF Onward
    <2>2. at \in [Writers -> Steps] /\ job \in [Writers -> Job]
      BY TypeParts DEF DeskTyped, WorkTyped
    <2> QED
      BY <2>1, <2>2 DEF Moves
  <1> QED
    BY <1>1, <1>2

\* Every step is the search of one writer, or takes nobody to a write.
LEMMA WritersStep ==
  ASSUME DeskTyped, [Next]_vars
  PROVE  \/ UNCHANGED <<at, job>> /\ overtaken \subseteq overtaken'
         \/ \E w \in Writers : Find(w)
         \/ \E w \in Writers : Moves(w) /\ overtaken' = overtaken
         \/ \E w \in Writers : /\ Moves(w) /\ overtaken \ {w} \subseteq overtaken'
                               /\ Write(w) \/ WriteFails(w) \/ Crash(w)
  <1>1. at \in [Writers -> Steps] /\ job \in [Writers -> Job]
    BY TypeParts DEF DeskTyped, WorkTyped
  <1>2. ASSUME NEW source, NEW results, ToolBegins(source, results)
        PROVE  Moves("tool") /\ overtaken' = overtaken
    <2>1. PICK c \in 1 .. MaxCampaigns :
            job' = [job EXCEPT !["tool"] =
                      [source |-> source, todo |-> results, campaign |-> c, found |-> 0]]
      BY <1>2 DEF ToolBegins
    <2>2. at' = [at EXCEPT !["tool"] = "find"] /\ overtaken' = overtaken
      BY <1>2 DEF ToolBegins, history
    <2> QED
      BY <1>1, <2>1, <2>2, Constants DEF Moves
  <1>3. ASSUME NEW results, Discover(results)
        PROVE  Moves("cycle") /\ overtaken' = overtaken
    <2>1. CASE Rest("cycle")
      BY <1>3, <2>1, RestMoves, Constants DEF Discover, history
    <2>2. CASE ~ Rest("cycle")
      <3>1. /\ job' = [job EXCEPT !["cycle"].todo = results] /\ at' = [at EXCEPT !["cycle"] = "next"]
            /\ overtaken' = overtaken
        BY <1>3, <2>2 DEF Discover, history
      <3> QED
        BY <1>1, <3>1, Constants DEF Moves
    <2> QED
      BY <2>1, <2>2
  <1>4. CASE ContactWrites
    <2>1. PICK j : job' = [job EXCEPT !["inbox"] = j]
      BY <1>4 DEF ContactWrites
    <2>2. at' = [at EXCEPT !["inbox"] = "find"] /\ overtaken' = overtaken
      BY <1>4 DEF ContactWrites, history
    <2>3. Moves("inbox")
      BY <1>1, <2>1, <2>2, Constants DEF Moves
    <2> QED
      BY <2>2, <2>3, Constants
  <1>5. ASSUME NEW w \in Writers, Write(w)
        PROVE  Moves(w) /\ overtaken \ {w} \subseteq overtaken'
    <2>1. overtaken \ {w} \subseteq overtaken'
      BY <1>5 DEF Write, Overtaken
    <2>2. CASE w = "cycle"
      <3>1. /\ at' = [at EXCEPT ![w] = "save"]
            /\ job' = [job EXCEPT ![w].found = IF @ = 0 THEN Len(leads) + 1 ELSE @]
        BY <1>5, <2>2 DEF Write
      <3> QED
        BY <1>1, <2>1, <3>1 DEF Moves
    <2>3. CASE w # "cycle"
      BY <1>5, <2>1, <2>3, OnwardMoves DEF Write
    <2> QED
      BY <2>2, <2>3
  <1>6. ASSUME NEW w \in Writers, WriteFails(w) \/ Crash(w)
        PROVE  Moves(w) /\ overtaken \ {w} \subseteq overtaken'
    <2>1. overtaken' = overtaken \ {w}
      BY <1>6 DEF WriteFails, Crash
    <2>2. Rest(w) \/ Onward(w)
      BY <1>6 DEF WriteFails, Crash
    <2> QED
      BY <2>1, <2>2, RestMoves, OnwardMoves
  <1>7. CASE CycleBegins
    <2>1. at' = [at EXCEPT !["cycle"] = "vertical"] /\ job' = job /\ overtaken' = overtaken
      BY <1>7 DEF CycleBegins, history
    <2>2. Moves("cycle")
      BY <1>1, <2>1, Constants DEF Moves
    <2> QED
      BY <2>1, <2>2, Constants
  <1>8. CASE Vertical
    <2>1. PICK j : job' = [job EXCEPT !["cycle"] = j]
      BY <1>8 DEF Vertical
    <2>2. at' = [at EXCEPT !["cycle"] = "register"] /\ overtaken' = overtaken
      BY <1>8 DEF Vertical, history
    <2>3. Moves("cycle")
      BY <1>1, <2>1, <2>2, Constants DEF Moves
    <2> QED
      BY <2>2, <2>3, Constants
  <1>9. CASE CycleEnds
    BY <1>9, RestMoves, Constants DEF CycleEnds, history
  <1>10. CASE Consider
    <2>1. overtaken' = overtaken
      BY <1>10 DEF Consider, history
    <2>2. CASE Onward("cycle")
      BY <2>1, <2>2, OnwardMoves, Constants
    <2>3. CASE ~ Onward("cycle")
      <3>1. at' = [at EXCEPT !["cycle"] = "find"] /\ job' = job
        BY <1>10, <2>3 DEF Consider
      <3>2. Moves("cycle")
        BY <1>1, <3>1, Constants DEF Moves
      <3> QED
        BY <2>1, <3>2, Constants
    <2> QED
      BY <2>2, <2>3
  <1>11. CASE VerticalEnds
    <2>1. overtaken' = overtaken
      BY <1>11 DEF VerticalEnds, history
    <2>2. CASE Rest("cycle")
      BY <2>1, <2>2, RestMoves, Constants
    <2>3. CASE ~ Rest("cycle")
      <3>1. at' = [at EXCEPT !["cycle"] = "vertical"] /\ job' = [job EXCEPT !["cycle"] = NoJob]
        BY <1>11, <2>3 DEF VerticalEnds
      <3>2. Moves("cycle")
        BY <1>1, <3>1, Constants DEF Moves
      <3> QED
        BY <2>1, <3>2, Constants
    <2> QED
      BY <2>2, <2>3
  <1>12. ASSUME NEW sameHost, SaveInspection(sameHost)
         PROVE  Moves("cycle") /\ overtaken' = overtaken
    <2>1. /\ job' = [job EXCEPT !["cycle"].todo = Tail(@), !["cycle"].found = 0]
          /\ at' = [at EXCEPT !["cycle"] = "next"] /\ overtaken' = overtaken
      BY <1>12 DEF SaveInspection
    <2> QED
      BY <1>1, <2>1, Constants DEF Moves
  <1>13. CASE \E l \in Leads : \E phones \in SUBSET AllPhones, name \in AllNames \ {Name[Contact]},
                 location \in AllLocations : SaveAnalysis(l, phones, name, location)
    <2>1. UNCHANGED <<at, job>> /\ overtaken' = Overtaken
      BY <1>13 DEF SaveAnalysis, Change, work
    <2>2. overtaken \subseteq Overtaken
      BY DEF Overtaken
    <2> QED
      BY <2>1, <2>2
  <1>14. CASE \/ \E l \in Leads : UpdateStatus(l) \/ Inspect(l) \/ EvidenceExpires(l)
              \/ Preview \/ BackUp \/ Commit \/ ResetFails \/ RemoveCheckArtifacts
              \/ UNCHANGED vars
    BY <1>14 DEF UpdateStatus, Inspect, EvidenceExpires, Change, Preview, BackUp, Commit,
       ResetFails, RemoveCheckArtifacts, vars, work, history
  <1> QED
    BY <1>2, <1>3, <1>4, <1>5, <1>6, <1>7, <1>8, <1>9, <1>10, <1>11, <1>12, <1>13, <1>14,
       Constants DEF Next

\* A writer about to write was so before, or has just searched.
LEMMA WriteStands ==
  ASSUME DeskTyped, [Next]_vars, NEW v \in Writers, at'[v] = "write", v \notin overtaken'
  PROVE  Find(v) \/ (at[v] = "write" /\ job'[v] = job[v] /\ v \notin overtaken)
  <1>1. CASE UNCHANGED <<at, job>> /\ overtaken \subseteq overtaken'
    BY <1>1
  <1>2. ASSUME NEW w \in Writers, Find(w), w # v
        PROVE  at[v] = "write" /\ job'[v] = job[v] /\ v \notin overtaken
    <2>1. PICK d : job' = [job EXCEPT ![w].found = d] /\ at' = [at EXCEPT ![w] = "write"]
      BY <1>2 DEF Find
    <2>2. overtaken' = overtaken
      BY <1>2 DEF Find, history
    <2> QED
      BY <1>2, <2>1, <2>2, TypeParts DEF DeskTyped, WorkTyped
  <1>3. ASSUME NEW w \in Writers, Moves(w), overtaken \ {w} \subseteq overtaken'
        PROVE  at[v] = "write" /\ job'[v] = job[v] /\ v \notin overtaken
    BY <1>3 DEF Moves
  <1> QED
    BY <1>1, <1>2, <1>3, WritersStep

SameKeys(l) ==
    /\ leads'[l].phones = leads[l].phones /\ leads'[l].name = leads[l].name
    /\ leads'[l].location = leads[l].location

LEMMA KeysStay ==
  ASSUME Keys' = Keys, NEW l \in Live'
  PROVE  l \in Live /\ SameKeys(l)
  <1>1. DOMAIN Keys = Live /\ DOMAIN Keys' = Live'
    BY DEF Keys
  <1>2. Live' = Live
    BY <1>1
  <1>3. Keys[l] = <<leads[l].phones, leads[l].name, leads[l].location>>
    BY <1>2 DEF Keys
  <1>4. Keys'[l] = <<leads'[l].phones, leads'[l].name, leads'[l].location>>
    BY DEF Keys
  <1> QED
    BY <1>2, <1>3, <1>4 DEF SameKeys

\* An update of one lead that leaves its keys alone.
LEMMA UpdateKeeps ==
  ASSUME DeskTyped, NEW d \in Leads, NEW r, StillLead(r, leads[d]), leads' = [leads EXCEPT ![d] = r],
         r.phones = leads[d].phones, r.name = leads[d].name, r.location = leads[d].location
  PROVE  \A l \in Live' : l \in Live /\ SameKeys(l)
  <1>1. /\ Leads' = Leads /\ leads'[d] = r /\ \A l \in Leads : l # d => leads'[l] = leads[l]
        /\ \A l \in Leads : StillLead(leads'[l], leads[l])
    BY LeadUpdated DEF DeskTyped
  <1>2. Live' = Live /\ Live \subseteq Leads
    BY <1>1, Rows DEF Live, StillLead, DeskTyped
  <1> QED
    BY <1>1, <1>2 DEF SameKeys

\* Where a writer is about to write and was not overtaken, no lead has got other keys.
LEMMA KeysKept ==
  ASSUME DeskTyped, [Next]_vars, NEW v \in Writers, at[v] = "write", at'[v] = "write",
         v \notin overtaken'
  PROVE  \A l \in Live' : l \in Live /\ SameKeys(l)
  <1>1. CASE leads' = leads
    BY <1>1 DEF Live, Leads, SameKeys
  <1>2. ASSUME v \in Overtaken => v \in overtaken'
        PROVE  \A l \in Live' : l \in Live /\ SameKeys(l)
    <2>1. Keys' = Keys
      BY <1>2 DEF Overtaken
    <2> QED
      BY <2>1, KeysStay
  <1>3. ASSUME NEW w \in Writers, Write(w)
        PROVE  \A l \in Live' : l \in Live /\ SameKeys(l)
    <2>1. overtaken' = Overtaken \ {w}
      BY <1>3 DEF Write
    <2>2. at'[w] # "write"
      <3>1. CASE w = "cycle"
        BY <1>3, <3>1, TypeParts DEF Write, DeskTyped, WorkTyped
      <3>2. CASE w # "cycle"
        BY <1>3, <3>2, OnwardMoves DEF Write, Moves
      <3> QED
        BY <3>1, <3>2
    <2> QED
      BY <1>2, <2>1, <2>2
  <1>4. CASE \E l \in Leads : \E phones \in SUBSET AllPhones, name \in AllNames \ {Name[Contact]},
                location \in AllLocations : SaveAnalysis(l, phones, name, location)
    BY <1>2, <1>4 DEF SaveAnalysis
  <1>5. ASSUME NEW d \in Leads, UpdateStatus(d)
        PROVE  \A l \in Live' : l \in Live /\ SameKeys(l)
    BY <1>5, StatusUpdates, UpdateKeeps
  <1>6. ASSUME NEW d \in Leads, NEW e \in {"none", "fresh", "stale"},
               leads' = [leads EXCEPT ![d].evidence = e]
        PROVE  \A l \in Live' : l \in Live /\ SameKeys(l)
    BY <1>6, EvidenceUpdates, UpdateKeeps
  <1>7. CASE \E d \in Leads : Inspect(d) \/ EvidenceExpires(d)
    BY <1>6, <1>7 DEF Inspect, EvidenceExpires
  <1>8. CASE \E sameHost \in BOOLEAN : SaveInspection(sameHost)
    <2>1. Live \subseteq Leads
      BY Rows DEF DeskTyped
    <2>2. leads' = leads \/ \E d \in Leads : leads' = [leads EXCEPT ![d].evidence = "fresh"]
      BY <1>8, <2>1 DEF SaveInspection
    <2> QED
      BY <1>1, <1>6, <2>2
  <1>9. CASE Commit \/ RemoveCheckArtifacts
    BY <1>9, CommitLeads, ArtifactsLeave DEF SameKeys
  <1>10. CASE \/ \E source \in {"search", "import", "check"} : \E results \in Results[source] :
                   ToolBegins(source, results)
              \/ \E results \in Results["autopilot"] : Discover(results)
              \/ ContactWrites
              \/ \E w \in Writers : Find(w) \/ WriteFails(w) \/ Crash(w)
              \/ CycleBegins \/ Vertical \/ CycleEnds \/ Consider \/ VerticalEnds
              \/ Preview \/ BackUp \/ ResetFails \/ UNCHANGED vars
    <2>1. leads' = leads
      BY <1>10 DEF ToolBegins, Discover, ContactWrites, Find, WriteFails, Crash, CycleBegins, Vertical,
         CycleEnds, Consider, VerticalEnds, Preview, BackUp, ResetFails, vars, table
    <2> QED
      BY <1>1, <2>1
  <1> QED
    BY <1>3, <1>4, <1>5, <1>7, <1>8, <1>9, <1>10 DEF Next

LEMMA SearchStep == DeskTyped /\ SearchOK /\ [Next]_vars => SearchOK'
  <1> SUFFICES ASSUME DeskTyped, SearchOK, [Next]_vars, NEW v \in Writers,
                      at'[v] = "write", job'[v].found = 0, v \notin overtaken',
                      NEW l \in Live'
               PROVE  ~ Shares(l, Candidate(v), Given(Candidate(v), job[v].source))'
    BY DEF SearchOK
  <1>1. CASE Find(v)
    <2>1. leads' = leads /\ Live' = Live
      BY <1>1 DEF Find, table, Live, Leads
    <2>2. PICK p : p = Given(Candidate(v), job[v].source)
      OBVIOUS
    <2>3. PICK d : d = Duplicate(Candidate(v), p)
      OBVIOUS
    <2>4. job' = [job EXCEPT ![v].found = d]
      BY <1>1, <2>2, <2>3 DEF Find
    <2>5. job[v] \in Job /\ job \in [Writers -> Job]
      BY TypeParts DEF DeskTyped, WorkTyped
    <2>6. /\ job'[v].todo = job[v].todo /\ job'[v].source = job[v].source
          /\ job'[v].found = d
      BY <2>4, <2>5, JobFound
    <2>7. d = 0 /\ 0 \notin Live
      BY <2>6, Rows DEF DeskTyped
    <2>8. \A m \in Live : ~ Shares(m, Candidate(v), p)
      <3>1. Duplicate(Candidate(v), p) = 0 /\ Duplicate(Candidate(v), p) \notin Live /\ TypeOK
        BY <2>3, <2>7 DEF DeskTyped
      <3>2. \A m \in Live : /\ Site[leads[m].listing] # Site[Candidate(v)]
                            /\ leads[m].phones \cap p = {}
                            /\ ~ /\ Cautious(Name[Candidate(v)], Location[Candidate(v)])
                                 /\ leads[m].name = Name[Candidate(v)]
                                 /\ leads[m].location = Location[Candidate(v)]
        BY <3>1, DuplicateFound
      <3> QED
        BY <3>2 DEF Shares
    <2>9. Candidate(v)' = Candidate(v) /\ Given(Candidate(v), job[v].source)' = p
      BY <2>2, <2>6 DEF Candidate, Given
    <2> QED
      BY <2>1, <2>8, <2>9 DEF Shares
  <1>2. CASE at[v] = "write" /\ job'[v] = job[v] /\ v \notin overtaken
    <2>1. l \in Live /\ SameKeys(l)
      BY <1>2, KeysKept
    <2>2. leads'[l].listing = leads[l].listing
      BY <2>1, LeadsKept, Rows DEF DeskTyped
    <2>3. ~ Shares(l, Candidate(v), Given(Candidate(v), job[v].source))
      BY <1>2, <2>1 DEF SearchOK
    <2>4. /\ Candidate(v)' = Candidate(v)
          /\ Given(Candidate(v), job[v].source)' = Given(Candidate(v), job[v].source)
      BY <1>2 DEF Candidate, Given
    <2> QED
      BY <2>1, <2>2, <2>3, <2>4 DEF Shares, SameKeys
  <1> QED
    BY <1>1, <1>2, WriteStands

\* A lead comes with the write of one writer, and of no other.
LEMMA OneWriter ==
  ASSUME DeskTyped, [Next]_vars, NEW w \in Writers, at[w] = "write", at'[w] # "write",
         NEW m \in Leads' \ Leads
  PROVE  Inserts(w) /\ m = Len(leads) + 1
  <1>1. PICK u \in Writers : at[u] = "write" /\ Write(u) /\ Inserts(u)
    BY LeadsKept
  <1>2. m = Len(leads) + 1
    BY <1>1, InsertAdds
  <1>3. u = w
    <2>1. CASE u = "cycle"
      <3>1. at' = [at EXCEPT ![u] = "save"]
        BY <1>1, <2>1 DEF Write
      <3> QED
        BY <3>1, TypeParts DEF DeskTyped, WorkTyped
    <2>2. CASE u # "cycle"
      BY <1>1, <2>2, OnwardMoves DEF Write, Moves
    <2> QED
      BY <2>1, <2>2
  <1> QED
    BY <1>1, <1>2, <1>3

\* A new lead and one that was there.
LEMMA NewcomerDiffers ==
  ASSUME DeskTyped, SearchOK, NEW l \in Live, NEW w \in Writers,
         at[w] = "write", Inserts(w), NEW m, m = Len(leads) + 1
  PROVE  /\ Url[leads'[l].listing] # Url[leads'[m].listing]
         /\ w \notin overtaken => ~ SameCompany(l, m)'
  <1>1. PICK n : n = NewLead(w)
    OBVIOUS
  <1>2. leads'[m] = n /\ leads'[l] = leads[l]
    BY <1>1, InsertAdds, Rows DEF DeskTyped
  <1>3. PICK x : x = Candidate(w)
    OBVIOUS
  <1>4. PICK p : p = Given(x, job[w].source)
    OBVIOUS
  <1>5. n.listing = x /\ n.phones = p /\ n.name = Name[x] /\ n.location = Location[x]
    BY <1>1, <1>3, <1>4 DEF NewLead
  <1>6. Url[leads[l].listing] # Url[x]
    BY <1>3 DEF Inserts, UrlTaken
  <1>7. ASSUME w \notin overtaken
        PROVE  ~ SameCompany(l, m)'
    <2>1. ~ Shares(l, x, p)
      BY <1>3, <1>4, <1>7 DEF SearchOK, Inserts
    <2>2. SameCompany(l, m)' <=>
            \/ Site[leads'[l].listing] = Site[leads'[m].listing]
            \/ leads'[l].phones \cap leads'[m].phones # {}
            \/ /\ Cautious(leads'[l].name, leads'[l].location)
               /\ leads'[l].name = leads'[m].name /\ leads'[l].location = leads'[m].location
      BY DEF SameCompany, Cautious
    <2> QED
      BY <1>2, <1>5, <2>1, <2>2 DEF Shares
  <1> QED
    BY <1>2, <1>5, <1>6, <1>7

\* An upsert inserts a second lead of a company only if it was overtaken.
THEOREM OneLead == Spec => OneLeadPerCompany
  <1>1. Init => SearchOK
    <2> SUFFICES ASSUME Init PROVE SearchOK
      OBVIOUS
    <2>1. \A w \in Writers : at[w] = "idle"
      BY DEF Init
    <2> QED
      BY <2>1 DEF SearchOK
  <1>2. DeskTyped /\ SearchOK /\ [Next]_vars =>
          [ \A w \in Writers : at[w] = "write" /\ at'[w] # "write" =>
              \A l \in Live, m \in Leads' \ Leads :
                /\ Url[leads'[l].listing] # Url[leads'[m].listing]
                /\ w \notin overtaken => ~ SameCompany(l, m)' ]_vars
    BY OneWriter, NewcomerDiffers
  <1> QED
    BY <1>1, <1>2, SearchStep, DeskTypedHolds, PTL DEF Spec, OneLeadPerCompany
===============================================================================
