------------------------------- MODULE LeadDesk -------------------------------
(***************************************************************************)
(* Leads and campaigns (src/app/crm.py): who finds companies, how a        *)
(* company is recognised, what the queue for ChatGPT may hold, and the     *)
(* reset that clears prospecting.                                          *)
(*                                                                         *)
(* upsert_lead looks for a duplicate in one connection and writes in       *)
(* another.  Three threads use it: the event loop runs a tool of ChatGPT   *)
(* to its end before it takes up another ("tool"), an Autopilot cycle      *)
(* looks for companies itself ("cycle"), and the inbox synchronisation     *)
(* makes placeholders for contacts it does not know ("inbox").  A reset    *)
(* runs in a process of its own, as the deployment's script does; when the *)
(* owner's tool asks for it the event loop does nothing else meanwhile.    *)
(* One reset runs at a time.  The production check, in its own process     *)
(* too, deletes the leads it once left behind, starts Autopilot and runs   *)
(* one cycle, which is the cycle of this module: a lock admits one.        *)
(*                                                                         *)
(* A listing is what a search, a cycle or an import hands over for a       *)
(* company, with the region it was looked for in; the same address under   *)
(* another region is another listing.  Names and regions are the keys they *)
(* are compared by; industry, rank and the state of a campaign are left    *)
(* out.                                                                    *)
(***************************************************************************)
EXTENDS Integers, Sequences, FiniteSets

CONSTANTS
    Listings,
    Url, Site,     \* per listing: its address, and the host that address stands for
    Phones, Name, Location,  \* per listing: telephone numbers, name, region
    None,          \* no name, no region
    Long,          \* names of at least two words and ten letters
    Contact,       \* the listing that stands for an unknown WhatsApp contact
    Results,       \* what a search, an import, an import under the production check's
                   \* name, a cycle may bring: sequences of listings, none of them empty
                   \* (that only adds a campaign)
    QueueLimit,    \* chatgpt_prospecting_queue_limit
    Target,        \* the leads a vertical may bring in one cycle
    Verticals,     \* verticals worked through in a cycle
    MaxLeads, MaxCampaigns,  \* bounds: rows
    MaxEvents      \* bound: changes by ChatGPT, evidence that expires, crashes

ASSUME DeskAssumption ==
    /\ Contact \in Listings
    /\ \A x, y \in Listings : Url[x] = Url[y] => Site[x] = Site[y]
    /\ Location[Contact] = None
    /\ Results \in [{"search", "import", "check", "autopilot"} ->
                      SUBSET (Seq(Listings \ {Contact}) \ {<<>>})]
    /\ {QueueLimit, Target, Verticals} \subseteq Nat \ {0}
    /\ {MaxLeads, MaxCampaigns, MaxEvents} \subseteq Nat

Writers == {"tool", "cycle", "inbox"}

VARIABLES
    leads,      \* every lead ever inserted, oldest first
    campaigns,  \* every campaign ever inserted: the vertical it is for (0: a tool's), live or deleted
    at,         \* where each writer is
    job,        \* what it works on: source, listings left, campaign, the duplicate it found
    cycle,      \* the cycle's row, vertical and room in its target
    reset,      \* where a reset is, the counts the operator was shown, the backup
    \* for the bounds and the properties only
    events,     \* changes by ChatGPT, evidence that expired, crashes
    overtaken,  \* writers whose search for a duplicate was overtaken: a lead was inserted
                \* or got other keys before they wrote
    queued      \* leads the cycle accepted that nobody has touched since

table == <<leads, campaigns>>
work == <<at, job, cycle>>
history == <<events, overtaken, queued>>
vars == <<table, work, reset, history>>

Leads == DOMAIN leads
Live == {l \in Leads : leads[l].live}
Prospects == {l \in Live : leads[l].source # "inbound"}
LiveCampaigns == {c \in DOMAIN campaigns : campaigns[c].live}

\* count_pending_chatgpt_prospecting_leads
Queue == {l \in Prospects : leads[l].pending}

AllPhones == UNION {Phones[x] : x \in Listings}
AllNames == {Name[x] : x \in Listings}
AllLocations == {Location[x] : x \in Listings}
\* "check" stands for the source 'production-safe-check'.
Sources == {"search", "import", "check", "autopilot", "inbound"}
Lead == [listing : Listings, source : Sources, campaign : 0 .. MaxCampaigns,
         phones : SUBSET AllPhones, name : AllNames, location : AllLocations,
         evidence : {"none", "fresh", "stale"}, pending : BOOLEAN, live : BOOLEAN]
NoJob == [source |-> "none", todo |-> <<>>, campaign |-> 0, found |-> 0]
NoCycle == [row |-> FALSE, vertical |-> 0, room |-> 0]
NoReset == [at |-> "idle", leads |-> 0, campaigns |-> 0, shown |-> {}, backup |-> {}]

TypeOK ==
    /\ leads \in Seq(Lead) /\ Len(leads) <= MaxLeads
    /\ campaigns \in Seq([vertical : 0 .. Verticals, live : BOOLEAN])
    /\ Len(campaigns) <= MaxCampaigns
    /\ at \in [Writers -> {"idle", "vertical", "register", "next", "find", "write", "save"}]
    /\ job \in [Writers -> [source : Sources \cup {"none"}, todo : Seq(Listings),
                            campaign : 0 .. MaxCampaigns, found : 0 .. MaxLeads]]
    /\ cycle \in [row : BOOLEAN, vertical : 0 .. Verticals + 1, room : 0 .. Target]
    /\ reset \in [at : {"idle", "shown", "backed"}, leads : Nat, campaigns : Nat,
                  shown : SUBSET Leads, backup : SUBSET Leads]
    /\ events \in 0 .. MaxEvents
    /\ overtaken \subseteq Writers /\ queued \subseteq Leads

Init ==
    /\ leads = <<>> /\ campaigns = <<>>
    /\ at = [w \in Writers |-> "idle"]
    /\ job = [w \in Writers |-> NoJob]
    /\ cycle = NoCycle
    /\ reset = NoReset
    /\ events = 0 /\ overtaken = {} /\ queued = {}

-------------------------------------------------------------------------------
Oldest(S) == IF S = {} THEN 0 ELSE CHOOSE l \in S : \A m \in S : l <= m

\* A name counts with a region, or if it is long enough to tell companies apart.
Cautious(name, location) == name # None /\ (location # None \/ name \in Long)

\* Mutant of Duplicate: telephone numbers are not looked up.
DuplicateWithoutPhones(x, phones) ==
    LET bySite == {l \in Live : Site[leads[l].listing] = Site[x]}
        byName == {l \in Live : /\ Cautious(Name[x], Location[x])
                                /\ leads[l].name = Name[x]
                                /\ leads[l].location = Location[x]}
    IN  Oldest(IF bySite # {} THEN bySite ELSE byName)

\* find_duplicate_lead: by host, else by telephone number, else by name and region
Duplicate(x, phones) ==
    LET bySite == {l \in Live : Site[leads[l].listing] = Site[x]}
        byPhone == {l \in Live : leads[l].phones \cap phones # {}}
        byName == {l \in Live : /\ Cautious(Name[x], Location[x])
                                /\ leads[l].name = Name[x]
                                /\ leads[l].location = Location[x]}
    IN  Oldest(IF bySite # {} THEN bySite ELSE IF byPhone # {} THEN byPhone ELSE byName)

\* sales_search_companies hands on no telephone numbers.
Given(x, source) == IF source = "search" THEN {} ELSE Phones[x]
Candidate(w) == Head(job[w].todo)

Rest(w) ==
    /\ at' = [at EXCEPT ![w] = "idle"]
    /\ job' = [job EXCEPT ![w] = NoJob]
    /\ cycle' = IF w = "cycle" THEN NoCycle ELSE cycle

\* On to the next listing; a tool or a synchronisation that has none is done.
Onward(w) ==
    LET rest == Tail(job[w].todo)
    IN  IF w # "cycle" /\ rest = <<>>
        THEN Rest(w)
        ELSE /\ job' = [job EXCEPT ![w].todo = rest, ![w].found = 0]
             /\ at' = [at EXCEPT ![w] = IF w = "cycle" THEN "next" ELSE "find"]
             /\ UNCHANGED cycle

CreateCampaign(v) ==
    /\ Len(campaigns) < MaxCampaigns
    /\ campaigns' = Append(campaigns, [vertical |-> v, live |-> TRUE])

\* sales_search_companies, sales_import_leads; an import may name a campaign, and any
\* source, that of the production check too
ToolBegins(source, results) ==
    /\ at["tool"] = "idle"
    /\ \E c \in 1 .. MaxCampaigns :
         /\ \/ c = Len(campaigns) + 1 /\ CreateCampaign(0)
            \/ source # "search" /\ c \in LiveCampaigns /\ UNCHANGED campaigns
         /\ job' = [job EXCEPT !["tool"] =
                      [source |-> source, todo |-> results, campaign |-> c, found |-> 0]]
    /\ at' = [at EXCEPT !["tool"] = "find"]
    /\ UNCHANGED <<leads, cycle, reset, history>>

\* sync_whatsapp_inbox, for a chat whose number is not that of one lead
ContactWrites ==
    /\ at["inbox"] = "idle"
    /\ Cardinality({l \in Live : Phones[Contact] \subseteq leads[l].phones}) # 1
    /\ job' = [job EXCEPT !["inbox"] = [NoJob EXCEPT !.source = "inbound", !.todo = <<Contact>>]]
    /\ at' = [at EXCEPT !["inbox"] = "find"]
    /\ UNCHANGED <<table, cycle, reset, history>>

\* upsert_lead, its first connection
Find(w) ==
    LET x == Candidate(w)
    IN  /\ at[w] = "find"
        /\ job' = [job EXCEPT ![w].found = Duplicate(x, Given(x, job[w].source))]
        /\ at' = [at EXCEPT ![w] = "write"]
        /\ UNCHANGED <<table, cycle, reset, history>>

NewLead(w) ==
    LET x == Candidate(w)
    IN  [listing |-> x, source |-> job[w].source, campaign |-> job[w].campaign,
         phones |-> Given(x, job[w].source), name |-> Name[x], location |-> Location[x],
         evidence |-> "none", pending |-> TRUE, live |-> TRUE]

\* Mutant of CampaignStands: the campaign is not looked up before the link is made.
CampaignUnchecked(w) == job[w].campaign \in 0 .. Len(campaigns)

CampaignStands(w) == job[w].campaign \in {0} \cup LiveCampaigns
UrlTaken(x) == \E l \in Live : Url[leads[l].listing] = Url[x]

\* What _sync_lead_lookup_keys keeps beside the host.
Keys == [l \in Live |-> <<leads[l].phones, leads[l].name, leads[l].location>>]
Overtaken == overtaken \cup (IF Keys' = Keys THEN {} ELSE {v \in Writers : at[v] = "write"})

Inserts(w) ==
    /\ job[w].found = 0
    /\ ~ UrlTaken(Candidate(w))
    /\ CampaignStands(w)
    /\ Len(leads) < MaxLeads
    /\ leads' = Append(leads, NewLead(w))

\* The duplicate gets the numbers, and the region if it has none; nobody asks whether
\* another lead has those keys.
Merges(w) ==
    LET d == job[w].found
        x == Candidate(w)
    IN  /\ d \in Live
        /\ CampaignStands(w)
        /\ leads' = [leads EXCEPT ![d].phones = @ \cup Given(x, job[w].source),
                                  ![d].location = IF @ = None THEN Location[x] ELSE @]

\* its second connection; the cycle goes on to save the evidence
Write(w) ==
    /\ at[w] = "write"
    /\ Inserts(w) \/ Merges(w)
    /\ overtaken' = Overtaken \ {w}
    /\ IF w = "cycle"
       THEN /\ at' = [at EXCEPT ![w] = "save"]
            /\ job' = [job EXCEPT ![w].found = IF @ = 0 THEN Len(leads) + 1 ELSE @]
            /\ UNCHANGED cycle
       ELSE Onward(w)
    /\ UNCHANGED <<campaigns, reset, events, queued>>

\* The transaction is rolled back: the address is taken, or the lead or the campaign
\* is gone.  An import survives all but the first, a cycle survives all.
WriteFails(w) ==
    LET d == job[w].found
        taken == d = 0 /\ UrlTaken(Candidate(w))
    IN  /\ at[w] = "write"
        /\ taken \/ d \notin {0} \cup Live \/ ~ CampaignStands(w)
        /\ IF job[w].source = "autopilot" \/ (job[w].source \in {"import", "check"} /\ ~ taken)
           THEN Onward(w) ELSE Rest(w)
        /\ overtaken' = overtaken \ {w}
        /\ UNCHANGED <<table, reset, events, queued>>

-------------------------------------------------------------------------------
\* run_cycle, with the server's own discovery enabled.  Forced or not, it is not
\* stopped by the switch once it has begun.
CycleBegins ==
    /\ at["cycle"] = "idle"
    /\ Cardinality(Queue) < QueueLimit
    /\ at' = [at EXCEPT !["cycle"] = "vertical"]
    /\ cycle' = [row |-> TRUE, vertical |-> 1, room |-> 0]
    /\ UNCHANGED <<table, job, reset, history>>

\* Mutant of Smaller: max for min.
Larger(a, b) == IF a < b THEN b ELSE a

Smaller(a, b) == IF a < b THEN a ELSE b

\* Mutant of Vertical: the list of verticals has no end.
VerticalNoEnd ==
    LET slots == QueueLimit - Cardinality(Queue)
        same == {c \in LiveCampaigns : campaigns[c].vertical = cycle.vertical}
    IN  /\ at["cycle"] = "vertical"
        /\ slots > 0
        /\ cycle' = [cycle EXCEPT !.room = Smaller(Target, slots)]
        /\ IF same = {} THEN CreateCampaign(cycle.vertical) ELSE UNCHANGED campaigns
        /\ job' = [job EXCEPT !["cycle"] =
             [NoJob EXCEPT !.source = "autopilot",
                           !.campaign = IF same = {} THEN Len(campaigns) + 1 ELSE Oldest(same)]]
        /\ at' = [at EXCEPT !["cycle"] = "register"]
        /\ UNCHANGED <<leads, reset, history>>

\* The count of the queue, the target and get_or_create_campaign, whose name no other
\* writer uses.
Vertical ==
    LET slots == QueueLimit - Cardinality(Queue)
        same == {c \in LiveCampaigns : campaigns[c].vertical = cycle.vertical}
    IN  /\ at["cycle"] = "vertical"
        /\ slots > 0 /\ cycle.vertical <= Verticals
        /\ cycle' = [cycle EXCEPT !.room = Smaller(Target, slots)]
        /\ IF same = {} THEN CreateCampaign(cycle.vertical) ELSE UNCHANGED campaigns
        /\ job' = [job EXCEPT !["cycle"] =
             [NoJob EXCEPT !.source = "autopilot",
                           !.campaign = IF same = {} THEN Len(campaigns) + 1 ELSE Oldest(same)]]
        /\ at' = [at EXCEPT !["cycle"] = "register"]
        /\ UNCHANGED <<leads, reset, history>>

CycleEnds ==
    /\ at["cycle"] = "vertical"
    /\ Cardinality(Queue) >= QueueLimit \/ cycle.vertical > Verticals
    /\ Rest("cycle")
    /\ UNCHANGED <<table, reset, history>>

\* register_autopilot_campaign fails when a reset has deleted the cycle; then discovery
Discover(results) ==
    /\ at["cycle"] = "register"
    /\ IF cycle.row /\ CampaignStands("cycle")
       THEN /\ job' = [job EXCEPT !["cycle"].todo = results]
            /\ at' = [at EXCEPT !["cycle"] = "next"]
            /\ UNCHANGED cycle
       ELSE Rest("cycle")
    /\ UNCHANGED <<table, reset, history>>

\* _inspect_candidate, before the upsert: known companies are left alone unless their
\* evidence is stale; others may be refused for what their website shows.
Consider ==
    LET x == Candidate("cycle")
        d == Duplicate(x, Phones[x])
    IN  /\ at["cycle"] = "next"
        /\ cycle.room > 0 /\ job["cycle"].todo # <<>>
        /\ \/ Onward("cycle")
           \/ /\ d # 0 => leads[d].evidence = "stale"
              /\ at' = [at EXCEPT !["cycle"] = "find"]
              /\ UNCHANGED <<job, cycle>>
        /\ UNCHANGED <<table, reset, history>>

\* save_inspection; it refuses evidence from another host than the lead's
SaveInspection(sameHost) ==
    LET l == job["cycle"].found
        saved == l \in Live /\ sameHost
    IN  /\ at["cycle"] = "save"
        /\ leads' = IF saved THEN [leads EXCEPT ![l].evidence = "fresh"] ELSE leads
        /\ queued' = IF saved /\ leads[l].source = "autopilot" THEN queued \cup {l} ELSE queued
        /\ job' = [job EXCEPT !["cycle"].todo = Tail(@), !["cycle"].found = 0]
        /\ at' = [at EXCEPT !["cycle"] = "next"]
        /\ cycle' = IF saved THEN [cycle EXCEPT !.room = @ - 1] ELSE cycle
        /\ UNCHANGED <<campaigns, reset, events, overtaken>>

\* set_campaign_status, which fails the cycle when the campaign is gone
VerticalEnds ==
    /\ at["cycle"] = "next"
    /\ cycle.room = 0 \/ job["cycle"].todo = <<>>
    /\ IF CampaignStands("cycle")
       THEN /\ cycle' = [cycle EXCEPT !.vertical = @ + 1, !.room = 0]
            /\ job' = [job EXCEPT !["cycle"] = NoJob]
            /\ at' = [at EXCEPT !["cycle"] = "vertical"]
       ELSE Rest("cycle")
    /\ UNCHANGED <<table, reset, history>>

Event ==
    /\ events < MaxEvents
    /\ events' = events + 1

\* The process of a writer dies.
Crash(w) ==
    /\ at[w] # "idle"
    /\ Event
    /\ Rest(w)
    /\ overtaken' = overtaken \ {w}
    /\ UNCHANGED <<table, reset, queued>>

-------------------------------------------------------------------------------
\* ChatGPT and the operator, on the event loop

Change(l) ==
    /\ at["tool"] = "idle"
    /\ l \in Live
    /\ Event
    /\ queued' = queued \ {l}
    /\ UNCHANGED <<campaigns, work, reset>>

\* sales_save_analysis, save_analysis: it replaces the contacts, may rename, and may give
\* another region but not take it away
SaveAnalysis(l, phones, name, location) ==
    /\ Change(l)
    /\ leads[l].evidence = "fresh"
    /\ leads' = [leads EXCEPT ![l].phones = phones, ![l].name = name, ![l].pending = FALSE,
                              ![l].location = IF location = None THEN @ ELSE location]
    /\ overtaken' = Overtaken

\* update_lead_status, in the cabinet or by sales_update_lead_status
UpdateStatus(l) ==
    /\ Change(l)
    /\ leads' = [leads EXCEPT ![l].pending = ~ @]
    /\ UNCHANGED overtaken

\* sales_inspect_website, sales_analyze_lead
Inspect(l) ==
    /\ Change(l)
    /\ leads' = [leads EXCEPT ![l].evidence = "fresh"]
    /\ UNCHANGED overtaken

EvidenceExpires(l) ==
    /\ l \in Live /\ leads[l].evidence = "fresh"
    /\ Event
    /\ leads' = [leads EXCEPT ![l].evidence = "stale"]
    /\ UNCHANGED <<campaigns, work, reset, overtaken, queued>>

-------------------------------------------------------------------------------
\* preview_prospecting_reset, when there is something to reset
Preview ==
    /\ reset.at # "backed"
    /\ Prospects # {}
    /\ reset' = [at |-> "shown", leads |-> Cardinality(Prospects),
                 campaigns |-> Cardinality(LiveCampaigns), shown |-> Prospects, backup |-> {}]
    /\ UNCHANGED <<table, work, history>>

\* What reset_prospecting_data checks, before the backup and again after it; Autopilot
\* is switched off, which does not end the cycle that runs.
AsExpected ==
    /\ Cardinality(Prospects) = reset.leads
    /\ Cardinality(LiveCampaigns) = reset.campaigns

BackUp ==
    /\ reset.at = "shown"
    /\ AsExpected
    /\ reset' = [reset EXCEPT !.at = "backed", !.backup = Live]
    /\ UNCHANGED <<table, work, history>>

Deleted(l) == [leads[l] EXCEPT !.live = FALSE, !.phones = {}, !.evidence = "none", !.pending = FALSE]

\* Mutant of Commit: the counts are not compared again after the backup.
CommitUnchecked ==
    /\ reset.at = "backed"
    /\ leads' = [l \in Leads |-> IF l \in Prospects THEN Deleted(l) ELSE leads[l]]
    /\ campaigns' = [c \in DOMAIN campaigns |-> [campaigns[c] EXCEPT !.live = FALSE]]
    /\ cycle' = [cycle EXCEPT !.row = FALSE]
    /\ reset' = NoReset
    /\ queued' = queued \ Prospects
    /\ UNCHANGED <<at, job, events, overtaken>>

Commit ==
    /\ reset.at = "backed"
    /\ AsExpected
    /\ leads' = [l \in Leads |-> IF l \in Prospects THEN Deleted(l) ELSE leads[l]]
    /\ campaigns' = [c \in DOMAIN campaigns |-> [campaigns[c] EXCEPT !.live = FALSE]]
    /\ cycle' = [cycle EXCEPT !.row = FALSE]
    /\ reset' = NoReset
    /\ queued' = queued \ Prospects
    /\ UNCHANGED <<at, job, events, overtaken>>

\* the second check fails, the backup cannot be written, or the process dies
ResetFails ==
    /\ reset.at = "backed"
    /\ reset' = NoReset
    /\ UNCHANGED <<table, work, history>>

Artifacts == {l \in Live : leads[l].source = "check"}

\* remove_production_safe_check_artifacts, in the process of the production check
RemoveCheckArtifacts ==
    /\ Artifacts # {}
    /\ leads' = [l \in Leads |-> IF l \in Artifacts THEN Deleted(l) ELSE leads[l]]
    /\ queued' = queued \ Artifacts
    /\ UNCHANGED <<campaigns, work, reset, events, overtaken>>

Next ==
    \/ \E source \in {"search", "import", "check"} : \E results \in Results[source] :
         ToolBegins(source, results)
    \/ \E results \in Results["autopilot"] : Discover(results)
    \/ ContactWrites
    \/ \E w \in Writers : Find(w) \/ Write(w) \/ WriteFails(w) \/ Crash(w)
    \/ CycleBegins \/ Vertical \/ CycleEnds \/ Consider \/ VerticalEnds
    \/ \E sameHost \in BOOLEAN : SaveInspection(sameHost)
    \/ \E l \in Leads :
         \/ \E phones \in SUBSET AllPhones, name \in AllNames \ {Name[Contact]},
                location \in AllLocations : SaveAnalysis(l, phones, name, location)
         \/ UpdateStatus(l) \/ Inspect(l) \/ EvidenceExpires(l)
    \/ Preview \/ BackUp \/ Commit \/ ResetFails \/ RemoveCheckArtifacts

Spec == Init /\ [][Next]_vars

-------------------------------------------------------------------------------
SameCompany(l, m) ==
    \/ Site[leads[l].listing] = Site[leads[m].listing]
    \/ leads[l].phones \cap leads[m].phones # {}
    \/ /\ Cautious(leads[l].name, leads[l].location)
       /\ <<leads[l].name, leads[l].location>> = <<leads[m].name, leads[m].location>>

\* A company gets one lead: an upsert inserts one beside a lead of the same host, with a
\* common telephone number or with its name and region only if, between its search and
\* its insert, another writer inserted a lead or changed the keys of one; and it never
\* inserts a second lead with the same address (find_duplicate_lead and the INSERT of
\* upsert_lead).  It is about inserts: a merge that brings a region or a number, and an
\* analysis, can give two leads that are there a common key, without any race.
OneLeadPerCompany ==
    [][ \A w \in Writers : at[w] = "write" /\ at'[w] # "write" =>
          \A l \in Live, m \in Leads' \ Leads :
            /\ Url[leads'[l].listing] # Url[leads'[m].listing]
            /\ w \notin overtaken => ~ SameCompany(l, m)' ]_vars

\* The server does not overfill the queue it keeps for ChatGPT: the companies its
\* cycles accepted and nobody has touched since never exceed the limit, whatever
\* ChatGPT imports while a vertical runs (run_cycle, _process_vertical).
ServerRespectsQueue == Cardinality(queued \cap Queue) <= QueueLimit

\* Every prospect belongs to the campaign it was found under: a tool or a cycle that
\* outlives a reset leaves nothing behind (the check at the end of upsert_lead).
NoLeadWithoutCampaign == \A l \in Prospects : leads[l].campaign \in LiveCampaigns

\* A reset compares counts only, and yet deletes what its preview showed and its backup
\* holds.  Only the production check deletes leads beside it, so there is at most one lead
\* that was not shown or not backed up for each artifact of that check among those shown:
\* none, if there were no artifacts (reset_prospecting_data,
\* remove_production_safe_check_artifacts).
ResetDeletesWhatItBackedUp ==
    [][ Commit => Cardinality(Prospects \ (reset.shown \cap reset.backup))
                    <= Cardinality({l \in reset.shown : leads[l].source = "check"}) ]_vars

===============================================================================
