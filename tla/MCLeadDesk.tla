------------------------------ MODULE MCLeadDesk ------------------------------
(***************************************************************************)
(* TLC instance of LeadDesk: two addresses of one host, one found in a     *)
(* region and one without; a twin on another host, in that region; a third *)
(* host with the telephone number of the second address; all of one name;  *)
(* and an unknown contact with that number.                                *)
(***************************************************************************)
EXTENDS LeadDesk

CONSTANTS www, bare, twin, other, chat

MCListings == {www, bare, twin, other, chat}
MCUrl == [x \in MCListings |-> x]
MCSite == [x \in MCListings |-> IF x = www THEN bare ELSE x]
MCPhones == [x \in MCListings |-> IF x \in {www, twin} THEN {} ELSE {"p"}]
MCName == [x \in MCListings |-> IF x = chat THEN "contact" ELSE "company"]
MCLocation == [x \in MCListings |-> IF x \in {www, twin} THEN "region" ELSE None]
MCResults == [search |-> {<<twin>>}, import |-> {}, check |-> {<<bare, other>>},
              autopilot |-> {<<www, other>>}]

\* Of a deleted lead only the source matters, of a deleted campaign nothing; of a writer's
\* job, whether its campaign and the duplicate it found are still there; that it was
\* overtaken, if it is about to insert; of a backup, what of it was shown.  The view leaves
\* out the rest.
Job(w) ==
    [job[w] EXCEPT !.campaign = IF CampaignStands(w) THEN @ ELSE -1,
                   !.found = IF @ \in {0} \cup Live THEN @ ELSE -1]

WhatMatters ==
    <<[l \in Leads |-> IF l \in Live THEN leads[l] ELSE leads[l].source],
      [c \in DOMAIN campaigns |-> IF c \in LiveCampaigns THEN campaigns[c].vertical ELSE -1],
      [w \in Writers |-> Job(w)], at, cycle, [reset EXCEPT !.backup = @ \cap reset.shown],
      events, {w \in overtaken : job[w].found = 0}, queued>>

===============================================================================
