\* A cycle that finds two companies, tools that bring a third listing, an unknown
\* contact, the production check and a reset, with one change, expiry or crash.
SPECIFICATION Spec
CONSTANTS
    www = www
    bare = bare
    twin = twin
    other = other
    chat = chat
    None = None
    Listings <- MCListings
    Url <- MCUrl
    Site <- MCSite
    Phones <- MCPhones
    Name <- MCName
    Location <- MCLocation
    Long = {"company"}
    Contact = chat
    Results <- MCResults
    QueueLimit = 1
    Target = 2
    Verticals = 1
    MaxLeads = 2
    MaxCampaigns = 2
    MaxEvents = 1
INVARIANTS TypeOK ServerRespectsQueue NoLeadWithoutCampaign
VIEW WhatMatters
PROPERTIES OneLeadPerCompany ResetDeletesWhatItBackedUp
\* The queue is full, the bounds are reached.
CHECK_DEADLOCK FALSE
