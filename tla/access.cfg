\* Two users who join, invite and demote each other, beside two requests of one OAuth
\* client; an access token lives as long as a session, a refresh token longer.
SPECIFICATION Spec
CONSTANTS
    Clients = {c1}
    Users = {u1, u2}
    Nobody = Nobody
    Slots = {s1, s2}
    CodeTTL = 1
    AccessTTL = 1
    RefreshTTL = 2
    MaxGrants = 1
    MaxPairs = 3
    MaxTime = 2
    Emails = {e1, e2}
    None = None
    Allowed = {e1}
    OwnerEmails = {}
    InviteTTL = 1
    SessionTTL = 1
    Offered = {"owner", "viewer"}
    MaxInvites = 1
    MaxChanges = 2
INVARIANTS AccessTypeOK OnlyNewestPairAnswers RevokedFamiliesStayDead AnOwnerRemains
PROPERTIES ImplementsFamilies OwnersDecide
SYMMETRY Symmetry
VIEW WhatMatters
\* At the last tick everything may have lapsed.
CHECK_DEADLOCK FALSE
