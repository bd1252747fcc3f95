--------------------------- MODULE WorkspaceAccess ----------------------------
(***************************************************************************)
(* Who may do what in the workspace: members, invitations and roles        *)
(* (src/app/crm.py), the cabinet's sessions (src/app/auth.py,              *)
(* src/app/admin.py), composed with the OAuth server, whose consents are    *)
(* given in the cabinet.                                                   *)
(*                                                                         *)
(* A session is a signed cookie in the user's browser: it holds the role   *)
(* the user had at sign-in until the identity provider's token expires.    *)
(* The tools of MCP read the role anew in each call.                       *)
(*                                                                         *)
(* The server takes up a request of the cabinet with the cookie it came    *)
(* with, awaits its body, which may take any time, and acts then:          *)
(* admin_endpoint looks at the cookie before the body has come, the page   *)
(* of a consent after it.  A user has one such request under way at a      *)
(* time (a bound).  From there a request runs to its end on the event loop.*)
(***************************************************************************)
EXTENDS OAuthTokens

CONSTANTS
    Emails,
    None,            \* no row, no session
    Allowed,         \* admin_allowed_emails: may join without an invitation
    OwnerEmails,     \* workspace_owner_emails: join as owners
    InviteTTL,       \* ticks an invitation is open
    SessionTTL,      \* ticks the identity provider's token, and a session, lives
    Offered,         \* bound: roles that an invitation or a change gives
    MaxInvites,      \* bound: invitations
    MaxChanges       \* bound: changes of roles

ASSUME AccessAssumption ==
    /\ None \notin [email : Emails, role : {"owner", "operator", "viewer"}]
    /\ None \notin 0 .. MaxTime
    /\ Allowed \subseteq Emails /\ OwnerEmails \subseteq Emails
    /\ Offered \subseteq {"owner", "operator", "viewer"}
    /\ {InviteTTL, SessionTTL} \subseteq Nat \ {0}
    /\ {MaxInvites, MaxChanges} \subseteq Nat

VARIABLES
    members,   \* workspace_members by subject
    invites,   \* the pending workspace_invitation of each email
    sessions,  \* the cookie of each user's browser
    held,      \* the cookie of the request whose body the server awaits, and since when
    \* for the bounds and the properties only
    invited,   \* invitations written
    changes,   \* roles changed
    lost       \* when each user last ceased to be an owner

memberVars == <<members, invites, sessions, held, invited, changes, lost>>
vars == <<oauthVars, memberVars>>

Roles == {"owner", "operator", "viewer"}

AccessTypeOK ==
    /\ TypeOK
    /\ members \in [Users -> [email : Emails, role : Roles] \cup {None}]
    /\ invites \in [Emails -> [role : Roles, at : Nat] \cup {None}]
    /\ sessions \in [Users -> [role : Roles, at : Nat] \cup {None}]
    /\ held \in [Users -> [owner : BOOLEAN, at : Nat, since : Nat] \cup {None}]
    /\ invited \in 0 .. MaxInvites /\ changes \in 0 .. MaxChanges
    /\ lost \in [Users -> Nat \cup {None}]

Init ==
    /\ OAuthInit
    /\ members = [u \in Users |-> None]
    /\ invites = [e \in Emails |-> None]
    /\ sessions = [u \in Users |-> None]
    /\ held = [u \in Users |-> None]
    /\ invited = 0 /\ changes = 0
    /\ lost = [u \in Users |-> None]

-------------------------------------------------------------------------------
Active == {u \in Users : members[u] # None}
Owners == {u \in Active : members[u].role = "owner"}
EmailInUse(e) == \E u \in Active : members[u].email = e
OpenInvite(e) == invites[e] # None /\ now < invites[e].at + InviteTTL

\* authorize_workspace_identity: the role a new identity joins with
Joins(u, e, role) ==
    /\ u \notin Active
    /\ ~ EmailInUse(e)
    /\ \/ OpenInvite(e) /\ role = invites[e].role
       \/ /\ ~ OpenInvite(e)
          /\ e \in Allowed
          /\ role = IF Active = {} \/ e \in OwnerEmails THEN "owner" ELSE "operator"
    /\ members' = [members EXCEPT ![u] = [email |-> e, role |-> role]]
    /\ invites' = IF OpenInvite(e) THEN [invites EXCEPT ![e] = None] ELSE invites

Returns(u, e, role) ==
    /\ u \in Active
    /\ members[u].email = e
    /\ role = members[u].role
    /\ UNCHANGED <<members, invites>>

\* complete_login
SignIn(u, e) ==
    /\ \E role \in Roles :
         /\ Joins(u, e, role) \/ Returns(u, e, role)
         /\ sessions' = [sessions EXCEPT ![u] = [role |-> role, at |-> now]]
    /\ UNCHANGED <<held, invited, changes, lost, oauthVars>>

SignOut(u) ==
    /\ sessions[u] # None
    /\ sessions' = [sessions EXCEPT ![u] = None]
    /\ UNCHANGED <<members, invites, held, invited, changes, lost, oauthVars>>

Fresh(cookie) == now < cookie.at + SessionTTL

\* Mutant of Signed: the expiry of the session is not looked at.
SignedForEver(u) == sessions[u] # None

\* _get_user and _session_user refuse a session whose token has expired.
Signed(u) == sessions[u] # None /\ Fresh(sessions[u])

\* The server takes up a request and awaits its body.  One whose cookie has expired is
\* refused now or, if it is a consent, when the body has come.
Begin(u) ==
    /\ held[u] = None
    /\ Signed(u)
    /\ held' = [held EXCEPT ![u] =
                  [owner |-> sessions[u].role = "owner", at |-> sessions[u].at, since |-> now]]
    /\ UNCHANGED <<members, invites, sessions, invited, changes, lost, oauthVars>>

\* The request is over: it was answered, refused for what it asked, or cut off.
Ends(u) == held' = [held EXCEPT ![u] = None]

Abandon(u) ==
    /\ held[u] # None
    /\ Ends(u)
    /\ UNCHANGED <<members, invites, sessions, invited, changes, lost, oauthVars>>

\* _require_owner has passed, with the role of the cookie.
Admitted(u) == held[u] # None /\ held[u].owner

\* api_invite_workspace_member, invite_workspace_member; it replaces a pending one
Invite(u, e, role) ==
    /\ Admitted(u)
    /\ Ends(u)
    /\ invited < MaxInvites
    /\ ~ EmailInUse(e)
    /\ invites' = [invites EXCEPT ![e] = [role |-> role, at |-> now]]
    /\ invited' = invited + 1
    /\ UNCHANGED <<members, sessions, changes, lost, oauthVars>>

\* Mutant of LastOwner: the member whose role changes is not counted.
LastOwnerOffByOne(u) == u \in Owners /\ Cardinality(Owners) < 1

LastOwner(u) == u \in Owners /\ Cardinality(Owners) <= 1

\* api_update_workspace_member, update_workspace_member_role
ChangeRole(u, v, role) ==
    /\ Admitted(u)
    /\ Ends(u)
    /\ changes < MaxChanges
    /\ u = v => role = "owner"
    /\ v \in Active
    /\ ~ (LastOwner(v) /\ role # "owner")
    /\ members' = [members EXCEPT ![v].role = role]
    /\ changes' = changes + 1
    /\ lost' = IF v \in Owners /\ role # "owner" THEN [lost EXCEPT ![v] = now] ELSE lost
    /\ UNCHANGED <<invites, sessions, invited, oauthVars>>

\* oauth_authorize_complete: the session is looked at when the body has come
Decide(u, g) ==
    /\ held[u] # None /\ Fresh(held[u])
    /\ Ends(u)
    /\ Approve(g, u) \/ Deny(g)
    /\ UNCHANGED <<members, invites, sessions, invited, changes, lost>>

\* The rest of the OAuth server does not ask for a session.
TokenEndpoint ==
    /\ \/ \E c \in Clients : Authorize(c)
       \/ CleanUp
       \/ \E s \in Slots : Request(s)
       \/ Tick
    /\ UNCHANGED memberVars

Next ==
    \/ \E u \in Users :
         \/ \E e \in Emails : SignIn(u, e)
         \/ SignOut(u) \/ Begin(u) \/ Abandon(u)
         \/ \E e \in Emails, role \in Offered : Invite(u, e, role)
         \/ \E v \in Users, role \in Offered : ChangeRole(u, v, role)
         \/ \E g \in Grants : Decide(u, g)
    \/ TokenEndpoint

Spec == Init /\ [][Next]_vars

-------------------------------------------------------------------------------
\* A workspace with members has an owner, whatever sequence of joins and role changes
\* led to it, also when owners demote each other or a session still says "owner" after
\* its user was demoted (update_workspace_member_role, api_update_workspace_member).
AnOwnerRemains == Active # {} => Owners # {}

\* Whoever writes an invitation or changes a role is an owner, or was one less than a
\* session's lifetime before the server took up that request: a demotion reaches the
\* cabinet late, through the role in the cookie, but no request is admitted later than
\* that.  How late an admitted request acts is another matter: nothing bounds it, the
\* role is not read again when the body has come (admin_endpoint, _read_json).
OwnerWhenAdmitted(u) ==
    u \in Owners \/ (lost[u] # None /\ held[u].since < lost[u] + SessionTTL)

OwnersDecide ==
    [][ \A u \in Users :
          \/ \E e \in Emails, role \in Offered : Invite(u, e, role)
          \/ \E v \in Users, role \in Offered : ChangeRole(u, v, role)
          => OwnerWhenAdmitted(u) ]_vars

===============================================================================
