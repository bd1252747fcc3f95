------------------------ MODULE WorkspaceAccessProofs -------------------------
(***************************************************************************)
(* What TLAPS proves of WorkspaceAccess: the cabinet only ever takes steps *)
(* of the OAuth server that OAuthTokens allows, so its theorems hold of    *)
(* the composition; a workspace with members has an owner; and whoever     *)
(* decides is an owner, or was one less than a session's lifetime before   *)
(* the server took up the request.                                         *)
(***************************************************************************)
EXTENDS WorkspaceAccess, OAuthTokensProofs, FiniteSetTheorems

(***************************************************************************)
(* The composition and the OAuth server                                    *)
(***************************************************************************)
LEMMA StepsOfTheServer == [Next]_vars => [OAuthNext]_oauthVars
  <1> SUFFICES ASSUME [Next]_vars
               PROVE  [OAuthNext]_oauthVars
    OBVIOUS
  <1>1. CASE TokenEndpoint
    BY <1>1 DEF TokenEndpoint, OAuthNext
  <1>2. ASSUME NEW u \in Users, NEW g \in Grants, Decide(u, g)
        PROVE  OAuthNext
    BY <1>2 DEF Decide, OAuthNext
  <1>3. ASSUME NEW u \in Users,
               \/ \E e \in Emails : SignIn(u, e)
               \/ SignOut(u) \/ Begin(u) \/ Abandon(u)
               \/ \E e \in Emails, role \in Offered : Invite(u, e, role)
               \/ \E v \in Users, role \in Offered : ChangeRole(u, v, role)
        PROVE  UNCHANGED oauthVars
    BY <1>3 DEF SignIn, SignOut, Begin, Abandon, Invite, ChangeRole
  <1>4. CASE UNCHANGED vars
    BY <1>4 DEF vars
  <1> QED
    BY <1>1, <1>2, <1>3, <1>4 DEF Next

\* The cabinet, whose users give the consents, leaves the OAuth server a behaviour of
\* its own (oauth_authorize_complete calls complete_authorization and nothing else).
THEOREM ServerInWorkspace == Spec => OAuthSpec
  <1>1. Init => OAuthInit
    BY DEF Init
  <1> QED
    BY <1>1, StepsOfTheServer, PTL DEF Spec, OAuthSpec

\* What holds of the OAuth server holds of the workspace: only the newest pair answers,
\* the dead stay dead, tokens stay with their client, and families are implemented.
THEOREM WorkspaceTokens ==
  Spec => /\ []OnlyNewestPairAnswers /\ []RevokedFamiliesStayDead /\ []TokensStayWithClient
          /\ ImplementsFamilies
  BY ServerInWorkspace, OnlyTheNewestPairAnswers, RevokedStaysDead, ClientsKeepTheirTokens,
     OAuthImplementsFamilies

-------------------------------------------------------------------------------
(***************************************************************************)
(* Members                                                                 *)
(***************************************************************************)
\* Before the first member joins nobody can have been invited or signed in, and no
\* request has begun.
EmptyWorkspace ==
  /\ \A u \in Users : sessions[u] # None \/ held[u] # None => u \in Active
  /\ Active = {} => \A e \in Emails : invites[e] = None

\* A session that says "owner" began while its user was one.
OwnersSignedIn ==
  \A u \in Users :
    sessions[u] # None /\ sessions[u].role = "owner" =>
      u \in Owners \/ (lost[u] # None /\ sessions[u].at <= lost[u])

\* No session and no request began after now.
SessionsBegan ==
  \A u \in Users :
    /\ sessions[u] # None => sessions[u].at <= now
    /\ held[u] # None => held[u].since <= now

\* A request that was admitted as an owner's is explained by its user's role, or by the
\* loss of it not long before.
OwnersAdmitted == \A u \in Users : Admitted(u) => OwnerWhenAdmitted(u)

AccessInv ==
  /\ AccessTypeOK /\ EmptyWorkspace /\ AnOwnerRemains
  /\ OwnersSignedIn /\ SessionsBegan /\ OwnersAdmitted

HeldRequest == [owner : BOOLEAN, at : Nat, since : Nat]

Member == [email : Emails, role : Roles]

MembersTyped ==
  /\ members \in [Users -> Member \cup {None}] /\ None \notin Member
  /\ invites \in [Emails -> [role : Roles, at : Nat] \cup {None}]
  /\ sessions \in [Users -> [role : Roles, at : Nat] \cup {None}]
  /\ held \in [Users -> HeldRequest \cup {None}]
  /\ lost \in [Users -> Nat \cup {None}]
  /\ now \in Nat /\ now # None

LEMMA OfferedRoles == Offered \subseteq Roles
  BY AccessAssumption DEF Roles

LEMMA AccessTyped == AccessTypeOK => MembersTyped
  BY AccessAssumption DEF AccessTypeOK, MembersTyped, TypeOK, Member, Roles, HeldRequest

\* Whoever joins is a member with the role the code gives; the first one is an owner,
\* unless an invitation says otherwise, and then there was a member to write it.
LEMMA JoinsAdds ==
  ASSUME MembersTyped, NEW u \in Users, NEW e \in Emails, NEW role \in Roles, Joins(u, e, role)
  PROVE  /\ members' \in [Users -> Member \cup {None}]
         /\ invites' \in [Emails -> [role : Roles, at : Nat] \cup {None}]
         /\ u \notin Active /\ Active' = Active \cup {u}
         /\ Owners' = IF role = "owner" THEN Owners \cup {u} ELSE Owners
         /\ Active = {} /\ (\A i \in Emails : invites[i] = None) => role = "owner"
  <1>1. [email |-> e, role |-> role] \in Member /\ [email |-> e, role |-> role] # None
    BY DEF MembersTyped, Member
  <1>2. /\ u \notin Active
        /\ members' = [members EXCEPT ![u] = [email |-> e, role |-> role]]
    BY DEF Joins
  <1>3. members' \in [Users -> Member \cup {None}]
    BY <1>1, <1>2 DEF MembersTyped
  <1>4. Active' = Active \cup {u}
    BY <1>1, <1>2 DEF MembersTyped, Active
  <1>5. members'[u].role = role /\ \A v \in Users : v # u => members'[v] = members[v]
    BY <1>1, <1>2 DEF MembersTyped
  <1>6. Owners' = IF role = "owner" THEN Owners \cup {u} ELSE Owners
    BY <1>2, <1>4, <1>5 DEF Owners, Active
  <1>7. invites' \in [Emails -> [role : Roles, at : Nat] \cup {None}]
    BY DEF Joins, MembersTyped
  <1>8. Active = {} /\ (\A i \in Emails : invites[i] = None) => role = "owner"
    BY DEF Joins, OpenInvite
  <1> QED
    BY <1>2, <1>3, <1>4, <1>6, <1>7, <1>8

\* The last owner keeps the role, whoever asks.
LEMMA ChangeKeepsAnOwner ==
  ASSUME MembersTyped, NEW u \in Users, NEW v \in Users, NEW role \in Roles, ChangeRole(u, v, role)
  PROVE  /\ members' \in [Users -> Member \cup {None}]
         /\ Active' = Active
         /\ Owners' = IF role = "owner" THEN Owners \cup {v} ELSE Owners \ {v}
         /\ Owners # {} => Owners' # {}
  <1>1. v \in Active /\ members[v] \in Member
    BY DEF ChangeRole, Active, MembersTyped
  <1>2. members' = [members EXCEPT ![v] = [members[v] EXCEPT !.role = role]]
    BY DEF ChangeRole
  <1>3. /\ [members[v] EXCEPT !.role = role] \in Member
        /\ [members[v] EXCEPT !.role = role].role = role
    BY <1>1 DEF Member
  <1>4. /\ members' \in [Users -> Member \cup {None}]
        /\ members'[v] \in Member /\ members'[v].role = role
        /\ \A w \in Users : w # v => members'[w] = members[w]
    BY <1>2, <1>3 DEF MembersTyped
  <1>5. Active' = Active
    BY <1>1, <1>4 DEF Active, MembersTyped
  <1>6. Owners' = IF role = "owner" THEN Owners \cup {v} ELSE Owners \ {v}
    BY <1>1, <1>4, <1>5 DEF Owners, Active
  <1>7. ASSUME Owners # {}, Owners' = {}
        PROVE  FALSE
    <2>1. role # "owner" /\ Owners = {v}
      BY <1>6, <1>7
    <2>2. Cardinality(Owners) = 1
      BY <2>1, FS_Singleton
    <2> QED
      BY <2>1, <2>2 DEF ChangeRole, LastOwner
  <1> QED
    BY <1>4, <1>5, <1>6, <1>7

LEMMA AccessStart == Init => AccessInv
  <1> SUFFICES ASSUME Init
               PROVE  AccessInv
    OBVIOUS
  <1>1. AccessTypeOK
    BY StartTyped, AccessAssumption DEF Init, AccessTypeOK
  <1> QED
    BY <1>1 DEF Init, AccessInv, EmptyWorkspace, AnOwnerRemains, OwnersSignedIn, SessionsBegan,
                OwnersAdmitted, Admitted, Active

LEMMA ClockRuns ==
  ASSUME TypeOK, [OAuthNext]_oauthVars
  PROVE  now \in Nat /\ now' \in Nat /\ now <= now'
  <1>1. now \in Nat
    BY Bounds DEF TypeOK
  <1>2. ASSUME NEW s \in Slots, Request(s)
        PROVE  now' = now
    BY <1>2 DEF Request, LoadCode, LoadRefresh, LoadRevoke, Load, ExchangeCode,
                ExchangeRefresh, ExchangeFails, Revoke, GiveUp
  <1>3. now' = now \/ now' = now + 1
    BY <1>2 DEF OAuthNext, Authorize, CleanUp, Deny, Approve, Tick, oauthVars
  <1> QED
    BY <1>1, <1>3

\* What a request leaves of the invariant when it only begins or ends.
LEMMA RequestsOnly ==
  ASSUME AccessInv, TypeOK', now \in Nat, now' \in Nat, now <= now',
         UNCHANGED <<members, invites, sessions, invited, changes, lost>>,
         NEW u \in Users,
         \/ held' = [held EXCEPT ![u] = None]
         \/ /\ Signed(u)
            /\ held' = [held EXCEPT ![u] =
                 [owner |-> sessions[u].role = "owner", at |-> sessions[u].at, since |-> now]]
  PROVE  AccessInv'
  <1>0. /\ AccessTypeOK /\ MembersTyped /\ EmptyWorkspace /\ AnOwnerRemains
        /\ OwnersSignedIn /\ SessionsBegan /\ OwnersAdmitted
    BY AccessTyped DEF AccessInv
  <1>1. Active' = Active /\ Owners' = Owners
    BY DEF Active, Owners
  <1>2. /\ held' \in [Users -> HeldRequest \cup {None}]
        /\ \A w \in Users : w # u => held'[w] = held[w]
        /\ held'[u] = None \/ ( /\ sessions[u] # None /\ now < sessions[u].at + SessionTTL
                                /\ held'[u].owner <=> sessions[u].role = "owner"
                                /\ held'[u].since = now )
    <2>1. CASE held' = [held EXCEPT ![u] = None]
      BY <1>0, <2>1 DEF MembersTyped
    <2>2. CASE /\ Signed(u)
               /\ held' = [held EXCEPT ![u] =
                    [owner |-> sessions[u].role = "owner", at |-> sessions[u].at, since |-> now]]
      <3> DEFINE h == [owner |-> sessions[u].role = "owner", at |-> sessions[u].at, since |-> now]
      <3>1. sessions[u] # None /\ sessions[u] \in [role : Roles, at : Nat]
        BY <1>0, <2>2 DEF Signed, MembersTyped
      <3>2. h \in HeldRequest
        BY <3>1 DEF HeldRequest
      <3>3. held' = [held EXCEPT ![u] = h]
        BY <2>2
      <3>4. held'[u] = h /\ h.since = now /\ (h.owner <=> sessions[u].role = "owner")
        BY <1>0, <3>3 DEF MembersTyped
      <3> HIDE DEF h
      <3>5. /\ held' \in [Users -> HeldRequest \cup {None}]
            /\ \A w \in Users : w # u => held'[w] = held[w]
        BY <1>0, <3>2, <3>3 DEF MembersTyped
      <3> QED
        BY <2>2, <3>1, <3>4, <3>5 DEF Signed, Fresh
    <2> QED
      BY <2>1, <2>2
  <1>3. AccessTypeOK'
    BY <1>0, <1>2 DEF AccessTypeOK, HeldRequest
  <1>4. EmptyWorkspace' /\ AnOwnerRemains' /\ OwnersSignedIn'
    BY <1>0, <1>1, <1>2 DEF EmptyWorkspace, AnOwnerRemains, OwnersSignedIn
  <1>5. SessionsBegan'
    <2> SUFFICES ASSUME NEW w \in Users
                 PROVE  /\ sessions[w] # None => sessions[w].at <= now'
                        /\ held'[w] # None => held'[w].since <= now'
      BY DEF SessionsBegan
    <2>1. /\ sessions[w] # None => sessions[w].at \in Nat /\ sessions[w].at <= now
          /\ held[w] # None => held[w].since \in Nat /\ held[w].since <= now
      BY <1>0 DEF MembersTyped, SessionsBegan, HeldRequest
    <2> QED
      BY <1>2, <2>1
  <1>6. OwnersAdmitted'
    <2> SUFFICES ASSUME NEW w \in Users, held'[w] # None, held'[w].owner
                 PROVE  w \in Owners \/ (lost[w] # None /\ held'[w].since < lost[w] + SessionTTL)
      BY <1>1 DEF OwnersAdmitted, Admitted, OwnerWhenAdmitted
    <2>1. CASE w # u
      BY <1>0, <1>2, <2>1 DEF OwnersAdmitted, Admitted, OwnerWhenAdmitted
    <2>2. CASE w = u
      <3>1. /\ sessions[u] # None /\ sessions[u].role = "owner" /\ held'[u].since = now
            /\ now < sessions[u].at + SessionTTL
        BY <1>2, <2>2
      <3>2. u \in Owners \/ (lost[u] # None /\ sessions[u].at <= lost[u])
        BY <1>0, <3>1 DEF OwnersSignedIn
      <3>3. /\ sessions[u].at \in Nat /\ SessionTTL \in Nat
            /\ lost[u] # None => lost[u] \in Nat
        BY <1>0, <3>1, AccessAssumption DEF MembersTyped
      <3> QED
        BY <2>2, <3>1, <3>2, <3>3
    <2> QED
      BY <2>1, <2>2
  <1> QED
    BY <1>3, <1>4, <1>5, <1>6 DEF AccessInv

LEMMA AccessStep ==
  ASSUME AccessInv, [Next]_vars
  PROVE  AccessInv'
  <1>0. /\ AccessTypeOK /\ MembersTyped /\ TypeOK
        /\ EmptyWorkspace /\ AnOwnerRemains /\ OwnersSignedIn /\ SessionsBegan /\ OwnersAdmitted
    BY AccessTyped DEF AccessInv, AccessTypeOK
  <1>1. TypeOK'
    BY <1>0, StepsOfTheServer, StepTyped
  <1>c. now \in Nat /\ now' \in Nat /\ now <= now'
    BY <1>0, StepsOfTheServer, ClockRuns
  <1> DEFINE Keeps(w) == /\ \/ sessions'[w] \in {sessions[w], None}
                            \/ sessions'[w] # None => sessions'[w].at = now
                         /\ held'[w] \in {held[w], None}
  <1>s. ASSUME \A w \in Users : Keeps(w)
        PROVE  SessionsBegan'
    <2> SUFFICES ASSUME NEW w \in Users
                 PROVE  /\ sessions'[w] # None => sessions'[w].at <= now'
                        /\ held'[w] # None => held'[w].since <= now'
      BY DEF SessionsBegan
    <2>1. /\ sessions[w] # None => sessions[w].at \in Nat /\ sessions[w].at <= now
          /\ held[w] # None => held[w].since \in Nat /\ held[w].since <= now
      BY <1>0 DEF MembersTyped, SessionsBegan, HeldRequest
    <2>2. CASE sessions'[w] = sessions[w]
      BY <1>c, <1>s, <2>1, <2>2
    <2>3. CASE sessions'[w] # None => sessions'[w].at = now
      BY <1>c, <1>s, <2>1, <2>3
    <2> QED
      BY <1>s, <2>2, <2>3
  <1>2. ASSUME UNCHANGED memberVars
        PROVE  AccessInv'
    <2>1. Active' = Active /\ Owners' = Owners
      BY <1>2 DEF memberVars, Active, Owners
    <2>2. AccessTypeOK'
      BY <1>0, <1>1, <1>2 DEF memberVars, AccessTypeOK
    <2>k. \A w \in Users : Keeps(w)
      BY <1>2 DEF memberVars
    <2>3. SessionsBegan'
      BY <1>s, <2>k
    <2> QED
      BY <1>0, <1>2, <2>1, <2>2, <2>3
         DEF memberVars, AccessInv, EmptyWorkspace, AnOwnerRemains, OwnersSignedIn,
             OwnersAdmitted, Admitted, OwnerWhenAdmitted
  <1>3. ASSUME NEW u \in Users, NEW e \in Emails, SignIn(u, e)
        PROVE  AccessInv'
    <2>1. PICK role \in Roles :
            /\ Joins(u, e, role) \/ Returns(u, e, role)
            /\ sessions' = [sessions EXCEPT ![u] = [role |-> role, at |-> now]]
      BY <1>3 DEF SignIn
    <2>2. UNCHANGED <<held, invited, changes, lost, now>>
      BY <1>3 DEF SignIn, oauthVars
    <2>3. /\ members' \in [Users -> Member \cup {None}]
          /\ invites' \in [Emails -> [role : Roles, at : Nat] \cup {None}]
          /\ u \in Active' /\ Active \subseteq Active' /\ Owners \subseteq Owners'
          /\ role = "owner" => u \in Owners'
          /\ Owners' # {}
      <3>1. CASE Joins(u, e, role)
        BY <1>0, <3>1, JoinsAdds DEF EmptyWorkspace, AnOwnerRemains
      <3>2. CASE Returns(u, e, role)
        <4>1. UNCHANGED <<members, invites>> /\ u \in Active /\ role = members[u].role
          BY <3>2 DEF Returns
        <4>2. Active' = Active /\ Owners' = Owners /\ (role = "owner" => u \in Owners)
          BY <4>1 DEF Active, Owners
        <4> QED
          BY <1>0, <4>1, <4>2 DEF MembersTyped, AnOwnerRemains
      <3> QED
        BY <2>1, <3>1, <3>2
    <2>4. /\ sessions' \in [Users -> [role : Roles, at : Nat] \cup {None}]
          /\ \A w \in Users : w # u => sessions'[w] = sessions[w]
          /\ sessions'[u].role = role /\ sessions'[u].at = now
      BY <1>0, <2>1 DEF MembersTyped
    <2>5. AccessTypeOK'
      BY <1>0, <1>1, <2>2, <2>3, <2>4 DEF AccessTypeOK, Member
    <2>6. EmptyWorkspace' /\ AnOwnerRemains'
      BY <1>0, <2>2, <2>3, <2>4 DEF EmptyWorkspace, AnOwnerRemains
    <2>7. OwnersSignedIn' /\ OwnersAdmitted'
      BY <1>0, <2>2, <2>3, <2>4
         DEF OwnersSignedIn, OwnersAdmitted, Admitted, OwnerWhenAdmitted
    <2>k. \A w \in Users : Keeps(w)
      BY <2>2, <2>4
    <2>8. SessionsBegan'
      BY <1>s, <2>k
    <2> QED
      BY <2>5, <2>6, <2>7, <2>8 DEF AccessInv
  <1>4. ASSUME NEW u \in Users, SignOut(u)
        PROVE  AccessInv'
    <2>1. /\ sessions' = [sessions EXCEPT ![u] = None]
          /\ UNCHANGED <<members, invites, held, invited, changes, lost>>
      BY <1>4 DEF SignOut
    <2>2. Active' = Active /\ Owners' = Owners
      BY <2>1 DEF Active, Owners
    <2>3. /\ sessions' \in [Users -> [role : Roles, at : Nat] \cup {None}]
          /\ \A w \in Users : sessions'[w] = sessions[w] \/ sessions'[w] = None
      BY <1>0, <2>1 DEF MembersTyped
    <2>4. AccessTypeOK'
      BY <1>0, <1>1, <2>1, <2>3 DEF AccessTypeOK
    <2>k. \A w \in Users : Keeps(w)
      BY <2>1, <2>3
    <2>5. SessionsBegan'
      BY <1>s, <2>k
    <2> QED
      BY <1>0, <2>1, <2>2, <2>3, <2>4, <2>5
         DEF AccessInv, EmptyWorkspace, AnOwnerRemains, OwnersSignedIn,
             OwnersAdmitted, Admitted, OwnerWhenAdmitted
  <1>5. ASSUME NEW u \in Users, NEW e \in Emails, NEW role \in Roles, Invite(u, e, role)
        PROVE  AccessInv'
    <2>1. /\ invites' = [invites EXCEPT ![e] = [role |-> role, at |-> now]]
          /\ invited' = invited + 1 /\ invited < MaxInvites
          /\ held' = [held EXCEPT ![u] = None]
          /\ UNCHANGED <<members, sessions, changes, lost>>
          /\ held[u] # None
      BY <1>5 DEF Invite, Admitted, Ends
    <2>2. Active' = Active /\ Owners' = Owners /\ u \in Active
      BY <1>0, <2>1 DEF Active, Owners, EmptyWorkspace
    <2>3. invites' \in [Emails -> [role : Roles, at : Nat] \cup {None}]
      BY <1>0, <2>1 DEF MembersTyped
    <2>4. invited' \in 0 .. MaxInvites
      BY <1>0, <2>1, AccessAssumption DEF AccessTypeOK
    <2>h. /\ held' \in [Users -> HeldRequest \cup {None}]
          /\ \A w \in Users : held'[w] \in {held[w], None}
      BY <1>0, <2>1 DEF MembersTyped
    <2>5. AccessTypeOK'
      BY <1>0, <1>1, <2>1, <2>3, <2>4, <2>h DEF AccessTypeOK, HeldRequest
    <2>k. \A w \in Users : Keeps(w)
      BY <2>1, <2>h
    <2>6. SessionsBegan'
      BY <1>s, <2>k
    <2>7. OwnersAdmitted'
      BY <1>0, <2>1, <2>2, <2>h DEF OwnersAdmitted, Admitted, OwnerWhenAdmitted
    <2> QED
      BY <1>0, <2>1, <2>2, <2>5, <2>6, <2>7, <2>h
         DEF AccessInv, EmptyWorkspace, AnOwnerRemains, OwnersSignedIn
  <1>6. ASSUME NEW u \in Users, NEW v \in Users, NEW role \in Roles, ChangeRole(u, v, role)
        PROVE  AccessInv'
    <2>1. /\ changes' = changes + 1 /\ changes < MaxChanges
          /\ lost' = IF v \in Owners /\ role # "owner" THEN [lost EXCEPT ![v] = now] ELSE lost
          /\ held' = [held EXCEPT ![u] = None]
          /\ UNCHANGED <<invites, sessions, invited>>
      BY <1>6 DEF ChangeRole, Ends
    <2>2. /\ members' \in [Users -> Member \cup {None}]
          /\ Active' = Active
          /\ Owners' = IF role = "owner" THEN Owners \cup {v} ELSE Owners \ {v}
          /\ Owners # {} => Owners' # {}
      BY <1>0, <1>6, ChangeKeepsAnOwner
    <2>3. changes' \in 0 .. MaxChanges
      BY <1>0, <2>1, AccessAssumption DEF AccessTypeOK
    <2>4. lost' \in [Users -> Nat \cup {None}]
      BY <1>0, <2>1 DEF MembersTyped
    <2>h. /\ held' \in [Users -> HeldRequest \cup {None}]
          /\ \A w \in Users : held'[w] \in {held[w], None}
      BY <1>0, <2>1 DEF MembersTyped
    <2>5. AccessTypeOK'
      BY <1>0, <1>1, <2>1, <2>2, <2>3, <2>4, <2>h DEF AccessTypeOK, Member, HeldRequest
    <2>6. EmptyWorkspace' /\ AnOwnerRemains'
      BY <1>0, <2>1, <2>2, <2>h DEF EmptyWorkspace, AnOwnerRemains
    <2>v. ASSUME NEW w \in Users
          PROVE  \/ lost'[w] = now /\ w = v
                 \/ lost'[w] = lost[w] /\ (w \in Owners => w \in Owners')
      BY <1>0, <2>1, <2>2 DEF MembersTyped
    <2>7. OwnersSignedIn'
      <3> SUFFICES ASSUME NEW w \in Users, sessions[w] # None, sessions[w].role = "owner"
                   PROVE  w \in Owners' \/ (lost'[w] # None /\ sessions[w].at <= lost'[w])
        BY <2>1 DEF OwnersSignedIn
      <3>1. w \in Owners \/ (lost[w] # None /\ sessions[w].at <= lost[w])
        BY <1>0 DEF OwnersSignedIn
      <3> QED
        BY <1>0, <2>v, <3>1 DEF MembersTyped, SessionsBegan
    <2>k. \A w \in Users : Keeps(w)
      BY <2>1, <2>h
    <2>8. SessionsBegan'
      BY <1>s, <2>k
    <2>9. OwnersAdmitted'
      <3> SUFFICES ASSUME NEW w \in Users, held'[w] # None, held'[w].owner
                   PROVE  \/ w \in Owners'
                          \/ lost'[w] # None /\ held'[w].since < lost'[w] + SessionTTL
        BY DEF OwnersAdmitted, Admitted, OwnerWhenAdmitted
      <3>1. /\ held'[w] = held[w]
            /\ w \in Owners \/ (lost[w] # None /\ held[w].since < lost[w] + SessionTTL)
        BY <1>0, <2>h DEF OwnersAdmitted, Admitted, OwnerWhenAdmitted
      <3>2. held[w].since \in Nat /\ held[w].since <= now /\ SessionTTL \in Nat \ {0}
        BY <1>0, <3>1, AccessAssumption DEF MembersTyped, HeldRequest, SessionsBegan
      <3>3. CASE lost'[w] = now
        BY <1>0, <3>1, <3>2, <3>3 DEF MembersTyped
      <3> QED
        BY <2>v, <3>1, <3>3
    <2> QED
      BY <2>5, <2>6, <2>7, <2>8, <2>9 DEF AccessInv
  <1>7. CASE TokenEndpoint \/ UNCHANGED vars
    BY <1>2, <1>7 DEF TokenEndpoint, vars
  <1>8. ASSUME NEW u \in Users, Begin(u) \/ Abandon(u) \/ \E g \in Grants : Decide(u, g)
        PROVE  AccessInv'
    <2>1. /\ UNCHANGED <<members, invites, sessions, invited, changes, lost>>
          /\ \/ held' = [held EXCEPT ![u] = None]
             \/ /\ Signed(u)
                /\ held' = [held EXCEPT ![u] =
                     [owner |-> sessions[u].role = "owner", at |-> sessions[u].at, since |-> now]]
      BY <1>8 DEF Begin, Abandon, Decide, Ends
    <2> QED
      BY <1>1, <1>c, <2>1, RequestsOnly
  <1> QED
    BY <1>3, <1>4, <1>5, <1>6, <1>7, <1>8, OfferedRoles DEF Next

LEMMA AccessHolds == Spec => []AccessInv
  BY AccessStart, AccessStep, PTL DEF Spec

\* Members, invitations and cookies keep their shapes and the bounds theirs, through
\* every sign-in, invitation and role change and every step of the token endpoint.
THEOREM AccessTypes == Spec => []AccessTypeOK
  BY AccessHolds, PTL DEF AccessInv

\* A workspace with members has an owner: the check of update_workspace_member_role and
\* the role of the first member keep one, whatever roles the sessions still claim.
THEOREM SomeOwnerRemains == Spec => []AnOwnerRemains
  BY AccessHolds, PTL DEF AccessInv

LEMMA DecidesStep ==
  ASSUME AccessInv, [Next]_vars
  PROVE  [ \A u \in Users :
             \/ \E e \in Emails, role \in Offered : Invite(u, e, role)
             \/ \E v \in Users, role \in Offered : ChangeRole(u, v, role)
             => OwnerWhenAdmitted(u) ]_vars
  BY DEF AccessInv, OwnersAdmitted, Invite, ChangeRole

\* Whoever writes an invitation or changes a role is an owner, or ceased to be one less
\* than a session's lifetime before the server took the request up, or since: the cabinet
\* reads the role from the cookie, and reads it before it awaits the body
\* (admin.py, admin_endpoint and _read_json).
THEOREM OnlyOwnersDecide == Spec => OwnersDecide
  BY AccessHolds, DecidesStep, PTL DEF Spec, OwnersDecide

===============================================================================
