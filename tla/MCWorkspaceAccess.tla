-------------------------- MODULE MCWorkspaceAccess ---------------------------
(***************************************************************************)
(* TLC instance of WorkspaceAccess: users are alike, and so are the        *)
(* requests of the token endpoint.  What tells states apart is left of     *)
(* them: an invitation, a cookie or a row of tokens that has expired       *)
(* enables nothing that none at all would not; clean-up, which most steps  *)
(* begin with, deletes such rows; of a role it matters only if it is the   *)
(* owner's; and what OwnersDecide asks of a request, whether the loss of   *)
(* the role explains it, is settled while its user is an owner, who can    *)
(* only lose the role later.                                               *)
(***************************************************************************)
EXTENDS WorkspaceAccess, TLC

Symmetry == Permutations(Slots) \cup Permutations(Users)

IsOwner(role) == role = "owner"

Member(u) == IF u \in Active THEN <<members[u].email, u \in Owners>> ELSE None
Invitation(e) == IF OpenInvite(e) THEN <<IsOwner(invites[e].role), invites[e].at>> ELSE None
Session(u) == IF Signed(u) THEN <<IsOwner(sessions[u].role), sessions[u].at>> ELSE None

\* A request under way: is its cookie an owner's, is it fresh and until when, and is there
\* nothing to explain.
UnderWay(u) ==
    IF held[u] = None THEN None
    ELSE <<held[u].owner,
           IF Fresh(held[u]) THEN held[u].at ELSE None,
           held[u].owner => OwnerWhenAdmitted(u)>>

\* The loss of the role, as far as it explains a request that begins now.
Loss(u) == IF u \notin Owners /\ lost[u] # None /\ now < lost[u] + SessionTTL
           THEN lost[u] ELSE None

\* The tables of the OAuth server without the rows that have expired: none of them is
\* found again, and the clean-up of most steps deletes them.
FreshRows ==
    <<FreshPending, FreshCodes, FreshAccess, FreshRefresh,
      [n \in Pairs |-> <<pairs[n].family, pairs[n].client,
                        IF n \in FreshAccess \cup FreshRefresh THEN pairs[n].at ELSE None>>]>>

WhatMatters ==
    <<FreshRows, now, grants, hand, families, revoked, invited, changes, [e \in Emails |-> Invitation(e)],
      [u \in Users |-> <<Member(u), Session(u), UnderWay(u), Loss(u)>>]>>

===============================================================================
