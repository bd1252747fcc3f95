----------------------------- MODULE OAuthTokens ------------------------------
(***************************************************************************)
(* The OAuth server that ChatGPT signs in with                             *)
(* (src/app/oauth_server.py, PersistentOAuthProvider): authorization       *)
(* requests, consents, codes, and families of access and refresh tokens.   *)
(*                                                                         *)
(* Each method of the provider is one transaction.  The token endpoint of  *)
(* the mcp library, which is not part of the repository, loads a code or a *)
(* token with one method and exchanges it with another; nothing is held in *)
(* between, so other requests, the clock and a restart may come there.     *)
(*                                                                         *)
(* Rows are never updated, so a table is the set of the numbers of its     *)
(* rows: a pending authorization and the code it becomes share the number  *)
(* of the grant, an access token and the refresh token issued with it the  *)
(* number of the pair.  Scopes, challenges and redirect addresses are left *)
(* out: a request they refuse changes nothing.                             *)
(***************************************************************************)
EXTENDS Integers, Sequences, FiniteSets

CONSTANTS
    Clients,      \* registered OAuth clients
    Users,        \* OIDC subjects
    Nobody,       \* no subject yet
    Slots,        \* requests that the token endpoint handles beside each other
    CodeTTL, AccessTTL, RefreshTTL,  \* ticks a row lives
    MaxGrants,    \* bound: authorization requests
    MaxPairs,     \* bound: token pairs issued
    MaxTime       \* bound: ticks of the clock

ASSUME OAuthAssumption ==
    /\ Nobody \notin Users
    /\ {CodeTTL, AccessTTL, RefreshTTL} \subseteq Nat \ {0}
    /\ {MaxGrants, MaxPairs, MaxTime} \subseteq Nat

VARIABLES
    now,       \* the clock
    grants,    \* authorization requests: client, subject once consented, time of the row
    pending,   \* oauth_pending_authorizations
    codes,     \* oauth_authorization_codes
    pairs,     \* token pairs ever inserted: family, client, time
    access,    \* oauth_access_tokens
    refresh,   \* oauth_refresh_tokens
    hand,      \* what each request of the token endpoint has loaded
    \* what happened, for the properties only
    families,  \* per family, in the order they began, the grant it was issued for
    revoked    \* families that were revoked

oauthVars == <<now, grants, pending, codes, pairs, access, refresh, hand, families, revoked>>

Grants == 1 .. Len(grants)
Pairs == 1 .. Len(pairs)
Families == 1 .. Len(families)
Nothing == [kind |-> "none", id |-> 0, client |-> Nobody]

TypeOK ==
    /\ now \in 0 .. MaxTime
    /\ grants \in Seq([client : Clients, by : Users \cup {Nobody}, at : Nat])
    /\ Len(grants) <= MaxGrants
    /\ pairs \in Seq([family : Nat, client : Clients, at : Nat])
    /\ Len(pairs) <= MaxPairs
    /\ pending \subseteq Grants /\ codes \subseteq Grants
    /\ access \subseteq Pairs /\ refresh \subseteq Pairs
    /\ families \in Seq(Nat)
    /\ \A f \in Families : families[f] \in Grants
    /\ \A n \in Pairs : pairs[n].family \in Families
    /\ revoked \subseteq Families
    /\ hand \in [Slots -> {Nothing}
         \cup [kind : {"code", "refresh", "revoke"}, id : Nat, client : Clients]]
    /\ \A s \in Slots :
         /\ hand[s].kind = "code" => hand[s].id \in Grants
         /\ hand[s].kind \in {"refresh", "revoke"} => hand[s].id \in Pairs

OAuthInit ==
    /\ now = 0
    /\ grants = <<>> /\ pairs = <<>> /\ families = <<>>
    /\ pending = {} /\ codes = {} /\ access = {} /\ refresh = {} /\ revoked = {}
    /\ hand = [s \in Slots |-> Nothing]

-------------------------------------------------------------------------------
\* What the tables hold at this time; _cleanup_expired deletes the rest.
FreshPending == {g \in pending : now < grants[g].at + CodeTTL}
FreshCodes == {g \in codes : now < grants[g].at + CodeTTL}
FreshAccess == {n \in access : now < pairs[n].at + AccessTTL}
FreshRefresh == {n \in refresh : now < pairs[n].at + RefreshTTL}

CleanTokens ==
    /\ access' = FreshAccess
    /\ refresh' = FreshRefresh

CleanAll ==
    /\ pending' = FreshPending
    /\ codes' = FreshCodes
    /\ CleanTokens

\* authorize
Authorize(c) ==
    /\ Len(grants) < MaxGrants
    /\ grants' = Append(grants, [client |-> c, by |-> Nobody, at |-> now])
    /\ pending' = FreshPending \cup {Len(grants) + 1}
    /\ codes' = FreshCodes
    /\ CleanTokens
    /\ UNCHANGED <<now, pairs, hand, families, revoked>>

\* pending_authorization, and every load that finds nothing
CleanUp ==
    /\ CleanAll
    /\ UNCHANGED <<now, grants, pairs, hand, families, revoked>>

\* complete_authorization with approved, by the user who is signed in
Approve(g, u) ==
    /\ g \in FreshPending
    /\ grants' = [grants EXCEPT ![g].by = u, ![g].at = now]
    /\ codes' = FreshCodes \cup {g}
    /\ pending' = FreshPending \ {g}
    /\ CleanTokens
    /\ UNCHANGED <<now, pairs, hand, families, revoked>>

Deny(g) ==
    /\ g \in FreshPending
    /\ pending' = FreshPending \ {g}
    /\ codes' = FreshCodes
    /\ CleanTokens
    /\ UNCHANGED <<now, grants, pairs, hand, families, revoked>>

\* The client's own row, not expired: the WHERE clause of both exchanges.
OwnCode(g, c) == g \in FreshCodes /\ grants[g].client = c
OwnRefresh(n, c) == n \in FreshRefresh /\ pairs[n].client = c

Load(s, kind, id, c) ==
    /\ hand[s] = Nothing
    /\ hand' = [hand EXCEPT ![s] = [kind |-> kind, id |-> id, client |-> c]]
    /\ CleanAll
    /\ UNCHANGED <<now, grants, pairs, families, revoked>>

LoadCode(s, g, c) == OwnCode(g, c) /\ Load(s, "code", g, c)
LoadRefresh(s, n, c) == OwnRefresh(n, c) /\ Load(s, "refresh", n, c)

\* The library's revocation handler: it loads either kind and compares the client.
LoadRevoke(s, n, c) ==
    /\ n \in FreshAccess \cup FreshRefresh
    /\ pairs[n].client = c
    /\ Load(s, "revoke", n, c)

\* _insert_token_pair
InsertPair(f, c) ==
    pairs' = Append(pairs, [family |-> f, client |-> c, at |-> now])

\* Mutant of Done: the row the request loaded is kept.
DoneKeepsRow(s) == hand' = [hand EXCEPT ![s].kind = "none"]

Done(s) == hand' = [hand EXCEPT ![s] = Nothing]

\* Mutant of ExchangeCode: nobody asks whether the DELETE found the row.
ExchangeCodeAgain(s) ==
    LET g == hand[s].id
        c == hand[s].client
    IN  /\ hand[s].kind = "code"
        /\ Len(pairs) < MaxPairs
        /\ codes' = codes \ {g}
        /\ families' = Append(families, g)
        /\ InsertPair(Len(families) + 1, c)
        /\ access' = access \cup {Len(pairs) + 1}
        /\ refresh' = refresh \cup {Len(pairs) + 1}
        /\ Done(s)
        /\ UNCHANGED <<now, grants, pending, revoked>>

\* exchange_authorization_code, when its DELETE finds the row
ExchangeCode(s) ==
    LET g == hand[s].id
        c == hand[s].client
    IN  /\ hand[s].kind = "code"
        /\ OwnCode(g, c)
        /\ Len(pairs) < MaxPairs
        /\ codes' = codes \ {g}
        /\ families' = Append(families, g)
        /\ InsertPair(Len(families) + 1, c)
        /\ access' = access \cup {Len(pairs) + 1}
        /\ refresh' = refresh \cup {Len(pairs) + 1}
        /\ Done(s)
        /\ UNCHANGED <<now, grants, pending, revoked>>

OfFamily(f) == {n \in Pairs : pairs[n].family = f}

\* Mutant of ExchangeRefresh: the old access token is left to expire.
RefreshKeepsAccess(s) ==
    LET n == hand[s].id
        c == hand[s].client
    IN  /\ hand[s].kind = "refresh"
        /\ OwnRefresh(n, c)
        /\ Len(pairs) < MaxPairs
        /\ InsertPair(pairs[n].family, c)
        /\ refresh' = (refresh \ {n}) \cup {Len(pairs) + 1}
        /\ access' = access \cup {Len(pairs) + 1}
        /\ Done(s)
        /\ UNCHANGED <<now, grants, pending, codes, families, revoked>>

\* exchange_refresh_token, when its DELETE finds the row
ExchangeRefresh(s) ==
    LET n == hand[s].id
        c == hand[s].client
        f == pairs[n].family
    IN  /\ hand[s].kind = "refresh"
        /\ OwnRefresh(n, c)
        /\ Len(pairs) < MaxPairs
        /\ InsertPair(f, c)
        /\ refresh' = (refresh \ {n}) \cup {Len(pairs) + 1}
        /\ access' = (access \ OfFamily(f)) \cup {Len(pairs) + 1}
        /\ Done(s)
        /\ UNCHANGED <<now, grants, pending, codes, families, revoked>>

\* "Authorization code was already used", "Refresh token was already used"
ExchangeFails(s) ==
    /\ \/ hand[s].kind = "code" /\ ~ OwnCode(hand[s].id, hand[s].client)
       \/ hand[s].kind = "refresh" /\ ~ OwnRefresh(hand[s].id, hand[s].client)
    /\ Done(s)
    /\ UNCHANGED <<now, grants, pending, codes, pairs, access, refresh, families, revoked>>

\* Mutant of Revoke: only the table the token was found in is cleared.
RevokeAccessOnly(s) ==
    LET f == pairs[hand[s].id].family
    IN  /\ hand[s].kind = "revoke"
        /\ access' = access \ OfFamily(f)
        /\ revoked' = revoked \cup {f}
        /\ Done(s)
        /\ UNCHANGED <<now, grants, pending, codes, pairs, refresh, families>>

\* revoke_token
Revoke(s) ==
    LET f == pairs[hand[s].id].family
    IN  /\ hand[s].kind = "revoke"
        /\ access' = access \ OfFamily(f)
        /\ refresh' = refresh \ OfFamily(f)
        /\ revoked' = revoked \cup {f}
        /\ Done(s)
        /\ UNCHANGED <<now, grants, pending, codes, pairs, families>>

\* The library refuses what it loaded, or the server restarts under the request.
GiveUp(s) ==
    /\ hand[s] # Nothing
    /\ Done(s)
    /\ UNCHANGED <<now, grants, pending, codes, pairs, access, refresh, families, revoked>>

Tick ==
    /\ now < MaxTime
    /\ now' = now + 1
    /\ UNCHANGED <<grants, pending, codes, pairs, access, refresh, hand, families, revoked>>

Request(s) ==
    \/ \E c \in Clients :
         \/ \E g \in Grants : LoadCode(s, g, c)
         \/ \E n \in Pairs : LoadRefresh(s, n, c) \/ LoadRevoke(s, n, c)
    \/ ExchangeCode(s) \/ ExchangeRefresh(s) \/ ExchangeFails(s)
    \/ Revoke(s) \/ GiveUp(s)

OAuthNext ==
    \/ \E c \in Clients : Authorize(c)
    \/ CleanUp
    \/ \E g \in Grants : Deny(g) \/ \E u \in Users : Approve(g, u)
    \/ \E s \in Slots : Request(s)
    \/ Tick

OAuthSpec == OAuthInit /\ [][OAuthNext]_oauthVars

-------------------------------------------------------------------------------
\* Only the pair a family was given last can still be used: whatever the order of
\* exchanges, a second use of a refresh token or of the access token that was rotated
\* away with it finds no row (exchange_refresh_token deletes before it inserts).
OnlyNewestPairAnswers ==
    \A n \in access \cup refresh : \A m \in OfFamily(pairs[n].family) : m <= n

\* A revoked family holds no token, also when a refresh of it was loaded before the
\* revocation and is exchanged after it (revoke_token, exchange_refresh_token).
RevokedFamiliesStayDead ==
    \A n \in access \cup refresh : pairs[n].family \notin revoked

\* A client is only ever given tokens for a grant it asked for itself and that a user
\* consented to (client_id in the WHERE clauses of the loads and of the exchanges).
TokensStayWithClient ==
    \A n \in Pairs : LET g == families[pairs[n].family]
                     IN  grants[g].client = pairs[n].client /\ grants[g].by \in Users

\* The abstract families: rows that have expired are gone, deleted or not.
OpenConsents == FreshCodes
Consented == {g \in Grants : grants[g].by # Nobody}
Holders == [f \in Families |-> FreshRefresh \cap OfFamily(f)]

Promise == INSTANCE TokenFamilies WITH
    Consents <- 1 .. MaxGrants,
    open <- OpenConsents,
    spent <- Consented \ OpenConsents,
    holders <- Holders,
    issued <- Len(pairs)

\* The provider implements TokenFamilies: a code becomes one family at most, a family
\* rotates through one refresh token at a time, and one that expired or was revoked
\* never lives again, whatever clean-up has or has not deleted yet.
ImplementsFamilies == Promise!FamSpec

===============================================================================
